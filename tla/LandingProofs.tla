--------------------------- MODULE LandingProofs ---------------------------
(***************************************************************************)
(* Theorems about Landing, for every tree of nodes and all bounds.         *)
(***************************************************************************)
EXTENDS Landing, TLAPS, WellFoundedInduction

(* A chain that runs has a worker, one that integrates has a reviewed       *)
(* result, and an operation was made for one.                              *)
Wellformed(s) ==
  \A n \in Nodes :
    /\ s.chain[n].phase # "none" => s.chain[n].handle # 0
    /\ s.chain[n].phase = "integrate" => s.result[n] # 0
    /\ s.op[n].at # "none" => s.op[n].result # 0

(* The call that holds the lock is one, and past its intent it has an       *)
(* operation in memory.                                                    *)
TaskOK ==
  /\ task.step # "idle" => task.call \in Call
  /\ task.step \in {"gates", "merge", "record"} => mem.op[task.call.node].at # "none"

TypeInv == TypeOK /\ Wellformed(mem) /\ Wellformed(disk) /\ TaskOK

-----------------------------------------------------------------------------
(* What the operators on the state file keep.                              *)

Good(s) == s \in State /\ Wellformed(s)

(* recordLanding keeps the state well formed.                              *)
LEMMA RecordedGood ==
  ASSUME NEW s, Good(s), NEW n \in Nodes, s.op[n].at # "none"
  PROVE  Good(Recorded(s, n))
<1> DEFINE r == Recorded(s, n)
<1>1. s \in State /\ Wellformed(s)
  BY DEF Good
<1>2. r.landed \in [Nodes -> Dests \cup {NoDest}]
  BY <1>1, TreeAssumption DEF Recorded, State
<1>3. s.op[n] \in Operation /\ s.op[n].result \in 0..MaxReports
  BY <1>1 DEF State, Operation
<1>4. r.result \in [Nodes -> 0..MaxReports]
  BY <1>1, <1>3 DEF Recorded, State
<1>5. r.op = [s.op EXCEPT ![n].at = "landed"]
  BY <1>1 DEF Recorded, State
<1>6. r.op \in [Nodes -> Operation]
  <2>1. s.op \in [Nodes -> Operation]
    BY <1>1 DEF State
  <2>2. s.op[n] \in Operation /\ [s.op[n] EXCEPT !.at = "landed"] \in Operation
    BY <2>1 DEF Operation
  <2> QED BY <1>5, <2>1, <2>2
<1>7. r = [s EXCEPT !.landed = r.landed, !.result = r.result, !.op = r.op]
  BY <1>1 DEF Recorded, State
<1>8. r \in State
  BY <1>1, <1>2, <1>4, <1>6, <1>7 DEF State
<1>9. r.chain = s.chain
  BY <1>1 DEF Recorded, State
<1>10. ASSUME NEW m \in Nodes
       PROVE  /\ r.op[m].at # "none" => r.op[m].result # 0
              /\ s.result[m] # 0 => r.result[m] # 0
  <2>1. s.op[m].at # "none" => s.op[m].result # 0
    BY <1>1 DEF Wellformed
  <2>2. s.op \in [Nodes -> Operation] /\ s.op[m] \in Operation
    BY <1>1 DEF State
  <2>3. r.op[m].result = s.op[m].result
    BY <1>5, <2>2 DEF Operation
  <2>4. m # n => r.op[m].at = s.op[m].at
    BY <1>5, <2>2
  <2>5. r.result[m] = IF m = n THEN s.op[n].result ELSE s.result[m]
    BY <1>1 DEF Recorded, State
  <2> QED BY <2>1, <2>3, <2>4, <2>5
<1>11. Wellformed(r)
  BY <1>1, <1>9, <1>10 DEF Wellformed
<1> QED BY <1>8, <1>11 DEF Good

(* receiptWorkers and the deletion of the chain keep the state well formed. *)
LEMMA ReceiptedGood ==
  ASSUME NEW s, Good(s), NEW n \in Nodes
  PROVE  /\ Good(Receipted(s, n))
         /\ \A m \in Nodes : Receipted(s, n).op[m].at = s.op[m].at
         /\ Receipted(s, n).landed = s.landed /\ Receipted(s, n).result = s.result
         /\ Receipted(s, n).closedAt = s.closedAt
<1> DEFINE r == Receipted(s, n)
           c == s.chain[n]
           workers == s.op[n].workers \cup c.workers \cup ({c.handle} \ {0})
<1>1. s \in State /\ Wellformed(s)
  BY DEF Good
<1>2. s.op[n] \in Operation /\ c \in Chain
  BY <1>1 DEF State
<1>3. workers \in SUBSET Workers
  BY <1>2, BoundAssumption DEF Operation, Chain, Workers
<1>4. [s.op[n] EXCEPT !.workers = workers] \in Operation
  BY <1>2, <1>3 DEF Operation
<1>5. r.op = [s.op EXCEPT ![n] = [s.op[n] EXCEPT !.workers = workers]]
  BY <1>1 DEF Receipted, State
<1>6. r.op \in [Nodes -> Operation]
  BY <1>1, <1>4, <1>5 DEF State
<1>7. r.chain = [s.chain EXCEPT ![n] = NoChain]
  BY <1>1 DEF Receipted, State
<1>8. NoChain \in Chain
  BY BoundAssumption DEF NoChain, Chain
<1>9. r = [s EXCEPT !.op = r.op, !.chain = r.chain]
  BY <1>1 DEF Receipted, State
<1>10. r.chain \in [Nodes -> Chain]
  BY <1>1, <1>7, <1>8 DEF State
<1>11. r \in State
  BY <1>1, <1>6, <1>9, <1>10 DEF State
<1>12. ASSUME NEW m \in Nodes
       PROVE  /\ r.chain[m].phase # "none" => r.chain[m] = s.chain[m]
              /\ r.op[m].at = s.op[m].at /\ r.op[m].result = s.op[m].result
  <2>1. s.op \in [Nodes -> Operation] /\ s.chain \in [Nodes -> Chain]
    BY <1>1 DEF State
  <2>2. r.chain[m] = IF m = n THEN NoChain ELSE s.chain[m]
    BY <1>7, <2>1
  <2>3. r.op[m] = IF m = n THEN [s.op[n] EXCEPT !.workers = workers] ELSE s.op[m]
    BY <1>5, <2>1
  <2>4. r.op[m].at = s.op[m].at /\ r.op[m].result = s.op[m].result
    BY <1>2, <2>3 DEF Operation
  <2> QED BY <2>2, <2>4 DEF NoChain
<1>13. r.landed = s.landed /\ r.result = s.result /\ r.closedAt = s.closedAt
  BY <1>1 DEF Receipted, State
<1>14. Wellformed(r)
  BY <1>1, <1>12, <1>13 DEF Wellformed
<1> QED BY <1>11, <1>12, <1>13, <1>14 DEF Good

(* A chain put in place of another.                                        *)
LEMMA ChainGood ==
  ASSUME NEW s, Good(s), NEW n \in Nodes, NEW c \in Chain,
         c.phase # "none" => c.handle # 0,
         c.phase = "integrate" => s.result[n] # 0
  PROVE  Good([s EXCEPT !.chain[n] = c])
<1> DEFINE r == [s EXCEPT !.chain[n] = c]
<1>1. s \in State /\ Wellformed(s) /\ s.chain \in [Nodes -> Chain]
  BY DEF Good, State
<1>2. r.chain = [s.chain EXCEPT ![n] = c] /\ r.op = s.op /\ r.result = s.result
  BY <1>1 DEF State
<1>3. r \in State
  BY <1>1 DEF State
<1>4. \A m \in Nodes : r.chain[m] = IF m = n THEN c ELSE s.chain[m]
  BY <1>1, <1>2
<1>5. Wellformed(r)
  BY <1>1, <1>2, <1>4 DEF Wellformed
<1> QED BY <1>3, <1>5 DEF Good

(* An operation put in place of another.                                   *)
LEMMA OperationGood ==
  ASSUME NEW s, Good(s), NEW n \in Nodes, NEW o \in Operation,
         o.at # "none" => o.result # 0
  PROVE  Good([s EXCEPT !.op[n] = o])
<1> DEFINE r == [s EXCEPT !.op[n] = o]
<1>1. s \in State /\ Wellformed(s) /\ s.op \in [Nodes -> Operation]
  BY DEF Good, State
<1>2. r.op = [s.op EXCEPT ![n] = o] /\ r.chain = s.chain /\ r.result = s.result
  BY <1>1 DEF State
<1>3. r \in State
  BY <1>1 DEF State
<1>4. \A m \in Nodes : r.op[m] = IF m = n THEN o ELSE s.op[m]
  BY <1>1, <1>2
<1>5. Wellformed(r)
  BY <1>1, <1>2, <1>4 DEF Wellformed
<1> QED BY <1>3, <1>5 DEF Good

(* A state that differs only in what Wellformed says nothing of.           *)
LEMMA RestGood ==
  ASSUME NEW s, Good(s), NEW r \in State,
         r.chain = s.chain, r.op = s.op, r.result = s.result
  PROVE  Good(r)
BY DEF Good, Wellformed

(* stop's last save keeps the state well formed.                           *)
LEMMA StoppedGood ==
  ASSUME NEW s, Good(s), work \in [Nodes -> [Workers -> SUBSET Commits]]
  PROVE  Good(Stopped(s))
<1> DEFINE r == Stopped(s)
<1>1. s \in State /\ Wellformed(s)
  BY DEF Good
<1>2. NoChain \in Chain
  BY BoundAssumption DEF NoChain, Chain
<1>3. Resumed(s) \in [Nodes -> SUBSET Commits]
  <2>1. ASSUME NEW n \in Nodes
        PROVE  Resumed(s)[n] \in SUBSET Commits
    <3>1. s.chain[n] \in Chain /\ s.resume[n] \in SUBSET Commits
      BY <1>1 DEF State
    <3>2. s.chain[n].handle # 0 => s.chain[n].handle \in Workers
      BY <3>1, BoundAssumption DEF Chain, Workers
    <3>3. s.chain[n].handle # 0 => work[n][s.chain[n].handle] \in SUBSET Commits
      BY <3>2
    <3> QED BY <3>1, <3>3 DEF Resumed
  <2> QED BY <2>1 DEF Resumed
<1>4. r \in State
  BY <1>1, <1>2, <1>3 DEF Stopped, State
<1>5. Wellformed(r)
  BY <1>1 DEF Stopped, State, Wellformed, NoChain
<1> QED BY <1>4, <1>5 DEF Good

(* The head of a branch is a report's number.                              *)
LEMMA HeadType ==
  ASSUME NEW n, NEW w
  PROVE  HeadOf(n, w) \in 0..MaxReports
BY BoundAssumption DEF HeadOf, Reports

-----------------------------------------------------------------------------
(* Steps, by what they do to the state file and its copy in memory.        *)

(* The steps that leave both as they are.                                  *)
Still ==
  \/ \E n \in Nodes :
       \/ FileIssue(n) \/ MakeTree(n) \/ Commit(n) \/ ResumeIntegrate(n)
       \/ CloseInTracker(n) \/ RemoveTree(n)
       \/ \E w \in Workers : RetireWorker(n, w)
  \/ \E c \in Call : TakeLock(c) \/ ReplayLanded(c) \/ Merge(c)
  \/ Boot \/ Recovered \/ CloseFails \/ EndClose \/ EndSweep \/ EndClean
  \/ EndVisit \/ TickFails \/ NextTick \/ Start

(* The steps of one node that write them.                                  *)
NodeWrites(n) ==
  \/ RecordCollector(n) \/ StartChain(n) \/ ReplaceWorker(n) \/ ReportDone(n)
  \/ RecoverLanding(n) \/ SaveClosed(n) \/ SweepChain(n) \/ FinishCleanup(n)

(* The steps of one landing that write them.                               *)
CallWrites(c) ==
  \/ ReplayReached(c) \/ Intend(c) \/ Prepare(c) \/ Record(c)
  \/ RecordRefused(c) \/ SendBack(c) \/ Finish(c)

(* Every step is one of these.                                             *)
LEMMA StepCases ==
  Next => \/ Still
          \/ \E n \in Nodes : NodeWrites(n)
          \/ \E c \in Call : CallWrites(c)
          \/ BeginClose \/ Flush \/ Crash \/ Stop
<1> SUFFICES ASSUME Next
             PROVE  \/ Still
                    \/ \E n \in Nodes : NodeWrites(n)
                    \/ \E c \in Call : CallWrites(c)
                    \/ BeginClose \/ Flush \/ Crash \/ Stop
  OBVIOUS
<1>1. CASE \E n \in Nodes : FileIssue(n) \/ Walk(n)
  BY <1>1 DEF Walk, Still, NodeWrites
<1>2. CASE \E c \in Call : Land(c)
  BY <1>2 DEF Land, Still, CallWrites
<1>3. CASE Tick
  BY <1>3 DEF Tick, Still, NodeWrites
<1>4. CASE Flush \/ Crash \/ Start \/ Stop
  BY <1>4 DEF Still
<1> QED BY <1>1, <1>2, <1>3, <1>4 DEF Next

(* The steps of Still leave every part of the ledger as it was.            *)
LEMMA StillLedger == Still => UNCHANGED ledger
<1> USE DEF ledger
<1>1. ASSUME NEW n \in Nodes
      PROVE  \/ FileIssue(n) \/ MakeTree(n) \/ Commit(n) \/ ResumeIntegrate(n)
             \/ CloseInTracker(n) \/ RemoveTree(n)
             \/ \E w \in Workers : RetireWorker(n, w)
             => UNCHANGED ledger
  BY DEF FileIssue, MakeTree, Commit, ResumeIntegrate, CloseInTracker, RemoveTree, RetireWorker
<1>2. ASSUME NEW c \in Call
      PROVE  TakeLock(c) \/ ReplayLanded(c) \/ Merge(c) => UNCHANGED ledger
  BY DEF TakeLock, ReplayLanded, Merge
<1>3. Boot \/ Recovered \/ CloseFails \/ EndClose \/ EndSweep => UNCHANGED ledger
  BY DEF Boot, Recovered, CloseFails, EndClose, EndSweep
<1>4. EndClean \/ EndVisit \/ TickFails \/ NextTick \/ Start => UNCHANGED ledger
  BY DEF EndClean, EndVisit, TickFails, NextTick, Start
<1> QED BY <1>1, <1>2, <1>3, <1>4 DEF Still

(* What a node writes is well formed.                                      *)
LEMMA NodeWritesGood ==
  ASSUME TypeInv, NEW n \in Nodes, NodeWrites(n)
  PROVE  Good(mem') /\ Good(disk')
<1> DEFINE c == mem.chain[n]
<1>1. /\ Good(mem) /\ Good(disk) /\ mem \in State
      /\ work \in [Nodes -> [Workers -> SUBSET Commits]]
      /\ tip[n] \in 0..MaxReports
      /\ spawned \in [Nodes -> 0..MaxWorkers] /\ spawned[n] \in 0..MaxWorkers
  BY DEF TypeInv, TypeOK, WorldOK, Good
<1>2. /\ c \in Chain /\ mem.op[n] \in Operation
      /\ mem.resume \in [Nodes -> SUBSET Commits]
      /\ mem.collectors \in SUBSET Nodes /\ mem.closedAt \in SUBSET Nodes
  BY <1>1 DEF State
<1>3. CASE RecordCollector(n)
  <2>1. mem' = [mem EXCEPT !.collectors = mem.collectors \cup {n}] /\ disk' = mem'
    BY <1>3 DEF RecordCollector, Saved
  <2>2. /\ mem' \in State
        /\ mem'.chain = mem.chain /\ mem'.op = mem.op /\ mem'.result = mem.result
    BY <1>1, <2>1 DEF State
  <2> QED BY <1>1, <2>1, <2>2, RestGood
<1>4. CASE StartChain(n)
  <2> DEFINE h == spawned[n] + 1
             d == [NoChain EXCEPT !.phase = "work", !.handle = h]
             s == [mem EXCEPT !.resume[n] = {}]
  <2>1. spawned'[n] = h /\ h \in 0..MaxWorkers /\ h # 0
    BY <1>1, <1>4, BoundAssumption DEF StartChain, Spawn
  <2>2. mem' = [s EXCEPT !.chain[n] = d] /\ disk' = mem'
    BY <1>1, <1>4, <2>1 DEF StartChain, Saved, State
  <2>3. d \in Chain /\ d.phase = "work" /\ d.handle # 0
    <3> HIDE DEF h
    <3> QED BY <2>1 DEF NoChain, Chain
  <2>4. Good(s)
    <3>1. s \in State /\ s.chain = mem.chain /\ s.op = mem.op /\ s.result = mem.result
      BY <1>1 DEF State
    <3> QED BY <1>1, <3>1, RestGood
  <2>5. Good([s EXCEPT !.chain[n] = d])
    BY <2>3, <2>4, ChainGood
  <2> QED BY <2>2, <2>5
<1>5. CASE ReplaceWorker(n)
  <2> DEFINE h == spawned[n] + 1
  <2>1. spawned'[n] = h /\ h \in 0..MaxWorkers /\ h # 0
    BY <1>1, <1>5, BoundAssumption DEF ReplaceWorker, Spawn
  <2>2. c.phase = "work" /\ c.handle \in Workers
    BY <1>1, <1>2, <1>5, BoundAssumption DEF ReplaceWorker, Good, Wellformed, Chain, Workers
  <2> DEFINE d == [c EXCEPT !.handle = h]
             e == [c EXCEPT !.handle = h, !.workers = c.workers \cup {c.handle}]
  <2>3. d \in Chain /\ d.phase = "work" /\ d.handle # 0
    <3> HIDE DEF h
    <3> QED BY <1>2, <2>1, <2>2 DEF Chain
  <2>4. e \in Chain /\ e.phase = "work" /\ e.handle # 0
    <3> HIDE DEF h
    <3>1. c.workers \cup {c.handle} \in SUBSET Workers
      BY <1>2, <2>2 DEF Chain
    <3> QED BY <1>2, <2>1, <2>2, <3>1 DEF Chain
  <2>5. Good([mem EXCEPT !.chain[n] = d]) /\ Good([mem EXCEPT !.chain[n] = e])
    BY <1>1, <2>3, <2>4, ChainGood
  <2>6. /\ mem' = [mem EXCEPT !.chain[n] = d] \/ mem' = [mem EXCEPT !.chain[n] = e]
        /\ disk' = mem'
    <3>1. \/ Saved([mem EXCEPT !.chain[n].handle = h])
          \/ Saved([mem EXCEPT !.chain[n].handle = h,
                               !.chain[n].workers = @ \cup {c.handle}])
      BY <1>5, <2>1 DEF ReplaceWorker
    <3>2. [mem EXCEPT !.chain[n].handle = h] = [mem EXCEPT !.chain[n] = d]
      BY <1>1 DEF State
    <3>3. [mem EXCEPT !.chain[n].handle = h, !.chain[n].workers = @ \cup {c.handle}]
            = [mem EXCEPT !.chain[n] = e]
      BY <1>1, <1>2 DEF State, Chain
    <3> QED BY <3>1, <3>2, <3>3 DEF Saved
  <2> QED BY <2>5, <2>6
<1>6. CASE ReportDone(n)
  <2> DEFINE k == tip[n] + 1
             s == [mem EXCEPT !.result[n] = k]
             d == [c EXCEPT !.phase = "integrate"]
  <2>1. k \in 1..MaxReports /\ k \in 0..MaxReports /\ c.phase = "work"
    BY <1>1, <1>6, BoundAssumption DEF ReportDone
  <2>2. s \in State /\ s.chain = mem.chain /\ s.op = mem.op /\ s.result = [mem.result EXCEPT ![n] = k]
    BY <1>1, <2>1 DEF State
  <2>3. s.result[n] # 0 /\ \A m \in Nodes : mem.result[m] # 0 => s.result[m] # 0
    BY <1>1, <2>1, <2>2 DEF State
  <2>4. Good(s)
    BY <1>1, <2>2, <2>3 DEF Good, Wellformed
  <2>5. d \in Chain /\ d.handle # 0
    BY <1>1, <1>2, <2>1 DEF Chain, Good, Wellformed
  <2>6. mem' = [s EXCEPT !.chain[n] = d] /\ disk' = mem'
    BY <1>1, <1>6 DEF ReportDone, Saved, State
  <2>7. Good([s EXCEPT !.chain[n] = d])
    BY <2>3, <2>4, <2>5, ChainGood
  <2> QED BY <2>6, <2>7
<1>7. CASE RecoverLanding(n)
  <2>1. mem.op[n].at # "none"
    BY <1>7 DEF RecoverLanding, Unrecorded, Reached
  <2>2. mem' = Recorded(mem, n) /\ disk' = mem'
    BY <1>7 DEF RecoverLanding, Saved
  <2> QED BY <1>1, <2>1, <2>2, RecordedGood
<1>8. CASE SaveClosed(n)
  <2>1. mem' = [mem EXCEPT !.closedAt = mem.closedAt \cup {n}] /\ disk' = mem'
    BY <1>8 DEF SaveClosed, Saved
  <2>2. n \in Nodes /\ mem.closedAt \cup {n} \in SUBSET Nodes
    BY <1>2
  <2>3. /\ mem' \in State
        /\ mem'.chain = mem.chain /\ mem'.op = mem.op /\ mem'.result = mem.result
    BY <1>1, <2>1, <2>2 DEF State
  <2> QED BY <1>1, <2>1, <2>3, RestGood
<1>9. CASE SweepChain(n)
  BY <1>1, <1>9, ReceiptedGood DEF SweepChain, Saved
<1>10. CASE FinishCleanup(n)
  <2> DEFINE dropped == IF mem.op[n].collector THEN {n} ELSE {}
             s == [mem EXCEPT !.collectors = mem.collectors \ dropped]
             o == [mem.op[n] EXCEPT !.cleaned = TRUE]
  <2>1. s \in State /\ s.chain = mem.chain /\ s.op = mem.op /\ s.result = mem.result
    BY <1>1 DEF State
  <2>2. Good(s)
    BY <1>1, <2>1, RestGood
  <2>3. o \in Operation /\ (o.at # "none" => o.result # 0)
    BY <1>1, <1>2 DEF Operation, Good, Wellformed
  <2>4. Good([s EXCEPT !.op[n] = o])
    BY <2>2, <2>3, OperationGood
  <2>5. \/ mem' = [s EXCEPT !.op[n] = o] /\ disk' = mem'
        \/ mem' = s /\ disk' = disk
    BY <1>1, <1>10 DEF FinishCleanup, Saved, State
  <2> QED BY <1>1, <2>2, <2>4, <2>5
<1> QED BY <1>3, <1>4, <1>5, <1>6, <1>7, <1>8, <1>9, <1>10 DEF NodeWrites

(* What a landing writes is well formed.                                   *)
LEMMA CallWritesGood ==
  ASSUME TypeInv, NEW c \in Call, CallWrites(c)
  PROVE  Good(mem') /\ Good(disk')
<1> DEFINE n == c.node
<1>1. n \in Nodes /\ c.result \in Reports /\ c.worker \in Workers
  BY DEF Call
<1>2. Good(mem) /\ Good(disk) /\ mem \in State
  BY DEF TypeInv, TypeOK, WorldOK, Good
<1>3. mem.op[n] \in Operation /\ mem.chain[n] \in Chain
  BY <1>1, <1>2 DEF State
<1>4. ASSUME NEW step \in {"gates", "merge", "record"}, At(c, step)
      PROVE  mem.op[n].at # "none" /\ mem.op[n].result # 0
  <2>1. task.call = c /\ task.step = step
    BY <1>4 DEF At
  <2>2. mem.op[n].at # "none"
    BY <2>1 DEF TypeInv, TaskOK
  <2> QED BY <1>1, <1>2, <2>2 DEF Good, Wellformed
<1>5. CASE ReplayReached(c)
  <2>1. mem.op[n].at # "none"
    BY <1>5 DEF ReplayReached, Reached
  <2>2. Good(Recorded(mem, n))
    BY <1>1, <1>2, <2>1, RecordedGood
  <2> QED BY <1>5, <2>2 DEF ReplayReached, Saved
<1>6. CASE Intend(c)
  <2> DEFINE carried == {m \in Nodes \ {n} : mem.landed[m] = n /\ m \notin mem.closedAt}
             workers == mem.op[n].workers \cup mem.chain[n].workers \cup {c.worker}
             collector == n \in mem.collectors
             o == [at |-> "intent", result |-> c.result, head |-> 0, carried |-> carried,
                   workers |-> workers, collector |-> collector, cleaned |-> FALSE]
  <2>1. carried \in SUBSET Nodes /\ workers \in SUBSET Workers
    BY <1>1, <1>3 DEF Operation, Chain
  <2>2. c.result \in 0..MaxReports /\ c.result # 0 /\ 0 \in 0..MaxReports
    BY <1>1, BoundAssumption DEF Reports
  <2>3. o \in Operation /\ o.result # 0
    <3>1. collector \in BOOLEAN
      OBVIOUS
    <3> HIDE DEF carried, workers, collector
    <3> QED BY <2>1, <2>2, <3>1 DEF Operation
  <2>4. mem' = [mem EXCEPT !.op[n] = o] /\ disk' = mem'
    BY <1>6 DEF Intend, Saved
  <2>5. Good([mem EXCEPT !.op[n] = o])
    <3> HIDE DEF o
    <3> QED BY <1>1, <1>2, <2>3, OperationGood
  <2> QED BY <2>4, <2>5
<1>7. CASE Prepare(c)
  <2> DEFINE h == HeadOf(n, c.worker)
             o == [mem.op[n] EXCEPT !.at = "prepared", !.head = h]
  <2>1. h \in 0..MaxReports
    BY HeadType
  <2>2. o \in Operation /\ o.result # 0
    <3> HIDE DEF h
    <3>1. mem.op[n].result # 0
      BY <1>4, <1>7 DEF Prepare
    <3> QED BY <1>3, <2>1, <3>1 DEF Operation
  <2>3. mem' = [mem EXCEPT !.op[n].at = "prepared", !.op[n].head = h] /\ disk' = mem'
    BY <1>7 DEF Prepare, Saved
  <2>4. [mem EXCEPT !.op[n].at = "prepared", !.op[n].head = h] = [mem EXCEPT !.op[n] = o]
    <3> HIDE DEF h
    <3> QED BY <1>1, <1>2, <1>3 DEF State, Operation
  <2>5. Good([mem EXCEPT !.op[n] = o])
    <3> HIDE DEF o
    <3> QED BY <1>1, <1>2, <2>2, OperationGood
  <2> QED BY <2>3, <2>4, <2>5
<1>8. CASE Record(c)
  <2>1. mem.op[n].at # "none"
    BY <1>4, <1>8 DEF Record
  <2>2. Good(Recorded(mem, n))
    BY <1>1, <1>2, <2>1, RecordedGood
  <2> QED BY <1>8, <2>2 DEF Record, Saved
<1>9. CASE RecordRefused(c) \/ SendBack(c)
  <2> DEFINE h == [mem.chain[n] EXCEPT !.held = TRUE]
             r == [mem.chain[n] EXCEPT !.phase = "work"]
  <2>1. CASE mem.chain[n].phase = "none"
    BY <1>2, <1>9, <2>1 DEF RecordRefused, SendBack
  <2>2. CASE mem.chain[n].phase # "none"
    <3>1. /\ mem.chain[n].handle # 0
          /\ mem.chain[n].phase = "integrate" => mem.result[n] # 0
      BY <1>1, <1>2, <2>2 DEF Good, Wellformed
    <3>2. /\ h \in Chain /\ h.handle # 0 /\ (h.phase = "integrate" => mem.result[n] # 0)
          /\ r \in Chain /\ r.handle # 0 /\ r.phase = "work"
      BY <1>3, <3>1 DEF Chain
    <3>3. Good([mem EXCEPT !.chain[n] = h]) /\ Good([mem EXCEPT !.chain[n] = r])
      <4> HIDE DEF h, r
      <4> QED BY <1>1, <1>2, <3>2, ChainGood
    <3>4. /\ [mem EXCEPT !.chain[n].held = TRUE] = [mem EXCEPT !.chain[n] = h]
          /\ [mem EXCEPT !.chain[n].phase = "work"] = [mem EXCEPT !.chain[n] = r]
      BY <1>1, <1>2, <1>3 DEF State, Chain
    <3>5. /\ \/ mem' = [mem EXCEPT !.chain[n].held = TRUE]
             \/ mem' = [mem EXCEPT !.chain[n].phase = "work"]
          /\ disk' = disk
      BY <1>9, <2>2 DEF RecordRefused, SendBack
    <3> QED BY <1>2, <3>3, <3>4, <3>5
  <2> QED BY <2>1, <2>2
<1>10. CASE Finish(c)
  <2>1. Good(Receipted(mem, n))
    BY <1>1, <1>2, ReceiptedGood
  <2> QED BY <1>2, <1>10, <2>1 DEF Finish, Saved
<1> QED BY <1>5, <1>6, <1>7, <1>8, <1>9, <1>10 DEF CallWrites

(* Every step keeps the state file and its copy well formed.               *)
LEMMA LedgerStep ==
  ASSUME TypeInv, [Next]_vars
  PROVE  Good(mem') /\ Good(disk')
<1>1. Good(mem) /\ Good(disk)
  BY DEF TypeInv, TypeOK, WorldOK, Good
<1>2. CASE UNCHANGED ledger
  BY <1>1, <1>2 DEF ledger
<1>3. CASE BeginClose \/ Flush \/ Crash
  BY <1>1, <1>3 DEF BeginClose, Flush, Crash
<1>4. CASE Stop
  <2>1. Good(Stopped(disk))
    BY <1>1, StoppedGood DEF TypeInv, TypeOK, WorldOK
  <2> QED BY <1>4, <2>1 DEF Stop, Saved
<1>5. CASE \E n \in Nodes : NodeWrites(n)
  BY <1>5, NodeWritesGood
<1>6. CASE \E c \in Call : CallWrites(c)
  BY <1>6, CallWritesGood
<1>7. CASE Still
  BY <1>2, <1>7, StillLedger
<1>8. UNCHANGED vars => UNCHANGED ledger
  BY DEF vars, ledger
<1> QED BY <1>2, <1>3, <1>4, <1>5, <1>6, <1>7, <1>8, StepCases

-----------------------------------------------------------------------------
(* Type correctness.                                                       *)

(* The call that holds the lock keeps its operation.                       *)
LEMMA TaskStep ==
  ASSUME TypeInv, [Next]_vars
  PROVE  TaskOK'
<1>1. mem \in State /\ task.step \in {"idle", "begin", "gates", "merge", "record", "finish"}
  BY DEF TypeInv, TypeOK, ProcessOK
<1>2. TaskOK
  BY DEF TypeInv
<1>3. ASSUME mem'.op = mem.op, task' = task
      PROVE  TaskOK'
  BY <1>2, <1>3 DEF TaskOK
<1>4. ASSUME task' = Idle
      PROVE  TaskOK'
  BY <1>4 DEF TaskOK, Idle
<1>5. ASSUME NEW c \in Call, NEW step \in {"begin", "finish"}, Step(c, step)
      PROVE  TaskOK'
  BY <1>5 DEF TaskOK, Step
<1>6. ASSUME NEW c \in Call, NEW step \in {"gates", "merge", "record"}, Step(c, step),
             mem'.op[c.node].at # "none"
      PROVE  TaskOK'
  BY <1>6 DEF TaskOK, Step
<1>7. CASE \E c \in Call : Land(c)
  <2> PICK c \in Call : Land(c)
    BY <1>7
  <2> DEFINE n == c.node
  <2>1. n \in Nodes /\ mem.op[n] \in Operation
    BY <1>1 DEF Call, State
  <2>2. CASE TakeLock(c)
    BY <1>5, <2>2 DEF TakeLock, Step
  <2>3. CASE ReplayLanded(c) \/ ReplayReached(c) \/ Record(c)
    BY <1>5, <2>3 DEF ReplayLanded, ReplayReached, Record
  <2>4. CASE Intend(c)
    <3>1. mem'.op[n].at = "intent"
      BY <1>1, <2>1, <2>4 DEF Intend, Saved, State
    <3>2. Step(c, "gates")
      BY <2>4 DEF Intend
    <3> QED BY <1>6, <3>1, <3>2
  <2>5. CASE Prepare(c)
    <3>1. mem'.op[n].at = "prepared"
      BY <1>1, <2>1, <2>5 DEF Prepare, Saved, State, Operation
    <3>2. Step(c, "merge")
      BY <2>5 DEF Prepare
    <3> QED BY <1>6, <3>1, <3>2
  <2>6. CASE Merge(c)
    <3>1. mem' = mem /\ Step(c, "record") /\ task = [call |-> c, step |-> "merge"]
      BY <2>6 DEF Merge, At, ledger
    <3>2. mem.op[n].at # "none"
      BY <1>2, <3>1 DEF TaskOK
    <3> QED BY <1>6, <3>1, <3>2
  <2>7. CASE RecordRefused(c) \/ SendBack(c) \/ Finish(c)
    BY <1>4, <2>7 DEF RecordRefused, SendBack, Finish
  <2> QED BY <2>2, <2>3, <2>4, <2>5, <2>6, <2>7 DEF Land
<1>8. CASE \E n \in Nodes : NodeWrites(n)
  <2> PICK n \in Nodes : NodeWrites(n)
    BY <1>8
  <2>1. task' = task
    BY DEF NodeWrites, RecordCollector, StartChain, ReplaceWorker, ReportDone, RecoverLanding,
           SaveClosed, SweepChain, FinishCleanup, process
  <2>2. ASSUME RecoverLanding(n)
        PROVE  task = Idle
    BY <2>2 DEF RecoverLanding
  <2>3. CASE RecoverLanding(n)
    BY <1>4, <2>1, <2>2, <2>3
  <2>4. CASE RecordCollector(n) \/ StartChain(n) \/ ReplaceWorker(n) \/ ReportDone(n) \/ SaveClosed(n)
    <3>1. mem'.op = mem.op
      BY <1>1, <2>4 DEF RecordCollector, StartChain, ReplaceWorker, ReportDone, SaveClosed,
                        Saved, State
    <3> QED BY <1>3, <2>1, <3>1
  <2>5. CASE SweepChain(n) \/ FinishCleanup(n)
    <3>1. ASSUME NEW m \in Nodes
          PROVE  mem'.op[m].at = mem.op[m].at
      <4>1. CASE SweepChain(n)
        BY <4>1, ReceiptedGood DEF SweepChain, Saved, TypeInv, TypeOK, WorldOK, Good
      <4>2. CASE FinishCleanup(n)
        <5>1. mem.op \in [Nodes -> Operation] /\ mem.op[n] \in Operation
          BY <1>1 DEF State
        <5>2. mem'.op \in {mem.op, [mem.op EXCEPT ![n].cleaned = TRUE]}
          BY <1>1, <4>2 DEF FinishCleanup, Saved, State
        <5> QED BY <5>1, <5>2 DEF Operation
      <4> QED BY <2>5, <4>1, <4>2
    <3>2. ASSUME task.step \in {"gates", "merge", "record"}
          PROVE  task.call.node \in Nodes
      BY <1>2, <3>2 DEF TaskOK, Call
    <3> QED BY <1>2, <2>1, <3>1, <3>2 DEF TaskOK
  <2> QED BY <2>3, <2>4, <2>5 DEF NodeWrites
<1>9. CASE Still
  <2>1. mem' = mem
    BY <1>9, StillLedger DEF ledger
  <2>2. CASE \E c \in Call : TakeLock(c) \/ ReplayLanded(c) \/ Merge(c)
    BY <1>7, <2>2 DEF Land
  <2>3. CASE ~ \E c \in Call : TakeLock(c) \/ ReplayLanded(c) \/ Merge(c)
    <3>1. task' = task
      BY <1>9, <2>3 DEF Still, FileIssue, MakeTree, Commit, ResumeIntegrate, CloseInTracker,
             RemoveTree, RetireWorker, Boot, Recovered, CloseFails, EndClose, EndSweep,
             EndClean, EndVisit, TickFails, NextTick, Start, process, OnlyStage
    <3> QED BY <1>3, <2>1, <3>1
  <2> QED BY <2>2, <2>3
<1>10. CASE \E c \in Call : CallWrites(c)
  BY <1>7, <1>10 DEF CallWrites, Land
<1>11. CASE BeginClose \/ Flush
  BY <1>3, <1>11 DEF BeginClose, Flush, process
<1>12. CASE Crash \/ Stop
  BY <1>4, <1>12 DEF Crash, Stop, Dies
<1>13. CASE UNCHANGED vars
  BY <1>3, <1>13 DEF vars, ledger, process
<1> QED BY <1>8, <1>9, <1>10, <1>11, <1>12, <1>13, StepCases

(* What the process holds keeps its type.                                  *)
LEMMA ProcessStep ==
  ASSUME TypeInv, [Next]_vars
  PROVE  ProcessOK'
<1>1. mem \in State /\ Wellformed(mem) /\ ProcessOK /\ WorldOK
  BY DEF TypeInv, TypeOK
<1> USE <1>1 DEF ProcessOK
<1>2. CASE \E n \in Nodes : FileIssue(n) \/ Walk(n)
  <2> PICK n \in Nodes : FileIssue(n) \/ Walk(n)
    BY <1>2
  <2>1. CASE FileIssue(n) \/ MakeTree(n) \/ RecordCollector(n) \/ StartChain(n)
             \/ ReplaceWorker(n) \/ Commit(n)
    BY <2>1 DEF FileIssue, MakeTree, RecordCollector, StartChain, ReplaceWorker, Commit, process
  <2>2. ASSUME NEW s \in State, s.chain[n].handle = mem.chain[n].handle,
               mem.chain[n].phase # "none", s.result[n] \in Reports, CallLand(n, s)
        PROVE  walked' \subseteq Nodes /\ calls' \subseteq Call
    <3>1. mem.chain[n] \in Chain /\ mem.chain[n].handle # 0
      BY <2>2 DEF State, Wellformed
    <3>2. mem.chain[n].handle \in Workers
      BY <3>1, BoundAssumption DEF Chain, Workers
    <3>3. overlaps \in 0..MaxOverlaps
      BY DEF WorldOK
    <3> QED BY <2>2, <3>2, <3>3 DEF CallLand, Call
  <2>3. CASE ReportDone(n)
    <3> DEFINE s == [mem EXCEPT !.result[n] = tip[n] + 1, !.chain[n].phase = "integrate"]
    <3>1. tip[n] + 1 \in Reports /\ tip[n] + 1 \in 0..MaxReports /\ mem.chain[n].phase = "work"
      BY <2>3, BoundAssumption DEF ReportDone, Reports, WorldOK
    <3>2. mem.chain[n] \in Chain /\ [mem.chain[n] EXCEPT !.phase = "integrate"] \in Chain
      BY DEF State, Chain
    <3>3. /\ s.result = [mem.result EXCEPT ![n] = tip[n] + 1]
          /\ s.chain = [mem.chain EXCEPT ![n] = [mem.chain[n] EXCEPT !.phase = "integrate"]]
          /\ s = [mem EXCEPT !.result = s.result, !.chain = s.chain]
      BY DEF State
    <3>4. s \in State /\ s.result[n] = tip[n] + 1 /\ s.chain[n].handle = mem.chain[n].handle
      <4> HIDE DEF s
      <4>1. mem.chain \in [Nodes -> Chain] /\ mem.result \in [Nodes -> 0..MaxReports]
        BY DEF State
      <4>2. s.chain \in [Nodes -> Chain] /\ s.result \in [Nodes -> 0..MaxReports]
        BY <3>1, <3>2, <3>3, <4>1
      <4>3. s \in State
        BY <3>3, <4>2 DEF State
      <4>4. s.chain[n].handle = mem.chain[n].handle /\ s.result[n] = tip[n] + 1
        BY <3>2, <3>3, <4>1 DEF Chain
      <4> QED BY <4>3, <4>4
    <3>5. /\ CallLand(n, s)
          /\ UNCHANGED <<stage, task, sparse, closing>>
      BY <2>3 DEF ReportDone
    <3>6. walked' \subseteq Nodes /\ calls' \subseteq Call
      <4> HIDE DEF s
      <4> QED BY <2>2, <3>1, <3>4, <3>5
    <3> QED BY <3>5, <3>6
  <2>4. CASE ResumeIntegrate(n)
    <3>1. mem.chain[n].phase = "integrate" /\ CallLand(n, mem)
          /\ UNCHANGED <<stage, task, sparse, closing>>
      BY <2>4 DEF ResumeIntegrate
    <3>2. mem.result[n] \in Reports
      BY <3>1, BoundAssumption DEF State, Wellformed, Reports
    <3>3. walked' \subseteq Nodes /\ calls' \subseteq Call
      BY <2>2, <3>1, <3>2
    <3> QED BY <3>1, <3>3
  <2> QED BY <2>1, <2>3, <2>4 DEF Walk
<1>3. CASE \E c \in Call : Land(c)
  <2> PICK c \in Call : Land(c)
    BY <1>3
  <2>1. /\ UNCHANGED <<stage, walked, sparse, closing>>
        /\ calls' \subseteq calls
    BY DEF Land, TakeLock, ReplayLanded, ReplayReached, Intend, Prepare, Merge, Record,
           RecordRefused, SendBack, Finish, OnlyTask
  <2>2. \/ task' = Idle
        \/ \E step \in {"begin", "gates", "merge", "record", "finish"} : Step(c, step)
    BY DEF Land, TakeLock, ReplayLanded, ReplayReached, Intend, Prepare, Merge, Record,
           RecordRefused, SendBack, Finish, Step
  <2> QED BY <2>1, <2>2 DEF Step, Idle
<1>4. CASE Tick
  <2>1. ASSUME NEW n \in Nodes,
               \/ RecoverLanding(n) \/ CloseInTracker(n) \/ SaveClosed(n)
               \/ SweepChain(n) \/ RemoveTree(n) \/ FinishCleanup(n)
               \/ \E w \in Workers : RetireWorker(n, w)
        PROVE  ProcessOK'
    BY <2>1 DEF RecoverLanding, CloseInTracker, SaveClosed, SweepChain, RemoveTree,
                FinishCleanup, RetireWorker, process
  <2>2. CASE Boot \/ Recovered \/ BeginClose \/ CloseFails \/ EndClose
    BY <2>2 DEF Boot, Recovered, BeginClose, CloseFails, EndClose, OnlyStage, State, Pending
  <2>3. CASE EndSweep \/ EndClean \/ EndVisit \/ TickFails \/ NextTick
    BY <2>3 DEF EndSweep, EndClean, EndVisit, TickFails, NextTick, OnlyStage
  <2> QED BY <1>4, <2>1, <2>2, <2>3 DEF Tick
<1>5. CASE Flush \/ Crash \/ Start \/ Stop
  BY <1>5 DEF Flush, Crash, Start, Stop, Dies, OnlyStage, process, Idle
<1>6. CASE UNCHANGED vars
  BY <1>6 DEF vars, process
<1> QED BY <1>2, <1>3, <1>4, <1>5, <1>6 DEF Next

(* Git, the threads and the tracker keep their types.                      *)
LEMMA WorldStep ==
  ASSUME TypeInv, [Next]_vars
  PROVE  WorldOK'
<1>1. mem \in State /\ disk \in State /\ Wellformed(mem) /\ ProcessOK /\ WorldOK
  BY DEF TypeInv, TypeOK
<1> USE <1>1 DEF WorldOK
<1>2. ASSUME NEW n \in Nodes
      PROVE  /\ Parent[n] \in Dests /\ branch[n] \in SUBSET Commits
             /\ branch[Parent[n]] \in SUBSET Commits
             /\ mem.chain[n] \in Chain /\ mem.resume[n] \in SUBSET Commits
             /\ mem.chain[n].handle # 0 => mem.chain[n].handle \in Workers
  <2>1. Parent[n] \in Dests /\ n \in Dests
    BY TreeAssumption DEF Dests
  <2>2. mem.chain[n] \in Chain /\ mem.resume[n] \in SUBSET Commits
    BY DEF State
  <2>3. mem.chain[n].handle \in 0..MaxWorkers
    BY <2>2 DEF Chain
  <2> QED BY <2>1, <2>2, <2>3, BoundAssumption DEF Workers
<1>3. CASE \E n \in Nodes : FileIssue(n) \/ Walk(n)
  <2> PICK n \in Nodes : FileIssue(n) \/ Walk(n)
    BY <1>3
  <2>1. CASE FileIssue(n)
    BY <2>1 DEF FileIssue, git, threads, bounds
  <2>2. CASE MakeTree(n)
    BY <1>2, <2>2 DEF MakeTree, threads, issues, bounds
  <2>3. CASE RecordCollector(n) \/ ResumeIntegrate(n)
    BY <2>3 DEF RecordCollector, ResumeIntegrate, git, threads, issues, bounds
  <2>4. ASSUME NEW base \in SUBSET Commits, Spawn(n, base)
        PROVE  /\ spawned' \in [Nodes -> 0..MaxWorkers] /\ spawned'[n] \in Workers
               /\ work' \in [Nodes -> [Workers -> SUBSET Commits]]
    <3>1. spawned[n] \in 0..MaxWorkers /\ spawned[n] + 1 \in 1..MaxWorkers
          /\ spawned[n] + 1 \in 0..MaxWorkers
      BY <2>4, BoundAssumption DEF Spawn
    <3>2. spawned' = [spawned EXCEPT ![n] = spawned[n] + 1]
          /\ work' = [work EXCEPT ![n] = [work[n] EXCEPT ![spawned[n] + 1] = base]]
      BY <2>4 DEF Spawn
    <3>3. [work[n] EXCEPT ![spawned[n] + 1] = base] \in [Workers -> SUBSET Commits]
      BY <3>1 DEF Workers
    <3> QED BY <3>1, <3>2, <3>3 DEF Workers
  <2>5. CASE StartChain(n)
    <3>1. StartBase(n) \in SUBSET Commits
      BY <1>2 DEF StartBase
    <3>2. Spawn(n, StartBase(n)) /\ live' = live \cup {<<n, spawned'[n]>>}
          /\ UNCHANGED <<branch, tip, trees, issues, bounds>>
      BY <2>5 DEF StartChain
    <3>3. /\ spawned' \in [Nodes -> 0..MaxWorkers] /\ spawned'[n] \in Workers
          /\ work' \in [Nodes -> [Workers -> SUBSET Commits]]
      BY <2>4, <3>1, <3>2
    <3> QED BY <3>2, <3>3 DEF issues, bounds
  <2>6. CASE ReplaceWorker(n)
    <3> DEFINE base == work[n][mem.chain[n].handle] \cup branch[Parent[n]]
    <3>1. mem.chain[n].handle \in Workers
      BY <1>2, <2>6 DEF ReplaceWorker, Wellformed
    <3>2. base \in SUBSET Commits
      BY <1>2, <3>1
    <3>3. /\ Spawn(n, base)
          /\ live' \subseteq live \cup {<<n, spawned'[n]>>}
          /\ UNCHANGED <<branch, tip, trees, issues>>
          /\ NoFault \/ Fault
      BY <2>6 DEF ReplaceWorker
    <3>4. /\ spawned' \in [Nodes -> 0..MaxWorkers] /\ spawned'[n] \in Workers
          /\ work' \in [Nodes -> [Workers -> SUBSET Commits]]
      <4> HIDE DEF base
      <4> QED BY <2>4, <3>2, <3>3
    <3> QED BY <3>3, <3>4 DEF issues, NoFault, Fault, bounds
  <2>7. ASSUME NEW w \in Workers, NEW k \in Reports,
               work' = [work EXCEPT ![n][w] = @ \cup {<<n, k>>}]
        PROVE  work' \in [Nodes -> [Workers -> SUBSET Commits]]
    <3>1. work[n][w] \cup {<<n, k>>} \in SUBSET Commits
      BY DEF Commits
    <3> QED BY <2>7, <3>1
  <2>8. tip[n] \in 0..MaxReports /\ (tip[n] < MaxReports =>
          tip[n] + 1 \in Reports /\ tip[n] + 1 \in 0..MaxReports)
    BY BoundAssumption DEF Reports
  <2>9. CASE Commit(n)
    <3>1. mem.chain[n].handle \in Workers /\ tip[n] + 1 \in Reports
      BY <2>8, <2>9 DEF Commit
    <3> QED BY <2>7, <2>9, <3>1 DEF Commit, threads, issues, bounds
  <2>10. CASE ReportDone(n)
    <3>1. mem.chain[n].handle \in Workers
      BY <1>2, <2>10 DEF ReportDone, Wellformed
    <3>2. tip[n] + 1 \in Reports /\ tip[n] + 1 \in 0..MaxReports
      BY <2>8, <2>10 DEF ReportDone
    <3>3. /\ tip' = [tip EXCEPT ![n] = tip[n] + 1]
          /\ work' = [work EXCEPT ![n][mem.chain[n].handle] = @ \cup {<<n, tip[n] + 1>>}]
          /\ UNCHANGED <<branch, trees, threads, issues, bounds>>
      BY <2>10 DEF ReportDone
    <3>4. work' \in [Nodes -> [Workers -> SUBSET Commits]]
      BY <2>7, <3>1, <3>2, <3>3
    <3> QED BY <3>2, <3>3, <3>4 DEF threads, issues, bounds
  <2> QED BY <2>1, <2>2, <2>3, <2>5, <2>6, <2>9, <2>10 DEF Walk
<1>4. CASE \E c \in Call : Land(c)
  <2> PICK c \in Call : Land(c)
    BY <1>4
  <2>1. c.node \in Nodes /\ c.worker \in Workers
    BY DEF Call
  <2>2. CASE TakeLock(c) \/ ReplayLanded(c) \/ ReplayReached(c) \/ Intend(c) \/ Record(c) \/ Finish(c)
    BY <2>2 DEF TakeLock, ReplayLanded, ReplayReached, Intend, Record, Finish, git, threads, issues, bounds
  <2>3. CASE RecordRefused(c) \/ SendBack(c)
    BY <2>3 DEF RecordRefused, SendBack, Fault, git, threads, issues
  <2>4. CASE Prepare(c)
    <3>1. work[c.node][c.worker] \cup branch[Parent[c.node]] \in SUBSET Commits
      BY <1>2, <2>1
    <3> QED BY <2>1, <2>4, <3>1 DEF Prepare, threads, issues, bounds
  <2>5. CASE Merge(c)
    <3>1. work[c.node][c.worker] \cup branch[Parent[c.node]] \in SUBSET Commits
      BY <1>2, <2>1
    <3> QED BY <1>2, <2>1, <2>5, <3>1 DEF Merge, threads, issues, bounds
  <2> QED BY <2>2, <2>3, <2>4, <2>5 DEF Land
<1>5. CASE Tick
  <2>1. ASSUME NEW n \in Nodes, RecoverLanding(n) \/ SaveClosed(n) \/ SweepChain(n)
        PROVE  WorldOK'
    BY <2>1 DEF RecoverLanding, SaveClosed, SweepChain, git, threads, issues, bounds
  <2>2. ASSUME NEW n \in Nodes, CloseInTracker(n) \/ RemoveTree(n) \/ \E w \in Workers : RetireWorker(n, w)
        PROVE  WorldOK'
    BY <2>2 DEF CloseInTracker, RemoveTree, RetireWorker, git, threads, issues, bounds
  <2>3. ASSUME NEW n \in Nodes, FinishCleanup(n)
        PROVE  WorldOK'
    BY <2>3 DEF FinishCleanup, threads, issues, NoFault, Fault, bounds
  <2>4. CASE Boot \/ Recovered \/ BeginClose \/ EndClose \/ EndSweep
    BY <2>4 DEF Boot, Recovered, BeginClose, EndClose, EndSweep, git, threads, issues, bounds
  <2>5. CASE CloseFails \/ EndClean \/ EndVisit \/ NextTick
    BY <2>5 DEF CloseFails, EndClean, EndVisit, NextTick, Fault, NoFault, git, threads, issues, bounds
  <2>6. CASE TickFails
    BY <2>6, BoundAssumption DEF TickFails, git, threads, issues
  <2> QED BY <1>5, <2>1, <2>2, <2>3, <2>4, <2>5, <2>6 DEF Tick
<1>6. CASE Flush \/ Crash \/ Start \/ Stop
  BY <1>6 DEF Flush, Crash, Start, Stop, Dies, git, threads, issues, bounds
<1>7. CASE UNCHANGED vars
  BY <1>7 DEF vars, git, threads, issues, bounds
<1> QED BY <1>3, <1>4, <1>5, <1>6, <1>7 DEF Next

(* The initial state is typed.                                             *)
LEMMA TypeInit == Init => TypeInv
<1> SUFFICES ASSUME Init PROVE TypeInv
  OBVIOUS
<1>1. Empty \in State /\ Wellformed(Empty)
  <2>1. NoOperation \in Operation /\ NoChain \in Chain
    BY BoundAssumption DEF NoOperation, Operation, NoChain, Chain
  <2>2. Empty \in State
    BY <2>1, BoundAssumption DEF Empty, State
  <2> QED BY <2>2 DEF Empty, Wellformed, NoOperation, NoChain
<1>2. ProcessOK /\ TaskOK
  BY DEF Init, ProcessOK, TaskOK, Idle
<1>3. WorldOK
  BY TreeAssumption, BoundAssumption DEF Init, WorldOK
<1> QED BY <1>1, <1>2, <1>3 DEF Init, TypeInv, TypeOK

(* Every step keeps the inductive type invariant.                          *)
LEMMA TypeStep == TypeInv /\ [Next]_vars => TypeInv'
<1> SUFFICES ASSUME TypeInv, [Next]_vars PROVE TypeInv'
  OBVIOUS
<1>1. mem' \in State /\ Wellformed(mem') /\ disk' \in State /\ Wellformed(disk')
  BY LedgerStep DEF Good
<1>2. TaskOK' /\ ProcessOK' /\ WorldOK'
  BY TaskStep, ProcessStep, WorldStep
<1> QED BY <1>1, <1>2 DEF TypeInv, TypeOK, Wellformed

(* Every variable keeps its type, for every tree and all bounds.           *)
THEOREM TypeCorrect == Spec => []TypeOK
BY TypeInit, TypeStep, PTL DEF Spec, TypeInv

-----------------------------------------------------------------------------
(* The process never takes for landed, reviewed or closed what the state   *)
(* file does not say ("A refused save must not leave an in-memory success  *)
(* which a later tick treats as durable", completion.ts:42).                *)
Durable(s, t) == s.landed = t.landed /\ s.result = t.result /\ s.closedAt = t.closedAt
DurableLedger == Durable(mem, disk)

(* What is closed or about to be has a result and is in the target.        *)
AtTarget(n) == mem.landed[n] = Owner /\ mem.result[n] # 0

SafeInv ==
  /\ DurableLedger
  /\ \A n \in closing \cup closed : AtTarget(n)
  /\ \A n \in Nodes : mem.landed[n] = Owner => mem.landed[Root] = Owner
  /\ task.step \in {"gates", "merge", "record"} => mem.landed[task.call.node] = NoDest

(* The steps that record a landing.                                        *)
Records(n) ==
  /\ mem.landed[n] = NoDest /\ mem.op[n].at # "none"
  /\ mem' = Recorded(mem, n) /\ disk' = mem'
  /\ UNCHANGED <<closing, closed>>
  /\ task'.step \in {"idle", "finish"}

(* The steps that leave ledger and results as they are.                    *)
Keeps == mem'.landed = mem.landed /\ mem'.result = mem.result /\ Durable(mem', disk')

(* A step records a landing, reports a result, or leaves the ledger and    *)
(* the recorded results as they are.                                       *)
LEMMA WriteCases ==
  ASSUME TypeInv, SafeInv, [Next]_vars
  PROVE  \/ \E n \in Nodes : Records(n) \/ ReportDone(n)
         \/ Keeps
<1>1. mem \in State /\ disk \in State /\ Good(mem)
  BY DEF TypeInv, TypeOK, Good
<1>2. DurableLedger
  BY DEF SafeInv
<1>3. CASE UNCHANGED ledger
  BY <1>2, <1>3 DEF Keeps, DurableLedger, Durable, ledger
<1>4. CASE BeginClose \/ Flush \/ Crash
  BY <1>2, <1>4 DEF BeginClose, Flush, Crash, Keeps, DurableLedger, Durable
<1>5. CASE Stop
  <2>1. mem' = Stopped(disk) /\ disk' = mem'
    BY <1>5 DEF Stop, Saved
  <2>2. /\ Stopped(disk).landed = disk.landed /\ Stopped(disk).result = disk.result
    BY <1>1 DEF Stopped, State
  <2> QED BY <1>2, <2>1, <2>2 DEF Keeps, DurableLedger, Durable
<1>6. CASE \E n \in Nodes : NodeWrites(n)
  <2> PICK n \in Nodes : NodeWrites(n)
    BY <1>6
  <2>1. CASE ReportDone(n)
    BY <2>1
  <2>2. CASE RecoverLanding(n)
    BY <2>2 DEF RecoverLanding, Unrecorded, Landed, Reached, Saved, Idle, Records, process, issues
  <2>3. CASE SweepChain(n)
    BY <1>1, <2>3, ReceiptedGood DEF SweepChain, Saved, Keeps, Durable
  <2>4. CASE RecordCollector(n) \/ StartChain(n) \/ SaveClosed(n)
    BY <1>1, <2>4 DEF RecordCollector, StartChain, SaveClosed, Saved, State, Keeps, Durable
  <2>5. CASE ReplaceWorker(n)
    BY <1>1, <2>5 DEF ReplaceWorker, Saved, State, Keeps, Durable
  <2>6. CASE FinishCleanup(n)
    BY <1>1, <1>2, <2>6 DEF FinishCleanup, Saved, State, Keeps, DurableLedger, Durable
  <2> QED BY <2>1, <2>2, <2>3, <2>4, <2>5, <2>6 DEF NodeWrites
<1>7. CASE \E c \in Call : CallWrites(c)
  <2> PICK c \in Call : CallWrites(c)
    BY <1>7
  <2>1. c.node \in Nodes
    BY DEF Call
  <2>2. CASE ReplayReached(c)
    <3>1. Records(c.node)
      BY <2>2 DEF ReplayReached, Landed, Reached, Saved, Step, Records, OnlyTask, issues
    <3> QED BY <2>1, <3>1
  <2>3. CASE Record(c)
    <3>1. task.call = c /\ task.step = "record"
      BY <2>3 DEF Record, At
    <3>2. mem.landed[c.node] = NoDest /\ mem.op[c.node].at # "none"
      BY <3>1 DEF SafeInv, TypeInv, TaskOK
    <3>3. Records(c.node)
      BY <2>3, <3>2 DEF Record, Saved, Step, Records, OnlyTask, issues
    <3> QED BY <2>1, <3>3
  <2>4. CASE Intend(c)
    BY <1>1, <2>4 DEF Intend, Saved, State, Keeps, Durable
  <2>5. CASE Prepare(c)
    BY <1>1, <2>5 DEF Prepare, Saved, State, Keeps, Durable
  <2>6. CASE RecordRefused(c) \/ SendBack(c)
    BY <1>1, <1>2, <2>6 DEF RecordRefused, SendBack, State, Keeps, DurableLedger, Durable
  <2>7. CASE Finish(c)
    BY <1>1, <2>1, <2>7, ReceiptedGood DEF Finish, Saved, Keeps, Durable
  <2> QED BY <2>2, <2>3, <2>4, <2>5, <2>6, <2>7 DEF CallWrites
<1>8. CASE Still
  BY <1>3, <1>8, StillLedger
<1>9. UNCHANGED vars => UNCHANGED ledger
  BY DEF vars, ledger
<1> QED BY <1>3, <1>4, <1>5, <1>6, <1>7, <1>8, <1>9, StepCases

(* What comes due is at the target, and only what is due is closed.        *)
LEMMA ClosingStep ==
  ASSUME [Next]_vars
  PROVE  closing' \subseteq closing \cup Pending /\ closed' \subseteq closed \cup closing
<1>1. CASE \E n \in Nodes : FileIssue(n) \/ Walk(n)
  BY <1>1 DEF Walk, FileIssue, MakeTree, RecordCollector, StartChain, ReplaceWorker, Commit,
              ReportDone, ResumeIntegrate, process, issues
<1>2. CASE \E c \in Call : Land(c)
  BY <1>2 DEF Land, TakeLock, ReplayLanded, ReplayReached, Intend, Prepare, Merge, Record,
              RecordRefused, SendBack, Finish, OnlyTask, issues
<1>3. CASE Tick
  <2>1. CASE \/ Boot \/ Recovered \/ BeginClose \/ CloseFails \/ EndClose
             \/ EndSweep \/ EndClean \/ EndVisit \/ TickFails \/ NextTick
    BY <2>1 DEF Boot, Recovered, BeginClose, CloseFails, EndClose, EndSweep, EndClean,
                EndVisit, TickFails, NextTick, OnlyStage, issues
  <2>2. ASSUME NEW n \in Nodes,
               \/ RecoverLanding(n) \/ CloseInTracker(n) \/ SaveClosed(n)
               \/ SweepChain(n) \/ RemoveTree(n) \/ FinishCleanup(n)
               \/ \E w \in Workers : RetireWorker(n, w)
        PROVE  closing' \subseteq closing \cup Pending /\ closed' \subseteq closed \cup closing
    BY <2>2 DEF RecoverLanding, CloseInTracker, NextToClose, SaveClosed, SweepChain, RemoveTree,
                FinishCleanup, RetireWorker, process, issues
  <2> QED BY <1>3, <2>1, <2>2 DEF Tick
<1>4. CASE Flush \/ Crash \/ Start \/ Stop
  BY <1>4 DEF Flush, Crash, Start, Stop, Dies, OnlyStage, process, issues
<1>5. CASE UNCHANGED vars
  BY <1>5 DEF vars, process, issues
<1> QED BY <1>1, <1>2, <1>3, <1>4, <1>5 DEF Next

(* A landing gets past its intent only for a node that has not landed.     *)
LEMMA TaskCases ==
  ASSUME SafeInv, [Next]_vars
  PROVE  \/ task' = task
         \/ task'.step \in {"idle", "begin", "finish"}
         \/ mem.landed[task'.call.node] = NoDest
<1>1. CASE \E n \in Nodes : FileIssue(n) \/ Walk(n)
  BY <1>1 DEF Walk, FileIssue, MakeTree, RecordCollector, StartChain, ReplaceWorker, Commit,
              ReportDone, ResumeIntegrate, process
<1>2. CASE \E c \in Call : Land(c)
  <2> PICK c \in Call : Land(c)
    BY <1>2
  <2>1. CASE TakeLock(c) \/ ReplayLanded(c) \/ ReplayReached(c) \/ Record(c)
    BY <2>1 DEF TakeLock, ReplayLanded, ReplayReached, Record, Step
  <2>2. CASE RecordRefused(c) \/ SendBack(c) \/ Finish(c)
    BY <2>2 DEF RecordRefused, SendBack, Finish, Idle
  <2>3. CASE Intend(c)
    BY <2>3 DEF Intend, Landed, Step
  <2>4. CASE Prepare(c) \/ Merge(c)
    BY <2>4 DEF Prepare, Merge, At, Step, SafeInv
  <2> QED BY <2>1, <2>2, <2>3, <2>4 DEF Land
<1>3. CASE Tick
  BY <1>3 DEF Tick, Boot, Recovered, BeginClose, CloseFails, EndClose, EndSweep, EndClean,
              EndVisit, TickFails, NextTick, RecoverLanding, CloseInTracker, SaveClosed,
              SweepChain, RemoveTree, FinishCleanup, RetireWorker, OnlyStage, process
<1>4. CASE Flush \/ Crash \/ Start \/ Stop
  BY <1>4 DEF Flush, Crash, Start, Stop, Dies, Idle, OnlyStage, process
<1>5. CASE UNCHANGED vars
  BY <1>5 DEF vars, process
<1> QED BY <1>1, <1>2, <1>3, <1>4, <1>5 DEF Next

(* The strengthened invariant is inductive.                                *)
LEMMA SafeStep ==
  ASSUME TypeInv, SafeInv, [Next]_vars
  PROVE  SafeInv'
<1>1. mem \in State /\ closing \subseteq Nodes /\ closed \subseteq Nodes
  BY DEF TypeInv, TypeOK, ProcessOK, WorldOK
<1>2. mem.landed \in [Nodes -> Dests \cup {NoDest}] /\ mem.result \in [Nodes -> 0..MaxReports]
  BY <1>1 DEF State
<1>3. closing' \subseteq closing \cup Pending /\ closed' \subseteq closed \cup closing
  BY ClosingStep
<1>4. Owner \notin Nodes /\ Owner # NoDest /\ NoDest \notin Nodes /\ Root \in Nodes
  BY TreeAssumption DEF Dests
<1>5. ASSUME NEW n \in Nodes, Records(n)
      PROVE  SafeInv'
  <2> DEFINE moves(m) == m \in mem.op[n].carried /\ mem.landed[m] = n /\ m \notin mem.closedAt
  <2>1. ASSUME NEW m \in Nodes
        PROVE  /\ mem'.landed[m] = IF m = n \/ moves(m) THEN Parent[n] ELSE mem.landed[m]
               /\ mem'.result[m] = IF m = n THEN mem.op[n].result ELSE mem.result[m]
    BY <1>1, <1>5 DEF Records, Recorded, State
  <2>2. ASSUME NEW m \in Nodes, mem.landed[m] = Owner
        PROVE  mem'.landed[m] = Owner /\ mem'.result[m] = mem.result[m]
    BY <1>4, <1>5, <2>1, <2>2 DEF Records
  <2>3. \A m \in closing' \cup closed' : AtTarget(m)'
    BY <1>1, <1>5, <2>2 DEF Records, SafeInv, AtTarget
  <2>4. ASSUME NEW m \in Nodes, mem'.landed[m] = Owner
        PROVE  mem'.landed[Root] = Owner
    <3>1. CASE mem.landed[m] = Owner
      BY <1>4, <2>2, <3>1 DEF SafeInv
    <3>2. CASE mem.landed[m] # Owner
      <4>1. Parent[n] = Owner
        BY <2>1, <2>4, <3>2
      <4>2. n = Root
        BY <4>1, TreeAssumption
      <4> QED BY <2>1, <4>1, <4>2
    <3> QED BY <3>1, <3>2
  <2>5. DurableLedger'
    BY <1>5 DEF Records, DurableLedger, Durable
  <2>6. task'.step \notin {"gates", "merge", "record"}
    BY <1>5 DEF Records
  <2> QED BY <2>3, <2>4, <2>5, <2>6 DEF SafeInv
<1>6. ASSUME NEW n \in Nodes, ReportDone(n)
      PROVE  SafeInv'
  <2>1. tip[n] \in Nat
    BY DEF TypeInv, TypeOK, WorldOK
  <2>2. /\ mem'.landed = mem.landed /\ mem'.result = [mem.result EXCEPT ![n] = tip[n] + 1]
        /\ disk' = mem' /\ UNCHANGED <<task, closing, closed>>
    BY <1>1, <1>6 DEF ReportDone, Saved, State, issues
  <2>3. \A m \in Nodes : mem.result[m] # 0 => mem'.result[m] # 0
    BY <1>2, <2>1, <2>2
  <2>4. \A m \in closing' \cup closed' : AtTarget(m)'
    BY <1>1, <2>2, <2>3 DEF SafeInv, AtTarget
  <2> QED BY <2>2, <2>4 DEF SafeInv, DurableLedger, Durable
<1>7. CASE Keeps
  <2>1. mem'.landed = mem.landed /\ mem'.result = mem.result /\ DurableLedger'
    BY <1>7 DEF Keeps, DurableLedger
  <2>2. \A m \in closing \cup Pending \cup closed : AtTarget(m)
    BY DEF SafeInv, Pending, AtTarget
  <2>3. \A m \in closing' \cup closed' : AtTarget(m)'
    BY <1>3, <2>1, <2>2 DEF AtTarget
  <2>4. task'.step \in {"gates", "merge", "record"} => mem.landed[task'.call.node] = NoDest
    BY TaskCases DEF SafeInv
  <2> QED BY <2>1, <2>3, <2>4 DEF SafeInv
<1> QED BY <1>5, <1>6, <1>7, WriteCases

(* Both invariants hold in every reachable state.                          *)
LEMMA Invariants == Spec => [](TypeInv /\ SafeInv)
<1>1. Init => TypeInv /\ SafeInv
  <2> SUFFICES ASSUME Init PROVE SafeInv
    BY TypeInit
  <2> QED BY TreeAssumption
          DEF Init, SafeInv, DurableLedger, Durable, Empty, Idle, Dests
<1>2. TypeInv /\ SafeInv /\ [Next]_vars => TypeInv' /\ SafeInv'
  BY TypeStep, SafeStep
<1> QED BY <1>1, <1>2, PTL DEF Spec

(* The tracker closes an issue only when the state file holds its result   *)
(* and says that it and the root are in the target.                        *)
THEOREM ClosesAreDurable == Spec => []ClosedAreDurable
<1>1. TypeInv /\ SafeInv => ClosedAreDurable
  BY DEF TypeInv, TypeOK, WorldOK, SafeInv, DurableLedger, Durable, AtTarget, ClosedAreDurable
<1> QED BY <1>1, Invariants, PTL

(* No refused save, crash or stop leaves the process believing in a        *)
(* landing, a result or a close that the state file lacks.                 *)
THEOREM LedgerIsDurable == Spec => []DurableLedger
<1>1. TypeInv /\ SafeInv => DurableLedger
  BY DEF SafeInv
<1> QED BY <1>1, Invariants, PTL

----------------------------------------------------------------------------
(***************************************************************************)
(* What holds of a landing up the tree: where every reported commit is,    *)
(* who may be at work while what lands, and that the protocol implements   *)
(* LandingContract.                                                        *)
(***************************************************************************)

(* What the process believes and what the file says differ in a chain's     *)
(* phase and in the collectors alone.                                      *)
Agree ==
  /\ disk.landed = mem.landed /\ disk.result = mem.result /\ disk.closedAt = mem.closedAt
  /\ disk.op = mem.op /\ disk.resume = mem.resume
  /\ \A n \in Nodes :
       /\ disk.chain[n].phase = "none" <=> mem.chain[n].phase = "none"
       /\ disk.chain[n].handle = mem.chain[n].handle
       /\ disk.chain[n].workers = mem.chain[n].workers

(* A landReviewed call that is waiting or holds the lock.                  *)
Pends(c) == c \in calls \/ (task.step # "idle" /\ task.call = c)

(* A node that works, has merged, or holds what its descendants landed; and *)
(* one that only waits for its children.                                   *)
Chained(n) == mem.chain[n].phase # "none"
Holds(n)   == \E m \in Nodes : mem.landed[m] = n
Active(n)  == ~Landed(n) /\ (Chained(n) \/ Reached(n) \/ Holds(n))
Quiet(n)   == Open(n) /\ ~Chained(n) /\ ~Reached(n)

(* Below a node that works, has merged or has landed nothing does.         *)
Exclusion ==
  \A n \in Nodes : Active(n) => n \in filed /\ \A a \in Above[n] : Quiet(a)

(* Only a chain calls landReviewed, and only a landing takes it away; what  *)
(* merged unrecorded has a chain until a stop, and then is recovered before *)
(* anything else starts.                                                   *)
Chains ==
  /\ \A c \in Call : Pends(c) => Landed(c.node) \/ Chained(c.node)
  /\ \A n \in Nodes : ~Landed(n) /\ Reached(n) =>
       Chained(n) \/ stage \in {"down", "boot", "recover"}

(* How far the landing that holds the lock is.                             *)
Progress ==
  LET n == task.call.node
  IN  /\ task.step = "gates" => ~Landed(n) /\ mem.op[n].at = "intent"
      /\ task.step = "merge" => ~Landed(n) /\ mem.op[n].at = "prepared" /\ ~Reached(n)
      /\ task.step = "record" => ~Landed(n) /\ Reached(n)
      /\ task.step = "finish" => Landed(n)

(* The commits that stand for a node in the ledger, and in an operation.   *)
Marks(n) == {<<n, mem.op[n].head>>, <<n, mem.result[n]>>}
Own(n)   == {<<n, mem.op[n].head>>, <<n, mem.op[n].result>>}

(* What a node's chain, its calls and its operation are about is in the    *)
(* worker's branch.                                                        *)
Worked ==
  /\ \A n \in Nodes :
       /\ mem.chain[n].handle <= spawned[n]
       /\ ~Landed(n) /\ (mem.chain[n].phase = "integrate" \/ disk.chain[n].phase = "integrate") =>
            <<n, mem.result[n]>> \in work[n][mem.chain[n].handle]
  /\ \A c \in Call : Pends(c) =>
       c.worker <= spawned[c.node] /\ <<c.node, c.result>> \in work[c.node][c.worker]
  /\ task.step \in {"gates", "merge"} => mem.op[task.call.node].result = task.call.result
  /\ task.step = "merge" => Own(task.call.node) \subseteq work[task.call.node][task.call.worker]

(* What landed in a node's collector is in the branch of every worker that  *)
(* may land the node, and named in its operation.                          *)
Contained ==
  \A m \in Nodes : mem.landed[m] \in Nodes =>
    LET n == mem.landed[m]
    IN  /\ n \in mem.collectors /\ n \in disk.collectors
        /\ Chained(n) => Marks(m) \subseteq work[n][mem.chain[n].handle]
        /\ \A c \in Call : Pends(c) /\ c.node = n => Marks(m) \subseteq work[n][c.worker]
        /\ task.step \in {"gates", "merge", "record"} /\ task.call.node = n =>
             m \in mem.op[n].carried
        /\ Reached(n) => m \in mem.op[n].carried /\ Marks(m) \subseteq branch[Parent[n]]

(* A collector exists before anything lands in it, and until its node did. *)
Collectors ==
  /\ \A n \in Nodes : n \notin trees /\ ~Landed(n) => branch[n] = {}
  /\ \A n \in Nodes : n \in mem.collectors \cup disk.collectors /\ ~Landed(n) => n \in trees
  /\ \A n \in Nodes : ~Landed(n) /\ (Chained(n) \/ Reached(n)) /\ Parent[n] \in Nodes =>
       Parent[n] \in mem.collectors /\ Parent[n] \in disk.collectors

(* A commit that is anywhere but in its own node's work is where the node   *)
(* lands; and it is there only when the node merged what its operation     *)
(* says.                                                                   *)
Sources ==
  \A x \in Nodes, k \in Reports :
    Parent[x] = Owner \/ ~Landed(Parent[x]) =>
      /\ \/ \E d \in Dests : <<x, k>> \in branch[d]
         \/ \E y \in Nodes \ {x} : <<x, k>> \in mem.resume[y] \/ \E w \in Workers : <<x, k>> \in work[y][w]
         => <<x, k>> \in branch[Parent[x]]
      /\ <<x, k>> \in branch[Parent[x]] => Landed(x) \/ Reached(x)
OwnMerged == \A n \in Nodes : ~Landed(n) /\ Reached(n) => Own(n) \subseteq branch[Parent[n]]

(* LedgerIsTrue, RecordedResultLanded and NoneStranded in memory.          *)
Entries ==
  /\ \A m \in Nodes : Landed(m) => Marks(m) \subseteq branch[mem.landed[m]] /\ mem.result[m] # 0
  /\ \A m \in Nodes : mem.landed[m] \in Nodes => ~Landed(mem.landed[m])
  /\ \A m \in Nodes : Landed(m) => mem.op[m].at = "landed"
  /\ mem.closedAt \subseteq closed

(* The workers a receipt will name.                                        *)
Receipts ==
  /\ \A n \in Nodes, w \in Workers : <<n, w>> \in live =>
       w \in mem.op[n].workers \cup mem.chain[n].workers \cup {mem.chain[n].handle}
  /\ \A n \in Nodes : mem.op[n].cleaned => Landed(n) /\ \A w \in Workers : <<n, w>> \notin live
  /\ \A n \in Nodes : mem.chain[n].phase = "none" => mem.chain[n].workers = {} /\ mem.chain[n].handle = 0
  /\ stage \in {"clean", "visit", "between"} =>
       \A n \in Nodes : Landed(n) => ~Chained(n) \/ (task.step = "finish" /\ task.call.node = n)

(* While closes are under way, what is due is being closed.                *)
Due == closing # {} => stage = "close" /\ Pending \subseteq closing

TreeInv ==
  /\ Agree /\ Exclusion /\ Chains /\ Progress /\ Worked /\ Contained
  /\ Collectors /\ Sources /\ OwnMerged /\ Entries /\ Receipts /\ Due

-----------------------------------------------------------------------------
(* Steps, by what they do to the entries, the operations and the chains.   *)

SameOps(N) ==
  \A m \in N :
    /\ mem'.op[m].at = mem.op[m].at /\ mem'.op[m].head = mem.op[m].head
    /\ mem'.op[m].result = mem.op[m].result /\ mem'.op[m].carried = mem.op[m].carried
SameChains(N) ==
  \A m \in N :
    /\ mem'.chain[m].phase = "none" <=> mem.chain[m].phase = "none"
    /\ mem'.chain[m].handle = mem.chain[m].handle
    /\ mem'.chain[m].workers = mem.chain[m].workers
    /\ mem'.chain[m].phase = "integrate" \/ disk'.chain[m].phase = "integrate" =>
         mem.chain[m].phase = "integrate" \/ disk.chain[m].phase = "integrate"
SameReceipts(N) ==
  \A m \in N : mem'.op[m].workers = mem.op[m].workers /\ mem'.op[m].cleaned = mem.op[m].cleaned

SameEntries == mem'.landed = mem.landed /\ mem'.result = mem.result
Calm == SameEntries /\ SameOps(Nodes) /\ SameChains(Nodes) /\ mem'.resume = mem.resume

(* Of a state: its operations and chains are such.                         *)
LEMMA Parts ==
  ASSUME TypeInv
  PROVE  /\ mem \in State /\ disk \in State
         /\ mem.op \in [Nodes -> Operation] /\ disk.op \in [Nodes -> Operation]
         /\ mem.chain \in [Nodes -> Chain] /\ disk.chain \in [Nodes -> Chain]
         /\ \A n \in Nodes : mem.op[n] \in Operation /\ mem.chain[n] \in Chain
         /\ mem.landed \in [Nodes -> Dests \cup {NoDest}]
         /\ mem.result \in [Nodes -> 0..MaxReports]
         /\ mem.resume \in [Nodes -> SUBSET Commits]
         /\ mem.collectors \subseteq Nodes /\ disk.collectors \subseteq Nodes
         /\ mem.closedAt \subseteq Nodes
BY DEF TypeInv, TypeOK, State

(* The steps of a landing that end it without recording it.                *)
LEMMA EndsCalm ==
  ASSUME TypeInv, Agree, NEW c \in Call, RecordRefused(c) \/ SendBack(c)
  PROVE  /\ Agree' /\ Calm /\ SameReceipts(Nodes) /\ disk' = disk
         /\ mem'.closedAt = mem.closedAt /\ mem'.collectors = mem.collectors
<1> DEFINE n == c.node
<1>1. n \in Nodes
  BY DEF Call
<1>2. disk' = disk
  BY DEF RecordRefused, SendBack
<1>3. /\ mem'.landed = mem.landed /\ mem'.result = mem.result /\ mem'.op = mem.op
      /\ mem'.closedAt = mem.closedAt /\ mem'.resume = mem.resume
      /\ mem'.collectors = mem.collectors
  BY Parts DEF RecordRefused, SendBack, State
<1>4. \A m \in Nodes :
        /\ mem'.chain[m].phase = "none" <=> mem.chain[m].phase = "none"
        /\ mem'.chain[m].handle = mem.chain[m].handle
        /\ mem'.chain[m].workers = mem.chain[m].workers
        /\ mem'.chain[m].phase = "integrate" => mem.chain[m].phase = "integrate"
  <2>1. CASE mem' = mem
    BY <2>1
  <2>2. CASE mem.chain[n].phase # "none" /\ mem' = [mem EXCEPT !.chain[n].held = TRUE]
    <3>1. mem'.chain = [mem.chain EXCEPT ![n] = [mem.chain[n] EXCEPT !.held = TRUE]]
      BY <1>1, <2>2, Parts DEF State
    <3> QED BY <1>1, <3>1, Parts DEF Chain
  <2>3. CASE mem.chain[n].phase # "none" /\ mem' = [mem EXCEPT !.chain[n].phase = "work"]
    <3>1. mem'.chain = [mem.chain EXCEPT ![n] = [mem.chain[n] EXCEPT !.phase = "work"]]
      BY <1>1, <2>3, Parts DEF State
    <3> QED BY <1>1, <2>3, <3>1, Parts DEF Chain
  <2> QED BY <2>1, <2>2, <2>3 DEF RecordRefused, SendBack
<1>5. Agree'
  BY <1>2, <1>3, <1>4 DEF Agree
<1> QED BY <1>2, <1>3, <1>4, <1>5 DEF Calm, SameEntries, SameOps, SameChains, SameReceipts

(* A cleanup that is done, saved or not.                                   *)
LEMMA CleanupCalm ==
  ASSUME TypeInv, Agree, NEW n \in Nodes, FinishCleanup(n)
  PROVE  /\ Agree' /\ Calm /\ SameReceipts(Nodes \ {n})
         /\ mem'.closedAt = mem.closedAt
         /\ mem'.op[n].workers = mem.op[n].workers
         /\ mem'.op[n].cleaned => Retired(n) \/ mem.op[n].cleaned
         /\ mem.collectors \ {n} \subseteq mem'.collectors /\ mem'.collectors \subseteq mem.collectors
         /\ disk'.collectors = mem'.collectors \/ disk'.collectors = disk.collectors
<1> DEFINE dropped == IF mem.op[n].collector THEN {n} ELSE {}
           s == [mem EXCEPT !.collectors = mem.collectors \ dropped]
           t == [s EXCEPT !.op[n].cleaned = TRUE]
<1>1. \/ mem' = t /\ disk' = t
      \/ mem' = s /\ disk' = disk
  BY DEF FinishCleanup, Saved
<1>2. /\ s.landed = mem.landed /\ s.result = mem.result /\ s.closedAt = mem.closedAt
      /\ s.resume = mem.resume /\ s.chain = mem.chain /\ s.op = mem.op
      /\ s.collectors = mem.collectors \ dropped /\ s \in State
  BY Parts DEF State
<1>3. /\ t.landed = mem.landed /\ t.result = mem.result /\ t.closedAt = mem.closedAt
      /\ t.resume = mem.resume /\ t.chain = mem.chain
      /\ t.op = [mem.op EXCEPT ![n] = [mem.op[n] EXCEPT !.cleaned = TRUE]]
      /\ t.collectors = mem.collectors \ dropped
  <2> HIDE DEF s
  <2> QED BY <1>2 DEF State
<1>4. \A m \in Nodes :
        /\ t.op[m].at = mem.op[m].at /\ t.op[m].head = mem.op[m].head
        /\ t.op[m].result = mem.op[m].result /\ t.op[m].carried = mem.op[m].carried
        /\ t.op[m].workers = mem.op[m].workers
        /\ m # n => t.op[m].cleaned = mem.op[m].cleaned
  <2> HIDE DEF s, t
  <2> DEFINE o == [mem.op[n] EXCEPT !.cleaned = TRUE]
  <2>1. /\ o.at = mem.op[n].at /\ o.head = mem.op[n].head /\ o.result = mem.op[n].result
        /\ o.carried = mem.op[n].carried /\ o.workers = mem.op[n].workers
    BY Parts DEF Operation
  <2> HIDE DEF o
  <2>2. \A m \in Nodes : t.op[m] = IF m = n THEN o ELSE mem.op[m]
    BY <1>3, Parts DEF o
  <2> QED BY <2>1, <2>2
<1>5. Retired(n)
  BY DEF FinishCleanup
<1> HIDE DEF s, t
<1>6. CASE mem' = t /\ disk' = t
  BY <1>3, <1>4, <1>5, <1>6 DEF Agree, Calm, SameEntries, SameOps, SameChains, SameReceipts
<1>7. CASE mem' = s /\ disk' = disk
  BY <1>2, <1>7 DEF Agree, Calm, SameEntries, SameOps, SameChains, SameReceipts
<1> QED BY <1>1, <1>6, <1>7

(* Every other step that changes no operation and no chain.                *)
LEMMA OthersCalm ==
  ASSUME TypeInv, Agree,
         \/ UNCHANGED ledger
         \/ BeginClose \/ Flush \/ Crash
         \/ \E n \in Nodes : RecordCollector(n) \/ SaveClosed(n)
  PROVE  Agree' /\ Calm /\ SameReceipts(Nodes)
<1> USE DEF Agree, Calm, SameEntries, SameOps, SameChains, SameReceipts
<1>1. CASE UNCHANGED ledger
  BY <1>1 DEF ledger
<1>2. CASE BeginClose \/ Flush
  BY <1>2 DEF BeginClose, Flush
<1>3. CASE Crash
  BY <1>3 DEF Crash
<1>4. ASSUME NEW n \in Nodes, RecordCollector(n) \/ SaveClosed(n)
      PROVE  Agree' /\ Calm /\ SameReceipts(Nodes)
  <2>1. /\ mem'.landed = mem.landed /\ mem'.result = mem.result /\ mem'.op = mem.op
        /\ mem'.chain = mem.chain /\ mem'.resume = mem.resume /\ disk' = mem'
    BY <1>4, Parts DEF RecordCollector, SaveClosed, Saved, State
  <2> QED BY <2>1
<1> QED BY <1>1, <1>2, <1>3, <1>4


-----------------------------------------------------------------------------
(* The steps that change an operation, an entry or a chain, told in terms   *)
(* of these.                                                               *)

Begins(n) ==
  /\ SameEntries /\ SameOps(Nodes) /\ SameReceipts(Nodes) /\ SameChains(Nodes \ {n})
  /\ mem'.closedAt = mem.closedAt /\ mem'.collectors = mem.collectors /\ disk' = mem'
  /\ \A m \in Nodes : mem'.resume[m] = IF m = n THEN {} ELSE mem.resume[m]
  /\ spawned[n] + 1 \in Workers
  /\ mem'.chain[n].phase = "work" /\ mem'.chain[n].handle = spawned[n] + 1
  /\ mem'.chain[n].workers = {}

(* A chain's start.                                                        *)
LEMMA StartChainDoes ==
  ASSUME TypeInv, NEW n \in Nodes, StartChain(n)
  PROVE  Begins(n)
<1> DEFINE h == spawned[n] + 1
           d == [NoChain EXCEPT !.phase = "work", !.handle = h]
<1>1. spawned'[n] = h /\ h \in Workers
  BY BoundAssumption DEF TypeInv, TypeOK, WorldOK, StartChain, Spawn, Workers
<1>2. d.phase = "work" /\ d.handle = h /\ d.workers = {}
  <2> HIDE DEF h
  <2> QED BY DEF NoChain
<1>3. mem' = [mem EXCEPT !.chain[n] = d, !.resume[n] = {}] /\ disk' = mem'
  BY <1>1 DEF StartChain, Saved
<1> HIDE DEF d
<1>4. /\ mem'.landed = mem.landed /\ mem'.result = mem.result /\ mem'.op = mem.op
      /\ mem'.closedAt = mem.closedAt /\ mem'.collectors = mem.collectors
      /\ mem'.chain = [mem.chain EXCEPT ![n] = d] /\ mem'.resume = [mem.resume EXCEPT ![n] = {}]
  BY <1>3, Parts DEF State
<1>5. \A m \in Nodes : mem'.chain[m] = IF m = n THEN d ELSE mem.chain[m]
  BY <1>4, Parts
<1>6. \A m \in Nodes : mem'.resume[m] = IF m = n THEN {} ELSE mem.resume[m]
  BY <1>4, Parts
<1> QED BY <1>1, <1>2, <1>3, <1>4, <1>5, <1>6
        DEF Begins, SameEntries, SameOps, SameReceipts, SameChains

Replaces(n) ==
  /\ SameEntries /\ SameOps(Nodes) /\ SameReceipts(Nodes) /\ SameChains(Nodes \ {n})
  /\ mem'.resume = mem.resume
  /\ mem'.closedAt = mem.closedAt /\ mem'.collectors = mem.collectors /\ disk' = mem'
  /\ spawned[n] + 1 \in Workers
  /\ mem.chain[n].phase = "work" /\ mem.chain[n].handle \in Workers
  /\ mem'.chain[n].phase = "work" /\ mem'.chain[n].handle = spawned[n] + 1
  /\ \/ /\ live' = (live \ {<<n, mem.chain[n].handle>>}) \cup {<<n, spawned[n] + 1>>}
        /\ mem'.chain[n].workers = mem.chain[n].workers
     \/ /\ live' = live \cup {<<n, spawned[n] + 1>>}
        /\ mem'.chain[n].workers = mem.chain[n].workers \cup {mem.chain[n].handle}

(* A worker's replacement.                                                 *)
LEMMA ReplaceWorkerDoes ==
  ASSUME TypeInv, NEW n \in Nodes, ReplaceWorker(n)
  PROVE  Replaces(n)
<1> DEFINE h == spawned[n] + 1
           c == mem.chain[n]
           d == [c EXCEPT !.handle = h]
           e == [c EXCEPT !.handle = h, !.workers = c.workers \cup {c.handle}]
<1>1. spawned'[n] = h /\ h \in Workers
  BY BoundAssumption DEF TypeInv, TypeOK, WorldOK, ReplaceWorker, Spawn, Workers
<1>2. c.phase = "work" /\ c.handle \in Workers
  BY Parts, BoundAssumption DEF ReplaceWorker, TypeInv, Wellformed, Chain, Workers
<1>3. /\ d.phase = "work" /\ d.handle = h /\ d.workers = c.workers
      /\ e.phase = "work" /\ e.handle = h /\ e.workers = c.workers \cup {c.handle}
  <2> HIDE DEF h
  <2> QED BY <1>2, Parts DEF Chain
<1>4. \/ /\ live' = (live \ {<<n, c.handle>>}) \cup {<<n, h>>}
         /\ Saved([mem EXCEPT !.chain[n] = d])
      \/ /\ live' = live \cup {<<n, h>>}
         /\ Saved([mem EXCEPT !.chain[n] = e])
  <2>1. \/ /\ live' = (live \ {<<n, c.handle>>}) \cup {<<n, h>>}
           /\ Saved([mem EXCEPT !.chain[n].handle = h])
        \/ /\ live' = live \cup {<<n, h>>}
           /\ Saved([mem EXCEPT !.chain[n].handle = h,
                                !.chain[n].workers = @ \cup {c.handle}])
    BY <1>1 DEF ReplaceWorker
  <2>2. [mem EXCEPT !.chain[n].handle = h] = [mem EXCEPT !.chain[n] = d]
    BY Parts DEF State
  <2>3. [mem EXCEPT !.chain[n].handle = h, !.chain[n].workers = @ \cup {c.handle}]
          = [mem EXCEPT !.chain[n] = e]
    BY Parts DEF State, Chain
  <2> QED BY <2>1, <2>2, <2>3
<1> HIDE DEF d, e
<1>5. ASSUME NEW x, Saved([mem EXCEPT !.chain[n] = x]), x.phase = "work", x.handle = h
      PROVE  /\ SameEntries /\ SameOps(Nodes) /\ SameReceipts(Nodes) /\ SameChains(Nodes \ {n})
             /\ mem'.resume = mem.resume
             /\ mem'.closedAt = mem.closedAt /\ mem'.collectors = mem.collectors /\ disk' = mem'
             /\ mem'.chain[n] = x
  <2>1. /\ mem'.landed = mem.landed /\ mem'.result = mem.result /\ mem'.op = mem.op
        /\ mem'.closedAt = mem.closedAt /\ mem'.collectors = mem.collectors
        /\ mem'.resume = mem.resume /\ disk' = mem'
        /\ mem'.chain = [mem.chain EXCEPT ![n] = x]
    BY <1>5, Parts DEF State, Saved
  <2>2. \A m \in Nodes : mem'.chain[m] = IF m = n THEN x ELSE mem.chain[m]
    BY <2>1, Parts
  <2> QED BY <2>1, <2>2 DEF SameEntries, SameOps, SameReceipts, SameChains
<1> QED BY <1>1, <1>2, <1>3, <1>4, <1>5 DEF Replaces

HasReported(n) ==
  /\ SameOps(Nodes) /\ SameReceipts(Nodes) /\ SameChains(Nodes \ {n})
  /\ mem'.landed = mem.landed /\ mem'.resume = mem.resume
  /\ mem'.closedAt = mem.closedAt /\ mem'.collectors = mem.collectors /\ disk' = mem'
  /\ tip[n] + 1 \in Reports
  /\ \A m \in Nodes : mem'.result[m] = IF m = n THEN tip[n] + 1 ELSE mem.result[m]
  /\ mem'.chain[n].phase = "integrate" /\ mem.chain[n].phase = "work"
  /\ mem'.chain[n].handle = mem.chain[n].handle
  /\ mem'.chain[n].workers = mem.chain[n].workers

(* A worker's report.                                                      *)
LEMMA ReportDoneDoes ==
  ASSUME TypeInv, NEW n \in Nodes, ReportDone(n)
  PROVE  HasReported(n)
<1> DEFINE k == tip[n] + 1
           d == [mem.chain[n] EXCEPT !.phase = "integrate"]
<1>1. k \in Reports
  BY BoundAssumption DEF TypeInv, TypeOK, WorldOK, ReportDone, Reports
<1>2. /\ d.phase = "integrate" /\ d.handle = mem.chain[n].handle
      /\ d.workers = mem.chain[n].workers
  BY Parts DEF Chain
<1>3. mem' = [mem EXCEPT !.result[n] = k, !.chain[n].phase = "integrate"] /\ disk' = mem'
  BY DEF ReportDone, Saved
<1>4. /\ mem'.landed = mem.landed /\ mem'.op = mem.op /\ mem'.resume = mem.resume
      /\ mem'.closedAt = mem.closedAt /\ mem'.collectors = mem.collectors
      /\ mem'.result = [mem.result EXCEPT ![n] = k] /\ mem'.chain = [mem.chain EXCEPT ![n] = d]
  <2> HIDE DEF k
  <2> QED BY <1>3, Parts DEF State
<1> HIDE DEF d
<1>5. \A m \in Nodes : mem'.chain[m] = IF m = n THEN d ELSE mem.chain[m]
  BY <1>4, Parts
<1>6. \A m \in Nodes : mem'.result[m] = IF m = n THEN k ELSE mem.result[m]
  BY <1>4, Parts
<1>7. mem.chain[n].phase = "work"
  BY DEF ReportDone
<1> QED BY <1>1, <1>2, <1>3, <1>4, <1>5, <1>6, <1>7
        DEF HasReported, SameOps, SameReceipts, SameChains


Moves(m, n) == m \in mem.op[n].carried /\ mem.landed[m] = n /\ m \notin mem.closedAt

Lands(n) ==
  /\ SameOps(Nodes \ {n}) /\ SameReceipts(Nodes) /\ SameChains(Nodes)
  /\ mem'.resume = mem.resume
  /\ mem'.closedAt = mem.closedAt /\ mem'.collectors = mem.collectors /\ disk' = mem'
  /\ \A m \in Nodes : mem'.landed[m] = IF m = n \/ Moves(m, n) THEN Parent[n] ELSE mem.landed[m]
  /\ \A m \in Nodes : mem'.result[m] = IF m = n THEN mem.op[n].result ELSE mem.result[m]
  /\ mem'.op[n].at = "landed" /\ mem'.op[n].head = mem.op[n].head
  /\ mem'.op[n].result = mem.op[n].result /\ mem'.op[n].carried = mem.op[n].carried

(* recordLanding.                                                          *)
LEMMA RecordedDoes ==
  ASSUME TypeInv, NEW n \in Nodes, Saved(Recorded(mem, n))
  PROVE  Lands(n)
<1> DEFINE o == [mem.op[n] EXCEPT !.at = "landed"]
<1>1. /\ o.at = "landed" /\ o.head = mem.op[n].head /\ o.result = mem.op[n].result
      /\ o.carried = mem.op[n].carried /\ o.workers = mem.op[n].workers
      /\ o.cleaned = mem.op[n].cleaned
  BY Parts DEF Operation
<1>2. /\ mem'.chain = mem.chain /\ mem'.resume = mem.resume
      /\ mem'.closedAt = mem.closedAt /\ mem'.collectors = mem.collectors /\ disk' = mem'
      /\ mem'.op = [mem.op EXCEPT ![n] = o]
      /\ mem'.result = [mem.result EXCEPT ![n] = mem.op[n].result]
      /\ mem'.landed = [m \in Nodes |-> IF m = n \/ Moves(m, n) THEN Parent[n] ELSE mem.landed[m]]
  BY Parts DEF State, Saved, Recorded, Moves
<1> HIDE DEF o
<1>3. \A m \in Nodes : mem'.op[m] = IF m = n THEN o ELSE mem.op[m]
  BY <1>2, Parts
<1>4. \A m \in Nodes : mem'.result[m] = IF m = n THEN mem.op[n].result ELSE mem.result[m]
  BY <1>2, Parts
<1> QED BY <1>1, <1>2, <1>3, <1>4 DEF Lands, SameOps, SameReceipts, SameChains

Intends(c) ==
  /\ SameEntries /\ SameOps(Nodes \ {c.node}) /\ SameReceipts(Nodes \ {c.node})
  /\ SameChains(Nodes) /\ mem'.resume = mem.resume
  /\ mem'.closedAt = mem.closedAt /\ mem'.collectors = mem.collectors /\ disk' = mem'
  /\ mem'.op[c.node].at = "intent" /\ mem'.op[c.node].head = 0
  /\ mem'.op[c.node].result = c.result /\ ~mem'.op[c.node].cleaned
  /\ mem'.op[c.node].carried =
       {m \in Nodes \ {c.node} : mem.landed[m] = c.node /\ m \notin mem.closedAt}
  /\ mem'.op[c.node].workers =
       mem.op[c.node].workers \cup mem.chain[c.node].workers \cup {c.worker}

(* The write-ahead intent of a landing.                                    *)
LEMMA IntendDoes ==
  ASSUME TypeInv, NEW c \in Call, Intend(c)
  PROVE  Intends(c)
<1> DEFINE n == c.node
           o == [at |-> "intent", result |-> c.result, head |-> 0,
                 carried |-> {m \in Nodes \ {n} : mem.landed[m] = n /\ m \notin mem.closedAt},
                 workers |-> mem.op[n].workers \cup mem.chain[n].workers \cup {c.worker},
                 collector |-> n \in mem.collectors, cleaned |-> FALSE]
<1>1. n \in Nodes
  BY DEF Call
<1>2. mem' = [mem EXCEPT !.op[n] = o] /\ disk' = mem'
  BY DEF Intend, Saved
<1>3. /\ o.at = "intent" /\ o.head = 0 /\ o.result = c.result /\ ~o.cleaned
      /\ o.carried = {m \in Nodes \ {n} : mem.landed[m] = n /\ m \notin mem.closedAt}
      /\ o.workers = mem.op[n].workers \cup mem.chain[n].workers \cup {c.worker}
  OBVIOUS
<1> HIDE DEF o
<1>4. /\ mem'.landed = mem.landed /\ mem'.result = mem.result /\ mem'.chain = mem.chain
      /\ mem'.closedAt = mem.closedAt /\ mem'.collectors = mem.collectors
      /\ mem'.resume = mem.resume /\ mem'.op = [mem.op EXCEPT ![n] = o]
  BY <1>1, <1>2, Parts DEF State
<1>5. \A m \in Nodes : mem'.op[m] = IF m = n THEN o ELSE mem.op[m]
  BY <1>1, <1>4, Parts
<1> QED BY <1>1, <1>2, <1>3, <1>4, <1>5
        DEF Intends, SameEntries, SameOps, SameReceipts, SameChains

Prepares(c) ==
  /\ SameEntries /\ SameOps(Nodes \ {c.node}) /\ SameReceipts(Nodes) /\ SameChains(Nodes)
  /\ mem'.resume = mem.resume
  /\ mem'.closedAt = mem.closedAt /\ mem'.collectors = mem.collectors /\ disk' = mem'
  /\ mem'.op[c.node].at = "prepared" /\ mem'.op[c.node].head = HeadOf(c.node, c.worker)
  /\ mem'.op[c.node].result = mem.op[c.node].result
  /\ mem'.op[c.node].carried = mem.op[c.node].carried

(* A landing's preparation.                                                *)
LEMMA PrepareDoes ==
  ASSUME TypeInv, NEW c \in Call, Prepare(c)
  PROVE  Prepares(c)
<1> DEFINE n == c.node
           h == HeadOf(c.node, c.worker)
           o == [mem.op[n] EXCEPT !.at = "prepared", !.head = h]
<1>1. n \in Nodes
  BY DEF Call
<1>2. mem' = [mem EXCEPT !.op[n] = o] /\ disk' = mem'
  <2>1. mem' = [mem EXCEPT !.op[n].at = "prepared", !.op[n].head = h] /\ disk' = mem'
    BY DEF Prepare, Saved
  <2> HIDE DEF h, n
  <2>2. [mem EXCEPT !.op[n].at = "prepared", !.op[n].head = h]
          = [mem EXCEPT !.op = [mem.op EXCEPT ![n].at = "prepared", ![n].head = h]]
    BY <1>1, Parts DEF State
  <2>3. [mem.op EXCEPT ![n].at = "prepared", ![n].head = h] = [mem.op EXCEPT ![n] = o]
    BY <1>1, Parts DEF Operation
  <2>4. [mem EXCEPT !.op[n] = o] = [mem EXCEPT !.op = [mem.op EXCEPT ![n] = o]]
    BY <1>1, Parts DEF State
  <2> QED BY <2>1, <2>2, <2>3, <2>4
<1> HIDE DEF h
<1>3. /\ o.at = "prepared" /\ o.head = h /\ o.result = mem.op[n].result
      /\ o.carried = mem.op[n].carried /\ o.workers = mem.op[n].workers
      /\ o.cleaned = mem.op[n].cleaned
  BY <1>1, Parts DEF Operation
<1> HIDE DEF o
<1>4. /\ mem'.landed = mem.landed /\ mem'.result = mem.result /\ mem'.chain = mem.chain
      /\ mem'.closedAt = mem.closedAt /\ mem'.collectors = mem.collectors
      /\ mem'.resume = mem.resume /\ mem'.op = [mem.op EXCEPT ![n] = o]
  BY <1>1, <1>2, Parts DEF State
<1>5. \A m \in Nodes : mem'.op[m] = IF m = n THEN o ELSE mem.op[m]
  BY <1>1, <1>4, Parts
<1> QED BY <1>1, <1>2, <1>3, <1>4, <1>5
        DEF Prepares, SameEntries, SameOps, SameReceipts, SameChains, h

(* The receipt of a landed node's chain.                                   *)
Receipt(n) ==
  /\ SameEntries /\ SameOps(Nodes) /\ SameReceipts(Nodes \ {n}) /\ SameChains(Nodes \ {n})
  /\ mem'.resume = mem.resume
  /\ mem'.closedAt = mem.closedAt /\ mem'.collectors = mem.collectors /\ disk' = mem'
  /\ mem'.op[n].cleaned = mem.op[n].cleaned
  /\ mem'.op[n].workers =
       mem.op[n].workers \cup mem.chain[n].workers \cup ({mem.chain[n].handle} \ {0})
  /\ mem'.chain[n] = NoChain

(* A landed chain's receipt.                                               *)
LEMMA ReceiptedDoes ==
  ASSUME TypeInv, NEW n \in Nodes, Saved(Receipted(mem, n))
  PROVE  Receipt(n)
<1> DEFINE c == mem.chain[n]
           w == mem.op[n].workers \cup c.workers \cup ({c.handle} \ {0})
           o == [mem.op[n] EXCEPT !.workers = w]
<1>1. mem' = [mem EXCEPT !.op[n] = o, !.chain[n] = NoChain] /\ disk' = mem'
  BY Parts DEF Receipted, Saved, State
<1> HIDE DEF w
<1>2. /\ o.at = mem.op[n].at /\ o.head = mem.op[n].head /\ o.result = mem.op[n].result
      /\ o.carried = mem.op[n].carried /\ o.cleaned = mem.op[n].cleaned /\ o.workers = w
  BY Parts DEF Operation
<1> HIDE DEF o
<1>3. /\ mem'.landed = mem.landed /\ mem'.result = mem.result /\ mem'.resume = mem.resume
      /\ mem'.closedAt = mem.closedAt /\ mem'.collectors = mem.collectors
      /\ mem'.op = [mem.op EXCEPT ![n] = o] /\ mem'.chain = [mem.chain EXCEPT ![n] = NoChain]
  BY <1>1, Parts DEF State
<1>4. \A m \in Nodes : /\ mem'.op[m] = IF m = n THEN o ELSE mem.op[m]
                       /\ mem'.chain[m] = IF m = n THEN NoChain ELSE mem.chain[m]
  BY <1>3, Parts
<1> QED BY <1>1, <1>2, <1>3, <1>4
        DEF Receipt, SameEntries, SameOps, SameReceipts, SameChains, w

Stops ==
  /\ SameEntries /\ SameOps(Nodes) /\ SameReceipts(Nodes)
  /\ mem'.closedAt = mem.closedAt /\ mem'.collectors = disk.collectors /\ disk' = mem'
  /\ \A m \in Nodes : mem'.chain[m] = NoChain
  /\ \A m \in Nodes :
       \/ mem'.resume[m] = mem.resume[m]
       \/ mem.chain[m].handle \in Workers /\ mem'.resume[m] = work[m][mem.chain[m].handle]

(* A stop.                                                                 *)
LEMMA StopDoes ==
  ASSUME TypeInv, Agree, Stop
  PROVE  Stops
<1>1. mem' = [disk EXCEPT !.resume = Resumed(disk), !.chain = [n \in Nodes |-> NoChain]] /\ disk' = mem'
  BY DEF Stop, Stopped, Saved
<1>2. /\ mem'.landed = mem.landed /\ mem'.result = mem.result /\ mem'.op = mem.op
      /\ mem'.closedAt = mem.closedAt /\ mem'.collectors = disk.collectors
      /\ mem'.resume = Resumed(disk) /\ mem'.chain = [n \in Nodes |-> NoChain]
  BY <1>1, Parts DEF State, Agree
<1>3. ASSUME NEW m \in Nodes
      PROVE  \/ mem'.resume[m] = mem.resume[m]
             \/ mem.chain[m].handle \in Workers /\ mem'.resume[m] = work[m][mem.chain[m].handle]
  <2>1. disk.chain[m].handle = mem.chain[m].handle /\ disk.resume[m] = mem.resume[m]
    BY DEF Agree
  <2>2. mem.chain[m].handle # 0 => mem.chain[m].handle \in Workers
    BY Parts, BoundAssumption DEF Chain, Workers
  <2> QED BY <1>2, <2>1, <2>2 DEF Resumed
<1> QED BY <1>1, <1>2, <1>3 DEF Stops, SameEntries, SameOps, SameReceipts


-----------------------------------------------------------------------------
(* The tree.                                                               *)
LEMMA Tree ==
  /\ Root \in Nodes /\ Parent[Root] = Owner /\ Owner \notin Nodes /\ Owner \in Dests
  /\ NoDest \notin Nodes /\ NoDest # Owner /\ Nodes \subseteq Dests
  /\ \A n \in Nodes : Parent[n] \in Dests /\ Parent[n] # NoDest /\ Parent[n] # n
  /\ \A n \in Nodes : n \notin Above[n] /\ Above[n] \subseteq Nodes
  /\ \A n \in Nodes : n # Root =>
       Parent[n] \in Nodes /\ Parent[n] \in Above[n] /\ Root \in Above[n]
         /\ Above[Parent[n]] \subseteq Above[n]
  /\ \A n \in Nodes : Parent[n] = Owner => n = Root
BY TreeAssumption DEF Dests

(* The world's parts have their types.                                     *)
LEMMA World ==
  ASSUME TypeInv
  PROVE  /\ branch \in [Dests -> SUBSET Commits]
         /\ work \in [Nodes -> [Workers -> SUBSET Commits]]
         /\ \A n \in Nodes : work[n] \in [Workers -> SUBSET Commits]
         /\ tip \in [Nodes -> 0..MaxReports] /\ spawned \in [Nodes -> 0..MaxWorkers]
         /\ \A n \in Nodes : spawned[n] \in 0..MaxWorkers /\ tip[n] \in 0..MaxReports
         /\ live \subseteq Nodes \X Workers
         /\ trees \subseteq Nodes /\ filed \subseteq Nodes /\ closed \subseteq Nodes
         /\ calls \subseteq Call
         /\ MaxWorkers \in Nat /\ MaxReports \in Nat
         /\ \A w \in Workers : w \in Nat /\ w # 0
         /\ \A k \in Reports : k \in Nat /\ k # 0
BY BoundAssumption DEF TypeInv, TypeOK, WorldOK, ProcessOK, Workers, Reports

(* The steps that write no branch and no operation.                        *)
Steady ==
  \/ \E n \in Nodes :
       \/ FileIssue(n) \/ RecordCollector(n) \/ ResumeIntegrate(n) \/ CloseInTracker(n)
       \/ SaveClosed(n) \/ RemoveTree(n) \/ \E w \in Workers : RetireWorker(n, w)
  \/ \E c \in Call : TakeLock(c) \/ ReplayLanded(c) \/ RecordRefused(c) \/ SendBack(c)
  \/ Boot \/ Recovered \/ BeginClose \/ CloseFails \/ EndClose \/ EndSweep \/ EndClean
  \/ EndVisit \/ TickFails \/ NextTick \/ Start \/ Flush \/ Crash
  \/ UNCHANGED vars

(* A landing is recorded.                                                  *)
Recording(n) ==
  \/ RecoverLanding(n)
  \/ \E c \in Call : c.node = n /\ (ReplayReached(c) \/ Record(c))

(* A landed node's chain is taken away.                                    *)
Receipting(n) == SweepChain(n) \/ \E c \in Call : c.node = n /\ Finish(c) /\ Chained(n)

(* A landing ends where a stop had taken its chain.                        *)
BareFinish == \E c \in Call : Finish(c) /\ ~Chained(c.node)

Kinds ==
  \/ Steady \/ BareFinish \/ Stop
  \/ \E n \in Nodes :
       \/ MakeTree(n) \/ StartChain(n) \/ ReplaceWorker(n) \/ Commit(n) \/ ReportDone(n)
       \/ FinishCleanup(n) \/ Recording(n) \/ Receipting(n)
  \/ \E c \in Call : Intend(c) \/ Prepare(c) \/ Merge(c)

(* Every step is of one of these kinds.                                    *)
LEMMA StepKinds ==
  ASSUME [Next]_vars
  PROVE  Kinds
<1>1. ASSUME NEW n \in Nodes, FileIssue(n) \/ Walk(n)
      PROVE  Kinds
  BY <1>1 DEF Walk, Kinds, Steady
<1>2. ASSUME NEW c \in Call, Land(c)
      PROVE  Kinds
  <2>1. c.node \in Nodes
    BY DEF Call
  <2> QED BY <1>2, <2>1 DEF Land, Kinds, Steady, Recording, Receipting, BareFinish
<1>3. CASE Tick
  BY <1>3 DEF Tick, Kinds, Steady, Recording, Receipting
<1>4. CASE Flush \/ Crash \/ Start \/ Stop \/ UNCHANGED vars
  BY <1>4 DEF Kinds, Steady
<1> QED BY <1>1, <1>2, <1>3, <1>4 DEF Next

(* What steady steps leave alone.                                          *)
LEMMA SteadyDoes ==
  ASSUME TypeInv, Agree, Steady
  PROVE  /\ Agree' /\ Calm /\ SameReceipts(Nodes)
         /\ UNCHANGED <<branch, work, spawned, tip>>
         /\ filed \subseteq filed' /\ closed \subseteq closed'
<1>1. ASSUME NEW n \in Nodes,
             \/ FileIssue(n) \/ RecordCollector(n) \/ ResumeIntegrate(n) \/ CloseInTracker(n)
             \/ SaveClosed(n) \/ RemoveTree(n) \/ \E w \in Workers : RetireWorker(n, w)
      PROVE  /\ Agree' /\ Calm /\ SameReceipts(Nodes)
             /\ UNCHANGED <<branch, work, spawned, tip>>
             /\ filed \subseteq filed' /\ closed \subseteq closed'
  <2>1. /\ UNCHANGED <<branch, work, spawned, tip>>
        /\ filed \subseteq filed' /\ closed \subseteq closed'
    BY <1>1 DEF FileIssue, RecordCollector, ResumeIntegrate, CloseInTracker, SaveClosed,
                RemoveTree, RetireWorker, git, threads, issues
  <2>2. UNCHANGED ledger \/ RecordCollector(n) \/ SaveClosed(n)
    BY <1>1 DEF FileIssue, ResumeIntegrate, CloseInTracker, RemoveTree, RetireWorker
  <2> QED BY <2>1, <2>2, OthersCalm
<1>2. ASSUME NEW c \in Call,
             TakeLock(c) \/ ReplayLanded(c) \/ RecordRefused(c) \/ SendBack(c)
      PROVE  /\ Agree' /\ Calm /\ SameReceipts(Nodes)
             /\ UNCHANGED <<branch, work, spawned, tip>>
             /\ filed \subseteq filed' /\ closed \subseteq closed'
  <2>1. UNCHANGED <<branch, work, spawned, tip, filed, closed>>
    BY <1>2 DEF TakeLock, ReplayLanded, RecordRefused, SendBack, git, threads, issues
  <2>2. UNCHANGED ledger \/ RecordRefused(c) \/ SendBack(c)
    BY <1>2 DEF TakeLock, ReplayLanded
  <2> QED BY <2>1, <2>2, OthersCalm, EndsCalm
<1>3. CASE \/ Boot \/ Recovered \/ BeginClose \/ CloseFails \/ EndClose \/ EndSweep \/ EndClean
           \/ EndVisit \/ TickFails \/ NextTick \/ Start \/ Flush \/ Crash \/ UNCHANGED vars
  <2>1. UNCHANGED <<branch, work, spawned, tip, filed, closed>>
    BY <1>3 DEF Boot, Recovered, BeginClose, CloseFails, EndClose, EndSweep, EndClean,
                EndVisit, TickFails, NextTick, Start, Flush, Crash, vars, git, threads, issues
  <2>2. UNCHANGED ledger \/ BeginClose \/ Flush \/ Crash
    BY <1>3 DEF Boot, Recovered, CloseFails, EndClose, EndSweep, EndClean,
                EndVisit, TickFails, NextTick, Start, vars
  <2> QED BY <2>1, <2>2, OthersCalm
<1> QED BY <1>1, <1>2, <1>3 DEF Steady

(* A recording lands the node, once it has merged.                         *)
LEMMA RecordingDoes ==
  ASSUME TypeInv, Progress, NEW n \in Nodes, Recording(n)
  PROVE  /\ Lands(n) /\ ~Landed(n) /\ Reached(n)
         /\ UNCHANGED <<branch, work, spawned, tip, live, trees, filed, closed, closing, stage, calls>>
         /\ \/ task = Idle /\ task' = task
            \/ task.call.node = n /\ task'.call = task.call /\ task'.step = "finish"
               /\ task.step \in {"begin", "record"}
<1>1. CASE RecoverLanding(n)
  BY <1>1, RecordedDoes DEF RecoverLanding, Unrecorded, process, git, threads, issues
<1>2. ASSUME NEW c \in Call, c.node = n, ReplayReached(c) \/ Record(c)
      PROVE  /\ Lands(n) /\ ~Landed(n) /\ Reached(n)
             /\ UNCHANGED <<branch, work, spawned, tip, live, trees, filed, closed, closing, stage, calls>>
             /\ task.call.node = n /\ task'.call = task.call /\ task'.step = "finish"
             /\ task.step \in {"begin", "record"}
  <2>1. /\ Saved(Recorded(mem, n))
        /\ UNCHANGED <<branch, work, spawned, tip, live, trees, filed, closed, closing, stage, calls>>
        /\ task.call = c /\ task'.call = c /\ task'.step = "finish"
        /\ task.step \in {"begin", "record"}
    BY <1>2 DEF ReplayReached, Record, At, Step, OnlyTask, git, threads, issues
  <2>2. ~Landed(n) /\ Reached(n)
    BY <1>2, <2>1 DEF ReplayReached, Record, At, Progress
  <2> QED BY <1>2, <2>1, <2>2, RecordedDoes
<1> QED BY <1>1, <1>2 DEF Recording

(* A receipt is of a landed node.                                          *)
LEMMA ReceiptingDoes ==
  ASSUME TypeInv, Progress, NEW n \in Nodes, Receipting(n)
  PROVE  /\ Receipt(n) /\ Landed(n)
         /\ UNCHANGED <<branch, work, spawned, tip, live, trees, filed, closed, closing, stage, calls>>
         /\ task' = task \/ (task.step = "finish" /\ task.call.node = n /\ task' = Idle)
         /\ stage = "sweep" \/ task' = Idle
<1>1. CASE SweepChain(n)
  BY <1>1, ReceiptedDoes DEF SweepChain, process, git, threads, issues
<1>2. ASSUME NEW c \in Call, c.node = n, Finish(c), Chained(n)
      PROVE  /\ Receipt(n) /\ Landed(n)
             /\ UNCHANGED <<branch, work, spawned, tip, live, trees, filed, closed, closing, stage, calls>>
             /\ task.step = "finish" /\ task.call.node = n /\ task' = Idle
  <2>1. Saved(Receipted(mem, n)) /\ Landed(n) /\ task.call = c /\ task.step = "finish"
    BY <1>2 DEF Finish, At, Chained, Progress
  <2> QED BY <1>2, <2>1, ReceiptedDoes DEF Finish, OnlyTask, git, threads, issues
<1> QED BY <1>1, <1>2 DEF Receipting

(* A landing that ends without a chain changes nothing but who has the lock. *)
LEMMA BareFinishDoes ==
  ASSUME TypeInv, Agree, BareFinish
  PROVE  /\ Agree' /\ Calm /\ SameReceipts(Nodes) /\ mem' = mem /\ disk' = mem
         /\ UNCHANGED <<branch, work, spawned, tip, live, trees, filed, closed, closing, stage, calls>>
         /\ task' = Idle /\ task.step = "finish" /\ ~Chained(task.call.node)
<1> PICK c \in Call : Finish(c) /\ ~Chained(c.node)
  BY DEF BareFinish
<1>1. mem' = mem /\ disk' = mem
  BY DEF Finish, Chained, Saved
<1>2. Agree' /\ Calm /\ SameReceipts(Nodes)
  BY <1>1 DEF Agree, Calm, SameEntries, SameOps, SameChains, SameReceipts
<1> QED BY <1>1, <1>2 DEF Finish, At, OnlyTask, git, threads, issues

(* Which steps write branches, and what they put there.                    *)
LEMMA BranchCases ==
  ASSUME TypeInv, Agree, Kinds
  PROVE  \/ UNCHANGED branch
         \/ \E n \in Nodes : MakeTree(n) \/ FinishCleanup(n)
         \/ \E c \in Call : Merge(c)
<1>1. CASE Steady
  BY <1>1, SteadyDoes
<1>2. CASE BareFinish \/ Stop
  BY <1>2 DEF BareFinish, Finish, Stop, git
<1>3. ASSUME NEW n \in Nodes,
             StartChain(n) \/ ReplaceWorker(n) \/ Commit(n) \/ ReportDone(n)
      PROVE  UNCHANGED branch
  BY <1>3 DEF StartChain, ReplaceWorker, Commit, ReportDone
<1>4. ASSUME NEW n \in Nodes, Recording(n) \/ Receipting(n)
      PROVE  UNCHANGED branch
  BY <1>4 DEF Recording, Receipting, RecoverLanding, ReplayReached, Record, SweepChain, Finish, git
<1>5. ASSUME NEW c \in Call, Intend(c) \/ Prepare(c)
      PROVE  UNCHANGED branch
  BY <1>5 DEF Intend, Prepare, git
<1> QED BY <1>1, <1>2, <1>3, <1>4, <1>5 DEF Kinds

(* What a step does to the ledger's entries, operations and chains.        *)
LEMMA Writes ==
  ASSUME TypeInv, TreeInv, Kinds
  PROVE  \/ Calm /\ Agree'
         \/ Stop /\ Stops
         \/ \E n \in Nodes :
              \/ (StartChain(n) /\ Begins(n)) \/ (ReplaceWorker(n) /\ Replaces(n))
              \/ ReportDone(n) /\ HasReported(n)
              \/ Recording(n) /\ Lands(n) /\ ~Landed(n) /\ Reached(n)
              \/ Receipting(n) /\ Receipt(n) /\ Landed(n)
         \/ \E c \in Call : (Intend(c) /\ Intends(c)) \/ (Prepare(c) /\ Prepares(c))
<1> USE DEF TreeInv
<1>1. CASE Steady \/ BareFinish
  BY <1>1, SteadyDoes, BareFinishDoes
<1>2. CASE Stop
  BY <1>2, StopDoes
<1>3. ASSUME NEW n \in Nodes, MakeTree(n) \/ Commit(n)
      PROVE  Calm /\ Agree'
  BY <1>3, OthersCalm DEF MakeTree, Commit
<1>4. ASSUME NEW c \in Call, Merge(c)
      PROVE  Calm /\ Agree'
  BY <1>4, OthersCalm DEF Merge
<1>5. ASSUME NEW n \in Nodes, FinishCleanup(n)
      PROVE  Calm /\ Agree'
  BY <1>5, CleanupCalm
<1>6. ASSUME NEW n \in Nodes
      PROVE  /\ StartChain(n) => Begins(n)
             /\ ReplaceWorker(n) => Replaces(n)
             /\ ReportDone(n) => HasReported(n)
             /\ Recording(n) => Lands(n) /\ ~Landed(n) /\ Reached(n)
             /\ Receipting(n) => Receipt(n) /\ Landed(n)
  BY StartChainDoes, ReplaceWorkerDoes, ReportDoneDoes, RecordingDoes, ReceiptingDoes
<1>7. ASSUME NEW c \in Call
      PROVE  (Intend(c) => Intends(c)) /\ (Prepare(c) => Prepares(c))
  BY IntendDoes, PrepareDoes
<1> QED BY <1>1, <1>2, <1>3, <1>4, <1>5, <1>6, <1>7 DEF Kinds

(* Memory and disk go on agreeing.                                         *)
LEMMA AgreeStep ==
  ASSUME TypeInv, TreeInv, Kinds
  PROVE  Agree'
<1>1. ASSUME disk' = mem' PROVE Agree'
  BY <1>1 DEF Agree
<1> QED BY <1>1, Writes DEF Stops, Begins, Replaces, HasReported, Lands, Receipt, Intends, Prepares

(* What landed stays landed, and only a recording lands anything.          *)
LEMMA LandedStays ==
  ASSUME TypeInv, TreeInv, Kinds
  PROVE  /\ \A m \in Nodes : Landed(m) => Landed(m)'
         /\ mem'.landed = mem.landed \/ \E n \in Nodes : Recording(n) /\ Lands(n)
<1>1. mem'.landed = mem.landed \/ \E n \in Nodes : Recording(n) /\ Lands(n)
  BY Writes DEF Calm, SameEntries, Stops, Begins, Replaces, HasReported, Receipt, Intends, Prepares
<1>2. ASSUME NEW n \in Nodes, Lands(n), NEW m \in Nodes, Landed(m)
      PROVE  Landed(m)'
  BY <1>2, Tree DEF Landed, Lands
<1> QED BY <1>1, <1>2 DEF Landed

(* Results change by a report and by a recording.                          *)
LEMMA ResultsDo ==
  ASSUME TypeInv, TreeInv, Kinds
  PROVE  \A m \in Nodes :
           \/ mem'.result[m] = mem.result[m]
           \/ ReportDone(m) /\ HasReported(m)
           \/ Recording(m) /\ mem'.result[m] = mem.op[m].result
<1>1. mem'.result = mem.result
        \/ \E n \in Nodes : (ReportDone(n) /\ HasReported(n)) \/ (Recording(n) /\ Lands(n))
  BY Writes DEF Calm, SameEntries, Stops, Begins, Replaces, Receipt, Intends, Prepares
<1> QED BY <1>1 DEF HasReported, Lands

SameOp(m) ==
  /\ mem'.op[m].at = mem.op[m].at /\ mem'.op[m].head = mem.op[m].head
  /\ mem'.op[m].result = mem.op[m].result /\ mem'.op[m].carried = mem.op[m].carried

(* Operations change by an intent, a preparation and a recording.          *)
LEMMA OpsDo ==
  ASSUME TypeInv, TreeInv, Kinds
  PROVE  \A m \in Nodes :
           \/ SameOp(m)
           \/ Recording(m) /\ Lands(m)
           \/ \E c \in Call : c.node = m /\ ((Intend(c) /\ Intends(c)) \/ (Prepare(c) /\ Prepares(c)))
<1>1. \/ SameOps(Nodes)
      \/ \E n \in Nodes : Recording(n) /\ Lands(n)
      \/ \E c \in Call : (Intend(c) /\ Intends(c)) \/ (Prepare(c) /\ Prepares(c))
  BY Writes DEF Calm, Stops, Begins, Replaces, HasReported, Receipt
<1>2. SameOps(Nodes) => \A m \in Nodes : SameOp(m)
  BY DEF SameOps, SameOp
<1>3. ASSUME NEW n \in Nodes, Lands(n)
      PROVE  \A m \in Nodes : m # n => SameOp(m)
  BY <1>3 DEF Lands, SameOps, SameOp
<1>4. ASSUME NEW c \in Call, Intends(c) \/ Prepares(c)
      PROVE  \A m \in Nodes : m # c.node => SameOp(m)
  BY <1>4 DEF Intends, Prepares, SameOps, SameOp
<1> QED BY <1>1, <1>2, <1>3, <1>4

(* Chains begin by a start and end by a receipt or a stop; a replacement   *)
(* changes their worker.                                                   *)
LEMMA ChainsDo ==
  ASSUME TypeInv, TreeInv, Kinds
  PROVE  \A m \in Nodes :
           /\ Chained(m)' => Chained(m) \/ (StartChain(m) /\ Begins(m))
           /\ Chained(m) => Chained(m)' \/ Stop \/ (Receipting(m) /\ Landed(m))
           /\ Chained(m) /\ Chained(m)' =>
                \/ mem'.chain[m].handle = mem.chain[m].handle
                \/ ReplaceWorker(m) /\ Replaces(m)
           /\ mem'.chain[m].phase = "integrate" \/ disk'.chain[m].phase = "integrate" =>
                \/ mem.chain[m].phase = "integrate" \/ disk.chain[m].phase = "integrate"
                \/ ReportDone(m) /\ HasReported(m)
<1> SUFFICES ASSUME NEW m \in Nodes
    PROVE  /\ Chained(m)' => Chained(m) \/ (StartChain(m) /\ Begins(m))
           /\ Chained(m) => Chained(m)' \/ Stop \/ (Receipting(m) /\ Landed(m))
           /\ Chained(m) /\ Chained(m)' =>
                \/ mem'.chain[m].handle = mem.chain[m].handle
                \/ ReplaceWorker(m) /\ Replaces(m)
           /\ mem'.chain[m].phase = "integrate" \/ disk'.chain[m].phase = "integrate" =>
                \/ mem.chain[m].phase = "integrate" \/ disk.chain[m].phase = "integrate"
                \/ ReportDone(m) /\ HasReported(m)
  OBVIOUS
<1> DEFINE Same == /\ Chained(m)' <=> Chained(m)
                   /\ mem'.chain[m].handle = mem.chain[m].handle
                   /\ mem'.chain[m].phase = "integrate" \/ disk'.chain[m].phase = "integrate" =>
                        mem.chain[m].phase = "integrate" \/ disk.chain[m].phase = "integrate"
<1>1. ASSUME NEW N, SameChains(N), m \in N PROVE Same
  BY <1>1 DEF SameChains, Chained
<1>2. \/ SameChains(Nodes)
      \/ Stop /\ Stops
      \/ \E n \in Nodes : /\ SameChains(Nodes \ {n})
                          /\ \/ (StartChain(n) /\ Begins(n)) \/ (ReplaceWorker(n) /\ Replaces(n))
                             \/ ReportDone(n) /\ HasReported(n)
                             \/ Receipting(n) /\ Receipt(n) /\ Landed(n)
  BY Writes DEF Calm, Begins, Replaces, HasReported, Receipt, Intends, Prepares, Lands
<1>3. SameChains(Nodes) => Same
  BY <1>1
<1>4. ASSUME Stop, Stops
      PROVE  ~Chained(m)' /\ mem'.chain[m].phase # "integrate" /\ disk'.chain[m].phase # "integrate"
  BY <1>4 DEF Stops, Chained, NoChain
<1>5. ASSUME NEW n \in Nodes, SameChains(Nodes \ {n}), m # n PROVE Same
  BY <1>1, <1>5
<1>6. ASSUME StartChain(m), Begins(m)
      PROVE  Chained(m)' /\ ~Chained(m) /\ mem'.chain[m].phase # "integrate" /\ disk'.chain[m].phase # "integrate"
  BY <1>6 DEF StartChain, Begins, Chained
<1>7. ASSUME ReplaceWorker(m), Replaces(m)
      PROVE  Chained(m)' /\ Chained(m) /\ mem'.chain[m].phase # "integrate" /\ disk'.chain[m].phase # "integrate"
  BY <1>7 DEF Replaces, Chained
<1>8. ASSUME ReportDone(m), HasReported(m)
      PROVE  Chained(m)' /\ Chained(m) /\ mem'.chain[m].handle = mem.chain[m].handle
  BY <1>8 DEF HasReported, Chained
<1>9. ASSUME Receipt(m)
      PROVE  ~Chained(m)' /\ mem'.chain[m].phase # "integrate" /\ disk'.chain[m].phase # "integrate"
  BY <1>9 DEF Receipt, Chained, NoChain
<1> HIDE DEF Same
<1> QED BY <1>2, <1>3, <1>4, <1>5, <1>6, <1>7, <1>8, <1>9 DEF Same

(* A node above one at work has not landed.                                *)
Free(n) == n \in Nodes => ~Landed(n)

(* Above a node at work nothing has landed.                                *)
LEMMA AboveIsFree ==
  ASSUME TypeInv, TreeInv, NEW n \in Nodes, ~Landed(n), Chained(n) \/ Reached(n) \/ Holds(n)
  PROVE  Active(n) /\ n \in filed /\ Free(Parent[n]) /\ \A a \in Above[n] : Quiet(a)
<1>1. Active(n) /\ n \in filed /\ \A a \in Above[n] : Quiet(a)
  BY DEF Active, TreeInv, Exclusion
<1> QED BY <1>1, Tree DEF Quiet, Open, Free

(* A landing past its intent is of a node whose ancestors are quiet.       *)
LEMMA TaskIsFree ==
  ASSUME TypeInv, TreeInv, task.step \in {"gates", "merge"}
  PROVE  LET n == task.call.node
         IN  task.call \in Call /\ n \in Nodes /\ ~Landed(n) /\ Chained(n) /\ Free(Parent[n])
<1> DEFINE n == task.call.node
<1>1. task.call \in Call /\ n \in Nodes
  BY DEF TypeInv, TaskOK, Call
<1>2. ~Landed(n)
  BY DEF TreeInv, Progress
<1>3. Chained(n)
  BY <1>1, <1>2 DEF TreeInv, Chains, Pends
<1> QED BY <1>1, <1>2, <1>3, AboveIsFree

(* No branch loses anything but the collector of a landed node.            *)
LEMMA BranchesKeep ==
  ASSUME TypeInv, TreeInv, Kinds
  PROVE  \A d \in Dests : Free(d) => branch[d] \subseteq branch'[d]
<1> SUFFICES ASSUME NEW d \in Dests, Free(d)
             PROVE  branch[d] \subseteq branch'[d]
  OBVIOUS
<1>1. ASSUME NEW n \in Nodes, MakeTree(n)
      PROVE  branch[d] \subseteq branch'[d]
  <2>1. branch' = [branch EXCEPT ![n] = branch[Parent[n]]] /\ n \notin trees
    BY <1>1 DEF MakeTree
  <2>2. d = n => branch[d] = {}
    BY <2>1 DEF TreeInv, Collectors, Free
  <2> QED BY <2>1, <2>2, World
<1>2. ASSUME NEW n \in Nodes, FinishCleanup(n)
      PROVE  branch[d] \subseteq branch'[d]
  <2> DEFINE dropped == IF mem.op[n].collector THEN {n} ELSE {}
  <2>1. branch' = [e \in Dests |-> IF e \in dropped THEN {} ELSE branch[e]] /\ Landed(n)
    BY <1>2 DEF FinishCleanup, Cleanable
  <2>2. d # n
    BY <2>1 DEF Free
  <2> QED BY <2>1, <2>2
<1>3. ASSUME NEW c \in Call, Merge(c)
      PROVE  branch[d] \subseteq branch'[d]
  BY <1>3, World DEF Merge
<1> QED BY <1>1, <1>2, <1>3, BranchCases DEF TreeInv

(* What a branch gains was in the branch above, or is merged.              *)
LEMMA BranchesGain ==
  ASSUME TypeInv, TreeInv, Kinds
  PROVE  \A d \in Dests : \A e \in branch'[d] :
           \/ e \in branch[d]
           \/ d \in Nodes /\ MakeTree(d) /\ ~Landed(d) /\ e \in branch[Parent[d]]
           \/ \E c \in Call : Merge(c) /\ d = Parent[c.node] /\ e \in work[c.node][c.worker]
<1> SUFFICES ASSUME NEW d \in Dests, NEW e \in branch'[d], e \notin branch[d]
             PROVE  \/ d \in Nodes /\ MakeTree(d) /\ ~Landed(d) /\ e \in branch[Parent[d]]
                    \/ \E c \in Call : Merge(c) /\ d = Parent[c.node] /\ e \in work[c.node][c.worker]
  OBVIOUS
<1>1. ASSUME NEW n \in Nodes, MakeTree(n)
      PROVE  d = n /\ MakeTree(d) /\ ~Landed(d) /\ e \in branch[Parent[d]]
  <2>1. branch' = [branch EXCEPT ![n] = branch[Parent[n]]] /\ ~Landed(n)
    BY <1>1 DEF MakeTree, Walkable, Open
  <2> QED BY <1>1, <2>1, World
<1>2. ASSUME NEW n \in Nodes, FinishCleanup(n)
      PROVE  FALSE
  BY <1>2 DEF FinishCleanup
<1>3. ASSUME NEW c \in Call, Merge(c)
      PROVE  d = Parent[c.node] /\ e \in work[c.node][c.worker]
  <2>1. branch' = [branch EXCEPT ![Parent[c.node]] = branch[Parent[c.node]] \cup work[c.node][c.worker]]
    BY <1>3 DEF Merge
  <2> QED BY <2>1, World
<1> QED BY <1>1, <1>2, <1>3, BranchCases DEF TreeInv

(* A call that merges is the one that holds the lock.                      *)
LEMMA MergeIs ==
  ASSUME TypeInv, TreeInv, NEW c \in Call, Merge(c)
  PROVE  /\ task.call = c /\ task.step = "merge" /\ Pends(c) /\ c.node \in Nodes
         /\ ~Landed(c.node) /\ ~Reached(c.node) /\ Chained(c.node) /\ Free(Parent[c.node])
         /\ mem.op[c.node].at = "prepared" /\ Own(c.node) \subseteq work[c.node][c.worker]
<1>1. task.call = c /\ task.step = "merge" /\ Pends(c)
  BY DEF Merge, At, Pends
<1> QED BY <1>1, TaskIsFree DEF TreeInv, Progress, Worked

(* Only its own merge brings a node's commits where it lands.              *)
LEMMA OnlyOwnMerge ==
  ASSUME TypeInv, TreeInv, Kinds, NEW x \in Nodes, NEW k \in Reports,
         Free(Parent[x]), <<x, k>> \in branch'[Parent[x]], <<x, k>> \notin branch[Parent[x]]
  PROVE  \E c \in Call : Merge(c) /\ c.node = x
<1>1. Parent[x] = Owner \/ ~Landed(Parent[x])
  BY Tree DEF Free, Dests
<1>2. /\ \A d \in Dests : <<x, k>> \notin branch[d]
      /\ \A y \in Nodes \ {x}, w \in Workers : <<x, k>> \notin work[y][w]
  BY <1>1 DEF TreeInv, Sources
<1>3. PICK c \in Call : Merge(c) /\ Parent[x] = Parent[c.node] /\ <<x, k>> \in work[c.node][c.worker]
  <2>1. Parent[x] \in Dests
    BY Tree
  <2> QED BY <1>2, <2>1, BranchesGain, Tree
<1>4. c.node \in Nodes /\ c.worker \in Workers
  BY DEF Call
<1> QED BY <1>2, <1>3, <1>4

(* A node's operation changes where nobody has reached it: at its intent   *)
(* and its preparation.                                                    *)
LEMMA UnreachedChange ==
  ASSUME TypeInv, TreeInv, NEW c \in Call, Intend(c) \/ Prepare(c)
  PROVE  /\ task.call = c /\ task.step \in {"begin", "gates"} /\ Pends(c)
         /\ c.node \in Nodes /\ ~Landed(c.node) /\ ~Reached(c.node) /\ Chained(c.node)
         /\ UNCHANGED branch /\ Free(Parent[c.node])
<1>1. task.call = c /\ task.step \in {"begin", "gates"} /\ Pends(c) /\ c.node \in Nodes
  BY DEF Intend, Prepare, At, Pends, Call
<1>2. ~Landed(c.node) /\ ~Reached(c.node)
  <2>1. CASE Intend(c)
    BY <2>1 DEF Intend
  <2>2. CASE Prepare(c)
    BY <2>2 DEF Prepare, At, TreeInv, Progress, Reached
  <2> QED BY <2>1, <2>2
<1>3. Chained(c.node)
  BY <1>1, <1>2 DEF TreeInv, Chains
<1>4. UNCHANGED branch
  BY DEF Intend, Prepare, git
<1> QED BY <1>1, <1>2, <1>3, <1>4, AboveIsFree

(* What has merged stays merged until it is recorded.                      *)
LEMMA ReachedStays ==
  ASSUME TypeInv, TreeInv, Kinds, NEW x \in Nodes, ~Landed(x), Reached(x)
  PROVE  Reached(x)' /\ (SameOp(x) \/ Landed(x)')
<1>1. Free(Parent[x]) /\ Parent[x] \in Dests
  BY AboveIsFree, Tree
<1>2. SameOp(x) \/ (Recording(x) /\ Lands(x))
  BY OpsDo, UnreachedChange
<1>3. branch[Parent[x]] \subseteq branch'[Parent[x]]
  BY <1>1, BranchesKeep
<1>4. Recording(x) /\ Lands(x) => Landed(x)'
  BY Tree DEF Lands, Landed
<1> QED BY <1>2, <1>3, <1>4 DEF Reached, SameOp, Lands

(* What is merged after a step was before, or is now.                      *)
LEMMA ReachedBack ==
  ASSUME TypeInv, TreeInv, Kinds, NEW x \in Nodes, ~Landed(x), Free(Parent[x]), Reached(x)'
  PROVE  \/ Reached(x)
         \/ \E c \in Call : Merge(c) /\ c.node = x /\ SameOp(x)
<1> DEFINE h == mem'.op[x].head
<1>1. mem'.op[x].at \in {"prepared", "landed"} /\ <<x, h>> \in branch'[Parent[x]]
  BY DEF Reached
<1>2. Parent[x] \in Dests
  BY Tree
<1>3. h \in Reports
  <2>1. <<x, h>> \in Commits
    <3>1. \A d \in Dests : branch[d] \subseteq Commits
      BY World
    <3>2. \A c \in Call : work[c.node][c.worker] \subseteq Commits
      BY World DEF Call
    <3>3. \A n \in Nodes : Parent[n] \in Dests
      BY Tree
    <3> QED BY <1>1, <1>2, <3>1, <3>2, <3>3, BranchesGain
  <2> QED BY <2>1 DEF Commits
<1>4. CASE SameOp(x)
  <2>1. mem.op[x].at \in {"prepared", "landed"} /\ mem.op[x].head = h
    BY <1>1, <1>4 DEF SameOp
  <2>2. CASE <<x, h>> \in branch[Parent[x]]
    BY <2>1, <2>2 DEF Reached
  <2>3. CASE <<x, h>> \notin branch[Parent[x]]
    BY <1>1, <1>3, <1>4, <2>3, OnlyOwnMerge
  <2> QED BY <2>2, <2>3
<1>5. CASE Recording(x)
  BY <1>5, RecordingDoes DEF TreeInv
<1>6. ASSUME NEW c \in Call, c.node = x, (Intend(c) /\ Intends(c)) \/ (Prepare(c) /\ Prepares(c))
      PROVE  Reached(x)
  <2>1. UNCHANGED branch
    BY <1>6, UnreachedChange
  <2>2. Parent[x] = Owner \/ ~Landed(Parent[x])
    BY <1>2 DEF Free, Dests
  <2> QED BY <1>1, <1>3, <2>1, <2>2 DEF TreeInv, Sources
<1> QED BY <1>4, <1>5, <1>6, OpsDo

(* What a worker's branch gains.                                           *)
LEMMA WorkGains ==
  ASSUME TypeInv, TreeInv, Kinds
  PROVE  \A y \in Nodes, w \in Workers : \A e \in work'[y][w] :
           \/ e \in work[y][w]
           \/ \E k \in Reports : e = <<y, k>>
           \/ e \in mem.resume[y]
           \/ \E d \in Dests : e \in branch[d]
           \/ \E v \in Workers : e \in work[y][v]
<1> SUFFICES ASSUME NEW y \in Nodes, NEW w \in Workers, NEW e \in work'[y][w], e \notin work[y][w]
             PROVE  \/ \E k \in Reports : e = <<y, k>>
                    \/ e \in mem.resume[y]
                    \/ \E d \in Dests : e \in branch[d]
                    \/ \E v \in Workers : e \in work[y][v]
  OBVIOUS
<1> DEFINE Gained == \/ \E k \in Reports : e = <<y, k>>
                     \/ e \in mem.resume[y]
                     \/ \E d \in Dests : e \in branch[d]
                     \/ \E v \in Workers : e \in work[y][v]
<1>1. UNCHANGED work => Gained
  OBVIOUS
<1>2. CASE Steady \/ BareFinish
  BY <1>1, <1>2, SteadyDoes, BareFinishDoes DEF TreeInv
<1>3. CASE Stop
  BY <1>1, <1>3 DEF Stop, git
<1>4. ASSUME NEW n \in Nodes, MakeTree(n) \/ FinishCleanup(n) \/ Recording(n) \/ Receipting(n)
      PROVE  Gained
  BY <1>1, <1>4, RecordingDoes, ReceiptingDoes DEF TreeInv, MakeTree, FinishCleanup
<1>5. ASSUME NEW n \in Nodes, StartChain(n)
      PROVE  Gained
  <2>1. work' = [work EXCEPT ![n][spawned[n] + 1] = StartBase(n)]
    BY <1>5 DEF StartChain, Spawn
  <2>2. y = n /\ e \in StartBase(y)
    BY <2>1, World
  <2>3. Parent[y] \in Dests /\ y \in Dests
    BY Tree
  <2> QED BY <2>2, <2>3 DEF StartBase
<1>6. ASSUME NEW n \in Nodes, ReplaceWorker(n)
      PROVE  Gained
  <2>1. /\ work' = [work EXCEPT ![n][spawned[n] + 1] = work[n][mem.chain[n].handle] \cup branch[Parent[n]]]
        /\ mem.chain[n].handle \in Workers
    BY <1>6, ReplaceWorkerDoes DEF ReplaceWorker, Spawn, Replaces
  <2>2. y = n /\ e \in work[y][mem.chain[y].handle] \cup branch[Parent[y]]
    BY <2>1, World
  <2> QED BY <2>1, <2>2, Tree
<1>7. ASSUME NEW n \in Nodes, Commit(n) \/ ReportDone(n)
      PROVE  Gained
  <2>1. /\ work' = [work EXCEPT ![n][mem.chain[n].handle] = work[n][mem.chain[n].handle] \cup {<<n, tip[n] + 1>>}]
        /\ tip[n] < MaxReports
    BY <1>7 DEF Commit, ReportDone
  <2>2. y = n /\ e = <<n, tip[n] + 1>>
    BY <2>1, World
  <2>3. tip[n] + 1 \in Reports
    BY <2>1, World DEF Reports
  <2> QED BY <2>2, <2>3
<1>8. ASSUME NEW c \in Call, Intend(c) \/ Merge(c)
      PROVE  Gained
  BY <1>1, <1>8 DEF Intend, Merge, git
<1>9. ASSUME NEW c \in Call, Prepare(c)
      PROVE  Gained
  <2>1. work' = [work EXCEPT ![c.node][c.worker] = work[c.node][c.worker] \cup branch[Parent[c.node]]]
    BY <1>9 DEF Prepare
  <2>2. y = c.node /\ e \in branch[Parent[y]]
    BY <2>1, World
  <2> QED BY <2>2, Tree
<1> QED BY <1>2, <1>3, <1>4, <1>5, <1>6, <1>7, <1>8, <1>9 DEF Kinds

(* A worker's branch loses nothing once the worker is launched.            *)
LEMMA WorkKeeps ==
  ASSUME TypeInv, TreeInv, Kinds
  PROVE  /\ \A y \in Nodes, w \in Workers : w <= spawned[y] => work[y][w] \subseteq work'[y][w]
         /\ \A y \in Nodes : spawned[y] <= spawned'[y]
<1> DEFINE Kept == /\ \A y \in Nodes, w \in Workers : w <= spawned[y] => work[y][w] \subseteq work'[y][w]
                   /\ \A y \in Nodes : spawned[y] <= spawned'[y]
<1>1. UNCHANGED <<work, spawned>> => Kept
  BY World
<1>2. CASE Steady \/ BareFinish
  BY <1>1, <1>2, SteadyDoes, BareFinishDoes DEF TreeInv
<1>3. CASE Stop
  BY <1>1, <1>3 DEF Stop, git
<1>4. ASSUME NEW n \in Nodes, MakeTree(n) \/ FinishCleanup(n) \/ Recording(n) \/ Receipting(n)
      PROVE  Kept
  BY <1>1, <1>4, RecordingDoes, ReceiptingDoes DEF TreeInv, MakeTree, FinishCleanup, threads
<1>5. ASSUME NEW n \in Nodes, NEW b, Spawn(n, b)
      PROVE  Kept
  <2>1. /\ work' = [work EXCEPT ![n][spawned[n] + 1] = b]
        /\ spawned' = [spawned EXCEPT ![n] = spawned[n] + 1]
    BY <1>5 DEF Spawn
  <2>2. \A y \in Nodes : spawned[y] \in Nat /\ spawned'[y] = IF y = n THEN spawned[n] + 1 ELSE spawned[y]
    BY <2>1, World
  <2>3. ASSUME NEW y \in Nodes, NEW w \in Workers, w <= spawned[y]
        PROVE  work[y][w] = work'[y][w]
    <3>1. w # spawned[y] + 1
      BY <2>2, <2>3, World
    <3> QED BY <2>1, <3>1, World
  <2> QED BY <2>2, <2>3
<1>6. ASSUME NEW n \in Nodes, StartChain(n) \/ ReplaceWorker(n)
      PROVE  Kept
  BY <1>5, <1>6 DEF StartChain, ReplaceWorker
<1>7. ASSUME NEW n \in Nodes, Commit(n) \/ ReportDone(n)
      PROVE  Kept
  BY <1>7, World DEF Commit, ReportDone, threads
<1>8. ASSUME NEW c \in Call, Intend(c) \/ Merge(c)
      PROVE  Kept
  BY <1>1, <1>8 DEF Intend, Merge, threads, git
<1>9. ASSUME NEW c \in Call, Prepare(c)
      PROVE  Kept
  <2>1. /\ work' = [work EXCEPT ![c.node][c.worker] = work[c.node][c.worker] \cup branch[Parent[c.node]]]
        /\ spawned' = spawned
    BY <1>9 DEF Prepare, threads
  <2>2. \A y \in Nodes, w \in Workers : work[y][w] \subseteq work'[y][w]
    BY <2>1, World
  <2> QED BY <2>1, <2>2, World
<1> QED BY <1>2, <1>3, <1>4, <1>6, <1>7, <1>8, <1>9 DEF Kinds

(* The landing that holds the lock goes on step by step.                   *)
LEMMA TaskDo ==
  ASSUME TypeInv, TreeInv, Kinds
  PROVE  \/ task' = task
         \/ task' = Idle
         \/ \E c \in Call :
              \/ TakeLock(c) /\ c \in calls /\ task' = [call |-> c, step |-> "begin"]
              \/ /\ task.call = c /\ task.step # "idle"
                 /\ \/ ReplayLanded(c) /\ task' = [call |-> c, step |-> "finish"]
                    \/ Intend(c) /\ task' = [call |-> c, step |-> "gates"]
                    \/ Prepare(c) /\ task' = [call |-> c, step |-> "merge"]
                    \/ Merge(c) /\ task' = [call |-> c, step |-> "record"]
                    \/ /\ Recording(c.node) /\ task' = [call |-> c, step |-> "finish"]
                       /\ task.step \in {"begin", "record"}
<1>1. CASE Steady
  <2>1. ASSUME NEW n \in Nodes,
               \/ FileIssue(n) \/ RecordCollector(n) \/ ResumeIntegrate(n) \/ CloseInTracker(n)
               \/ SaveClosed(n) \/ RemoveTree(n) \/ \E w \in Workers : RetireWorker(n, w)
        PROVE  task' = task
    BY <2>1 DEF FileIssue, RecordCollector, ResumeIntegrate, CloseInTracker, SaveClosed,
                RemoveTree, RetireWorker, process
  <2>2. ASSUME NEW c \in Call, TakeLock(c)
        PROVE  c \in calls /\ task' = [call |-> c, step |-> "begin"]
    BY <2>2 DEF TakeLock
  <2>3. ASSUME NEW c \in Call, ReplayLanded(c)
        PROVE  task.call = c /\ task.step # "idle" /\ task' = [call |-> c, step |-> "finish"]
    BY <2>3 DEF ReplayLanded, At, Step
  <2>4. ASSUME NEW c \in Call, RecordRefused(c) \/ SendBack(c)
        PROVE  task' = Idle
    BY <2>4 DEF RecordRefused, SendBack
  <2>5. CASE \/ Boot \/ Recovered \/ BeginClose \/ CloseFails \/ EndClose \/ EndSweep \/ EndClean
             \/ EndVisit \/ TickFails \/ NextTick \/ Start \/ Flush \/ Crash \/ UNCHANGED vars
    BY <2>5 DEF Boot, Recovered, BeginClose, CloseFails, EndClose, EndSweep, EndClean,
                EndVisit, TickFails, NextTick, Start, Flush, Crash, Dies, vars, process, OnlyStage
  <2> QED BY <1>1, <2>1, <2>2, <2>3, <2>4, <2>5 DEF Steady
<1>2. CASE BareFinish \/ Stop
  BY <1>2 DEF BareFinish, Finish, Stop, Dies
<1>3. ASSUME NEW n \in Nodes,
             \/ MakeTree(n) \/ StartChain(n) \/ ReplaceWorker(n) \/ Commit(n) \/ ReportDone(n)
             \/ FinishCleanup(n)
      PROVE  task' = task
  BY <1>3 DEF MakeTree, StartChain, ReplaceWorker, Commit, ReportDone, FinishCleanup, process
<1>4. ASSUME NEW n \in Nodes, Recording(n)
      PROVE  \/ task' = task
             \/ \E c \in Call : /\ task.call = c /\ task.step # "idle"
                                /\ Recording(c.node) /\ task' = [call |-> c, step |-> "finish"]
                                /\ task.step \in {"begin", "record"}
  BY <1>4 DEF Recording, RecoverLanding, ReplayReached, Record, At, Step, process
<1>5. ASSUME NEW n \in Nodes, Receipting(n)
      PROVE  task' = task \/ task' = Idle
  BY <1>5, ReceiptingDoes DEF TreeInv
<1>6. ASSUME NEW c \in Call, Intend(c) \/ Prepare(c) \/ Merge(c)
      PROVE  /\ task.call = c /\ task.step # "idle"
             /\ \/ Intend(c) /\ task' = [call |-> c, step |-> "gates"]
                \/ Prepare(c) /\ task' = [call |-> c, step |-> "merge"]
                \/ Merge(c) /\ task' = [call |-> c, step |-> "record"]
  BY <1>6 DEF Intend, Prepare, Merge, At, Step
<1> QED BY <1>1, <1>2, <1>3, <1>4, <1>5, <1>6 DEF Kinds

(* A recording is by the landing that holds the lock, or nobody holds it.  *)
LEMMA RecordingTask ==
  ASSUME TypeInv, TreeInv, NEW n \in Nodes, Recording(n)
  PROVE  /\ \/ task = Idle /\ task' = task
            \/ task.call.node = n /\ task'.call = task.call /\ task'.step = "finish"
               /\ task.step \in {"begin", "record"}
         /\ task'.step \notin {"gates", "merge", "record"}
BY RecordingDoes DEF TreeInv, Idle

(* Calls are made by the chains, for their worker and their result.        *)
LEMMA CallsDo ==
  ASSUME TypeInv, TreeInv, Kinds
  PROVE  \A c \in calls' :
           \/ c \in calls
           \/ /\ ReportDone(c.node) \/ ResumeIntegrate(c.node)
              /\ c.worker = mem'.chain[c.node].handle /\ c.result = mem'.result[c.node]
<1>1. CASE Steady
  <2>1. ASSUME NEW n \in Nodes, ResumeIntegrate(n)
        PROVE  \A c \in calls' :
                 \/ c \in calls
                 \/ /\ ResumeIntegrate(c.node)
                    /\ c.worker = mem'.chain[c.node].handle /\ c.result = mem'.result[c.node]
    BY <2>1 DEF ResumeIntegrate, CallLand, ledger
  <2> QED
    BY <1>1, <2>1
       DEF Steady, FileIssue, RecordCollector, CloseInTracker, SaveClosed,
           RemoveTree, RetireWorker, TakeLock, ReplayLanded, RecordRefused, SendBack, OnlyTask,
           Boot, Recovered, BeginClose, CloseFails, EndClose, EndSweep, EndClean,
           EndVisit, TickFails, NextTick, Start, Flush, Crash, Dies, vars, process, OnlyStage
<1>2. CASE BareFinish \/ Stop
  BY <1>2, BareFinishDoes DEF TreeInv, Stop, Dies
<1>3. ASSUME NEW n \in Nodes,
             \/ MakeTree(n) \/ StartChain(n) \/ ReplaceWorker(n) \/ Commit(n)
             \/ FinishCleanup(n)
      PROVE  calls' = calls
  BY <1>3 DEF MakeTree, StartChain, ReplaceWorker, Commit, FinishCleanup, process
<1>4. ASSUME NEW n \in Nodes, Recording(n) \/ Receipting(n)
      PROVE  calls' = calls
  BY <1>4, RecordingDoes, ReceiptingDoes DEF TreeInv
<1>5. ASSUME NEW n \in Nodes, ReportDone(n)
      PROVE  \A c \in calls' :
               \/ c \in calls
               \/ /\ ReportDone(c.node)
                  /\ c.worker = mem'.chain[c.node].handle /\ c.result = mem'.result[c.node]
  <2> DEFINE s == [mem EXCEPT !.result[n] = tip[n] + 1, !.chain[n].phase = "integrate"]
  <2>1. mem' = s /\ calls' = calls \cup {[node |-> n, result |-> s.result[n],
                           worker |-> s.chain[n].handle, round |-> overlaps]}
    BY <1>5 DEF ReportDone, Saved, CallLand
  <2> HIDE DEF s
  <2> QED BY <1>5, <2>1
<1>6. ASSUME NEW c \in Call, Intend(c) \/ Prepare(c) \/ Merge(c)
      PROVE  calls' = calls
  BY <1>6 DEF Intend, Prepare, Merge, OnlyTask
<1> QED BY <1>1, <1>2, <1>3, <1>4, <1>5, <1>6 DEF Kinds

(* So does what pends.                                                     *)
LEMMA PendsDo ==
  ASSUME TypeInv, TreeInv, Kinds, NEW c \in Call, Pends(c)'
  PROVE  \/ Pends(c)
         \/ /\ ReportDone(c.node) \/ ResumeIntegrate(c.node)
            /\ c.worker = mem'.chain[c.node].handle /\ c.result = mem'.result[c.node]
BY CallsDo, TaskDo DEF Pends, Idle

(* Where a tick is: recovery is left by Recovered alone, what comes after  *)
(* the sweep is entered by EndSweep, and closes end where they began.      *)
LEMMA StageDo ==
  ASSUME TypeInv, TreeInv, Kinds
  PROVE  /\ stage \in {"down", "boot", "recover"} =>
              stage' \in {"down", "boot", "recover"} \/ Recovered
         /\ stage' \in {"clean", "visit", "between"} => stage \in {"clean", "visit", "between"} \/ EndSweep
         /\ closing' # {} =>
              \/ BeginClose
              \/ \E n \in Nodes : SaveClosed(n) /\ closing' = closing \ {n} /\ stage' = stage
              \/ closing' = closing /\ (stage' = stage \/ stage # "close")
<1>1. CASE Steady
  BY <1>1 DEF Steady, FileIssue, RecordCollector, ResumeIntegrate, CloseInTracker, SaveClosed,
              RemoveTree, RetireWorker, TakeLock, ReplayLanded, RecordRefused, SendBack, OnlyTask,
              Boot, Recovered, BeginClose, CloseFails, EndClose, EndSweep, EndClean, CallLand,
              EndVisit, TickFails, NextTick, Start, Flush, Crash, Dies, vars, process, OnlyStage
<1>2. CASE BareFinish \/ Stop
  BY <1>2 DEF BareFinish, Finish, Stop, Dies, OnlyTask
<1>3. ASSUME NEW n \in Nodes,
             \/ MakeTree(n) \/ StartChain(n) \/ ReplaceWorker(n) \/ Commit(n) \/ ReportDone(n)
             \/ FinishCleanup(n) \/ Recording(n) \/ Receipting(n)
      PROVE  stage' = stage /\ closing' = closing
  BY <1>3 DEF MakeTree, StartChain, ReplaceWorker, Commit, ReportDone, FinishCleanup, process,
              Recording, RecoverLanding, ReplayReached, Record, Receipting, SweepChain, Finish, OnlyTask
<1>4. ASSUME NEW c \in Call, Intend(c) \/ Prepare(c) \/ Merge(c)
      PROVE  stage' = stage /\ closing' = closing
  BY <1>4 DEF Intend, Prepare, Merge, OnlyTask
<1> QED BY <1>1, <1>2, <1>3, <1>4 DEF Kinds

(* Issues stay filed and closed, and only what is closed is saved as such. *)
LEMMA IssuesDo ==
  ASSUME TypeInv, TreeInv, Kinds
  PROVE  /\ filed \subseteq filed' /\ closed \subseteq closed'
         /\ mem'.closedAt = mem.closedAt
              \/ \E n \in Nodes : SaveClosed(n) /\ n \in closed /\ mem'.closedAt = mem.closedAt \cup {n}
<1>1. CASE Steady
  <2>1. filed \subseteq filed' /\ closed \subseteq closed'
    BY <1>1, SteadyDoes DEF TreeInv
  <2>2. ASSUME NEW n \in Nodes, RecordCollector(n) \/ SaveClosed(n)
        PROVE  mem'.closedAt = mem.closedAt
                 \/ (SaveClosed(n) /\ n \in closed /\ mem'.closedAt = mem.closedAt \cup {n})
    BY <2>2, Parts DEF RecordCollector, SaveClosed, Saved, State
  <2>3. ASSUME NEW c \in Call, RecordRefused(c) \/ SendBack(c)
        PROVE  mem'.closedAt = mem.closedAt
    BY <2>3, EndsCalm DEF TreeInv
  <2>4. CASE Flush \/ Crash \/ BeginClose
    BY <2>1, <2>4 DEF Flush, Crash, BeginClose, TreeInv, Agree
  <2>5. UNCHANGED ledger => mem'.closedAt = mem.closedAt
    BY DEF ledger
  <2> QED
    BY <1>1, <2>1, <2>2, <2>3, <2>4, <2>5
       DEF Steady, FileIssue, ResumeIntegrate, CloseInTracker, RemoveTree, RetireWorker, TakeLock,
           ReplayLanded, Boot, Recovered, CloseFails, EndClose, EndSweep, EndClean,
           EndVisit, TickFails, NextTick, Start, vars
<1>2. CASE BareFinish
  BY <1>2, BareFinishDoes DEF TreeInv
<1>3. CASE Stop
  BY <1>3, StopDoes DEF TreeInv, Stop, Stops, issues
<1>4. ASSUME NEW n \in Nodes,
             \/ MakeTree(n) \/ StartChain(n) \/ ReplaceWorker(n) \/ Commit(n) \/ ReportDone(n)
             \/ FinishCleanup(n)
      PROVE  UNCHANGED <<filed, closed>> /\ mem'.closedAt = mem.closedAt
  BY <1>4, CleanupCalm, StartChainDoes, ReplaceWorkerDoes, ReportDoneDoes
     DEF MakeTree, StartChain, ReplaceWorker, Commit, ReportDone, FinishCleanup, issues, ledger,
         Begins, Replaces, HasReported, TreeInv
<1>5. ASSUME NEW n \in Nodes, Recording(n) \/ Receipting(n)
      PROVE  UNCHANGED <<filed, closed>> /\ mem'.closedAt = mem.closedAt
  BY <1>5, RecordingDoes, ReceiptingDoes DEF TreeInv, Lands, Receipt
<1>6. ASSUME NEW c \in Call, Intend(c) \/ Prepare(c) \/ Merge(c)
      PROVE  UNCHANGED <<filed, closed>> /\ mem'.closedAt = mem.closedAt
  BY <1>6, IntendDoes, PrepareDoes DEF Intend, Prepare, Merge, issues, ledger, Intends, Prepares
<1> QED BY <1>1, <1>2, <1>3, <1>4, <1>5, <1>6 DEF Kinds

(* A recorded collector stays so until its node's cleanup, and its tree    *)
(* until its removal; what is recorded was made.                           *)
LEMMA CollectorsDo ==
  ASSUME TypeInv, TreeInv, Kinds
  PROVE  \A n \in Nodes :
           /\ n \in mem.collectors /\ n \in disk.collectors /\ ~Landed(n) =>
                n \in mem'.collectors /\ n \in disk'.collectors
           /\ n \in mem'.collectors \cup disk'.collectors =>
                n \in mem.collectors \cup disk.collectors \/ n \in trees
           /\ n \in trees /\ ~Landed(n) => n \in trees'
           /\ n \in trees' => n \in trees \/ MakeTree(n)
<1> SUFFICES ASSUME NEW n \in Nodes
             PROVE  /\ n \in mem.collectors /\ n \in disk.collectors /\ ~Landed(n) =>
                         n \in mem'.collectors /\ n \in disk'.collectors
                    /\ n \in mem'.collectors \cup disk'.collectors =>
                         n \in mem.collectors \cup disk.collectors \/ n \in trees
                    /\ n \in trees /\ ~Landed(n) => n \in trees'
                    /\ n \in trees' => n \in trees \/ MakeTree(n)
  OBVIOUS
<1> DEFINE Same == /\ mem'.collectors = mem.collectors /\ disk'.collectors \in {mem.collectors, disk.collectors}
                   /\ trees' = trees
<1>1. UNCHANGED ledger => mem'.collectors = mem.collectors /\ disk'.collectors = disk.collectors
  BY DEF ledger
<1>2. CASE Steady
  <2>1. ASSUME NEW m \in Nodes, FileIssue(m) \/ ResumeIntegrate(m) \/ CloseInTracker(m)
                                \/ \E w \in Workers : RetireWorker(m, w)
        PROVE  Same
    BY <1>1, <2>1 DEF FileIssue, ResumeIntegrate, CloseInTracker, RetireWorker, git
  <2>2. ASSUME NEW m \in Nodes, RecordCollector(m)
        PROVE  /\ mem'.collectors = mem.collectors \cup {m} /\ disk'.collectors = mem'.collectors
               /\ m \in trees /\ trees' = trees
    BY <2>2, Parts DEF RecordCollector, Saved, State, git
  <2>3. ASSUME NEW m \in Nodes, SaveClosed(m)
        PROVE  Same
    BY <2>3, Parts DEF SaveClosed, Saved, State, git
  <2>4. ASSUME NEW m \in Nodes, RemoveTree(m)
        PROVE  /\ mem'.collectors = mem.collectors /\ disk'.collectors = disk.collectors
               /\ Landed(m) /\ trees' = trees \ {m}
    BY <1>1, <2>4 DEF RemoveTree, Cleanable
  <2>5. ASSUME NEW c \in Call, TakeLock(c) \/ ReplayLanded(c) \/ RecordRefused(c) \/ SendBack(c)
        PROVE  Same
    BY <1>1, <2>5, EndsCalm DEF TakeLock, ReplayLanded, RecordRefused, SendBack, git, TreeInv
  <2>6. CASE BeginClose \/ Flush
    BY <2>6 DEF BeginClose, Flush, git
  <2>7. CASE Crash
    BY <2>7 DEF Crash, git
  <2>8. CASE \/ Boot \/ Recovered \/ CloseFails \/ EndClose \/ EndSweep \/ EndClean
             \/ EndVisit \/ TickFails \/ NextTick \/ Start \/ UNCHANGED vars
    BY <1>1, <2>8 DEF Boot, Recovered, CloseFails, EndClose, EndSweep, EndClean,
           EndVisit, TickFails, NextTick, Start, vars, git
  <2> QED BY <1>2, <2>1, <2>2, <2>3, <2>4, <2>5, <2>6, <2>7, <2>8 DEF Steady
<1>3. CASE BareFinish
  BY <1>3, BareFinishDoes DEF TreeInv
<1>4. CASE Stop
  BY <1>4, StopDoes DEF TreeInv, Stop, Stops, git
<1>5. ASSUME NEW m \in Nodes, MakeTree(m)
      PROVE  /\ mem'.collectors = mem.collectors /\ disk'.collectors = disk.collectors
             /\ trees' = trees \cup {m}
  BY <1>1, <1>5 DEF MakeTree
<1>6. ASSUME NEW m \in Nodes, StartChain(m) \/ ReplaceWorker(m) \/ Commit(m) \/ ReportDone(m)
      PROVE  Same
  BY <1>1, <1>6, StartChainDoes, ReplaceWorkerDoes, ReportDoneDoes
     DEF StartChain, ReplaceWorker, Commit, ReportDone, Begins, Replaces, HasReported
<1>7. ASSUME NEW m \in Nodes, Recording(m) \/ Receipting(m)
      PROVE  Same
  BY <1>7, RecordingDoes, ReceiptingDoes DEF TreeInv, Lands, Receipt
<1>8. ASSUME NEW c \in Call, Intend(c) \/ Prepare(c) \/ Merge(c)
      PROVE  Same
  BY <1>1, <1>8, IntendDoes, PrepareDoes DEF Intend, Prepare, Merge, git, Intends, Prepares
<1>9. ASSUME NEW m \in Nodes, FinishCleanup(m)
      PROVE  /\ mem.collectors \ {m} \subseteq mem'.collectors /\ mem'.collectors \subseteq mem.collectors
             /\ disk'.collectors = mem'.collectors \/ disk'.collectors = disk.collectors
             /\ Landed(m) /\ trees' = trees
  BY <1>9, CleanupCalm DEF TreeInv, FinishCleanup, Cleanable
<1> QED BY <1>2, <1>3, <1>4, <1>5, <1>6, <1>7, <1>8, <1>9 DEF Kinds

-----------------------------------------------------------------------------
(* The parts of the invariant, step by step.                               *)

(* So it is of every node: where a landed node's collector was, nothing    *)
(* merges any more.                                                        *)
LEMMA MergedBack ==
  ASSUME TypeInv, TreeInv, Kinds, NEW x \in Nodes, ~Landed(x), Reached(x)'
  PROVE  \/ Reached(x)
         \/ \E c \in Call : Merge(c) /\ c.node = x /\ SameOp(x)
<1>1. CASE Free(Parent[x])
  BY <1>1, ReachedBack
<1>2. CASE Parent[x] \in Nodes /\ Landed(Parent[x])
  <2>1. \A c \in Call : Merge(c) => Parent[c.node] # Parent[x]
    BY <1>2, MergeIs DEF Free
  <2>2. \A c \in Call : Intend(c) \/ Prepare(c) => c.node # x
    BY <1>2, UnreachedChange DEF Free
  <2>3. branch'[Parent[x]] \subseteq branch[Parent[x]]
    BY <1>2, <2>1, BranchesGain, Tree
  <2>4. SameOp(x) \/ Recording(x)
    BY <2>2, OpsDo
  <2>5. CASE SameOp(x)
    BY <2>3, <2>5 DEF Reached, SameOp
  <2>6. CASE Recording(x)
    BY <2>6, RecordingDoes DEF TreeInv
  <2> QED BY <2>4, <2>5, <2>6
<1> QED BY <1>1, <1>2 DEF Free

(* A quiet node stays quiet, but for the start of its own chain.           *)
LEMMA QuietStays ==
  ASSUME TypeInv, TreeInv, Kinds, NEW a \in Nodes, Quiet(a)
  PROVE  Quiet(a)' \/ StartChain(a)
<1>1. ~Landed(a) /\ ~Chained(a) /\ ~Reached(a) /\ a \in filed
  BY DEF Quiet, Open
<1>2. ~Reached(a)'
  BY <1>1, MergedBack, MergeIs
<1>3. Chained(a)' => StartChain(a)
  BY <1>1, ChainsDo
<1>4. a \in filed'
  BY <1>1, IssuesDo
<1>5. ~Landed(a)'
  <2>1. ASSUME NEW n \in Nodes, Recording(n), Lands(n)
        PROVE  ~Landed(a)'
    <3>1. a # n
      BY <1>1, <2>1, RecordingDoes DEF TreeInv
    <3> QED BY <1>1, <2>1, <3>1, Tree DEF Lands, Moves, Landed
  <2> QED BY <1>1, <2>1, LandedStays DEF Landed
<1> QED BY <1>2, <1>3, <1>4, <1>5 DEF Quiet, Open

(* Nothing becomes active but by the start of its chain or, for a parent,  *)
(* by what lands in its collector.                                         *)
LEMMA ActiveDo ==
  ASSUME TypeInv, TreeInv, Kinds, NEW d \in Nodes, Active(d)'
  PROVE  /\ ~Landed(d)
         /\ Active(d) \/ StartChain(d) \/ \E n \in Nodes : Recording(n) /\ d = Parent[n]
<1>1. ~Landed(d)' /\ ~Landed(d)
  BY LandedStays DEF Active
<1>2. ASSUME Chained(d)' PROVE Active(d) \/ StartChain(d)
  BY <1>1, <1>2, ChainsDo DEF Active
<1>3. ASSUME Holds(d)' PROVE Active(d) \/ \E n \in Nodes : Recording(n) /\ d = Parent[n]
  BY <1>1, <1>3, LandedStays, Tree DEF Active, Holds, Lands
<1>4. ASSUME Reached(d)' PROVE Active(d)
  BY <1>1, <1>4, MergedBack, MergeIs DEF Active
<1> QED BY <1>1, <1>2, <1>3, <1>4 DEF Active

(* Nothing below a node whose open children are gone is active.            *)
LEMMA NothingBelow ==
  ASSUME TypeInv, TreeInv, NEW n \in Nodes, OpenKids(n) = {}, NEW d \in Nodes, Active(d)
  PROVE  n \notin Above[d]
<1> SUFFICES ASSUME n \in Above[d] PROVE FALSE
  OBVIOUS
<1>1. PICK k \in {d} \cup Above[d] : Parent[k] = n
  BY TreeAssumption
<1>2. k \in Nodes /\ Open(k)
  BY <1>1, Tree DEF TreeInv, Exclusion, Active, Open, Quiet
<1> QED BY <1>1, <1>2 DEF OpenKids

(* While a node is at work, nothing above it begins.                       *)
LEMMA ExclusionStep ==
  ASSUME TypeInv, TreeInv, Kinds
  PROVE  Exclusion'
<1>1. ASSUME NEW d \in Nodes, Active(d)
      PROVE  d \in filed' /\ \A a \in Above[d] : Quiet(a)'
  <2>1. d \in filed /\ \A a \in Above[d] : a \in Nodes /\ Quiet(a)
    BY <1>1, Tree DEF TreeInv, Exclusion
  <2>2. \A a \in Above[d] : StartChain(a) => OpenKids(a) = {}
    BY DEF StartChain
  <2> QED BY <1>1, <2>1, <2>2, NothingBelow, QuietStays, IssuesDo
<1>2. ASSUME NEW d \in Nodes, StartChain(d)
      PROVE  d \in filed' /\ \A a \in Above[d] : Quiet(a)'
  <2>1. d \in filed /\ \A a \in Above[d] : a \in Nodes /\ a # d /\ Open(a) /\ ~Chained(a)
    BY <1>2, Tree DEF StartChain, Walkable, Open, Chained
  <2>2. \A a \in Above[d] : Quiet(a)
    BY <1>2, <2>1 DEF StartChain, Walkable, TreeInv, Chains, Open, Quiet
  <2>3. ASSUME NEW a \in Above[d] PROVE ~StartChain(a)
    BY <1>2, <2>1, StartChainDoes DEF Begins, SameChains, Chained
  <2> QED BY <2>1, <2>2, <2>3, QuietStays, IssuesDo
<1>3. ASSUME NEW n \in Nodes, Recording(n), NEW d \in Nodes, d = Parent[n]
      PROVE  d \in filed' /\ \A a \in Above[d] : Quiet(a)'
  <2>1. Active(n)
    BY <1>3, RecordingDoes DEF TreeInv, Active
  <2>2. d \in Above[n] /\ Above[d] \subseteq Above[n]
    BY <1>3, Tree
  <2> QED BY <1>1, <2>1, <2>2 DEF Quiet, Open
<1> QED BY <1>1, <1>2, <1>3, ActiveDo DEF Exclusion

(* Chains are there for their calls and for what they merged.              *)
LEMMA ChainsStep ==
  ASSUME TypeInv, TreeInv, Kinds
  PROVE  Chains'
<1>1. ASSUME NEW c \in Call, Pends(c)'
      PROVE  Landed(c.node)' \/ Chained(c.node)'
  <2>1. c.node \in Nodes
    BY DEF Call
  <2>2. Landed(c.node) \/ Chained(c.node)
    <3>1. CASE Pends(c)
      BY <3>1 DEF TreeInv, Chains
    <3>2. CASE ReportDone(c.node) \/ ResumeIntegrate(c.node)
      BY <3>2 DEF ReportDone, ResumeIntegrate, Chained
    <3> QED BY <1>1, <3>1, <3>2, PendsDo
  <2>3. ~Stop
    BY <1>1 DEF Stop, Dies, Pends, Idle
  <2> QED BY <2>1, <2>2, <2>3, LandedStays, ChainsDo
<1>2. ASSUME NEW n \in Nodes, ~Landed(n)', Reached(n)'
      PROVE  Chained(n)' \/ stage' \in {"down", "boot", "recover"}
  <2>1. ~Landed(n)
    BY <1>2, LandedStays
  <2>2. CASE Chained(n)
    BY <2>1, <2>2, ChainsDo DEF Stop, Dies
  <2>3. CASE ~Chained(n)
    <3>1. Reached(n)
      BY <1>2, <2>1, <2>3, MergedBack, MergeIs
    <3>2. stage \in {"down", "boot", "recover"}
      BY <2>1, <2>3, <3>1 DEF TreeInv, Chains
    <3>3. ~Recovered
      BY <2>1, <3>1 DEF Recovered, Unrecorded
    <3> QED BY <3>2, <3>3, StageDo
  <2> QED BY <2>2, <2>3
<1> QED BY <1>1, <1>2 DEF Chains

(* A landing stays where its step says until that step is done.            *)
LEMMA ProgressStep ==
  ASSUME TypeInv, TreeInv, Kinds
  PROVE  Progress'
<1>1. CASE task' = task
  <2> DEFINE n == task.call.node
  <2>1. ASSUME task.step \in {"gates", "merge", "record", "finish"}
        PROVE  n \in Nodes
    BY <2>1 DEF TypeInv, TaskOK, Call
  <2>2. ASSUME task.step = "finish"
        PROVE  Landed(n)'
    BY <1>1, <2>1, <2>2, LandedStays DEF TreeInv, Progress
  <2>3. ASSUME task.step \in {"gates", "merge", "record"}
        PROVE  ~Landed(n)' /\ SameOp(n)
    <3>1. \A m \in Nodes : ~Recording(m)
      BY <1>1, <2>3, RecordingTask
    <3>2. \A c \in Call : ~Intend(c) /\ ~Prepare(c)
      BY <1>1 DEF Intend, Prepare, At, Step
    <3>3. ~Landed(n)
      BY <2>3 DEF TreeInv, Progress
    <3> QED BY <1>1, <2>1, <2>3, <3>1, <3>2, <3>3, LandedStays, OpsDo DEF Landed
  <2>4. ASSUME task.step = "merge"
        PROVE  ~Reached(n)'
    <3>1. \A c \in Call : ~Merge(c)
      BY <1>1 DEF Merge, At, Step
    <3> QED BY <1>1, <2>1, <2>4, <3>1, MergedBack DEF TreeInv, Progress
  <2>5. ASSUME task.step = "record"
        PROVE  Reached(n)'
    BY <1>1, <2>1, <2>5, ReachedStays DEF TreeInv, Progress
  <2> QED BY <1>1, <2>2, <2>3, <2>4, <2>5 DEF TreeInv, Progress, SameOp
<1>2. CASE task' = Idle
  BY <1>2 DEF Progress, Idle
<1>3. ASSUME NEW c \in Call, c.node \in Nodes, TakeLock(c) /\ task' = [call |-> c, step |-> "begin"]
      PROVE  Progress'
  BY <1>3 DEF Progress
<1>4. ASSUME NEW c \in Call, c.node \in Nodes, ReplayLanded(c) /\ task' = [call |-> c, step |-> "finish"]
      PROVE  Progress'
  BY <1>4, LandedStays DEF Progress, ReplayLanded
<1>5. ASSUME NEW c \in Call, c.node \in Nodes, Intend(c) /\ task' = [call |-> c, step |-> "gates"]
      PROVE  Progress'
  BY <1>5, IntendDoes DEF Progress, Intend, Intends, SameEntries, Landed
<1>6. ASSUME NEW c \in Call, c.node \in Nodes, Prepare(c) /\ task' = [call |-> c, step |-> "merge"]
      PROVE  Progress'
  <2>1. ~Landed(c.node) /\ ~Reached(c.node)
    BY <1>6, UnreachedChange
  <2>2. ~Reached(c.node)'
    <3>1. ~Merge(c)
      BY <1>6 DEF Prepare, Merge, At
    <3>2. \A d \in Call : Merge(d) => d = c
      BY <1>6 DEF Prepare, Merge, At
    <3> QED BY <1>6, <2>1, <3>1, <3>2, MergedBack
  <2> QED BY <1>6, <2>1, <2>2, PrepareDoes DEF Progress, Prepares, SameEntries, Landed
<1>7. ASSUME NEW c \in Call, c.node \in Nodes, Merge(c) /\ task' = [call |-> c, step |-> "record"]
      PROVE  Progress'
  <2>1. mem' = mem /\ branch' = [branch EXCEPT ![Parent[c.node]] = branch[Parent[c.node]] \cup work[c.node][c.worker]]
    BY <1>7 DEF Merge, ledger
  <2>2. ~Landed(c.node) /\ mem.op[c.node].at = "prepared" /\ <<c.node, mem.op[c.node].head>> \in work[c.node][c.worker]
    BY <1>7, MergeIs DEF Own
  <2>3. Parent[c.node] \in Dests
    BY <1>7, Tree
  <2> QED BY <1>7, <2>1, <2>2, <2>3, World DEF Progress, Reached, Landed
<1>8. ASSUME NEW c \in Call, c.node \in Nodes, Recording(c.node) /\ task' = [call |-> c, step |-> "finish"]
      PROVE  Progress'
  <2>1. Lands(c.node)
    BY <1>8, RecordingDoes DEF TreeInv
  <2>2. Landed(c.node)'
    BY <1>8, <2>1, Tree DEF Lands, Landed
  <2> QED BY <1>8, <2>2 DEF Progress
<1> QED BY <1>1, <1>2, <1>3, <1>4, <1>5, <1>6, <1>7, <1>8, TaskDo DEF Call

(* Some report of a branch is its last.                                    *)
LEMMA LastReport ==
  ASSUME NEW S \in SUBSET Reports, S # {}
  PROVE  \E k \in S : \A j \in S : j <= k
<1> DEFINE R == OpToRel(<, Nat)
           T == {t \in Nat : MaxReports - t \in S}
<1>1. IsWellFoundedOn(R, Nat)
  BY NatLessThanWellFounded, Zenon
<1>2. T \subseteq Nat /\ T # {}
  <2>1. PICK k \in S : TRUE
    OBVIOUS
  <2>2. MaxReports - k \in Nat /\ MaxReports - (MaxReports - k) = k
    BY BoundAssumption, <2>1 DEF Reports
  <2> QED BY <2>1, <2>2
<1>3. \A x, y \in Nat : y < x => <<y, x>> \in R
  BY DEF OpToRel
<1> HIDE DEF R, T
<1>4. PICK x \in T : \A y \in T : ~ (<<y, x>> \in R)
  BY <1>1, <1>2, WFMin
<1>5. x \in Nat /\ MaxReports - x \in S
  BY <1>4 DEF T
<1>6. ASSUME NEW j \in S PROVE j <= MaxReports - x
  <2>1. MaxReports - j \in Nat /\ MaxReports - (MaxReports - j) = j /\ j \in Nat
    BY BoundAssumption DEF Reports
  <2>2. MaxReports - j \in T
    BY <2>1 DEF T
  <2>3. ~(MaxReports - j < x)
    BY <1>3, <1>4, <1>5, <2>1, <2>2
  <2> QED BY <1>5, <2>1, <2>3, BoundAssumption
<1> QED BY <1>5, <1>6

(* The head of a branch that has a report of its node is one.              *)
LEMMA HeadIsThere ==
  ASSUME NEW n, NEW w, NEW k \in Reports, <<n, k>> \in work[n][w]
  PROVE  <<n, HeadOf(n, w)>> \in work[n][w]
<1> DEFINE own  == {r \in Reports : <<n, r>> \in work[n][w]}
           last == {r \in own : \A j \in own : j <= r}
<1>1. own \in SUBSET Reports /\ own # {}
  OBVIOUS
<1>2. last # {}
  BY <1>1, LastReport
<1>3. HeadOf(n, w) = CHOOSE r \in last : TRUE
  BY <1>2 DEF HeadOf
<1> QED BY <1>2, <1>3

(* A node without a chain has no worker in it.                             *)
LEMMA UnchainedStep ==
  ASSUME TypeInv, TreeInv, Kinds, NEW n \in Nodes, ~Chained(n)'
  PROVE  mem'.chain[n].workers = {} /\ mem'.chain[n].handle = 0
<1>1. ~Chained(n) => mem.chain[n].workers = {} /\ mem.chain[n].handle = 0
  BY DEF TreeInv, Receipts, Chained
<1>2. ASSUME NEW N, SameChains(N), n \in N
      PROVE  mem'.chain[n].workers = {} /\ mem'.chain[n].handle = 0
  BY <1>1, <1>2 DEF SameChains, Chained
<1>3. \/ SameChains(Nodes) \/ Stops
      \/ \E q \in Nodes : /\ SameChains(Nodes \ {q})
                          /\ Begins(q) \/ Replaces(q) \/ HasReported(q) \/ Receipt(q)
  BY Writes DEF Calm, Begins, Replaces, HasReported, Receipt, Intends, Prepares, Lands
<1>4. ASSUME NEW q \in Nodes, SameChains(Nodes \ {q}), q # n
      PROVE  mem'.chain[n].workers = {} /\ mem'.chain[n].handle = 0
  BY <1>2, <1>4
<1>5. ~Begins(n) /\ ~Replaces(n) /\ ~HasReported(n)
  BY DEF Begins, Replaces, HasReported, Chained
<1>6. ASSUME Receipt(n) \/ Stops
      PROVE  mem'.chain[n].workers = {} /\ mem'.chain[n].handle = 0
  BY <1>6 DEF Receipt, Stops, NoChain
<1> QED BY <1>2, <1>3, <1>4, <1>5, <1>6

(* A chain's worker is one of its node's.                                  *)
LEMMA ChainHandle ==
  ASSUME TypeInv, TreeInv, NEW n \in Nodes
  PROVE  /\ mem.chain[n].handle \in Nat /\ spawned[n] \in Nat /\ mem.chain[n].handle <= spawned[n]
         /\ Chained(n) => mem.chain[n].handle \in Workers
<1>1. mem.chain[n].handle \in 0..MaxWorkers
  BY Parts DEF Chain
<1>2. mem.chain[n].handle <= spawned[n]
  BY DEF TreeInv, Worked
<1>3. Chained(n) => mem.chain[n].handle # 0
  BY DEF TypeInv, Wellformed, Chained
<1> QED BY <1>1, <1>2, <1>3, World DEF Workers

(* What a node's chain and calls are about stays in its worker's branch.   *)
LEMMA WorkedStep ==
  ASSUME TypeInv, TypeInv', TreeInv, Kinds
  PROVE  Worked'
<1>1. ASSUME NEW n \in Nodes
      PROVE  mem'.chain[n].handle <= spawned'[n]
  <2>1. spawned[n] \in Nat /\ spawned'[n] \in Nat /\ spawned[n] <= spawned'[n]
    BY World, WorkKeeps DEF TypeInv, TypeOK, WorldOK
  <2>2. mem.chain[n].handle \in Nat /\ mem.chain[n].handle <= spawned[n]
    BY ChainHandle
  <2>3. ASSUME StartChain(n) \/ ReplaceWorker(n)
        PROVE  mem'.chain[n].handle = spawned[n] + 1 /\ spawned'[n] = spawned[n] + 1
    BY <2>3, World, StartChainDoes, ReplaceWorkerDoes
       DEF StartChain, ReplaceWorker, Spawn, Begins, Replaces
  <2>4. CASE Chained(n) /\ Chained(n)'
    BY <2>1, <2>2, <2>3, <2>4, ChainsDo
  <2>5. CASE ~Chained(n) /\ Chained(n)'
    BY <2>1, <2>3, <2>5, ChainsDo
  <2>6. CASE ~Chained(n)'
    BY <2>1, <2>6, UnchainedStep
  <2> QED BY <2>4, <2>5, <2>6
<1>2. ASSUME NEW n \in Nodes, ReportDone(n)
      PROVE  /\ mem'.chain[n].handle \in Workers /\ mem'.chain[n].handle <= spawned'[n]
             /\ <<n, mem'.result[n]>> \in work'[n][mem'.chain[n].handle]
  <2>1. /\ mem'.chain[n].handle = mem.chain[n].handle /\ mem'.result[n] = tip[n] + 1
        /\ mem.chain[n].phase = "work"
    BY <1>2, ReportDoneDoes DEF HasReported
  <2>2. mem.chain[n].handle \in Workers
    BY <2>1, Parts, BoundAssumption DEF TypeInv, Wellformed, Chain, Workers
  <2>3. work' = [work EXCEPT ![n][mem.chain[n].handle] = work[n][mem.chain[n].handle] \cup {<<n, tip[n] + 1>>}]
    BY <1>2 DEF ReportDone
  <2> QED BY <1>1, <2>1, <2>2, <2>3, World
<1>3. ASSUME NEW n \in Nodes, ~Landed(n)',
             mem'.chain[n].phase = "integrate" \/ disk'.chain[n].phase = "integrate"
      PROVE  <<n, mem'.result[n]>> \in work'[n][mem'.chain[n].handle]
  <2>1. ~Landed(n) /\ ~Recording(n)
    <3>1. Recording(n) => Landed(n)'
      BY RecordingDoes, Tree DEF TreeInv, Lands, Landed
    <3> QED BY <1>3, <3>1, LandedStays
  <2>2. CASE ReportDone(n)
    BY <1>2, <2>2
  <2>3. CASE ~ReportDone(n)
    <3>1. mem.chain[n].phase = "integrate" \/ disk.chain[n].phase = "integrate"
      BY <1>3, <2>3, ChainsDo
    <3>2. mem'.result[n] = mem.result[n]
      BY <2>1, <2>3, ResultsDo
    <3>3. <<n, mem.result[n]>> \in work[n][mem.chain[n].handle]
      BY <2>1, <3>1 DEF TreeInv, Worked
    <3>4. Chained(n) /\ Chained(n)'
      BY <1>3, <3>1, AgreeStep DEF TreeInv, Agree, Chained
    <3>5. mem.chain[n].handle \in Workers /\ mem.chain[n].handle <= spawned[n]
      BY <3>4, ChainHandle
    <3>6. CASE mem'.chain[n].handle = mem.chain[n].handle
      BY <3>2, <3>3, <3>5, <3>6, WorkKeeps
    <3>7. CASE ReplaceWorker(n) /\ Replaces(n)
      <4>1. /\ work' = [work EXCEPT ![n][spawned[n] + 1] = work[n][mem.chain[n].handle] \cup branch[Parent[n]]]
            /\ mem'.chain[n].handle = spawned[n] + 1 /\ spawned[n] + 1 \in Workers
        BY <3>7 DEF ReplaceWorker, Spawn, Replaces
      <4> QED BY <3>2, <3>3, <4>1, World
    <3> QED BY <3>4, <3>6, <3>7, ChainsDo
  <2> QED BY <2>2, <2>3
<1>4. ASSUME NEW c \in Call, Pends(c)'
      PROVE  c.worker <= spawned'[c.node] /\ <<c.node, c.result>> \in work'[c.node][c.worker]
  <2>1. c.node \in Nodes /\ c.worker \in Workers
    BY DEF Call
  <2>2. CASE Pends(c)
    <3>1. c.worker <= spawned[c.node] /\ <<c.node, c.result>> \in work[c.node][c.worker]
      BY <2>2 DEF TreeInv, Worked
    <3>2. spawned[c.node] \in Nat /\ spawned'[c.node] \in Nat /\ c.worker \in Nat
      BY <2>1, World DEF TypeInv, TypeOK, WorldOK
    <3> QED BY <2>1, <3>1, <3>2, WorkKeeps
  <2>3. CASE c.worker = mem'.chain[c.node].handle /\ c.result = mem'.result[c.node] /\ ReportDone(c.node)
    BY <1>2, <2>1, <2>3
  <2>4. CASE c.worker = mem'.chain[c.node].handle /\ c.result = mem'.result[c.node] /\ ResumeIntegrate(c.node)
    <3>1. mem'.chain[c.node].phase = "integrate" /\ ~Landed(c.node)'
      BY <2>4 DEF ResumeIntegrate, Walkable, Open, Landed, ledger
    <3> QED BY <1>1, <1>3, <2>1, <2>4, <3>1
  <2> QED BY <1>4, <2>2, <2>3, <2>4, PendsDo
<1>5. ASSUME NEW c, task'.call = c, task'.step \in {"gates", "merge"}
      PROVE  /\ mem'.op[c.node].result = c.result
             /\ task'.step = "merge" => Own(c.node)' \subseteq work'[c.node][c.worker]
  <2>1. CASE task' = task
    <3>1. c \in Call /\ c.node \in Nodes /\ c.worker \in Workers /\ Pends(c)
      BY <1>5, <2>1 DEF TypeInv, TaskOK, Call, Pends
    <3>2. SameOp(c.node)
      <4>1. ~Recording(c.node)
        BY <1>5, <2>1, <3>1, RecordingTask
      <4>2. \A d \in Call : ~Intend(d) /\ ~Prepare(d)
        BY <2>1 DEF Intend, Prepare, At, Step
      <4> QED BY <3>1, <4>1, <4>2, OpsDo
    <3>3. work[c.node][c.worker] \subseteq work'[c.node][c.worker]
      BY <3>1, WorkKeeps DEF TreeInv, Worked
    <3>4. /\ mem.op[c.node].result = c.result
          /\ task.step = "merge" => Own(c.node) \subseteq work[c.node][c.worker]
      BY <1>5, <2>1 DEF TreeInv, Worked
    <3>5. mem'.op[c.node].result = c.result
      BY <3>2, <3>4 DEF SameOp
    <3>6. task.step = "merge" => Own(c.node)' \subseteq work'[c.node][c.worker]
      BY <3>2, <3>3, <3>4, <2>1 DEF Own, SameOp
    <3> QED BY <2>1, <3>5, <3>6
  <2>2. ASSUME NEW d \in Call, Intend(d), task' = [call |-> d, step |-> "gates"]
        PROVE  mem'.op[d.node].result = d.result /\ task'.step # "merge"
    BY <2>2, IntendDoes DEF Intends
  <2>3. ASSUME NEW d \in Call, Prepare(d), task' = [call |-> d, step |-> "merge"]
        PROVE  /\ mem'.op[d.node].result = d.result
               /\ Own(d.node)' \subseteq work'[d.node][d.worker]
    <3>1. task.step = "gates" /\ task.call = d /\ Pends(d) /\ d.node \in Nodes /\ d.worker \in Workers /\ d.result \in Reports
      BY <2>3 DEF Prepare, At, Pends, Call
    <3>2. mem.op[d.node].result = d.result /\ <<d.node, d.result>> \in work[d.node][d.worker] /\ d.worker <= spawned[d.node]
      BY <3>1 DEF TreeInv, Worked
    <3>3. <<d.node, HeadOf(d.node, d.worker)>> \in work[d.node][d.worker]
      BY <3>1, <3>2, HeadIsThere
    <3>4. mem'.op[d.node].result = d.result /\ mem'.op[d.node].head = HeadOf(d.node, d.worker)
      BY <2>3, <3>2, PrepareDoes DEF Prepares
    <3>5. work[d.node][d.worker] \subseteq work'[d.node][d.worker]
      BY <3>1, <3>2, WorkKeeps
    <3> QED BY <3>2, <3>3, <3>4, <3>5 DEF Own
  <2> QED BY <1>5, <2>1, <2>2, <2>3, TaskDo DEF Idle
<1> QED BY <1>1, <1>3, <1>4, <1>5 DEF Worked, Own

(* A landed node's entry keeps what it stands for.                         *)
LEMMA MarksStay ==
  ASSUME TypeInv, TreeInv, Kinds, NEW m \in Nodes, Landed(m)
  PROVE  Marks(m)' = Marks(m) /\ mem'.op[m].at = mem.op[m].at /\ mem'.result[m] = mem.result[m]
<1>1. ~Recording(m)
  BY RecordingDoes DEF TreeInv
<1>2. ~ReportDone(m)
  BY DEF ReportDone, Walkable, Open
<1>3. \A c \in Call : Intend(c) \/ Prepare(c) => c.node # m
  BY UnreachedChange
<1>4. SameOp(m) /\ mem'.result[m] = mem.result[m]
  BY <1>1, <1>2, <1>3, OpsDo, ResultsDo
<1> QED BY <1>4 DEF Marks, SameOp

(* What landed in a collector is in every worker that may land its node.   *)
LEMMA ContainedStep ==
  ASSUME TypeInv, TypeInv', SafeInv, TreeInv, Kinds
  PROVE  Contained'
<1> SUFFICES ASSUME NEW m \in Nodes, NEW n \in Nodes, mem'.landed[m] = n
    PROVE  /\ n \in mem'.collectors /\ n \in disk'.collectors
           /\ Chained(n)' => Marks(m)' \subseteq work'[n][mem'.chain[n].handle]
           /\ \A c \in Call : Pends(c)' /\ c.node = n => Marks(m)' \subseteq work'[n][c.worker]
           /\ task'.step \in {"gates", "merge", "record"} /\ task'.call.node = n =>
                m \in mem'.op[n].carried
           /\ Reached(n)' => m \in mem'.op[n].carried /\ Marks(m)' \subseteq branch'[Parent[n]]
  BY DEF Contained
<1>1. ASSUME NEW q \in Nodes, Recording(q), n = Parent[q]
      PROVE  /\ n \in mem'.collectors /\ n \in disk'.collectors
             /\ ~Chained(n)' /\ ~Reached(n)'
             /\ \A c \in Call : Pends(c)' => c.node # n
             /\ ~(task'.step \in {"gates", "merge", "record"})
  <2>1. Lands(q) /\ ~Landed(q) /\ Reached(q) /\ UNCHANGED <<branch, calls>> /\ q # n
    BY <1>1, RecordingDoes, Tree DEF TreeInv
  <2>2. Quiet(n)
    BY <1>1, <2>1, AboveIsFree, Tree
  <2>3. ~Chained(n)' /\ ~Reached(n)'
    BY <2>1, <2>2 DEF Quiet, Lands, SameOps, SameChains, Chained, Reached
  <2>4. n \in mem'.collectors /\ n \in disk'.collectors
    BY <1>1, <2>1 DEF TreeInv, Collectors, Lands
  <2>5. ASSUME NEW c \in Call, Pends(c)' PROVE c.node # n
    <3>1. Pends(c)
      BY <1>1, <2>1, <2>5, RecordingTask DEF Pends, Idle
    <3> QED BY <2>2, <3>1 DEF TreeInv, Chains, Quiet, Open
  <2> QED BY <1>1, <2>3, <2>4, <2>5, RecordingTask
<1>2. CASE mem.landed[m] = n
  <2>1. ~Landed(n) /\ Landed(m) /\ Holds(n) /\ m # n
    BY <1>2, Tree DEF TreeInv, Entries, Landed, Holds
  <2>2. /\ n \in mem.collectors /\ n \in disk.collectors
        /\ Chained(n) => Marks(m) \subseteq work[n][mem.chain[n].handle]
        /\ \A c \in Call : Pends(c) /\ c.node = n => Marks(m) \subseteq work[n][c.worker]
        /\ task.step \in {"gates", "merge", "record"} /\ task.call.node = n =>
             m \in mem.op[n].carried
        /\ Reached(n) => m \in mem.op[n].carried /\ Marks(m) \subseteq branch[Parent[n]]
    BY <1>2 DEF TreeInv, Contained
  <2>3. Marks(m)' = Marks(m) /\ Marks(m) \subseteq branch[n]
    BY <1>2, <2>1, MarksStay DEF TreeInv, Entries
  <2>4. Free(Parent[n])
    BY <2>1, AboveIsFree
  <2>5. n \in mem'.collectors /\ n \in disk'.collectors
    BY <2>1, <2>2, CollectorsDo
  <2>6. ASSUME Chained(n)' PROVE Marks(m)' \subseteq work'[n][mem'.chain[n].handle]
    <3>1. CASE Chained(n) /\ mem'.chain[n].handle = mem.chain[n].handle
      <4>1. mem.chain[n].handle \in Workers /\ mem.chain[n].handle <= spawned[n]
        BY <3>1, ChainHandle
      <4> QED BY <2>2, <2>3, <3>1, <4>1, WorkKeeps
    <3>2. CASE ReplaceWorker(n) /\ Replaces(n)
      <4>1. /\ work' = [work EXCEPT ![n][spawned[n] + 1] = work[n][mem.chain[n].handle] \cup branch[Parent[n]]]
            /\ mem'.chain[n].handle = spawned[n] + 1 /\ spawned[n] + 1 \in Workers /\ Chained(n)
        BY <3>2 DEF ReplaceWorker, Spawn, Replaces, Chained
      <4> QED BY <2>2, <2>3, <4>1, World
    <3>3. CASE StartChain(n) /\ Begins(n)
      <4>1. /\ work' = [work EXCEPT ![n][spawned[n] + 1] = StartBase(n)]
            /\ mem'.chain[n].handle = spawned[n] + 1 /\ spawned[n] + 1 \in Workers
        BY <3>3 DEF StartChain, Spawn, Begins
      <4>2. branch[n] \subseteq StartBase(n)
        BY <2>2 DEF StartBase
      <4> QED BY <2>3, <4>1, <4>2, World
    <3> QED BY <2>6, <3>1, <3>2, <3>3, ChainsDo
  <2>7. ASSUME NEW c \in Call, Pends(c)', c.node = n
        PROVE  Marks(m)' \subseteq work'[n][c.worker]
    <3>1. CASE Pends(c)
      <4>1. c.worker \in Workers /\ c.worker <= spawned[n]
        BY <2>7, <3>1 DEF Call, TreeInv, Worked
      <4> QED BY <2>2, <2>3, <2>7, <3>1, <4>1, WorkKeeps
    <3>2. CASE c.worker = mem'.chain[n].handle /\ (ReportDone(n) \/ ResumeIntegrate(n))
      <4>1. Chained(n)'
        BY <3>2, ReportDoneDoes DEF HasReported, ResumeIntegrate, ledger, Chained
      <4> QED BY <2>6, <3>2, <4>1
    <3> QED BY <2>7, <3>1, <3>2, PendsDo
  <2>8. ASSUME task'.step \in {"gates", "merge", "record"}, task'.call.node = n
        PROVE  m \in mem'.op[n].carried
    <3>1. ASSUME NEW c \in Call, Intend(c), c.node = n
          PROVE  m \in mem'.op[n].carried
      <4>1. m \notin mem.closedAt
        <5>1. m \in mem.closedAt => mem.landed[m] = Owner
          BY DEF TreeInv, Entries, SafeInv, AtTarget
        <5> QED BY <1>2, <5>1, Tree
      <4> QED BY <1>2, <2>1, <3>1, <4>1, IntendDoes DEF Intends
    <3>2. ASSUME m \in mem.op[n].carried PROVE m \in mem'.op[n].carried
      <4>1. CASE SameOp(n)
        BY <3>2, <4>1 DEF SameOp
      <4>2. CASE Recording(n) /\ Lands(n)
        BY <3>2, <4>2 DEF Lands
      <4>3. ASSUME NEW c \in Call, c.node = n, Intend(c) \/ (Prepare(c) /\ Prepares(c))
            PROVE  m \in mem'.op[n].carried
        BY <3>1, <3>2, <4>3 DEF Prepares
      <4> QED BY <4>1, <4>2, <4>3, OpsDo
    <3>3. CASE task' = task
      BY <2>2, <2>8, <3>2, <3>3
    <3>4. ASSUME NEW c \in Call, task' = [call |-> c, step |-> "gates"], Intend(c)
          PROVE  m \in mem'.op[n].carried
      BY <2>8, <3>1, <3>4
    <3>5. ASSUME NEW c \in Call, task'.call = c, Prepare(c) \/ Merge(c)
          PROVE  m \in mem'.op[n].carried
      <4>1. task.step \in {"gates", "merge"} /\ task.call.node = n
        BY <2>8, <3>5 DEF Prepare, Merge, At
      <4> QED BY <2>2, <3>2, <4>1
    <3> QED BY <2>8, <3>3, <3>4, <3>5, TaskDo DEF Idle
  <2>9. ASSUME Reached(n)'
        PROVE  m \in mem'.op[n].carried /\ Marks(m)' \subseteq branch'[Parent[n]]
    <3>1. CASE Reached(n)
      <4>1. branch[Parent[n]] \subseteq branch'[Parent[n]]
        BY <2>1, <2>4, BranchesKeep, Tree
      <4>2. mem'.op[n].carried = mem.op[n].carried
        <5>1. SameOp(n) \/ (Recording(n) /\ Lands(n))
          BY <2>1, <3>1, OpsDo, UnreachedChange
        <5> QED BY <5>1 DEF SameOp, Lands
      <4> QED BY <2>2, <2>3, <3>1, <4>1, <4>2
    <3>2. ASSUME NEW c \in Call, Merge(c), c.node = n, SameOp(n)
          PROVE  m \in mem'.op[n].carried /\ Marks(m)' \subseteq branch'[Parent[n]]
      <4>1. branch' = [branch EXCEPT ![Parent[n]] = branch[Parent[n]] \cup work[n][c.worker]]
        BY <3>2 DEF Merge
      <4>2. task.call = c /\ task.step = "merge" /\ Pends(c)
        BY <3>2, MergeIs
      <4> QED BY <2>2, <2>3, <3>2, <4>1, <4>2, World, Tree DEF SameOp
    <3> QED BY <2>1, <2>9, <3>1, <3>2, MergedBack
  <2> QED BY <2>5, <2>6, <2>7, <2>8, <2>9
<1>3. CASE mem.landed[m] # n
  <2>1. PICK q \in Nodes : Recording(q) /\ Lands(q)
    BY <1>3, LandedStays
  <2>2. n = Parent[q]
    BY <1>3, <2>1 DEF Lands
  <2> QED BY <1>1, <2>1, <2>2
<1> QED BY <1>2, <1>3

(* A collector is there for what lands in it.                              *)
LEMMA CollectorsStep ==
  ASSUME TypeInv, TreeInv, Kinds
  PROVE  Collectors'
<1> SUFFICES ASSUME NEW n \in Nodes, ~Landed(n)'
    PROVE  /\ n \notin trees' => branch'[n] = {}
           /\ n \in mem'.collectors \cup disk'.collectors => n \in trees'
           /\ (Chained(n) \/ Reached(n))' /\ Parent[n] \in Nodes =>
                Parent[n] \in mem'.collectors /\ Parent[n] \in disk'.collectors
  BY DEF Collectors
<1>1. ~Landed(n) /\ n \in Dests
  BY LandedStays, Tree
<1>2. ASSUME n \notin trees' PROVE branch'[n] = {}
  <2>1. n \notin trees /\ branch[n] = {}
    BY <1>1, <1>2, CollectorsDo DEF TreeInv, Collectors
  <2>2. ~MakeTree(n)
    BY <1>2 DEF MakeTree
  <2>3. ASSUME NEW c \in Call, Merge(c) PROVE Parent[c.node] # n
    <3>1. ~Landed(c.node) /\ Chained(c.node) /\ c.node \in Nodes
      BY <2>3, MergeIs
    <3> QED BY <1>1, <2>1, <3>1 DEF TreeInv, Collectors
  <2>4. \A e \in branch'[n] : FALSE
    BY <1>1, <2>1, <2>2, <2>3, BranchesGain
  <2> QED BY <2>4
<1>3. ASSUME n \in mem'.collectors \cup disk'.collectors
      PROVE  n \in trees'
  BY <1>1, <1>3, CollectorsDo DEF TreeInv, Collectors
<1>4. ASSUME (Chained(n) \/ Reached(n))', Parent[n] \in Nodes
      PROVE  Parent[n] \in mem'.collectors /\ Parent[n] \in disk'.collectors
  <2>1. CASE Chained(n) \/ Reached(n)
    <3>1. Parent[n] \in mem.collectors /\ Parent[n] \in disk.collectors
      BY <1>1, <1>4, <2>1 DEF TreeInv, Collectors
    <3>2. ~Landed(Parent[n])
      BY <1>1, <1>4, <2>1, AboveIsFree DEF Free
    <3> QED BY <1>4, <3>1, <3>2, CollectorsDo
  <2>2. CASE StartChain(n)
    BY <1>4, <2>2, StartChainDoes, Tree DEF StartChain, HasDestination, Begins
  <2>3. Chained(n) \/ Reached(n) \/ StartChain(n)
    BY <1>1, <1>4, ChainsDo, MergedBack, MergeIs
  <2> QED BY <2>1, <2>2, <2>3
<1> QED BY <1>2, <1>3, <1>4

(* Commits go where their node lands, and only by its own merge.           *)
LEMMA SourcesStep ==
  ASSUME TypeInv, TreeInv, Kinds
  PROVE  Sources'
<1> SUFFICES ASSUME NEW x \in Nodes, NEW k \in Reports, Parent[x] = Owner \/ ~Landed(Parent[x])'
    PROVE  /\ \/ \E d \in Dests : <<x, k>> \in branch'[d]
              \/ \E y \in Nodes \ {x} :
                   <<x, k>> \in mem'.resume[y] \/ \E w \in Workers : <<x, k>> \in work'[y][w]
              => <<x, k>> \in branch'[Parent[x]]
           /\ <<x, k>> \in branch'[Parent[x]] => Landed(x)' \/ Reached(x)'
  BY DEF Sources
<1> DEFINE e == <<x, k>>
           Was == \/ \E d \in Dests : e \in branch[d]
                  \/ \E y \in Nodes \ {x} : e \in mem.resume[y] \/ \E w \in Workers : e \in work[y][w]
<1>1. Free(Parent[x]) /\ Parent[x] \in Dests /\ (Parent[x] = Owner \/ ~Landed(Parent[x]))
  BY LandedStays, Tree DEF Free
<1>2. ASSUME Was PROVE e \in branch'[Parent[x]]
  <2>1. e \in branch[Parent[x]]
    BY <1>1, <1>2 DEF TreeInv, Sources
  <2> QED BY <1>1, <2>1, BranchesKeep
<1>3. ASSUME NEW c \in Call, Merge(c), c.node = x, e \in work[x][c.worker]
      PROVE  e \in branch'[Parent[x]]
  BY <1>1, <1>3, World DEF Merge
<1>4. ASSUME NEW d \in Dests, e \in branch'[d]
      PROVE  e \in branch'[Parent[x]]
  <2>1. CASE e \in branch[d]
    BY <1>2, <2>1
  <2>2. CASE d \in Nodes /\ e \in branch[Parent[d]]
    BY <1>2, <2>2, Tree
  <2>3. ASSUME NEW c \in Call, Merge(c), e \in work[c.node][c.worker]
        PROVE  e \in branch'[Parent[x]]
    <3>1. c.node \in Nodes /\ c.worker \in Workers
      BY DEF Call
    <3> QED BY <1>2, <1>3, <2>3, <3>1
  <2> QED BY <1>4, <2>1, <2>2, <2>3, BranchesGain
<1>5. ASSUME NEW y \in Nodes \ {x}, e \in mem'.resume[y]
      PROVE  Was
  <2>1. e \in mem.resume[y] \/ \E w \in Workers : e \in work[y][w]
    BY <1>5, Writes DEF Calm, Stops, Begins, Replaces, HasReported, Lands, Receipt, Intends, Prepares
  <2> QED BY <2>1
<1>6. ASSUME NEW y \in Nodes \ {x}, NEW w \in Workers, e \in work'[y][w]
      PROVE  Was
  BY <1>6, WorkGains
<1>7. ASSUME e \in branch'[Parent[x]] PROVE Landed(x)' \/ Reached(x)'
  <2>1. CASE e \in branch[Parent[x]]
    <3>1. Landed(x) \/ Reached(x)
      BY <1>1, <2>1 DEF TreeInv, Sources
    <3> QED BY <3>1, LandedStays, ReachedStays
  <2>2. CASE e \notin branch[Parent[x]]
    <3>1. PICK c \in Call : Merge(c) /\ c.node = x
      BY <1>1, <1>7, <2>2, OnlyOwnMerge
    <3>2. mem.op[x].at = "prepared" /\ <<x, mem.op[x].head>> \in work[x][c.worker] /\ mem' = mem
      BY <3>1, MergeIs DEF Own, Merge, ledger
    <3>3. branch' = [branch EXCEPT ![Parent[x]] = branch[Parent[x]] \cup work[x][c.worker]]
      BY <3>1 DEF Merge
    <3> QED BY <1>1, <3>2, <3>3, World DEF Reached
  <2> QED BY <2>1, <2>2
<1> QED BY <1>2, <1>4, <1>5, <1>6, <1>7

(* What merged unrecorded is what its operation says.                      *)
LEMMA OwnMergedStep ==
  ASSUME TypeInv, TreeInv, Kinds
  PROVE  OwnMerged'
<1> SUFFICES ASSUME NEW n \in Nodes, ~Landed(n)', Reached(n)'
             PROVE  Own(n)' \subseteq branch'[Parent[n]]
  BY DEF OwnMerged
<1>1. ~Landed(n)
  BY LandedStays
<1>2. CASE Reached(n)
  <2>1. SameOp(n) /\ Free(Parent[n]) /\ Own(n) \subseteq branch[Parent[n]]
    BY <1>1, <1>2, ReachedStays, AboveIsFree DEF TreeInv, OwnMerged
  <2> QED BY <2>1, BranchesKeep, Tree DEF Own, SameOp
<1>3. ASSUME NEW c \in Call, Merge(c), c.node = n, SameOp(n)
      PROVE  Own(n)' \subseteq branch'[Parent[n]]
  <2>1. branch' = [branch EXCEPT ![Parent[n]] = branch[Parent[n]] \cup work[n][c.worker]]
    BY <1>3 DEF Merge
  <2>2. Own(n) \subseteq work[n][c.worker]
    BY <1>3, MergeIs
  <2> QED BY <1>3, <2>1, <2>2, World, Tree DEF Own, SameOp
<1> QED BY <1>1, <1>2, <1>3, MergedBack

(* Entries stay true.                                                      *)
LEMMA EntriesStep ==
  ASSUME TypeInv, SafeInv, TreeInv, Kinds
  PROVE  Entries'
<1>1. ASSUME NEW m \in Nodes, Landed(m), mem'.landed[m] = mem.landed[m]
      PROVE  Marks(m)' \subseteq branch'[mem'.landed[m]] /\ mem'.result[m] # 0
  <2>1. Marks(m) \subseteq branch[mem.landed[m]] /\ mem.result[m] # 0
    BY <1>1 DEF TreeInv, Entries
  <2>2. Free(mem.landed[m]) /\ mem.landed[m] \in Dests
    BY <1>1, Parts DEF TreeInv, Entries, Free, Landed
  <2> QED BY <1>1, <2>1, <2>2, MarksStay, BranchesKeep
<1>2. ASSUME NEW q \in Nodes, Recording(q), Lands(q)
      PROVE  /\ Marks(q)' \subseteq branch'[mem'.landed[q]] /\ mem'.result[q] # 0
             /\ \A m \in Nodes : Moves(m, q) => Marks(m)' \subseteq branch'[mem'.landed[m]] /\ mem'.result[m] # 0
             /\ ~Landed(q) /\ Free(Parent[q]) /\ Parent[q] # q
             /\ \A m \in Nodes : mem.landed[m] = q => Moves(m, q)
  <2>1. ~Landed(q) /\ Reached(q) /\ UNCHANGED branch
    BY <1>2, RecordingDoes DEF TreeInv
  <2>2. Own(q) \subseteq branch[Parent[q]] /\ mem.op[q].result # 0
    BY <2>1 DEF TreeInv, OwnMerged, Reached, TypeInv, Wellformed
  <2>3. Marks(q)' = Own(q) /\ mem'.landed[q] = Parent[q] /\ mem'.result[q] = mem.op[q].result
    BY <1>2 DEF Lands, Marks, Own
  <2>4. ASSUME NEW m \in Nodes, mem.landed[m] = q
        PROVE  Moves(m, q) /\ Marks(m)' \subseteq branch'[mem'.landed[m]] /\ mem'.result[m] # 0
    <3>1. Landed(m) /\ m \in mem.op[q].carried /\ Marks(m) \subseteq branch[Parent[q]] /\ mem.result[m] # 0
      BY <2>1, <2>4, Tree DEF TreeInv, Contained, Entries, Landed
    <3>2. m \notin mem.closedAt
      <4>1. m \in mem.closedAt => mem.landed[m] = Owner
        BY DEF TreeInv, Entries, SafeInv, AtTarget
      <4> QED BY <2>4, <4>1, Tree
    <3>3. Moves(m, q)
      BY <2>4, <3>1, <3>2 DEF Moves
    <3>4. mem'.landed[m] = Parent[q]
      BY <1>2, <3>3 DEF Lands
    <3> QED BY <2>1, <3>1, <3>3, <3>4, MarksStay
  <2>5. Free(Parent[q]) /\ Parent[q] # q
    BY <2>1, AboveIsFree, Tree
  <2> QED BY <2>1, <2>2, <2>3, <2>4, <2>5 DEF Moves
<1>3. ASSUME NEW m \in Nodes, Landed(m)'
      PROVE  Marks(m)' \subseteq branch'[mem'.landed[m]] /\ mem'.result[m] # 0
  <2>1. CASE mem'.landed = mem.landed
    BY <1>1, <1>3, <2>1 DEF Landed
  <2>2. ASSUME NEW q \in Nodes, Recording(q), Lands(q)
        PROVE  Marks(m)' \subseteq branch'[mem'.landed[m]] /\ mem'.result[m] # 0
    <3>1. CASE m = q \/ Moves(m, q)
      BY <1>2, <2>2, <3>1
    <3>2. CASE ~(m = q \/ Moves(m, q))
      <4>1. mem'.landed[m] = mem.landed[m]
        BY <2>2, <3>2 DEF Lands
      <4> QED BY <1>1, <1>3, <4>1 DEF Landed
    <3> QED BY <3>1, <3>2
  <2> QED BY <2>1, <2>2, LandedStays
<1>4. ASSUME NEW m \in Nodes, NEW n \in Nodes, mem'.landed[m] = n
      PROVE  ~Landed(n)'
  <2>1. CASE mem'.landed = mem.landed
    BY <1>4, <2>1 DEF Landed, TreeInv, Entries
  <2>2. ASSUME NEW q \in Nodes, Recording(q), Lands(q)
        PROVE  ~Landed(n)'
    <3>1. ~Landed(n) /\ n # q
      <4>1. CASE m = q \/ Moves(m, q)
        <5>1. n = Parent[q]
          BY <1>4, <2>2, <4>1 DEF Lands
        <5> QED BY <1>2, <2>2, <5>1 DEF Free
      <4>2. CASE ~(m = q \/ Moves(m, q))
        <5>1. mem.landed[m] = n
          BY <1>4, <2>2, <4>2 DEF Lands
        <5> QED BY <1>2, <2>2, <4>2, <5>1 DEF TreeInv, Entries
      <4> QED BY <4>1, <4>2
    <3>2. ~Moves(n, q)
      BY <3>1, Tree DEF Moves, Landed
    <3> QED BY <2>2, <3>1, <3>2 DEF Lands, Landed
  <2> QED BY <2>1, <2>2, LandedStays
<1>5. ASSUME NEW m \in Nodes, Landed(m)'
      PROVE  mem'.op[m].at = "landed"
  <2>1. CASE Landed(m)
    BY <2>1, MarksStay DEF TreeInv, Entries
  <2>2. CASE ~Landed(m)
    <3>1. PICK q \in Nodes : Recording(q) /\ Lands(q)
      BY <1>5, <2>2, LandedStays DEF Landed
    <3>2. m = q
      BY <1>5, <2>2, <3>1, Tree DEF Lands, Moves, Landed
    <3> QED BY <3>1, <3>2 DEF Lands
  <2> QED BY <2>1, <2>2
<1>6. mem'.closedAt \subseteq closed'
  BY IssuesDo DEF TreeInv, Entries
<1> QED BY <1>3, <1>4, <1>5, <1>6 DEF Entries

(* Receipts lose no worker, and only a cleanup finds its workers gone.     *)
LEMMA ReceiptsDo ==
  ASSUME TypeInv, TreeInv, Kinds
  PROVE  \A m \in Nodes :
           /\ mem.op[m].workers \subseteq mem'.op[m].workers
           /\ mem'.op[m].cleaned => mem.op[m].cleaned \/ FinishCleanup(m)
<1> DEFINE Kept == \A m \in Nodes :
           /\ mem.op[m].workers \subseteq mem'.op[m].workers
           /\ mem'.op[m].cleaned => mem.op[m].cleaned \/ FinishCleanup(m)
<1>1. SameReceipts(Nodes) => Kept
  BY DEF SameReceipts
<1>2. CASE Steady \/ BareFinish
  BY <1>1, <1>2, SteadyDoes, BareFinishDoes DEF TreeInv
<1>3. CASE Stop
  BY <1>1, <1>3, StopDoes DEF TreeInv, Stops
<1>4. ASSUME NEW n \in Nodes,
             \/ MakeTree(n) \/ StartChain(n) \/ ReplaceWorker(n) \/ Commit(n) \/ ReportDone(n)
             \/ Recording(n)
      PROVE  Kept
  BY <1>1, <1>4, OthersCalm, StartChainDoes, ReplaceWorkerDoes, ReportDoneDoes, RecordingDoes
     DEF MakeTree, Commit, TreeInv, Begins, Replaces, HasReported, Lands
<1>5. ASSUME NEW n \in Nodes, FinishCleanup(n)
      PROVE  Kept
  BY <1>5, CleanupCalm DEF TreeInv, SameReceipts
<1>6. ASSUME NEW n \in Nodes, Receipting(n)
      PROVE  Kept
  BY <1>6, ReceiptingDoes DEF TreeInv, Receipt, SameReceipts
<1>7. ASSUME NEW c \in Call, Intend(c)
      PROVE  Kept
  BY <1>7, IntendDoes DEF Intends, SameReceipts, Call
<1>8. ASSUME NEW c \in Call, Prepare(c) \/ Merge(c)
      PROVE  Kept
  BY <1>1, <1>8, PrepareDoes, OthersCalm DEF Prepares, Merge, TreeInv
<1> QED BY <1>2, <1>3, <1>4, <1>5, <1>6, <1>7, <1>8 DEF Kinds

(* Workers are launched by a start and a replacement alone.                *)
LEMMA LiveDo ==
  ASSUME TypeInv, TreeInv, Kinds
  PROVE  \A n \in Nodes, w \in Workers : <<n, w>> \in live' =>
           \/ <<n, w>> \in live
           \/ StartChain(n) /\ w = mem'.chain[n].handle
           \/ ReplaceWorker(n) /\ w = mem'.chain[n].handle
<1>1. CASE Steady
  BY <1>1 DEF Steady, FileIssue, RecordCollector, ResumeIntegrate, CloseInTracker, SaveClosed,
              RemoveTree, RetireWorker, TakeLock, ReplayLanded, RecordRefused, SendBack, threads,
              Boot, Recovered, BeginClose, CloseFails, EndClose, EndSweep, EndClean,
              EndVisit, TickFails, NextTick, Start, Flush, Crash, vars
<1>2. CASE BareFinish \/ Stop
  BY <1>2 DEF BareFinish, Finish, Stop, threads
<1>3. ASSUME NEW n \in Nodes, StartChain(n)
      PROVE  live' = live \cup {<<n, mem'.chain[n].handle>>}
  <2>1. live' = live \cup {<<n, spawned'[n]>>} /\ spawned' = [spawned EXCEPT ![n] = spawned[n] + 1]
    BY <1>3 DEF StartChain, Spawn
  <2> QED BY <1>3, <2>1, World, StartChainDoes DEF Begins
<1>4. ASSUME NEW n \in Nodes, ReplaceWorker(n)
      PROVE  live' \subseteq live \cup {<<n, mem'.chain[n].handle>>}
  BY <1>4, ReplaceWorkerDoes DEF Replaces
<1>5. ASSUME NEW n \in Nodes,
             MakeTree(n) \/ Commit(n) \/ ReportDone(n) \/ FinishCleanup(n) \/ Recording(n) \/ Receipting(n)
      PROVE  live' = live
  BY <1>5, RecordingDoes, ReceiptingDoes
     DEF MakeTree, Commit, ReportDone, FinishCleanup, threads, TreeInv
<1>6. ASSUME NEW c \in Call, Intend(c) \/ Prepare(c) \/ Merge(c)
      PROVE  live' = live
  BY <1>6 DEF Intend, Prepare, Merge, threads
<1> QED BY <1>1, <1>2, <1>3, <1>4, <1>5, <1>6 DEF Kinds

(* The workers that a node's receipt names or will name.                   *)
Named(n) == mem.op[n].workers \cup mem.chain[n].workers \cup {mem.chain[n].handle}

(* A worker that runs stays named.                                         *)
LEMMA NamedStays ==
  ASSUME TypeInv, TreeInv, Kinds, NEW n \in Nodes, NEW w \in Workers, w \in Named(n), <<n, w>> \in live'
  PROVE  w \in Named(n)'
<1>1. w # 0
  BY World
<1>2. mem.op[n].workers \subseteq mem'.op[n].workers
  BY ReceiptsDo
<1>3. ~Stop
  BY DEF Stop
<1>4. CASE Calm
  BY <1>2, <1>4 DEF Calm, SameChains, Named
<1>5. ASSUME NEW m \in Nodes, StartChain(m) /\ Begins(m)
      PROVE  w \in Named(n)'
  <2>1. m = n => mem.chain[n].workers = {} /\ mem.chain[n].handle = 0
    BY <1>5 DEF StartChain, TreeInv, Receipts
  <2> QED BY <1>1, <1>2, <1>5, <2>1 DEF Begins, SameChains, Named
<1>6. ASSUME NEW m \in Nodes, ReplaceWorker(m) /\ Replaces(m)
      PROVE  w \in Named(n)'
  <2>1. CASE m # n
    BY <1>2, <1>6, <2>1 DEF Replaces, SameChains, Named
  <2>2. CASE m = n
    <3>1. CASE /\ live' = (live \ {<<n, mem.chain[n].handle>>}) \cup {<<n, spawned[n] + 1>>}
               /\ mem'.chain[n].workers = mem.chain[n].workers
      BY <1>2, <1>6, <2>2, <3>1 DEF Replaces, Named
    <3>2. CASE mem'.chain[n].workers = mem.chain[n].workers \cup {mem.chain[n].handle}
      BY <1>2, <3>2 DEF Named
    <3> QED BY <1>6, <2>2, <3>1, <3>2 DEF Replaces
  <2> QED BY <2>1, <2>2
<1>7. ASSUME NEW m \in Nodes, ReportDone(m) /\ HasReported(m)
      PROVE  w \in Named(n)'
  BY <1>2, <1>7 DEF HasReported, SameChains, Named
<1>8. ASSUME NEW m \in Nodes, Recording(m) /\ Lands(m)
      PROVE  w \in Named(n)'
  BY <1>2, <1>8 DEF Lands, SameChains, Named
<1>9. ASSUME NEW m \in Nodes, Receipt(m)
      PROVE  w \in Named(n)'
  BY <1>1, <1>2, <1>9 DEF Receipt, SameChains, Named
<1>10. ASSUME NEW c \in Call, Intends(c) \/ Prepares(c)
       PROVE  w \in Named(n)'
  BY <1>2, <1>10 DEF Intends, Prepares, SameChains, Named
<1> QED BY <1>3, <1>4, <1>5, <1>6, <1>7, <1>8, <1>9, <1>10, Writes

(* Receipts stay complete.                                                 *)
LEMMA ReceiptsStep ==
  ASSUME TypeInv, TypeInv', TreeInv, Kinds
  PROVE  Receipts'
<1>1. ASSUME NEW n \in Nodes, NEW w \in Workers, <<n, w>> \in live'
      PROVE  w \in Named(n)'
  <2>1. CASE <<n, w>> \in live
    <3>1. w \in Named(n)
      BY <2>1 DEF TreeInv, Receipts, Named
    <3> QED BY <1>1, <3>1, NamedStays
  <2>2. CASE w = mem'.chain[n].handle
    BY <2>2 DEF Named
  <2> QED BY <1>1, <2>1, <2>2, LiveDo
<1>2. ASSUME NEW n \in Nodes, mem'.op[n].cleaned
      PROVE  Landed(n)' /\ \A w \in Workers : <<n, w>> \notin live'
  <2>1. Landed(n) /\ \A w \in Workers : <<n, w>> \notin live
    <3>1. CASE mem.op[n].cleaned
      BY <3>1 DEF TreeInv, Receipts
    <3>2. CASE FinishCleanup(n)
      <4>1. Landed(n) /\ stage \in {"clean", "visit"} /\ task.step # "finish" /\ Retired(n)
        BY <3>2 DEF FinishCleanup, Cleanable
      <4>2. mem.chain[n].workers = {} /\ mem.chain[n].handle = 0
        BY <4>1 DEF TreeInv, Receipts, Chained
      <4>3. ASSUME NEW w \in Workers, <<n, w>> \in live PROVE FALSE
        <5>1. w \in mem.op[n].workers \cup mem.chain[n].workers \cup {mem.chain[n].handle}
          BY <4>3 DEF TreeInv, Receipts
        <5> QED BY <4>1, <4>2, <4>3, <5>1, World DEF Retired
      <4> QED BY <4>1, <4>3
    <3> QED BY <1>2, <3>1, <3>2, ReceiptsDo
  <2>2. ~StartChain(n) /\ ~ReplaceWorker(n)
    BY <2>1 DEF StartChain, ReplaceWorker, Walkable, Open
  <2> QED BY <2>1, <2>2, LandedStays, LiveDo
<1>3. ASSUME NEW n \in Nodes, mem'.chain[n].phase = "none"
      PROVE  mem'.chain[n].workers = {} /\ mem'.chain[n].handle = 0
  BY <1>3, UnchainedStep DEF Chained
<1>4. ASSUME stage' \in {"clean", "visit", "between"}, NEW n \in Nodes, Landed(n)', Chained(n)'
      PROVE  task'.step = "finish" /\ task'.call.node = n
  <2>1. CASE EndSweep
    BY <1>4, <2>1 DEF EndSweep, Swept, Chained, Landed, ledger
  <2>2. CASE stage \in {"clean", "visit", "between"}
    <3>1. CASE Landed(n)
      <4>1. ~StartChain(n)
        BY <3>1 DEF StartChain, Walkable, Open
      <4>2. Chained(n)
        BY <1>4, <4>1, ChainsDo
      <4>3. task.step = "finish" /\ task.call.node = n
        BY <2>2, <3>1, <4>2 DEF TreeInv, Receipts
      <4>4. task' # Idle
        <5>1. ASSUME task' = Idle PROVE FALSE
          <6>1. CASE Steady
            <7>1. task' # task
              BY <4>3, <5>1 DEF Idle
            <7>2. ASSUME NEW m \in Nodes,
                         \/ FileIssue(m) \/ RecordCollector(m) \/ ResumeIntegrate(m) \/ CloseInTracker(m)
                         \/ SaveClosed(m) \/ RemoveTree(m) \/ \E w \in Workers : RetireWorker(m, w)
                  PROVE  FALSE
              BY <7>1, <7>2 DEF FileIssue, RecordCollector, ResumeIntegrate, CloseInTracker, SaveClosed,
                                RemoveTree, RetireWorker, process
            <7>3. ASSUME NEW c \in Call, TakeLock(c) \/ ReplayLanded(c) \/ RecordRefused(c) \/ SendBack(c)
                  PROVE  FALSE
              BY <4>3, <7>3 DEF TakeLock, ReplayLanded, RecordRefused, SendBack, At, Idle
            <7>4. ~Crash
              BY <1>4 DEF Crash, Dies
            <7>5. ~(\/ Boot \/ Recovered \/ BeginClose \/ CloseFails \/ EndClose \/ EndSweep \/ EndClean
                    \/ EndVisit \/ TickFails \/ NextTick \/ Start \/ Flush \/ UNCHANGED vars)
              BY <7>1 DEF Boot, Recovered, BeginClose, CloseFails, EndClose, EndSweep, EndClean,
                          EndVisit, TickFails, NextTick, Start, Flush, vars, process, OnlyStage
            <7> QED BY <6>1, <7>2, <7>3, <7>4, <7>5 DEF Steady
          <6>2. ~BareFinish /\ ~Stop
            BY <1>4, <4>2, <4>3, BareFinishDoes DEF TreeInv, Stop, Dies
          <6>3. ASSUME NEW m \in Nodes,
                       \/ MakeTree(m) \/ StartChain(m) \/ ReplaceWorker(m) \/ Commit(m)
                       \/ ReportDone(m) \/ FinishCleanup(m)
                PROVE  FALSE
            BY <4>3, <5>1, <6>3 DEF MakeTree, StartChain, ReplaceWorker, Commit, ReportDone,
                                    FinishCleanup, process, Idle
          <6>4. ASSUME NEW m \in Nodes, Recording(m) PROVE FALSE
            BY <4>3, <5>1, <6>4, RecordingDoes DEF TreeInv, Idle
          <6>5. ASSUME NEW m \in Nodes, Receipting(m) PROVE FALSE
            <7>1. m = n /\ Receipt(m)
              BY <4>3, <5>1, <6>5, ReceiptingDoes DEF TreeInv, Idle
            <7> QED BY <1>4, <7>1 DEF Receipt, NoChain, Chained
          <6>6. ASSUME NEW c \in Call, Intend(c) \/ Prepare(c) \/ Merge(c) PROVE FALSE
            BY <4>3, <6>6 DEF Intend, Prepare, Merge, At
          <6> QED BY <6>1, <6>2, <6>3, <6>4, <6>5, <6>6 DEF Kinds
        <5> QED BY <5>1
      <4>5. \A c \in Call : TakeLock(c) => task = Idle
        BY DEF TakeLock
      <4>6. ASSUME NEW c \in Call, ReplayLanded(c) \/ Intend(c) \/ Prepare(c) \/ Merge(c)
            PROVE  FALSE
        BY <4>3, <4>6 DEF ReplayLanded, Intend, Prepare, Merge, At
      <4> QED BY <4>3, <4>4, <4>5, <4>6, TaskDo DEF Idle
    <3>2. CASE ~Landed(n)
      <4>1. PICK q \in Nodes : Recording(q) /\ Lands(q)
        BY <1>4, <3>2, LandedStays DEF Landed
      <4>2. q = n
        BY <1>4, <3>2, <4>1, Tree DEF Lands, Moves, Landed
      <4>3. ~RecoverLanding(n)
        BY <2>2 DEF RecoverLanding
      <4>4. task'.step = "finish" /\ task'.call.node = n
        BY <4>1, <4>2, <4>3 DEF Recording, ReplayReached, Record, Step
      <4> QED BY <4>4
    <3> QED BY <3>1, <3>2
  <2> QED BY <1>4, <2>1, <2>2, StageDo
<1> QED BY <1>1, <1>2, <1>3, <1>4 DEF Receipts, Named

(* Once the root has landed, nothing lands any more.                       *)
LEMMA RootIsLast ==
  ASSUME TypeInv, TreeInv, Landed(Root), NEW n \in Nodes
  PROVE  /\ ~Landed(n) => ~Reached(n)
         /\ Landed(n) => mem.landed[n] = Owner
<1>1. ASSUME NEW q \in Nodes, Active(q) PROVE FALSE
  BY <1>1, Tree DEF TreeInv, Exclusion, Quiet, Open, Active
<1>2. ASSUME ~Landed(n), Reached(n) PROVE FALSE
  BY <1>1, <1>2 DEF Active
<1>3. ASSUME Landed(n), mem.landed[n] # Owner PROVE FALSE
  <2>1. mem.landed[n] \in Nodes /\ ~Landed(mem.landed[n])
    BY <1>3, Parts DEF TreeInv, Entries, Landed, Dests
  <2> QED BY <1>1, <2>1 DEF Active, Holds
<1> QED BY <1>2, <1>3

(* What becomes due while closes are under way is among them.              *)
LEMMA DueStep ==
  ASSUME TypeInv, SafeInv, TreeInv, Kinds
  PROVE  Due'
<1> SUFFICES ASSUME closing' # {}
             PROVE  stage' = "close" /\ Pending' \subseteq closing'
  BY DEF Due
<1>1. CASE BeginClose
  BY <1>1 DEF BeginClose, Pending
<1>2. ASSUME closing # {}
      PROVE  stage = "close" /\ Pending \subseteq closing /\ mem'.landed = mem.landed
             /\ mem'.result = mem.result
  <2>1. stage = "close" /\ Pending \subseteq closing
    BY <1>2 DEF TreeInv, Due
  <2>2. closing \subseteq Nodes
    BY DEF TypeInv, TypeOK, ProcessOK
  <2>3. Landed(Root)
    BY <1>2, <2>2, Tree DEF SafeInv, AtTarget, Landed
  <2>4. \A n \in Nodes : ~Recording(n)
    BY <2>3, RootIsLast, RecordingDoes DEF TreeInv
  <2>5. \A n \in Nodes : ~ReportDone(n)
    BY <2>1 DEF ReportDone, Walkable
  <2>6. mem'.result = mem.result
    BY <2>4, <2>5, Writes DEF Calm, SameEntries, Stops, Begins, Replaces, Receipt, Intends, Prepares
  <2> QED BY <2>1, <2>4, <2>6, LandedStays
<1>3. ASSUME NEW n \in Nodes, SaveClosed(n), closing' = closing \ {n}, stage' = stage
      PROVE  stage' = "close" /\ Pending' \subseteq closing'
  <2>1. closing # {} /\ mem'.closedAt = mem.closedAt \cup {n}
    BY <1>3, Parts DEF SaveClosed, Saved, NextToClose, State
  <2> QED BY <1>2, <1>3, <2>1 DEF Pending
<1>4. CASE closing' = closing /\ (stage' = stage \/ stage # "close")
  <2>1. mem.closedAt \subseteq mem'.closedAt
    BY IssuesDo
  <2> QED BY <1>2, <1>4, <2>1 DEF Pending
<1> QED BY <1>1, <1>3, <1>4, StageDo

-----------------------------------------------------------------------------
(* The invariant holds in every reachable state.                           *)

(* It holds before anything is filed.                                      *)
LEMMA TreeInit ==
  ASSUME Init
  PROVE  TreeInv
<1>1. /\ mem = Empty /\ disk = Empty /\ calls = {} /\ task = Idle /\ task.step = "idle"
      /\ stage = "down" /\ live = {} /\ trees = {} /\ closing = {}
      /\ \A n \in Nodes : branch[n] = {}
      /\ \A d \in Dests : branch[d] = {}
      /\ \A n \in Nodes, w \in Workers : work[n][w] = {}
      /\ \A n \in Nodes : spawned[n] = 0
  BY Tree DEF Init, Idle
<1>2. /\ mem.closedAt = {} /\ mem.collectors = {} /\ disk.collectors = {}
      /\ \A n \in Nodes :
           /\ mem.landed[n] = NoDest /\ mem.resume[n] = {}
           /\ mem.chain[n] = NoChain /\ disk.chain[n] = NoChain
           /\ mem.op[n] = NoOperation
  BY <1>1 DEF Empty
<1>3. NoChain.phase = "none" /\ NoChain.handle = 0 /\ NoChain.workers = {}
  BY DEF NoChain
<1>4. NoOperation.at = "none" /\ NoOperation.cleaned = FALSE
  BY DEF NoOperation
<1>5. \A n \in Nodes : ~Landed(n) /\ ~Chained(n) /\ ~Reached(n) /\ ~Holds(n) /\ mem.landed[n] \notin Nodes
  BY <1>2, <1>3, <1>4, Tree DEF Landed, Chained, Reached, Holds
<1>6. \A c \in Call : ~Pends(c)
  BY <1>1 DEF Pends
<1>7. Agree /\ Exclusion /\ Chains /\ Progress
  BY <1>1, <1>5, <1>6 DEF Agree, Exclusion, Active, Chains, Progress
<1>8. Worked
  BY <1>1, <1>2, <1>3, <1>6 DEF Worked
<1>9. Contained /\ Collectors /\ OwnMerged /\ Due
  BY <1>1, <1>2, <1>5 DEF Contained, Collectors, OwnMerged, Due
<1>10. Sources
  BY <1>1, <1>2, Tree DEF Sources
<1>11. Entries /\ Receipts
  BY <1>1, <1>2, <1>3, <1>4, <1>5 DEF Entries, Receipts
<1> QED BY <1>7, <1>8, <1>9, <1>10, <1>11 DEF TreeInv

(* Every step keeps it.                                                    *)
LEMMA TreeStep ==
  ASSUME TypeInv, SafeInv, TreeInv, [Next]_vars
  PROVE  TreeInv'
<1>1. Kinds /\ TypeInv'
  BY StepKinds, TypeStep
<1>2. Agree' /\ Exclusion' /\ Chains' /\ Progress'
  BY <1>1, AgreeStep, ExclusionStep, ChainsStep, ProgressStep
<1>3. Worked' /\ Contained' /\ Collectors' /\ Sources'
  BY <1>1, WorkedStep, ContainedStep, CollectorsStep, SourcesStep
<1>4. OwnMerged' /\ Entries' /\ Receipts' /\ Due'
  BY <1>1, OwnMergedStep, EntriesStep, ReceiptsStep, DueStep
<1> QED BY <1>2, <1>3, <1>4 DEF TreeInv

(* Types, safety and the tree's invariant hold together.                   *)
LEMMA TreeInvariant == Spec => [](TypeInv /\ SafeInv /\ TreeInv)
<1>1. Init => TypeInv /\ TreeInv
  BY TypeInit, TreeInit
<1>2. TypeInv /\ SafeInv /\ TreeInv /\ [Next]_vars => TreeInv'
  BY TreeStep
<1> QED BY <1>1, <1>2, Invariants, PTL DEF Spec

-----------------------------------------------------------------------------
(* What the ledger says has landed is in the branch it names, after any    *)
(* crash, refused save, failed merge or stop (LedgerIsTrue).               *)
THEOREM LedgerTrue == Spec => []LedgerIsTrue
<1>1. TypeInv /\ SafeInv /\ TreeInv => LedgerIsTrue
  BY DEF TreeInv, Agree, Entries, Marks, Landed, LedgerIsTrue
<1> QED BY <1>1, TreeInvariant, PTL

(* The result saved with a landing is of code that landed                  *)
(* (RecordedResultLanded).                                                 *)
THEOREM ResultsLanded == Spec => []RecordedResultLanded
<1>1. TypeInv /\ SafeInv /\ TreeInv => RecordedResultLanded
  BY DEF TreeInv, Agree, Entries, Marks, Landed, RecordedResultLanded
<1> QED BY <1>1, TreeInvariant, PTL

(* An entry never stays behind in a collector whose node has landed        *)
(* (NoneStranded).                                                         *)
THEOREM NothingStranded == Spec => []NoneStranded
<1>1. TypeInv /\ SafeInv /\ TreeInv => NoneStranded
  BY DEF TreeInv, Entries, Landed, NoneStranded
<1> QED BY <1>1, TreeInvariant, PTL

(* A landing the state file calls cleaned up has no worker left            *)
(* (NoWorkerLeft).                                                         *)
THEOREM ReceiptsNameEveryWorker == Spec => []NoWorkerLeft
<1>1. TypeInv /\ SafeInv /\ TreeInv => NoWorkerLeft
  BY DEF TreeInv, Agree, Receipts, NoWorkerLeft
<1> QED BY <1>1, TreeInvariant, PTL

(* Where some commit of a node has merged, no other one does.              *)
LEMMA MergeStep ==
  ASSUME TypeInv, TreeInv, [Next]_vars, NEW n \in Nodes, Merged(n, branch) # {}
  PROVE  Merged(n, branch') \subseteq Merged(n, branch)
<1> SUFFICES ASSUME NEW k \in Reports, <<n, k>> \in branch'[Parent[n]], <<n, k>> \notin branch[Parent[n]]
             PROVE  FALSE
  BY DEF Merged
<1>1. Kinds /\ Parent[n] \in Dests
  BY StepKinds, Tree
<1>2. CASE Free(Parent[n])
  <2>1. PICK c \in Call : Merge(c) /\ c.node = n
    BY <1>1, <1>2, OnlyOwnMerge
  <2>2. ~Landed(n) /\ ~Reached(n)
    BY <2>1, MergeIs
  <2>3. Parent[n] = Owner \/ ~Landed(Parent[n])
    BY <1>1, <1>2 DEF Free, Dests
  <2>4. \A j \in Reports : <<n, j>> \notin branch[Parent[n]]
    BY <2>2, <2>3 DEF TreeInv, Sources
  <2> QED BY <2>4 DEF Merged
<1>3. CASE Parent[n] \in Nodes /\ Landed(Parent[n])
  <2>1. ~MakeTree(Parent[n])
    BY <1>3 DEF MakeTree, Walkable, Open
  <2>2. PICK c \in Call : Merge(c) /\ Parent[n] = Parent[c.node]
    BY <1>1, <2>1, BranchesGain
  <2>3. Free(Parent[c.node])
    BY <2>2, MergeIs
  <2> QED BY <1>3, <2>2, <2>3 DEF Free
<1> QED BY <1>2, <1>3 DEF Free

(* Code of a node enters its destination once: not again after a failed    *)
(* save, a crash, a second landReviewed call or a stop.                    *)
THEOREM MergesOnce == Spec => NeverMergedTwice
<1> DEFINE Once == \A n \in Nodes : Merged(n, branch) # {} =>
                     Merged(n, branch') \subseteq Merged(n, branch)
<1>1. TypeInv /\ SafeInv /\ TreeInv /\ [Next]_vars => Once
  BY MergeStep
<1>2. Spec => [][Once]_vars
  <2> HIDE DEF Once
  <2> QED BY <1>1, TreeInvariant, PTL DEF Spec
<1> QED BY <1>2 DEF NeverMergedTwice

-----------------------------------------------------------------------------
(* The protocol implements its contract: who lands has no landed ancestor  *)
(* and is filed, and who is closed is closed after the root landed and     *)
(* after its own landed children (LandingContract).                        *)

(* A recording is the contract's landing.                                  *)
LEMMA RecordingLands ==
  ASSUME TypeInv, TreeInv, Kinds, NEW q \in Nodes, Recording(q)
  PROVE  Contract!Land(q)
<1>1. Lands(q) /\ ~Landed(q) /\ Reached(q) /\ UNCHANGED <<filed, closed>>
  BY RecordingDoes DEF TreeInv
<1>2. q \in filed /\ \A a \in Above[q] : ~Landed(a)
  BY <1>1, AboveIsFree DEF Quiet, Open
<1>3. /\ \A n \in Nodes : disk.landed[n] = mem.landed[n]
      /\ \A n \in Nodes : disk'.landed[n] = mem'.landed[n]
  BY <1>1 DEF TreeInv, Agree, Lands
<1>4. \A n \in Nodes : Landed(n)' <=> Landed(n) \/ n = q
  <2>1. ASSUME NEW n \in Nodes PROVE mem'.landed[n] = IF n = q \/ Moves(n, q) THEN Parent[q] ELSE mem.landed[n]
    BY <1>1 DEF Lands
  <2>2. ASSUME NEW n \in Nodes, Moves(n, q) PROVE Landed(n)
    BY <2>2, Tree DEF Moves, Landed
  <2> QED BY <2>1, <2>2, Tree DEF Landed
<1> QED BY <1>1, <1>2, <1>3, <1>4, Tree DEF Contract!Land, Landed

(* A close in the tracker is the contract's.                               *)
LEMMA ClosingCloses ==
  ASSUME TypeInv, SafeInv, TreeInv, NEW n \in Nodes, CloseInTracker(n)
  PROVE  Contract!Close(n)
<1>1. n \in closing /\ n \notin closed /\ closed' = closed \cup {n} /\ UNCHANGED <<disk, filed>>
  BY DEF CloseInTracker, NextToClose, ledger
<1>2. Landed(Root) /\ Landed(n) /\ \A m \in Nodes : disk.landed[m] = mem.landed[m]
  BY <1>1, Tree DEF SafeInv, AtTarget, TreeInv, Agree, Landed
<1>3. ASSUME NEW m \in Nodes, Landed(m), m \notin closed
      PROVE  Parent[m] # n
  <2>1. mem.landed[m] = Owner /\ mem.result[m] # 0 /\ m \notin mem.closedAt
    BY <1>2, <1>3, RootIsLast DEF TreeInv, Entries
  <2>2. m \in closing
    BY <1>1, <2>1 DEF TreeInv, Due, Pending
  <2>3. m # n => Parent[m] # n
    BY <2>2 DEF CloseInTracker, NextToClose
  <2> QED BY <2>3, Tree
<1> QED BY <1>1, <1>2, <1>3, Tree DEF Contract!Close, Landed

(* Every other step files an issue or is invisible to the contract.        *)
LEMMA OthersStutter ==
  ASSUME TypeInv, TreeInv, Kinds, \A n \in Nodes : ~Recording(n) /\ ~CloseInTracker(n) /\ ~FileIssue(n)
  PROVE  UNCHANGED <<filed, closed>> /\ \A n \in Nodes : disk'.landed[n] = disk.landed[n]
<1>1. disk'.landed = disk.landed
  <2>1. mem'.landed = mem.landed
    BY LandedStays
  <2> QED BY <2>1, AgreeStep DEF TreeInv, Agree
<1>2. UNCHANGED <<filed, closed>>
  <2>1. CASE Steady
    BY <2>1 DEF Steady, RecordCollector, ResumeIntegrate, SaveClosed,
                RemoveTree, RetireWorker, TakeLock, ReplayLanded, RecordRefused, SendBack, issues,
                Boot, Recovered, BeginClose, CloseFails, EndClose, EndSweep, EndClean,
                EndVisit, TickFails, NextTick, Start, Flush, Crash, vars
  <2>2. CASE BareFinish \/ Stop
    BY <2>2 DEF BareFinish, Finish, Stop, issues
  <2>3. ASSUME NEW n \in Nodes,
               \/ MakeTree(n) \/ StartChain(n) \/ ReplaceWorker(n) \/ Commit(n) \/ ReportDone(n)
               \/ FinishCleanup(n) \/ Receipting(n)
        PROVE  UNCHANGED <<filed, closed>>
    BY <2>3, ReceiptingDoes DEF MakeTree, StartChain, ReplaceWorker, Commit, ReportDone,
                                FinishCleanup, issues, TreeInv
  <2>4. ASSUME NEW c \in Call, Intend(c) \/ Prepare(c) \/ Merge(c)
        PROVE  UNCHANGED <<filed, closed>>
    BY <2>4 DEF Intend, Prepare, Merge, issues
  <2> QED BY <2>1, <2>2, <2>3, <2>4 DEF Kinds
<1> QED BY <1>1, <1>2

(* Filing changes neither the ledger nor what is closed.                   *)
LEMMA FilingFiles ==
  ASSUME NEW n \in Nodes, FileIssue(n)
  PROVE  Contract!File(n)
BY DEF FileIssue, ledger, Contract!File

(* The protocol implements LandingContract: what counts as landed is what  *)
(* the state file says, as done what the tracker says.                     *)
THEOREM LandingImplementsContract == Spec => ImplementsContract
<1> DEFINE landed == {n \in Nodes : disk.landed[n] # NoDest}
<1>1. Init => Contract!Init
  BY DEF Init, Empty, Contract!Init
<1>2. TypeInv /\ SafeInv /\ TreeInv /\ [Next]_vars => [Contract!Next]_<<filed, landed, closed>>
  <2> SUFFICES ASSUME TypeInv, SafeInv, TreeInv, [Next]_vars
               PROVE  Contract!Next \/ UNCHANGED <<filed, landed, closed>>
    OBVIOUS
  <2>1. Kinds
    BY StepKinds
  <2>2. ASSUME NEW n \in Nodes, Recording(n) \/ CloseInTracker(n) \/ FileIssue(n)
        PROVE  Contract!Next
    BY <2>1, <2>2, RecordingLands, ClosingCloses, FilingFiles DEF Contract!Next
  <2>3. CASE \A n \in Nodes : ~Recording(n) /\ ~CloseInTracker(n) /\ ~FileIssue(n)
    BY <2>1, <2>3, OthersStutter
  <2> QED BY <2>2, <2>3
<1>3. Spec => Contract!Init /\ [][Contract!Next]_<<filed, landed, closed>>
  <2> HIDE DEF landed
  <2> QED BY <1>1, <1>2, TreeInvariant, PTL DEF Spec
<1> QED BY <1>3, PTL DEF ImplementsContract, Contract!Spec
=============================================================================
