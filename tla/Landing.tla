------------------------------ MODULE Landing ------------------------------
(***************************************************************************)
(* Landing reviewed work up an execution tree, as one reconciler process   *)
(* does it: lib/reconcile/completion.ts and the parts of                   *)
(* lib/reconcile/reconcile.ts that call it (land, integrateReview,         *)
(* ensureCollector, cleanupLandings and the steps of tick around them),    *)
(* for land mode "local".                                                  *)
(*                                                                         *)
(* A node's worker lands in its parent's collector branch (the root's in   *)
(* the owner's checkout).  The run's state is held in memory and written   *)
(* whole by every save: mem and disk.  Git, the tracker and the bb threads *)
(* are the world: branch, work, trees, closed, live.                       *)
(*                                                                         *)
(* A commit is <<n, k>>: what node n reported done the k-th time.  A       *)
(* branch is the set of commits it contains, so "is an ancestor of" is     *)
(* membership and a rebase or merge is a union.                            *)
(***************************************************************************)
EXTENDS Naturals, FiniteSets

CONSTANTS
  Nodes,        \* the issues of the subtree
  Root,         \* the dispatched issue
  Owner,        \* the owner's checkout, the completion target
  NoDest,       \* "not in the landing ledger"
  NoCall,       \* no landReviewed call holds the integrate lock
  Parent,       \* part-of: where a node's chain lands
  Above,        \* a node's ancestors in Nodes
  MaxReports,   \* bound: done reports of one node
  MaxWorkers,   \* bound: workers launched for one node
  MaxFaults,    \* bound: failed gates, merges, saves, closes and retirements
  MaxCrashes,   \* bound: process deaths and stops
  MaxOverlaps   \* bound: ticks that fail while a sibling's landing goes on

Dests   == Nodes \cup {Owner}
Reports == 1..MaxReports
Workers == 1..MaxWorkers
Commits == Nodes \X Reports

ASSUME TreeAssumption ==
  /\ Root \in Nodes
  /\ Owner \notin Nodes
  /\ NoDest \notin Dests
  /\ Parent \in [Nodes -> Dests]
  /\ \A n \in Nodes : Parent[n] = Owner <=> n = Root
  /\ Above \in [Nodes -> SUBSET Nodes]
  /\ Above[Root] = {}
  /\ \A n \in Nodes \ {Root} : Above[n] = {Parent[n]} \cup Above[Parent[n]] /\ Root \in Above[n]
  /\ \A n \in Nodes : n \notin Above[n]
  /\ \A n \in Nodes : \A a \in Above[n] :
       \E k \in {n} \cup Above[n] : Parent[k] = a
ASSUME BoundAssumption ==
  /\ MaxReports \in Nat \ {0} /\ MaxWorkers \in Nat \ {0}
  /\ MaxFaults \in Nat /\ MaxCrashes \in Nat /\ MaxOverlaps \in Nat

VARIABLES
  mem,      \* the process's State
  disk,     \* the state file
  stage,    \* where the tick is; "down" when no process runs
  walked,   \* nodes this tick's walk has sent to landReviewed
  calls,    \* landReviewed calls waiting for the integrate lock
  task,     \* the call holding it, and how far it is
  sparse,   \* sparseCollectors: collectors this process has checked
  closing,  \* tracker closes this closeAtTarget still has to make
  branch,   \* what each destination branch contains
  work,     \* what each worker's branch contains
  tip,      \* how often each node has reported done
  spawned,  \* how many workers each node has had
  live,     \* worker threads that are not archived
  trees,    \* collector worktrees on disk
  filed,    \* issues that exist in the tracker
  closed,   \* issues the tracker has closed
  faults, crashes, overlaps

ledger  == <<mem, disk>>
process == <<stage, walked, calls, task, sparse, closing>>
git     == <<branch, work, tip, trees>>
threads == <<spawned, live>>
issues  == <<filed, closed>>
bounds  == <<faults, crashes, overlaps>>
vars    == <<ledger, process, git, threads, issues, bounds>>

-----------------------------------------------------------------------------
(* The persisted state.                                                    *)

Chain == [phase: {"none", "work", "integrate"}, handle: 0..MaxWorkers,
          workers: SUBSET Workers, held: BOOLEAN]
Operation == [at: {"none", "intent", "prepared", "landed"},
              result: 0..MaxReports, head: 0..MaxReports,
              carried: SUBSET Nodes, workers: SUBSET Workers,
              collector: BOOLEAN, cleaned: BOOLEAN]
State == [landed: [Nodes -> Dests \cup {NoDest}], result: [Nodes -> 0..MaxReports],
          closedAt: SUBSET Nodes, op: [Nodes -> Operation],
          chain: [Nodes -> Chain], collectors: SUBSET Nodes,
          resume: [Nodes -> SUBSET Commits]]
Call == [node: Nodes, result: Reports, worker: Workers, round: 0..MaxOverlaps]

NoChain == [phase |-> "none", handle |-> 0, workers |-> {}, held |-> FALSE]
NoOperation == [at |-> "none", result |-> 0, head |-> 0, carried |-> {},
                workers |-> {}, collector |-> FALSE, cleaned |-> FALSE]
Idle == [call |-> NoCall, step |-> "idle"]

Empty == [landed |-> [n \in Nodes |-> NoDest], result |-> [n \in Nodes |-> 0],
          closedAt |-> {}, op |-> [n \in Nodes |-> NoOperation],
          chain |-> [n \in Nodes |-> NoChain], collectors |-> {},
          resume |-> [n \in Nodes |-> {}]]

Landed(n) == mem.landed[n] # NoDest
Open(n)   == n \in filed /\ ~Landed(n)
OpenKids(n) == {m \in Nodes : Parent[m] = n /\ Open(m)}

(* The walk descends through open nodes that have no chain of their own.   *)
Walkable(n) ==
  /\ stage = "visit"
  /\ Open(n)
  /\ \A a \in Above[n] : Open(a) /\ mem.chain[a].phase = "none"

(* The head of a worker's branch: its node's latest report it contains.    *)
HeadOf(n, w) ==
  LET own  == {k \in Reports : <<n, k>> \in work[n][w]}
      last == {k \in own : \A j \in own : j <= k}
  IN  IF last = {} THEN 0 ELSE CHOOSE k \in last : TRUE

\* Mutated form of Reached: only an operation already recorded counts.
ReachedRecorded(n) ==
  /\ mem.op[n].at = "landed"
  /\ <<n, mem.op[n].head>> \in branch[Parent[n]]

(* Exact prepared code ancestry, never the issue's stage.                  *)
Reached(n) ==
  /\ mem.op[n].at \in {"prepared", "landed"}
  /\ <<n, mem.op[n].head>> \in branch[Parent[n]]

\* Mutated forms of Recorded: the carried entries stay behind; the node's
\* latest result is kept instead of the operation's.
RecordedAlone(s, n) ==
  [s EXCEPT !.landed[n] = Parent[n], !.result[n] = s.op[n].result, !.op[n].at = "landed"]
RecordedLatest(s, n) ==
  LET op == s.op[n]
      moves(m) == m \in op.carried /\ s.landed[m] = n /\ m \notin s.closedAt
  IN  [s EXCEPT
        !.landed = [m \in Nodes |-> IF m = n \/ moves(m) THEN Parent[n] ELSE @[m]],
        !.op[n].at = "landed"]

(* recordLanding: the ledger entry, the carried descendants and the        *)
(* reviewed result move together.                                          *)
Recorded(s, n) ==
  LET op == s.op[n]
      moves(m) == m \in op.carried /\ s.landed[m] = n /\ m \notin s.closedAt
  IN  [s EXCEPT
        !.landed = [m \in Nodes |-> IF m = n \/ moves(m) THEN Parent[n] ELSE @[m]],
        !.result[n] = op.result,
        !.op[n].at = "landed"]

\* Mutated form of Receipted: the receipt keeps the workers of its intent.
ReceiptedAsWas(s, n) == [s EXCEPT !.chain[n] = NoChain]

(* receiptWorkers, then delete s.chains[slug].                             *)
Receipted(s, n) ==
  LET c == s.chain[n]
  IN  [s EXCEPT
        !.op[n].workers = @ \cup c.workers \cup ({c.handle} \ {0}),
        !.chain[n] = NoChain]

(* A save writes the whole state; persist puts the old one back when the   *)
(* write is refused.                                                       *)
Saved(s)    == mem' = s /\ disk' = s
MayFail     == faults < MaxFaults
Fault       == MayFail /\ faults' = faults + 1 /\ UNCHANGED <<crashes, overlaps>>
NoFault     == UNCHANGED bounds

-----------------------------------------------------------------------------
(* The walk: collectors, chains and their workers.                         *)

FileIssue(n) ==
  /\ n \notin filed
  /\ filed' = filed \cup {n}
  /\ UNCHANGED <<ledger, process, git, threads, closed, bounds>>

(* The destination a node's own branch starts from has to exist.           *)
HasDestination(n) == Parent[n] = Owner \/ Parent[n] \in mem.collectors

(* ensureCollector makes the worktree, then saves its record; a walk that  *)
(* finds the worktree of a record it never saved adopts it.                *)
MakeTree(n) ==
  /\ Walkable(n) /\ HasDestination(n)
  /\ OpenKids(n) # {} /\ mem.chain[n].phase = "none"
  /\ n \notin mem.collectors /\ n \notin trees
  /\ trees' = trees \cup {n}
  /\ branch' = [branch EXCEPT ![n] = branch[Parent[n]]]
  /\ UNCHANGED <<ledger, process, work, tip, threads, issues, bounds>>

RecordCollector(n) ==
  /\ Walkable(n) /\ n \in trees /\ n \notin mem.collectors
  /\ Saved([mem EXCEPT !.collectors = @ \cup {n}])
  /\ sparse' = sparse \cup {n}
  /\ UNCHANGED <<stage, walked, calls, task, closing, git, threads, issues, bounds>>

\* Mutated form of StartBase: a kept branch is resumed however old it is.
StartBaseKept(n) ==
  LET kept == mem.resume[n]
  IN  CASE kept # {} /\ ~(kept \subseteq branch[Parent[n]]) -> kept \cup branch[Parent[n]]
        [] n \in mem.collectors -> branch[n]
        [] OTHER -> branch[Parent[n]]

(* Where a new chain's first worker starts: the stopped run's branch when  *)
(* it holds work the destination lacks and everything the node's collector *)
(* has, else the collector (a join), else the destination.                 *)
StartBase(n) ==
  LET kept   == mem.resume[n]
      usable == kept # {} /\ ~(kept \subseteq branch[Parent[n]])
      stale  == n \in mem.collectors /\ ~(branch[n] \subseteq kept)
  IN  CASE usable /\ ~stale       -> kept \cup branch[Parent[n]]
        [] n \in mem.collectors   -> branch[n]
        [] OTHER                  -> branch[Parent[n]]

Spawn(n, base) ==
  /\ spawned[n] < MaxWorkers
  /\ spawned' = [spawned EXCEPT ![n] = @ + 1]
  /\ work' = [work EXCEPT ![n][spawned[n] + 1] = base]

StartChain(n) ==
  /\ Walkable(n) /\ HasDestination(n)
  /\ OpenKids(n) = {} /\ mem.chain[n].phase = "none"
  /\ n \in trees => n \in mem.collectors
  /\ Spawn(n, StartBase(n))
  /\ live' = live \cup {<<n, spawned'[n]>>}
  /\ Saved([mem EXCEPT !.chain[n] = [NoChain EXCEPT !.phase = "work", !.handle = spawned'[n]],
                       !.resume[n] = {}])
  /\ UNCHANGED <<process, branch, tip, trees, issues, bounds>>

(* startPhase over a previous worker: its successor starts from its head   *)
(* with the destination merged in; a worker that cannot be retired stays   *)
(* in the chain's receipt.                                                 *)
ReplaceWorker(n) ==
  LET c == mem.chain[n]
  IN  /\ Walkable(n) /\ c.phase = "work" /\ ~c.held
      /\ Spawn(n, work[n][c.handle] \cup branch[Parent[n]])
      /\ \/ /\ live' = (live \ {<<n, c.handle>>}) \cup {<<n, spawned'[n]>>}
            /\ Saved([mem EXCEPT !.chain[n].handle = spawned'[n]])
            /\ NoFault
         \/ /\ live' = live \cup {<<n, spawned'[n]>>}
            /\ Saved([mem EXCEPT !.chain[n].handle = spawned'[n],
                                 !.chain[n].workers = @ \cup {c.handle}])
            /\ Fault
      /\ UNCHANGED <<process, branch, tip, trees, issues>>

\* Mutated form of CallLand: called with the state of before the save.
CallLandStale(n, s) ==
  /\ n \notin walked
  /\ walked' = walked \cup {n}
  /\ calls' = calls \cup {[node |-> n, result |-> mem.result[n],
                           worker |-> s.chain[n].handle, round |-> overlaps]}

CallLand(n, s) ==
  /\ n \notin walked
  /\ walked' = walked \cup {n}
  /\ calls' = calls \cup {[node |-> n, result |-> s.result[n],
                           worker |-> s.chain[n].handle, round |-> overlaps]}

(* A worker commits before it reports, as one sent back to review does.    *)
Commit(n) ==
  LET c == mem.chain[n]
  IN  /\ c.phase = "work" /\ <<n, c.handle>> \in live
      /\ tip[n] < MaxReports /\ HeadOf(n, c.handle) = tip[n]
      /\ work' = [work EXCEPT ![n][c.handle] = @ \cup {<<n, tip[n] + 1>>}]
      /\ UNCHANGED <<ledger, process, branch, tip, trees, threads, issues, bounds>>

(* A review that holds: its result and the integrate phase are saved       *)
(* before landReviewed is called.                                          *)
ReportDone(n) ==
  LET c == mem.chain[n]
      s == [mem EXCEPT !.result[n] = tip[n] + 1, !.chain[n].phase = "integrate"]
  IN  /\ Walkable(n) /\ c.phase = "work" /\ ~c.held
      /\ tip[n] < MaxReports
      /\ tip' = [tip EXCEPT ![n] = @ + 1]
      /\ work' = [work EXCEPT ![n][c.handle] = @ \cup {<<n, tip[n] + 1>>}]
      /\ Saved(s)
      /\ CallLand(n, s)
      /\ UNCHANGED <<stage, task, sparse, closing, branch, trees, threads, issues, bounds>>

(* A chain already in integrate (a restart, a tick that failed) executes   *)
(* its saved transition.                                                   *)
ResumeIntegrate(n) ==
  /\ Walkable(n) /\ mem.chain[n].phase = "integrate" /\ ~mem.chain[n].held
  /\ CallLand(n, mem)
  /\ UNCHANGED <<ledger, stage, task, sparse, closing, git, threads, issues, bounds>>

-----------------------------------------------------------------------------
(* landReviewed, under the integrate lock.                                 *)

TakeLock(c) ==
  /\ c \in calls /\ task = Idle
  /\ calls' = calls \ {c}
  /\ task' = [call |-> c, step |-> "begin"]
  /\ UNCHANGED <<ledger, stage, walked, sparse, closing, git, threads, issues, bounds>>

At(c, step) == task = [call |-> c, step |-> step]
Step(c, step) == task' = [call |-> c, step |-> step]
OnlyTask == UNCHANGED <<stage, walked, calls, sparse, closing>>

ReplayLanded(c) ==
  /\ At(c, "begin") /\ Landed(c.node)
  /\ Step(c, "finish")
  /\ OnlyTask /\ UNCHANGED <<ledger, git, threads, issues, bounds>>

(* A merge whose ledger save never happened is recorded, never repeated.   *)
ReplayReached(c) ==
  /\ At(c, "begin") /\ ~Landed(c.node) /\ Reached(c.node)
  /\ Saved(Recorded(mem, c.node))
  /\ Step(c, "finish")
  /\ OnlyTask /\ UNCHANGED <<git, threads, issues, bounds>>

(* The write-ahead intent: a new operation without a prepared head.        *)
Intend(c) ==
  LET n == c.node
      carried == {m \in Nodes \ {n} : mem.landed[m] = n /\ m \notin mem.closedAt}
  IN  /\ At(c, "begin") /\ ~Landed(n) /\ ~Reached(n)
      /\ Saved([mem EXCEPT !.op[n] =
                  [at |-> "intent", result |-> c.result, head |-> 0, carried |-> carried,
                   workers |-> mem.op[n].workers \cup mem.chain[n].workers \cup {c.worker},
                   collector |-> n \in mem.collectors, cleaned |-> FALSE]])
      /\ Step(c, "gates")
      /\ OnlyTask /\ UNCHANGED <<git, threads, issues, bounds>>

(* Rebase, gates, retained tests; then the prepared head is saved.         *)
Prepare(c) ==
  LET n == c.node
  IN  /\ At(c, "gates")
      /\ work' = [work EXCEPT ![n][c.worker] = @ \cup branch[Parent[n]]]
      /\ Saved([mem EXCEPT !.op[n].at = "prepared", !.op[n].head = HeadOf(n, c.worker)])
      /\ Step(c, "merge")
      /\ OnlyTask /\ UNCHANGED <<branch, tip, trees, threads, issues, bounds>>

Merge(c) ==
  LET n == c.node
  IN  /\ At(c, "merge")
      /\ branch' = [branch EXCEPT ![Parent[n]] = @ \cup work[n][c.worker]]
      /\ Step(c, "record")
      /\ OnlyTask /\ UNCHANGED <<ledger, work, tip, trees, threads, issues, bounds>>

Record(c) ==
  /\ At(c, "record")
  /\ Saved(Recorded(mem, c.node))
  /\ Step(c, "finish")
  /\ OnlyTask /\ UNCHANGED <<git, threads, issues, bounds>>

(* A refused save after the merge is thrown: an exception holds the chain  *)
(* (or the tick fails), and nothing in memory says it landed.              *)
RecordRefused(c) ==
  /\ At(c, "record") \/ (At(c, "begin") /\ ~Landed(c.node) /\ Reached(c.node))
  /\ mem' = IF mem.chain[c.node].phase = "none" THEN mem
            ELSE [mem EXCEPT !.chain[c.node].held = TRUE]
  /\ task' = Idle /\ Fault
  /\ OnlyTask /\ UNCHANGED <<disk, git, threads, issues>>

(* Every other failure (a conflict, a red gate, a refused save or merge,   *)
(* an index that cannot be aligned after the merge) sends the worker back  *)
(* to review; that is saved only after its message was sent.               *)
SendBack(c) ==
  /\ \/ At(c, "begin") /\ ~Landed(c.node) /\ ~Reached(c.node)
     \/ At(c, "gates") \/ At(c, "merge") \/ At(c, "record")
  /\ mem' = IF mem.chain[c.node].phase = "none" THEN mem
            ELSE [mem EXCEPT !.chain[c.node].phase = "work"]
  /\ task' = Idle /\ Fault
  /\ OnlyTask /\ UNCHANGED <<disk, git, threads, issues>>

(* land's success path; the lock is gone, but nothing else runs before it. *)
Finish(c) ==
  /\ At(c, "finish")
  /\ Saved(IF mem.chain[c.node].phase = "none" THEN mem ELSE Receipted(mem, c.node))
  /\ task' = Idle
  /\ OnlyTask /\ UNCHANGED <<git, threads, issues, bounds>>

Flush ==
  /\ stage # "down" /\ mem # disk
  /\ disk' = mem
  /\ UNCHANGED <<mem, process, git, threads, issues, bounds>>

-----------------------------------------------------------------------------
(* The steps of a tick, in its order: boot (ensureCollector for each       *)
(* recorded collector), recover, close, sweep, clean, visit.               *)

OnlyStage == UNCHANGED <<walked, calls, task, sparse, closing>>

(* Throws, and so never gets further, when a recorded worktree is missing. *)
Boot ==
  /\ stage = "boot"
  /\ (mem.collectors \ sparse) \subseteq trees
  /\ sparse' = sparse \cup mem.collectors
  /\ stage' = "recover"
  /\ UNCHANGED <<ledger, walked, calls, task, closing, git, threads, issues, bounds>>

Unrecorded == {n \in Nodes : ~Landed(n) /\ Reached(n)}

RecoverLanding(n) ==
  /\ stage = "recover" /\ task = Idle /\ n \in Unrecorded
  /\ Saved(Recorded(mem, n))
  /\ UNCHANGED <<process, git, threads, issues, bounds>>

Recovered ==
  /\ stage = "recover" /\ task = Idle /\ Unrecorded = {}
  /\ stage' = "close"
  /\ OnlyStage /\ UNCHANGED <<ledger, git, threads, issues, bounds>>

\* Mutated form of Pending: an entry in any collector is closed.
PendingAnywhere ==
  {m \in Nodes : mem.landed[m] # NoDest /\ mem.result[m] # 0 /\ m \notin mem.closedAt}

(* closeAtTarget: entries at the target with a result and no close.        *)
Pending == {m \in Nodes : mem.landed[m] = Owner /\ mem.result[m] # 0 /\ m \notin mem.closedAt}

BeginClose ==
  /\ stage = "close" /\ closing = {} /\ Pending # {}
  /\ closing' = Pending
  /\ disk' = mem
  /\ UNCHANGED <<mem, stage, walked, calls, task, sparse, git, threads, issues, bounds>>

(* Child first: by the result's parent, or as carried by the operation.    *)
NextToClose(n) ==
  /\ stage = "close" /\ n \in closing
  /\ \A m \in closing \ {n} : Parent[m] # n /\ m \notin mem.op[n].carried

CloseInTracker(n) ==
  /\ NextToClose(n) /\ n \notin closed
  /\ closed' = closed \cup {n}
  /\ UNCHANGED <<ledger, process, git, threads, filed, bounds>>

SaveClosed(n) ==
  /\ NextToClose(n) /\ n \in closed
  /\ closing' = closing \ {n}
  /\ Saved([mem EXCEPT !.closedAt = @ \cup {n}])
  /\ UNCHANGED <<stage, walked, calls, task, sparse, git, threads, issues, bounds>>

(* A close or its save that throws ends the tick; the next one retries.    *)
CloseFails ==
  /\ stage = "close" /\ closing # {}
  /\ stage' = "boot" /\ closing' = {} /\ Fault
  /\ UNCHANGED <<ledger, walked, calls, task, sparse, git, threads, issues>>

EndClose ==
  /\ stage = "close" /\ closing = {} /\ Pending = {}
  /\ stage' = "sweep"
  /\ OnlyStage /\ UNCHANGED <<ledger, git, threads, issues, bounds>>

(* Chains of landed nodes give their workers to the receipt and go.        *)
Swept == \A n \in Nodes : Landed(n) => mem.chain[n].phase = "none"

SweepChain(n) ==
  /\ stage = "sweep" /\ Landed(n) /\ mem.chain[n].phase # "none"
  /\ Saved(Receipted(mem, n))
  /\ UNCHANGED <<process, git, threads, issues, bounds>>

EndSweep ==
  /\ stage = "sweep" /\ Swept
  /\ stage' = "clean"
  /\ OnlyStage /\ UNCHANGED <<ledger, git, threads, issues, bounds>>

(* cleanupLandings, each tick and after each landing: retire the receipt's *)
(* workers, then remove the collector, then save that it is done.          *)
Cleanable(n) ==
  /\ stage \in {"clean", "visit"} /\ task.step # "finish"
  /\ Landed(n) /\ mem.op[n].at = "landed" /\ ~mem.op[n].cleaned

Retired(n) == \A w \in mem.op[n].workers : <<n, w>> \notin live

RetireWorker(n, w) ==
  /\ Cleanable(n) /\ w \in mem.op[n].workers /\ <<n, w>> \in live
  /\ live' = live \ {<<n, w>>}
  /\ UNCHANGED <<ledger, process, git, spawned, issues, bounds>>

RemoveTree(n) ==
  /\ Cleanable(n) /\ Retired(n) /\ mem.op[n].collector /\ n \in trees
  /\ trees' = trees \ {n}
  /\ UNCHANGED <<ledger, process, branch, work, tip, threads, issues, bounds>>

FinishCleanup(n) ==
  LET dropped == IF mem.op[n].collector THEN {n} ELSE {}
      s == [mem EXCEPT !.collectors = @ \ dropped]
  IN  /\ Cleanable(n) /\ Retired(n) /\ dropped \cap trees = {}
      /\ branch' = [d \in Dests |-> IF d \in dropped THEN {} ELSE branch[d]]
      /\ \/ Saved([s EXCEPT !.op[n].cleaned = TRUE]) /\ NoFault
         \/ mem' = s /\ disk' = disk /\ Fault
      /\ UNCHANGED <<process, work, tip, trees, threads, issues>>

EndClean ==
  /\ stage = "clean"
  /\ stage' = "visit"
  /\ IF \E n \in Nodes : Cleanable(n) THEN Fault ELSE NoFault
  /\ OnlyStage /\ UNCHANGED <<ledger, git, threads, issues>>

(* The walk awaits its own visits, so a tick ends when none of its         *)
(* landings is left; one visit that throws ends it at once, and the        *)
(* others go on.                                                           *)
EndVisit ==
  /\ stage = "visit"
  /\ \A c \in calls : c.round < overlaps
  /\ task # Idle => task.call.round < overlaps
  /\ stage' = "between" /\ walked' = {}
  /\ UNCHANGED <<ledger, calls, task, sparse, closing, git, threads, issues, bounds>>

TickFails ==
  /\ stage = "visit" /\ (calls # {} \/ task # Idle)
  /\ overlaps < MaxOverlaps /\ overlaps' = overlaps + 1
  /\ stage' = "boot" /\ walked' = {}
  /\ UNCHANGED <<ledger, calls, task, sparse, closing, git, threads, issues, faults, crashes>>

NextTick ==
  /\ stage = "between" /\ stage' = "boot"
  /\ OnlyStage /\ UNCHANGED <<ledger, git, threads, issues, bounds>>

-----------------------------------------------------------------------------
(* The process dies, is started again, or its run is stopped.              *)

Dies ==
  /\ stage' = "down" /\ walked' = {} /\ calls' = {} /\ task' = Idle
  /\ sparse' = {} /\ closing' = {}
  /\ crashes < MaxCrashes /\ crashes' = crashes + 1
  /\ UNCHANGED <<faults, overlaps>>

Crash ==
  /\ stage # "down" /\ Dies
  /\ mem' = disk
  /\ UNCHANGED <<disk, git, threads, issues>>

Start ==
  /\ stage = "down" /\ stage' = "boot"
  /\ OnlyStage /\ UNCHANGED <<ledger, git, threads, issues, bounds>>

(* stop kills the process, retires every worker of the run and keeps, per  *)
(* chain, the branch whose commits its destination lacks (resumeRecords).  *)
Resumed(s) ==
  [n \in Nodes |->
    LET c == s.chain[n]
    IN  IF c.handle # 0 /\ ~(work[n][c.handle] \subseteq branch[Parent[n]])
        THEN work[n][c.handle] ELSE s.resume[n]]

Stopped(s) ==
  [s EXCEPT !.resume = Resumed(s), !.chain = [n \in Nodes |-> NoChain]]

Stop ==
  /\ stage # "down" /\ Dies
  /\ live' = {}
  /\ Saved(Stopped(disk))
  /\ UNCHANGED <<git, spawned, issues>>

-----------------------------------------------------------------------------
Init ==
  /\ mem = Empty /\ disk = Empty
  /\ stage = "down" /\ walked = {} /\ calls = {} /\ task = Idle
  /\ sparse = {} /\ closing = {}
  /\ branch = [d \in Dests |-> {}]
  /\ work = [n \in Nodes |-> [w \in Workers |-> {}]]
  /\ tip = [n \in Nodes |-> 0]
  /\ spawned = [n \in Nodes |-> 0]
  /\ live = {} /\ trees = {} /\ filed = {Root} /\ closed = {}
  /\ faults = 0 /\ crashes = 0 /\ overlaps = 0

Walk(n) ==
  \/ MakeTree(n) \/ RecordCollector(n) \/ StartChain(n)
  \/ ReplaceWorker(n) \/ Commit(n) \/ ReportDone(n) \/ ResumeIntegrate(n)

Land(c) ==
  \/ TakeLock(c) \/ ReplayLanded(c) \/ ReplayReached(c) \/ Intend(c)
  \/ Prepare(c) \/ Merge(c) \/ Record(c) \/ RecordRefused(c) \/ SendBack(c)
  \/ Finish(c)

Tick ==
  \/ Boot \/ Recovered \/ BeginClose \/ CloseFails \/ EndClose
  \/ EndSweep \/ EndClean \/ EndVisit \/ TickFails \/ NextTick
  \/ \E n \in Nodes :
       \/ RecoverLanding(n) \/ CloseInTracker(n) \/ SaveClosed(n)
       \/ SweepChain(n) \/ RemoveTree(n) \/ FinishCleanup(n)
       \/ \E w \in Workers : RetireWorker(n, w)

Next ==
  \/ \E n \in Nodes : FileIssue(n) \/ Walk(n)
  \/ \E c \in Call : Land(c)
  \/ Tick \/ Flush \/ Crash \/ Start \/ Stop

Spec == Init /\ [][Next]_vars

(* The main loop ticks for ever, each step of a tick and of a landing that *)
(* can succeed is eventually taken, and a dead process is started again    *)
(* (its supervisor's session does).  Workers and the walk owe nothing.     *)
LandProgress ==
  \E c \in Call :
    \/ TakeLock(c) \/ ReplayLanded(c) \/ ReplayReached(c) \/ Intend(c)
    \/ Prepare(c) \/ Merge(c) \/ Record(c) \/ Finish(c)
TickProgress ==
  \/ Start \/ Boot \/ Recovered \/ BeginClose \/ EndClose \/ EndSweep
  \/ EndVisit \/ NextTick
  \/ \E n \in Nodes :
       RecoverLanding(n) \/ CloseInTracker(n) \/ SaveClosed(n) \/ SweepChain(n)
CleanProgress ==
  \E n \in Nodes :
    \/ RemoveTree(n) \/ FinishCleanup(n)
    \/ \E w \in Workers : RetireWorker(n, w)
LeaveClean == EndClean /\ \A n \in Nodes : ~Cleanable(n)

FairSpec ==
  /\ Spec
  /\ WF_vars(LandProgress) /\ WF_vars(TickProgress)
  /\ WF_vars(CleanProgress) /\ WF_vars(LeaveClean)

-----------------------------------------------------------------------------
(* Properties.                                                             *)

(* Every variable keeps its type; a call in particular always has a        *)
(* reviewed result and a worker to land.                                   *)
ProcessOK ==
  /\ stage \in {"down", "boot", "recover", "close", "sweep", "clean", "visit", "between"}
  /\ walked \subseteq Nodes /\ sparse \subseteq Nodes /\ closing \subseteq Nodes
  /\ calls \subseteq Call
  /\ task \in [call: Call \cup {NoCall},
               step: {"idle", "begin", "gates", "merge", "record", "finish"}]
WorldOK ==
  /\ branch \in [Dests -> SUBSET Commits]
  /\ work \in [Nodes -> [Workers -> SUBSET Commits]]
  /\ tip \in [Nodes -> 0..MaxReports]
  /\ spawned \in [Nodes -> 0..MaxWorkers]
  /\ live \subseteq Nodes \X Workers
  /\ trees \subseteq Nodes /\ filed \subseteq Nodes /\ closed \subseteq Nodes
  /\ faults \in Nat /\ crashes \in Nat /\ overlaps \in 0..MaxOverlaps
TypeOK == mem \in State /\ disk \in State /\ ProcessOK /\ WorldOK

(* What the ledger on disk calls landed is in the branch it names, after   *)
(* any crash, refused save or removed collector: landReviewed records only *)
(* after the merge, a carried entry only moves where its commits went, and *)
(* a resumed worker never leaves out what its collector gained meanwhile.  *)
LedgerIsTrue ==
  \A n \in Nodes : disk.landed[n] # NoDest =>
    <<n, disk.op[n].head>> \in branch[disk.landed[n]]

(* The result saved with a landing is of code that landed: recordLanding   *)
(* takes the operation's result, not what the chain reported since.        *)
RecordedResultLanded ==
  \A n \in Nodes : disk.landed[n] # NoDest =>
    disk.result[n] # 0 /\ <<n, disk.result[n]>> \in branch[disk.landed[n]]

(* An entry never stays in a collector whose node has itself landed: its   *)
(* close would never come due and the run could not finish.                *)
NoneStranded ==
  \A n, m \in Nodes : mem.landed[n] # NoDest /\ mem.landed[m] = n => m \in mem.closedAt

(* The tracker closes an issue only once the state file holds its reviewed  *)
(* result and says that it, and the root, landed in the completion target, *)
(* where LedgerIsTrue finds its commit (closeAtTarget's save before its     *)
(* first close, completion.ts:223).                                        *)
ClosedAreDurable ==
  \A n \in closed :
    disk.landed[n] = Owner /\ disk.landed[Root] = Owner /\ disk.result[n] # 0

(* When the state file says a landing is cleaned up, no worker its node    *)
(* ever had is still running: the receipt named all of them, those of      *)
(* replaced, failed and recovered attempts included.                       *)
NoWorkerLeft ==
  \A n \in Nodes, w \in Workers : disk.op[n].cleaned => <<n, w>> \notin live

(* Code of a node enters its destination once: not again after a failed    *)
(* save, a crash, a second landReviewed call or a stop.                    *)
Merged(n, b) == {k \in Reports : <<n, k>> \in b[Parent[n]]}
NeverMergedTwice ==
  [][\A n \in Nodes : Merged(n, branch) # {} =>
       Merged(n, branch') \subseteq Merged(n, branch)]_vars

(* The record of a collector whose worktree is gone: it makes every tick    *)
(* throw before recovery and cleanup.                                      *)
Severed == ~(disk.collectors \subseteq trees)

(* Once the root is in the target, every landed node is closed and cleaned *)
(* up ("A partial retirement/deletion is retried next tick, and raised to  *)
(* the owner once it keeps failing", lib/reconcile/reconcile.ts:982),      *)
(* unless the state stays severed.                                         *)
LandedIsFinished ==
  \/ <>[]Severed
  \/ \A n \in Nodes :
        disk.landed[Root] = Owner /\ disk.landed[n] # NoDest
          ~> n \in disk.closedAt /\ disk.op[n].cleaned

(* The protocol implements its contract: what counts as landed is what the *)
(* state file says, as done what the tracker says.                         *)
Contract == INSTANCE LandingContract WITH
  ledger <- {n \in Nodes : disk.landed[n] # NoDest},
  done   <- closed
ImplementsContract == Contract!Spec
=============================================================================
