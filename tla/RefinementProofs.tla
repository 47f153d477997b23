--------------------------- MODULE RefinementProofs -------------------------
(***************************************************************************)
(* What holds of the refinement of a node for any rows, any number of      *)
(* attempts and any bounds on faults: one writer at work, stubs the        *)
(* collector has are never given up, and rows are removed only when that   *)
(* is earned.  The inductive invariant relates the saved chain, the saved  *)
(* attempts, the threads and the operation under way.                      *)
(***************************************************************************)
EXTENDS Refinement, WellFoundedInduction, TLAPS

(* Task with its steps named: Refinement leaves the step a string.          *)
TaskRecord ==
  [op: {"none", "launch", "discard", "adopt", "accept"}, h: Maybe,
   step: {"idle", "intend", "begin", "name", "spawn", "receipt", "failed", "check", "stop",
          "clean", "prune", "pick", "write", "collect", "report", "validate", "land", "merge",
          "again"},
   rows: SUBSET Rows, row: Rows \cup {Node}, new: Maybe, adopt: BOOLEAN, caught: BOOLEAN,
   then: {"idle", "begin", "spawn", "failed", "hold", "drop"}]

(* A thread that may still act; one that is over; one in the middle of a    *)
(* turn.                                                                    *)
Alive(h) == writer[h] \in {"working", "idle"}
Gone(h)  == writer[h] \in {"stopped", "retired"}
Works(h) == writer[h] = "working"

(* Which steps, stages and continuations each operation has: a launch runs  *)
(* in the visit, recovery and the stop command continue with nothing, and   *)
(* only the visit catches.                                                  *)
TaskShape ==
  /\ task.op = "none" => task = Idle
  /\ stage \in {"down", "between"} => task = Idle
  /\ task.op = "launch" =>
       /\ stage = "visit"
       /\ task.step \in {"intend", "begin", "name", "spawn", "receipt", "failed"}
       /\ task.then \in {"idle", "begin", "spawn"} \/ task.step = "failed"
  /\ task.op \in {"discard", "adopt", "accept"} =>
       /\ task.h \in Handles /\ stage \in {"recover", "visit", "stop"}
       /\ (stage = "visit") <=> (task.then # "idle")
       /\ task.caught => task.then # "idle"
  /\ task.op = "discard" =>
       /\ task.step \in {"check", "stop", "clean", "prune", "pick", "write"}
       /\ task.then \in {"idle", "begin", "failed", "hold", "drop"}
  /\ task.op = "adopt" =>
       /\ task.step \in {"stop", "collect", "pick", "write"} /\ task.then \in {"idle", "spawn"}
  /\ task.op = "accept" =>
       /\ task.step \in {"report", "validate", "land", "merge", "again", "pick", "write"}
       /\ task.then \in {"idle", "drop"} /\ stage # "stop"

(* A launch is under way, in its own steps or in those of the attempt it    *)
(* replaces or gives up.                                                    *)
MidLaunch ==
  \/ task.op = "launch"
  \/ task.op \in {"discard", "adopt"} /\ task.then \in {"begin", "spawn", "failed"}

(* ... and has not spawned its thread yet.                                  *)
Early ==
  \/ task.op = "launch" /\ task.step \in {"intend", "begin", "name", "spawn"}
  \/ task.op \in {"discard", "adopt"} /\ task.then \in {"begin", "spawn"}

(* A launch works for the saved handle of a chain nobody holds, and the     *)
(* handle it replaces is stopped already.                                   *)
LaunchShape ==
  MidLaunch =>
    /\ chain.on /\ ~chain.held
    /\ task.new \in Handles /\ chain.launching = task.new /\ chain.handle # task.new
    /\ ~att[task.new].worker
    /\ chain.handle # 0 => Gone(chain.handle)

(* Before a launch spawns, no thread works and the attempt it replaces      *)
(* cannot start again: what lets it spawn.                                  *)
NobodyYet ==
  Early => /\ \A g \in Handles : ~Works(g)
           /\ chain.refinement \notin {0, task.new} => ~Alive(chain.refinement)

(* Which attempt a launch is about and what the attempt it replaces became. *)
Naming ==
  /\ task.op = "launch" /\ task.step \in {"spawn", "receipt", "failed"} => chain.refinement = task.new
  /\ task.op = "discard" /\ task.then = "failed" => chain.refinement = task.new /\ task.h = task.new
  /\ task.op = "launch" /\ task.step = "intend" => task.then = "idle"
  /\ task.op = "discard" /\ task.then = "begin" => task.h = chain.refinement /\ task.h # task.new
  /\ task.op = "launch" /\ task.step \in {"begin", "name"} /\ task.then = "begin" =>
       chain.refinement \notin {0, task.new} /\ att[chain.refinement].phase = "removed"
  /\ task.op = "adopt" /\ task.then = "spawn" =>
       /\ task.h = chain.refinement /\ task.h # task.new /\ att[task.h].successor = task.new
  /\ task.op = "launch" /\ task.step \in {"name", "spawn", "receipt", "failed"} => att[task.new].phase # "none"
  /\ task.op = "discard" /\ task.then = "failed" => att[task.new].phase # "none"

(* A first launch, whose failure holds the chain, has a fresh attempt with  *)
(* nothing at work when it fails.                                           *)
FirstLaunch ==
  MidLaunch /\ task.caught =>
    /\ task.op = "launch" /\ task.step \in {"intend", "begin"} => att[task.new].phase = "none"
    /\ task.op = "discard" /\ task.then = "begin" => att[task.new].phase = "none"
    /\ task.op = "launch" /\ task.step \in {"name", "spawn", "receipt"} => att[task.new].phase = "writing"
    /\ task.op = "discard" /\ task.then = "failed" /\ task.step = "check" => att[task.new].phase = "writing"
    /\ task.op = "launch" /\ task.step = "failed" => ~Works(task.new)

(* What the saved chain says of threads: without a launch under way its     *)
(* attempt is its handle's and has a receipt; only its attempt's thread may *)
(* be alive; a launch under way has spawned only if the chain names it; a   *)
(* successor is the launch under way.                                       *)
ChainShape ==
  LET R == chain.refinement  L == chain.launching  H == chain.handle IN
  /\ ~chain.on => chain = NoChain
  /\ chain.on /\ L = 0 => R # 0 /\ H = R /\ att[R].worker /\ att[R].successor = 0
  /\ R # 0 => att[R].phase # "none"
  /\ H # 0 => writer[H] # "none"
  /\ H \notin {0, R} => Gone(H)
  /\ L # 0 /\ writer[L] # "none" => L = R
  /\ L # 0 /\ (att[L].worker \/ H = L) => Threaded(L)
  /\ L # 0 => att[L].successor = 0
  /\ R # 0 /\ att[R].successor # 0 => att[R].successor = L /\ att[L].phase # "none"
  /\ R \notin {0, H, L} => ~Alive(R)

(* What one saved attempt says: a receipt names a thread, a handed-over     *)
(* attempt has a quiet thread and an heir of its own, one in cleaning is    *)
(* stopped, and a landed one is under acceptance and was prepared.          *)
AttemptOK(h) ==
    LET a == att[h] IN
    /\ a.phase = "none" => a = NoAttempt
    /\ a.worker => writer[h] # "none"
    /\ a.successor # 0 => a.phase \in {"adopting", "removed"} /\ ~Alive(h)
    /\ a.phase = "adopting" /\ a.successor # 0 =>
         /\ a.successor # h
         /\ att[a.successor].phase = "adopting" /\ att[a.successor].successor = 0
         /\ \A g \in Handles \ {h} : att[g].phase = "adopting" => att[g].successor # a.successor
    /\ a.phase = "cleaning" => ~Alive(h)
    /\ h \in landed => a.phase \in {"accepting", "accepted"} /\ a.prepared

(* So for every attempt.                                                    *)
Attempts == \A h \in Handles : AttemptOK(h)

(* Only the chain's attempt works, and after the chain is gone only an      *)
(* accepted one; a held chain's writer is not past stopping; a writer at    *)
(* work has no report waiting.                                              *)
Writers ==
  /\ OneWriter
  /\ chain.on => \A g \in Handles : Works(g) => g = chain.refinement
  /\ ~chain.on => (\A g \in Handles : ~Works(g)) \/ \E h \in Handles : att[h].phase = "accepted"
  /\ chain.held /\ chain.refinement # 0 /\ Works(chain.refinement) =>
       att[chain.refinement].phase \in {"writing", "stopping"}
  /\ chain.handle # 0 /\ Works(chain.handle) => said[chain.handle] = None
  /\ task.op = "launch" /\ task.step = "receipt" =>
       writer[task.new] # "none" /\ Threaded(task.new) /\ (Works(task.new) => said[task.new] = None)

(* What the running operation found before it started: the phase of its     *)
(* attempt, and the row it is about to write.                               *)
Tasks ==
  LET h == task.h IN
  /\ task.op = "discard" =>
       /\ task.step \in {"stop", "clean"} => att[h].phase = "stopping"
       /\ task.step \in {"prune", "pick", "write"} => att[h].phase = "cleaning"
       /\ task.step = "clean" => ~Alive(h)
       /\ task.step = "pick" => task.rows \subseteq att[h].owned
       /\ task.step = "write" =>
            /\ task.row \in att[h].owned \ att[h].baseline
            /\ up[task.row] # Absent /\ claim[task.row] \in {h, Other}
       /\ task.then \in {"hold", "drop"} => chain.on /\ h = chain.refinement
       /\ task.then = "hold" => ~Works(h)
       /\ task.then = "drop" => chain.held
  /\ task.op = "adopt" => att[h].phase = "adopting" /\ att[h].successor # 0
  /\ task.op = "accept" =>
       /\ task.step = "report" => stage = "visit"
       /\ task.step # "report" => att[h].phase = "accepting"
       /\ task.step = "merge" => att[h].prepared
       /\ stage = "visit" =>
            /\ chain.on /\ ~chain.held /\ chain.launching = 0
            /\ h = chain.handle /\ said[h] # None

(* At the visit no attempt is being stopped or cleaned but by the running   *)
(* discard.                                                                 *)
Quiet ==
  stage = "visit" =>
    \A h \in Handles : att[h].phase \in {"stopping", "cleaning"} => task.op = "discard" /\ task.h = h

(* The types, the step of the task among them.                              *)
TypeInv == TypeOK /\ task \in TaskRecord

(* The inductive invariant.                                                 *)
RefInv ==
  /\ TypeInv /\ TaskShape /\ LaunchShape /\ NobodyYet /\ Naming /\ FirstLaunch
  /\ ChainShape /\ Attempts /\ Writers /\ Tasks /\ Quiet

(* 0 is no handle.                                                          *)
LEMMA HandleFacts == 0 \notin Handles /\ Maybe = Handles \cup {0}
  BY BoundAssumption DEF Handles, Maybe

(* stillOwned gives present rows that carry the attempt's claim and are not *)
(* in its baseline.                                                         *)
LEMMA OwnedFacts ==
  ASSUME NEW k \in Handles, NEW q \in Owned(k)
  PROVE  q \in Rows /\ up[q] # Absent /\ claim[q] = k /\ q \notin att[k].baseline
<1> DEFINE S == {x \in Rows : up[x] # Absent}
<1>1. q \in Rows /\ claim[q] = k /\ q \notin att[k].baseline /\ q \in Subtree
  BY DEF Owned, Subtree
<1>2. Below(S)
  BY NamesAssumption DEF Below
<1>3. q \in S
  BY <1>1, <1>2 DEF Subtree
<1> QED BY <1>1, <1>3

(* No operation is a task.                                                  *)
LEMMA IdleTask == Idle \in TaskRecord
  BY HandleFacts DEF Idle, TaskRecord

(* A step that changes at most the rows, the children and the landing of    *)
(* attempts, or prepares one.                                               *)
Alike ==
  \A k \in Handles :
    /\ att'[k].phase = att[k].phase /\ att'[k].successor = att[k].successor
    /\ att'[k].worker = att[k].worker /\ (att[k].prepared => att'[k].prepared)
    /\ att[k].phase = "none" => att'[k] = att[k]

(* A step that changes besides at most the phase of an attempt that has     *)
(* begun.                                                                   *)
Kin ==
  \A k \in Handles :
    /\ att'[k].successor = att[k].successor /\ att'[k].worker = att[k].worker
    /\ (att'[k].phase = "none") <=> (att[k].phase = "none")

(* The operation goes on.                                                   *)
SameTask ==
  /\ task'.op = task.op /\ task'.h = task.h /\ task'.new = task.new
  /\ task'.then = task.then /\ task'.caught = task.caught

(* Such a step keeps what the attempts say.                                 *)
LEMMA AlikeAttempts ==
  ASSUME RefInv, Alike, att' \in [Handles -> Attempt], UNCHANGED <<landed, writer>>
  PROVE  Attempts'
<1>1. TypeOK /\ Attempts
  BY DEF RefInv, TypeInv
<1> QED BY <1>1, HandleFacts DEF Attempts, AttemptOK, Alike, Alive, TypeOK, Attempt, NoAttempt

(* The first kind of step is of the second kind.                            *)
LEMMA AlikeKin == ASSUME Alike PROVE Kin
  BY DEF Alike, Kin

(* A step of the second kind keeps what the chain says, held or not.        *)
LEMMA KinChain ==
  ASSUME RefInv, Kin, att' \in [Handles -> Attempt], UNCHANGED writer,
         chain' = chain \/ (chain.on /\ chain' = [chain EXCEPT !.held = TRUE])
  PROVE  ChainShape'
<1>1. TypeOK /\ ChainShape
  BY DEF RefInv, TypeInv
<1>2. chain \in Chain
  BY <1>1 DEF TypeOK
<1>3. /\ chain'.on = chain.on /\ chain'.refinement = chain.refinement
      /\ chain'.launching = chain.launching /\ chain'.handle = chain.handle
      /\ chain' = chain \/ chain.on
  BY <1>2 DEF Chain
<1> QED BY <1>1, <1>2, <1>3, HandleFacts DEF ChainShape, Kin, Alive, Gone, Threaded, TypeOK, Attempt, Chain, NoChain

(* An operation that goes on and changes phases: what is left to show.      *)
LEMMA KinOperation ==
  ASSUME RefInv, Kin, SameTask, task.op \in {"discard", "adopt", "accept"},
         TypeInv', Attempts', Writers', Tasks', Quiet', task'.step # "check",
         task.op = "discard" => task'.step \in {"stop", "clean", "prune", "pick", "write"},
         task.op = "adopt" => task'.step \in {"stop", "collect", "pick", "write"},
         task.op = "accept" => task'.step \in {"validate", "land", "merge", "again", "pick", "write"},
         UNCHANGED <<chain, writer, said, stage>>
  PROVE  RefInv'
<1> USE HandleFacts DEF RefInv, TypeInv, TypeOK, TaskRecord, Attempt, Chain, Kin, SameTask
<1>1. TaskShape'
  BY DEF TaskShape, Idle
<1>2. LaunchShape'
  BY DEF LaunchShape, MidLaunch, Gone
<1>3. NobodyYet'
  BY DEF NobodyYet, Early, Works, Alive
<1>4. Naming'
  BY DEF Naming, LaunchShape, MidLaunch, TaskShape
<1>5. FirstLaunch'
  BY DEF FirstLaunch, LaunchShape, MidLaunch, Works
<1>6. ChainShape'
  BY KinChain
<1> QED BY <1>1, <1>2, <1>3, <1>4, <1>5, <1>6

(* An operation that goes on and changes no phase: what is left to show.    *)
LEMMA InOperation ==
  ASSUME RefInv, Alike, SameTask, task.op \in {"discard", "adopt", "accept"},
         TypeInv', Attempts', Tasks', task'.step # "check",
         task.op = "discard" => task'.step \in {"stop", "clean", "prune", "pick", "write"},
         task.op = "adopt" => task'.step \in {"stop", "collect", "pick", "write"},
         task.op = "accept" => task'.step \in {"validate", "land", "merge", "again", "pick", "write"},
         UNCHANGED <<chain, writer, said, stage>>
  PROVE  RefInv'
<1> USE HandleFacts DEF RefInv, TypeInv, TypeOK, Chain, Alike, SameTask
<1>1. Writers'
  BY DEF Writers, OneWriter, Works
<1>2. Quiet'
  BY DEF Quiet
<1> QED BY <1>1, <1>2, AlikeKin, KinOperation

(* An operation that is over: what is left to show.                         *)
LEMMA Ended ==
  ASSUME RefInv, task' = Idle, TypeInv', ChainShape', Attempts', Writers', Quiet'
  PROVE  RefInv'
<1>1. TaskShape'
  BY DEF TaskShape, Idle
<1>2. LaunchShape' /\ NobodyYet' /\ Naming' /\ FirstLaunch' /\ Tasks'
  BY DEF LaunchShape, MidLaunch, NobodyYet, Early, Naming, FirstLaunch, Tasks, Idle
<1> QED BY <1>1, <1>2 DEF RefInv

(* When an operation that catches fails, its writer is stopped or in a      *)
(* phase a held chain may have.                                             *)
LEMMA CaughtFacts ==
  ASSUME RefInv, task.caught, task.op \in {"launch", "discard", "adopt"}
  PROVE  /\ chain.on
         /\ chain.refinement # 0 /\ Works(chain.refinement) =>
              att[chain.refinement].phase \in {"writing", "stopping"}
<1> USE HandleFacts DEF RefInv, TypeInv, TypeOK, TaskRecord, Attempt, Chain
<1>1. CASE MidLaunch
  <2>1. chain.on /\ ~chain.held /\ task.new \in Handles
    BY <1>1 DEF LaunchShape
  <2>2. CASE Early
    BY <2>1, <2>2 DEF NobodyYet
  <2>3. CASE ~Early
    <3>1. \/ task.op = "launch" /\ task.step \in {"receipt", "failed"}
          \/ task.op = "discard" /\ task.then = "failed"
      <4>1. CASE task.op = "launch"
        BY <2>3, <4>1 DEF Early, TaskShape
      <4>2. CASE task.op # "launch"
        BY <1>1, <2>3, <4>2 DEF MidLaunch, Early, TaskShape
      <4> QED BY <4>1, <4>2
    <3>2. chain.refinement = task.new
      BY <3>1 DEF Naming
    <3>3. CASE task.op = "launch"
      BY <1>1, <2>1, <3>1, <3>2, <3>3 DEF FirstLaunch
    <3>4. CASE task.op = "discard" /\ task.then = "failed"
      BY <1>1, <2>1, <3>2, <3>4 DEF FirstLaunch, Naming, Tasks, Attempts, AttemptOK, TaskShape, Works, Alive
    <3> QED BY <3>1, <3>3, <3>4
  <2> QED BY <2>2, <2>3
<1>2. CASE ~MidLaunch
  <2>1. task.op = "discard" /\ task.then \in {"hold", "drop"}
    BY <1>2 DEF MidLaunch, TaskShape
  <2> QED BY <2>1 DEF Tasks, Writers
<1> QED BY <1>1, <1>2

(* A throw keeps the invariant.                                             *)
LEMMA ThrowsKeeps ==
  ASSUME RefInv, Throws, task.op \in {"launch", "discard", "adopt"},
         Alike, att' \in [Handles -> Attempt], UNCHANGED <<tracker, stopping, landed, threads>>
  PROVE  RefInv'
<1> USE HandleFacts DEF RefInv, TypeInv, TypeOK, Throws, After, tracker, threads
<1>1. /\ task' = Idle /\ stage' \in {"between", "down"}
      /\ chain' = chain \/ (task.caught /\ chain' = [chain EXCEPT !.held = TRUE])
  BY DEF TaskShape, TaskRecord
<1>2. TypeInv'
  <2>1. task' \in TaskRecord
    BY <1>1, IdleTask
  <2>2. chain' \in Chain
    BY <1>1 DEF Chain
  <2> QED BY <1>1, <2>1, <2>2, NamesAssumption DEF Idle
<1>3. ChainShape'
  BY <1>1, AlikeKin, KinChain, CaughtFacts
<1>4. Attempts'
  BY AlikeAttempts
<1>5. Writers'
  <2>1. /\ chain'.on = chain.on /\ chain'.refinement = chain.refinement /\ chain'.handle = chain.handle
        /\ chain'.held => chain.held \/ task.caught
    BY <1>1 DEF Chain
  <2>2. task'.op # "launch"
    BY <1>1 DEF Idle
  <2>3. \A k \in Handles : att'[k].phase = att[k].phase
    BY DEF Alike
  <2> QED BY <2>1, <2>2, <2>3, CaughtFacts DEF Writers, OneWriter, Works, Chain
<1>6. Quiet'
  BY <1>1 DEF Quiet
<1> QED BY <1>1, <1>2, <1>3, <1>4, <1>5, <1>6, Ended

(* A refused report keeps the invariant: the writer that works on after the *)
(* repair message is the chain's own.                                       *)
LEMMA RefusedKeeps ==
  ASSUME RefInv, Refused, task.op = "accept", UNCHANGED <<tracker, att, stopping, landed>>
  PROVE  RefInv'
<1> USE HandleFacts DEF RefInv, TypeInv, TypeOK, tracker, threads
<1> DEFINE R == chain.refinement
<1>1. task' = Idle /\ stage' = "between" /\ task.h \in Handles
  BY DEF Refused, TaskShape, After
<1>2. Quiet'
  BY <1>1 DEF Quiet
<1>3. CASE chain' = chain /\ writer' = writer /\ said' = said
  <2>1. TypeInv'
    BY <1>1, <1>3, NamesAssumption DEF TaskRecord, Idle
  <2>2. ChainShape' /\ Attempts'
    BY <1>3 DEF ChainShape, Attempts, AttemptOK, Gone, Threaded, Alive
  <2>3. Writers'
    BY <1>1, <1>3 DEF Writers, OneWriter, Works, Idle
  <2> QED BY <1>1, <1>2, <2>1, <2>2, <2>3, Ended
<1>4. CASE stage = "visit" /\ said' = [said EXCEPT ![task.h] = None]
  <2>1. /\ chain.on /\ ~chain.held /\ chain.launching = 0 /\ task.h = chain.handle /\ said[task.h] # None
        /\ R = task.h /\ att[R].successor = 0 /\ ~Works(R)
    BY <1>1, <1>4 DEF Tasks, ChainShape, Writers, Works, Chain
  <2>2. CASE chain' = chain /\ writer' = [writer EXCEPT ![task.h] = IF @ = "idle" THEN "working" ELSE @]
    <3>1. TypeInv'
      BY <1>1, <1>4, <2>2, NamesAssumption DEF TaskRecord, Idle
    <3>2. ChainShape'
      BY <1>1, <2>1, <2>2 DEF ChainShape, Gone, Threaded, Alive, Chain
    <3>3. Attempts'
      BY <1>1, <2>1, <2>2 DEF Attempts, AttemptOK, Alive
    <3>4. Writers'
      BY <1>1, <1>4, <2>1, <2>2 DEF Writers, OneWriter, Works, Idle
    <3> QED BY <1>1, <1>2, <3>1, <3>2, <3>3, <3>4, Ended
  <2>3. CASE chain' = [chain EXCEPT !.held = TRUE] /\ writer' = writer
    <3>0. Alike
      BY <2>3 DEF Alike
    <3>1. TypeInv'
      BY <1>1, <1>4, <2>3, NamesAssumption DEF TaskRecord, Idle, Chain
    <3>2. ChainShape' /\ Attempts'
      BY <2>1, <2>3, <3>0, AlikeKin, KinChain, AlikeAttempts
    <3>3. Writers'
      BY <1>1, <1>4, <2>1, <2>3 DEF Writers, OneWriter, Works, Idle, Chain
    <3> QED BY <1>1, <1>2, <3>1, <3>2, <3>3, Ended
  <2> QED BY <1>4, <2>2, <2>3 DEF Refused
<1> QED BY <1>3, <1>4 DEF Refused

(* A look at the next row leads to its write only if it is still owned.     *)
LEMMA PickFacts ==
  ASSUME TypeInv, NEW k \in Handles, NEW from \in {"prune", "pick"}, Pick(k, from)
  PROVE  /\ task' \in TaskRecord /\ SameTask
         /\ task'.step \in {"write", from} /\ task'.rows \subseteq task.rows
         /\ task'.step = "write" => task'.row \in task.rows /\ task'.row \in Owned(k)
<1>1. PICK r \in task.rows :
        IF r \in Owned(k)
        THEN task' = [task EXCEPT !.rows = @ \ {r}, !.row = r, !.step = "write"]
        ELSE task' = [task EXCEPT !.rows = @ \ {r}, !.step = from]
  BY Zenon DEF Pick
<1>2. task \in TaskRecord /\ r \in Rows
  BY DEF TypeInv, TypeOK
<1>3. CASE r \in Owned(k)
  <2>1. task' = [task EXCEPT !.rows = @ \ {r}, !.row = r, !.step = "write"]
    BY <1>1, <1>3
  <2> QED BY <1>2, <1>3, <2>1 DEF TaskRecord, SameTask
<1>4. CASE r \notin Owned(k)
  <2>1. task' = [task EXCEPT !.rows = @ \ {r}, !.step = from]
    BY <1>1, <1>4
  <2> QED BY <1>2, <1>4, <2>1 DEF TaskRecord, SameTask
<1> QED BY <1>3, <1>4

(* Going to the next step changes nothing else of the task.                 *)
LEMMA StepFacts ==
  ASSUME TypeInv, NEW step \in {"stop", "clean", "prune", "pick", "collect", "validate", "land", "merge", "again"},
         Goto(step)
  PROVE  task' \in TaskRecord /\ SameTask /\ task'.step = step /\ task'.rows = task.rows /\ task'.row = task.row
  BY DEF TypeInv, TaskRecord, SameTask, Goto

(* Remembering rows changes nothing else of an attempt.                     *)
LEMMA Grown ==
  ASSUME NEW a \in Attempt, NEW S \in SUBSET Rows
  PROVE  /\ [a EXCEPT !.owned = @ \cup S] \in Attempt
         /\ [a EXCEPT !.owned = @ \cup S].phase = a.phase
         /\ [a EXCEPT !.owned = @ \cup S].successor = a.successor
         /\ [a EXCEPT !.owned = @ \cup S].worker = a.worker
         /\ [a EXCEPT !.owned = @ \cup S].prepared = a.prepared
         /\ [a EXCEPT !.owned = @ \cup S].owned = a.owned \cup S
         /\ [a EXCEPT !.owned = @ \cup S].baseline = a.baseline
  BY DEF Attempt

(* Unchanged attempts are alike.                                            *)
LEMMA SameAlike == UNCHANGED att => Alike
  BY DEF Alike

(* The invariant survives looking at the next row of a discard.             *)
LEMMA DiscardPickKeeps == ASSUME RefInv, DiscardPick PROVE RefInv'
<1> USE DEF RefInv, TypeInv, TypeOK, DiscardPick, In, tracker, saved, threads
<1>1. /\ task.h \in Handles /\ task' \in TaskRecord /\ SameTask /\ Alike
      /\ task'.step \in {"write", "prune"}
      /\ task'.step = "write" => task'.row \in task.rows /\ task'.row \in Owned(task.h)
  BY PickFacts, SameAlike DEF TaskShape
<1>2. TypeInv'
  BY <1>1 DEF TaskRecord
<1>3. Attempts'
  BY <1>1, AlikeAttempts
<1>4. Tasks'
  BY <1>1, OwnedFacts DEF Tasks, SameTask, Alive, Works
<1> QED BY <1>1, <1>2, <1>3, <1>4, InOperation

(* The invariant survives looking at the next row of an adoption.           *)
LEMMA AdoptPickKeeps == ASSUME RefInv, AdoptPick PROVE RefInv'
<1> USE DEF RefInv, TypeInv, TypeOK, AdoptPick, In, tracker, saved, threads
<1>1. /\ task.h \in Handles /\ task' \in TaskRecord /\ SameTask /\ Alike
      /\ task'.step \in {"write", "pick"}
  BY PickFacts, SameAlike DEF TaskShape
<1>2. TypeInv'
  BY <1>1 DEF TaskRecord
<1>3. Attempts'
  BY <1>1, AlikeAttempts
<1>4. Tasks'
  BY <1>1 DEF Tasks, SameTask, Alive, Works
<1> QED BY <1>1, <1>2, <1>3, <1>4, InOperation

(* The invariant survives looking at the next row of an acceptance.         *)
LEMMA AcceptPickKeeps == ASSUME RefInv, AcceptPick PROVE RefInv'
<1> USE DEF RefInv, TypeInv, TypeOK, AcceptPick, In, tracker, saved, threads
<1>1. /\ task.h \in Handles /\ task' \in TaskRecord /\ SameTask /\ Alike
      /\ task'.step \in {"write", "pick"}
  BY PickFacts, SameAlike DEF TaskShape
<1>2. TypeInv'
  BY <1>1 DEF TaskRecord
<1>3. Attempts'
  BY <1>1, AlikeAttempts
<1>4. Tasks'
  BY <1>1 DEF Tasks, SameTask, Alive, Works
<1> QED BY <1>1, <1>2, <1>3, <1>4, InOperation

(* The invariant survives removing a row.                                   *)
LEMMA DiscardRemoveKeeps == ASSUME RefInv, DiscardRemove PROVE RefInv'
<1> USE HandleFacts DEF RefInv, TypeInv, TypeOK, DiscardRemove, In, tracker, threads
<1>1. CASE Throws /\ UNCHANGED <<tracker, threads>>
  BY <1>1, SameAlike, ThrowsKeeps
<1>2. CASE /\ up' = [up EXCEPT ![task.row] = Absent] /\ claim' = [claim EXCEPT ![task.row] = None]
           /\ omits' = omits \ {task.row} /\ Goto("prune") /\ UNCHANGED <<chain, threads, stage>>
  <2>1. task' \in TaskRecord /\ SameTask /\ task'.step = "prune" /\ Alike
    BY <1>2, StepFacts, SameAlike
  <2>2. TypeInv'
    BY <1>2, <2>1, NamesAssumption DEF Claims, TaskRecord
  <2>3. Attempts'
    BY <1>2, <2>1, AlikeAttempts
  <2>4. Tasks'
    BY <1>2, <2>1 DEF Tasks, SameTask, Alive, Works
  <2> QED BY <1>2, <2>1, <2>2, <2>3, <2>4, InOperation
<1> QED BY <1>1, <1>2

(* The invariant survives handing a claim to the successor.                 *)
LEMMA AdoptTransferKeeps == ASSUME RefInv, AdoptTransfer PROVE RefInv'
<1> USE HandleFacts DEF RefInv, TypeInv, TypeOK, AdoptTransfer, In, saved, threads
<1>1. /\ task.h \in Handles /\ task' \in TaskRecord /\ SameTask /\ task'.step = "pick" /\ Alike
      /\ task.op = "adopt" /\ att[task.h].successor \in Handles
  BY StepFacts, SameAlike DEF TaskShape, Tasks, Attempt
<1>2. TypeInv'
  BY <1>1 DEF Claims, TaskRecord
<1>3. Attempts'
  BY <1>1, AlikeAttempts
<1>4. Tasks'
  BY <1>1 DEF Tasks, SameTask, Alive, Works
<1> QED BY <1>1, <1>2, <1>3, <1>4, InOperation

(* The invariant survives converting a claim to the run's.                  *)
LEMMA AcceptConvertKeeps == ASSUME RefInv, AcceptConvert PROVE RefInv'
<1> USE HandleFacts DEF RefInv, TypeInv, TypeOK, AcceptConvert, In, saved, threads
<1>1. task' \in TaskRecord /\ SameTask /\ task'.step = "pick" /\ Alike /\ task.op = "accept"
  BY StepFacts, SameAlike
<1>2. TypeInv'
  BY <1>1 DEF Claims, TaskRecord
<1>3. Attempts'
  BY <1>1, AlikeAttempts
<1>4. Tasks'
  BY <1>1 DEF Tasks, SameTask, Alive, Works
<1> QED BY <1>1, <1>2, <1>3, <1>4, InOperation

(* The invariant survives recording the rows an heir takes over.            *)
LEMMA AdoptCollectKeeps == ASSUME RefInv, AdoptCollect PROVE RefInv'
<1> USE HandleFacts DEF RefInv, TypeInv, TypeOK, AdoptCollect, In, OnlyAtt, bounds, tracker, threads
<1> DEFINE h == task.h
           g == att[h].successor
<1>1. h \in Handles /\ g \in Handles \ {h} /\ Owned(h) \subseteq Rows /\ Owned(g) \subseteq Rows /\ task.op = "adopt"
  BY OwnedFacts DEF TaskShape, Tasks, Attempts, AttemptOK, Attempt
<1>2. /\ task' \in TaskRecord /\ SameTask /\ task'.step = "pick"
  BY <1>1, Zenon DEF TaskRecord, SameTask
<1>3. Alike /\ att' \in [Handles -> Attempt]
  <2>1. att[h].phase # "none" /\ att[g].phase # "none"
    BY <1>1 DEF Attempts, AttemptOK, Tasks
  <2> DEFINE X == Owned(h)
             Y == Owned(h) \cup Owned(g)
  <2>2. X \subseteq Rows /\ Y \subseteq Rows
    BY <1>1
  <2>3. att' = [att EXCEPT ![h].owned = @ \cup X, ![g].owned = @ \cup Y]
    OBVIOUS
  <2> HIDE DEF X, Y
  <2>4. \A k \in Handles :
          att'[k] = IF k = h THEN [att[k] EXCEPT !.owned = @ \cup X]
                    ELSE IF k = g THEN [att[k] EXCEPT !.owned = @ \cup Y] ELSE att[k]
    BY <1>1, <2>3, Zenon
  <2>5. ASSUME NEW k \in Handles
        PROVE  /\ att'[k] \in Attempt
               /\ att'[k].phase = att[k].phase /\ att'[k].successor = att[k].successor
               /\ att'[k].worker = att[k].worker /\ (att[k].prepared => att'[k].prepared)
               /\ att[k].phase = "none" => att'[k] = att[k]
    <3>0. att[k] \in Attempt /\ X \in SUBSET Rows /\ Y \in SUBSET Rows
      BY <2>2
    <3>1. CASE k = h
      <4>1. att'[k] = [att[k] EXCEPT !.owned = @ \cup X]
        BY <2>4, <3>1, Zenon
      <4> QED BY ONLY <2>1, <3>0, <3>1, <4>1, Grown
    <3>2. CASE k = g
      <4>1. att'[k] = [att[k] EXCEPT !.owned = @ \cup Y]
        BY <1>1, <2>4, <3>2, Zenon
      <4> QED BY ONLY <2>1, <3>0, <3>2, <4>1, Grown
    <3>3. CASE k \notin {h, g}
      BY <2>4, <3>3, Zenon
    <3> QED BY <3>1, <3>2, <3>3, Zenon
  <2>6. att' \in [Handles -> Attempt]
    BY <2>3, <2>5, Zenon
  <2> QED BY <2>5, <2>6, Zenon DEF Alike
<1>4. TypeInv'
  BY <1>2, <1>3 DEF TaskRecord
<1>5. Attempts'
  BY <1>3, AlikeAttempts
<1>6. Tasks'
  BY <1>2, <1>3, <1>1, Zenon DEF Tasks, SameTask, Alike, Alive, Works
<1> QED BY <1>1, <1>2, <1>3, <1>4, <1>5, <1>6, InOperation

(* The invariant survives validating an acceptance.                         *)
LEMMA AcceptValidateKeeps == ASSUME RefInv, AcceptValidate PROVE RefInv'
<1> USE HandleFacts DEF RefInv, TypeInv, TypeOK, AcceptValidate, tracker, threads
<1>1. CASE Refused
  BY <1>1, RefusedKeeps
<1>2. CASE \E step \in {"land", "pick"} :
             /\ task' = [task EXCEPT !.step = step, !.rows = IF step = "pick" THEN Owned(task.h) ELSE {}]
             /\ task.step # "report"
             /\ UNCHANGED <<chain, threads, stage>>
  <2>1. task.h \in Handles /\ Owned(task.h) \subseteq Rows /\ Alike
    BY OwnedFacts, SameAlike DEF TaskShape
  <2>2. task' \in TaskRecord /\ SameTask /\ task'.step \in {"land", "pick"} /\ task.step # "report"
    <3>1. PICK step \in {"land", "pick"} : 
            /\ task' = [task EXCEPT !.step = step, !.rows = IF step = "pick" THEN Owned(task.h) ELSE {}]
            /\ task.step # "report"
      BY <1>2
    <3>2. (IF step = "pick" THEN Owned(task.h) ELSE {}) \in SUBSET Rows
      BY <2>1
    <3> QED BY <3>1, <3>2 DEF TaskRecord, SameTask
  <2>3. TypeInv'
    BY <1>2, <2>2, Zenon DEF TaskRecord
  <2>4. Attempts'
    BY <1>2, <2>1, AlikeAttempts
  <2>5. Tasks'
    BY <1>2, <2>2 DEF Tasks, SameTask, Alive, Works
  <2> QED BY <1>2, <2>1, <2>2, <2>3, <2>4, <2>5, InOperation
<1>3. Refused \/ \E step \in {"land", "pick"} :
             /\ task' = [task EXCEPT !.step = step, !.rows = IF step = "pick" THEN Owned(task.h) ELSE {}]
             /\ task.step # "report"
             /\ UNCHANGED <<chain, threads, stage>>
  <2>1. PICK s \in {<<"validate", "land">>, <<"again", "pick">>} :
          /\ task.step = s[1]
          /\ IF Valid(task.h, att[task.h].children, TRUE)
             THEN /\ task' = [task EXCEPT !.step = s[2], !.rows = IF s[2] = "pick" THEN Owned(task.h) ELSE {}]
                  /\ UNCHANGED <<chain, threads, stage>>
             ELSE Refused
    OBVIOUS
  <2>2. s[2] \in {"land", "pick"} /\ s[1] # "report"
    OBVIOUS
  <2> QED BY <2>1, <2>2
<1> QED BY <1>1, <1>2, <1>3

(* Changing a phase changes nothing else of an attempt.                     *)
LEMMA PhaseFacts ==
  ASSUME TypeInv, NEW h \in Handles,
         NEW p \in {"writing", "stopping", "cleaning", "adopting", "accepting", "accepted", "removed"},
         att[h].phase # "none", att' = [att EXCEPT ![h].phase = p]
  PROVE  /\ att' \in [Handles -> Attempt] /\ Kin /\ att'[h].phase = p
         /\ \A k \in Handles \ {h} : att'[k] = att[k]
         /\ \A k \in Handles : /\ att'[k].successor = att[k].successor /\ att'[k].worker = att[k].worker
                               /\ att'[k].owned = att[k].owned /\ att'[k].baseline = att[k].baseline
                               /\ att'[k].prepared = att[k].prepared
<1>1. att \in [Handles -> Attempt]
  BY DEF TypeInv, TypeOK
<1>2. att'[h] = [att[h] EXCEPT !.phase = p] /\ \A k \in Handles \ {h} : att'[k] = att[k]
  BY <1>1
<1>3. att[h] \in Attempt
  BY <1>1
<1>4. /\ att'[h] \in Attempt /\ att'[h].phase = p
      /\ att'[h].baseline = att[h].baseline /\ att'[h].owned = att[h].owned
      /\ att'[h].worker = att[h].worker /\ att'[h].successor = att[h].successor
      /\ att'[h].prepared = att[h].prepared
  <2>1. p \in {"writing", "stopping", "cleaning", "adopting", "accepting", "accepted", "removed"}
    OBVIOUS
  <2> QED BY ONLY <1>2, <1>3, <2>1 DEF Attempt
<1>5. att' \in [Handles -> Attempt]
  BY <1>1, <1>2, <1>4
<1> QED BY <1>2, <1>4, <1>5 DEF Kin

(* observeRefinements remembers the rows still owned and changes nothing    *)
(* else.                                                                    *)
LEMMA RememberedFacts ==
  ASSUME TypeInv, Attempts, NEW h \in Handles, att[h].phase # "none", att' = Remembered(h)
  PROVE  /\ att' \in [Handles -> Attempt] /\ Alike
         /\ Owned(h) \subseteq att'[h].owned
         /\ \A k \in Handles : att'[k].baseline = att[k].baseline
<1>1. att \in [Handles -> Attempt] /\ Owned(h) \in SUBSET Rows
  BY OwnedFacts DEF TypeInv, TypeOK
<1>2. att'[h] = [att[h] EXCEPT !.owned = @ \cup Owned(h)] /\ \A k \in Handles \ {h} : att'[k] = att[k]
  BY <1>1 DEF Remembered
<1>3. att[h] \in Attempt
  BY <1>1
<1>4. /\ att'[h] \in Attempt /\ att'[h].owned = att[h].owned \cup Owned(h)
      /\ att'[h].baseline = att[h].baseline /\ att'[h].phase = att[h].phase
      /\ att'[h].worker = att[h].worker /\ att'[h].successor = att[h].successor
      /\ att'[h].prepared = att[h].prepared
  BY ONLY <1>1, <1>2, <1>3, Grown
<1>5. att' \in [Handles -> Attempt]
  BY <1>1, <1>2, <1>4 DEF Remembered
<1> QED BY <1>2, <1>4, <1>5 DEF Alike

(* A discard that is over goes back to the launch that replaced it, holds   *)
(* or drops the chain, or ends.                                             *)
LEMMA DiscardReturns ==
  ASSUME RefInv, task.op = "discard", Returns,
         task.step = "check" => att[task.h].phase = "removed",
         task.step # "check" => att[task.h].phase = "cleaning",
         att' = [att EXCEPT ![task.h].phase = "removed"],
         UNCHANGED <<tracker, stopping, landed, said>>
  PROVE  RefInv'
<1> USE HandleFacts DEF RefInv, TypeInv, TypeOK, tracker
<1> DEFINE h == task.h
           R == chain.refinement
<1>1. h \in Handles /\ task.then \in {"idle", "begin", "failed", "hold", "drop"} /\ task.step \in {"check", "stop", "clean", "prune", "pick", "write"}
  BY DEF TaskShape
<1>2. /\ att' \in [Handles -> Attempt] /\ Kin /\ att'[h].phase = "removed"
      /\ \A k \in Handles \ {h} : att'[k] = att[k]
      /\ \A k \in Handles : /\ att'[k].successor = att[k].successor /\ att'[k].worker = att[k].worker
                            /\ att'[k].prepared = att[k].prepared
  BY <1>1, PhaseFacts
<1>3. \/ att[h].phase = "removed" /\ task.step = "check"
      \/ att[h].phase = "cleaning" /\ ~Alive(h) /\ ~Works(h)
  BY <1>1 DEF Attempts, AttemptOK, Alive, Works
<1>4. ASSUME writer' = writer \/ writer' = Retired({chain.handle})
      PROVE  /\ writer' \in [Handles -> {"none", "working", "idle", "stopped", "retired"}]
             /\ \A k \in Handles : /\ (writer'[k] = "none") <=> (writer[k] = "none")
                                   /\ Works(k)' => Works(k)
                                   /\ Alive(k)' => Alive(k)
  BY <1>4 DEF Retired, Threaded, Works, Alive
<1>5. ASSUME writer' = writer \/ writer' = Retired({chain.handle})
      PROVE  Attempts'
  <2>1. \A k \in Handles : att[k].phase = "none" => att'[k] = att[k]
    BY <1>1, <1>2, <1>3
  <2> QED BY <1>1, <1>2, <1>3, <1>4, <1>5, <2>1 DEF Attempts, AttemptOK, Attempt
<1>6. CASE task.then = "idle"
  <2>1. task' = Idle /\ UNCHANGED <<chain, writer, stage>> /\ stage # "visit"
    BY <1>1, <1>6 DEF Returns, After, TaskShape
  <2>2. TypeInv'
    BY <1>2, <2>1, IdleTask DEF Idle
  <2>3. ChainShape' /\ Attempts'
    BY <1>2, <1>5, <2>1, KinChain
  <2>4. Writers'
    BY <1>1, <1>2, <1>3, <2>1 DEF Writers, OneWriter, Works, Idle, Chain
  <2>5. Quiet'
    BY <2>1 DEF Quiet
  <2> QED BY <2>1, <2>2, <2>3, <2>4, <2>5, Ended
<1>7. CASE task.then = "hold"
  <2>1. /\ task' = Idle /\ chain' = [chain EXCEPT !.held = TRUE] /\ stage' = "between" /\ writer' = writer
        /\ chain.on /\ R = h /\ ~Works(h)
    BY <1>1, <1>7 DEF Returns, After, TaskShape, Tasks
  <2>2. TypeInv'
    <3>1. chain' \in Chain
      BY <2>1 DEF Chain
    <3> QED BY <1>2, <2>1, <3>1, IdleTask DEF Idle
  <2>3. ChainShape' /\ Attempts'
    BY <1>2, <1>5, <2>1, KinChain
  <2>4. Writers'
    BY <1>1, <1>2, <1>3, <2>1 DEF Writers, OneWriter, Works, Idle, Chain
  <2>5. Quiet'
    BY <2>1 DEF Quiet
  <2> QED BY <2>1, <2>2, <2>3, <2>4, <2>5, Ended
<1>8. CASE task.then = "drop"
  <2>1. /\ task' = Idle /\ chain' = NoChain /\ stage' = "between" /\ writer' \in {writer, Retired({chain.handle})}
        /\ chain.on /\ R = h /\ chain.held
    BY <1>1, <1>8 DEF Returns, After, TaskShape, Tasks
  <2>2. ~Works(R)
    BY <1>1, <1>3, <2>1 DEF Writers
  <2>3. \A k \in Handles : ~Works(k)'
    BY <1>4, <2>1, <2>2 DEF Writers
  <2>4. TypeInv'
    BY <1>2, <1>4, <2>1, IdleTask DEF Idle, NoChain, Chain
  <2>5. Attempts'
    BY <1>5, <2>1
  <2>6. ChainShape' /\ Writers'
    BY <2>1, <2>3 DEF ChainShape, Writers, OneWriter, Works, NoChain, Idle
  <2>7. Quiet'
    BY <2>1 DEF Quiet
  <2> QED BY <2>1, <2>4, <2>5, <2>6, <2>7, Ended
<1>9. CASE task.then \in {"begin", "failed"}
  <2> DEFINE s == IF task.then = "begin" THEN "begin" ELSE "failed"
  <2>1. task' = [task EXCEPT !.op = "launch", !.step = s] /\ UNCHANGED <<chain, writer, stage>>
    BY <1>9 DEF Returns
  <2>2. /\ task' \in TaskRecord /\ task'.op = "launch" /\ task'.step = s /\ task'.h = task.h /\ task'.new = task.new
        /\ task'.then = task.then /\ task'.caught = task.caught
    BY <2>1 DEF TaskRecord
  <2>3. MidLaunch /\ stage = "visit" /\ task.new \in Handles
    BY <1>9 DEF MidLaunch, TaskShape, LaunchShape
  <2>4. TypeInv'
    BY <1>2, <2>1, <2>2 DEF TaskRecord
  <2>5. TaskShape'
    BY <1>9, <2>1, <2>2, <2>3 DEF TaskShape
  <2>6. LaunchShape'
    BY <1>2, <2>1, <2>2, <2>3 DEF LaunchShape, MidLaunch, Gone
  <2>7. NobodyYet'
    BY <1>9, <2>1, <2>2 DEF NobodyYet, Early, Works, Alive
  <2>8. Naming'
    BY <1>1, <1>2, <1>9, <2>1, <2>2, <2>3 DEF Naming
  <2>9. FirstLaunch'
    BY <1>1, <1>2, <1>3, <1>9, <2>1, <2>2, <2>3 DEF FirstLaunch, Works, Naming
  <2>10. ChainShape' /\ Attempts'
    BY <1>2, <1>5, <2>1, KinChain
  <2>11. Writers'
    BY <1>1, <1>2, <1>3, <2>1, <2>2 DEF Writers, OneWriter, Works, Chain
  <2>12. Tasks'
    BY <2>2 DEF Tasks
  <2>13. Quiet'
    BY <1>2, <2>1 DEF Quiet
  <2> QED BY <2>4, <2>5, <2>6, <2>7, <2>8, <2>9, <2>10, <2>11, <2>12, <2>13
<1> QED BY <1>1, <1>6, <1>7, <1>8, <1>9

(* The invariant survives the check that begins a discard.                  *)
LEMMA DiscardCheckKeeps == ASSUME RefInv, DiscardCheck PROVE RefInv'
<1> USE HandleFacts DEF RefInv, TypeInv, TypeOK, DiscardCheck, In, tracker, threads
<1> DEFINE h == task.h
<1>1. h \in Handles /\ task.op = "discard" /\ task.step = "check"
  BY DEF TaskShape
<1>2. CASE att[h].phase = "removed" /\ Returns /\ UNCHANGED <<att, said>>
  <2>1. att' = [att EXCEPT ![h].phase = "removed"]
    BY <1>1, <1>2 DEF Attempt
  <2> QED BY <1>1, <1>2, <2>1, DiscardReturns
<1>3. CASE Throws /\ UNCHANGED <<att, threads>>
  BY <1>1, <1>3, SameAlike, ThrowsKeeps
<1>4. CASE att[h].phase = "cleaning" /\ Goto("prune") /\ UNCHANGED <<att, chain, threads, stage>>
  <2>1. task' \in TaskRecord /\ SameTask /\ task'.step = "prune" /\ Alike
    BY <1>4, StepFacts, SameAlike
  <2>2. TypeInv'
    BY <1>4, <2>1 DEF TaskRecord
  <2>3. Attempts'
    BY <1>4, <2>1, AlikeAttempts
  <2>4. Tasks'
    BY <1>1, <1>4, <2>1 DEF Tasks, SameTask, Works
  <2> QED BY <1>1, <1>4, <2>1, <2>2, <2>3, <2>4, InOperation
<1>5. CASE /\ att[h].phase \in {"writing", "stopping", "accepting"} /\ Abortable(h)
           /\ att' = [att EXCEPT ![h].phase = "stopping"] /\ Goto("stop")
           /\ UNCHANGED <<chain, threads, stage>>
  <2>1. task' \in TaskRecord /\ SameTask /\ task'.step = "stop"
    BY <1>5, StepFacts
  <2>2. /\ att' \in [Handles -> Attempt] /\ Kin /\ att'[h].phase = "stopping"
        /\ \A k \in Handles \ {h} : att'[k] = att[k]
        /\ \A k \in Handles : /\ att'[k].successor = att[k].successor /\ att'[k].worker = att[k].worker
                              /\ att'[k].prepared = att[k].prepared
    BY <1>1, <1>5, PhaseFacts, Zenon
  <2>3. TypeInv'
    BY <1>5, <2>1, <2>2 DEF TaskRecord
  <2>4. h \notin landed
    BY <1>1, <1>5 DEF Abortable, Reached, Attempts, AttemptOK
  <2>5. Attempts'
    BY <1>1, <1>5, <2>2, <2>4 DEF Attempts, AttemptOK, Alive, Attempt
  <2>6. Tasks'
    BY <1>1, <1>5, <2>1, <2>2 DEF Tasks, SameTask, Works
  <2>7. Writers'
    BY <1>1, <1>5, <2>1, <2>2 DEF Writers, OneWriter, Works, Threaded, SameTask, Chain
  <2>8. Quiet'
    BY <1>1, <1>5, <2>1, <2>2 DEF Quiet, SameTask
  <2> QED BY <1>1, <1>5, <2>1, <2>2, <2>3, <2>5, <2>6, <2>7, <2>8, KinOperation
<1> QED BY <1>2, <1>3, <1>4, <1>5

(* An unchanged attempt stays right when no thread comes alive and its heir *)
(* and rivals are unchanged.                                                *)
LEMMA AttemptStays ==
  ASSUME NEW k \in Handles, AttemptOK(k), att'[k] = att[k], landed' = landed,
         writer[k] # "none" => writer'[k] # "none", Alive(k)' => Alive(k),
         \A j \in Handles : att'[j].phase = "adopting" =>
            att[j].phase = "adopting" /\ att'[j].successor = att[j].successor,
         att[k].phase = "adopting" /\ att[k].successor # 0 => att'[att[k].successor] = att[att[k].successor]
  PROVE  AttemptOK(k)'
  BY DEF AttemptOK

(* What holds of writers survives a step that leaves chain and threads      *)
(* alone.                                                                   *)
LEMMA WritersStay ==
  ASSUME RefInv, UNCHANGED <<chain, writer, said>>, ~(task'.op = "launch" /\ task'.step = "receipt"),
         \A k \in Handles : /\ att[k].phase = "accepted" => att'[k].phase = "accepted"
                            /\ att[k].phase \in {"writing", "stopping"} => att'[k].phase = att[k].phase
  PROVE  Writers'
<1>1. Writers /\ chain.refinement \in Handles \cup {0}
  BY HandleFacts DEF RefInv, TypeInv, TypeOK, Chain
<1> QED BY <1>1 DEF Writers, OneWriter, Works

(* The invariant survives the receipt of a stop.                            *)
LEMMA DiscardCleanKeeps == ASSUME RefInv, DiscardClean PROVE RefInv'
<1> USE HandleFacts DEF RefInv, TypeInv, TypeOK, DiscardClean, In, OnlyAtt, tracker, threads
<1> DEFINE h == task.h
<1>1. h \in Handles /\ task.op = "discard" /\ att[h].phase = "stopping" /\ ~Alive(h) /\ ~Works(h)
  BY DEF TaskShape, Tasks, Alive, Works
<1>2. task' \in TaskRecord /\ SameTask /\ task'.step = "prune"
  BY StepFacts
<1>3. /\ att' \in [Handles -> Attempt] /\ Kin /\ att'[h].phase = "cleaning"
      /\ \A k \in Handles \ {h} : att'[k] = att[k]
      /\ \A k \in Handles : /\ att'[k].successor = att[k].successor /\ att'[k].worker = att[k].worker
                            /\ att'[k].prepared = att[k].prepared
  BY <1>1, PhaseFacts
<1>4. TypeInv'
  BY <1>2, <1>3 DEF TaskRecord
<1>5. Attempts'
  BY <1>1, <1>3 DEF Attempts, AttemptOK, Alive, Attempt
<1>6. Tasks'
  BY <1>1, <1>2, <1>3 DEF Tasks, SameTask, Works
<1>7. Writers'
  BY <1>1, <1>2, <1>3 DEF Writers, OneWriter, Works, Threaded, SameTask, Chain
<1>8. Quiet'
  BY <1>1, <1>2, <1>3 DEF Quiet, SameTask
<1> QED BY <1>1, <1>2, <1>3, <1>4, <1>5, <1>6, <1>7, <1>8, KinOperation

(* The invariant survives choosing a leaf to prune.                         *)
LEMMA DiscardPruneKeeps == ASSUME RefInv, DiscardPrune PROVE RefInv'
<1> USE HandleFacts DEF RefInv, TypeInv, TypeOK, DiscardPrune, In, tracker, threads
<1> DEFINE h == task.h
<1>1. h \in Handles /\ task.op = "discard" /\ task.step = "prune" /\ att[h].phase = "cleaning"
  BY Zenon DEF TaskShape, Tasks
<1>2. CASE /\ att' = [att EXCEPT ![h].phase = "removed"]
           /\ Returns /\ UNCHANGED <<omits, said>>
  BY <1>1, <1>2, DiscardReturns, Zenon
<1>3. CASE att' = Remembered(h) /\ Throws /\ UNCHANGED <<omits, threads>>
  BY <1>1, <1>3, RememberedFacts, ThrowsKeeps, Zenon
<1>4. CASE \E r \in Owned(h) :
             /\ Kids(r) = {} /\ att' = Remembered(h) /\ omits' = Restored(h, r)
             /\ task' = [task EXCEPT !.rows = {r}, !.step = "pick"]
             /\ UNCHANGED <<chain, threads, stage>>
  <2>1. PICK r \in Owned(h) :
          /\ omits' = Restored(h, r) /\ task' = [task EXCEPT !.rows = {r}, !.step = "pick"]
    BY <1>4, Zenon
  <2>2. r \in Rows /\ omits' \subseteq omits
    BY <1>1, <2>1, OwnedFacts, Zenon DEF Restored
  <2>3. task' \in TaskRecord /\ SameTask /\ task'.step = "pick" /\ task'.rows = {r}
    BY <2>1, <2>2, Zenon DEF TaskRecord, SameTask
  <2>4. /\ att' \in [Handles -> Attempt] /\ Alike /\ Owned(h) \subseteq att'[h].owned
    BY <1>1, <1>4, RememberedFacts, Zenon
  <2>5. TypeInv'
    BY <1>4, <2>2, <2>3, <2>4, Zenon DEF TaskRecord
  <2>6. Attempts'
    BY <1>4, <2>4, AlikeAttempts, Zenon
  <2>7. Tasks'
    <3>1. /\ task'.op = "discard" /\ task'.h = h /\ task'.then = task.then
          /\ att'[h].phase = "cleaning" /\ task'.rows \subseteq att'[h].owned
      BY <1>1, <2>1, <2>3, <2>4, Zenon DEF SameTask, Alike
    <3> QED BY <1>1, <1>4, <2>3, <3>1, Zenon DEF Tasks, Works
  <2> QED BY <1>1, <1>4, <2>3, <2>4, <2>5, <2>6, <2>7, InOperation, Zenon
<1> QED BY <1>2, <1>3, <1>4, Zenon

(* The invariant survives the end of an adoption.                           *)
LEMMA AdoptDoneKeeps == ASSUME RefInv, AdoptDone PROVE RefInv'
<1> USE HandleFacts DEF RefInv, TypeInv, TypeOK, AdoptDone, In, tracker
<1> DEFINE h == task.h
           g == att[h].successor
<1>1. /\ h \in Handles /\ g \in Handles \ {h} /\ task.op = "adopt" /\ task.then \in {"idle", "spawn"}
      /\ att[h].phase = "adopting" /\ att[g].phase = "adopting" /\ att[g].successor = 0
      /\ \A k \in Handles \ {h} : att[k].phase = "adopting" => att[k].successor # g
      /\ ~Alive(h) /\ h \notin landed /\ g \notin landed
  BY DEF TaskShape, Tasks, Attempts, AttemptOK, Attempt
<1> HIDE DEF h, g
<1>2. att' = [att EXCEPT ![h].phase = "removed", ![g].phase = "writing"]
  BY DEF h, g
<1>3. /\ att'[h] = [att[h] EXCEPT !.phase = "removed"] /\ att'[g] = [att[g] EXCEPT !.phase = "writing"]
      /\ \A k \in Handles \ {h, g} : att'[k] = att[k]
  BY <1>1, <1>2
<1>4. att[h] \in Attempt /\ att[g] \in Attempt
  BY <1>1
<1>5. /\ att'[h] \in Attempt /\ att'[h].phase = "removed" /\ att'[g] \in Attempt /\ att'[g].phase = "writing"
      /\ att'[h].worker = att[h].worker /\ att'[h].successor = att[h].successor
      /\ att'[h].prepared = att[h].prepared
      /\ att'[g].worker = att[g].worker /\ att'[g].successor = att[g].successor
      /\ att'[g].prepared = att[g].prepared
  BY ONLY <1>3, <1>4 DEF Attempt
<1>6. att' \in [Handles -> Attempt]
  BY <1>2, <1>3, <1>5, Zenon
<1>7. Kin /\ \A k \in Handles : att'[k].prepared = att[k].prepared
  <2>1. ASSUME NEW k \in Handles
        PROVE  /\ att'[k].successor = att[k].successor /\ att'[k].worker = att[k].worker
               /\ (att'[k].phase = "none") <=> (att[k].phase = "none")
               /\ att'[k].prepared = att[k].prepared
    <3>1. CASE k = h
      BY <1>1, <1>5, <3>1
    <3>2. CASE k = g
      BY <1>1, <1>5, <3>2
    <3>3. CASE k \notin {h, g}
      BY <1>3, <3>3
    <3> QED BY <3>1, <3>2, <3>3
  <2> QED BY <2>1 DEF Kin
<1>8. ASSUME writer' = writer PROVE Attempts'
  <2>1. ASSUME NEW k \in Handles PROVE AttemptOK(k)'
    <3>0. AttemptOK(k) /\ att[k] \in Attempt
      BY DEF Attempts
    <3>1. CASE k = h
      BY <1>1, <1>5, <1>8, <3>0, <3>1, Zenon DEF AttemptOK, Alive
    <3>2. CASE k = g
      BY <1>1, <1>5, <1>8, <3>0, <3>2, Zenon DEF AttemptOK, Alive
    <3>3. CASE k \notin {h, g}
      <4>1. att'[k] = att[k] /\ att[k].successor \in Maybe
        BY <1>3, <3>0, <3>3 DEF Attempt
      <4>2. ASSUME att[k].phase = "adopting", att[k].successor # 0
            PROVE  att[k].successor \in Handles \ {h, g}
        BY <1>1, <3>0, <3>3, <4>1, <4>2 DEF AttemptOK, h, g
      <4>3. \A j \in Handles : att'[j].phase = "adopting" => att[j].phase = "adopting" /\ att'[j].successor = att[j].successor
        BY <1>3, <1>5, Zenon
      <4>4. att[k].phase = "adopting" /\ att[k].successor # 0 => att'[att[k].successor] = att[att[k].successor]
        BY <1>3, <4>2
      <4> QED BY <1>1, <1>8, <3>0, <4>1, <4>3, <4>4, AttemptStays, Zenon DEF Alive
    <3> QED BY <3>1, <3>2, <3>3
  <2> QED BY <2>1 DEF Attempts
<1>81. \A k \in Handles :
         /\ att[k].phase = "accepted" => att'[k].phase = "accepted"
         /\ att[k].phase \in {"writing", "stopping"} => att'[k].phase = att[k].phase
  BY <1>1, <1>3
<1>9. CASE task.then = "idle"
  <2>1. task' = Idle /\ UNCHANGED <<chain, writer, stage>> /\ stage # "visit"
    BY <1>1, <1>9 DEF Returns, After, TaskShape
  <2>2. TypeInv'
    BY <1>6, <2>1, IdleTask DEF Idle
  <2>3. ChainShape' /\ Attempts'
    BY <1>6, <1>7, <1>8, <2>1, KinChain
  <2>4. Writers'
    <3>1. UNCHANGED <<chain, writer, said>> /\ task'.op # "launch"
      BY <2>1 DEF Idle
    <3> QED BY <1>81, <3>1, WritersStay
  <2>5. Quiet'
    BY <2>1 DEF Quiet
  <2> QED BY <2>1, <2>2, <2>3, <2>4, <2>5, Ended
<1>10. CASE task.then = "spawn"
  <2>1. task' = [task EXCEPT !.op = "launch", !.step = "name"] /\ UNCHANGED <<chain, writer, stage>>
    BY <1>10 DEF Returns
  <2>2. /\ task' \in TaskRecord /\ task'.op = "launch" /\ task'.step = "name" /\ task'.h = task.h /\ task'.new = task.new
        /\ task'.then = task.then /\ task'.caught = task.caught
    BY <2>1 DEF TaskRecord
  <2>3. /\ MidLaunch /\ stage = "visit" /\ task.new \in Handles /\ task.new = g /\ h = chain.refinement
    BY <1>1, <1>10 DEF MidLaunch, TaskShape, LaunchShape, Naming, h, g
  <2>4. TypeInv'
    BY <1>6, <2>1, <2>2 DEF TaskRecord
  <2>5. TaskShape'
    BY <1>10, <2>1, <2>2, <2>3 DEF TaskShape
  <2>6. LaunchShape'
    BY <1>7, <2>1, <2>2, <2>3 DEF LaunchShape, MidLaunch, Gone, Kin
  <2>7. NobodyYet'
    BY <1>1, <1>10, <2>1, <2>2 DEF NobodyYet, Early, Works, Alive
  <2>8. Naming'
    BY <1>1, <1>3, <1>5, <1>10, <2>1, <2>2, <2>3, Zenon DEF Naming
  <2>9. FirstLaunch'
    BY <1>1, <1>3, <1>5, <1>10, <2>1, <2>2, <2>3, Zenon DEF FirstLaunch, Works
  <2>10. ChainShape' /\ Attempts'
    BY <1>6, <1>7, <1>8, <2>1, KinChain
  <2>11. Writers'
    <3>1. UNCHANGED <<chain, writer, said>> /\ task'.step # "receipt"
      BY <2>1, <2>2
    <3> QED BY <1>81, <3>1, WritersStay
  <2>12. Tasks'
    BY <2>2 DEF Tasks
  <2>13. Quiet'
    BY <1>1, <1>3, <1>5, <2>1, Zenon DEF Quiet
  <2> QED BY <2>4, <2>5, <2>6, <2>7, <2>8, <2>9, <2>10, <2>11, <2>12, <2>13
<1> QED BY <1>1, <1>9, <1>10

(* The invariant survives the check of a done report.                       *)
LEMMA AcceptReportKeeps == ASSUME RefInv, AcceptReport PROVE RefInv'
<1> USE HandleFacts DEF RefInv, TypeInv, TypeOK, AcceptReport, In, tracker, threads
<1> DEFINE h == task.h
           c == said[h].children
<1>1. CASE Refused /\ UNCHANGED att
  BY <1>1, RefusedKeeps
<1>2. CASE /\ chain.refinement = h /\ att[h].phase = "writing"
           /\ att' = [Remembered(h) EXCEPT ![h].phase = "accepting", ![h].worker = TRUE, ![h].children = c]
           /\ Goto("validate") /\ UNCHANGED <<chain, threads, stage>>
  <2>1. /\ h \in Handles /\ task.op = "accept" /\ stage = "visit" /\ chain.on /\ ~chain.held /\ chain.launching = 0
        /\ h = chain.handle /\ said[h] # None /\ att[h].worker /\ writer[h] # "none" /\ c \in SUBSET Rows
    BY <1>2 DEF TaskShape, Tasks, ChainShape, Report
  <2>2. task' \in TaskRecord /\ SameTask /\ task'.step = "validate"
    BY <1>2, StepFacts
  <2>3. att \in [Handles -> Attempt] /\ Owned(h) \in SUBSET Rows /\ att[h] \in Attempt
    BY <2>1, OwnedFacts
  <2>4. /\ att'[h] = [att[h] EXCEPT !.owned = @ \cup Owned(h), !.phase = "accepting", !.worker = TRUE, !.children = c]
        /\ \A k \in Handles \ {h} : att'[k] = att[k]
    BY <1>2, <2>1, <2>3 DEF Remembered
  <2>5. /\ att'[h] \in Attempt /\ att'[h].phase = "accepting" /\ att'[h].worker
        /\ att'[h].successor = att[h].successor /\ att'[h].prepared = att[h].prepared
    <3> HIDE DEF h, c
    <3>1. c \in SUBSET Rows
      BY <2>1
    <3> DEFINE b1 == [att[h] EXCEPT !.owned = @ \cup Owned(h)]
               b2 == [b1 EXCEPT !.phase = "accepting"]
               b3 == [b2 EXCEPT !.worker = TRUE]
    <3>2. b1 \in Attempt /\ b1.successor = att[h].successor /\ b1.prepared = att[h].prepared
      BY ONLY <2>3, Grown
    <3>3. att'[h] = [b3 EXCEPT !.children = c]
      BY ONLY <2>4
    <3> HIDE DEF b1
    <3>4. b2 \in Attempt /\ b2.phase = "accepting" /\ b2.successor = b1.successor /\ b2.prepared = b1.prepared
      BY ONLY <3>2 DEF Attempt
    <3> HIDE DEF b2
    <3>5. /\ b3 \in Attempt /\ b3.phase = b2.phase /\ b3.worker
          /\ b3.successor = b2.successor /\ b3.prepared = b2.prepared
      BY ONLY <3>4 DEF Attempt
    <3> HIDE DEF b3
    <3> QED BY ONLY <3>1, <3>2, <3>3, <3>4, <3>5 DEF Attempt
  <2>6. att' \in [Handles -> Attempt]
    BY <1>2, <2>3, <2>4, <2>5 DEF Remembered
  <2>7. Kin
    <3> HIDE DEF h, c
    <3> SUFFICES ASSUME NEW k \in Handles
                 PROVE  /\ att'[k].successor = att[k].successor /\ att'[k].worker = att[k].worker
                        /\ (att'[k].phase = "none") <=> (att[k].phase = "none")
      BY DEF Kin
    <3>1. CASE k = h
      <4>1. att[h].worker = TRUE /\ att'[h].worker = TRUE
        BY <2>1, <2>3, <2>5 DEF Attempt
      <4> QED BY <1>2, <2>5, <3>1, <4>1
    <3>2. CASE k # h
      BY <2>4, <3>2
    <3> QED BY <3>1, <3>2
  <2>8. TypeInv'
    BY <1>2, <2>2, <2>6 DEF TaskRecord
  <2>9. Attempts'
    <3> HIDE DEF h, c
    <3>1. ASSUME NEW k \in Handles PROVE AttemptOK(k)'
      <4>1. AttemptOK(k) /\ att[k] \in Attempt
        BY DEF Attempts
      <4>2. CASE k = h
        BY <1>2, <2>1, <2>5, <4>1, <4>2, Zenon DEF AttemptOK, Alive
      <4>3. CASE k # h
        <5>1. att'[k] = att[k] /\ att[k].successor \in Maybe
          BY <2>4, <4>1, <4>3 DEF Attempt
        <5>2. \A j \in Handles : att'[j].phase = "adopting" => att'[j] = att[j]
          BY <2>4, <2>5
        <5>3. att[k].phase = "adopting" /\ att[k].successor # 0 => att'[att[k].successor] = att[att[k].successor]
          BY <1>2, <2>1, <2>4, <4>1, <5>1 DEF AttemptOK
        <5> QED BY <1>2, <4>1, <5>1, <5>2, <5>3, AttemptStays DEF Alive
      <4> QED BY <4>2, <4>3
    <3> QED BY <3>1 DEF Attempts
  <2>10. Tasks'
    BY <1>2, <2>1, <2>2, <2>4, <2>5 DEF Tasks, SameTask, Works
  <2>11. Writers'
    BY <1>2, <2>1, <2>2, <2>4, <2>5 DEF Writers, OneWriter, Works, Threaded, SameTask, Chain
  <2>12. Quiet'
    BY <1>2, <2>1, <2>2, <2>4, <2>5 DEF Quiet, SameTask
  <2> QED BY <1>2, <2>1, <2>2, <2>6, <2>7, <2>8, <2>9, <2>10, <2>11, <2>12, KinOperation
<1> QED BY <1>1, <1>2

(* The invariant survives preparing, or recording, the landing of stubs.    *)
LEMMA AcceptLandKeeps == ASSUME RefInv, AcceptLand PROVE RefInv'
<1> USE HandleFacts DEF RefInv, TypeInv, TypeOK, AcceptLand, In, tracker, threads
<1> DEFINE h == task.h
<1>1. h \in Handles /\ task.op = "accept" /\ task.step = "land" /\ att[h].phase = "accepting" /\ att[h] \in Attempt
  BY DEF TaskShape, Tasks
<1>2. CASE Refused /\ UNCHANGED att
  BY <1>1, <1>2, RefusedKeeps
<1>3. CASE /\ att' = [att EXCEPT ![h].landed = TRUE] \/ att' = [att EXCEPT ![h].prepared = TRUE]
           /\ Goto("again") \/ (Goto("merge") /\ att' = [att EXCEPT ![h].prepared = TRUE])
           /\ UNCHANGED <<chain, threads, stage>>
  <2>1. /\ task' \in TaskRecord /\ SameTask /\ task'.step \in {"again", "merge"}
        /\ task'.step = "merge" => att' = [att EXCEPT ![h].prepared = TRUE]
    BY <1>3, StepFacts
  <2>2. /\ \A k \in Handles \ {h} : att'[k] = att[k]
        /\ att'[h] = [att[h] EXCEPT !.landed = TRUE] \/ att'[h] = [att[h] EXCEPT !.prepared = TRUE]
        /\ task'.step = "merge" => att'[h] = [att[h] EXCEPT !.prepared = TRUE]
    BY <1>1, <1>3, <2>1
  <2>3. /\ att'[h] \in Attempt /\ att'[h].phase = att[h].phase /\ att'[h].successor = att[h].successor
        /\ att'[h].worker = att[h].worker /\ (att[h].prepared => att'[h].prepared)
        /\ task'.step = "merge" => att'[h].prepared
    <3> HIDE DEF h
    <3> QED BY ONLY <1>1, <2>2 DEF Attempt
  <2>4. Alike
    BY <1>1, <2>2, <2>3 DEF Alike
  <2>5. att' \in [Handles -> Attempt]
    BY <1>3, <2>2, <2>3
  <2>6. TypeInv'
    BY <1>3, <2>1, <2>5 DEF TaskRecord
  <2>7. Attempts'
    BY <1>3, <2>4, <2>5, AlikeAttempts
  <2>8. Tasks'
    BY <1>1, <1>3, <2>1, <2>3 DEF Tasks, SameTask, Works
  <2> QED BY <1>1, <1>3, <2>1, <2>4, <2>6, <2>7, <2>8, InOperation
<1> QED BY <1>2, <1>3

(* The invariant survives the merge of stubs.                               *)
LEMMA AcceptMergeKeeps == ASSUME RefInv, AcceptMerge PROVE RefInv'
<1> USE HandleFacts DEF RefInv, TypeInv, TypeOK, AcceptMerge, In, tracker, saved, threads
<1>1. /\ task.h \in Handles /\ task.op = "accept" /\ att[task.h].phase = "accepting" /\ att[task.h].prepared
      /\ task' \in TaskRecord /\ SameTask /\ task'.step = "land" /\ Alike
  BY StepFacts, SameAlike DEF TaskShape, Tasks
<1>2. TypeInv'
  BY <1>1 DEF TaskRecord
<1>3. Attempts'
  BY <1>1 DEF Attempts, AttemptOK, Alive
<1>4. Tasks'
  BY <1>1 DEF Tasks, SameTask, Works
<1> QED BY <1>1, <1>2, <1>3, <1>4, InOperation

(* The invariant survives the end of an acceptance.                         *)
LEMMA AcceptDoneKeeps == ASSUME RefInv, AcceptDone PROVE RefInv'
<1> USE HandleFacts DEF RefInv, TypeInv, TypeOK, AcceptDone, In, tracker
<1> DEFINE h == task.h
<1>1. /\ h \in Handles /\ task.op = "accept" /\ task.then \in {"idle", "drop"} /\ att[h].phase = "accepting"
  BY DEF TaskShape, Tasks
<1>2. CASE Refused /\ UNCHANGED att
  BY <1>1, <1>2, RefusedKeeps
<1>3. CASE /\ att' = [att EXCEPT ![h].phase = "accepted"] /\ said' = [said EXCEPT ![h] = None] /\ Returns
  <2>1. /\ att' \in [Handles -> Attempt] /\ Kin /\ att'[h].phase = "accepted"
        /\ \A k \in Handles \ {h} : att'[k] = att[k]
        /\ \A k \in Handles : /\ att'[k].successor = att[k].successor /\ att'[k].worker = att[k].worker
                              /\ att'[k].prepared = att[k].prepared
    BY <1>1, <1>3, PhaseFacts
  <2>2. ASSUME writer' = writer \/ writer' = Retired({chain.handle})
        PROVE  /\ writer' \in [Handles -> {"none", "working", "idle", "stopped", "retired"}]
               /\ \A k \in Handles : /\ (writer'[k] = "none") <=> (writer[k] = "none")
                                     /\ Works(k)' => Works(k)
                                     /\ Alive(k)' => Alive(k)
    BY <2>2 DEF Retired, Threaded, Works, Alive
  <2>3. ASSUME writer' = writer \/ writer' = Retired({chain.handle})
        PROVE  Attempts'
    <3> HIDE DEF h
    <3>1. ASSUME NEW k \in Handles PROVE AttemptOK(k)'
      <4>1. AttemptOK(k) /\ att[k] \in Attempt
        BY DEF Attempts
      <4>2. CASE k = h
        BY <1>1, <1>3, <2>1, <2>2, <2>3, <4>1, <4>2 DEF AttemptOK
      <4>3. CASE k # h
        <5>1. att'[k] = att[k] /\ att[k].successor \in Maybe
          BY <2>1, <4>1, <4>3 DEF Attempt
        <5>2. \A j \in Handles : att'[j].phase = "adopting" => att'[j] = att[j]
          BY <2>1
        <5>3. att[k].phase = "adopting" /\ att[k].successor # 0 => att'[att[k].successor] = att[att[k].successor]
          BY <1>1, <2>1, <4>1, <5>1 DEF AttemptOK
        <5> QED BY <1>3, <2>2, <2>3, <4>1, <5>1, <5>2, <5>3, AttemptStays
      <4> QED BY <4>2, <4>3
    <3> QED BY <3>1 DEF Attempts
  <2>4. CASE task.then = "idle"
    <3>1. task' = Idle /\ UNCHANGED <<chain, writer, stage>> /\ stage # "visit"
      BY <1>1, <1>3, <2>4 DEF Returns, After, TaskShape
    <3>2. TypeInv'
      BY <1>3, <2>1, <3>1, IdleTask DEF Idle
    <3>3. ChainShape' /\ Attempts'
      BY <2>1, <2>3, <3>1, KinChain
    <3>4. Writers'
      BY <1>1, <1>3, <2>1, <3>1 DEF Writers, OneWriter, Works, Idle, Chain
    <3>5. Quiet'
      BY <3>1 DEF Quiet
    <3> QED BY <3>1, <3>2, <3>3, <3>4, <3>5, Ended
  <2>5. CASE task.then = "drop"
    <3>1. task' = Idle /\ chain' = NoChain /\ stage' = "between" /\ writer' \in {writer, Retired({chain.handle})}
      BY <1>1, <1>3, <2>5 DEF Returns, After, TaskShape
    <3>2. TypeInv'
      BY <1>3, <2>1, <2>2, <3>1, IdleTask DEF Idle, NoChain, Chain
    <3>3. Attempts'
      BY <2>3, <3>1
    <3>4. ChainShape'
      BY <3>1 DEF ChainShape, NoChain
    <3>6. OneWriter'
      BY <2>2, <3>1 DEF Writers, OneWriter, Works
    <3>7. Writers'
      BY <1>1, <2>1, <3>1, <3>6 DEF Writers, NoChain, Idle
    <3>5. Quiet'
      BY <3>1 DEF Quiet
    <3> QED BY <3>1, <3>2, <3>3, <3>4, <3>5, <3>7, Ended
  <2> QED BY <1>1, <2>4, <2>5
<1> QED BY <1>2, <1>3

(* The invariant survives a row a writer creates.                           *)
LEMMA CreateKeeps ==
  ASSUME RefInv, NEW k \in Handles, NEW r \in Rows, NEW p \in Rows \cup {Node}, Create(k, r, p) PROVE RefInv'
<1> USE DEF RefInv, TypeInv, TypeOK, Create, saved, threads, bounds, NoFault
<1>1. TypeInv'
  BY DEF Claims, TaskRecord
<1>2. ~(task.op = "discard" /\ task.step = "write" /\ task.row = r)
  BY DEF Tasks, Present
<1>3. Tasks'
  BY <1>2 DEF Tasks, Alive, Works, TaskRecord
<1>4. Attempts' /\ ChainShape' /\ Writers'
  BY DEF Attempts, AttemptOK, ChainShape, Writers, OneWriter, Works, Alive, Gone, Threaded
<1>5. LaunchShape' /\ NobodyYet' /\ FirstLaunch' /\ TaskShape' /\ Naming' /\ Quiet'
  BY DEF LaunchShape, NobodyYet, FirstLaunch, MidLaunch, Early, Works, Alive, Gone, TaskShape, Naming, Quiet
<1> QED BY <1>1, <1>3, <1>4, <1>5

(* The invariant survives a stage a writer omits.                           *)
LEMMA OmitKeeps ==
  ASSUME RefInv, NEW k \in Handles, NEW p \in Rows \cup {Node}, Omit(k, p) PROVE RefInv'
<1> USE DEF RefInv, TypeInv, TypeOK, Omit, saved, threads, bounds, NoFault
<1>1. TypeInv' /\ Tasks'
  BY DEF Tasks, Alive, Works, TaskRecord
<1>2. Attempts' /\ ChainShape' /\ Writers'
  BY DEF Attempts, AttemptOK, ChainShape, Writers, OneWriter, Works, Alive, Gone, Threaded
<1>3. LaunchShape' /\ NobodyYet' /\ FirstLaunch' /\ TaskShape' /\ Naming' /\ Quiet'
  BY DEF LaunchShape, NobodyYet, FirstLaunch, MidLaunch, Early, Works, Alive, Gone, TaskShape, Naming, Quiet
<1> QED BY <1>1, <1>2, <1>3

(* The invariant survives a row somebody else files.                        *)
LEMMA FileRowKeeps ==
  ASSUME RefInv, NEW r \in Rows, NEW p \in Rows \cup {Node}, FileRow(r, p) PROVE RefInv'
<1> USE DEF RefInv, TypeInv, TypeOK, FileRow, saved, threads, Meddle, Present
<1>1. TypeInv' /\ Tasks'
  BY DEF Tasks, Alive, Works, TaskRecord
<1>2. Attempts' /\ ChainShape' /\ Writers'
  BY DEF Attempts, AttemptOK, ChainShape, Writers, OneWriter, Works, Alive, Gone, Threaded
<1>3. LaunchShape' /\ NobodyYet' /\ FirstLaunch' /\ TaskShape' /\ Naming' /\ Quiet'
  BY DEF LaunchShape, NobodyYet, FirstLaunch, MidLaunch, Early, Works, Alive, Gone, TaskShape, Naming, Quiet
<1> QED BY <1>1, <1>2, <1>3

(* The invariant survives a claim somebody else takes.                      *)
LEMMA ReclaimKeeps == ASSUME RefInv, NEW r \in Rows, Reclaim(r) PROVE RefInv'
<1> USE DEF RefInv, TypeInv, TypeOK, Reclaim, saved, threads, Meddle, Present
<1>1. TypeInv'
  BY DEF Claims, TaskRecord
<1>2. Tasks'
  BY DEF Tasks, Alive, Works, TaskRecord
<1>3. Attempts' /\ ChainShape' /\ Writers'
  BY DEF Attempts, AttemptOK, ChainShape, Writers, OneWriter, Works, Alive, Gone, Threaded
<1>4. LaunchShape' /\ NobodyYet' /\ FirstLaunch' /\ TaskShape' /\ Naming' /\ Quiet'
  BY DEF LaunchShape, NobodyYet, FirstLaunch, MidLaunch, Early, Works, Alive, Gone, TaskShape, Naming, Quiet
<1> QED BY <1>1, <1>2, <1>3, <1>4

(* A thread that ends its turn or dies.                                     *)
LEMMA WritersTire ==
  ASSUME RefInv, TypeInv', Tasks', UNCHANGED <<att, chain, landed, stage, task>>,
         \A g \in Handles : /\ Works(g)' => Works(g) /\ said'[g] = said[g]
                            /\ Alive(g)' => Alive(g)
                            /\ Gone(g) => Gone(g)'
                            /\ (writer'[g] = "none") <=> (writer[g] = "none")
                            /\ Threaded(g)' <=> Threaded(g)
  PROVE  RefInv'
<1> USE HandleFacts DEF RefInv, TypeInv, TypeOK
<1>1. Attempts'
  BY DEF Attempts, AttemptOK
<1>2. ChainShape'
  BY DEF ChainShape, Chain
<1>3. OneWriter'
  BY DEF Writers, OneWriter, Works
<1>4. Writers'
  BY <1>3 DEF Writers, Chain, TaskRecord, LaunchShape, MidLaunch
<1>5. LaunchShape' /\ NobodyYet' /\ FirstLaunch'
  BY DEF LaunchShape, NobodyYet, FirstLaunch, MidLaunch, Early, TaskRecord, Chain
<1>6. TaskShape' /\ Naming' /\ Quiet'
  BY DEF TaskShape, Naming, Quiet
<1> QED BY <1>1, <1>2, <1>4, <1>5, <1>6

(* The invariant survives a writer's report.                                *)
LEMMA SaysKeeps ==
  ASSUME RefInv, NEW k \in Handles, NEW status \in {"done", "blocked", "checkpoint"}, Says(k, status) PROVE RefInv'
<1> USE HandleFacts DEF RefInv, TypeInv, TypeOK, Says, tracker, saved
<1>1. /\ writer' \in [Handles -> {"none", "working", "idle", "stopped", "retired"}]
      /\ \A g \in Handles : /\ Works(g)' => Works(g) /\ said'[g] = said[g]
                            /\ Alive(g)' => Alive(g)
                            /\ Gone(g) => Gone(g)'
                            /\ (writer'[g] = "none") <=> (writer[g] = "none")
                            /\ Threaded(g)' <=> Threaded(g)
  BY DEF Works, Alive, Gone, Threaded
<1>2. [status |-> status, children |-> IF status = "done" THEN Kids(Node) ELSE {}] \in Report
  BY DEF Report, Kids
<1>3. said' \in [Handles -> Report \cup {None}]
  BY <1>2
<1>4. TypeInv'
  BY <1>1, <1>3 DEF TaskRecord, NoFault, bounds
<1>5. Tasks'
  <2>1. task.op = "accept" /\ stage = "visit" => task.h # k
    BY DEF Tasks, Writers, Works
  <2> QED BY <1>1, <2>1 DEF Tasks, TaskShape
<1> QED BY <1>1, <1>4, <1>5, WritersTire

(* The invariant survives a writer's death.                                 *)
LEMMA DiesKeeps == ASSUME RefInv, NEW k \in Handles, Dies(k) PROVE RefInv'
<1> USE HandleFacts DEF RefInv, TypeInv, TypeOK, Dies, Halted, tracker, saved
<1>1. /\ writer' \in [Handles -> {"none", "working", "idle", "stopped", "retired"}]
      /\ \A g \in Handles : /\ Works(g)' => Works(g) /\ said'[g] = said[g]
                            /\ Alive(g)' => Alive(g)
                            /\ Gone(g) => Gone(g)'
                            /\ (writer'[g] = "none") <=> (writer[g] = "none")
                            /\ Threaded(g)' <=> Threaded(g)
  BY DEF Works, Alive, Gone, Threaded
<1>2. TypeInv'
  BY <1>1 DEF TaskRecord, NoFault, bounds
<1>3. Tasks'
  BY <1>1 DEF Tasks, TaskShape
<1> QED BY <1>1, <1>2, <1>3, WritersTire

(* The writer of the attempt an operation is about is stopped.              *)
LEMMA WriterStops ==
  ASSUME RefInv, NEW op \in {"discard", "adopt"}, NEW next \in {"clean", "collect"},
         op = "discard" <=> next = "clean", StopWriter(op, next)
  PROVE  RefInv'
<1> USE HandleFacts DEF RefInv, TypeInv, TypeOK, StopWriter, Halted, In, tracker, saved
<1>1. task.h \in Handles /\ task' \in TaskRecord /\ SameTask /\ task'.step = next /\ task.op = op
  BY StepFacts DEF TaskShape
<1>2. /\ writer' \in [Handles -> {"none", "working", "idle", "stopped", "retired"}]
      /\ ~Alive(task.h)'
      /\ \A g \in Handles : /\ Works(g)' => Works(g)
                            /\ Alive(g)' => Alive(g)
                            /\ Gone(g) => Gone(g)'
                            /\ (writer'[g] = "none") <=> (writer[g] = "none")
  BY <1>1 DEF Works, Alive, Gone, SameTask
<1>3. TypeInv'
  BY <1>1, <1>2 DEF TaskRecord, NoFault, bounds
<1>4. Attempts' /\ ChainShape'
  <2>1. \A g \in Handles : Threaded(g)' <=> Threaded(g)
    BY DEF Threaded
  <2> QED BY <1>2, <2>1 DEF Attempts, AttemptOK, ChainShape, Chain
<1>5. Writers'
  BY <1>1, <1>2 DEF Writers, OneWriter, Works, Chain, SameTask
<1>6. Tasks'
  BY <1>1, <1>2 DEF Tasks, SameTask
<1>7. TaskShape' /\ LaunchShape'
  BY <1>1, <1>2 DEF TaskShape, LaunchShape, MidLaunch, SameTask, TaskRecord, Idle, Chain
<1>8. NobodyYet' /\ FirstLaunch'
  BY <1>1, <1>2 DEF NobodyYet, FirstLaunch, MidLaunch, Early, SameTask, TaskRecord, Chain, LaunchShape
<1>9. Naming' /\ Quiet'
  BY <1>1, <1>2 DEF Naming, Quiet, SameTask
<1> QED BY <1>3, <1>4, <1>5, <1>6, <1>7, <1>8, <1>9

(* The process dies, starts or ends a tick.                                 *)
LEMMA Quits ==
  ASSUME RefInv, TypeInv', task' = Idle, stage' # "visit", UNCHANGED <<att, chain, landed, writer, said>>
  PROVE  RefInv'
<1>1. Attempts' /\ ChainShape'
  BY DEF RefInv, Attempts, AttemptOK, ChainShape, Alive, Gone, Threaded
<1>2. Writers' /\ Quiet'
  BY DEF RefInv, Writers, OneWriter, Works, Quiet, Idle
<1> QED BY <1>1, <1>2, Ended

(* The invariant survives a crash.                                          *)
LEMMA CrashKeeps == ASSUME RefInv, Crash PROVE RefInv'
<1>1. TypeInv' /\ task' = Idle /\ stage' = "down" /\ UNCHANGED <<att, chain, landed, writer, said>>
  BY IdleTask, HandleFacts DEF Crash, RefInv, TypeInv, TypeOK, Idle, tracker, saved, threads
<1> QED BY <1>1, Quits

(* The invariant survives a stop command.                                   *)
LEMMA StopKeeps == ASSUME RefInv, Stop PROVE RefInv'
<1>1. TypeInv' /\ task' = Idle /\ stage' = "stop" /\ UNCHANGED <<att, chain, landed, writer, said>>
  BY IdleTask, HandleFacts DEF Stop, RefInv, TypeInv, TypeOK, Idle, tracker, threads
<1> QED BY <1>1, Quits

(* The invariant survives a start, or a stop command that is repeated.      *)
LEMMA StartKeeps == ASSUME RefInv, Start \/ StopAgain PROVE RefInv'
<1>1. task = Idle
  BY DEF Start, StopAgain, RefInv, TaskShape
<1>2. TypeInv' /\ task' = Idle /\ stage' \in {"between", "stop"} /\ UNCHANGED <<att, chain, landed, writer, said>>
  BY <1>1, IdleTask, HandleFacts DEF Start, StopAgain, RefInv, TypeInv, TypeOK, tracker, saved, threads, NoFault, bounds
<1> QED BY <1>2, Quits

(* The invariant survives a tick without news.                              *)
LEMMA EndTickKeeps == ASSUME RefInv, EndTick PROVE RefInv'
<1>1. TypeInv' /\ task' = Idle /\ stage' = "between" /\ UNCHANGED <<att, chain, landed, writer, said>>
  BY DEF EndTick, Free, Enter, RefInv, TypeInv, TypeOK, tracker, saved, threads, NoFault, bounds
<1> QED BY <1>1, Quits

(* The invariant survives a stuttering step.                                *)
LEMMA QuietlyKeeps == ASSUME RefInv, UNCHANGED vars PROVE RefInv'
<1> USE DEF RefInv, vars, tracker, saved, threads, bounds
<1>1. TypeInv' /\ Attempts' /\ ChainShape'
  BY DEF TypeInv, TypeOK, Attempts, AttemptOK, ChainShape, Alive, Gone, Threaded
<1>2. Writers' /\ Quiet' /\ TaskShape' /\ Naming'
  BY DEF Writers, OneWriter, Works, Quiet, TaskShape, Naming, Threaded
<1>4. Tasks'
  BY DEF Tasks, Alive, Works
<1>3. LaunchShape' /\ NobodyYet' /\ FirstLaunch'
  BY DEF LaunchShape, NobodyYet, FirstLaunch, MidLaunch, Early, Works, Alive, Gone
<1> QED BY <1>1, <1>2, <1>3, <1>4

(* The invariant survives remembering the rows of every active attempt.     *)
LEMMA BeginTickKeeps == ASSUME RefInv, BeginTick PROVE RefInv'
<1> USE HandleFacts DEF RefInv, TypeInv, TypeOK, BeginTick, Free, Enter, tracker, threads, NoFault, bounds
<1>1. ASSUME NEW k \in Handles
      PROVE  /\ att'[k] \in Attempt
             /\ att'[k].phase = att[k].phase /\ att'[k].successor = att[k].successor
             /\ att'[k].worker = att[k].worker /\ (att[k].prepared => att'[k].prepared)
             /\ att[k].phase = "none" => att'[k] = att[k]
  <2>1. att[k] \in Attempt /\ Owned(k) \in SUBSET Rows
    BY OwnedFacts
  <2>2. CASE Active(k)
    <3>1. att'[k] = [att[k] EXCEPT !.owned = @ \cup Owned(k)] /\ att[k].phase # "none"
      BY <2>2 DEF Remembered, Active
    <3> QED BY ONLY <2>1, <3>1, Grown
  <2>3. CASE ~Active(k)
    BY <2>1, <2>3
  <2> QED BY <2>2, <2>3
<1>2. Alike
  BY <1>1 DEF Alike
<1>3. att' \in [Handles -> Attempt]
  <2>1. att' = [k \in Handles |-> att'[k]]
    OBVIOUS
  <2> QED BY <1>1, <2>1
<1>4. TypeInv' /\ task' = Idle /\ stage' = "recover"
  BY <1>3
<1>5. Attempts' /\ ChainShape'
  BY <1>2, <1>3, AlikeAttempts, AlikeKin, KinChain
<1>6. Writers' /\ Quiet'
  BY <1>2, <1>4 DEF Writers, OneWriter, Works, Quiet, Alike, Idle, Chain
<1> QED BY <1>4, <1>5, <1>6, Ended

(* The visit, recovery or the stop command starts an operation.             *)
LEMMA BusyKeeps ==
  ASSUME RefInv, task = Idle, NEW op \in {"discard", "adopt", "accept"}, NEW k \in Handles,
         NEW step \in {"check", "stop", "validate", "report"}, NEW then \in {"idle", "hold", "drop"}, NEW caught \in BOOLEAN,
         Busy(op, k, step, then, caught), Tasks', UNCHANGED <<tracker, att, chain, stopping, landed, writer, stage>>,
         said' \in [Handles -> Report \cup {None}], \A g \in Handles : said'[g] \in {said[g], None},
         stage \in {"recover", "visit", "stop"}, stage = "visit" <=> then # "idle", caught => then # "idle",
         op = "discard" => step = "check",
         op = "adopt" => step = "stop" /\ then = "idle",
         op = "accept" => step \in {"validate", "report"} /\ then \in {"idle", "drop"} /\ stage # "stop"
  PROVE  RefInv'
<1> USE HandleFacts DEF RefInv, TypeInv, TypeOK, tracker
<1>1. /\ task' \in TaskRecord /\ task'.op = op /\ task'.h = k /\ task'.step = step /\ task'.then = then
      /\ task'.caught = caught
  BY Zenon DEF Busy, TaskRecord, Idle
<1>2. TypeInv'
  BY <1>1 DEF TaskRecord
<1>3. TaskShape'
  BY <1>1 DEF TaskShape
<1>4. ~MidLaunch' /\ ~Early'
  BY <1>1 DEF MidLaunch, Early
<1>5. LaunchShape' /\ NobodyYet' /\ FirstLaunch' /\ Naming'
  BY <1>1, <1>4 DEF LaunchShape, NobodyYet, FirstLaunch, Naming
<1>6. ChainShape' /\ Attempts'
  BY DEF ChainShape, Attempts, AttemptOK, Alive, Gone, Threaded
<1>7. Writers' /\ Quiet'
  BY <1>1 DEF Writers, OneWriter, Works, Quiet, Idle, Chain
<1> QED BY <1>2, <1>3, <1>5, <1>6, <1>7

(* The invariant survives the start of a recovery.                          *)
LEMMA RecoverKeeps == ASSUME RefInv, NEW k \in Handles, Recover(k) PROVE RefInv'
<1> USE DEF RefInv, TypeInv, TypeOK, Recover, Free, tracker, saved, threads, NoFault, bounds
<1>1. Pending(k)
  BY DEF FirstOf
<1>2. CASE att[k].phase = "adopting" /\ Busy("adopt", k, "stop", "idle", FALSE)
  <2>1. Tasks'
    BY <1>1, <1>2 DEF Tasks, Busy, Idle, Pending
  <2> QED BY <1>2, <2>1, BusyKeeps
<1>3. CASE att[k].phase = "accepting" /\ Busy("accept", k, "validate", "idle", FALSE)
  <2>1. Tasks'
    BY <1>3 DEF Tasks, Busy, Idle
  <2> QED BY <1>3, <2>1, BusyKeeps
<1>4. CASE Busy("discard", k, "check", "idle", FALSE)
  <2>1. Tasks'
    BY <1>4 DEF Tasks, Busy, Idle
  <2> QED BY <1>4, <2>1, BusyKeeps
<1> QED BY <1>2, <1>3, <1>4

(* The invariant survives the stop command's next attempt.                  *)
LEMMA StopNextKeeps == ASSUME RefInv, NEW k \in Handles, StopNext(k) PROVE RefInv'
<1> USE DEF RefInv, TypeInv, TypeOK, StopNext, Free, tracker, saved, threads, NoFault, bounds
<1>1. CASE FirstOf(k, HalfAdopted) /\ Busy("adopt", k, "stop", "idle", FALSE)
  <2>1. HalfAdopted(k)
    BY <1>1 DEF FirstOf
  <2>2. Tasks'
    BY <1>1, <2>1 DEF Tasks, Busy, Idle, HalfAdopted
  <2> QED BY <1>1, <2>2, BusyKeeps
<1>2. CASE Busy("discard", k, "check", "idle", FALSE)
  <2>1. Tasks'
    BY <1>2 DEF Tasks, Busy, Idle
  <2> QED BY <1>2, <2>1, BusyKeeps
<1> QED BY <1>1, <1>2

(* A chain past its launch has its attempt's thread for a handle.           *)
LEMMA LaunchedFacts ==
  ASSUME RefInv, OnVisit, Launched
  PROVE  /\ chain.on /\ ~chain.held /\ task = Idle /\ stage = "visit" /\ chain.launching = 0
         /\ chain.handle \in Handles /\ chain.refinement = chain.handle /\ writer[chain.handle] # "none"
         /\ Works(chain.handle) => said[chain.handle] = None
  BY HandleFacts DEF RefInv, TypeInv, TypeOK, OnVisit, Launched, Free, ChainShape, Writers, Chain

(* The invariant survives a done report.                                    *)
LEMMA OnDoneKeeps == ASSUME RefInv, OnDone PROVE RefInv'
<1> USE DEF RefInv, TypeInv, TypeOK, OnDone, Reported, tracker, saved, threads, NoFault, bounds
<1>1. Tasks'
  BY LaunchedFacts DEF Tasks, Busy, Idle
<1> QED BY <1>1, LaunchedFacts, BusyKeeps

(* The invariant survives a blocked report.                                 *)
LEMMA OnBlockedKeeps == ASSUME RefInv, OnBlocked PROVE RefInv'
<1> USE DEF RefInv, TypeInv, TypeOK, OnBlocked, Reported, Heard, tracker, saved, threads, NoFault, bounds
<1>1. Tasks'
  BY LaunchedFacts DEF Tasks, Busy, Idle, Works
<1> QED BY <1>1, LaunchedFacts, BusyKeeps

(* A chain that goes away leaves nobody at work but the writer of an        *)
(* accepted attempt.                                                        *)
LEMMA LeftForGood ==
  ASSUME RefInv, task = Idle, task' = Idle, stage' # "visit", TypeInv', chain' = NoChain,
         UNCHANGED <<att, landed, said>>,
         \A g \in Handles : /\ Works(g)' => Works(g) /\ \E k \in Handles : att[k].phase = "accepted"
                            /\ Alive(g)' => Alive(g)
                            /\ (writer'[g] = "none") <=> (writer[g] = "none")
  PROVE  RefInv'
<1> USE DEF RefInv, TypeInv, TypeOK
<1>1. Attempts'
  BY DEF Attempts, AttemptOK
<1>2. ChainShape'
  BY DEF ChainShape, NoChain
<1>3. OneWriter'
  BY DEF Writers, OneWriter, Works
<1>4. Writers'
  BY <1>3 DEF Writers, NoChain, Idle
<1>5. Quiet'
  BY DEF Quiet
<1> QED BY <1>1, <1>2, <1>4, <1>5, Ended

(* Retiring threads starts none.                                            *)
LEMMA RetiredFacts ==
  ASSUME TypeInv, NEW S, writer' \in {writer, Retired(S)}
  PROVE  /\ writer' \in [Handles -> {"none", "working", "idle", "stopped", "retired"}]
         /\ \A g \in Handles : /\ Works(g)' => Works(g)
                               /\ Alive(g)' => Alive(g)
                               /\ Gone(g) => Gone(g)'
                               /\ (writer'[g] = "none") <=> (writer[g] = "none")
  BY HandleFacts DEF TypeInv, TypeOK, Retired, Threaded, Works, Alive, Gone

(* The invariant survives the end of a refinement.                          *)
LEMMA DeliverKeeps == ASSUME RefInv, Deliver PROVE RefInv'
<1> USE HandleFacts DEF RefInv, TypeInv, TypeOK, Deliver, OnVisit, Free, Enter, tracker, NoFault, bounds
<1>1. \E k \in Handles : att[k].phase = "accepted"
  BY DEF Accepted, Chain
<1>2. /\ writer' \in [Handles -> {"none", "working", "idle", "stopped", "retired"}]
      /\ \A g \in Handles : /\ Works(g)' => Works(g)
                            /\ Alive(g)' => Alive(g)
                            /\ (writer'[g] = "none") <=> (writer[g] = "none")
  BY RetiredFacts
<1>3. TypeInv'
  BY <1>2 DEF NoChain, Chain
<1> QED BY <1>1, <1>2, <1>3, LeftForGood

(* The invariant survives the end of a stop command.                        *)
LEMMA StopEndsKeeps == ASSUME RefInv, StopEnds PROVE RefInv'
<1> USE HandleFacts DEF RefInv, TypeInv, TypeOK, StopEnds, Free, Enter, tracker, NoFault, bounds
<1>1. /\ writer' \in [Handles -> {"none", "working", "idle", "stopped", "retired"}]
      /\ \A g \in Handles : /\ ~Works(g)'
                            /\ Alive(g)' => Alive(g)
                            /\ (writer'[g] = "none") <=> (writer[g] = "none")
  BY DEF Retired, Threaded, Works, Alive
<1>2. TypeInv'
  BY <1>1 DEF NoChain, Chain
<1> QED BY <1>1, <1>2, LeftForGood

(* A resolution is of a held chain.                                         *)
LEMMA ResolveFacts ==
  ASSUME RefInv, OnResolve
  PROVE  chain.on /\ chain.held /\ task = Idle /\ stage = "visit"
  BY DEF OnResolve, Free, RefInv, ChainShape, NoChain

(* The invariant survives a redispatch.                                     *)
LEMMA RedispatchKeeps == ASSUME RefInv, Redispatch PROVE RefInv'
<1> USE HandleFacts, ResolveFacts DEF RefInv, TypeInv, TypeOK, Redispatch, tracker, NoFault, bounds
<1>1. CASE /\ chain.refinement # 0 /\ Busy("discard", chain.refinement, "check", "drop", FALSE)
           /\ UNCHANGED <<chain, writer, stage>>
  <2>1. Tasks' /\ chain.refinement \in Handles
    BY <1>1 DEF Tasks, Busy, Idle, Chain
  <2> QED BY <1>1, <2>1, BusyKeeps
<1>2. CASE /\ ~(chain.refinement # 0 /\ Active(chain.refinement))
           /\ chain' = NoChain /\ writer' \in {writer, Retired({chain.handle})} /\ Enter("between")
  <2>1. /\ writer' \in [Handles -> {"none", "working", "idle", "stopped", "retired"}]
        /\ \A g \in Handles : /\ Works(g)' => Works(g)
                              /\ Alive(g)' => Alive(g)
                              /\ (writer'[g] = "none") <=> (writer[g] = "none")
    BY <1>2, RetiredFacts
  <2>2. \A g \in Handles : ~Works(g)
    BY <1>2 DEF Writers, ChainShape, Active
  <2>3. TypeInv' /\ task' = Idle /\ stage' = "between"
    BY <1>2, <2>1 DEF NoChain, Chain, Enter
  <2> QED BY <1>2, <2>1, <2>2, <2>3, LeftForGood
<1> QED BY <1>1, <1>2

(* A message that resumes the chain's writer makes it the only one.         *)
LEMMA Resumed ==
  ASSUME RefInv, chain.on, task = Idle, task' = Idle, stage' = "between",
         chain.handle \in Handles, Alive(chain.handle),
         writer' = [writer EXCEPT ![chain.handle] = "working"], Heard,
         UNCHANGED <<tracker, att, stopping, landed>>,
         \/ chain' = chain /\ ~chain.held
         \/ chain' = [chain EXCEPT !.held = FALSE]
  PROVE  RefInv'
<1> USE HandleFacts DEF RefInv, TypeInv, TypeOK, Heard, tracker
<1>1. /\ chain' \in Chain /\ chain'.on /\ ~chain'.held /\ chain'.refinement = chain.refinement
      /\ chain'.handle = chain.handle /\ chain'.launching = chain.launching
  BY DEF Chain
<1>2. chain.handle = chain.refinement
  BY DEF ChainShape, Gone, Alive
<1>3. TypeInv' /\ Quiet'
  BY <1>1 DEF Quiet
<1>4. Attempts'
  BY DEF Attempts, AttemptOK, Alive
<1>5. ChainShape'
  BY <1>1, <1>2 DEF ChainShape, Alive, Gone, Threaded
<1>6. Writers'
  BY <1>1, <1>2 DEF Writers, OneWriter, Works, Idle
<1> QED BY <1>3, <1>4, <1>5, <1>6, Ended

(* The invariant survives an owner's answer.                                *)
LEMMA AnswerKeeps == ASSUME RefInv, Answer PROVE RefInv'
<1>1. /\ chain.on /\ task = Idle /\ task' = Idle /\ stage' = "between"
      /\ chain.handle \in Handles /\ Alive(chain.handle)
  BY ResolveFacts, HandleFacts DEF Answer, Enter, Dead, RefInv, TypeInv, TypeOK, ChainShape, Alive, Chain
<1> QED BY <1>1, Resumed DEF Answer

(* A checkpoint resumes a writer that is not gone.                          *)
LEMMA CheckpointKeeps ==
  ASSUME RefInv, OnVisit, Launched, ~Dead, Heard, Enter("between"),
         writer' = [writer EXCEPT ![chain.handle] = "working"], UNCHANGED <<tracker, saved, landed>>
  PROVE  RefInv'
<1>1. Alive(chain.handle)
  BY LaunchedFacts DEF RefInv, TypeInv, TypeOK, Dead, Alive
<1> QED BY <1>1, LaunchedFacts, Resumed DEF Enter, saved

(* The invariant survives a failed command.                                 *)
LEMMA CommandFailsKeeps == ASSUME RefInv, CommandFails PROVE RefInv'
<1>1. CASE task.op = "accept"
  BY <1>1, RefusedKeeps DEF CommandFails, Fails
<1>2. CASE task.op # "accept"
  BY <1>2, ThrowsKeeps, SameAlike DEF CommandFails, Fails, RefInv, TypeInv, TypeOK
<1> QED BY <1>1, <1>2

(* A fresh handle is one no launch has used.                                *)
LEMMA FreshFacts == Fresh # 0 => Fresh \in Handles \ Used
<1> DEFINE T == Handles \ Used
           Less == OpToRel(<, Nat)
<1>1. CASE Used = Handles
  BY <1>1 DEF Fresh
<1>2. CASE Used # Handles
  <2>1. T \subseteq Nat /\ T # {}
    BY <1>2, BoundAssumption DEF Used, Handles
  <2>2. IsWellFoundedOn(Less, Nat)
    BY NatLessThanWellFounded, Zenon
  <2>3. \A x, y \in Nat : y < x => <<y, x>> \in Less
    BY DEF OpToRel
  <2> HIDE DEF T, Less
  <2>4. \E x \in T : \A y \in T : ~ (<<y, x>> \in Less)
    BY <2>1, <2>2, WFMin
  <2>5. \E x \in T : \A y \in T : x <= y
    <3>1. PICK x \in T : \A y \in T : ~ (<<y, x>> \in Less)
      BY <2>4
    <3>2. \A y \in T : ~ (y < x)
      BY <2>1, <2>3, <3>1
    <3>3. \A y \in T : x <= y
      BY <2>1, <3>2
    <3> QED BY <3>3
  <2>6. Fresh = CHOOSE x \in T : \A y \in T : x <= y
    BY <1>2 DEF Fresh, T
  <2>7. Fresh \in T
    BY <2>5, <2>6
  <2> QED BY <2>7 DEF T
<1> QED BY <1>1, <1>2

(* A launch that goes on: what is left to show.                             *)
LEMMA Launches ==
  ASSUME RefInv, TypeInv', TaskShape', stage' = "visit", LaunchShape', NobodyYet', Naming', FirstLaunch',
         ChainShape', Attempts', Writers', Tasks',
         \A k \in Handles : att'[k].phase \notin {"stopping", "cleaning"} \/ (task'.op = "discard" /\ task'.h = k)
  PROVE  RefInv'
<1>1. Quiet'
  BY DEF Quiet
<1> QED BY <1>1 DEF RefInv

(* What a launch's own steps may count on.                                  *)
LEMMA LaunchFacts ==
  ASSUME RefInv, task.op = "launch"
  PROVE  /\ chain.on /\ ~chain.held /\ stage = "visit"
         /\ task.new \in Handles /\ chain.launching = task.new /\ chain.handle # task.new
         /\ ~att[task.new].worker /\ att[task.new].successor = 0
         /\ \A k \in Handles : att[k].phase \notin {"stopping", "cleaning"}
         /\ chain.refinement \in Handles \cup {0} /\ chain.handle \in Handles \cup {0}
         /\ chain.handle # 0 => Gone(chain.handle)
  BY HandleFacts DEF RefInv, TypeInv, TypeOK, TaskShape, LaunchShape, MidLaunch, ChainShape, Quiet, Chain

(* The invariant survives the beginning of an attempt.                      *)
LEMMA LaunchBeginKeeps == ASSUME RefInv, LaunchBegin PROVE RefInv'
<1> USE HandleFacts DEF RefInv, TypeInv, TypeOK, LaunchBegin, In, Goto, OnlyAtt, bounds, tracker, threads
<1> DEFINE h == task.new
<1>1. /\ task' \in TaskRecord /\ task'.op = "launch" /\ task'.step = "name" /\ task'.h = task.h /\ task'.new = h
      /\ task'.then = task.then /\ task'.caught = task.caught
  BY DEF TaskRecord
<1>2. [NoAttempt EXCEPT !.phase = "writing", !.baseline = Subtree] \in Attempt
  BY Zenon DEF NoAttempt, Attempt, Subtree
<1>3. /\ att' \in [Handles -> Attempt] /\ \A k \in Handles \ {h} : att'[k] = att[k]
      /\ att[h].phase # "none" => att' = att
      /\ att[h].phase = "none" => att'[h].phase = "writing"
      /\ ~att'[h].worker /\ att'[h].successor = 0 /\ (att[h].phase = "none" => ~att'[h].prepared)
  BY <1>2, LaunchFacts DEF NoAttempt
<1>4. TypeInv'
  BY <1>1, <1>3 DEF TaskRecord
<1>5. TaskShape'
  BY <1>1 DEF TaskShape
<1>6. LaunchShape' /\ NobodyYet'
  BY <1>1, <1>3, LaunchFacts DEF LaunchShape, NobodyYet, MidLaunch, Early, Works, Alive, Gone
<1>7. Naming' /\ FirstLaunch'
  BY <1>1, <1>3, LaunchFacts DEF Naming, FirstLaunch, MidLaunch
<1>8. ChainShape'
  BY <1>3, LaunchFacts DEF ChainShape, Alive, Gone, Threaded
<1>9. Attempts'
  <2> HIDE DEF h
  <2>1. ASSUME NEW k \in Handles PROVE AttemptOK(k)'
    <3>1. AttemptOK(k) /\ att[k] \in Attempt
      BY DEF Attempts
    <3>2. CASE att[h].phase # "none"
      BY <1>3, <3>1, <3>2 DEF AttemptOK, Alive
    <3>3. CASE att[h].phase = "none" /\ k = h
      BY <1>3, <3>1, <3>3, LaunchFacts DEF AttemptOK
    <3>4. CASE att[h].phase = "none" /\ k # h
      <4>1. att'[k] = att[k] /\ att[k].successor \in Maybe /\ h \in Handles
        BY <1>3, <3>1, <3>4, LaunchFacts DEF Attempt, h
      <4>2. \A j \in Handles : att'[j].phase = "adopting" => att'[j] = att[j]
        BY <1>3, <3>4
      <4>3. att[k].phase = "adopting" /\ att[k].successor # 0 => att'[att[k].successor] = att[att[k].successor]
        BY <1>3, <3>1, <3>4, <4>1 DEF AttemptOK
      <4> QED BY <3>1, <4>1, <4>2, <4>3, AttemptStays DEF Alive
    <3> QED BY <3>2, <3>3, <3>4
  <2> QED BY <2>1 DEF Attempts
<1>10. Writers'
  BY <1>1, LaunchFacts DEF Writers, OneWriter, Works, Threaded
<1>11. Tasks'
  BY <1>1 DEF Tasks
<1> QED BY <1>1, <1>3, <1>4, <1>5, <1>6, <1>7, <1>8, <1>9, <1>10, <1>11, LaunchFacts, Launches

(* The invariant survives naming the attempt in the chain.                  *)
LEMMA LaunchNameKeeps == ASSUME RefInv, LaunchName PROVE RefInv'
<1> USE HandleFacts DEF RefInv, TypeInv, TypeOK, LaunchName, In, Goto, NoFault, bounds, tracker, threads
<1> DEFINE h == task.new
           R == chain.refinement
<1>1. /\ task' \in TaskRecord /\ task'.op = "launch" /\ task'.step = "spawn" /\ task'.h = task.h /\ task'.new = h
      /\ task'.then = task.then /\ task'.caught = task.caught
  BY DEF TaskRecord
<1>2. /\ chain' \in Chain /\ chain'.refinement = h /\ chain'.on /\ ~chain'.held
      /\ chain'.handle = chain.handle /\ chain'.launching = h
  BY LaunchFacts DEF Chain
<1>3. task.then = "begin" => R \in Handles \ {h} /\ att[R].phase = "removed" /\ ~Alive(R)
  BY LaunchFacts DEF Naming, NobodyYet, Early
<1>4. /\ att' \in [Handles -> Attempt]
      /\ \A k \in Handles : /\ att'[k].phase = att[k].phase /\ att'[k].worker = att[k].worker
                            /\ att'[k].prepared = att[k].prepared
                            /\ (task.then # "begin" \/ k # R) => att'[k] = att[k]
  <2>1. CASE task.then # "begin"
    BY <2>1
  <2>2. CASE task.then = "begin"
    <3>1. /\ att'[R] = [att[R] EXCEPT !.successor = h] /\ att[R] \in Attempt /\ h \in Maybe
          /\ \A k \in Handles \ {R} : att'[k] = att[k]
      BY <1>3, <2>2
    <3>2. /\ att'[R] \in Attempt /\ att'[R].phase = att[R].phase /\ att'[R].worker = att[R].worker
          /\ att'[R].prepared = att[R].prepared
      <4> HIDE DEF R, h
      <4> QED BY ONLY <3>1 DEF Attempt
    <3>3. att' \in [Handles -> Attempt]
      BY <2>2, <3>1, <3>2
    <3> QED BY <1>3, <2>2, <3>1, <3>2, <3>3
  <2> QED BY <2>1, <2>2
<1>5. TypeInv'
  BY <1>1, <1>2, <1>4 DEF TaskRecord
<1>6. TaskShape' /\ Tasks'
  BY <1>1, LaunchFacts DEF TaskShape, Tasks
<1>7. LaunchShape' /\ NobodyYet'
  BY <1>1, <1>2, <1>4, LaunchFacts DEF LaunchShape, NobodyYet, MidLaunch, Early, Works, Alive, Gone
<1>8. Naming' /\ FirstLaunch'
  BY <1>1, <1>2, <1>4, LaunchFacts DEF Naming, FirstLaunch, MidLaunch
<1>9. ChainShape'
  BY <1>2, <1>3, <1>4, LaunchFacts DEF ChainShape, Alive, Gone, Threaded, Naming
<1>10. Attempts'
  <2> HIDE DEF h, R
  <2>1. ASSUME NEW k \in Handles PROVE AttemptOK(k)'
    <3>1. AttemptOK(k) /\ att[k] \in Attempt
      BY DEF Attempts
    <3>2. CASE task.then = "begin" /\ k = R
      BY <1>3, <1>4, <3>1, <3>2 DEF AttemptOK, Alive
    <3>3. CASE task.then # "begin" \/ k # R
      <4>1. att'[k] = att[k] /\ att[k].successor \in Maybe
        BY <1>4, <3>1, <3>3 DEF Attempt
      <4>2. \A j \in Handles : att'[j].phase = "adopting" => att'[j] = att[j]
        BY <1>3, <1>4
      <4>3. att[k].phase = "adopting" /\ att[k].successor # 0 => att'[att[k].successor] = att[att[k].successor]
        BY <1>3, <1>4, <3>1, <4>1 DEF AttemptOK
      <4> QED BY <3>1, <4>1, <4>2, <4>3, AttemptStays DEF Alive
    <3> QED BY <3>2, <3>3
  <2> QED BY <2>1 DEF Attempts
<1>11. Writers'
  BY <1>1, <1>2, LaunchFacts DEF Writers, OneWriter, Works, NobodyYet, Early, Gone
<1> QED BY <1>1, <1>4, <1>5, <1>6, <1>7, <1>8, <1>9, <1>10, <1>11, LaunchFacts, Launches

(* A thread that comes up is the only one at work: nobody was, and the      *)
(* chain names its attempt.                                                 *)
LEMMA SpawnFacts ==
  ASSUME RefInv, task.op = "launch", task.step = "spawn",
         writer' \in {writer, [writer EXCEPT ![task.new] = "working"]},
         \A g \in Handles \ {task.new} : said'[g] = said[g],
         UNCHANGED <<att, chain, landed>>, task'.step = "receipt" => writer'[task.new] = "working" /\ said'[task.new] = None,
         task'.new = task.new
  PROVE  /\ writer' \in [Handles -> {"none", "working", "idle", "stopped", "retired"}]
         /\ \A g \in Handles \ {task.new} : writer'[g] = writer[g]
         /\ chain.refinement = task.new
         /\ ChainShape' /\ Attempts' /\ Writers'
<1> USE HandleFacts DEF RefInv, TypeInv, TypeOK
<1>1. /\ writer' \in [Handles -> {"none", "working", "idle", "stopped", "retired"}]
      /\ \A g \in Handles \ {task.new} : writer'[g] = writer[g]
      /\ writer[task.new] # "none" => writer'[task.new] # "none"
      /\ Threaded(task.new) => Threaded(task.new)'
      /\ Gone(task.new)' => writer' = writer
  BY LaunchFacts DEF Threaded, Gone
<1>2. chain.refinement = task.new /\ \A g \in Handles : ~Works(g)
  BY DEF Naming, NobodyYet, Early
<1>3. ChainShape'
  BY <1>1, <1>2, LaunchFacts DEF ChainShape, Gone, Threaded
<1>4. Attempts'
  BY <1>1, LaunchFacts DEF Attempts, AttemptOK, Alive
<1>5. Writers'
  BY <1>1, <1>2, LaunchFacts DEF Writers, OneWriter, Works, Threaded, Gone
<1> QED BY <1>1, <1>2, <1>3, <1>4, <1>5

(* The invariant survives the spawn.                                        *)
LEMMA LaunchSpawnKeeps == ASSUME RefInv, LaunchSpawn PROVE RefInv'
<1> USE HandleFacts DEF RefInv, TypeInv, TypeOK, LaunchSpawn, In, Goto, NoFault, bounds, tracker, saved
<1> DEFINE h == task.new
<1>1. /\ task' \in TaskRecord /\ task'.op = "launch" /\ task'.step = "receipt" /\ task'.h = task.h /\ task'.new = h
      /\ task'.then = task.then /\ task'.caught = task.caught
  BY DEF TaskRecord
<1>2. /\ writer' \in [Handles -> {"none", "working", "idle", "stopped", "retired"}]
      /\ \A g \in Handles \ {h} : writer'[g] = writer[g]
      /\ chain.refinement = h /\ ChainShape' /\ Attempts' /\ Writers'
  BY <1>1, SpawnFacts, LaunchFacts
<1>3. TypeInv'
  BY <1>1, <1>2 DEF TaskRecord
<1>4. TaskShape' /\ Tasks'
  BY <1>1, LaunchFacts DEF TaskShape, Tasks
<1>5. LaunchShape' /\ NobodyYet'
  BY <1>1, <1>2, LaunchFacts DEF LaunchShape, NobodyYet, MidLaunch, Early, Gone
<1>6. Naming' /\ FirstLaunch'
  BY <1>1, <1>2, LaunchFacts DEF Naming, FirstLaunch, MidLaunch
<1> QED BY <1>1, <1>2, <1>3, <1>4, <1>5, <1>6, LaunchFacts, Launches

(* The invariant survives a spawn that fails.                               *)
LEMMA LaunchFailsKeeps == ASSUME RefInv, LaunchFails PROVE RefInv'
<1> USE HandleFacts DEF RefInv, TypeInv, TypeOK, LaunchFails, In, tracker, saved
<1> DEFINE h == task.new
<1>1. /\ task' \in TaskRecord /\ task'.op = "discard" /\ task'.step = "check" /\ task'.h = h /\ task'.new = h
      /\ task'.then = "failed" /\ task'.caught = task.caught
  BY LaunchFacts DEF TaskRecord
<1>2. /\ writer' \in [Handles -> {"none", "working", "idle", "stopped", "retired"}]
      /\ \A g \in Handles \ {h} : writer'[g] = writer[g]
      /\ chain.refinement = h /\ ChainShape' /\ Attempts' /\ Writers'
  BY <1>1, SpawnFacts, LaunchFacts
<1>3. TypeInv'
  BY <1>1, <1>2 DEF TaskRecord
<1>4. TaskShape' /\ Tasks'
  BY <1>1, LaunchFacts DEF TaskShape, Tasks
<1>5. LaunchShape' /\ NobodyYet'
  BY <1>1, <1>2, LaunchFacts DEF LaunchShape, NobodyYet, MidLaunch, Early, Gone
<1>6. Naming' /\ FirstLaunch'
  BY <1>1, <1>2, LaunchFacts DEF Naming, FirstLaunch, MidLaunch
<1> QED BY <1>1, <1>2, <1>3, <1>4, <1>5, <1>6, LaunchFacts, Launches

(* The invariant survives what follows a failed launch.                     *)
LEMMA LaunchFailedKeeps == ASSUME RefInv, LaunchFailed PROVE RefInv'
<1> USE HandleFacts DEF RefInv, TypeInv, TypeOK, LaunchFailed, In, NoFault, bounds, tracker
<1> DEFINE n == task.new
<1>0. task.op = "launch" /\ att' = att /\ said' = said /\ landed' = landed
  OBVIOUS
<1>1. /\ writer' \in [Handles -> {"none", "working", "idle", "stopped", "retired"}]
      /\ \A g \in Handles : /\ Alive(g)' => Alive(g)
                            /\ Gone(g) => Gone(g)'
                            /\ (writer'[g] = "none") <=> (writer[g] = "none")
      /\ chain.refinement = n /\ writer'[n] \notin {"working", "idle"}
      /\ \A g \in Handles : writer'[g] # "working"
  <2>1. chain.refinement = n /\ \A g \in Handles : Works(g) => g = n
    BY LaunchFacts DEF Naming, Writers
  <2> QED BY <2>1, LaunchFacts, RetiredFacts DEF Retired, Threaded, Works, Alive, Gone
<1>2. Attempts'
  <2>1. ASSUME NEW k \in Handles PROVE AttemptOK(k)'
    <3>1. AttemptOK(k) /\ att'[k] = att[k]
      BY <1>0 DEF Attempts
    <3>2. (writer[k] # "none" => writer'[k] # "none") /\ (Alive(k)' => Alive(k))
      BY <1>1
    <3> QED BY <1>0, <3>1, <3>2, AttemptStays DEF Alive
  <2> QED BY <2>1 DEF Attempts
<1>3. CASE /\ Fresh # 0 /\ chain' = [chain EXCEPT !.launching = Fresh]
           /\ task' = [task EXCEPT !.step = "intend", !.new = Fresh, !.adopt = FALSE, !.then = "idle"]
           /\ UNCHANGED stage
  <2>1. Fresh \in Handles /\ att[Fresh] = NoAttempt /\ writer[Fresh] = "none" /\ Fresh # n
    BY <1>3, FreshFacts, LaunchFacts DEF Used, Attempts, AttemptOK
  <2>2. /\ task' \in TaskRecord /\ task'.op = "launch" /\ task'.step = "intend" /\ task'.new = Fresh
        /\ task'.then = "idle" /\ task'.caught = task.caught
    <3>1. Fresh \in Maybe
      BY <2>1
    <3> HIDE DEF n
    <3> QED BY <1>3, <3>1 DEF TaskRecord
  <2>3. /\ chain' \in Chain /\ chain'.refinement = n /\ chain'.on /\ ~chain'.held
        /\ chain'.handle = chain.handle /\ chain'.launching = Fresh
    BY <1>1, <1>3, <2>1, LaunchFacts DEF Chain
  <2>4. TypeInv'
    BY <1>1, <1>3, <2>2, <2>3 DEF TaskRecord
  <2>5. TaskShape' /\ Tasks'
    BY <1>3, <2>2, LaunchFacts DEF TaskShape, Tasks
  <2>6. ~att[Fresh].worker /\ att[Fresh].phase = "none" /\ att[Fresh].successor = 0 /\ chain.handle # Fresh
    BY <2>1, LaunchFacts DEF NoAttempt, Gone
  <2>7. LaunchShape' /\ NobodyYet'
    BY <1>0, <1>1, <2>1, <2>2, <2>3, <2>6, LaunchFacts DEF LaunchShape, NobodyYet, MidLaunch, Early, Works, Alive
  <2>8. Naming' /\ FirstLaunch'
    BY <2>2, <2>6 DEF Naming, FirstLaunch, MidLaunch
  <2> HIDE DEF LaunchFailed
  <2>9. ChainShape'
    <3>1. \A g \in Handles : Gone(g) => Gone(g)'
      BY <1>1
    <3>2. chain.handle # 0 => chain.handle \in Handles /\ Gone(chain.handle) /\ writer'[chain.handle] # "none"
      BY <1>0, <1>1, LaunchFacts DEF Gone
    <3> QED BY <1>0, <1>1, <2>1, <2>3, <2>6, <3>1, <3>2, LaunchFacts DEF ChainShape, Alive, Gone
  <2>10. Writers'
    <3>1. ~Works(chain.handle)' \/ chain.handle = 0
      BY <1>0, <1>1, <2>3, LaunchFacts DEF Works
    <3> QED BY <1>0, <1>1, <2>2, <2>3, <3>1 DEF Writers, OneWriter, Works
  <2> QED BY <1>0, <1>2, <1>3, <2>2, <2>4, <2>5, <2>7, <2>8, <2>9, <2>10, LaunchFacts, Launches
<1>4. CASE Throws
  <2>1. /\ task' = Idle /\ stage' \in {"between", "down"}
        /\ chain' = chain \/ chain' = [chain EXCEPT !.held = TRUE]
    BY <1>4, LaunchFacts DEF Throws, After
  <2> HIDE DEF LaunchFailed
  <2>2. /\ chain' \in Chain /\ chain'.refinement = n /\ chain'.on
        /\ chain'.handle = chain.handle /\ chain'.launching = n
    BY <1>0, <1>1, <2>1, LaunchFacts DEF Chain
  <2>3. TypeInv'
    BY <1>0, <1>1, <2>1, <2>2, IdleTask DEF Idle, LaunchFailed
  <2>4. ChainShape'
    <3>1. \A g \in Handles : Gone(g) => Gone(g)'
      BY <1>1
    <3>2. chain.handle # 0 => chain.handle \in Handles /\ Gone(chain.handle) /\ writer'[chain.handle] # "none"
      BY <1>0, <1>1, LaunchFacts DEF Gone
    <3> QED BY <1>0, <1>1, <2>2, <3>1, <3>2, LaunchFacts DEF ChainShape, Gone
  <2>5. Writers' /\ Quiet'
    <3>1. ~Works(chain.handle)' \/ chain.handle = 0
      BY <1>0, <1>1, <2>2, LaunchFacts DEF Works
    <3> QED BY <1>0, <1>1, <2>1, <2>2, <3>1 DEF Writers, OneWriter, Works, Idle, Quiet
  <2> QED BY <1>2, <2>1, <2>3, <2>4, <2>5, Ended
<1> QED BY <1>3, <1>4

(* The invariant survives a launch's receipt.                               *)
LEMMA LaunchReceiptKeeps == ASSUME RefInv, LaunchReceipt PROVE RefInv'
<1> USE HandleFacts DEF RefInv, TypeInv, TypeOK, LaunchReceipt, In, NoFault, bounds, tracker
<1> DEFINE n == task.new
<1>1. /\ writer' \in [Handles -> {"none", "working", "idle", "stopped", "retired"}]
      /\ \A g \in Handles : /\ Works(g)' => Works(g)
                            /\ Alive(g)' => Alive(g)
                            /\ (writer'[g] = "none") <=> (writer[g] = "none")
  BY RetiredFacts
<1>2. /\ n \in Handles /\ writer[n] # "none" /\ (Works(n) => said[n] = None)
      /\ chain.refinement = n /\ \A g \in Handles : Works(g) => g = n
  BY LaunchFacts DEF Naming, Writers, Threaded
<1>3. /\ \A k \in Handles \ {n} : att'[k] = att[k]
      /\ att'[n] \in Attempt /\ att'[n].worker /\ att'[n].phase = att[n].phase
      /\ att'[n].successor = att[n].successor /\ att'[n].prepared = att[n].prepared
      /\ att[n].phase # "none"
  <2>1. att'[n] = [att[n] EXCEPT !.worker = TRUE] /\ att[n] \in Attempt
    BY <1>2
  <2>2. /\ att'[n] \in Attempt /\ att'[n].worker /\ att'[n].phase = att[n].phase
        /\ att'[n].successor = att[n].successor /\ att'[n].prepared = att[n].prepared
    <3> HIDE DEF n
    <3> QED BY ONLY <2>1 DEF Attempt
  <2> QED BY <1>2, <2>2 DEF Naming
<1>4. att' \in [Handles -> Attempt]
  BY <1>2, <1>3
<1>5. /\ chain' \in Chain /\ chain'.refinement = n /\ chain'.on /\ ~chain'.held
      /\ chain'.handle = n /\ chain'.launching = 0
  BY <1>2, LaunchFacts DEF Chain
<1>6. TypeInv' /\ task' = Idle /\ stage' = "between"
  BY <1>1, <1>4, <1>5, IdleTask, LaunchFacts DEF Idle, After
<1>7. Attempts'
  <2> HIDE DEF n
  <2>1. ASSUME NEW k \in Handles PROVE AttemptOK(k)'
    <3>1. AttemptOK(k) /\ att[k] \in Attempt
      BY DEF Attempts
    <3>2. /\ att'[k].phase = att[k].phase /\ att'[k].successor = att[k].successor
          /\ att'[k].prepared = att[k].prepared /\ (att'[k].worker => att[k].worker \/ k = n)
          /\ att[k].phase = "none" => att'[k] = att[k]
      BY <1>2, <1>3
    <3>3. \A j \in Handles : att'[j].phase = att[j].phase /\ att'[j].successor = att[j].successor
      BY <1>2, <1>3
    <3>4. att[k].successor \in Maybe
      BY <3>1 DEF Attempt
    <3> QED BY <1>1, <1>2, <3>1, <3>2, <3>3, <3>4 DEF AttemptOK
  <2> QED BY <2>1 DEF Attempts
<1>8. ChainShape'
  BY <1>1, <1>2, <1>3, <1>5, LaunchFacts DEF ChainShape
<1>9. Writers' /\ Quiet'
  BY <1>1, <1>2, <1>5, <1>6 DEF Writers, OneWriter, Works, Idle, Quiet
<1> QED BY <1>6, <1>7, <1>8, <1>9, Ended

(* The invariant survives choosing what to do with the attempt replaced.    *)
LEMMA LaunchIntendKeeps == ASSUME RefInv, LaunchIntend PROVE RefInv'
<1> USE HandleFacts DEF RefInv, TypeInv, TypeOK, In, NoFault, bounds, tracker, threads
<1> DEFINE old == chain.refinement
           n == task.new
           replaced == old \notin {0, n} /\ Active(old)
           adopting == [task EXCEPT !.op = "adopt", !.h = old, !.step = "stop", !.then = "spawn"]
<1>0. /\ task.op = "launch" /\ task.step = "intend" /\ task.then = "idle"
      /\ UNCHANGED <<up, claim, omits, stopping, landed, writer, said, faults, crashes, meddles>>
      /\ Early /\ \A g \in Handles : ~Works(g)
  BY DEF LaunchIntend, Naming, NobodyYet, Early
<1>1. replaced => old \in Handles /\ ~Alive(old)
  BY <1>0, LaunchFacts DEF NobodyYet
<1>2. ASSUME UNCHANGED <<att, chain, stage>>, task' \in TaskRecord, TaskShape', Tasks', Naming', FirstLaunch',
             task'.new = n, ~(task'.op = "launch" /\ task'.step = "receipt")
      PROVE  RefInv'
  <2>1. TypeInv' /\ Attempts' /\ ChainShape'
    BY <1>0, <1>2 DEF TaskRecord, Attempts, AttemptOK, ChainShape, Alive, Gone, Threaded
  <2>2. LaunchShape' /\ NobodyYet'
    BY <1>0, <1>2, LaunchFacts DEF LaunchShape, NobodyYet, Early, Works, Alive, Gone
  <2>3. Writers'
    BY <1>0, <1>2, LaunchFacts DEF Writers, OneWriter, Works
  <2> QED BY <1>2, <2>1, <2>2, <2>3, LaunchFacts, <1>0, Launches
<1>3. CASE ~replaced /\ Goto("begin") /\ UNCHANGED <<att, chain, stage>>
  <2>1. /\ task' \in TaskRecord /\ task'.op = "launch" /\ task'.step = "begin" /\ task'.h = task.h /\ task'.new = n
        /\ task'.then = "idle" /\ task'.caught = task.caught
    BY <1>0, <1>3 DEF TaskRecord, Goto
  <2>2. TaskShape' /\ Tasks' /\ Naming' /\ FirstLaunch'
    BY <1>0, <1>3, <2>1, LaunchFacts DEF TaskShape, Tasks, Naming, FirstLaunch, MidLaunch
  <2> QED BY <1>2, <1>3, <2>1, <2>2
<1>4. CASE /\ replaced /\ att[old].successor = n /\ UNCHANGED <<att, chain, stage>>
           /\ task' = IF att[old].phase = "adopting" THEN adopting ELSE [task EXCEPT !.step = "name"]
  <2>0. att[n].phase # "none"
    <3>1. old # 0 /\ att[old].successor # 0 /\ chain.launching = n
      BY <1>0, <1>1, <1>4, LaunchFacts
    <3> QED BY <3>1 DEF ChainShape
  <2>1. CASE task' = adopting /\ att[old].phase = "adopting"
    <3>1. /\ task' \in TaskRecord /\ task'.op = "adopt" /\ task'.step = "stop" /\ task'.h = old /\ task'.new = n
          /\ task'.then = "spawn" /\ task'.caught = task.caught
      BY <1>1, <1>4, <2>1, Zenon DEF TaskRecord
    <3>2. TaskShape' /\ Tasks' /\ Naming' /\ FirstLaunch'
      BY <1>0, <1>1, <1>4, <2>1, <3>1, LaunchFacts DEF TaskShape, Tasks, Naming, FirstLaunch, MidLaunch
    <3> QED BY <1>2, <1>4, <3>1, <3>2
  <2>2. CASE task' = [task EXCEPT !.step = "name"]
    <3>1. /\ task' \in TaskRecord /\ task'.op = "launch" /\ task'.step = "name" /\ task'.h = task.h /\ task'.new = n
          /\ task'.then = "idle" /\ task'.caught = task.caught
      BY <1>0, <2>2 DEF TaskRecord
    <3>2. ~task.caught
      BY <1>0, <2>0 DEF FirstLaunch, MidLaunch
    <3>3. TaskShape' /\ Tasks' /\ Naming' /\ FirstLaunch'
      BY <1>0, <1>4, <2>0, <3>1, <3>2, LaunchFacts DEF TaskShape, Tasks, Naming, FirstLaunch, MidLaunch
    <3> QED BY <1>2, <1>4, <3>1, <3>3
  <2> QED BY <1>4, <2>1, <2>2
<1>5. CASE Throws /\ UNCHANGED att
  BY <1>0, <1>5, SameAlike, ThrowsKeeps
<1>6. CASE /\ replaced /\ UNCHANGED <<att, chain, stage>>
           /\ task' = [task EXCEPT !.op = "discard", !.h = old, !.step = "check", !.then = "begin"]
  <2>1. /\ task' \in TaskRecord /\ task'.op = "discard" /\ task'.step = "check" /\ task'.h = old /\ task'.new = n
        /\ task'.then = "begin" /\ task'.caught = task.caught
    BY <1>1, <1>6 DEF TaskRecord
  <2>2. TaskShape' /\ Tasks' /\ Naming' /\ FirstLaunch'
    BY <1>0, <1>1, <1>6, <2>1, LaunchFacts DEF TaskShape, Tasks, Naming, FirstLaunch, MidLaunch
  <2> QED BY <1>2, <1>6, <2>1, <2>2
<1>7. CASE /\ replaced /\ att[old].successor = 0 /\ UNCHANGED <<chain, stage>> /\ task' = adopting
           /\ att[old].phase \in {"writing", "stopping", "accepting"} /\ Abortable(old) /\ att[n].phase = "none"
           /\ att' = [att EXCEPT ![old].phase = "adopting", ![old].successor = n,
                                 ![n] = [NoAttempt EXCEPT !.phase = "adopting",
                                           !.baseline = att[old].baseline, !.owned = att[old].owned]]
  <2> DEFINE heir == [NoAttempt EXCEPT !.phase = "adopting", !.baseline = att[old].baseline, !.owned = att[old].owned]
  <2>1. /\ old \in Handles /\ n \in Handles \ {old} /\ ~Alive(old) /\ att[old] \in Attempt /\ n \in Maybe
        /\ old \notin landed /\ n \notin landed /\ att[old].worker \in BOOLEAN
    <3>1. old \in Handles /\ n \in Handles \ {old} /\ ~Alive(old) /\ n \in Maybe
      BY <1>0, <1>1, <1>7, LaunchFacts
    <3>2. att[old] \in Attempt /\ AttemptOK(old) /\ AttemptOK(n)
      BY <3>1 DEF Attempts
    <3>3. n \notin landed
      BY <1>7, <3>2 DEF AttemptOK
    <3>4. old \notin landed
      BY <1>7, <3>2 DEF AttemptOK, Abortable, Reached
    <3> QED BY <3>1, <3>2, <3>3, <3>4 DEF Attempt
  <2>2. heir \in Attempt /\ heir.phase = "adopting" /\ heir.successor = 0 /\ ~heir.worker
    <3>1. att[old].baseline \in SUBSET Rows /\ att[old].owned \in SUBSET Rows
      BY <2>1 DEF Attempt
    <3> QED BY <3>1 DEF NoAttempt, Attempt
  <2> HIDE DEF heir
  <2>3. /\ att'[old] = [att[old] EXCEPT !.phase = "adopting", !.successor = n] /\ att'[n] = heir
        /\ \A k \in Handles \ {old, n} : att'[k] = att[k]
    BY <1>7, <2>1 DEF heir
  <2>4. /\ att'[old] \in Attempt /\ att'[old].phase = "adopting" /\ att'[old].successor = n
        /\ att'[old].worker = att[old].worker
    <3> HIDE DEF old, n
    <3> QED BY ONLY <2>1, <2>3 DEF Attempt
  <2>5. att' \in [Handles -> Attempt]
    BY <1>7, <2>2, <2>3, <2>4
  <2>6. /\ task' \in TaskRecord /\ task'.op = "adopt" /\ task'.step = "stop" /\ task'.h = old /\ task'.new = n
        /\ task'.then = "spawn" /\ task'.caught = task.caught
    BY <1>7, <2>1 DEF TaskRecord
  <2>7. TypeInv'
    BY <1>0, <1>7, <2>5, <2>6 DEF TaskRecord
  <2>8. TaskShape' /\ Tasks'
    BY <1>0, <1>7, <2>1, <2>4, <2>6, LaunchFacts DEF TaskShape, Tasks
  <2>9. Naming' /\ FirstLaunch'
    BY <1>7, <2>1, <2>4, <2>6, LaunchFacts DEF Naming, FirstLaunch, MidLaunch
  <2>10. LaunchShape' /\ NobodyYet'
    BY <1>0, <1>7, <2>2, <2>3, <2>6, LaunchFacts, Zenon DEF LaunchShape, NobodyYet, Works, Alive, Gone, Early
  <2>11. ChainShape'
    BY <1>0, <1>7, <2>1, <2>2, <2>3, <2>4, LaunchFacts, Zenon DEF ChainShape, Alive, Gone, Threaded
  <2>12. \A k \in Handles : att[k].phase = "adopting" => k \notin {old, n} /\ att[k].successor \notin {old, n}
    BY <1>7, <2>1, LaunchFacts DEF Attempts, AttemptOK
  <2>13. Attempts'
    <3> HIDE DEF old, n
    <3>1. ASSUME NEW k \in Handles PROVE AttemptOK(k)'
      <4>1. AttemptOK(k) /\ att[k] \in Attempt
        BY DEF Attempts
      <4>2. CASE k = n
        BY <1>0, <2>1, <2>2, <2>3, <4>1, <4>2 DEF AttemptOK
      <4>3. CASE k = old
        <5>1. \A g \in Handles \ {old} : att'[g].phase = "adopting" => att'[g].successor # n
          BY <2>1, <2>2, <2>3, <2>12
        <5> QED BY <1>0, <2>1, <2>2, <2>3, <2>4, <4>1, <4>3, <5>1 DEF AttemptOK, Alive
      <4>4. CASE k \notin {old, n}
        <5>1. att'[k] = att[k] /\ att[k].successor \in Maybe
          BY <2>3, <4>1, <4>4 DEF Attempt
        <5>2. CASE att[k].phase = "adopting" /\ att[k].successor # 0
          <6>1. att[k].successor \in Handles \ {old, n} /\ att'[att[k].successor] = att[att[k].successor]
            BY <2>3, <2>12, <5>1, <5>2
          <6>2. \A g \in Handles \ {k} : att'[g].phase = "adopting" => att'[g].successor # att[k].successor
            <7>1. \A g \in Handles \ {k} : att[g].phase = "adopting" => att[g].successor # att[k].successor
              BY <4>1, <5>2 DEF AttemptOK
            <7>2. att'[n].successor = 0 /\ att'[old].successor = n /\ att[k].successor \notin {0, n}
              BY <2>2, <2>3, <2>4, <5>2, <6>1
            <7> QED BY <2>3, <7>1, <7>2
          <6> QED BY <1>0, <4>1, <5>1, <5>2, <6>1, <6>2 DEF AttemptOK, Alive
        <5>3. CASE ~(att[k].phase = "adopting" /\ att[k].successor # 0)
          BY <1>0, <4>1, <5>1, <5>3 DEF AttemptOK, Alive
        <5> QED BY <5>2, <5>3
      <4> QED BY <4>2, <4>3, <4>4
    <3> QED BY <3>1 DEF Attempts
  <2>14. Writers'
    BY <1>0, <1>7, <2>6, LaunchFacts DEF Writers, OneWriter, Works
  <2>15. \A k \in Handles : att'[k].phase \notin {"stopping", "cleaning"}
    BY <2>1, <2>2, <2>3, <2>4, <1>0, LaunchFacts
  <2> QED BY <1>0, <1>7, <2>6, <2>7, <2>8, <2>9, <2>10, <2>11, <2>13, <2>14, <2>15, LaunchFacts, Launches
<1> QED BY <1>3, <1>4, <1>5, <1>6, <1>7 DEF LaunchIntend

(* startPhase halts the handle it replaces before the launch, or adopts the *)
(* thread already registered under the saved handle.                        *)
LEMMA StartPhaseKeeps ==
  ASSUME RefInv, NEW resumed \in Maybe, NEW adopt \in BOOLEAN, NEW caught \in BOOLEAN,
         task = Idle, stage = "visit", StartPhase(resumed, adopt, caught),
         chain.launching = 0 => resumed = 0,
         ~chain.on => \A g \in Handles : ~Works(g),
         caught => chain.launching = 0
  PROVE  RefInv'
<1> USE HandleFacts DEF RefInv, TypeInv, TypeOK, StartPhase, NoFault, bounds, tracker
<1> DEFINE R == chain.refinement
           L == chain.launching
           H == chain.handle
           h == IF L # 0 THEN L ELSE Fresh
<1>1. /\ R \in Handles \cup {0} /\ H \in Handles \cup {0} /\ L \in Handles \cup {0} /\ h \in Handles
      /\ L = 0 => att[h] = NoAttempt /\ writer[h] = "none"
  <2>1. R \in Handles \cup {0} /\ H \in Handles \cup {0} /\ L \in Handles \cup {0} /\ h # 0
    BY DEF Chain
  <2>2. L = 0 => h \in Handles /\ att[h] = NoAttempt /\ writer[h] = "none"
    BY <2>1, FreshFacts DEF Used, Attempts, AttemptOK
  <2> QED BY <2>1, <2>2
<1>2. /\ writer' \in [Handles -> {"none", "working", "idle", "stopped", "retired"}]
      /\ \A g \in Handles : /\ Works(g)' => Works(g)
                            /\ Alive(g)' => Alive(g)
                            /\ Gone(g) => Gone(g)'
                            /\ (writer'[g] = "none") <=> (writer[g] = "none")
                            /\ Threaded(g)' <=> Threaded(g)
      /\ H \notin {0, L} => writer'[H] \notin {"working", "idle"}
  BY <1>1 DEF Superseded, Halted, Works, Alive, Gone, Threaded
<1>3. chain \in Chain
  OBVIOUS
<1>4. CASE /\ Threaded(h) /\ chain' = [chain EXCEPT !.on = TRUE, !.held = FALSE, !.handle = h, !.launching = 0]
           /\ said' = [said EXCEPT ![h] = None]
           /\ att' = IF R = 0 THEN att ELSE [att EXCEPT ![R].worker = TRUE]
           /\ stage' = After /\ UNCHANGED <<task, tracker, stopping, landed>>
  <2> HIDE DEF StartPhase
  <2>1. L # 0 /\ h = L /\ L = R /\ chain.on /\ writer[R] # "none" /\ att[R].successor = 0 /\ att[R].phase # "none"
    BY <1>1, <1>4 DEF ChainShape, Threaded, NoChain
  <2>2. /\ chain' \in Chain /\ chain'.refinement = R /\ chain'.on /\ ~chain'.held
        /\ chain'.handle = R /\ chain'.launching = 0
    <3> HIDE DEF h, L, R
    <3>1. chain' = [chain EXCEPT !.on = TRUE, !.held = FALSE, !.handle = h, !.launching = 0] /\ h \in Maybe /\ 0 \in Maybe
      BY <1>1, <1>4
    <3> QED BY <1>3, <2>1, <3>1 DEF Chain, R
  <2>3. /\ \A k \in Handles \ {R} : att'[k] = att[k]
        /\ att'[R] \in Attempt /\ att'[R].worker /\ att'[R].phase = att[R].phase
        /\ att'[R].successor = att[R].successor /\ att'[R].prepared = att[R].prepared
    <3>1. att'[R] = [att[R] EXCEPT !.worker = TRUE] /\ att[R] \in Attempt
      BY <1>1, <1>4, <2>1
    <3>2. /\ att'[R] \in Attempt /\ att'[R].worker /\ att'[R].phase = att[R].phase
          /\ att'[R].successor = att[R].successor /\ att'[R].prepared = att[R].prepared
      <4> HIDE DEF R
      <4> QED BY ONLY <3>1 DEF Attempt
    <3> QED BY <1>1, <1>4, <2>1, <3>2
  <2>4. att' \in [Handles -> Attempt]
    BY <1>4, <2>1, <2>3
  <2>5. TypeInv' /\ task' = Idle /\ stage' = "between"
    BY <1>2, <1>4, <2>2, <2>4 DEF After
  <2>6. Attempts'
    <3> HIDE DEF R
    <3>1. ASSUME NEW k \in Handles PROVE AttemptOK(k)'
      <4>1. AttemptOK(k) /\ att[k] \in Attempt
        BY DEF Attempts
      <4>2. /\ att'[k].phase = att[k].phase /\ att'[k].successor = att[k].successor
            /\ att'[k].prepared = att[k].prepared /\ (att'[k].worker => att[k].worker \/ k = R)
            /\ att[k].phase = "none" => att'[k] = att[k]
        BY <2>1, <2>3
      <4>3. \A j \in Handles : att'[j].phase = att[j].phase /\ att'[j].successor = att[j].successor
        BY <2>1, <2>3
      <4>4. att[k].successor \in Maybe
        BY <4>1 DEF Attempt
      <4> QED BY <1>2, <1>4, <2>1, <4>1, <4>2, <4>3, <4>4 DEF AttemptOK
    <3> QED BY <3>1 DEF Attempts
  <2>7. ChainShape'
    BY <1>1, <1>2, <2>1, <2>2, <2>3 DEF ChainShape
  <2>8. Writers' /\ Quiet'
    BY <1>1, <1>2, <1>4, <2>1, <2>2, <2>5 DEF Writers, OneWriter, Works, Idle, Quiet
  <2> QED BY <2>5, <2>6, <2>7, <2>8, Ended
<1>5. CASE /\ ~Threaded(h) /\ chain' = [chain EXCEPT !.on = TRUE, !.held = FALSE, !.launching = h]
           /\ task' = [Idle EXCEPT !.op = "launch", !.step = "intend", !.new = h,
                                   !.adopt = adopt, !.caught = caught]
           /\ UNCHANGED <<att, said, stage, tracker, stopping, landed>>
  <2> HIDE DEF StartPhase
  <2>1. /\ H # h /\ ~att[h].worker /\ att[h].successor = 0 /\ (H # 0 => writer'[H] \in {"stopped", "retired"})
        /\ R \notin {0, h} => writer'[R] \notin {"working", "idle"}
        /\ writer[h] # "none" => L # 0 /\ R = h
    <3>1. CASE L = 0
      <4>1. H = R
        BY <3>1 DEF ChainShape, NoChain
      <4>2. H # 0 => writer[H] # "none"
        BY DEF ChainShape
      <4> QED BY <1>1, <1>2, <3>1, <4>1, <4>2 DEF NoAttempt, Gone, Alive
    <3>2. CASE L # 0
      <4>1. h = L /\ ~Threaded(L)
        BY <1>5, <3>2
      <4>2. H # L /\ ~att[L].worker /\ att[L].successor = 0 /\ (writer[L] # "none" => L = R)
        BY <3>2, <4>1 DEF ChainShape
      <4>3. (H # 0 => writer[H] # "none") /\ (R \notin {0, H, L} => ~Alive(R))
        BY <3>2 DEF ChainShape
      <4> QED BY <1>1, <1>2, <3>2, <4>1, <4>2, <4>3 DEF Gone, Alive
    <3> QED BY <3>1, <3>2
  <2>2. \A g \in Handles : ~Works(g)'
    <3>1. CASE chain.on
      <4>1. \A g \in Handles : Works(g) => g = R
        BY <3>1 DEF Writers
      <4>2. R = h => ~Works(R)
        BY <1>5 DEF Threaded, Works
      <4> QED BY <1>1, <1>2, <2>1, <4>1, <4>2 DEF Works, Alive
    <3>2. CASE ~chain.on
      BY <1>2, <3>2
    <3> QED BY <3>1, <3>2
  <2>3. /\ chain' \in Chain /\ chain'.refinement = R /\ chain'.on /\ ~chain'.held
        /\ chain'.handle = H /\ chain'.launching = h
    <3>1. h \in Maybe /\ chain' = [chain EXCEPT !.on = TRUE, !.held = FALSE, !.launching = h]
      BY <1>1, <1>5
    <3> HIDE DEF h
    <3> QED BY <1>3, <3>1 DEF Chain
  <2>4. /\ task' \in TaskRecord /\ task'.op = "launch" /\ task'.step = "intend" /\ task'.new = h
        /\ task'.then = "idle" /\ task'.caught = caught
    <3>1. h \in Maybe
      BY <1>1
    <3>2. Idle.new \in Maybe /\ Idle \in TaskRecord
      BY IdleTask
    <3>3. task' = [Idle EXCEPT !.op = "launch", !.step = "intend", !.new = h, !.adopt = adopt, !.caught = caught]
      BY <1>5
    <3> HIDE DEF h
    <3> DEFINE t1 == [Idle EXCEPT !.op = "launch", !.step = "intend"]
    <3>4. t1 \in TaskRecord /\ t1.op = "launch" /\ t1.step = "intend" /\ t1.then = "idle"
      BY <3>2 DEF TaskRecord, Idle
    <3>5. task' = [t1 EXCEPT !.new = h, !.adopt = adopt, !.caught = caught]
      BY <3>3
    <3> HIDE DEF t1
    <3> QED BY <3>1, <3>4, <3>5, Zenon DEF TaskRecord
  <2>5. TypeInv'
    BY <1>2, <1>5, <2>3, <2>4 DEF TaskRecord
  <2>6. TaskShape' /\ Tasks'
    BY <1>5, <2>4 DEF TaskShape, Tasks
  <2>7. LaunchShape' /\ NobodyYet'
    BY <1>1, <1>5, <2>1, <2>2, <2>3, <2>4 DEF LaunchShape, NobodyYet, Gone, Alive
  <2>8. Naming' /\ FirstLaunch'
    BY <1>1, <1>5, <2>4 DEF Naming, FirstLaunch, NoAttempt
  <2>9. ChainShape'
    <3>1. R # 0 /\ att[R].successor # 0 => att[R].successor = h /\ att[h].phase # "none"
      BY DEF ChainShape, NoChain
    <3>2. (R # 0 => att[R].phase # "none") /\ (H # 0 => writer'[H] # "none")
      BY <1>1, <1>2 DEF ChainShape
    <3> QED BY <1>1, <1>2, <1>5, <2>1, <2>3, <3>1, <3>2 DEF ChainShape, Gone, Alive
  <2>10. Attempts'
    <3>1. ASSUME NEW k \in Handles PROVE AttemptOK(k)'
      <4>1. AttemptOK(k) /\ att'[k] = att[k]
        BY <1>5 DEF Attempts
      <4> QED BY <1>2, <1>5, <4>1, AttemptStays DEF Alive
    <3> QED BY <3>1 DEF Attempts
  <2>11. Writers'
    BY <1>1, <2>2, <2>3, <2>4 DEF Writers, OneWriter, Works
  <2>12. \A k \in Handles : att'[k].phase \notin {"stopping", "cleaning"}
    BY <1>5 DEF Quiet, Idle
  <2> QED BY <1>5, <2>4, <2>5, <2>6, <2>7, <2>8, <2>9, <2>10, <2>11, <2>12, Launches
<1>6. h = IF L # 0 THEN L ELSE IF resumed # 0 THEN resumed ELSE Fresh
  OBVIOUS
<1> QED BY <1>4, <1>5, <1>6

(* The chain follows its attempt's successor and adopts a thread whose      *)
(* receipt was never saved: nobody else was alive.                          *)
LEMMA SettleKeeps == ASSUME RefInv, Settle PROVE RefInv'
<1> USE HandleFacts DEF RefInv, TypeInv, TypeOK, Free, Enter, NoFault, bounds, tracker
<1> DEFINE R == chain.refinement
           L == chain.launching
           H == chain.handle
           r == IF R = 0 \/ att[R].successor = 0 THEN R ELSE att[R].successor
           found == chain.on /\ r # 0 /\ att[r].phase = "writing" /\ Threaded(r)
           has == chain.on /\ r # 0 /\ (att[r].worker \/ found)
           c  == [chain EXCEPT !.refinement = r, !.handle = IF has THEN r ELSE @]
           over == {h \in Handles : /\ att[h].phase \in {"accepted", "removed"}
                                    /\ att[h].worker /\ ~(chain.on /\ c.handle = h)}
<1>1. /\ task = Idle /\ task' = Idle /\ stage' = "visit" /\ \A h \in Handles : ~Pending(h)
      /\ att' = (IF found THEN [att EXCEPT ![r].worker = TRUE] ELSE att) /\ chain' = c
      /\ said' = (IF has /\ H # r THEN [said EXCEPT ![r] = None] ELSE said)
      /\ \E gone \in SUBSET over : writer' = Retired(gone)
      /\ UNCHANGED <<up, claim, omits, stopping, landed, faults, crashes, meddles>>
  BY Zenon DEF Settle
<1>2. /\ R \in Handles \cup {0} /\ H \in Handles \cup {0} /\ L \in Handles \cup {0}
      /\ chain \in Chain
  BY DEF Chain
<1>3. /\ r \in Handles \cup {0} /\ (~chain.on => r = 0 /\ R = 0)
      /\ r # R => R # 0 /\ L # 0 /\ r = L /\ ~Alive(R) /\ att[L].phase # "none"
      /\ r # 0 => att[r].phase # "none" /\ att[r].successor = 0
  <2>1. ~chain.on => R = 0
    BY DEF ChainShape, NoChain
  <2>2. CASE R = 0 \/ att[R].successor = 0
    BY <1>2, <2>1, <2>2 DEF ChainShape
  <2>3. CASE R # 0 /\ att[R].successor # 0
    <3>1. r = L /\ att[L].phase # "none" /\ L # 0 /\ att[L].successor = 0
      BY <2>3 DEF ChainShape
    <3>2. ~Alive(R)
      BY <1>2, <2>3 DEF Attempts, AttemptOK, Alive
    <3> QED BY <1>2, <2>1, <2>3, <3>1, <3>2
  <2> QED BY <2>2, <2>3
<1>4. /\ chain' \in Chain /\ chain'.refinement = r /\ chain'.on = chain.on /\ chain'.held = chain.held
      /\ chain'.handle = (IF has THEN r ELSE H) /\ chain'.launching = L
  <2>1. r \in Maybe /\ (IF has THEN r ELSE H) \in Maybe
    BY <1>2, <1>3
  <2> HIDE DEF r, has
  <2> QED BY <1>1, <1>2, <2>1 DEF Chain
<1>5. /\ writer' \in [Handles -> {"none", "working", "idle", "stopped", "retired"}]
      /\ \A g \in Handles : /\ Works(g)' => Works(g)
                            /\ Alive(g)' => Alive(g)
                            /\ Gone(g) => Gone(g)'
                            /\ (writer'[g] = "none") <=> (writer[g] = "none")
                            /\ g \notin over => writer'[g] = writer[g]
  <2>1. PICK gone \in SUBSET over : writer' = Retired(gone)
    BY <1>1, Zenon
  <2>2. \A g \in Handles : g \notin over => writer'[g] = writer[g]
    BY <2>1 DEF Retired
  <2> QED BY <2>1, <2>2, RetiredFacts
<1>6. found => writer[r] # "none"
  BY DEF Threaded
<1> HIDE DEF c
<1>7. /\ att' \in [Handles -> Attempt]
      /\ \A k \in Handles :
           /\ att'[k].phase = att[k].phase /\ att'[k].successor = att[k].successor
           /\ att'[k].prepared = att[k].prepared /\ (att'[k].worker => att[k].worker \/ (k = r /\ found))
           /\ (att[k].worker => att'[k].worker) /\ (att[k].phase = "none" => att'[k] = att[k])
  <2>1. CASE ~found
    BY <1>1, <2>1, Zenon
  <2>2. CASE found
    <3>1. r \in Handles /\ att[r] \in Attempt /\ att'[r] = [att[r] EXCEPT !.worker = TRUE]
          /\ \A k \in Handles \ {r} : att'[k] = att[k]
      BY <1>1, <1>3, <2>2
    <3>2. /\ att'[r] \in Attempt /\ att'[r].phase = att[r].phase /\ att'[r].worker
          /\ att'[r].successor = att[r].successor /\ att'[r].prepared = att[r].prepared
      <4> HIDE DEF r
      <4> QED BY ONLY <3>1, Zenon DEF Attempt
    <3>3. att' \in [Handles -> Attempt]
      BY <1>1, <2>2, <3>1, <3>2, Zenon
    <3> HIDE DEF r
    <3> QED BY <1>3, <2>2, <3>1, <3>2, <3>3
  <2> QED BY <2>1, <2>2
<1>8. TypeInv'
  <2>1. said' \in [Handles -> Report \cup {None}]
    BY <1>1, <1>3
  <2> QED BY <1>1, <1>4, <1>5, <1>7, <2>1, Zenon
<1>9. Attempts'
  <2> HIDE DEF r, found, over
  <2>1. ASSUME NEW k \in Handles PROVE AttemptOK(k)'
    <3>1. AttemptOK(k) /\ att[k] \in Attempt
      BY DEF Attempts
    <3>2. att[k].successor \in Maybe
      BY <3>1 DEF Attempt
    <3> QED BY <1>1, <1>5, <1>6, <1>7, <3>1, <3>2 DEF AttemptOK
  <2> QED BY <2>1 DEF Attempts
<1>10. ChainShape'
  <2>1. CASE ~chain.on
    <3>1. chain = NoChain /\ r = 0
      BY <1>3, <2>1 DEF ChainShape
    <3>2. chain' = NoChain
      BY <1>4, <2>1, <3>1 DEF NoChain, Chain
    <3> QED BY <3>2 DEF ChainShape, NoChain
  <2>2. CASE chain.on
    <3> DEFINE G == chain'.handle
    <3>1. L = 0 => r # 0 /\ G = r /\ att'[r].worker /\ att'[r].successor = 0
      BY <1>2, <1>3, <1>4, <1>7, <2>2, Zenon DEF ChainShape
    <3>2. r # 0 => att'[r].phase # "none" /\ att'[r].successor = 0
      BY <1>3, <1>7
    <3>3. has => writer[r] # "none"
      BY <1>3, <1>6 DEF Attempts, AttemptOK
    <3>4. G # 0 => writer'[G] # "none"
      BY <1>2, <1>3, <1>4, <1>5, <3>3 DEF ChainShape
    <3>5. G \notin {0, r} => Gone(G)
      <4>1. G \notin {0, r} => G = H /\ ~has
        BY <1>4
      <4>2. H \notin {0, R} => Gone(H)
        BY DEF ChainShape
      <4>3. R # 0 /\ H = R /\ r # R => Gone(H)
        BY <1>2, <1>3 DEF ChainShape, Alive, Gone
      <4> QED BY <4>1, <4>2, <4>3
    <3>6. L # 0 /\ writer[L] # "none" => L = r
      BY <1>3 DEF ChainShape
    <3>7. L # 0 /\ (att'[L].worker \/ G = L) => Threaded(L) /\ G = L
      <4>1. L # 0 /\ att'[L].worker => writer[L] # "none"
        BY <1>2, <1>5, <1>9 DEF Attempts, AttemptOK
      <4>2. L # 0 /\ att'[L].worker => has /\ L = r
        BY <1>2, <1>7, <2>2, <3>6, <4>1
      <4>3. L # 0 /\ G = L => Threaded(L)
        BY <1>3, <1>4 DEF ChainShape
      <4>4. L # 0 /\ att'[L].worker => G = L
        BY <1>4, <4>2
      <4> QED BY <4>3, <4>4
    <3>8. L # 0 /\ (att'[L].worker \/ G = L) => writer'[L] = writer[L]
      <4>1. ASSUME L # 0, G = L PROVE L \notin over
        BY <1>1, <2>2, <4>1
      <4> QED BY <1>2, <1>5, <3>7, <4>1
    <3>9. L # 0 => att'[L].successor = 0
      BY <1>2, <1>7 DEF ChainShape
    <3>10. r \notin {0, G, L} => ~Alive(r)
      <4>1. r \notin {0, L} => r = R
        BY <1>3
      <4>2. R \notin {0, H, L} => ~Alive(R)
        BY DEF ChainShape
      <4>3. r \notin {0, G} => ~has
        BY <1>4
      <4> QED BY <1>4, <4>1, <4>2, <4>3
    <3>11. /\ chain'.on /\ chain'.refinement = r /\ chain'.launching = L
           /\ G \in Handles \cup {0}
      BY <1>2, <1>3, <1>4, <2>2
    <3> HIDE DEF R, L, H, r, found, has, over, G
    <3>12. G \notin {0, r} => writer'[G] \in {"stopped", "retired"}
      BY <1>5, <3>5, <3>11 DEF Gone
    <3>13. r \notin {0, G, L} => writer'[r] \notin {"working", "idle"}
      BY <1>3, <1>5, <3>10 DEF Alive
    <3>14. L # 0 /\ (att'[L].worker \/ G = L) => writer'[L] \in {"working", "idle", "stopped"}
      BY <3>7, <3>8 DEF Threaded
    <3>15. L # 0 /\ writer'[L] # "none" => L = r
      BY <1>2, <1>5, <3>6
    <3> QED BY <3>1, <3>2, <3>4, <3>9, <3>11, <3>12, <3>13, <3>14, <3>15 DEF ChainShape, G, Gone, Alive, Threaded
  <2> QED BY <2>1, <2>2
<1>11. Writers'
  <2>1. OneWriter'
    BY <1>5 DEF Writers, OneWriter, Works
  <2>2. chain.on => \A g \in Handles : Works(g) => g = r
    BY <1>2, <1>3 DEF Writers, Works, Alive
  <2>3. ~chain.on => (\A g \in Handles : ~Works(g)) \/ \E k \in Handles : att[k].phase = "accepted"
    BY DEF Writers
  <2>4. chain.held /\ r # 0 /\ Works(r) => att[r].phase \in {"writing", "stopping"}
    BY <1>3 DEF Writers, Works, Alive
  <2>5. chain'.handle # 0 /\ Works(chain'.handle) => said'[chain'.handle] = None
    <3>1. CASE has /\ H # r
      BY <1>1, <1>3, <1>4, <3>1, Zenon
    <3>2. CASE ~(has /\ H # r)
      <4>1. said' = said
        BY <1>1, <3>2
      <4>2. chain'.handle = H
        BY <1>4, <3>2
      <4>3. H # 0 /\ Works(H) => said[H] = None
        BY DEF Writers
      <4> QED BY <4>1, <4>2, <4>3
    <3> QED BY <3>1, <3>2
  <2>6. task'.op = "none"
    BY <1>1 DEF Idle
  <2> HIDE DEF R, L, H, r, found, has, over
  <2>7. r # 0 => r \in Handles
    BY <1>3
  <2>8. chain'.handle # 0 => chain'.handle \in Handles
    BY <1>4 DEF Chain
  <2>9. chain'.on => \A g \in Handles : Works(g)' => g = chain'.refinement
    BY <1>4, <1>5, <2>2
  <2>10. ~chain'.on => (\A g \in Handles : ~Works(g)') \/ \E k \in Handles : att'[k].phase = "accepted"
    BY <1>4, <1>5, <1>7, <2>3
  <2>11. chain'.held /\ chain'.refinement # 0 /\ writer'[chain'.refinement] = "working" =>
           att'[chain'.refinement].phase \in {"writing", "stopping"}
    BY <1>4, <1>5, <1>7, <2>4, <2>7 DEF Works
  <2>12. chain'.handle # 0 /\ writer'[chain'.handle] = "working" => said'[chain'.handle] = None
    BY <1>5, <2>5, <2>8 DEF Works
  <2> QED BY <2>1, <2>6, <2>9, <2>10, <2>11, <2>12 DEF Writers, Works
<1>12. Quiet'
  <2> HIDE DEF r, found, has, over
  <2>1. \A k \in Handles : ~Pending(k) /\ att'[k].phase = att[k].phase
    BY <1>1, <1>7
  <2>2. \A k \in Handles : att'[k].phase \notin {"stopping", "cleaning"}
    BY ONLY <2>1 DEF Pending
  <2> QED BY <2>2 DEF Quiet
<1> QED BY <1>1, <1>8, <1>9, <1>10, <1>11, <1>12, Ended, Zenon

(* Every visit keeps the invariant.                                         *)
LEMMA VisitKeeps == ASSUME RefInv, Visit PROVE RefInv'
<1> USE HandleFacts DEF RefInv, TypeInv, TypeOK
<1>1. CASE StartRefining
  <2>1. chain.launching = 0 /\ \A g \in Handles : ~Works(g)
    BY <1>1 DEF StartRefining, ChainShape, NoChain, Writers
  <2> QED BY <1>1, <2>1, StartPhaseKeeps DEF StartRefining, Free
<1>2. CASE Deliver
  BY <1>2, DeliverKeeps
<1>3. CASE ResumeLaunch
  <2>1. chain.launching # 0 /\ chain.on /\ chain.refinement \in Maybe
    BY <1>3 DEF ResumeLaunch, OnVisit, NoReceipt, ChainShape, Chain
  <2> QED BY <1>3, <2>1, StartPhaseKeeps DEF ResumeLaunch, OnVisit, Free
<1>4. CASE Relaunch
  BY <1>4, StartPhaseKeeps DEF Relaunch, OnVisit, Free
<1>5. CASE OnDone
  BY <1>5, OnDoneKeeps
<1>6. CASE OnBlocked
  BY <1>6, OnBlockedKeeps
<1>7. CASE OnCheckpoint
  <2>1. OnVisit /\ Launched
    BY <1>7 DEF OnCheckpoint, Reported
  <2>2. CASE StartPhase(0, TRUE, TRUE)
    BY <2>1, <2>2, LaunchedFacts, StartPhaseKeeps
  <2>3. CASE /\ ~Dead /\ Heard /\ Enter("between") /\ UNCHANGED <<tracker, saved, landed>>
             /\ writer' = [writer EXCEPT ![chain.handle] = "working"]
    BY <2>1, <2>3, CheckpointKeeps
  <2> QED BY <1>7, <2>2, <2>3 DEF OnCheckpoint
<1>8. CASE OnDeath
  <2>1. OnVisit /\ Launched /\ Dead
    BY <1>8 DEF OnDeath
  <2>2. CASE StartPhase(0, FALSE, FALSE)
    BY <2>1, <2>2, LaunchedFacts, StartPhaseKeeps
  <2>3. CASE /\ Busy("discard", chain.refinement, "check", "hold", FALSE)
             /\ UNCHANGED <<tracker, saved, landed, threads, stage>>
    <3>1. Tasks'
      BY <2>1, <2>3, LaunchedFacts DEF Tasks, Busy, Idle, Works, Dead, saved, threads
    <3> QED BY <2>1, <2>3, <3>1, LaunchedFacts, BusyKeeps DEF saved, threads
  <2> QED BY <1>8, <2>2, <2>3 DEF OnDeath
<1>9. CASE EndTick
  BY <1>9, EndTickKeeps
<1> QED BY <1>1, <1>2, <1>3, <1>4, <1>5, <1>6, <1>7, <1>8, <1>9 DEF Visit

(* Every step keeps the invariant.                                          *)
LEMMA RefStep == ASSUME RefInv, [Next]_vars PROVE RefInv'
<1>1. CASE Discarding \/ Adopting
  BY <1>1, DiscardCheckKeeps, DiscardCleanKeeps, DiscardPruneKeeps, DiscardPickKeeps, DiscardRemoveKeeps,
     AdoptCollectKeeps, AdoptPickKeeps, AdoptTransferKeeps, AdoptDoneKeeps DEF Discarding, Adopting
<1>2. CASE Accepting
  BY <1>2, AcceptReportKeeps, AcceptValidateKeeps, AcceptLandKeeps, AcceptMergeKeeps, AcceptPickKeeps,
     AcceptConvertKeeps, AcceptDoneKeeps DEF Accepting
<1>3. CASE Launching
  BY <1>3, LaunchIntendKeeps, LaunchBeginKeeps, LaunchNameKeeps, LaunchSpawnKeeps, LaunchFailedKeeps,
     LaunchReceiptKeeps DEF Launching
<1>4. CASE StopWriter("discard", "clean") \/ StopWriter("adopt", "collect")
  BY <1>4, WriterStops
<1>5. CASE CommandFails \/ LaunchFails
  BY <1>5, CommandFailsKeeps, LaunchFailsKeeps
<1>6. CASE TickStep
  BY <1>6, StartKeeps, BeginTickKeeps, SettleKeeps, VisitKeeps, StopEndsKeeps, RecoverKeeps, StopNextKeeps
     DEF TickStep
<1>7. CASE Resolve
  <2>1. CASE \E adopt \in BOOLEAN : Retry(adopt)
    BY <2>1, ResolveFacts, HandleFacts, StartPhaseKeeps DEF Retry
  <2> QED BY <1>7, <2>1, AnswerKeeps, RedispatchKeeps DEF Resolve
<1>8. CASE Crash \/ Stop
  BY <1>8, CrashKeeps, StopKeeps
<1>9. CASE Others
  BY <1>9, ReclaimKeeps, FileRowKeeps DEF Others
<1>10. CASE \E h \in Handles : Session(h)
  BY <1>10, CreateKeeps, OmitKeeps, SaysKeeps, DiesKeeps DEF Session
<1>11. CASE UNCHANGED vars
  BY <1>11, QuietlyKeeps
<1> QED BY <1>1, <1>2, <1>3, <1>4, <1>5, <1>6, <1>7, <1>8, <1>9, <1>10, <1>11 DEF Next, TaskStep

(* The initial states satisfy the invariant.                                *)
LEMMA RefInit == Init => RefInv
<1> SUFFICES ASSUME Init PROVE RefInv
  OBVIOUS
<1> USE HandleFacts DEF Init
<1>1. TypeInv
  BY IdleTask DEF TypeInv, TypeOK, NoAttempt, Attempt, NoChain, Chain, Idle, Claims
<1>2. TaskShape /\ LaunchShape /\ NobodyYet /\ Naming /\ FirstLaunch /\ Tasks /\ Quiet
  BY DEF TaskShape, LaunchShape, MidLaunch, NobodyYet, Early, Naming, FirstLaunch, Tasks, Quiet, Idle
<1>3. ChainShape /\ Attempts
  BY DEF ChainShape, NoChain, Attempts, AttemptOK, NoAttempt, Alive
<1>4. Writers
  BY DEF Writers, OneWriter, Works, NoChain, Idle
<1> QED BY <1>1, <1>2, <1>3, <1>4 DEF RefInv

(* The inductive invariant holds in every reachable state, for any rows,    *)
(* number of attempts and bounds.                                           *)
THEOREM RefinementInvariant == Spec => []RefInv
<1>1. RefInv /\ [Next]_vars => RefInv'
  BY RefStep
<1> QED BY RefInit, <1>1, PTL DEF Spec

(* Every variable of the refinement keeps its type.                         *)
THEOREM RefinementTypeCorrect == Spec => []TypeOK
<1>1. RefInv => TypeOK
  BY DEF RefInv, TypeInv
<1> QED BY RefinementInvariant, <1>1, PTL

(* At most one writer of the node is at work, whatever launch, stop, crash  *)
(* or resolution came in between: launch, startPhase and settle never start *)
(* a second one.                                                            *)
THEOREM OneWriterAtWork == Spec => []OneWriter
<1>1. RefInv => OneWriter
  BY DEF RefInv, Writers
<1> QED BY RefinementInvariant, <1>1, PTL

(* An attempt whose stubs the collector contains stays under acceptance     *)
(* until it is accepted: no discard and no adoption gives it up.            *)
THEOREM ContractsAreKept == Spec => []StubsKeepContract
<1>1. RefInv => StubsKeepContract
  BY DEF RefInv, TypeInv, TypeOK, Attempts, AttemptOK, StubsKeepContract
<1> QED BY RefinementInvariant, <1>1, PTL

(* Nothing but a discard's removal takes a row from the tracker.            *)
LEMMA RowsStay ==
  ASSUME RefInv, [Next]_vars, ~DiscardRemove, NEW r \in Rows, up[r] # Absent
  PROVE  up'[r] # Absent
<1> USE DEF RefInv, TypeInv, TypeOK, tracker
<1>1. ASSUME UNCHANGED up PROVE up'[r] # Absent
  BY <1>1
<1>2. CASE Discarding \/ Adopting \/ Accepting
  BY <1>1, <1>2, Zenon DEF Discarding, DiscardCheck, DiscardClean, DiscardPrune, DiscardPick, OnlyAtt,
     Adopting, AdoptCollect, AdoptPick, AdoptTransfer, AdoptDone,
     Accepting, AcceptReport, AcceptValidate, AcceptLand, AcceptMerge, AcceptPick, AcceptConvert, AcceptDone
<1>3. CASE Launching \/ StopWriter("discard", "clean") \/ StopWriter("adopt", "collect") \/ CommandFails \/ LaunchFails
  BY <1>1, <1>3 DEF Launching, LaunchIntend, LaunchBegin, LaunchName, LaunchSpawn, LaunchFailed, LaunchReceipt,
     StopWriter, CommandFails, LaunchFails, OnlyAtt
<1>4. CASE TickStep \/ Resolve
  BY <1>1, <1>4, Zenon DEF TickStep, Start, BeginTick, Settle, StopAgain, StopEnds, Recover, StopNext, Visit,
     StartRefining, Deliver, ResumeLaunch, Relaunch, OnDone, OnBlocked, OnCheckpoint, OnDeath, EndTick, StartPhase,
     Resolve, Answer, Redispatch, Retry
<1>5. CASE Crash \/ Stop \/ UNCHANGED vars
  BY <1>1, <1>5 DEF Crash, Stop, vars
<1>6. CASE Others \/ \E h \in Handles : Session(h)
  <2>1. CASE \E q \in Rows, p \in Rows \cup {Node} : up[q] = Absent /\ up' = [up EXCEPT ![q] = p]
    BY <2>1, NamesAssumption
  <2>2. CASE UNCHANGED up
    BY <1>1, <2>2
  <2>3. CASE \E q \in Rows, p \in Rows \cup {Node} : FileRow(q, p) \/ \E h \in Handles : Create(h, q, p)
    BY <2>1, <2>3 DEF FileRow, Create, Present
  <2> QED BY <1>6, <2>2, <2>3 DEF Others, Session, Reclaim, Omit, Says, Dies
<1> QED BY <1>2, <1>3, <1>4, <1>5, <1>6 DEF Next, TaskStep

(* A removed row was one of the attempt being cleaned, not of its baseline, *)
(* and that attempt's writer was not at work.                               *)
THEOREM EveryRemovalIsEarned == Spec => RemovalIsEarned
<1> DEFINE A == \A r \in Rows : up[r] # Absent /\ up'[r] = Absent =>
                  \E h \in Handles :
                    /\ att[h].phase = "cleaning" /\ writer[h] # "working"
                    /\ r \in att[h].owned \ att[h].baseline
                    /\ claim[r] \in {h, Other, None}
<1>1. ASSUME RefInv, [Next]_vars PROVE [A]_vars
  <2>1. CASE DiscardRemove
    <3>1. /\ task.h \in Handles /\ att[task.h].phase = "cleaning" /\ task.row \in att[task.h].owned \ att[task.h].baseline
          /\ claim[task.row] \in {task.h, Other}
      BY <1>1, <2>1 DEF RefInv, TaskShape, Tasks, DiscardRemove, In
    <3>2. writer[task.h] # "working"
      BY <1>1, <3>1 DEF RefInv, Attempts, AttemptOK, Alive
    <3>3. \A r \in Rows : up[r] # Absent /\ up'[r] = Absent => r = task.row
      BY <1>1, <2>1 DEF RefInv, TypeInv, TypeOK, DiscardRemove, tracker
    <3> QED BY <3>1, <3>2, <3>3
  <2>2. CASE ~DiscardRemove
    <3>1. \A r \in Rows : up[r] # Absent => up'[r] # Absent
      BY <1>1, <2>2, RowsStay
    <3> QED BY <3>1
  <2> QED BY <2>1, <2>2
<1> HIDE DEF A
<1>2. Spec => [][A]_vars
  BY RefinementInvariant, <1>1, PTL DEF Spec
<1> QED BY <1>2 DEF RemovalIsEarned, A
=============================================================================
