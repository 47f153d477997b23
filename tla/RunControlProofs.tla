-------------------------- MODULE RunControlProofs --------------------------
(***************************************************************************)
(* For any number of reconcilers and start commands, whatever is started,  *)
(* stopped, restarted by hand or killed: the run lock fails only when two  *)
(* start-ups overlap, and no write loses a constraint or a stop.           *)
(***************************************************************************)
EXTENDS RunControl, TLAPS

(* Between its claim of the run lock and its end.                           *)
Holds(p) == pc[p] \in {"publish", "runs", "handover", "leaves"}

(* Unless start-ups overlapped: one start-up is under way, who holds the    *)
(* lock has its pid in it, and who is about to claim it saw that nobody     *)
(* holds it.                                                                *)
LockInv ==
  /\ pc \in [Pid -> {"unborn", "waits", "load", "check", "save", "mkdir", "look",
                     "claim", "publish", "runs", "handover", "leaves", "gone"}]
  /\ overlap \in BOOLEAN
  /\ ~overlap =>
       /\ \A p, q \in Pid : StartingUp(p) /\ StartingUp(q) => p = q
       /\ \A p \in Pid : Holds(p) => lock = p
       /\ \A p, q \in Pid : pc[p] = "claim" => ~Holds(q)

(* Nothing runs and nothing is locked to begin with.                        *)
LEMMA LockInit == Init => LockInv
BY DEF Init, LockInv, StartingUp, Holds

(* What start commands, the stop command and the owner do to the lock.      *)
LEMMA CommandsKeepLock ==
  ASSUME LockInv, (\E c \in Starter : Start(c)) \/ MarkStopping \/ StopOn \/ StopFails \/ Constrain
  PROVE  LockInv'
<1> USE RunAssumption DEF RunAssumption, LockInv, StartingUp, Holds, processes, commands
<1>1. ASSUME NEW c \in Starter, StartLoad(c) \/ StartCheck(c) \/ StartSave(c) \/ StartRefused(c)
      PROVE  LockInv'
  BY <1>1 DEF StartLoad, StartCheck, StartSave, StartRefused
<1>2. ASSUME NEW c \in Starter, NEW p \in Pid, StartSpawn(c, p)
      PROVE  LockInv'
  BY <1>2 DEF StartSpawn, Begin
<1>3. CASE MarkStopping \/ Observe \/ Retire \/ FinishStop \/ StopFails \/ Constrain
  BY <1>3 DEF MarkStopping, Observe, Retire, FinishStop, StopFails, Constrain
<1>4. CASE Kill
  BY <1>4 DEF Kill, Exit, Alive
<1> QED BY <1>1, <1>2, <1>3, <1>4 DEF Start, StopOn

(* What a reconciler's own steps do to the lock.                            *)
LEMMA ReconcilersKeepLock ==
  ASSUME LockInv, NEW p \in Pid, RunByHand(p) \/ StartUp(p) \/ Work(p) \/ GoOn(p) \/ Crash(p)
  PROVE  LockInv'
<1> USE RunAssumption DEF RunAssumption, LockInv, StartingUp, Holds, commands
<1>1. CASE RunByHand(p)
  BY <1>1 DEF RunByHand, Begin
<1>2. CASE Wait(p)
  BY <1>2 DEF Wait, Begin
<1>3. CASE Load(p)
  BY <1>3 DEF Load, Exit
<1>4. CASE CheckOwner(p)
  BY <1>4 DEF CheckOwner
<1>5. CASE FirstSave(p)
  BY <1>5 DEF FirstSave
<1>6. CASE MakeLock(p)
  BY <1>6 DEF MakeLock
<1>7. CASE FindLock(p)
  BY <1>7 DEF FindLock
<1>8. CASE LookAtLock(p)
  BY <1>8 DEF LookAtLock, Exit, HeldByOther, Alive
<1>9. CASE Claim(p)
  BY <1>9 DEF Claim, Exit
<1>10. CASE Publish(p)
  BY <1>10 DEF Publish
<1>11. CASE Work(p)
  BY <1>11 DEF Work, LaunchWorker, Settle, Done, SaveBeforeRestart, Exit
<1>12. CASE GoOn(p)
  <2>1. ASSUME NEW q \in Pid, HandOver(p, q)
        PROVE  LockInv'
    BY <2>1 DEF HandOver
  <2>2. CASE Leave(p)
    BY <2>2 DEF Leave, Exit
  <2> QED BY <1>12, <2>1, <2>2 DEF GoOn
<1>13. CASE Crash(p)
  BY <1>13 DEF Crash
<1> QED BY <1>1, <1>2, <1>3, <1>4, <1>5, <1>6, <1>7, <1>8, <1>9, <1>10, <1>11, <1>12, <1>13 DEF StartUp

(* Whatever processes start, stop, crash or restart: two reconcilers are at *)
(* work together only after two of them were starting up together, between  *)
(* the load of their state and their first save.                            *)
THEOREM RunLockExcludes == Spec => []OneUnlessOverlap
<1>1. Init => LockInv
  BY LockInit
<1>2. LockInv /\ [Next]_vars => LockInv'
  <2> SUFFICES ASSUME LockInv, [Next]_vars PROVE LockInv'
    OBVIOUS
  <2>1. CASE UNCHANGED vars
    BY <2>1 DEF vars, LockInv, StartingUp, Holds
  <2>2. CASE Next
    BY <2>2, CommandsKeepLock, ReconcilersKeepLock DEF Next
  <2> QED BY <2>1, <2>2
<1>3. LockInv => OneUnlessOverlap
  BY RunAssumption DEF RunAssumption, LockInv, OneUnlessOverlap, OneReconciler, Holds
<1> QED BY <1>1, <1>2, <1>3, PTL DEF Spec

----------------------------------------------------------------------------
(* What OwnerWritesKept asks of one step.                                   *)
Kept ==
  file # Absent =>
    /\ file.constrained => file'.constrained
    /\ file.stopping /\ ~file'.stopping => stop.at = "finish"

(* A command or a hand-over past its first write finds a file.              *)
Written ==
  file = Absent =>
    /\ \A c \in Starter : cmd[c] # "spawn"
    /\ \A p \in Pid : pc[p] # "handover"
    /\ stop.at = "idle"

RunInv == TypeOK /\ Written

(* A fresh state is a state.                                                *)
LEMMA FreshState == Fresh \in State
BY DEF Fresh, State

(* A save of any state writes a state, and keeps the constraint and the     *)
(* stop of the file.                                                        *)
LEMMA SaveKeeps ==
  ASSUME TypeOK, NEW s \in State, file' = Merged(s)
  PROVE  file' \in State /\ file' # Absent /\ Kept
<1>1. CASE file = Absent
  BY <1>1, FileAssumption DEF Merged, Kept
<1>2. CASE file # Absent
  <2>1. file \in State
    BY <1>2 DEF TypeOK
  <2>2. file' = [s EXCEPT !.constrained = file.constrained,
                          !.stopping = file.stopping \/ s.stopping]
    BY <1>2 DEF Merged
  <2>3. file' \in State
    BY <2>1, <2>2 DEF State
  <2>4. file'.constrained = file.constrained /\ file'.stopping = (file.stopping \/ s.stopping)
    BY <2>1, <2>2 DEF State
  <2> QED BY <2>3, <2>4, FileAssumption DEF Kept
<1> QED BY <1>1, <1>2

(* A start command that goes on holds a state.                              *)
LEMMA GoKeeps ==
  ASSUME TypeOK, NEW c \in Starter,
         NEW at \in {"idle", "check", "save", "spawn"}, NEW s \in State, Go(c, at, s)
  PROVE  /\ prior' \in [Starter -> State]
         /\ cmd' \in [Starter -> {"idle", "check", "save", "spawn"}]
         /\ at # "spawn" => \A d \in Starter : cmd'[d] = "spawn" => cmd[d] = "spawn"
BY FreshState DEF Go, TypeOK

(* A start command loads, saves and publishes states.                       *)
LEMMA StartKeeps ==
  ASSUME RunInv, NEW c \in Starter, Start(c)
  PROVE  RunInv' /\ Kept
<1> USE DEF RunInv
<1>1. CASE StartLoad(c)
  <2>1. (IF file = Absent THEN Fresh ELSE file) \in State
    BY FreshState DEF TypeOK
  <2>2. Go(c, "check", IF file = Absent THEN Fresh ELSE file) /\ UNCHANGED <<processes, file, stop>>
    BY <1>1 DEF StartLoad
  <2>3. crossed' \in BOOLEAN
    BY <1>1 DEF StartLoad, Crosses, TypeOK
  <2> QED BY <2>1, <2>2, <2>3, GoKeeps DEF processes, TypeOK, Written, Kept
<1>2. CASE StartCheck(c)
  <2>1. prior[c] \in State
    BY DEF TypeOK
  <2>2. Go(c, IF Owned(prior[c]) THEN "idle" ELSE "save", prior[c]) /\ UNCHANGED <<processes, file, stop, crossed>>
    BY <1>2 DEF StartCheck
  <2> QED BY <2>1, <2>2, GoKeeps DEF processes, TypeOK, Written, Kept
<1>3. CASE StartSave(c)
  <2>1. prior[c] \in State
    BY DEF TypeOK
  <2>2. file' \in State /\ file' # Absent /\ Kept
    BY <1>3, <2>1, SaveKeeps DEF StartSave
  <2>3. Go(c, IF file'.stopping \/ Owned(file') THEN "idle" ELSE "spawn", Fresh) /\ UNCHANGED <<processes, stop, crossed>>
    BY <1>3 DEF StartSave
  <2> QED BY <2>2, <2>3, FreshState, GoKeeps DEF processes, TypeOK, Written
<1>4. CASE StartRefused(c)
  <2>1. Go(c, "idle", Fresh) /\ UNCHANGED <<processes, file, stop, crossed>>
    BY <1>4 DEF StartRefused
  <2> QED BY <2>1, FreshState, GoKeeps DEF processes, TypeOK, Written, Kept
<1>5. ASSUME NEW p \in Pid, StartSpawn(c, p)
      PROVE  RunInv' /\ Kept
  <2>1. file \in State
    BY <1>5 DEF StartSpawn, TypeOK, Written
  <2>2. file' = [file EXCEPT !.pid = p]
    BY <1>5 DEF StartSpawn
  <2>3. file' \in State /\ Kept
    BY <2>1, <2>2 DEF State, Kept
  <2>4. /\ UNCHANGED <<lock, live, copy, pred, stop, crossed>>
        /\ pc' = [pc EXCEPT ![p] = "load"]
        /\ Begin(p)
        /\ Go(c, "idle", Fresh)
    BY <1>5 DEF StartSpawn
  <2> QED BY <2>3, <2>4, FreshState, GoKeeps, FileAssumption DEF TypeOK, Written, Begin
<1> QED BY <1>1, <1>2, <1>3, <1>4, <1>5 DEF Start

(* The stop command marks, observes, retires and ends; the owner constrains. *)
LEMMA OwnerKeeps ==
  ASSUME RunInv, MarkStopping \/ StopOn \/ StopFails \/ Constrain
  PROVE  RunInv' /\ Kept
<1> USE DEF RunInv
<1>1. CASE MarkStopping
  <2>1. file \in State /\ file' = [file EXCEPT !.stopping = TRUE]
    BY <1>1 DEF MarkStopping, TypeOK
  <2>2. file' \in State /\ Kept
    BY <2>1 DEF State, Kept
  <2>3. file.pid \in Pid \cup {NoPid}
    BY <2>1 DEF State
  <2>4. stop' = [stop EXCEPT !.at = "kill", !.target = file.pid] /\ UNCHANGED <<processes, cmd, prior>>
    BY <1>1 DEF MarkStopping
  <2>5. crossed' \in BOOLEAN
    BY <1>1 DEF MarkStopping, Crosses, TypeOK
  <2> QED BY <2>2, <2>3, <2>4, <2>5, FileAssumption DEF TypeOK, Written, processes
<1>2. CASE Kill
  <2>1. file # Absent /\ UNCHANGED <<file, live, pred, cmd, prior, overlap, crossed>>
    BY <1>2 DEF Kill, Written
  <2>2. stop' = [stop EXCEPT !.at = "observe"]
    BY <1>2 DEF Kill
  <2>3. CASE Alive(stop.target) /\ Exit(stop.target)
    BY <2>1, <2>2, <2>3, FreshState DEF Exit, TypeOK, Written, Kept
  <2>4. CASE UNCHANGED <<pc, lock, copy>>
    BY <2>1, <2>2, <2>4 DEF TypeOK, Written, Kept
  <2> QED BY <1>2, <2>3, <2>4 DEF Kill
<1>3. CASE Observe
  <2>1. file \in State
    BY <1>3 DEF Observe, Written, TypeOK
  <2>2. (file.chains \/ file.resume) \in BOOLEAN
    OBVIOUS
  <2> QED BY <1>3, <2>1, <2>2, FileAssumption DEF Observe, processes, TypeOK, Written, Kept
<1>4. CASE Retire
  BY <1>4 DEF Retire, TypeOK, Written, Kept
<1>5. CASE FinishStop
  <2>1. file \in State /\ stop.resume \in BOOLEAN
    BY <1>5 DEF FinishStop, Written, TypeOK
  <2>2. file' = [file EXCEPT !.chains = FALSE, !.resume = stop.resume, !.pid = NoPid,
                             !.stopping = FALSE, !.finished = "stopped"]
    BY <1>5 DEF FinishStop
  <2>3. file' \in State /\ file'.constrained = file.constrained
    BY <2>1, <2>2 DEF State
  <2> QED BY <1>5, <2>3, FileAssumption DEF FinishStop, processes, TypeOK, Written, Kept
<1>6. CASE StopFails
  BY <1>6 DEF StopFails, processes, TypeOK, Written, Kept
<1>7. CASE Constrain
  <2>1. file \in State /\ file' = [file EXCEPT !.constrained = TRUE]
    BY <1>7 DEF Constrain, TypeOK
  <2>2. file' \in State /\ Kept
    BY <2>1 DEF State, Kept
  <2> QED BY <1>7, <2>2, FileAssumption DEF Constrain, processes, commands, TypeOK, Written
<1> QED BY <1>1, <1>2, <1>3, <1>4, <1>5, <1>6, <1>7 DEF StopOn

(* A save by a reconciler leaves its memory a state, too.                   *)
LEMMA MemoryKeeps ==
  ASSUME TypeOK, NEW p \in Pid, NEW s \in State, file' = Merged(s),
         copy' = [copy EXCEPT ![p] = file'] \/ copy' = [copy EXCEPT ![p] = Fresh]
  PROVE  file' \in State /\ file' # Absent /\ Kept /\ copy' \in [Pid -> State]
BY SaveKeeps, FreshState DEF TypeOK

(* A reconciler starts up, works, hands over and ends.                      *)
LEMMA ReconcilerKeeps ==
  ASSUME RunInv, NEW p \in Pid, RunByHand(p) \/ StartUp(p) \/ Work(p) \/ GoOn(p) \/ Crash(p)
  PROVE  RunInv' /\ Kept
<1> USE DEF RunInv, commands
<1>0. copy[p] \in State
  BY DEF TypeOK
<1>1. CASE RunByHand(p) \/ Wait(p)
  BY <1>1 DEF RunByHand, Wait, Begin, Crosses, TypeOK, Written, Kept
<1>2. CASE Load(p)
  <2>1. (IF file = Absent THEN Fresh ELSE file) \in State
    BY FreshState DEF TypeOK
  <2> QED BY <1>2, <2>1, FreshState DEF Load, Exit, TypeOK, Written, Kept
<1>3. CASE CheckOwner(p) \/ MakeLock(p) \/ FindLock(p)
  BY <1>3 DEF CheckOwner, MakeLock, FindLock, TypeOK, Written, Kept
<1>4. CASE LookAtLock(p) \/ Claim(p) \/ Leave(p) \/ Crash(p)
  BY <1>4, FreshState DEF LookAtLock, Claim, Leave, Crash, Exit, TypeOK, Written, Kept
<1>5. CASE FirstSave(p) \/ SaveBeforeRestart(p)
  <2>1. file' \in State /\ file' # Absent /\ Kept /\ copy' \in [Pid -> State]
    BY <1>0, <1>5, MemoryKeeps DEF FirstSave, SaveBeforeRestart, Save
  <2> QED BY <1>5, <2>1 DEF FirstSave, SaveBeforeRestart, Crosses, TypeOK, Written
<1>6. CASE Publish(p)
  <2>1. [copy[p] EXCEPT !.pid = p, !.finished = "no"] \in State
    BY <1>0 DEF State
  <2>2. file' \in State /\ file' # Absent /\ Kept /\ copy' \in [Pid -> State]
    BY <1>6, <2>1, MemoryKeeps DEF Publish
  <2> QED BY <1>6, <2>2 DEF Publish, TypeOK, Written
<1>7. CASE LaunchWorker(p)
  <2>1. [copy[p] EXCEPT !.chains = TRUE, !.resume = FALSE] \in State
    BY <1>0 DEF State
  <2>2. file' \in State /\ file' # Absent /\ Kept /\ copy' \in [Pid -> State]
    BY <1>7, <2>1, MemoryKeeps DEF LaunchWorker
  <2> QED BY <1>7, <2>2 DEF LaunchWorker, TypeOK, Written
<1>8. CASE Settle(p)
  <2>1. [copy[p] EXCEPT !.chains = FALSE] \in State
    BY <1>0 DEF State
  <2>2. file' \in State /\ file' # Absent /\ Kept /\ copy' \in [Pid -> State]
    BY <1>8, <2>1, MemoryKeeps DEF Settle
  <2> QED BY <1>8, <2>2 DEF Settle, TypeOK, Written
<1>9. CASE Done(p)
  <2>1. [copy[p] EXCEPT !.finished = "done"] \in State
    BY <1>0 DEF State
  <2>2. file' \in State /\ file' # Absent /\ Kept /\ copy' \in [Pid -> State]
    BY <1>9, <2>1, MemoryKeeps DEF Done, Exit
  <2> QED BY <1>9, <2>2 DEF Done, Exit, TypeOK, Written
<1>10. ASSUME NEW q \in Pid, HandOver(p, q)
       PROVE  RunInv' /\ Kept
  <2>1. file \in State
    BY <1>10 DEF HandOver, TypeOK, Written
  <2>2. [file EXCEPT !.pid = q] \in State
    BY <2>1 DEF State
  <2>3. file' \in State /\ file'.constrained = file.constrained /\ file'.stopping = file.stopping
    BY <1>10, <2>1, <2>2 DEF HandOver, State
  <2> QED BY <1>10, <2>3, FileAssumption DEF HandOver, TypeOK, Written, Kept
<1> QED BY <1>1, <1>2, <1>3, <1>4, <1>5, <1>6, <1>7, <1>8, <1>9, <1>10 DEF StartUp, Work, GoOn

(* Before the first start there is no file and nobody at work.              *)
LEMMA RunInit == Init => RunInv
<1> SUFFICES ASSUME Init PROVE RunInv
  OBVIOUS
<1>1. copy \in [Pid -> State] /\ prior \in [Starter -> State]
  BY FreshState DEF Init
<1> QED BY <1>1 DEF Init, RunInv, TypeOK, Written

(* Every step keeps the invariant and what the owner wrote.                 *)
LEMMA RunStep == RunInv /\ [Next]_vars => RunInv' /\ [Kept]_vars
<1> SUFFICES ASSUME RunInv, [Next]_vars PROVE RunInv' /\ [Kept]_vars
  OBVIOUS
<1>1. CASE UNCHANGED vars
  BY <1>1 DEF vars, RunInv, TypeOK, Written
<1>2. CASE Next
  BY <1>2, StartKeeps, OwnerKeeps, ReconcilerKeeps DEF Next
<1> QED BY <1>1, <1>2

(* The type invariant: the file and every copy of it in memory are states   *)
(* of the run, and the lock names a process.                                *)
THEOREM RunTypeCorrect == Spec => []TypeOK
<1>1. RunInv => TypeOK
  BY DEF RunInv
<1> QED BY <1>1, RunInit, RunStep, PTL DEF Spec

(* Whoever writes the state, from however stale a copy: a recorded          *)
(* constraint stays, and an explicit stop stays until its own last step.    *)
THEOREM OwnerWritesAreKept == Spec => OwnerWritesKept
<1>1. Spec => [][Kept]_vars
  BY RunInit, RunStep, PTL DEF Spec
<1> QED BY <1>1 DEF OwnerWritesKept, Kept

----------------------------------------------------------------------------
(* While no two commands crossed.                                           *)

(* A reconciler that may still work, or be told to.                         *)
Active(p) == pc[p] \notin {"unborn", "leaves", "gone"}
Loaded(p) == pc[p] \in {"check", "save", "mkdir", "look", "claim", "publish", "runs", "handover"}
AtWork(p) == pc[p] \in {"runs", "handover"}

(* One reconciler is up, the file names it, and its copy has what the file  *)
(* has; once it is at work the run is not over.                             *)
OneActive ==
  /\ \A p, q \in Pid : Active(p) /\ Active(q) => p = q
  /\ \A p \in Pid : Active(p) => file # Absent /\ file.pid = p
  /\ \A p \in Pid : Loaded(p) => copy[p].pid = p /\ copy[p].resume = file.resume
  /\ \A p \in Pid : AtWork(p) => file.finished = "no" /\ copy[p].finished = "no"

(* A start is the only command, beside nobody who starts up or hands over,  *)
(* and beside nobody at work once it found the run without an owner.        *)
OneCommand ==
  /\ \A c, d \in Starter : cmd[c] # "idle" /\ cmd[d] # "idle" => c = d
  /\ \A c \in Starter : cmd[c] # "idle" =>
       /\ stop.at = "idle"
       /\ \A p \in Pid : pc[p] \in {"unborn", "gone", "runs"}
       /\ cmd[c] # "check" => \A p \in Pid : pc[p] # "runs"
       /\ cmd[c] = "check" =>
            \A p \in Pid : pc[p] = "runs" => prior[c].pid = p /\ prior[c].finished = "no"
       /\ cmd[c] \in {"check", "save"} /\ file # Absent /\ file.resume => prior[c].resume

(* What stop kills is the one reconciler; from then on there is none, and   *)
(* the workers it saw are all there are.                                    *)
Stopping ==
  /\ stop.at # "idle" => file.stopping
  /\ stop.at = "kill" => \A p \in Pid : Active(p) => p = stop.target
  /\ stop.at \in {"observe", "retire", "finish"} => \A p \in Pid : ~Active(p)
  /\ stop.at = "retire" => live \subseteq stop.seen
  /\ stop.at = "finish" => live = {}
  /\ stop.at \in {"retire", "finish"} /\ file.resume => stop.resume

(* A stopped run has no workers: neither the one in the file nor one that a *)
(* start-up or a start command still holds.                                 *)
Stopped ==
  /\ file # Absent /\ file.finished = "stopped" => live = {}
  /\ \A p \in Pid : copy[p].finished = "stopped" => StartingUp(p) /\ live = {}
  /\ \A c \in Starter : prior[c].finished = "stopped" =>
       /\ cmd[c] \in {"check", "save"} /\ live = {}
       /\ \A p \in Pid : pc[p] # "runs"

InOrder == OneActive /\ OneCommand /\ Stopping /\ Stopped

(* What a step may do to the resume records (ResumeKept).                   *)
Resumes ==
  ~crossed /\ file # Absent /\ file.resume /\ ~file'.resume => file'.chains /\ ~(live' \subseteq live)

(* What a save puts in the file.                                            *)
LEMMA MergedFields ==
  ASSUME TypeOK, NEW s \in State
  PROVE  /\ Merged(s).pid = s.pid /\ Merged(s).finished = s.finished
         /\ Merged(s).chains = s.chains /\ Merged(s).resume = s.resume
         /\ s.resume => Merged(s).resume
         /\ file # Absent => Merged(s).stopping = (file.stopping \/ s.stopping)
         /\ file # Absent /\ file.stopping => Merged(s).stopping
         /\ Merged(s) \in State /\ Merged(s) # Absent
<1>1. CASE file = Absent
  BY <1>1, FileAssumption DEF Merged
<1>2. CASE file # Absent
  BY <1>2, FileAssumption DEF Merged, TypeOK, State
<1> QED BY <1>1, <1>2


(* Crossed commands stay crossed.                                           *)
LEMMA CrossedStays ==
  ASSUME crossed, [Next]_vars
  PROVE  crossed'
<1> USE DEF processes, commands
<1>1. ASSUME NEW c \in Starter, Start(c)
      PROVE  crossed'
  BY <1>1 DEF Start, StartLoad, StartCheck, StartSave, StartRefused, StartSpawn, Crosses
<1>2. ASSUME NEW p \in Pid, RunByHand(p) \/ StartUp(p)
      PROVE  crossed'
  BY <1>2 DEF RunByHand, StartUp, Wait, Load, CheckOwner, FirstSave, MakeLock, FindLock,
              LookAtLock, Claim, Publish, Crosses
<1>3. ASSUME NEW p \in Pid, Work(p) \/ GoOn(p) \/ Crash(p)
      PROVE  crossed'
  BY <1>3 DEF Work, LaunchWorker, Settle, Done, SaveBeforeRestart, GoOn, HandOver, Leave,
              Crash, Crosses
<1>4. CASE MarkStopping \/ StopOn \/ StopFails \/ Constrain
  BY <1>4 DEF MarkStopping, StopOn, Kill, Observe, Retire, FinishStop, StopFails, Constrain,
              Crosses
<1> QED BY <1>1, <1>2, <1>3, <1>4 DEF Next, vars

(* What each step keeps while nothing crossed.                              *)
KeepsOrder == (~crossed' => InOrder') /\ Resumes

(* A start command that only looks leaves the file alone.                   *)
LEMMA StartLooksInOrder ==
  ASSUME RunInv, RunInv', ~crossed, InOrder, NEW c \in Starter,
         StartLoad(c) \/ StartCheck(c) \/ StartRefused(c)
  PROVE  KeepsOrder
<1> USE RunAssumption DEF RunAssumption, RunInv, TypeOK, processes, KeepsOrder, InOrder, Resumes,
        StartingUp, Active, Loaded, AtWork
<1>0. Fresh.finished = "no"
  BY DEF Fresh
<1>1. CASE StartLoad(c)
  <2>1. CASE crossed'
    BY <1>1, <2>1 DEF StartLoad
  <2>2. CASE ~crossed'
    <3>1. stop.at = "idle" /\ \A d \in Starter : cmd[d] = "idle"
      BY <1>1, <2>2 DEF StartLoad, Crosses, NoCommand
    <3>2. \A p \in Pid : pc[p] \in {"unborn", "gone", "runs"}
      BY <1>1, <2>2 DEF StartLoad, Crosses
    <3>3. UNCHANGED <<file, lock, live, pc, copy, pred, stop>>
      BY <1>1 DEF StartLoad
    <3>4. /\ cmd' = [cmd EXCEPT ![c] = "check"]
          /\ prior' = [prior EXCEPT ![c] = IF file = Absent THEN Fresh ELSE file]
      BY <1>1 DEF StartLoad, Go
    <3>5. OneActive' /\ Stopping'
      BY <3>3 DEF OneActive, Stopping
    <3>6. OneCommand'
      BY <3>1, <3>2, <3>3, <3>4 DEF OneCommand, OneActive
    <3>7. Stopped'
      BY <1>0, <3>1, <3>2, <3>3, <3>4 DEF Stopped, OneActive
    <3> QED BY <3>3, <3>5, <3>6, <3>7
  <2> QED BY <2>1, <2>2
<1>2. CASE StartCheck(c)
  <2>1. UNCHANGED <<file, lock, live, pc, copy, pred, stop>>
    BY <1>2 DEF StartCheck
  <2>2. OneActive' /\ Stopping'
    BY <2>1 DEF OneActive, Stopping
  <2>3. CASE Owned(prior[c])
    <3>1. cmd' = [cmd EXCEPT ![c] = "idle"] /\ prior' = [prior EXCEPT ![c] = Fresh]
      BY <1>2, <2>3 DEF StartCheck, Go
    <3> QED BY <1>0, <2>1, <2>2, <3>1 DEF OneCommand, Stopped
  <2>4. CASE ~Owned(prior[c])
    <3>1. cmd' = [cmd EXCEPT ![c] = "save"] /\ prior' = prior
      BY <1>2, <2>4 DEF StartCheck, Go
    <3>2. \A p \in Pid : pc[p] # "runs"
      BY <1>2, <2>4 DEF StartCheck, OneCommand, Owned, Alive
    <3>3. OneCommand'
      BY <1>2, <2>1, <3>1, <3>2 DEF StartCheck, OneCommand
    <3>4. Stopped'
      BY <1>2, <2>1, <3>1 DEF StartCheck, Stopped
    <3> QED BY <2>1, <2>2, <3>3, <3>4
  <2> QED BY <2>3, <2>4
<1>3. CASE StartRefused(c)
  <2>1. UNCHANGED <<file, lock, live, pc, copy, pred, stop>>
    BY <1>3 DEF StartRefused
  <2>2. cmd' = [cmd EXCEPT ![c] = "idle"] /\ prior' = [prior EXCEPT ![c] = Fresh]
    BY <1>3 DEF StartRefused, Go
  <2> QED BY <1>0, <2>1, <2>2 DEF OneActive, Stopping, OneCommand, Stopped
<1> QED BY <1>1, <1>2, <1>3

(* A start command saves when nobody is up, and then spawns the one.        *)
LEMMA StartActsInOrder ==
  ASSUME RunInv, RunInv', ~crossed, InOrder, NEW c \in Starter,
         StartSave(c) \/ \E p \in Pid : StartSpawn(c, p)
  PROVE  KeepsOrder
<1> USE RunAssumption DEF RunAssumption, RunInv, TypeOK, processes, KeepsOrder, InOrder, Resumes,
        StartingUp, Active, Loaded, AtWork
<1>0. Fresh.finished = "no"
  BY DEF Fresh
<1>1. CASE StartSave(c)
  <2>1. prior[c] \in State /\ file' = Merged(prior[c])
    BY <1>1 DEF StartSave
  <2>2. /\ file'.finished = prior[c].finished /\ file'.resume = prior[c].resume
        /\ file' \in State /\ file' # Absent
    BY <2>1, MergedFields, FileAssumption
  <2>3. /\ UNCHANGED <<lock, live, pc, copy, pred, stop>>
        /\ \E at \in {"idle", "spawn"} : cmd' = [cmd EXCEPT ![c] = at]
        /\ prior' = [prior EXCEPT ![c] = Fresh]
    BY <1>1 DEF StartSave, Go
  <2>4. stop.at = "idle" /\ \A p \in Pid : pc[p] \in {"unborn", "gone"}
    BY <1>1 DEF StartSave, OneCommand
  <2>5. OneActive' /\ Stopping'
    BY <2>3, <2>4 DEF OneActive, Stopping
  <2>6. OneCommand'
    BY <1>1, <2>3, <2>4 DEF OneCommand, StartSave
  <2>7. Stopped'
    BY <1>0, <1>1, <2>2, <2>3, <2>4 DEF Stopped, StartSave
  <2>8. Resumes
    BY <1>1, <2>2 DEF OneCommand, StartSave
  <2> QED BY <2>5, <2>6, <2>7, <2>8
<1>2. ASSUME NEW p \in Pid, StartSpawn(c, p)
      PROVE  KeepsOrder
  <2>1. file \in State /\ file' = [file EXCEPT !.pid = p]
    BY <1>2 DEF StartSpawn, Written
  <2>2. /\ file'.pid = p /\ file'.resume = file.resume /\ file'.finished = file.finished
        /\ file' # Absent
    BY <2>1, FileAssumption DEF State
  <2>3. /\ UNCHANGED <<lock, live, copy, pred, stop, crossed>>
        /\ pc' = [pc EXCEPT ![p] = "load"]
        /\ cmd' = [cmd EXCEPT ![c] = "idle"]
        /\ prior' = [prior EXCEPT ![c] = Fresh]
    BY <1>2 DEF StartSpawn, Go
  <2>4. /\ stop.at = "idle" /\ \A d \in Starter : d # c => cmd[d] = "idle"
        /\ \A q \in Pid : pc[q] \in {"unborn", "gone"}
    BY <1>2 DEF StartSpawn, OneCommand
  <2>5. OneActive' /\ OneCommand' /\ Stopping'
    BY <2>2, <2>3, <2>4 DEF OneActive, OneCommand, Stopping
  <2>6. Stopped'
    BY <1>0, <2>1, <2>2, <2>3, <2>4, FileAssumption DEF Stopped
  <2> QED BY <2>2, <2>3, <2>5, <2>6
<1> QED BY <1>1, <1>2


(* A reconciler that starts up, up to its first save.                       *)
LEMMA StartUpInOrder ==
  ASSUME RunInv, RunInv', ~crossed, InOrder, NEW p \in Pid, RunByHand(p) \/ StartUp(p)
  PROVE  KeepsOrder
<1> USE RunAssumption DEF RunAssumption, RunInv, TypeOK, commands, KeepsOrder, InOrder, Resumes,
        StartingUp, Active, Loaded, AtWork
<1>0. Fresh.finished = "no" /\ copy[p] \in State
  BY DEF Fresh
<1>1. CASE RunByHand(p)
  BY <1>1 DEF RunByHand, Crosses
<1>2. CASE Wait(p)
  BY <1>2 DEF Wait, OneActive, OneCommand, Stopping, Stopped
<1>3. CASE Load(p)
  <2>1. file # Absent /\ file.pid = p /\ \A q \in Pid : Active(q) => q = p
    BY <1>3 DEF Load, OneActive
  <2>2. \A d \in Starter : cmd[d] = "idle"
    BY <1>3 DEF Load, OneCommand
  <2>3. CASE file.stopping /\ Exit(p)
    BY <1>0, <1>3, <2>1, <2>2, <2>3 DEF Load, Exit, OneActive, OneCommand, Stopping, Stopped
  <2>4. CASE ~file.stopping /\ copy' = [copy EXCEPT ![p] = file] /\ pc' = [pc EXCEPT ![p] = "check"]
    BY <1>3, <2>1, <2>2, <2>4 DEF Load, OneActive, OneCommand, Stopping, Stopped
  <2> QED BY <1>3, <2>1, <2>3, <2>4 DEF Load
<1>4. CASE CheckOwner(p) \/ MakeLock(p) \/ FindLock(p)
  BY <1>4 DEF CheckOwner, MakeLock, FindLock, OneActive, OneCommand, Stopping, Stopped
<1>5. CASE FirstSave(p)
  <2>1. file' = Merged(copy[p]) /\ copy' = [copy EXCEPT ![p] = file']
    BY <1>5 DEF FirstSave, Save
  <2>2. /\ file'.pid = copy[p].pid /\ file'.finished = copy[p].finished
        /\ file'.resume = copy[p].resume
        /\ file # Absent => file'.stopping = (file.stopping \/ copy[p].stopping)
        /\ file' \in State /\ file' # Absent
    BY <1>0, <2>1, MergedFields, FileAssumption
  <2>3. /\ UNCHANGED <<lock, live, pred, overlap, cmd, prior, stop, crossed>>
        /\ pc' = [pc EXCEPT ![p] = "mkdir"] /\ pc[p] = "save"
    BY <1>5 DEF FirstSave
  <2>4. /\ file # Absent /\ copy[p].pid = p /\ copy[p].resume = file.resume
        /\ \A q \in Pid : Active(q) => q = p
    BY <2>3 DEF OneActive
  <2>5. \A d \in Starter : cmd[d] = "idle"
    BY <2>3 DEF OneCommand
  <2>6. OneActive' /\ OneCommand'
    BY <2>1, <2>2, <2>3, <2>4, <2>5 DEF OneActive, OneCommand
  <2>7. Stopping'
    <3>1. file.stopping => file'.stopping
      BY <2>2, <2>4
    <3>2. stop.at \in {"idle", "kill"}
      BY <2>3 DEF Stopping
    <3> QED BY <2>3, <3>1, <3>2 DEF Stopping
  <2>8. Stopped'
    BY <2>1, <2>2, <2>3, <2>4, <2>5 DEF Stopped
  <2> QED BY <2>2, <2>4, <2>6, <2>7, <2>8
<1>6. CASE LookAtLock(p) \/ Claim(p)
  <2>1. \A d \in Starter : cmd[d] = "idle"
    BY <1>6 DEF LookAtLock, Claim, OneCommand
  <2>2. CASE Exit(p)
    BY <1>0, <1>6, <2>1, <2>2 DEF LookAtLock, Claim, Exit, OneActive, OneCommand, Stopping, Stopped
  <2>3. CASE UNCHANGED copy /\ \E at \in {"claim", "publish"} : pc' = [pc EXCEPT ![p] = at]
    BY <1>6, <2>1, <2>3 DEF LookAtLock, Claim, OneActive, OneCommand, Stopping, Stopped
  <2> QED BY <1>6, <2>2, <2>3 DEF LookAtLock, Claim
<1>7. CASE Publish(p)
  <2> DEFINE s == [copy[p] EXCEPT !.pid = p, !.finished = "no"]
  <2>1. s \in State /\ s.pid = p /\ s.finished = "no" /\ s.resume = copy[p].resume
    BY <1>0 DEF State
  <2>2. file' = Merged(s) /\ copy' = [copy EXCEPT ![p] = file']
    BY <1>7 DEF Publish
  <2> HIDE DEF s
  <2>3. /\ file'.pid = p /\ file'.finished = "no" /\ file'.resume = copy[p].resume
        /\ file # Absent /\ file.stopping => file'.stopping
        /\ file' \in State /\ file' # Absent
    BY <2>1, <2>2, MergedFields
  <2>4. /\ UNCHANGED <<lock, live, pred, overlap, cmd, prior, stop, crossed>>
        /\ pc' = [pc EXCEPT ![p] = "runs"] /\ pc[p] = "publish"
    BY <1>7 DEF Publish
  <2>5. /\ file # Absent /\ copy[p].pid = p /\ copy[p].resume = file.resume
        /\ \A q \in Pid : Active(q) => q = p
    BY <2>4 DEF OneActive
  <2>6. \A d \in Starter : cmd[d] = "idle"
    BY <2>4 DEF OneCommand
  <2>7. OneActive' /\ OneCommand'
    BY <2>2, <2>3, <2>4, <2>5, <2>6 DEF OneActive, OneCommand
  <2>8. Stopping'
    <3>1. file.stopping => file'.stopping
      BY <2>3, <2>5
    <3>2. stop.at \in {"idle", "kill"}
      BY <2>4 DEF Stopping
    <3> QED BY <2>4, <3>1, <3>2 DEF Stopping
  <2>9. Stopped'
    BY <2>2, <2>3, <2>4, <2>5, <2>6 DEF Stopped
  <2> QED BY <2>3, <2>5, <2>7, <2>8, <2>9
<1> QED BY <1>1, <1>2, <1>3, <1>4, <1>5, <1>6, <1>7 DEF StartUp


(* A reconciler at work saves what its copy says of the run: the copy has   *)
(* the file's pid and resume records.                                       *)
LEMMA WorkInOrder ==
  ASSUME RunInv, RunInv', ~crossed, InOrder, NEW p \in Pid, Work(p)
  PROVE  KeepsOrder
<1> USE RunAssumption DEF RunAssumption, RunInv, TypeOK, commands, KeepsOrder, InOrder, Resumes,
        StartingUp, Active, Loaded, AtWork
<1>0. Fresh.finished = "no" /\ copy[p] \in State
  BY DEF Fresh
<1>1. /\ pc[p] = "runs" /\ file # Absent /\ file.pid = p /\ file.finished = "no"
      /\ copy[p].pid = p /\ copy[p].finished = "no" /\ copy[p].resume = file.resume
      /\ \A q \in Pid : Active(q) => q = p
  BY DEF Work, LaunchWorker, Settle, Done, SaveBeforeRestart, OneActive
<1>2. stop.at \in {"idle", "kill"}
  BY <1>1 DEF Stopping
<1>3. \A c \in Starter : prior[c].finished # "stopped"
  BY <1>1 DEF Stopped
<1>4. \A q \in Pid : copy[q].finished # "stopped"
  BY <1>1 DEF Stopped
<1>5. CASE LaunchWorker(p)
  <2> DEFINE s == [copy[p] EXCEPT !.chains = TRUE, !.resume = FALSE]
  <2>1. s \in State /\ s.pid = p /\ s.finished = "no" /\ s.chains = TRUE /\ s.resume = FALSE
    BY <1>0, <1>1 DEF State
  <2>2. file' = Merged(s) /\ copy' = [copy EXCEPT ![p] = file']
    BY <1>5 DEF LaunchWorker
  <2> HIDE DEF s
  <2>4. /\ file'.pid = p /\ file'.finished = "no" /\ file'.chains = TRUE /\ file'.resume = FALSE
        /\ file' \in State /\ file' # Absent /\ (file.stopping => file'.stopping)
    BY <1>1, <2>1, <2>2, MergedFields, FileAssumption
  <2>5. /\ p \notin live /\ live' = live \cup {p}
        /\ UNCHANGED <<lock, pc, pred, overlap, cmd, prior, stop, crossed>>
    BY <1>5 DEF LaunchWorker
  <2>6. Resumes
    BY <2>4, <2>5
  <2>7. OneActive' /\ OneCommand'
    BY <1>1, <2>2, <2>4, <2>5 DEF OneActive, OneCommand
  <2>8. Stopping' /\ Stopped'
    BY <1>1, <1>2, <1>3, <1>4, <2>2, <2>4, <2>5 DEF Stopping, Stopped
  <2> QED BY <2>6, <2>7, <2>8
<1>6. CASE Settle(p)
  <2> DEFINE s == [copy[p] EXCEPT !.chains = FALSE]
  <2>1. s \in State /\ s.pid = p /\ s.finished = "no" /\ s.resume = copy[p].resume
    BY <1>0, <1>1 DEF State
  <2>2. file' = Merged(s) /\ copy' = [copy EXCEPT ![p] = file']
    BY <1>6 DEF Settle
  <2> HIDE DEF s
  <2>4. /\ file'.pid = p /\ file'.finished = "no" /\ file'.resume = file.resume
        /\ file' \in State /\ file' # Absent /\ (file.stopping => file'.stopping)
    BY <1>1, <2>1, <2>2, MergedFields, FileAssumption
  <2>5. /\ live' = {}
        /\ UNCHANGED <<lock, pc, pred, overlap, cmd, prior, stop, crossed>>
    BY <1>6 DEF Settle
  <2>6. Resumes
    BY <1>1, <2>4
  <2>7. OneActive' /\ OneCommand'
    BY <1>1, <2>2, <2>4, <2>5 DEF OneActive, OneCommand
  <2>8. Stopping' /\ Stopped'
    BY <1>1, <1>2, <1>3, <1>4, <2>2, <2>4, <2>5 DEF Stopping, Stopped
  <2> QED BY <2>6, <2>7, <2>8
<1>7. CASE Done(p)
  <2> DEFINE s == [copy[p] EXCEPT !.finished = "done"]
  <2>1. s \in State /\ s.pid = p /\ s.finished = "done" /\ s.resume = copy[p].resume
    BY <1>0, <1>1 DEF State
  <2>2. file' = Merged(s)
    BY <1>7 DEF Done
  <2> HIDE DEF s
  <2>4. /\ file'.finished = "done" /\ file'.resume = file.resume
        /\ file' \in State /\ file' # Absent /\ (file.stopping => file'.stopping)
    BY <1>1, <2>1, <2>2, MergedFields, FileAssumption
  <2>5. /\ pc' = [pc EXCEPT ![p] = "gone"] /\ copy' = [copy EXCEPT ![p] = Fresh]
        /\ UNCHANGED <<live, pred, overlap, cmd, prior, stop, crossed>>
    BY <1>7 DEF Done, Exit
  <2>6. Resumes
    BY <1>1, <2>4
  <2>7. OneActive' /\ OneCommand'
    BY <1>1, <2>4, <2>5 DEF OneActive, OneCommand
  <2>8. Stopping' /\ Stopped'
    BY <1>0, <1>1, <1>2, <1>3, <1>4, <2>4, <2>5 DEF Stopping, Stopped
  <2> QED BY <2>6, <2>7, <2>8
<1>8. CASE SaveBeforeRestart(p)
  <2>2. file' = Merged(copy[p]) /\ copy' = [copy EXCEPT ![p] = file']
    BY <1>8 DEF SaveBeforeRestart, Save
  <2>4. /\ file'.pid = p /\ file'.finished = "no" /\ file'.resume = file.resume
        /\ file' \in State /\ file' # Absent /\ (file.stopping => file'.stopping)
    BY <1>0, <1>1, <2>2, MergedFields, FileAssumption
  <2>5. /\ pc' = [pc EXCEPT ![p] = "handover"]
        /\ UNCHANGED <<lock, live, pred, overlap, cmd, prior, stop>>
        /\ ~crossed' => \A c \in Starter : cmd[c] = "idle"
    BY <1>8 DEF SaveBeforeRestart, Crosses, NoCommand
  <2>6. Resumes
    BY <1>1, <2>4
  <2>7. ~crossed' => OneActive' /\ OneCommand'
    BY <1>1, <2>2, <2>4, <2>5 DEF OneActive, OneCommand
  <2>8. Stopping' /\ Stopped'
    BY <1>1, <1>2, <1>3, <1>4, <2>2, <2>4, <2>5 DEF Stopping, Stopped
  <2> QED BY <2>6, <2>7, <2>8
<1> QED BY <1>5, <1>6, <1>7, <1>8 DEF Work

(* A hand-over gives the file to the successor; an end or a death leaves it. *)
LEMMA EndsInOrder ==
  ASSUME RunInv, RunInv', ~crossed, InOrder, NEW p \in Pid, GoOn(p) \/ Crash(p)
  PROVE  KeepsOrder
<1> USE RunAssumption DEF RunAssumption, RunInv, TypeOK, commands, KeepsOrder, InOrder, Resumes,
        StartingUp, Active, Loaded, AtWork
<1>0. Fresh.finished = "no"
  BY DEF Fresh
<1>1. ASSUME NEW q \in Pid, HandOver(p, q)
      PROVE  KeepsOrder
  <2>1. /\ pc[p] = "handover" /\ file # Absent /\ file.pid = p /\ file \in State
        /\ \A r \in Pid : Active(r) => r = p
        /\ \A c \in Starter : cmd[c] = "idle"
    BY <1>1 DEF HandOver, OneActive, OneCommand
  <2>2. UNCHANGED <<lock, live, copy, overlap, cmd, prior, stop, crossed>>
    BY <1>1 DEF HandOver
  <2>3. CASE pc' = [pc EXCEPT ![p] = "leaves"] /\ UNCHANGED file
    BY <2>1, <2>2, <2>3 DEF OneActive, OneCommand, Stopping, Stopped
  <2>4. CASE /\ ~file.stopping /\ pc[q] = "unborn" /\ file' = [file EXCEPT !.pid = q]
             /\ pc' = [pc EXCEPT ![p] = "leaves", ![q] = "waits"]
    <3>0. file' \in State
      BY <2>1, <2>4 DEF State
    <3>1. /\ file'.pid = q /\ file'.resume = file.resume /\ file'.finished = file.finished
          /\ file' # Absent
      BY <2>1, <2>4, <3>0, FileAssumption DEF State
    <3>2. stop.at = "idle"
      BY <2>4 DEF Stopping
    <3>3. pc'[p] = "leaves" /\ pc'[q] = "waits" /\ \A r \in Pid \ {p, q} : pc'[r] = pc[r]
      BY <2>1, <2>4
    <3>4. OneActive' /\ OneCommand' /\ Stopping'
      BY <2>1, <2>2, <3>1, <3>2, <3>3 DEF OneActive, OneCommand, Stopping
    <3>5. Stopped'
      BY <2>1, <2>2, <3>1, <3>3 DEF Stopped
    <3> QED BY <3>1, <3>4, <3>5
  <2> QED BY <1>1, <2>3, <2>4 DEF HandOver
<1>2. CASE Leave(p) \/ Crash(p)
  <2>1. /\ pc' = [pc EXCEPT ![p] = "gone"] /\ copy' = [copy EXCEPT ![p] = Fresh]
        /\ UNCHANGED <<file, live, pred, overlap, cmd, prior, stop, crossed>>
    BY <1>2 DEF Leave, Crash, Exit
  <2> QED BY <1>0, <2>1 DEF OneActive, OneCommand, Stopping, Stopped
<1> QED BY <1>1, <1>2 DEF GoOn

(* A stop finds the run marked, kills the one reconciler, and retires every *)
(* worker there is before the state says that the run stopped.              *)
LEMMA StopInOrder ==
  ASSUME RunInv, RunInv', ~crossed, InOrder, MarkStopping \/ StopOn \/ StopFails \/ Constrain
  PROVE  KeepsOrder
<1> USE RunAssumption DEF RunAssumption, RunInv, TypeOK, processes, commands, KeepsOrder, InOrder,
        Resumes, StartingUp, Active, Loaded, AtWork
<1>0. Fresh.finished = "no"
  BY DEF Fresh
<1>1. CASE MarkStopping
  <2>1. file \in State /\ file' = [file EXCEPT !.stopping = TRUE] /\ file # Absent
    BY <1>1 DEF MarkStopping
  <2>0. file' \in State
    BY <2>1 DEF State
  <2>2. /\ file'.pid = file.pid /\ file'.resume = file.resume /\ file'.finished = file.finished
        /\ file'.stopping = TRUE /\ file' # Absent
    BY <2>0, <2>1, FileAssumption DEF State
  <2>3. /\ stop' = [stop EXCEPT !.at = "kill", !.target = file.pid]
        /\ UNCHANGED <<lock, live, pc, copy, pred, overlap, cmd, prior>>
        /\ ~crossed' => \A c \in Starter : cmd[c] = "idle"
    BY <1>1 DEF MarkStopping, Crosses, NoCommand
  <2>4. stop'.at = "kill" /\ stop'.target = file.pid
    BY <2>3
  <2>5. ~crossed' => OneActive' /\ OneCommand' /\ Stopping'
    BY <2>1, <2>2, <2>3, <2>4 DEF OneActive, OneCommand, Stopping
  <2>6. Stopped'
    BY <2>1, <2>2, <2>3 DEF Stopped
  <2> QED BY <2>2, <2>5, <2>6
<1>2. CASE Kill
  <2>1. /\ stop.at = "kill" /\ stop' = [stop EXCEPT !.at = "observe"]
        /\ UNCHANGED <<file, live, pred, cmd, prior, overlap, crossed>>
    BY <1>2 DEF Kill
  <2>2. stop'.at = "observe" /\ \A c \in Starter : cmd[c] = "idle"
    BY <2>1 DEF OneCommand
  <2>3. CASE Alive(stop.target) /\ Exit(stop.target)
    <3>1. stop.target \in Pid
      BY <2>3 DEF Alive
    <3>2. pc' = [pc EXCEPT ![stop.target] = "gone"] /\ copy' = [copy EXCEPT ![stop.target] = Fresh]
      BY <2>3 DEF Exit
    <3> QED BY <1>0, <2>1, <2>2, <3>1, <3>2 DEF OneActive, OneCommand, Stopping, Stopped
  <2>4. CASE ~Alive(stop.target) /\ UNCHANGED <<pc, lock, copy>>
    <3>1. \A p \in Pid : ~Active(p)
      BY <2>1, <2>4 DEF Stopping, Alive
    <3> QED BY <2>1, <2>2, <2>4, <3>1 DEF OneActive, OneCommand, Stopping, Stopped
  <2> QED BY <1>2, <2>3, <2>4 DEF Kill
<1>3. CASE Observe
  BY <1>3 DEF Observe, OneActive, OneCommand, Stopping, Stopped
<1>4. CASE Retire
  BY <1>4 DEF Retire, OneActive, OneCommand, Stopping, Stopped
<1>5. CASE FinishStop
  <2>1. /\ file \in State /\ file # Absent /\ stop.at = "finish"
        /\ file' = [file EXCEPT !.chains = FALSE, !.resume = stop.resume, !.pid = NoPid,
                                !.stopping = FALSE, !.finished = "stopped"]
    BY <1>5 DEF FinishStop, Written
  <2>2. file'.resume = stop.resume
    BY <2>1 DEF State
  <2>3. /\ stop' = [stop EXCEPT !.at = "idle", !.target = NoPid, !.seen = {}, !.resume = FALSE]
        /\ UNCHANGED <<lock, live, pc, copy, pred, overlap, cmd, prior, crossed>>
    BY <1>5 DEF FinishStop
  <2>4. /\ \A p \in Pid : ~Active(p)
        /\ live = {} /\ (file.resume => stop.resume) /\ \A c \in Starter : cmd[c] = "idle"
    BY <2>1 DEF Stopping, OneCommand
  <2>5. OneActive' /\ OneCommand' /\ Stopping'
    BY <2>3, <2>4 DEF OneActive, OneCommand, Stopping
  <2>6. Stopped'
    BY <2>3, <2>4 DEF Stopped
  <2> QED BY <2>2, <2>4, <2>5, <2>6
<1>6. CASE StopFails
  BY <1>6 DEF StopFails, OneActive, OneCommand, Stopping, Stopped
<1>7. CASE Constrain
  <2>1. file \in State /\ file' = [file EXCEPT !.constrained = TRUE] /\ file # Absent
    BY <1>7 DEF Constrain
  <2>0. file' \in State
    BY <2>1 DEF State
  <2>2. /\ file'.pid = file.pid /\ file'.resume = file.resume /\ file'.finished = file.finished
        /\ file'.stopping = file.stopping /\ file' # Absent
    BY <2>0, <2>1, FileAssumption DEF State
  <2>3. UNCHANGED <<lock, live, pc, copy, pred, overlap, cmd, prior, stop, crossed>>
    BY <1>7 DEF Constrain
  <2>4. OneActive' /\ OneCommand'
    BY <2>1, <2>2, <2>3 DEF OneActive, OneCommand
  <2>5. Stopping' /\ Stopped'
    BY <2>1, <2>2, <2>3 DEF Stopping, Stopped
  <2> QED BY <2>2, <2>4, <2>5
<1> QED BY <1>1, <1>2, <1>3, <1>4, <1>5, <1>6, <1>7 DEF StopOn


RunInOrder == RunInv /\ (~crossed => InOrder)

(* Nothing is under way to begin with.                                      *)
LEMMA InOrderInit == Init => RunInOrder
<1> SUFFICES ASSUME Init PROVE RunInv /\ InOrder
  BY DEF RunInOrder
<1>1. RunInv
  BY RunInit
<1>2. Fresh.finished = "no"
  BY DEF Fresh
<1> QED BY <1>1, <1>2 DEF Init, InOrder, OneActive, OneCommand, Stopping, Stopped, Active,
                          Loaded, AtWork, StartingUp

(* Every step that crosses nothing keeps the order.                         *)
LEMMA InOrderStep == RunInOrder /\ [Next]_vars => RunInOrder' /\ [Resumes]_vars
<1> SUFFICES ASSUME RunInOrder, [Next]_vars
             PROVE  RunInOrder' /\ [Resumes]_vars
  OBVIOUS
<1>1. RunInv /\ RunInv'
  BY RunStep DEF RunInOrder
<1>2. CASE crossed
  BY <1>1, <1>2, CrossedStays DEF RunInOrder, Resumes
<1>3. CASE ~crossed /\ UNCHANGED vars
  BY <1>1, <1>3 DEF vars, RunInOrder, InOrder, OneActive, OneCommand, Stopping, Stopped, Active,
                    Loaded, AtWork, StartingUp
<1>4. CASE ~crossed /\ Next
  <2>1. InOrder
    BY <1>4 DEF RunInOrder
  <2>2. ASSUME NEW c \in Starter, Start(c)
        PROVE  KeepsOrder
    BY <1>1, <1>4, <2>1, <2>2, StartLooksInOrder, StartActsInOrder DEF Start
  <2>3. ASSUME NEW p \in Pid, RunByHand(p) \/ StartUp(p) \/ Work(p) \/ GoOn(p) \/ Crash(p)
        PROVE  KeepsOrder
    BY <1>1, <1>4, <2>1, <2>3, StartUpInOrder, WorkInOrder, EndsInOrder
  <2>4. ASSUME MarkStopping \/ StopOn \/ StopFails \/ Constrain
        PROVE  KeepsOrder
    BY <1>1, <1>4, <2>1, <2>4, StopInOrder
  <2>5. KeepsOrder
    BY <1>4, <2>2, <2>3, <2>4 DEF Next
  <2> QED BY <1>1, <2>5 DEF KeepsOrder, RunInOrder
<1> QED BY <1>2, <1>3, <1>4

(* "Stop before observing workers, so no new launch can race retirement":   *)
(* while stop observes and retires no reconciler is at work, whatever       *)
(* crashed, restarted or failed before, unless two commands crossed.        *)
THEOREM StopsComeFirst == Spec => []StopComesFirst
<1>1. RunInOrder => StopComesFirst
  BY DEF RunInOrder, InOrder, Stopping, Active, StopComesFirst
<1> QED BY <1>1, InOrderInit, InOrderStep, PTL DEF Spec

(* A state that says that its run was stopped names a run without a live    *)
(* worker, unless two commands crossed.                                     *)
THEOREM StoppedRunsHaveNoWorker == Spec => []StoppedHasNoWorker
<1>1. RunInOrder => StoppedHasNoWorker
  BY DEF RunInOrder, InOrder, Stopped, StoppedHasNoWorker
<1> QED BY <1>1, InOrderInit, InOrderStep, PTL DEF Spec

(* The resume records leave the state only with the launch of a worker,     *)
(* unless two commands crossed: no stop, restart or stale save drops them.  *)
THEOREM ResumeIsKept == Spec => ResumeKept
<1>1. Spec => [][Resumes]_vars
  BY InOrderInit, InOrderStep, PTL DEF Spec
<1> QED BY <1>1 DEF ResumeKept, Resumes

----------------------------------------------------------------------------
(* A pid that is waited for was born, and who was not born waits for none.  *)
Preds ==
  /\ pc \in [Pid -> {"unborn", "waits", "load", "check", "save", "mkdir", "look",
                     "claim", "publish", "runs", "handover", "leaves", "gone"}]
  /\ pred \in [Pid -> Pid \cup {NoPid}]
  /\ \A p \in Pid : pc[p] = "unborn" => pred[p] = NoPid
  /\ \A p \in Pid : pred[p] # NoPid => pc[pred[p]] # "unborn"
  /\ SuccessorWaits

(* Processes are born, wait and die; none comes back.                       *)
LEMMA PredsStep == Preds /\ [Next]_vars => Preds'
<1> SUFFICES ASSUME Preds, [Next]_vars PROVE Preds'
  OBVIOUS
<1> USE RunAssumption DEF RunAssumption, Preds, SuccessorWaits, Alive, processes, commands
<1>1. ASSUME NEW c \in Starter, Start(c)
      PROVE  Preds'
  BY <1>1 DEF Start, StartLoad, StartCheck, StartSave, StartRefused, StartSpawn
<1>2. ASSUME NEW p \in Pid, RunByHand(p) \/ Wait(p)
      PROVE  Preds'
  BY <1>2 DEF RunByHand, Wait
<1>3. ASSUME NEW p \in Pid, StartUp(p), ~Wait(p)
      PROVE  Preds'
  <2>1. \E at \in {"gone", "check", "mkdir", "save", "claim", "look", "publish", "runs"} :
           pc' = [pc EXCEPT ![p] = at]
    BY <1>3 DEF StartUp, Load, CheckOwner, FirstSave, MakeLock, FindLock, LookAtLock, Claim,
                Publish, Exit
  <2>2. pred' = pred /\ pc[p] \notin {"unborn", "waits", "gone"}
    BY <1>3 DEF StartUp, Load, CheckOwner, FirstSave, MakeLock, FindLock, LookAtLock, Claim,
                Publish
  <2> QED BY <2>1, <2>2
<1>4. ASSUME NEW p \in Pid, Work(p) \/ Leave(p) \/ Crash(p)
      PROVE  Preds'
  <2>1. pc' = pc \/ \E at \in {"gone", "handover"} : pc' = [pc EXCEPT ![p] = at]
    BY <1>4 DEF Work, LaunchWorker, Settle, Done, SaveBeforeRestart, Leave, Crash, Exit
  <2>2. pred' = pred /\ pc[p] \notin {"unborn", "gone"} /\ (pc[p] = "waits" => pc'[p] # "handover")
    BY <1>4 DEF Work, LaunchWorker, Settle, Done, SaveBeforeRestart, Leave, Crash, Exit
  <2> QED BY <2>1, <2>2
<1>5. ASSUME NEW p \in Pid, NEW q \in Pid, HandOver(p, q)
      PROVE  Preds'
  BY <1>5 DEF HandOver
<1>6. CASE Kill
  BY <1>6 DEF Kill, Exit
<1>7. CASE MarkStopping \/ Observe \/ Retire \/ FinishStop \/ StopFails \/ Constrain \/ UNCHANGED vars
  BY <1>7 DEF MarkStopping, Observe, Retire, FinishStop, StopFails, Constrain, vars
<1> QED BY <1>1, <1>2, <1>3, <1>4, <1>5, <1>6, <1>7 DEF Next, StopOn, GoOn, vars

(* A reconciler spawned for new code goes on only when the one that spawned *)
(* it is gone, whatever is started, stopped, killed or crossed.             *)
THEOREM SuccessorsWait == Spec => []SuccessorWaits
<1>1. Init => Preds
  BY DEF Init, Preds, SuccessorWaits
<1>2. Preds => SuccessorWaits
  BY DEF Preds
<1> QED BY <1>1, <1>2, PredsStep, PTL DEF Spec

============================================================================
