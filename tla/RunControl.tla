------------------------------ MODULE RunControl ------------------------------
(***************************************************************************)
(* Starting, resuming, restarting and stopping the reconciler of one root: *)
(* start and stop in lib/reconcile/main.ts, the spawning and waiting of    *)
(* process.ts, and prepareStart, saveState, the run lock and the code      *)
(* restart of reconcile.ts.                                                *)
(*                                                                         *)
(* Three kinds of process meet in one JSON file, <root>.json, which every  *)
(* write replaces whole under a lock (updateState) but any load reads      *)
(* outside it, and in the directory <root>.lock: the commands that start,  *)
(* the command that stops, and the reconcilers themselves.                 *)
(***************************************************************************)
EXTENDS Naturals

CONSTANTS
  Pid,          \* reconciler processes; a pid is never used twice
  Starter,      \* start commands that may be under way together: the owner's
                \* tool, a session that resumes, the pickup watcher
  Foreground,   \* the reconcilers somebody may run by hand (main.ts run)
  Restarts,     \* TRUE: the code on disk may change under a reconciler
  Interferes,   \* TRUE: the owner may stop the run and constrain its nodes
  NoPid, Absent

ASSUME RunAssumption ==
  /\ Foreground \subseteq Pid
  /\ Restarts \in BOOLEAN
  /\ Interferes \in BOOLEAN
  /\ NoPid \notin Pid
  /\ Absent \notin Pid \cup {NoPid}

(* What of the saved state starting and stopping decide on: the reconciler's *)
(* pid, an explicit stop under way, how the run ended, whether a chain names  *)
(* a worker, whether a stopped run left branches to resume from, and whether  *)
(* a supervisor's constraint is recorded.                                     *)
State ==
  [pid : Pid \cup {NoPid}, stopping : BOOLEAN,
   finished : {"no", "done", "stopped"},
   chains : BOOLEAN, resume : BOOLEAN, constrained : BOOLEAN]

\* Mutated form of Fresh: a new state is written without a pid.
FreshWithoutPid ==
  [pid |-> Absent, stopping |-> FALSE, finished |-> "no",
   chains |-> FALSE, resume |-> FALSE, constrained |-> FALSE]

Fresh ==
  [pid |-> NoPid, stopping |-> FALSE, finished |-> "no",
   chains |-> FALSE, resume |-> FALSE, constrained |-> FALSE]

ASSUME FileAssumption == Absent \notin State

VARIABLES
  file,         \* <root>.json: Absent or a State
  lock,         \* <root>.lock: Absent, or the pid written in it, or NoPid
  live,         \* the reconcilers that launched a worker that still lives
  pc, copy,     \* reconciler -> where it is, and its state in memory
  pred,         \* reconciler -> the --predecessor it waits for, or NoPid
  cmd, prior,   \* start command -> where it is, and the state it loaded
  stop,         \* the stop command: where it is, whom it kills, what it saw
  overlap,      \* history: two reconcilers were starting up together
  crossed       \* history: a start, a stop or a restart began while another
                \* command, or for a start a start-up, was under way, or a
                \* reconciler was run by hand

vars == <<file, lock, live, pc, copy, pred, cmd, prior, stop, overlap, crossed>>
processes == <<lock, live, pc, copy, pred, overlap>>
commands == <<cmd, prior, stop, crossed>>

----------------------------------------------------------------------------
Alive(p) == p # NoPid /\ pc[p] \notin {"unborn", "gone"}

(* A state whose run is not over and whose reconciler lives.                *)
Owned(s) == s.finished = "no" /\ Alive(s.pid)

\* Mutated form of Merged: saveState writes the copy in memory as it is.
MergedAsLoaded(s) == s

(* saveState: the copy in memory replaces the file, except for what the     *)
(* owner's commands write; the copy takes these over.                       *)
Merged(s) ==
  IF file = Absent THEN s
  ELSE [s EXCEPT !.constrained = file.constrained,
                 !.stopping = file.stopping \/ s.stopping]

(* The exit handler removes the run lock when it holds the process's pid;   *)
(* its memory goes with it.                                                 *)
Exit(p) ==
  /\ pc' = [pc EXCEPT ![p] = "gone"]
  /\ copy' = [copy EXCEPT ![p] = Fresh]
  /\ lock' = IF lock = p THEN Absent ELSE lock

(* From the load of its state to the first save under its own pid.          *)
StartingUp(p) == pc[p] \in {"load", "check", "save", "mkdir", "look", "claim", "publish"}

Begin(p) == overlap' = (overlap \/ \E q \in Pid \ {p} : StartingUp(q))

Crosses(when) == crossed' = (crossed \/ when)
NoCommand == stop.at = "idle" /\ \A c \in Starter : cmd[c] = "idle"

Init ==
  /\ overlap = FALSE /\ crossed = FALSE
  /\ file = Absent
  /\ lock = Absent
  /\ live = {}
  /\ pc = [p \in Pid |-> "unborn"]
  /\ copy = [p \in Pid |-> Fresh]
  /\ pred = [p \in Pid |-> NoPid]
  /\ cmd = [c \in Starter |-> "idle"]
  /\ prior = [c \in Starter |-> Fresh]
  /\ stop = [at |-> "idle", target |-> NoPid, seen |-> {}, resume |-> FALSE]

----------------------------------------------------------------------------
(* The command goes on, or returns and forgets what it loaded.              *)
Go(c, at, state) ==
  /\ cmd' = [cmd EXCEPT ![c] = at]
  /\ prior' = [prior EXCEPT ![c] = IF at = "idle" THEN Fresh ELSE state]

(* start: prepareStart loads, refuses a run being stopped, returns a run    *)
(* whose reconciler lives, and otherwise saves the state it loaded.         *)
StartLoad(c) ==
  /\ cmd[c] = "idle"
  /\ file # Absent => ~file.stopping
  /\ Go(c, "check", IF file = Absent THEN Fresh ELSE file)
  /\ Crosses(~NoCommand \/ \E p \in Pid : StartingUp(p) \/ pc[p] \in {"waits", "handover", "leaves"})
  /\ UNCHANGED <<processes, file, stop>>

StartCheck(c) ==
  /\ cmd[c] = "check"
  /\ Go(c, IF Owned(prior[c]) THEN "idle" ELSE "save", prior[c])
  /\ UNCHANGED <<processes, file, stop, crossed>>

StartSave(c) ==
  /\ cmd[c] = "save"
  /\ file' = Merged(prior[c])
  /\ Go(c, IF file'.stopping \/ Owned(file') THEN "idle" ELSE "spawn", Fresh)
  /\ UNCHANGED <<processes, stop, crossed>>

(* Under the state lock: whoever lives by now is returned; else the child   *)
(* is spawned and its pid published before the lock is released.            *)
StartRefused(c) ==
  /\ cmd[c] = "spawn"
  /\ file.stopping \/ Owned(file)
  /\ Go(c, "idle", Fresh)
  /\ UNCHANGED <<processes, file, stop, crossed>>

StartSpawn(c, p) ==
  /\ cmd[c] = "spawn"
  /\ ~file.stopping
  /\ ~Owned(file)
  /\ pc[p] = "unborn"
  /\ pc' = [pc EXCEPT ![p] = "load"]
  /\ Begin(p)
  /\ file' = [file EXCEPT !.pid = p]
  /\ Go(c, "idle", Fresh)
  /\ UNCHANGED <<lock, live, copy, pred, stop, crossed>>

(* main.ts run by hand: nobody publishes its pid for it.                    *)
RunByHand(p) ==
  /\ p \in Foreground
  /\ pc[p] = "unborn"
  /\ pc' = [pc EXCEPT ![p] = "load"]
  /\ Begin(p)
  /\ Crosses(TRUE)
  /\ UNCHANGED <<file, lock, live, copy, pred, cmd, prior, stop>>

----------------------------------------------------------------------------
\* Mutated form of Wait: a successor does not wait.
WaitForNobody(p) ==
  /\ pc[p] = "waits"
  /\ pc' = [pc EXCEPT ![p] = "load"]
  /\ Begin(p)
  /\ UNCHANGED <<file, lock, live, copy, pred, commands>>

(* waitForPredecessor.                                                      *)
Wait(p) ==
  /\ pc[p] = "waits"
  /\ ~Alive(pred[p])
  /\ pc' = [pc EXCEPT ![p] = "load"]
  /\ Begin(p)
  /\ UNCHANGED <<file, lock, live, copy, pred, commands>>

(* prepareStart in the reconciler itself.                                   *)
Load(p) ==
  /\ pc[p] = "load"
  /\ \/ /\ file # Absent /\ file.stopping
        /\ Exit(p)
     \/ /\ file # Absent => ~file.stopping
        /\ copy' = [copy EXCEPT ![p] = IF file = Absent THEN Fresh ELSE file]
        /\ pc' = [pc EXCEPT ![p] = "check"]
        /\ UNCHANGED lock
  /\ UNCHANGED <<file, live, pred, overlap, commands>>

(* A run owned by another process is returned unsaved, and run goes on.     *)
CheckOwner(p) ==
  /\ pc[p] = "check"
  /\ pc' = [pc EXCEPT ![p] =
              IF copy[p].pid # p /\ Owned(copy[p]) THEN "mkdir" ELSE "save"]
  /\ UNCHANGED <<file, lock, live, copy, pred, overlap, commands>>

Save(p) ==
  /\ file' = Merged(copy[p])
  /\ copy' = [copy EXCEPT ![p] = file']

FirstSave(p) ==
  /\ pc[p] = "save"
  /\ Save(p)
  /\ pc' = [pc EXCEPT ![p] = "mkdir"]
  /\ UNCHANGED <<lock, live, pred, overlap, commands>>

(* The run lock: mkdir, or, when the directory is there, a look at the pid  *)
(* in it.                                                                   *)
MakeLock(p) ==
  /\ pc[p] = "mkdir"
  /\ lock = Absent
  /\ lock' = NoPid
  /\ pc' = [pc EXCEPT ![p] = "claim"]
  /\ UNCHANGED <<file, live, copy, pred, overlap, commands>>

FindLock(p) ==
  /\ pc[p] = "mkdir"
  /\ lock # Absent
  /\ pc' = [pc EXCEPT ![p] = "look"]
  /\ UNCHANGED <<file, lock, live, copy, pred, overlap, commands>>

\* Mutated form of HeldByOther: the run lock is taken over without a look
\* at who holds it.
HeldByNobody(p) == FALSE

HeldByOther(p) == lock \in Pid /\ lock # p /\ Alive(lock)

LookAtLock(p) ==
  /\ pc[p] = "look"
  /\ IF HeldByOther(p)
     THEN Exit(p)
     ELSE /\ pc' = [pc EXCEPT ![p] = "claim"]
          /\ UNCHANGED <<lock, copy>>
  /\ UNCHANGED <<file, live, pred, overlap, commands>>

(* Writing the pid fails in a directory that went away meanwhile.           *)
Claim(p) ==
  /\ pc[p] = "claim"
  /\ \/ /\ lock # Absent
        /\ lock' = p
        /\ pc' = [pc EXCEPT ![p] = "publish"]
        /\ UNCHANGED copy
     \/ /\ lock = Absent
        /\ Exit(p)
  /\ UNCHANGED <<file, live, pred, overlap, commands>>

(* Object.assign(s, { pid, finished: undefined, ... }) and the first save.  *)
Publish(p) ==
  /\ pc[p] = "publish"
  /\ file' = Merged([copy[p] EXCEPT !.pid = p, !.finished = "no"])
  /\ copy' = [copy EXCEPT ![p] = file']
  /\ pc' = [pc EXCEPT ![p] = "runs"]
  /\ UNCHANGED <<lock, live, pred, overlap, commands>>

----------------------------------------------------------------------------
(* A tick launches a worker, from a stopped run's branch when there is one, *)
(* and saves its chain.                                                     *)
LaunchWorker(p) ==
  /\ pc[p] = "runs"
  /\ p \notin live
  /\ live' = live \cup {p}
  /\ file' = Merged([copy[p] EXCEPT !.chains = TRUE, !.resume = FALSE])
  /\ copy' = [copy EXCEPT ![p] = file']
  /\ UNCHANGED <<lock, pc, pred, overlap, commands>>

(* The chains' nodes landed and their workers were retired.                 *)
Settle(p) ==
  /\ pc[p] = "runs"
  /\ copy[p].chains
  /\ live' = {}
  /\ file' = Merged([copy[p] EXCEPT !.chains = FALSE])
  /\ copy' = [copy EXCEPT ![p] = file']
  /\ UNCHANGED <<lock, pc, pred, overlap, commands>>

(* Nothing is left to do: the run is saved as done and the process ends.    *)
Done(p) ==
  /\ pc[p] = "runs"
  /\ ~copy[p].chains
  /\ file' = Merged([copy[p] EXCEPT !.finished = "done"])
  /\ Exit(p)
  /\ UNCHANGED <<live, pred, overlap, commands>>

(* The code changed: save, then hand over under the state lock.             *)
SaveBeforeRestart(p) ==
  /\ Restarts
  /\ pc[p] = "runs"
  /\ Save(p)
  /\ pc' = [pc EXCEPT ![p] = "handover"]
  /\ Crosses(~NoCommand)
  /\ UNCHANGED <<lock, live, pred, overlap, cmd, prior, stop>>

HandOver(p, q) ==
  /\ pc[p] = "handover"
  /\ \/ /\ file.stopping \/ file.pid # p
        /\ pc' = [pc EXCEPT ![p] = "leaves"]
        /\ UNCHANGED <<file, pred>>
     \/ /\ ~file.stopping
        /\ file.pid = p
        /\ pc[q] = "unborn"
        /\ pc' = [pc EXCEPT ![p] = "leaves", ![q] = "waits"]
        /\ pred' = [pred EXCEPT ![q] = p]
        /\ file' = [file EXCEPT !.pid = q]
  /\ UNCHANGED <<lock, live, copy, overlap, commands>>

Leave(p) ==
  /\ pc[p] = "leaves"
  /\ Exit(p)
  /\ UNCHANGED <<file, live, pred, overlap, commands>>

(* Killed, or the host went down: the exit handler does not run.            *)
Crash(p) ==
  /\ Alive(p)
  /\ pc' = [pc EXCEPT ![p] = "gone"]
  /\ copy' = [copy EXCEPT ![p] = Fresh]
  /\ UNCHANGED <<file, lock, live, pred, overlap, commands>>

----------------------------------------------------------------------------
(* stop: mark the state, kill the pid it names, then observe the workers    *)
(* and retire them, and only then end the run in the state.                 *)
MarkStopping ==
  /\ Interferes
  /\ stop.at = "idle"
  /\ file # Absent
  /\ file' = [file EXCEPT !.stopping = TRUE]
  /\ stop' = [stop EXCEPT !.at = "kill", !.target = file.pid]
  /\ Crosses(~NoCommand)
  /\ UNCHANGED <<processes, cmd, prior>>

\* Mutated form of Kill: stop marks the state and goes on without ending
\* the reconciler.
KillNobody ==
  /\ stop.at = "kill"
  /\ stop' = [stop EXCEPT !.at = "observe"]
  /\ UNCHANGED <<processes, file, cmd, prior, crossed>>

Kill ==
  /\ stop.at = "kill"
  /\ IF Alive(stop.target) THEN Exit(stop.target) ELSE UNCHANGED <<pc, lock, copy>>
  /\ stop' = [stop EXCEPT !.at = "observe"]
  /\ UNCHANGED <<file, live, pred, cmd, prior, overlap, crossed>>

\* Mutated form of Observe: only the workers that the recorded reconciler
\* launched are retired.
ObserveItsOwn ==
  /\ stop.at = "observe"
  /\ stop' = [stop EXCEPT !.at = "retire", !.seen = live \cap {stop.target},
                          !.resume = file.chains \/ file.resume]
  /\ UNCHANGED <<processes, file, cmd, prior, crossed>>

\* Mutated form of Observe: resume records are made of the chains alone,
\* not of those left unused.
ObserveChains ==
  /\ stop.at = "observe"
  /\ stop' = [stop EXCEPT !.at = "retire", !.seen = live, !.resume = file.chains]
  /\ UNCHANGED <<processes, file, cmd, prior, crossed>>

Observe ==
  /\ stop.at = "observe"
  /\ stop' = [stop EXCEPT !.at = "retire", !.seen = live,
                          !.resume = file.chains \/ file.resume]
  /\ UNCHANGED <<processes, file, cmd, prior, crossed>>

Retire ==
  /\ stop.at = "retire"
  /\ live' = live \ stop.seen
  /\ stop' = [stop EXCEPT !.at = "finish"]
  /\ UNCHANGED <<file, lock, pc, copy, pred, cmd, prior, overlap, crossed>>

FinishStop ==
  /\ stop.at = "finish"
  /\ file' = [file EXCEPT !.chains = FALSE, !.resume = stop.resume, !.pid = NoPid,
                          !.stopping = FALSE, !.finished = "stopped"]
  /\ stop' = [stop EXCEPT !.at = "idle", !.target = NoPid, !.seen = {}, !.resume = FALSE]
  /\ UNCHANGED <<processes, cmd, prior, crossed>>

(* A step of it failed or its session died; a retry starts over.            *)
StopFails ==
  /\ stop.at # "idle"
  /\ stop' = [stop EXCEPT !.at = "idle", !.target = NoPid, !.seen = {}, !.resume = FALSE]
  /\ UNCHANGED <<processes, file, cmd, prior, crossed>>

(* constrain, for a node with a chain of an active run.                     *)
Constrain ==
  /\ Interferes
  /\ file # Absent
  /\ file.finished = "no" /\ ~file.stopping /\ file.chains
  /\ file' = [file EXCEPT !.constrained = TRUE]
  /\ UNCHANGED <<processes, commands>>

----------------------------------------------------------------------------
Start(c) ==
  \/ StartLoad(c)
  \/ StartCheck(c)
  \/ StartSave(c)
  \/ StartRefused(c)
  \/ \E p \in Pid : StartSpawn(c, p)

StartUp(p) ==
  \/ Wait(p)
  \/ Load(p)
  \/ CheckOwner(p)
  \/ FirstSave(p)
  \/ MakeLock(p)
  \/ FindLock(p)
  \/ LookAtLock(p)
  \/ Claim(p)
  \/ Publish(p)

Work(p) ==
  \/ LaunchWorker(p)
  \/ Settle(p)
  \/ Done(p)
  \/ SaveBeforeRestart(p)

GoOn(p) == (\E q \in Pid : HandOver(p, q)) \/ Leave(p)

StopOn == Kill \/ Observe \/ Retire \/ FinishStop

Next ==
  \/ \E c \in Starter : Start(c)
  \/ \E p \in Pid : RunByHand(p) \/ StartUp(p) \/ Work(p) \/ GoOn(p) \/ Crash(p)
  \/ MarkStopping
  \/ StopOn
  \/ StopFails
  \/ Constrain

Spec == Init /\ [][Next]_vars

----------------------------------------------------------------------------
TypeOK ==
  /\ file \in {Absent} \cup State
  /\ lock \in {Absent, NoPid} \cup Pid
  /\ live \subseteq Pid
  /\ pc \in [Pid -> {"unborn", "waits", "load", "check", "save", "mkdir", "look",
                     "claim", "publish", "runs", "handover", "leaves", "gone"}]
  /\ copy \in [Pid -> State]
  /\ pred \in [Pid -> Pid \cup {NoPid}]
  /\ cmd \in [Starter -> {"idle", "check", "save", "spawn"}]
  /\ prior \in [Starter -> State]
  /\ overlap \in BOOLEAN /\ crossed \in BOOLEAN
  /\ stop \in [at : {"idle", "kill", "observe", "retire", "finish"},
               target : Pid \cup {NoPid}, seen : SUBSET Pid, resume : BOOLEAN]

(* "One reconciler per subtree: a second would launch and judge the same    *)
(* workers against the first."                                              *)
OneReconciler ==
  \A p, q \in Pid : pc[p] \in {"runs", "handover"} /\ pc[q] \in {"runs", "handover"} => p = q

(* The run lock keeps out every reconciler that does not start up together  *)
(* with another: two are at work only after two start-ups overlapped.       *)
OneUnlessOverlap == ~overlap => OneReconciler

(* "Stop before observing workers, so no new launch can race retirement":   *)
(* while the stop command observes and retires, no reconciler is at work,   *)
(* unless commands crossed.                                                 *)
StopComesFirst ==
  ~crossed /\ stop.at \in {"observe", "retire", "finish"} => \A p \in Pid : pc[p] # "runs"

(* A run that stands as stopped has no live worker that nobody will retire, *)
(* unless commands crossed.                                                 *)
StoppedHasNoWorker ==
  ~crossed /\ file # Absent /\ file.finished = "stopped" /\ ~file.stopping => live = {}

(* "Serialize the loop and owner writes so neither loses constraints or an  *)
(* in-progress stop": no write of another actor drops either one.           *)
OwnerWritesKept ==
  [][file # Absent =>
       /\ file.constrained => file'.constrained
       /\ file.stopping /\ ~file'.stopping => stop.at = "finish"]_vars

(* A successor is at work only when its predecessor is gone.                *)
SuccessorWaits ==
  \A p \in Pid : pred[p] # NoPid /\ pc[p] \notin {"waits", "gone"} => ~Alive(pred[p])

(* The branches an explicit stop kept are named in the state until a        *)
(* reconciler takes them up, unless commands crossed.                       *)
ResumeKept ==
  [][~crossed /\ file # Absent /\ file.resume /\ ~file'.resume
       => file'.chains /\ ~(live' \subseteq live)]_vars

==============================================================================
