---------------------------- MODULE MCLandingCarry ----------------------------
(* A chain of three nodes that land one into the other (Landing), and those   *)
(* that wait for workers (Workers), for TLC.  These share no state: `part`    *)
(* says which of them a behaviour is about, and the other stays as it began.  *)
EXTENDS MCLanding

CONSTANTS a, b, c1, MaxLog, MaxMishaps

VARIABLES part, thread, worker, call, stream, poll, timer, had, last, mishaps

W == INSTANCE Workers WITH Worker <- {a, b}, Running <- {a}, Streamed <- {b}, Waiter <- {c1}

workersVars == <<thread, worker, call, stream, poll, timer, had, last, mishaps>>
-------------------------------------------------------------------------------
LandingNext == part = "landing" /\ Next /\ UNCHANGED <<part, workersVars>>
WorkersNext == part = "workers" /\ W!Next /\ UNCHANGED <<part, vars>>

(* The fairness of Landing, as long as a behaviour is about it.               *)
PartsFairness ==
  /\ WF_vars(part = "landing" /\ LandProgress) /\ WF_vars(part = "landing" /\ TickProgress)
  /\ WF_vars(part = "landing" /\ CleanProgress) /\ WF_vars(part = "landing" /\ LeaveClean)

PartsInit == part \in {"landing", "workers"} /\ Init /\ W!Init

Parts ==
  /\ PartsInit
  /\ [][LandingNext \/ WorkersNext]_<<part, vars, workersVars>>
  /\ PartsFairness
-------------------------------------------------------------------------------
(* No turn is swallowed: the last that the poller has read past is with a     *)
(* caller or kept for the next one (lib/wm.ts, emit).                         *)
NothingSwallowed == W!TypeOK /\ W!NothingSwallowed

(* What is said of a worker is so: turns in order and once, failures with     *)
(* their reason, exits of threads that are gone (lib/wm.ts, turn).            *)
SaidIsSo == W!SaidIsSo

(* While anybody waits for a worker that has not ended, a tick runs or is     *)
(* scheduled (lib/wm.ts, schedule).                                           *)
NobodySleeps == W!NobodySleeps
===============================================================================
