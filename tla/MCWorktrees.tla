------------------------------ MODULE MCWorktrees ------------------------------
(* Small instances, for TLC, of the two modules about worktrees: the landing  *)
(* of their branches (Checkouts), and the launch and retirement of the        *)
(* workers in them (Threads).  These share no state: `part` says which of     *)
(* them a behaviour is about, and the other stays as it began.                *)
EXTENDS Checkouts, TLC

CONSTANTS a, b, run, owner, Budget, MaxThread

VARIABLES part, stead, procs, thread, act, wave, landed, given, met

T == INSTANCE Threads WITH
       Name <- {a, b}, Admitted <- {a, b}, Caller <- {run, owner}, Dispatcher <- run,
       Acting <- {a}, place <- stead, op <- act, excused <- met

threadsVars == <<stead, procs, thread, act, wave, landed, given, met>>
checkoutsVars == <<main, place, op, reaper, lock, excused, snatched, moves>>
-------------------------------------------------------------------------------
PartsInit ==
  /\ part \in {"checkouts", "threads"}
  /\ Init /\ T!Init
  /\ part = "threads" => \A w \in Worker : place[w] = NoTree

CheckoutsNext == part = "checkouts" /\ Next /\ UNCHANGED <<part, threadsVars>>
ThreadsNext == part = "threads" /\ T!Next /\ UNCHANGED <<part, checkoutsVars>>

Parts ==
  PartsInit /\ [][CheckoutsNext \/ ThreadsNext]_<<part, mishaps, checkoutsVars, threadsVars>>

(* Tasks are interchangeable.                                                 *)
Interchangeable == Permutations(Task)
-------------------------------------------------------------------------------
(* Nothing a worker made is lost, a retired worker's processes are gone, and  *)
(* waves keep to the budget and account for every assignment                  *)
(* (lib/thread/lifecycle-cleanup.ts, lib/dispatch.ts).                        *)
ThreadsKeepWork == T!TypeOK /\ T!WorkSurvives /\ T!RetiredIsQuiet /\ T!WaveKeepsBudget
===============================================================================
