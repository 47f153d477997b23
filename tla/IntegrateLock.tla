---------------------------- MODULE IntegrateLock ----------------------------
(***************************************************************************)
(* The directory lock <git-common-dir>/reconcile/integrate.lock, by which  *)
(* the reconcilers of a repository take turns to change its branches:      *)
(* locked() in lib/reconcile/reconcile.ts.  The lock is held by whoever's  *)
(* mkdir made the directory; the holder's pid is written into it by a      *)
(* second call, and a caller that finds the directory there decides from   *)
(* its age and its pid whether it was left behind by a process that died.  *)
(*                                                                         *)
(* Every file-system call is a step of its own.  Inside one process they   *)
(* are synchronous, so a second caller of that process runs only when the  *)
(* first sleeps or waits for its work; processes interleave at each call.  *)
(***************************************************************************)
EXTENDS Naturals

CONSTANTS
  Process,      \* reconciler processes, each with a pid of its own
  Caller,       \* asynchronous calls of locked() in those processes
  Of,           \* the process a caller runs in
  Alone,        \* TRUE: a process starts only after the ones before it ended
  NoPid,        \* no pid read
  Absent        \* no directory

ASSUME CallerAssumption ==
  /\ Of \in [Caller -> Process]
  /\ Alone \in BOOLEAN
  /\ NoPid \notin Process
  /\ Absent \notin [maker : Caller, pid : Process \cup {NoPid}, aged : BOOLEAN]

VARIABLES
  proc,         \* process -> "unborn", "alive" or "dead"
  lock,         \* the directory: Absent, or the pid written in it and whether
                \* its mtime is over 10 s old; maker, who made it, is not on disk
  pc,           \* caller -> where it is in locked()
  saw,          \* caller -> what it read of a directory it found
  stolen        \* history: some caller removed a directory whose maker was
                \* still in its turn

vars == <<proc, lock, pc, saw, stolen>>

----------------------------------------------------------------------------
(* Steps of one synchronous stretch of a process: from mkdirSync to either  *)
(* the caller's turn or its sleep.                                          *)
Sync == {"made", "look", "read", "check", "judge", "steal", "retry"}

(* A caller runs when its process lives and no other caller of that process *)
(* is in the middle of a synchronous stretch.                               *)
Runs(c) ==
  /\ proc[Of[c]] = "alive"
  /\ \A d \in Caller \ {c} : Of[d] = Of[c] => pc[d] \notin Sync

InTurn(c) == pc[c] \in {"made", "in"}

Init ==
  /\ proc = [p \in Process |-> "unborn"]
  /\ lock = Absent
  /\ pc = [c \in Caller |-> "out"]
  /\ saw = [c \in Caller |-> [pid |-> NoPid, aged |-> FALSE]]
  /\ stolen = FALSE

Boot(p) ==
  /\ proc[p] = "unborn"
  /\ Alone => \A q \in Process : proc[q] # "alive"
  /\ proc' = [proc EXCEPT ![p] = "alive"]
  /\ UNCHANGED <<lock, pc, saw, stolen>>

(* A crash, a kill or the SIGTERM handler's process.exit: no finally runs.  *)
Crash(p) ==
  /\ proc[p] = "alive"
  /\ proc' = [proc EXCEPT ![p] = "dead"]
  /\ pc' = [c \in Caller |-> IF Of[c] = p THEN "out" ELSE pc[c]]
  /\ UNCHANGED <<lock, saw, stolen>>

(* Ten seconds since the directory's mtime.  A process that is between      *)
(* mkdirSync and writeFileSync takes less.                                  *)
Age ==
  /\ lock # Absent
  /\ ~lock.aged
  /\ \A c \in Caller : pc[c] # "made"
  /\ lock' = [lock EXCEPT !.aged = TRUE]
  /\ UNCHANGED <<proc, pc, saw, stolen>>

----------------------------------------------------------------------------
(* for (;;) { try { mkdirSync(lockDir) ... } catch EEXIST ... }             *)
Call(c) ==
  /\ Runs(c)
  /\ pc[c] = "out"
  /\ pc' = [pc EXCEPT ![c] = "asleep"]
  /\ UNCHANGED <<proc, lock, saw, stolen>>

\* Mutated form of Mkdir: mkdirSync with { recursive: true }, which does
\* not fail on a directory that is there.
MkdirRecursive(c) ==
  /\ Runs(c)
  /\ pc[c] \in {"asleep", "retry"}
  /\ lock' = [maker |-> c, pid |-> NoPid, aged |-> FALSE]
  /\ pc' = [pc EXCEPT ![c] = "made"]
  /\ UNCHANGED <<proc, saw, stolen>>

Mkdir(c) ==
  /\ Runs(c)
  /\ pc[c] \in {"asleep", "retry"}
  /\ lock = Absent
  /\ lock' = [maker |-> c, pid |-> NoPid, aged |-> FALSE]
  /\ pc' = [pc EXCEPT ![c] = "made"]
  /\ UNCHANGED <<proc, saw, stolen>>

\* Mutated form of Exists: let pid, made = Date.now(): a pid that could not
\* be read is undefined.
ExistsUnset(c) ==
  /\ Runs(c)
  /\ pc[c] \in {"asleep", "retry"}
  /\ lock # Absent
  /\ pc' = [pc EXCEPT ![c] = "look"]
  /\ saw' = [saw EXCEPT ![c] = [pid |-> Absent, aged |-> FALSE]]
  /\ UNCHANGED <<proc, lock, stolen>>

Exists(c) ==
  /\ Runs(c)
  /\ pc[c] \in {"asleep", "retry"}
  /\ lock # Absent
  /\ pc' = [pc EXCEPT ![c] = "look"]
  /\ saw' = [saw EXCEPT ![c] = [pid |-> NoPid, aged |-> FALSE]]
  /\ UNCHANGED <<proc, lock, stolen>>

(* writeFileSync(join(lockDir, "pid")) creates the file in whatever         *)
(* directory is there; in none it throws and locked() rejects.              *)
WritePid(c) ==
  /\ Runs(c)
  /\ pc[c] = "made"
  /\ \/ /\ lock # Absent
        /\ lock' = [maker |-> lock.maker, pid |-> Of[c], aged |-> FALSE]
        /\ pc' = [pc EXCEPT ![c] = "in"]
     \/ /\ lock = Absent
        /\ pc' = [pc EXCEPT ![c] = "out"]
        /\ UNCHANGED lock
  /\ UNCHANGED <<proc, saw, stolen>>

(* made = statSync(lockDir).mtimeMs; `made` stays "now" when it throws.     *)
Stat(c) ==
  /\ Runs(c)
  /\ pc[c] = "look"
  /\ \/ /\ lock # Absent
        /\ saw' = [saw EXCEPT ![c] = [pid |-> NoPid, aged |-> lock.aged]]
        /\ pc' = [pc EXCEPT ![c] = "read"]
     \/ /\ lock = Absent
        /\ pc' = [pc EXCEPT ![c] = "check"]
        /\ UNCHANGED saw
  /\ UNCHANGED <<proc, lock, stolen>>

(* pid = Number(readFileSync(join(lockDir, "pid"))).                        *)
ReadPid(c) ==
  /\ Runs(c)
  /\ pc[c] = "read"
  /\ IF lock # Absent /\ lock.pid # NoPid
     THEN /\ saw' = [saw EXCEPT ![c].pid = lock.pid]
          /\ pc' = [pc EXCEPT ![c] = "judge"]
     ELSE /\ pc' = [pc EXCEPT ![c] = "check"]
          /\ UNCHANGED saw
  /\ UNCHANGED <<proc, lock, stolen>>

(* catch { if (!existsSync(lockDir)) continue; }                            *)
Check(c) ==
  /\ Runs(c)
  /\ pc[c] = "check"
  /\ pc' = [pc EXCEPT ![c] = IF lock = Absent THEN "retry" ELSE "judge"]
  /\ UNCHANGED <<proc, lock, saw, stolen>>

\* Mutated form of LeftBehind: a directory without a pid is never taken for
\* left behind.
LeftBehindByPid(c) ==
  saw[c].pid # NoPid /\ proc[saw[c].pid] # "alive"

(* No pid: dead when what stat saw is over 10 s old; else when no process   *)
(* has the pid.                                                             *)
LeftBehind(c) ==
  \/ saw[c].pid = NoPid /\ saw[c].aged
  \/ saw[c].pid # NoPid /\ proc[saw[c].pid] # "alive"

Judge(c) ==
  /\ Runs(c)
  /\ pc[c] = "judge"
  /\ pc' = [pc EXCEPT ![c] = IF LeftBehind(c) THEN "steal" ELSE "asleep"]
  /\ UNCHANGED <<proc, lock, saw, stolen>>

(* rmSync(lockDir, { recursive: true, force: true }): whatever is there now. *)
Steal(c) ==
  /\ Runs(c)
  /\ pc[c] = "steal"
  /\ stolen' = (stolen \/ (lock # Absent /\ InTurn(lock.maker)))
  /\ lock' = Absent
  /\ pc' = [pc EXCEPT ![c] = "retry"]
  /\ UNCHANGED <<proc, saw>>

(* finally { rmSync(lockDir) }, when fn settled.                            *)
Leave(c) ==
  /\ Runs(c)
  /\ pc[c] = "in"
  /\ lock' = Absent
  /\ pc' = [pc EXCEPT ![c] = "out"]
  /\ UNCHANGED <<proc, saw, stolen>>

Step(c) ==
  \/ Mkdir(c)
  \/ Exists(c)
  \/ WritePid(c)
  \/ Stat(c)
  \/ ReadPid(c)
  \/ Check(c)
  \/ Judge(c)
  \/ Steal(c)
  \/ Leave(c)

Next ==
  \/ \E p \in Process : Boot(p) \/ Crash(p)
  \/ Age
  \/ \E c \in Caller : Call(c) \/ Step(c)

Spec == Init /\ [][Next]_vars

(* A process that lives keeps running its callers, the work done under the  *)
(* lock returns, and time passes.  Nobody is bound to call, start or crash. *)
Fairness ==
  /\ WF_vars(Age)
  /\ \A c \in Caller : WF_vars(Step(c))

FairSpec == Spec /\ Fairness

----------------------------------------------------------------------------
TypeOK ==
  /\ proc \in [Process -> {"unborn", "alive", "dead"}]
  /\ lock \in {Absent} \cup
              [maker : Caller, pid : Process \cup {NoPid}, aged : BOOLEAN]
  /\ pc \in [Caller -> {"out", "asleep", "in"} \cup Sync]
  /\ saw \in [Caller -> [pid : Process \cup {NoPid}, aged : BOOLEAN]]
  /\ stolen \in BOOLEAN
  /\ \A c \in Caller : pc[c] # "out" => proc[Of[c]] = "alive"

(* Two calls of locked() are never at work together: what the branch of a   *)
(* landing, a join and the staging checkout rely on.                        *)
Exclusion ==
  \A c, d \in Caller : pc[c] = "in" /\ pc[d] = "in" => c = d

(* The only way to lose exclusion is to remove a directory whose maker is   *)
(* still in its turn: mkdir, the pid and the release never do by themselves. *)
ExclusionUnlessStolen == ~stolen => Exclusion

(* A caller that waits does not wait for ever on a directory nobody will    *)
(* remove: someone gets in, or the callers' processes have died.            *)
NeverWedged ==
  (\E c \in Caller : pc[c] = "asleep")
    ~> \/ \E c \in Caller : pc[c] = "in"
       \/ \A c \in Caller : pc[c] = "out"

==============================================================================
