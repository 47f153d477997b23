------------------------------ MODULE Checkouts ------------------------------
(* Landing a worktree's branch in the checkout of its parent branch           *)
(* (lib/thread/lifecycle.ts, tracker-worktree.ts), and the worktrees of       *)
(* interactive tasks (lib/task.ts): started, finished one at a time under a   *)
(* lock of their own, and reaped when nothing runs in them.  A worker's       *)
(* branch is prepared by the reconciler's gates before it lands, and is not   *)
(* under the tasks' lock.  A head is the set of the changes it carries:       *)
(* merging and rebasing unite, being an ancestor is being a subset.  Steps    *)
(* end where git or another process is awaited.                               *)
EXTENDS Naturals, FiniteSets

CONSTANTS
  Worker,      \* branches of workers, which the reconciler integrates
  Task,        \* branches of tasks, which their threads finish
  MaxBranches, \* bound: branches that there ever are
  MaxWork,     \* bound: changes made on a branch
  MaxMoves,    \* bound: commits made on the parent branch itself
  MaxMishaps   \* bound: failures, deaths, and doings in a worktree that is about to go or to land

(* No process is called nobody, and no branch like the kinds of commits that  *)
(* others make.                                                               *)
ASSUME NameAssumption ==
  /\ "nobody" \notin Task
  /\ {"tracker", "code"} \cap (Worker \cup Task) = {}

VARIABLES
  main,     \* the parent branch, checked out
  place,    \* each branch, its worktree, what is uncommitted there, and whether a process runs in it
  op,       \* each branch's integration
  reaper,   \* each task's reaper
  lock,     \* the tasks' lock: the directory, and the process it names
  excused,  \* history: branches that moved while they landed, or that were written to while they were reaped
  snatched, \* history: a lock was removed that another waiter had taken meanwhile
  moves, mishaps

vars == <<main, place, op, reaper, lock, excused, snatched, moves, mishaps>>
-------------------------------------------------------------------------------
Branch == Worker \cup Task
Nobody == "nobody"
NoOp == [at |-> "idle", base |-> {}, prepared |-> {}, target |-> {}, tries |-> 0, stale |-> FALSE]
NoTree == [tree |-> FALSE, branch |-> FALSE, made |-> 0, dirty |-> {}, head |-> {}, inside |-> FALSE]
Fresh == [NoTree EXCEPT !.tree = TRUE, !.branch = TRUE, !.inside = TRUE]

Init ==
  /\ main = {}
  /\ \E here \in SUBSET Worker : place = [b \in Branch |-> IF b \in here THEN Fresh ELSE NoTree]
  /\ op = [b \in Branch |-> NoOp] /\ reaper = [b \in Task |-> "none"]
  /\ lock = [dir |-> FALSE, pid |-> Nobody, dead |-> FALSE]
  /\ excused = {} /\ snatched = FALSE /\ moves = 0 /\ mishaps = 0

Mishap == mishaps < MaxMishaps /\ mishaps' = mishaps + 1
Goes(b, at) == op' = [op EXCEPT ![b].at = at]
Excuse(b, when) ==
  IF when THEN Mishap /\ excused' = excused \cup {b} ELSE UNCHANGED <<mishaps, excused>>

(* Changes of the tracker's own, and a branch's changes of docs/issues/.      *)
Tracker == {"tracker"} \X (1..MaxMoves)
Authored(b) == {c \in place[b].head : c[1] = b /\ c[2] = "issues"}

Landing(b) == op[b].at \in {"update", "prepare", "recheck", "ff"}
Critical(b) == op[b].at \in {"check", "update", "prepare", "recheck", "ff", "align", "unlock"}

(* Whatever throws leaves the lock to `finally`.                              *)
Throws(b) == IF b \in Task THEN Goes(b, "unlock") ELSE op' = [op EXCEPT ![b] = NoOp]

-------------------------------------------------------------------------------
(* A task's worktree; a failed setup takes it away again.                     *)
startTask(b) ==
  /\ b \in Task /\ ~place[b].tree /\ ~place[b].branch /\ reaper[b] = "none"
  /\ Cardinality({d \in Branch : place[d].branch \/ (d \in Task /\ reaper[d] # "none")}) < MaxBranches
  /\ place' = [place EXCEPT ![b] = [Fresh EXCEPT !.head = main]]
  /\ UNCHANGED <<main, op, reaper, lock, excused, snatched, moves, mishaps>>

(* What runs in a worktree edits and commits; a thread leaves and comes back. *)
Edits(b, kind) ==
  /\ place[b].tree /\ place[b].inside /\ place[b].made < MaxWork
  /\ place' = [place EXCEPT ![b].made = @ + 1, ![b].dirty = @ \cup {<<b, kind, place[b].made + 1>>}]
  /\ Excuse(b, Landing(b) \/ (b \in Task /\ reaper[b] \in {"looked", "clean"}))
  /\ UNCHANGED <<main, op, reaper, lock, snatched, moves>>

Commits(b) ==
  /\ place[b].tree /\ place[b].inside /\ place[b].dirty # {}
  /\ place' = [place EXCEPT ![b].head = @ \cup place[b].dirty, ![b].dirty = {}]
  /\ Excuse(b, Landing(b) \/ (b \in Task /\ reaper[b] \in {"looked", "clean"}))
  /\ UNCHANGED <<main, op, reaper, lock, snatched, moves>>

Leaves(b) ==
  /\ b \in Task /\ place[b].tree /\ place[b].inside # (reaper[b] = "none")
  /\ place' = [place EXCEPT ![b].inside = ~@]
  /\ UNCHANGED <<main, op, reaper, lock, excused, snatched, moves, mishaps>>

(* Others commit on the parent branch: the tracker, and people.               *)
Moves(kind) ==
  /\ moves < MaxMoves /\ moves' = moves + 1
  /\ main' = main \cup {<<kind, moves'>>}
  /\ UNCHANGED <<place, op, reaper, lock, excused, snatched, mishaps>>

-------------------------------------------------------------------------------
(* integrationLock: a directory, and then the process's number in it.         *)
Finish(b) ==
  /\ op[b].at = "idle" /\ place[b].tree /\ place[b].branch
  /\ b \in Task => reaper[b] = "none"
  /\ Goes(b, IF b \in Task THEN "lock" ELSE "check")
  /\ UNCHANGED <<main, place, reaper, lock, excused, snatched, moves, mishaps>>

MakeLock(b) ==
  /\ op[b].at = "lock" /\ ~lock.dir /\ Goes(b, "pid")
  /\ lock' = [dir |-> TRUE, pid |-> Nobody, dead |-> FALSE]
  /\ UNCHANGED <<main, place, reaper, excused, snatched, moves, mishaps>>

WritePid(b) ==
  /\ op[b].at = "pid" /\ Goes(b, "check")
  /\ lock' = IF lock.dir THEN [lock EXCEPT !.pid = b, !.dead = FALSE] ELSE lock
  /\ UNCHANGED <<main, place, reaper, excused, snatched, moves, mishaps>>

(* A mutant: whoever holds the lock, it is taken for stale.                   *)
anyHolder(b) ==
  /\ op[b].at = "lock" /\ lock.dir /\ lock.pid # Nobody
  /\ op' = [op EXCEPT ![b].at = "break", ![b].stale = lock.dead]
  /\ UNCHANGED <<main, place, reaper, lock, excused, snatched, moves, mishaps>>

(* The process the lock names is gone: the lock is stale.  One that names     *)
(* nobody is waited for until the deadline.                                   *)
FindsDead(b) ==
  /\ op[b].at = "lock" /\ lock.dir /\ lock.pid # Nobody /\ lock.dead
  /\ op' = [op EXCEPT ![b].at = "break", ![b].stale = lock.dead]
  /\ UNCHANGED <<main, place, reaper, lock, excused, snatched, moves, mishaps>>

BreakLock(b) ==
  /\ op[b].at = "break" /\ op' = [op EXCEPT ![b].at = "lock", ![b].stale = FALSE]
  /\ snatched' = (snatched \/ (op[b].stale /\ \E d \in Task : Critical(d) \/ op[d].at = "pid"))
  /\ lock' = [dir |-> FALSE, pid |-> Nobody, dead |-> FALSE]
  /\ UNCHANGED <<main, place, reaper, excused, moves, mishaps>>

Deadline(b) ==
  /\ op[b].at = "lock" /\ lock.dir /\ Mishap /\ op' = [op EXCEPT ![b] = NoOp]
  /\ UNCHANGED <<main, place, reaper, lock, excused, snatched, moves>>

(* `finally`: the lock goes; what landed is handed to a reaper.               *)
Unlock(b) ==
  /\ op[b].at = "unlock" /\ op' = [op EXCEPT ![b] = NoOp]
  /\ lock' = [dir |-> FALSE, pid |-> Nobody, dead |-> FALSE]
  /\ reaper' = IF op[b].prepared # {} /\ op[b].prepared \subseteq main THEN [reaper EXCEPT ![b] = "waits"] ELSE reaper
  /\ UNCHANGED <<main, place, excused, snatched, moves, mishaps>>

-------------------------------------------------------------------------------
(* A mutant: only what the branch had at first is looked at.                  *)
unseen(b) == FALSE

(* assertNoTrackerChanges.                                                    *)
Forbidden(b) == Authored(b) # {}

(* integrateCheckout: a clean worktree without changes of the tracker.        *)
Check(b) ==
  /\ op[b].at = "check"
  /\ IF place[b].dirty # {} \/ Forbidden(b) THEN Throws(b)
     ELSE op' = [op EXCEPT ![b].at = "update", ![b].base = main, ![b].target = main]
  /\ UNCHANGED <<main, place, reaper, lock, excused, snatched, moves, mishaps>>

(* Onto the parent's head; conflicts are taken back.                          *)
Update(b) ==
  /\ op[b].at = "update"
  /\ \/ /\ place' = [place EXCEPT ![b].head = @ \cup op[b].base]
        /\ Goes(b, IF b \in Worker THEN "prepare" ELSE "recheck") /\ UNCHANGED mishaps
     \/ ~(op[b].base \subseteq place[b].head) /\ Mishap /\ Throws(b) /\ UNCHANGED place
  /\ UNCHANGED <<main, reaper, lock, excused, snatched, moves>>

(* The gates pass, or fail, or leave a commit or something uncommitted.       *)
Prepare(b) ==
  /\ op[b].at = "prepare"
  /\ \/ Goes(b, "recheck") /\ UNCHANGED <<place, mishaps>>
     \/ Throws(b) /\ Mishap /\ UNCHANGED place
     \/ /\ Goes(b, "recheck") /\ Mishap /\ place[b].made < MaxWork
        /\ \E kind \in {"code", "issues"}, part \in {"dirty", "head"} :
             place' = [place EXCEPT ![b].made = @ + 1, ![b][part] = @ \cup {<<b, kind, place[b].made + 1>>}]
  /\ UNCHANGED <<main, reaper, lock, excused, snatched, moves>>

Recheck(b) ==
  /\ op[b].at = "recheck"
  /\ IF Forbidden(b) \/ place[b].dirty # {} THEN Throws(b)
     ELSE op' = [op EXCEPT ![b].at = "ff", ![b].prepared = place[b].head]
  /\ UNCHANGED <<main, place, reaper, lock, excused, snatched, moves, mishaps>>

(* A mutant: whatever the parent moved by is merged.                          *)
anyMove(from, to) == TRUE

trackerOnly(from, to) == to \ from \subseteq Tracker

(* `merge --ff-only`; a parent that gained only commits of the tracker is     *)
(* merged first, three times at most.                                         *)
FastForward(b) ==
  /\ op[b].at = "ff"
  /\ IF main \subseteq place[b].head
     THEN main' = place[b].head /\ Goes(b, "align") /\ UNCHANGED <<place, mishaps>>
     ELSE /\ UNCHANGED main
          /\ \/ /\ op[b].tries < 3 /\ main # op[b].target /\ trackerOnly(op[b].target, main)
                /\ place' = [place EXCEPT ![b].head = @ \cup main]
                /\ op' = [op EXCEPT ![b].tries = @ + 1, ![b].target = main] /\ UNCHANGED mishaps
             \/ /\ op[b].tries >= 3 \/ main = op[b].target \/ ~trackerOnly(op[b].target, main)
                /\ Throws(b) /\ UNCHANGED <<place, mishaps>>
  /\ UNCHANGED <<reaper, lock, excused, snatched, moves>>

(* The index is aligned with what landed, and the post-merge hook runs.       *)
Align(b) ==
  /\ op[b].at = "align" /\ Throws(b)
  /\ UNCHANGED <<main, place, reaper, lock, excused, snatched, moves, mishaps>>

-------------------------------------------------------------------------------
(* reapTask: nothing runs in the worktree, nothing is uncommitted, and the    *)
(* branch goes when it is in its parent.                                      *)
ReapLook(b) ==
  /\ reaper[b] = "waits" /\ ~place[b].inside
  /\ reaper' = [reaper EXCEPT ![b] = "looked"]
  /\ UNCHANGED <<main, place, op, lock, excused, snatched, moves, mishaps>>

(* A mutant: uncommitted changes are not looked for.                          *)
reapAnyway(b) ==
  /\ reaper[b] = "looked" /\ reaper' = [reaper EXCEPT ![b] = "clean"]
  /\ UNCHANGED <<main, place, op, lock, excused, snatched, moves, mishaps>>

ReapStatus(b) ==
  /\ reaper[b] = "looked"
  /\ reaper' = [reaper EXCEPT ![b] = IF place[b].dirty = {} THEN "clean" ELSE "left"]
  /\ UNCHANGED <<main, place, op, lock, excused, snatched, moves, mishaps>>

ReapTree(b) ==
  /\ reaper[b] = "clean" /\ reaper' = [reaper EXCEPT ![b] = "bare"]
  /\ place' = [place EXCEPT ![b].tree = FALSE, ![b].dirty = {}, ![b].inside = FALSE]
  /\ UNCHANGED <<main, op, lock, excused, snatched, moves, mishaps>>

ReapBranch(b) ==
  /\ reaper[b] = "bare" /\ reaper' = [reaper EXCEPT ![b] = "done"]
  /\ place' = IF place[b].head \subseteq main
              THEN [place EXCEPT ![b].branch = FALSE, ![b].head = {}] ELSE place
  /\ UNCHANGED <<main, op, lock, excused, snatched, moves, mishaps>>

(* A finish dies; what it had of the lock stays.                              *)
Dies(b) ==
  /\ op[b].at # "idle" /\ Mishap /\ op' = [op EXCEPT ![b] = NoOp]
  /\ lock' = IF lock.pid = b THEN [lock EXCEPT !.dead = TRUE] ELSE lock
  /\ UNCHANGED <<main, place, reaper, excused, snatched, moves>>

Integrates(b) ==
  \/ MakeLock(b) \/ WritePid(b) \/ FindsDead(b) \/ BreakLock(b) \/ Deadline(b) \/ Unlock(b)
  \/ Check(b) \/ Update(b) \/ Prepare(b) \/ Recheck(b) \/ FastForward(b) \/ Align(b)

Next ==
  \/ \E b \in Branch : \/ Finish(b) \/ Integrates(b) \/ Dies(b) \/ Commits(b)
                       \/ \E kind \in {"code", "issues"} : Edits(b, kind)
  \/ \E b \in Task : startTask(b) \/ Leaves(b) \/ ReapLook(b) \/ ReapStatus(b) \/ ReapTree(b) \/ ReapBranch(b)
  \/ \E kind \in {"tracker", "code"} : Moves(kind)

Spec == Init /\ [][Next]_vars

-------------------------------------------------------------------------------
(* Every variable has its type.                                               *)
TypeOK ==
  /\ \A b \in Branch : place[b].branch \/ place[b].head = {}
  /\ \A b \in Task : reaper[b] \in {"none", "waits", "looked", "clean", "left", "bare", "done"}
  /\ lock.pid \in Task \cup {Nobody} /\ ~lock.dir => lock.pid = Nobody

(* What lands is what was prepared, and commits of the tracker alone beside   *)
(* it; the parent branch loses nothing; no branch's own change of the tracker *)
(* gets in.  Not so of a branch that moved while it landed.                   *)
LandsWhatPassed ==
  [][/\ main \subseteq main'
     /\ \A b \in Branch \ excused : op[b].at = "ff" /\ op'[b].at = "align" =>
          /\ main' \ op[b].prepared \subseteq Tracker
          /\ \A c \in main' : c[1] = b => c[2] # "issues"]_vars

(* What was made on a branch is in its worktree, on it or landed.             *)
NothingIsLost ==
  \A b \in Branch \ excused : \A k \in 1..place[b].made :
    \E c \in main \cup place[b].head \cup place[b].dirty : c[1] = b /\ c[3] = k

(* Tasks land one at a time (but for a lock that two waiters find stale).     *)
TasksTakeTurns ==
  snatched \/ Cardinality({b \in Task : Critical(b)}) <= 1
=============================================================================
