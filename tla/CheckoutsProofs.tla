---------------------------- MODULE CheckoutsProofs ----------------------------
(* What holds of the landing of worktrees for any branches, any work in them  *)
(* and any number of mishaps: no work is lost, what lands was prepared, and   *)
(* tasks land one at a time.  Two invariants carry this: one about a branch,  *)
(* its worktree, its integration and its reaper, and one about the lock.      *)
EXTENDS Checkouts, FiniteSetTheorems, TLAPS

Change == (Branch \X {"code", "issues"} \X Nat) \cup ({"tracker", "code"} \X Nat)

Places == [tree : BOOLEAN, branch : BOOLEAN, made : Nat, dirty : SUBSET Change,
           head : SUBSET Change, inside : BOOLEAN]
Steps == {"idle", "lock", "pid", "break", "check", "update", "prepare", "recheck", "ff", "align", "unlock"}
Operations == [at : Steps, base : SUBSET Change, prepared : SUBSET Change, target : SUBSET Change,
               tries : Nat, stale : BOOLEAN]
Locks == [dir : BOOLEAN, pid : Branch \cup {Nobody}, dead : BOOLEAN]

TypeInv ==
  /\ main \in SUBSET Change /\ place \in [Branch -> Places] /\ op \in [Branch -> Operations]
  /\ reaper \in [Task -> {"none", "waits", "looked", "clean", "left", "bare", "done"}]
  /\ lock \in Locks
  /\ excused \subseteq Branch /\ snatched \in BOOLEAN /\ moves \in Nat /\ mishaps \in Nat

(* A worktree has its branch, an integration its worktree and no reaper, and  *)
(* only tasks take the lock.                                                  *)
Standing(b) ==
  /\ place[b].tree => place[b].branch
  /\ ~place[b].branch => place[b].head = {}
  /\ op[b].at # "idle" => place[b].tree
  /\ b \in Task /\ op[b].at # "idle" => reaper[b] = "none"
  /\ b \in Task /\ reaper[b] = "bare" => ~place[b].tree
  /\ b \notin Task => op[b].at \notin {"lock", "pid", "break", "unlock"}

(* Before the last merge the branch has the parent's head it was prepared     *)
(* on, and beside what was prepared only commits of the tracker.              *)
Prepared(b) ==
  /\ op[b].at = "update" => op[b].target = op[b].base
  /\ op[b].at \in {"prepare", "recheck", "ff"} => op[b].target \subseteq place[b].head
  /\ op[b].at = "ff" => place[b].head \ op[b].prepared \subseteq Tracker /\ Authored(b) = {}

(* Every change is somewhere, and a worktree that goes has none of its own.   *)
Kept(b) ==
  /\ \A k \in 1..place[b].made :
       \E c \in main \cup place[b].head \cup place[b].dirty : c[1] = b /\ c[3] = k
  /\ b \in Task /\ reaper[b] = "clean" => place[b].dirty = {}

BranchOK(b) == Standing(b) /\ (b \notin excused => Prepared(b) /\ Kept(b))
Branches == \A b \in Branch : BranchOK(b)

(* The lock's directory belongs to one task, which has not written its        *)
(* number yet or is named by it; who found a lock stale found it so.          *)
Holds(d) == op[d].at = "pid" \/ Critical(d)
Turns ==
  /\ ~lock.dir => lock.pid = Nobody
  /\ \/ snatched
     \/ /\ \A d, e \in Task : Holds(d) /\ Holds(e) => d = e
        /\ \A d \in Task : Holds(d) => lock.dir
        /\ \A d \in Task : op[d].at = "pid" => lock.pid = Nobody
        /\ \A d \in Task : Critical(d) => lock.pid = d /\ ~lock.dead
        /\ \A d \in Task : op[d].at = "break" => op[d].stale

CheckoutInv == TypeInv /\ Branches /\ Turns
--------------------------------------------------------------------------------
(* The records an integration leaves when it is over, goes on, looks at the   *)
(* lock, or at the worktree.                                                  *)
LEMMA NoOpFacts == NoOp \in Operations /\ NoOp.at = "idle"
BY DEF NoOp, Operations, Steps

LEMMA GoesFacts ==
  ASSUME NEW o \in Operations, NEW x \in Steps
  PROVE  \A p \in {[o EXCEPT !.at = x]} :
           p \in Operations /\ p.at = x /\ p.prepared = o.prepared /\ p.base = o.base /\ p.target = o.target
BY DEF Operations

LEMMA StaleFacts ==
  ASSUME NEW o \in Operations, NEW x \in Steps, NEW f \in BOOLEAN
  PROVE  \A p \in {[o EXCEPT !.at = x, !.stale = f]} : p \in Operations /\ p.at = x /\ p.stale = f
BY DEF Operations

LEMMA CheckFacts ==
  ASSUME NEW o \in Operations, NEW x \in Steps, NEW s \in SUBSET Change
  PROVE  \A p \in {[o EXCEPT !.at = x, !.base = s, !.target = s]} :
           p \in Operations /\ p.at = x /\ p.base = s /\ p.target = s
BY DEF Operations

(* A task's new worktree.                                                     *)
LEMMA FreshFacts ==
  ASSUME NEW s \in SUBSET Change
  PROVE  \A q \in {[Fresh EXCEPT !.head = s]} :
           q \in Places /\ q.tree /\ q.branch /\ q.made = 0 /\ q.dirty = {} /\ q.head = s
<1>1. NoTree \in Places /\ NoTree.made = 0 /\ NoTree.dirty = {}
  BY DEF NoTree, Places
<1>2. /\ Fresh \in Places /\ Fresh.tree /\ Fresh.branch
      /\ Fresh.made = 0 /\ Fresh.dirty = {}
  BY <1>1 DEF Fresh, Places
<1> QED BY <1>2 DEF Places
--------------------------------------------------------------------------------
(* A step of one branch leaves the others as they are.                        *)
LEMMA Elsewhere ==
  ASSUME TypeInv, Branches, NEW b \in Branch, BranchOK(b)',
         main \subseteq main', excused \subseteq excused',
         \A d \in Branch \ {b} : place'[d] = place[d] /\ op'[d] = op[d],
         \A d \in Task \ {b} : reaper'[d] = reaper[d]
  PROVE  Branches'
<1> SUFFICES ASSUME NEW d \in Branch, d # b PROVE BranchOK(d)'
  BY DEF Branches
<1>1. BranchOK(d) /\ place'[d] = place[d] /\ op'[d] = op[d] /\ (d \in Task => reaper'[d] = reaper[d])
  BY DEF Branches
<1>2. Standing(d)'
  BY <1>1 DEF BranchOK, Standing
<1>3. d \notin excused' => Prepared(d)'
  BY <1>1 DEF BranchOK, Prepared, Authored, Tracker
<1>4. d \notin excused' => Kept(d)'
  BY <1>1 DEF BranchOK, Kept
<1> QED BY <1>2, <1>3, <1>4 DEF BranchOK

(* A step that takes nobody into the lock leaves its turns as they are.       *)
LEMMA SameTurns ==
  ASSUME Turns, lock' = lock, snatched' = snatched,
         \A d \in Task : /\ Critical(d)' => Critical(d)
                         /\ op'[d].at = "pid" => op[d].at = "pid"
                         /\ op'[d].at = "break" => op[d].at = "break" /\ op'[d].stale = op[d].stale
  PROVE  Turns'
BY DEF Turns, Holds

(* A step that changes no more than an integration's record, and outside of   *)
(* the lock.                                                                  *)
OnlyOp(b, o) ==
  /\ op' = [op EXCEPT ![b] = o]
  /\ main' = main /\ place' = place /\ reaper' = reaper /\ excused' = excused /\ moves' = moves
  /\ mishaps' \in Nat

(* It keeps the invariant of the branches when the record has what the next   *)
(* steps need.                                                                *)
LEMMA OpStep ==
  ASSUME TypeInv, Branches, NEW b \in Branch, NEW o \in Operations, OnlyOp(b, o),
         lock' \in Locks, snatched' \in BOOLEAN,
         o.at # "idle" => op[b].at # "idle" \/ (place[b].tree /\ (b \in Task => reaper[b] = "none")),
         b \notin Task => o.at \notin {"lock", "pid", "break", "unlock"},
         Prepared(b) => \/ o.at \notin {"update", "prepare", "recheck", "ff"}
                        \/ Prepared(b)'
  PROVE  TypeInv' /\ Branches'
<1>1. TypeInv'
  BY DEF TypeInv, OnlyOp
<1>2. op'[b] = o /\ \A d \in Branch \ {b} : op'[d] = op[d]
  BY DEF OnlyOp, TypeInv
<1>3. BranchOK(b)
  BY DEF Branches
<1>4. Standing(b)'
  BY <1>2, <1>3 DEF BranchOK, Standing, OnlyOp
<1>5. b \notin excused => Prepared(b)'
  BY <1>2, <1>3 DEF BranchOK, Prepared
<1>6. b \notin excused => Kept(b)'
  BY <1>3 DEF BranchOK, Kept, OnlyOp
<1>7. BranchOK(b)'
  BY <1>4, <1>5, <1>6 DEF BranchOK, OnlyOp
<1> QED BY <1>1, <1>2, <1>7, Elsewhere DEF OnlyOp
--------------------------------------------------------------------------------
(* Waiting for the lock, holding it and giving it up.                         *)
LEMMA LockStep ==
  ASSUME CheckoutInv, NEW b \in Branch,
         \/ Finish(b) \/ MakeLock(b) \/ WritePid(b) \/ FindsDead(b) \/ BreakLock(b) \/ Deadline(b) \/ Dies(b)
  PROVE  CheckoutInv'
<1> USE NameAssumption DEF CheckoutInv
<1>0. /\ op[b] \in Operations /\ lock \in Locks /\ snatched \in BOOLEAN /\ mishaps \in Nat /\ Standing(b)
      /\ Task \subseteq Branch /\ op \in [Branch -> Operations] /\ NoOp \in Operations /\ NoOp.at = "idle"
      /\ "nobody" \notin Task
  BY NoOpFacts DEF TypeInv, Branches, BranchOK, Branch
<1>1. CASE Finish(b)
  <2> DEFINE o == [op[b] EXCEPT !.at = IF b \in Task THEN "lock" ELSE "check"]
  <2>1. o \in Operations /\ o.at = (IF b \in Task THEN "lock" ELSE "check")
    <3>1. (IF b \in Task THEN "lock" ELSE "check") \in Steps
      BY DEF Steps
    <3> QED BY <1>0, <3>1, GoesFacts
  <2>2. OnlyOp(b, o)
    BY <1>0, <1>1 DEF Finish, Goes, OnlyOp
  <2>3. /\ place[b].tree /\ (b \in Task => reaper[b] = "none") /\ lock' = lock /\ snatched' = snatched
    BY <1>1 DEF Finish
  <2> HIDE DEF o
  <2>4. op'[b] = o /\ \A d \in Branch \ {b} : op'[d] = op[d]
    BY <1>0, <2>2 DEF OnlyOp
  <2>5. TypeInv' /\ Branches'
    BY <1>0, <2>1, <2>2, <2>3, OpStep
  <2>6. Turns'
    BY <1>0, <2>1, <2>3, <2>4, SameTurns DEF Critical
  <2> QED BY <2>5, <2>6
<1>2. CASE MakeLock(b)
  <2> DEFINE o == [op[b] EXCEPT !.at = "pid"]
  <2>1. o \in Operations /\ o.at = "pid"
    BY <1>0, GoesFacts DEF Steps
  <2>2. OnlyOp(b, o)
    BY <1>0, <1>2 DEF MakeLock, Goes, OnlyOp
  <2>3. /\ op[b].at = "lock" /\ ~lock.dir /\ lock'.dir /\ lock'.pid = Nobody /\ ~lock'.dead
        /\ lock' \in Locks /\ snatched' = snatched
    BY <1>2 DEF MakeLock, Locks
  <2> HIDE DEF o
  <2>4. op'[b] = o /\ \A d \in Branch \ {b} : op'[d] = op[d]
    BY <1>0, <2>2 DEF OnlyOp
  <2>5. TypeInv' /\ Branches'
    BY <1>0, <2>1, <2>2, <2>3, OpStep DEF Standing
  <2>6. Turns'
    BY <1>0, <2>1, <2>3, <2>4 DEF Turns, Holds, Critical, Nobody
  <2> QED BY <2>5, <2>6
<1>3. CASE WritePid(b)
  <2> DEFINE o == [op[b] EXCEPT !.at = "check"]
  <2>1. o \in Operations /\ o.at = "check"
    BY <1>0, GoesFacts DEF Steps
  <2>2. OnlyOp(b, o)
    BY <1>0, <1>3 DEF WritePid, Goes, OnlyOp
  <2>3. /\ op[b].at = "pid" /\ snatched' = snatched /\ lock' \in Locks
        /\ lock.dir => lock'.dir /\ lock'.pid = b /\ ~lock'.dead
        /\ ~lock.dir => lock' = lock
    BY <1>0, <1>3 DEF WritePid, Locks
  <2> HIDE DEF o
  <2>4. op'[b] = o /\ \A d \in Branch \ {b} : op'[d] = op[d]
    BY <1>0, <2>2 DEF OnlyOp
  <2>5. TypeInv' /\ Branches'
    BY <1>0, <2>1, <2>2, <2>3, OpStep
  <2>6. b \in Task
    BY <1>0, <2>3 DEF Standing
  <2>7. Turns'
    BY <1>0, <2>1, <2>3, <2>4, <2>6 DEF Turns, Holds, Critical, Nobody
  <2> QED BY <2>5, <2>7
<1>4. CASE FindsDead(b)
  <2> DEFINE o == [op[b] EXCEPT !.at = "break", !.stale = lock.dead]
  <2>1. o \in Operations /\ o.at = "break" /\ o.stale
    <3>1. lock.dead \in BOOLEAN /\ lock.dead
      BY <1>0, <1>4 DEF FindsDead, Locks
    <3>2. "break" \in Steps
      BY DEF Steps
    <3>3. \A p \in {o} : p \in Operations /\ p.at = "break" /\ p.stale = lock.dead
      BY <1>0, <3>1, <3>2 DEF Operations
    <3> QED BY <3>1, <3>3
  <2>2. OnlyOp(b, o)
    BY <1>0, <1>4 DEF FindsDead, OnlyOp
  <2>3. op[b].at = "lock" /\ lock' = lock /\ snatched' = snatched
    BY <1>4 DEF FindsDead
  <2> HIDE DEF o
  <2>4. op'[b] = o /\ \A d \in Branch \ {b} : op'[d] = op[d]
    BY <1>0, <2>2 DEF OnlyOp
  <2>5. TypeInv' /\ Branches'
    BY <1>0, <2>1, <2>2, <2>3, OpStep DEF Standing
  <2>6. Turns'
    BY <1>0, <2>1, <2>3, <2>4 DEF Turns, Holds, Critical
  <2> QED BY <2>5, <2>6
<1>5. CASE BreakLock(b)
  <2> DEFINE o == [op[b] EXCEPT !.at = "lock", !.stale = FALSE]
  <2>1. o \in Operations /\ o.at = "lock"
    BY <1>0, StaleFacts DEF Steps
  <2>2. OnlyOp(b, o)
    BY <1>0, <1>5 DEF BreakLock, OnlyOp
  <2>3. /\ op[b].at = "break" /\ ~lock'.dir /\ lock'.pid = Nobody /\ lock' \in Locks
        /\ snatched' = (snatched \/ (op[b].stale /\ \E d \in Task : Critical(d) \/ op[d].at = "pid"))
    BY <1>5 DEF BreakLock, Locks
  <2> HIDE DEF o
  <2>4. op'[b] = o /\ \A d \in Branch \ {b} : op'[d] = op[d]
    BY <1>0, <2>2 DEF OnlyOp
  <2>5. TypeInv' /\ Branches'
    BY <1>0, <2>1, <2>2, <2>3, OpStep DEF Standing
  <2>6. b \in Task
    BY <1>0, <2>3 DEF Standing
  <2>7. Turns'
    BY <1>0, <2>1, <2>3, <2>4, <2>6 DEF Turns, Holds, Critical
  <2> QED BY <2>5, <2>7
<1>6. CASE Deadline(b)
  <2>1. OnlyOp(b, NoOp) /\ lock' = lock /\ snatched' = snatched
    BY <1>0, <1>6 DEF Deadline, OnlyOp, Mishap
  <2>2. op'[b] = NoOp /\ \A d \in Branch \ {b} : op'[d] = op[d]
    BY <1>0, <2>1 DEF OnlyOp
  <2>3. TypeInv' /\ Branches'
    BY <1>0, <2>1, OpStep
  <2>4. Turns'
    BY <1>0, <2>1, <2>2, SameTurns DEF Critical
  <2> QED BY <2>3, <2>4
<1>7. CASE Dies(b)
  <2>0. \A l \in {[lock EXCEPT !.dead = TRUE]} : l \in Locks /\ l.dir = lock.dir /\ l.pid = lock.pid
    BY <1>0 DEF Locks
  <2>1. /\ OnlyOp(b, NoOp) /\ snatched' = snatched /\ lock' \in Locks
        /\ lock'.dir = lock.dir /\ lock'.pid = lock.pid /\ (lock.pid # b => lock' = lock)
    BY <1>0, <1>7, <2>0 DEF Dies, OnlyOp, Mishap
  <2>2. op'[b] = NoOp /\ \A d \in Branch \ {b} : op'[d] = op[d]
    BY <1>0, <2>1 DEF OnlyOp
  <2>3. TypeInv' /\ Branches'
    BY <1>0, <2>1, OpStep
  <2>4. Turns'
    BY <1>0, <2>1, <2>2 DEF Turns, Holds, Critical
  <2> QED BY <2>3, <2>4
<1> QED BY <1>1, <1>2, <1>3, <1>4, <1>5, <1>6, <1>7
--------------------------------------------------------------------------------
(* Steps of an integration that leave the lock to its holder.                 *)
LEMMA HolderTurns ==
  ASSUME TypeInv, Turns, NEW b \in Branch, lock' = lock, snatched' = snatched,
         \A d \in Branch \ {b} : op'[d] = op[d],
         Critical(b) \/ ~Critical(b)', op'[b].at \notin {"pid", "break"}
  PROVE  Turns'
<1>1. \A d \in Task : d # b => op'[d] = op[d]
  BY DEF Branch
<1>2. \A d \in Task : /\ Critical(d)' => Critical(d)
                      /\ op'[d].at = "pid" => op[d].at = "pid"
                      /\ op'[d].at = "break" => op[d].at = "break" /\ op'[d].stale = op[d].stale
  <2> TAKE d \in Task
  <2>1. CASE d = b
    BY <2>1
  <2>2. CASE d # b
    BY <1>1, <2>2 DEF Critical
  <2> QED BY <2>1, <2>2
<1> QED BY <1>2, SameTurns

(* Whatever throws.                                                           *)
LEMMA ThrowsFacts ==
  ASSUME TypeInv, NEW b \in Branch, Throws(b), op[b].at # "idle"
  PROVE  \E o \in Operations :
           /\ op' = [op EXCEPT ![b] = o] /\ op'[b] = o
           /\ o.at \in {"idle", "unlock"} /\ (b \notin Task => o.at = "idle")
           /\ \A d \in Branch \ {b} : op'[d] = op[d]
<1>0. op \in [Branch -> Operations] /\ op[b] \in Operations
  BY DEF TypeInv
<1>1. CASE b \in Task
  <2> DEFINE o == [op[b] EXCEPT !.at = "unlock"]
  <2>1. o \in Operations /\ o.at = "unlock"
    BY <1>0, GoesFacts DEF Steps
  <2>2. op' = [op EXCEPT ![b] = o]
    BY <1>0, <1>1 DEF Throws, Goes
  <2> HIDE DEF o
  <2> QED BY <1>0, <1>1, <2>1, <2>2
<1>2. CASE b \notin Task
  BY <1>0, <1>2, NoOpFacts DEF Throws
<1> QED BY <1>1, <1>2

(* ... and what was to be shown of it: an integration that throws keeps the   *)
(* invariant.                                                                 *)
LEMMA ThrowsStep ==
  ASSUME CheckoutInv, NEW b \in Branch, Throws(b), op[b].at \notin {"idle", "lock", "pid", "break"},
         UNCHANGED <<main, place, reaper, lock, excused, snatched, moves>>, mishaps' \in Nat
  PROVE  CheckoutInv'
<1>0. Standing(b) /\ lock \in Locks /\ snatched \in BOOLEAN
  BY DEF CheckoutInv, TypeInv, Branches, BranchOK
<1>1. PICK o \in Operations :
        /\ op' = [op EXCEPT ![b] = o] /\ op'[b] = o
        /\ o.at \in {"idle", "unlock"} /\ (b \notin Task => o.at = "idle")
        /\ \A d \in Branch \ {b} : op'[d] = op[d]
  BY ThrowsFacts DEF CheckoutInv
<1>2. OnlyOp(b, o)
  BY <1>1 DEF OnlyOp
<1>3. TypeInv' /\ Branches'
  BY <1>0, <1>1, <1>2, OpStep DEF CheckoutInv
<1>4. Critical(b)
  BY DEF CheckoutInv, TypeInv, Operations, Steps, Critical
<1>5. Turns'
  BY <1>1, <1>4, HolderTurns DEF CheckoutInv
<1> QED BY <1>3, <1>5 DEF CheckoutInv

(* Looking at the worktree, before and after the gates; and the end.          *)
LEMMA LookStep ==
  ASSUME CheckoutInv, NEW b \in Branch, Check(b) \/ Recheck(b) \/ Align(b)
  PROVE  CheckoutInv'
<1> USE DEF CheckoutInv
<1>0. /\ op[b] \in Operations /\ lock \in Locks /\ snatched \in BOOLEAN /\ mishaps \in Nat /\ Standing(b)
      /\ op \in [Branch -> Operations] /\ main \in SUBSET Change /\ place[b] \in Places
  BY DEF TypeInv, Branches, BranchOK
<1>1. CASE Align(b)
  BY <1>0, <1>1, ThrowsStep DEF Align
<1>2. CASE Check(b)
  <2>1. CASE Throws(b)
    BY <1>0, <1>2, <2>1, ThrowsStep DEF Check
  <2>2. CASE op' = [op EXCEPT ![b].at = "update", ![b].base = main, ![b].target = main]
    <3> DEFINE o == [op[b] EXCEPT !.at = "update", !.base = main, !.target = main]
    <3>1. o \in Operations /\ o.at = "update" /\ o.base = main /\ o.target = main
      BY <1>0, CheckFacts DEF Steps
    <3>2. OnlyOp(b, o) /\ op[b].at = "check" /\ lock' = lock /\ snatched' = snatched
      BY <1>0, <1>2, <2>2 DEF Check, OnlyOp
    <3> HIDE DEF o
    <3>3. op'[b] = o /\ \A d \in Branch \ {b} : op'[d] = op[d]
      BY <1>0, <3>2 DEF OnlyOp
    <3>4. Prepared(b)'
      BY <3>1, <3>3 DEF Prepared
    <3>5. TypeInv' /\ Branches'
      BY <1>0, <3>1, <3>2, <3>4, OpStep
    <3>6. Turns'
      BY <3>1, <3>2, <3>3, HolderTurns DEF Critical
    <3> QED BY <3>5, <3>6
  <2> QED BY <1>2, <2>1, <2>2 DEF Check
<1>3. CASE Recheck(b)
  <2>1. CASE Throws(b)
    BY <1>0, <1>3, <2>1, ThrowsStep DEF Recheck
  <2>2. CASE ~Forbidden(b) /\ op' = [op EXCEPT ![b].at = "ff", ![b].prepared = place[b].head]
    <3> DEFINE o == [op[b] EXCEPT !.at = "ff", !.prepared = place[b].head]
    <3>0. place[b].head \in SUBSET Change
      BY <1>0 DEF Places
    <3>1. o \in Operations /\ o.at = "ff" /\ o.prepared = place[b].head /\ o.target = op[b].target
      <4>1. "ff" \in Steps
        BY DEF Steps
      <4> QED BY <1>0, <3>0, <4>1 DEF Operations
    <3>2. /\ OnlyOp(b, o) /\ op[b].at = "recheck" /\ lock' = lock /\ snatched' = snatched /\ Authored(b) = {}
          /\ place' = place
      BY <1>0, <1>3, <2>2 DEF Recheck, OnlyOp, Forbidden
    <3> HIDE DEF o
    <3>3. op'[b] = o /\ \A d \in Branch \ {b} : op'[d] = op[d]
      BY <1>0, <3>2 DEF OnlyOp
    <3>4. Prepared(b) => Prepared(b)'
      BY <3>1, <3>2, <3>3 DEF Prepared, Authored
    <3>5. TypeInv' /\ Branches'
      BY <1>0, <3>1, <3>2, <3>4, OpStep
    <3>6. Turns'
      BY <3>1, <3>2, <3>3, HolderTurns DEF Critical
    <3> QED BY <3>5, <3>6
  <2> QED BY <1>3, <2>1, <2>2 DEF Recheck
<1> QED BY <1>1, <1>2, <1>3

(* The lock is given up, and what landed is handed to a reaper.               *)
LEMMA UnlockStep ==
  ASSUME CheckoutInv, NEW b \in Branch, Unlock(b)
  PROVE  CheckoutInv'
<1> USE DEF CheckoutInv
<1>0. /\ op[b].at = "unlock" /\ Standing(b) /\ b \in Task /\ reaper[b] = "none"
      /\ op \in [Branch -> Operations] /\ Task \subseteq Branch
  BY DEF TypeInv, Branches, BranchOK, Unlock, Standing, Branch
<1>1. /\ op'[b] = NoOp /\ \A d \in Branch \ {b} : op'[d] = op[d]
      /\ op' \in [Branch -> Operations]
      /\ \A d \in Task \ {b} : reaper'[d] = reaper[d]
      /\ reaper'[b] \in {"none", "waits"}
      /\ UNCHANGED <<main, place, excused, snatched, moves, mishaps>>
      /\ ~lock'.dir /\ lock'.pid = Nobody
  BY <1>0, NoOpFacts DEF Unlock, TypeInv
<1>2. TypeInv'
  <2>1. lock' \in Locks
    BY DEF Unlock, Locks
  <2>2. reaper' \in [Task -> {"none", "waits", "looked", "clean", "left", "bare", "done"}]
    BY <1>0 DEF Unlock, TypeInv
  <2> QED BY <1>1, <2>1, <2>2 DEF TypeInv
<1>3. BranchOK(b)'
  BY <1>0, <1>1, NoOpFacts DEF Branches, BranchOK, Standing, Prepared, Kept
<1>4. Branches'
  BY <1>1, <1>3, Elsewhere
<1>5. Turns'
  BY <1>0, <1>1, NoOpFacts DEF Turns, Holds, Critical
<1> QED BY <1>2, <1>4, <1>5
--------------------------------------------------------------------------------
(* Steps that leave the lock and all integrations alone.                      *)
LEMMA IdleTurns ==
  ASSUME Turns, UNCHANGED <<op, lock, snatched>>
  PROVE  Turns'
BY DEF Turns, Holds, Critical

(* A step that gives one branch another worktree.                             *)
LEMMA PlaceStep ==
  ASSUME CheckoutInv, NEW b \in Branch, NEW p \in Places, place' = [place EXCEPT ![b] = p],
         UNCHANGED <<main, op, reaper, lock, snatched, moves>>,
         mishaps' \in Nat, excused \subseteq excused', excused' \subseteq Branch,
         BranchOK(b)'
  PROVE  CheckoutInv'
<1> USE DEF CheckoutInv
<1>1. TypeInv'
  BY DEF TypeInv
<1>2. Branches'
  BY Elsewhere DEF TypeInv
<1>3. Turns'
  BY IdleTurns
<1> QED BY <1>1, <1>2, <1>3

(* Who is written to in an unlucky moment is excused from now on.             *)
LEMMA ExcuseFacts ==
  ASSUME TypeInv, NEW b \in Branch, NEW w \in BOOLEAN, Excuse(b, w)
  PROVE  /\ mishaps' \in Nat /\ excused \subseteq excused' /\ excused' \subseteq Branch
         /\ w => b \in excused'
         /\ \A d \in Branch \ {b} : d \in excused' => d \in excused
BY DEF Excuse, Mishap, TypeInv

(* Work in a worktree: an edit is uncommitted, a commit is on the branch, and *)
(* neither goes unnoticed while the branch lands or its worktree is reaped.   *)
LEMMA WorkStep ==
  ASSUME CheckoutInv, NEW b \in Branch, Commits(b) \/ \E kind \in {"code", "issues"} : Edits(b, kind)
  PROVE  CheckoutInv'
<1> USE DEF CheckoutInv
<1>0. /\ place \in [Branch -> Places] /\ place[b] \in Places /\ BranchOK(b)
      /\ (Landing(b) \/ (b \in Task /\ reaper[b] \in {"looked", "clean"})) \in BOOLEAN
  BY DEF TypeInv, Branches
<1>1. CASE Commits(b)
  <2> DEFINE p == [place[b] EXCEPT !.head = @ \cup place[b].dirty, !.dirty = {}]
  <2>1. /\ p \in Places /\ p.tree = place[b].tree /\ p.branch = place[b].branch /\ p.made = place[b].made
        /\ p.head = place[b].head \cup place[b].dirty /\ p.dirty = {}
    BY <1>0 DEF Places
  <2>2. place' = [place EXCEPT ![b] = p]
    BY <1>1 DEF Commits
  <2>3. /\ UNCHANGED <<main, op, reaper, lock, snatched, moves>> /\ place[b].tree
        /\ Excuse(b, Landing(b) \/ (b \in Task /\ reaper[b] \in {"looked", "clean"}))
    BY <1>1 DEF Commits
  <2> HIDE DEF p
  <2>4. /\ mishaps' \in Nat /\ excused \subseteq excused' /\ excused' \subseteq Branch
        /\ Landing(b) => b \in excused'
    BY <1>0, <2>3, ExcuseFacts
  <2>5. place'[b] = p
    BY <1>0, <2>2
  <2>6. BranchOK(b)'
    <3>1. Standing(b)'
      BY <1>0, <2>1, <2>3, <2>5 DEF BranchOK, Standing
    <3>2. b \notin excused' => Prepared(b)'
      BY <1>0, <2>1, <2>3, <2>4, <2>5 DEF BranchOK, Prepared, Landing
    <3>3. b \notin excused' => Kept(b)'
      BY <1>0, <2>1, <2>3, <2>4, <2>5 DEF BranchOK, Kept
    <3> QED BY <3>1, <3>2, <3>3 DEF BranchOK
  <2> QED BY <2>1, <2>2, <2>3, <2>4, <2>6, PlaceStep
<1>2. ASSUME NEW kind \in {"code", "issues"}, Edits(b, kind) PROVE CheckoutInv'
  <2> DEFINE c == <<b, kind, place[b].made + 1>>
             p == [place[b] EXCEPT !.made = @ + 1, !.dirty = @ \cup {c}]
  <2>0. c \in Change /\ c[1] = b /\ c[3] = place[b].made + 1 /\ place[b].made + 1 \in Nat
    BY <1>0 DEF Change, Places
  <2>1. /\ p \in Places /\ p.tree = place[b].tree /\ p.branch = place[b].branch
        /\ p.head = place[b].head /\ p.made = place[b].made + 1 /\ p.dirty = place[b].dirty \cup {c}
    <3> HIDE DEF c
    <3> QED BY <1>0, <2>0 DEF Places
  <2>2. place' = [place EXCEPT ![b] = p]
    BY <1>2 DEF Edits
  <2>3. /\ UNCHANGED <<main, op, reaper, lock, snatched, moves>> /\ place[b].tree
        /\ Excuse(b, Landing(b) \/ (b \in Task /\ reaper[b] \in {"looked", "clean"}))
    BY <1>2 DEF Edits
  <2> HIDE DEF c, p
  <2>4. /\ mishaps' \in Nat /\ excused \subseteq excused' /\ excused' \subseteq Branch
        /\ Landing(b) => b \in excused'
        /\ b \in Task /\ reaper[b] = "clean" => b \in excused'
    BY <1>0, <2>3, ExcuseFacts
  <2>5. place'[b] = p
    BY <1>0, <2>2
  <2>6. Standing(b)'
    BY <1>0, <2>1, <2>3, <2>5 DEF BranchOK, Standing
  <2>7. b \notin excused' => Prepared(b)'
    BY <1>0, <2>1, <2>3, <2>4, <2>5 DEF BranchOK, Prepared, Landing
  <2>8. ASSUME b \notin excused' PROVE Kept(b)'
    <3>1. Kept(b) /\ place[b].made \in Nat
      BY <1>0, <2>4, <2>8 DEF BranchOK, Places
    <3>2. ASSUME NEW k \in 1..p.made
          PROVE  \E x \in main \cup p.head \cup p.dirty : x[1] = b /\ x[3] = k
      <4>1. CASE k = place[b].made + 1
        BY <2>0, <2>1, <4>1
      <4>2. CASE k \in 1..place[b].made
        BY <2>1, <3>1, <4>2 DEF Kept
      <4> QED BY <2>1, <3>1, <4>1, <4>2
    <3> QED BY <2>3, <2>4, <2>5, <2>8, <3>2 DEF Kept
  <2> QED BY <2>1, <2>2, <2>3, <2>4, <2>6, <2>7, <2>8, PlaceStep DEF BranchOK
<1> QED BY <1>1, <1>2
(* A worktree comes, and what runs in it leaves and comes back.               *)
LEMMA TaskStep ==
  ASSUME CheckoutInv, NEW b \in Task, startTask(b) \/ Leaves(b)
  PROVE  CheckoutInv'
<1> USE DEF CheckoutInv
<1>0. /\ place \in [Branch -> Places] /\ b \in Branch /\ place[b] \in Places /\ BranchOK(b)
      /\ mishaps \in Nat /\ excused \subseteq Branch /\ main \in SUBSET Change
  BY DEF TypeInv, Branches, Branch
<1>1. CASE startTask(b)
  <2> DEFINE p == [Fresh EXCEPT !.head = main]
  <2>1. p \in Places /\ p.tree /\ p.branch /\ p.made = 0 /\ p.dirty = {} /\ p.head = main
    BY <1>0, FreshFacts
  <2>2. /\ place' = [place EXCEPT ![b] = p] /\ ~place[b].tree /\ reaper[b] = "none"
        /\ UNCHANGED <<main, op, reaper, lock, excused, snatched, moves, mishaps>>
    BY <1>1 DEF startTask
  <2> HIDE DEF p
  <2>3. place'[b] = p /\ op'[b].at = "idle"
    BY <1>0, <2>2 DEF BranchOK, Standing
  <2>4. BranchOK(b)'
    BY <2>1, <2>2, <2>3 DEF BranchOK, Standing, Prepared, Kept
  <2> QED BY <1>0, <2>1, <2>2, <2>4, PlaceStep
<1>2. CASE Leaves(b)
  <2> DEFINE p == [place[b] EXCEPT !.inside = ~@]
  <2>1. /\ p \in Places /\ p.tree = place[b].tree /\ p.branch = place[b].branch /\ p.made = place[b].made
        /\ p.head = place[b].head /\ p.dirty = place[b].dirty
    BY <1>0 DEF Places
  <2>2. /\ place' = [place EXCEPT ![b] = p]
        /\ UNCHANGED <<main, op, reaper, lock, excused, snatched, moves, mishaps>>
    BY <1>2 DEF Leaves
  <2> HIDE DEF p
  <2>3. place'[b] = p
    BY <1>0, <2>2
  <2>4. BranchOK(b)'
    <3>1. Standing(b)' /\ (b \notin excused' => Prepared(b)')
      BY <1>0, <2>1, <2>2, <2>3 DEF BranchOK, Standing, Prepared, Authored, Tracker
    <3>2. b \notin excused' => Kept(b)'
      BY <1>0, <2>1, <2>2, <2>3 DEF BranchOK, Kept
    <3> QED BY <3>1, <3>2 DEF BranchOK
  <2> QED BY <1>0, <2>1, <2>2, <2>4, PlaceStep
<1> QED BY <1>1, <1>2

(* The reaper looks twice and takes the worktree and then the branch.         *)
LEMMA ReapStep ==
  ASSUME CheckoutInv, NEW b \in Task, ReapLook(b) \/ ReapStatus(b) \/ ReapTree(b) \/ ReapBranch(b)
  PROVE  CheckoutInv'
<1> USE DEF CheckoutInv
<1>0. /\ place \in [Branch -> Places] /\ b \in Branch /\ place[b] \in Places /\ BranchOK(b)
      /\ reaper \in [Task -> {"none", "waits", "looked", "clean", "left", "bare", "done"}]
  BY DEF TypeInv, Branches, Branch
<1>1. /\ UNCHANGED <<main, op, lock, excused, snatched, moves, mishaps>> /\ reaper[b] # "none"
      /\ reaper' \in [Task -> {"none", "waits", "looked", "clean", "left", "bare", "done"}]
      /\ \A d \in Task \ {b} : reaper'[d] = reaper[d]
  BY <1>0 DEF ReapLook, ReapStatus, ReapTree, ReapBranch
<1>2. op[b].at = "idle" /\ op'[b].at = "idle"
  BY <1>0, <1>1 DEF BranchOK, Standing
<1>3. ASSUME BranchOK(b)', NEW p \in Places, place' = [place EXCEPT ![b] = p] \/ place' = place
      PROVE  CheckoutInv'
  <2>1. TypeInv'
    BY <1>0, <1>1, <1>3 DEF TypeInv
  <2>2. Branches'
    BY <1>0, <1>1, <1>3, Elsewhere
  <2>3. Turns'
    BY <1>1, IdleTurns
  <2> QED BY <2>1, <2>2, <2>3
<1>4. CASE ReapLook(b) \/ ReapStatus(b)
  <2>1. place' = place /\ (reaper'[b] = "clean" => place[b].dirty = {}) /\ reaper'[b] # "bare"
    BY <1>0, <1>4 DEF ReapLook, ReapStatus
  <2>2. Standing(b)'
    BY <1>0, <1>1, <1>2, <2>1 DEF BranchOK, Standing
  <2>3. b \notin excused' => Prepared(b)' /\ Kept(b)'
    BY <1>0, <1>1, <1>2, <2>1 DEF BranchOK, Prepared, Kept
  <2> QED BY <1>0, <1>3, <2>1, <2>2, <2>3 DEF BranchOK
<1>5. CASE ReapTree(b)
  <2> DEFINE p == [place[b] EXCEPT !.tree = FALSE, !.dirty = {}, !.inside = FALSE]
  <2>1. /\ p \in Places /\ ~p.tree /\ p.branch = place[b].branch /\ p.made = place[b].made
        /\ p.head = place[b].head /\ p.dirty = {}
    BY <1>0 DEF Places
  <2>2. place' = [place EXCEPT ![b] = p] /\ reaper[b] = "clean" /\ reaper'[b] = "bare"
    BY <1>0, <1>5 DEF ReapTree
  <2> HIDE DEF p
  <2>3. place'[b] = p
    BY <1>0, <2>2
  <2>4. Standing(b)'
    BY <1>0, <1>1, <1>2, <2>1, <2>3 DEF BranchOK, Standing
  <2>5. b \notin excused' => Prepared(b)' /\ Kept(b)'
    BY <1>0, <1>1, <1>2, <2>1, <2>2, <2>3 DEF BranchOK, Prepared, Kept
  <2> QED BY <1>3, <2>1, <2>2, <2>4, <2>5 DEF BranchOK
<1>6. CASE ReapBranch(b)
  <2>1. reaper'[b] = "done" /\ reaper[b] = "bare"
    BY <1>0, <1>6 DEF ReapBranch
  <2>2. CASE ~(place[b].head \subseteq main)
    <3>1. place' = place
      BY <1>6, <2>2 DEF ReapBranch
    <3>2. Standing(b)' /\ (b \notin excused' => Prepared(b)' /\ Kept(b)')
      BY <1>0, <1>1, <1>2, <2>1, <3>1 DEF BranchOK, Standing, Prepared, Kept
    <3> QED BY <1>0, <1>3, <3>1, <3>2 DEF BranchOK
  <2>3. CASE place[b].head \subseteq main
    <3> DEFINE p == [place[b] EXCEPT !.branch = FALSE, !.head = {}]
    <3>1. /\ p \in Places /\ p.tree = place[b].tree /\ ~p.branch /\ p.made = place[b].made
          /\ p.head = {} /\ p.dirty = place[b].dirty
      BY <1>0 DEF Places
    <3>2. place' = [place EXCEPT ![b] = p]
      BY <1>6, <2>3 DEF ReapBranch
    <3> HIDE DEF p
    <3>3. place'[b] = p
      BY <1>0, <3>2
    <3>4. Standing(b)'
      BY <1>0, <1>1, <1>2, <2>1, <3>1, <3>3 DEF BranchOK, Standing
    <3>5. b \notin excused' => Prepared(b)' /\ Kept(b)'
      BY <1>0, <1>1, <1>2, <2>1, <2>3, <3>1, <3>3 DEF BranchOK, Prepared, Kept
    <3> QED BY <1>3, <3>1, <3>2, <3>4, <3>5 DEF BranchOK
  <2> QED BY <2>2, <2>3
<1> QED BY <1>4, <1>5, <1>6
--------------------------------------------------------------------------------
(* A merge of a head the parent had, or has, into a branch that lands.        *)
LEMMA MergeKept ==
  ASSUME NEW b \in Branch, Kept(b), main \subseteq main', reaper' = reaper,
         place'[b].made = place[b].made, place'[b].dirty = place[b].dirty,
         place[b].head \subseteq place'[b].head
  PROVE  Kept(b)'
BY DEF Kept

(* A step of the one who lands that changes its worktree or the parent too.   *)
LEMMA LandStep ==
  ASSUME CheckoutInv, NEW b \in Branch, NEW p \in Places, NEW o \in Operations,
         place' = [place EXCEPT ![b] = p], op' = [op EXCEPT ![b] = o],
         main' \in SUBSET Change, main \subseteq main', mishaps' \in Nat,
         UNCHANGED <<reaper, lock, excused, snatched, moves>>,
         o.at \notin {"lock", "pid", "break", "unlock"}, Critical(b),
         p.tree = place[b].tree, p.branch = place[b].branch,
         b \notin excused /\ Prepared(b) /\ Kept(b) => Prepared(b)' /\ Kept(b)'
  PROVE  CheckoutInv'
<1> USE DEF CheckoutInv
<1>0. BranchOK(b) /\ place \in [Branch -> Places] /\ op \in [Branch -> Operations]
  BY DEF Branches, TypeInv
<1>1. TypeInv'
  BY DEF TypeInv
<1>2. /\ place'[b] = p /\ op'[b] = o
      /\ \A d \in Branch \ {b} : place'[d] = place[d] /\ op'[d] = op[d]
  BY <1>0
<1>3. place[b].tree /\ place[b].branch /\ (b \in Task => reaper[b] = "none")
  BY <1>0 DEF BranchOK, Standing, Critical
<1>4. Standing(b)'
  BY <1>2, <1>3 DEF Standing
<1>5. BranchOK(b)'
  BY <1>0, <1>4 DEF BranchOK
<1>6. Branches'
  BY <1>2, <1>5, Elsewhere
<1>7. Turns'
  BY <1>2, HolderTurns
<1> QED BY <1>1, <1>6, <1>7

(* The branch is brought onto the parent's head.                              *)
LEMMA UpdateStep ==
  ASSUME CheckoutInv, NEW b \in Branch, Update(b)
  PROVE  CheckoutInv'
<1>0. /\ place \in [Branch -> Places] /\ place[b] \in Places /\ op \in [Branch -> Operations]
      /\ op[b] \in Operations /\ mishaps \in Nat /\ main \in SUBSET Change /\ op[b].at = "update"
  BY DEF CheckoutInv, TypeInv, Update
<1>1. CASE Throws(b) /\ place' = place /\ Mishap
  BY <1>0, <1>1, ThrowsStep DEF Update, Mishap
<1>2. CASE /\ place' = [place EXCEPT ![b].head = @ \cup op[b].base]
           /\ Goes(b, IF b \in Worker THEN "prepare" ELSE "recheck") /\ UNCHANGED mishaps
  <2> DEFINE p == [place[b] EXCEPT !.head = @ \cup op[b].base]
             o == [op[b] EXCEPT !.at = IF b \in Worker THEN "prepare" ELSE "recheck"]
  <2>1. /\ p \in Places /\ p.tree = place[b].tree /\ p.branch = place[b].branch /\ p.made = place[b].made
        /\ p.head = place[b].head \cup op[b].base /\ p.dirty = place[b].dirty
    <3>1. op[b].base \in SUBSET Change
      BY <1>0 DEF Operations
    <3> QED BY <1>0, <3>1 DEF Places
  <2>2. o \in Operations /\ o.at \in {"prepare", "recheck"} /\ o.target = op[b].target
    <3>1. (IF b \in Worker THEN "prepare" ELSE "recheck") \in Steps
      BY DEF Steps
    <3> QED BY <1>0, <3>1, GoesFacts
  <2>3. /\ place' = [place EXCEPT ![b] = p] /\ op' = [op EXCEPT ![b] = o]
        /\ UNCHANGED <<main, reaper, lock, excused, snatched, moves, mishaps>>
    BY <1>2 DEF Update, Goes
  <2> HIDE DEF p, o
  <2>4. place'[b] = p /\ op'[b] = o
    BY <1>0, <2>3
  <2>5. Prepared(b) => Prepared(b)'
    BY <1>0, <2>1, <2>2, <2>4 DEF Prepared
  <2>6. Kept(b) => Kept(b)'
    BY <2>1, <2>3, <2>4, MergeKept
  <2> QED BY <1>0, <2>1, <2>2, <2>3, <2>5, <2>6, LandStep DEF Critical
<1> QED BY <1>1, <1>2 DEF Update

(* The gates pass, throw, or leave something behind.                          *)
LEMMA PrepareStep ==
  ASSUME CheckoutInv, NEW b \in Branch, Prepare(b)
  PROVE  CheckoutInv'
<1>0. /\ place \in [Branch -> Places] /\ place[b] \in Places /\ op \in [Branch -> Operations]
      /\ op[b] \in Operations /\ mishaps \in Nat /\ main \in SUBSET Change /\ op[b].at = "prepare"
      /\ lock \in Locks /\ snatched \in BOOLEAN /\ BranchOK(b)
  BY DEF CheckoutInv, TypeInv, Prepare, Branches
<1> DEFINE o == [op[b] EXCEPT !.at = "recheck"]
<1>1. o \in Operations /\ o.at = "recheck" /\ o.target = op[b].target
  BY <1>0, GoesFacts DEF Steps
<1> HIDE DEF o
<1>2. CASE Throws(b) /\ place' = place /\ Mishap
  BY <1>0, <1>2, ThrowsStep DEF Prepare, Mishap
<1>3. CASE Goes(b, "recheck") /\ UNCHANGED <<place, mishaps>>
  <2>1. OnlyOp(b, o) /\ lock' = lock /\ snatched' = snatched
    BY <1>0, <1>3 DEF Prepare, Goes, OnlyOp, o
  <2>2. op'[b] = o /\ \A d \in Branch \ {b} : op'[d] = op[d]
    BY <1>0, <2>1 DEF OnlyOp
  <2>3. Prepared(b) => Prepared(b)'
    BY <1>0, <1>1, <1>3, <2>2 DEF Prepared
  <2>4. TypeInv' /\ Branches'
    BY <1>0, <1>1, <2>1, <2>3, OpStep DEF CheckoutInv
  <2>5. Turns'
    BY <1>0, <1>1, <2>1, <2>2, HolderTurns DEF CheckoutInv, Critical
  <2> QED BY <2>4, <2>5 DEF CheckoutInv
<1>4. CASE /\ Goes(b, "recheck") /\ Mishap
           /\ \E kind \in {"code", "issues"}, part \in {"dirty", "head"} :
                place' = [place EXCEPT ![b].made = @ + 1, ![b][part] = @ \cup {<<b, kind, place[b].made + 1>>}]
  <2>1. PICK kind \in {"code", "issues"}, part \in {"dirty", "head"} :
          place' = [place EXCEPT ![b].made = @ + 1, ![b][part] = @ \cup {<<b, kind, place[b].made + 1>>}]
    BY <1>4
  <2> DEFINE c == <<b, kind, place[b].made + 1>>
             p == [place[b] EXCEPT !.made = @ + 1, ![part] = @ \cup {c}]
  <2>2. c \in Change /\ c[1] = b /\ c[3] = place[b].made + 1 /\ place[b].made + 1 \in Nat
    BY <1>0 DEF Change, Places
  <2>3. place' = [place EXCEPT ![b] = p]
    BY <2>1
  <2>4. /\ p \in Places /\ p.tree = place[b].tree /\ p.branch = place[b].branch
        /\ place[b].head \subseteq p.head /\ p.made = place[b].made + 1
        /\ p.head \cup p.dirty = place[b].head \cup place[b].dirty \cup {c}
    <3> HIDE DEF c
    <3>1. CASE part = "dirty"
      BY <1>0, <2>2, <3>1 DEF Places
    <3>2. CASE part = "head"
      BY <1>0, <2>2, <3>2 DEF Places
    <3> QED BY <3>1, <3>2
  <2> HIDE DEF c, p
  <2>5. op' = [op EXCEPT ![b] = o] /\ mishaps' \in Nat /\ UNCHANGED <<main, reaper, lock, excused, snatched, moves>>
    BY <1>0, <1>4 DEF Prepare, Goes, Mishap, o
  <2>6. place'[b] = p /\ op'[b] = o
    BY <1>0, <2>3, <2>5
  <2>7. Prepared(b) => Prepared(b)'
    BY <1>0, <1>1, <2>4, <2>6 DEF Prepared
  <2>8. ASSUME Kept(b) PROVE Kept(b)'
    <3>1. place[b].made \in Nat /\ (b \in Task => reaper[b] = "none")
      BY <1>0 DEF Places, BranchOK, Standing
    <3>2. ASSUME NEW k \in 1..p.made
          PROVE  \E x \in main \cup p.head \cup p.dirty : x[1] = b /\ x[3] = k
      <4>1. CASE k = place[b].made + 1
        BY <2>2, <2>4, <4>1
      <4>2. CASE k \in 1..place[b].made
        BY <2>4, <2>8, <4>2 DEF Kept
      <4> QED BY <2>4, <3>1, <4>1, <4>2
    <3> QED BY <2>5, <2>6, <3>1, <3>2 DEF Kept
  <2> QED BY <1>0, <1>1, <2>3, <2>4, <2>5, <2>7, <2>8, LandStep DEF Critical
<1> QED BY <1>2, <1>3, <1>4 DEF Prepare

(* What the parent gained since the last merge is of the tracker alone, so a  *)
(* merge of it brings nothing that was not prepared.                          *)
LEMMA CatchUpPrepared ==
  ASSUME NEW b \in Branch, Prepared(b), op[b].at = "ff", trackerOnly(op[b].target, main),
         op'[b].at = "ff", op'[b].prepared = op[b].prepared, op'[b].target = main,
         place'[b].head = place[b].head \cup main
  PROVE  Prepared(b)'
<1>1. main \subseteq op[b].target \cup Tracker /\ op[b].target \subseteq place[b].head
  BY DEF trackerOnly, Prepared
<1>2. place'[b].head \ op'[b].prepared \subseteq Tracker
  BY <1>1 DEF Prepared
<1>3. Authored(b)' = {}
  <2> SUFFICES ASSUME NEW c \in place'[b].head, c[1] = b PROVE c[2] # "issues"
    BY DEF Authored
  <2>1. c \notin Tracker
    BY NameAssumption DEF Tracker, Branch
  <2>2. c \in place[b].head
    BY <1>1, <2>1
  <2> QED BY <2>2 DEF Prepared, Authored
<1> QED BY <1>2, <1>3 DEF Prepared, Tracker

(* The parent takes the branch, or is merged into it, or the branch gives up. *)
LEMMA FastForwardStep ==
  ASSUME CheckoutInv, NEW b \in Branch, FastForward(b)
  PROVE  CheckoutInv'
<1>0. /\ place \in [Branch -> Places] /\ place[b] \in Places /\ op \in [Branch -> Operations]
      /\ op[b] \in Operations /\ mishaps \in Nat /\ main \in SUBSET Change /\ op[b].at = "ff"
  BY DEF CheckoutInv, TypeInv, FastForward
<1>1. CASE main \subseteq place[b].head
  <2> DEFINE o == [op[b] EXCEPT !.at = "align"]
  <2>1. o \in Operations /\ o.at = "align"
    BY <1>0, GoesFacts DEF Steps
  <2>2. /\ main' = place[b].head /\ op' = [op EXCEPT ![b] = o]
        /\ UNCHANGED <<place, mishaps, reaper, lock, excused, snatched, moves>>
    BY <1>1 DEF FastForward, Goes
  <2> HIDE DEF o
  <2>3. place' = [place EXCEPT ![b] = place[b]] /\ op'[b] = o
    BY <1>0, <2>2
  <2>4. Prepared(b)' /\ main' \in SUBSET Change
    BY <1>0, <2>1, <2>3 , <2>2 DEF Prepared, Places
  <2>5. Kept(b) => Kept(b)'
    BY <1>1, <2>2, MergeKept
  <2> QED BY <1>0, <1>1, <2>1, <2>2, <2>3, <2>4, <2>5, LandStep DEF Critical
<1>2. CASE ~(main \subseteq place[b].head)
  <2>1. CASE Throws(b) /\ UNCHANGED <<place, mishaps>>
    BY <1>0, <1>2, <2>1, ThrowsStep DEF FastForward
  <2>2. CASE /\ trackerOnly(op[b].target, main) /\ place' = [place EXCEPT ![b].head = @ \cup main]
             /\ op' = [op EXCEPT ![b].tries = @ + 1, ![b].target = main] /\ UNCHANGED mishaps
    <3> DEFINE p == [place[b] EXCEPT !.head = @ \cup main]
               o == [op[b] EXCEPT !.tries = @ + 1, !.target = main]
    <3>1. /\ p \in Places /\ p.tree = place[b].tree /\ p.branch = place[b].branch /\ p.made = place[b].made
          /\ p.head = place[b].head \cup main /\ p.dirty = place[b].dirty
      BY <1>0 DEF Places
    <3>2. o \in Operations /\ o.at = "ff" /\ o.prepared = op[b].prepared /\ o.target = main
      <4>1. op[b].tries + 1 \in Nat
        BY <1>0 DEF Operations
      <4> QED BY <1>0, <4>1 DEF Operations
    <3>3. /\ place' = [place EXCEPT ![b] = p] /\ op' = [op EXCEPT ![b] = o]
          /\ UNCHANGED <<main, mishaps, reaper, lock, excused, snatched, moves>>
      BY <1>2, <2>2 DEF FastForward
    <3> HIDE DEF p, o
    <3>4. place'[b] = p /\ op'[b] = o
      BY <1>0, <3>3
    <3>5. Prepared(b) => Prepared(b)'
      BY <1>0, <2>2, <3>1, <3>2, <3>4, CatchUpPrepared
    <3>6. Kept(b) => Kept(b)'
      BY <3>1, <3>3, <3>4, MergeKept
    <3> QED BY <1>0, <3>1, <3>2, <3>3, <3>5, <3>6, LandStep DEF Critical
  <2> QED BY <1>2, <2>1, <2>2 DEF FastForward
<1> QED BY <1>1, <1>2

(* Others commit on the parent branch.                                        *)
LEMMA MovesStep ==
  ASSUME CheckoutInv, NEW kind \in {"tracker", "code"}, Moves(kind)
  PROVE  CheckoutInv'
<1> USE DEF CheckoutInv
<1>1. /\ main' = main \cup {<<kind, moves'>>} /\ moves' = moves + 1
      /\ UNCHANGED <<place, op, reaper, lock, excused, snatched, mishaps>>
  BY DEF Moves
<1>2. TypeInv'
  <2>1. <<kind, moves'>> \in Change
    BY <1>1 DEF Change, TypeInv
  <2> QED BY <1>1, <2>1 DEF TypeInv
<1>3. Branches'
  <2> SUFFICES ASSUME NEW b \in Branch PROVE BranchOK(b)'
    BY DEF Branches
  <2>1. BranchOK(b)
    BY DEF Branches
  <2>2. Standing(b)' /\ (b \notin excused => Prepared(b)')
    BY <1>1, <2>1 DEF BranchOK, Standing, Prepared, Authored, Tracker
  <2>3. b \notin excused => Kept(b)'
    BY <1>1, <2>1, MergeKept DEF BranchOK
  <2> QED BY <1>1, <2>2, <2>3 DEF BranchOK
<1>4. Turns'
  BY <1>1, IdleTurns
<1> QED BY <1>2, <1>3, <1>4

(* The invariant holds at first and of every step.                            *)
LEMMA CheckoutInit == Init => CheckoutInv
<1> SUFFICES ASSUME Init PROVE CheckoutInv
  OBVIOUS
<1>1. PICK here \in SUBSET Worker : place = [b \in Branch |-> IF b \in here THEN Fresh ELSE NoTree]
  BY DEF Init
<1>2. \A b \in Branch : place[b] \in {Fresh, NoTree}
  BY <1>1
<1>3. Fresh \in Places /\ NoTree \in Places
  BY DEF Fresh, NoTree, Places
<1>4. \A p \in {Fresh, NoTree} : (p.tree => p.branch) /\ p.head = {} /\ p.made = 0
  <2>1. NoTree \in Places /\ NoTree.head = {} /\ NoTree.made = 0 /\ ~NoTree.tree
    BY <1>3 DEF NoTree
  <2>2. Fresh.head = {} /\ Fresh.made = 0 /\ Fresh.branch
    BY <2>1 DEF Fresh, Places
  <2> QED BY <2>1, <2>2
<1>5. TypeInv
  <2>1. place \in [Branch -> Places]
    BY <1>1, <1>3
  <2>2. lock \in Locks
    BY DEF Init, Locks
  <2> QED BY <2>1, <2>2, NoOpFacts DEF Init, TypeInv
<1>6. Branches
  <2> SUFFICES ASSUME NEW b \in Branch PROVE BranchOK(b)
    BY DEF Branches
  <2>1. op[b].at = "idle" /\ (b \in Task => reaper[b] = "none")
    BY NoOpFacts DEF Init
  <2> QED BY <1>2, <1>4, <2>1 DEF BranchOK, Standing, Prepared, Kept
<1>7. Turns
  <2>1. \A b \in Task : op[b].at = "idle"
    BY NoOpFacts DEF Init, Branch
  <2> QED BY <2>1 DEF Init, Turns, Holds, Critical
<1> QED BY <1>5, <1>6, <1>7 DEF CheckoutInv

(* One lemma for each action or group of them.                                *)
LEMMA CheckoutStep == CheckoutInv /\ [Next]_vars => CheckoutInv'
<1> SUFFICES ASSUME CheckoutInv, [Next]_vars PROVE CheckoutInv'
  OBVIOUS
<1>1. CASE UNCHANGED vars
  BY <1>1 DEF vars, CheckoutInv, TypeInv, Branches, BranchOK, Standing, Prepared, Kept, Authored, Tracker,
     Turns, Holds, Critical
<1>2. ASSUME NEW b \in Branch, Finish(b) \/ Dies(b)
      PROVE  CheckoutInv'
  BY <1>2, LockStep
<1>3. ASSUME NEW b \in Branch, Commits(b) \/ \E kind \in {"code", "issues"} : Edits(b, kind)
      PROVE  CheckoutInv'
  BY <1>3, WorkStep
<1>4. ASSUME NEW b \in Branch, Integrates(b)
      PROVE  CheckoutInv'
  BY <1>4, LockStep, UnlockStep, LookStep, UpdateStep, PrepareStep, FastForwardStep DEF Integrates
<1>5. ASSUME NEW b \in Task,
             startTask(b) \/ Leaves(b) \/ ReapLook(b) \/ ReapStatus(b) \/ ReapTree(b) \/ ReapBranch(b)
      PROVE  CheckoutInv'
  BY <1>5, TaskStep, ReapStep
<1>6. ASSUME NEW kind \in {"tracker", "code"}, Moves(kind)
      PROVE  CheckoutInv'
  BY <1>6, MovesStep
<1> QED BY <1>1, <1>2, <1>3, <1>4, <1>5, <1>6 DEF Next

--------------------------------------------------------------------------------
(* The invariant of the landing of worktrees (lib/thread/lifecycle.ts,        *)
(* lib/task.ts).                                                              *)
THEOREM CheckoutInvariant == Spec => []CheckoutInv
BY CheckoutInit, CheckoutStep, PTL DEF Spec

(* What a worker or a task made is in its worktree, on its branch or landed,  *)
(* whatever is rebased, refused, killed or reaped.                            *)
THEOREM NoWorkIsLost == Spec => []NothingIsLost
<1>1. CheckoutInv => NothingIsLost
  BY DEF CheckoutInv, Branches, BranchOK, Kept, NothingIsLost
<1> QED BY <1>1, CheckoutInvariant, PTL

(* Two finishes of tasks run at once only after a lock was removed that two   *)
(* waiters had found stale (integrationLock).                                 *)
THEOREM TasksLandInTurn == Spec => []TasksTakeTurns
<1>1. CheckoutInv => TasksTakeTurns
  <2> SUFFICES ASSUME CheckoutInv, ~snatched PROVE Cardinality({b \in Task : Critical(b)}) <= 1
    BY DEF TasksTakeTurns, CheckoutInv, TypeInv
  <2>1. \A d, e \in {b \in Task : Critical(b)} : d = e
    BY DEF CheckoutInv, Turns, Holds
  <2>2. CASE {b \in Task : Critical(b)} = {}
    BY <2>2, FS_EmptySet
  <2>3. ASSUME NEW d \in Task, {b \in Task : Critical(b)} = {d}
        PROVE  Cardinality({b \in Task : Critical(b)}) <= 1
    <3>1. Cardinality({d}) = 1
      BY FS_Singleton
    <3> QED BY <2>3, <3>1
  <2> QED BY <2>1, <2>2, <2>3
<1> QED BY <1>1, CheckoutInvariant, PTL

(* What lands in the parent is what was prepared and commits of the tracker,  *)
(* and never the branch's own change of the tracker (integrateCheckout).      *)
THEOREM PreparedWorkLands == Spec => LandsWhatPassed
<1> DEFINE Lands == /\ main \subseteq main'
                    /\ \A b \in Branch \ excused : op[b].at = "ff" /\ op'[b].at = "align" =>
                         /\ main' \ op[b].prepared \subseteq Tracker
                         /\ \A c \in main' : c[1] = b => c[2] # "issues"
<1>1. CheckoutInv /\ [Next]_vars => [Lands]_vars
  <2> SUFFICES ASSUME CheckoutInv, Next PROVE Lands
    OBVIOUS
  <2>1. main \subseteq main'
    BY DEF Next, Finish, Integrates, MakeLock, WritePid, FindsDead, BreakLock, Deadline, Unlock, Check, Update,
       Prepare, Recheck, FastForward, Align, Dies, Commits, Edits, startTask, Leaves, ReapLook, ReapStatus, ReapTree,
       ReapBranch, Moves
  <2>2. ASSUME NEW b \in Branch \ excused, op[b].at = "ff", op'[b].at = "align"
        PROVE  main' \ op[b].prepared \subseteq Tracker /\ \A c \in main' : c[1] = b => c[2] # "issues"
    <3>0. op \in [Branch -> Operations]
      BY DEF CheckoutInv, TypeInv
    <3>1. FastForward(b)
      <4>1. ASSUME NEW d \in Branch, Integrates(d), d # b PROVE op'[b] = op[b]
        BY <2>2, <3>0, <4>1 DEF Integrates, MakeLock, WritePid, FindsDead, BreakLock, Deadline, Unlock, Check,
           Update, Prepare, Recheck, FastForward, Align, Goes, Throws
      <4>2. CASE Integrates(b)
        BY <2>2, <4>2 DEF Integrates, MakeLock, WritePid, FindsDead, BreakLock, Deadline, Unlock, Check,
           Update, Prepare, Recheck, Align
      <4>3. ASSUME NEW d \in Branch, Finish(d) \/ Dies(d) PROVE op'[b].at # "align"
        <5>1. CASE d = b
          BY <2>2, <3>0, <4>3, <5>1, NoOpFacts DEF Finish, Dies
        <5>2. CASE d # b
          BY <2>2, <3>0, <4>3, <5>2 DEF Finish, Dies, Goes
        <5> QED BY <5>1, <5>2
      <4>4. ASSUME op' = op PROVE FALSE
        BY <2>2, <4>4
      <4> QED BY <2>2, <4>1, <4>2, <4>3, <4>4 DEF Next, Commits, Edits, startTask, Leaves, ReapLook, ReapStatus,
              ReapTree, ReapBranch, Moves
    <3>3. main' = place[b].head
      <4>1. ~Throws(b)
        BY <2>2, <3>0, ThrowsFacts DEF CheckoutInv
      <4>2. op' # [op EXCEPT ![b].tries = @ + 1, ![b].target = main]
        <5>1. op[b] \in Operations
          BY <2>2, <3>0
        <5>2. [op[b] EXCEPT !.tries = @ + 1, !.target = main].at = "ff"
          BY <2>2, <5>1 DEF Operations
        <5> QED BY <2>2, <3>0, <5>2
      <4> QED BY <3>1, <4>1, <4>2 DEF FastForward
    <3>2. Prepared(b)
      BY <2>2 DEF CheckoutInv, Branches, BranchOK
    <3> QED BY <2>2, <3>2, <3>3 DEF Prepared, Authored
  <2> QED BY <2>1, <2>2
<1> HIDE DEF Lands
<1>2. Spec => [][Lands]_vars
  BY <1>1, CheckoutInvariant, PTL DEF Spec
<1> QED BY <1>2 DEF LandsWhatPassed, Lands
================================================================================
