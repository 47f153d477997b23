------------------------------- MODULE Threads -------------------------------
(* Launching and retiring workers: a wave of assignments (lib/dispatch.ts),   *)
(* a worker's worktree, branch, setup and bb thread (lib/thread/runtime.ts,   *)
(* setup.ts, bb.ts), and the end of its processes, worktree, branch and       *)
(* environment (lib/thread/lifecycle-cleanup.ts).  Callers are a reconciler   *)
(* and an owner's command, each at one operation at a time; what happens      *)
(* between two awaits is one step.  A caller dies anywhere; git, bb and the   *)
(* project's setup fail or lose an answer; workers write, commit, start       *)
(* processes and are spoken to at any time.                                   *)
EXTENDS Naturals, Sequences, FiniteSets
LOCAL INSTANCE SequencesExt

CONSTANTS
  Name,        \* handles: also the names of worktrees and branches
  Admitted,    \* handles whose issue's assignee admits the launch
  Caller,      \* processes that launch and retire
  Dispatcher,  \* the caller that dispatches waves
  Budget,      \* maxConcurrent
  Acting,      \* bound: handles whose workers act and that other callers use
  MaxThread,   \* bound: bb threads ever made
  MaxWork,     \* bound: changes a worker makes under one handle
  MaxMishaps   \* bound: failures, lost answers, deaths, meetings at one name

VARIABLES
  place,    \* of each name: its worktree and branch, and the work in them
  procs,    \* of each name: processes that run in its worktree
  thread,   \* bb's threads, by number
  op,       \* each caller's operation
  wave,     \* the dispatcher's wave
  landed,   \* work that the parent branch has
  given,    \* history: work given up on purpose, with an unlanded branch or a failed launch
  excused,  \* history: names whose launches overlapped, whose spawn's answer was lost or that started a process while retired
  mishaps

vars == <<place, procs, thread, op, wave, landed, given, excused, mishaps>>
-------------------------------------------------------------------------------
Thread == 1..MaxThread
Free == [tree |-> FALSE, branch |-> FALSE, made |-> 0, dirty |-> {}, on |-> {}]
Unborn == [at |-> "none", runs |-> FALSE]
Idle == [at |-> "idle"]
NoWave == [at |-> "none", todo |-> <<>>, submitted |-> {}, failed |-> {}, pending |-> {}, active |-> {}]

Init ==
  /\ place = [n \in Name |-> Free] /\ procs = [n \in Name |-> {}]
  /\ thread = [t \in Thread |-> Unborn]
  /\ op = [c \in Caller |-> Idle] /\ wave = NoWave
  /\ landed = {} /\ given = {} /\ excused = {} /\ mishaps = 0

Mishap == mishaps < MaxMishaps /\ mishaps' = mishaps + 1
Fine == UNCHANGED mishaps

Live(n) == {t \in Thread : thread[t].at = "live" /\ thread[t].name = n}
(* bbWorkerThread: threads titled with c's run whose environment is there.    *)
Titled(c, n) == {t \in Live(n) : thread[t].by = c /\ place[n].tree}
Goes(c, at) == op' = [op EXCEPT ![c].at = at]
Ends(c) == op' = [op EXCEPT ![c] = Idle]
Others(c, n) == {d \in Caller \ {c} : op[d].at # "idle" /\ op[d].n = n}
Excuses(n, when) ==
  IF when THEN Mishap /\ excused' = excused \cup {n} ELSE UNCHANGED <<mishaps, excused>>

(* The launch of n answered `answer`; the dispatcher's wave goes on with it.  *)
Answers(c, answer) ==
  LET n == op[c].n IN
  /\ Ends(c)
  /\ wave' = IF ~op[c].waved THEN wave
             ELSE IF answer = "launched"
                  THEN [wave EXCEPT !.submitted = @ \cup {n}, !.todo = Tail(@)]
                  ELSE [wave EXCEPT !.failed = {n}, !.pending = ToSet(Tail(wave.todo)),
                                    !.todo = <<>>, !.at = "over"]

-------------------------------------------------------------------------------
(* assertAssignee.                                                            *)
Admits(n) == n \in Admitted

(* A wave: every assignment is checked before any is launched; assignments    *)
(* beyond the budget and those after a failure are left to the caller.        *)
Dispatch(w) ==
  /\ op[Dispatcher].at = "idle" /\ wave.at # "open"
  /\ LET active == {n \in wave.active \cup wave.submitted : Live(n) # {}} IN
     /\ IsInjective(w) /\ ToSet(w) \cap active = {} /\ \A n \in ToSet(w) : Admits(n)
     /\ wave' = [NoWave EXCEPT !.at = "open", !.todo = w, !.active = active]
  /\ UNCHANGED <<place, procs, thread, op, landed, given, excused, mishaps>>

Launching(c, n, waved) ==
  op' = [op EXCEPT ![c] = [at |-> "look", do |-> "launch", n |-> n, waved |-> waved, id |-> 0]]

(* A mutant: the workers of earlier waves are not counted.                    *)
thisWaveOnly == Cardinality(wave.submitted) >= Budget

Full == Cardinality(wave.active) + Cardinality(wave.submitted) >= Budget

DispatchOne ==
  /\ wave.at = "open" /\ op[Dispatcher].at = "idle"
  /\ IF wave.todo = <<>> THEN wave' = [wave EXCEPT !.at = "over"] /\ UNCHANGED op
     ELSE IF Full THEN wave' = [wave EXCEPT !.at = "over", !.pending = ToSet(wave.todo), !.todo = <<>>]
                       /\ UNCHANGED op
     ELSE Launching(Dispatcher, Head(wave.todo), TRUE) /\ UNCHANGED wave
  /\ UNCHANGED <<place, procs, thread, landed, given, excused, mishaps>>

(* The owner's own `wm spawn`.                                                *)
Spawn(c, n) ==
  /\ c # Dispatcher /\ op[c].at = "idle" /\ Launching(c, n, FALSE)
  /\ UNCHANGED <<place, procs, thread, wave, landed, given, excused, mishaps>>

-------------------------------------------------------------------------------
(* newThread: nothing that is there already is taken over.                    *)
Look(c) ==
  LET n == op[c].n IN
  /\ op[c].at = "look"
  /\ Excuses(n, Others(c, n) # {})
  /\ IF place[n].tree \/ place[n].branch
     THEN Answers(c, "refused")
     ELSE Goes(c, "ask") /\ UNCHANGED wave
  /\ UNCHANGED <<place, procs, thread, landed, given>>

Ask(c) ==
  LET n == op[c].n IN
  /\ op[c].at = "ask"
  /\ \/ Fine /\ IF Titled(c, n) # {} THEN Answers(c, "refused")
                ELSE Goes(c, "add") /\ UNCHANGED wave
     \/ Mishap /\ Answers(c, "refused")
  /\ UNCHANGED <<place, procs, thread, landed, given, excused>>

(* `git worktree add` refuses a branch or path that is there, and may fail    *)
(* with both made.                                                            *)
Add(c) ==
  LET n == op[c].n
      made == [place EXCEPT ![n] = [Free EXCEPT !.tree = TRUE, !.branch = TRUE, !.made = place[n].made]] IN
  /\ op[c].at = "add"
  /\ IF place[n].tree \/ place[n].branch
     THEN Goes(c, "clear") /\ Fine /\ UNCHANGED place
     ELSE place' = made /\ ((Goes(c, "setup") /\ Fine) \/ (Goes(c, "clear") /\ Mishap))
  /\ UNCHANGED <<procs, thread, wave, landed, given, excused>>

(* Preparation and the project's setup: a network failure is retried, two     *)
(* times at most; what fails otherwise fails the launch.                      *)
Setup(c) ==
  /\ op[c].at = "setup"
  /\ (Goes(c, "spawn") /\ Fine) \/ (Goes(c, "retain") /\ Mishap)
  /\ UNCHANGED <<place, procs, thread, wave, landed, given, excused>>

NewThread(c, n) ==
  LET t == CHOOSE t \in Thread : thread[t].at = "none" /\ \A u \in Thread : u < t => thread[u].at # "none" IN
  [id |-> t, is |-> [thread EXCEPT ![t] = [at |-> "live", name |-> n, by |-> c, runs |-> TRUE]]]

(* spawnBb's `bb thread spawn`: refused, done, or done with its answer lost.  *)
SpawnBb(c) ==
  LET n == op[c].n
      new == NewThread(c, n)
      does == /\ \E t \in Thread : thread[t].at = "none"
              /\ thread' = new.is
              /\ procs' = [procs EXCEPT ![n] = @ \cup {"pi"}] IN
  /\ op[c].at = "spawn"
  /\ \/ does /\ op' = [op EXCEPT ![c].at = "base", ![c].id = new.id] /\ Fine /\ UNCHANGED excused
     \/ does /\ Goes(c, "retain") /\ Mishap /\ excused' = excused \cup {n}
     \/ Goes(c, "retain") /\ Mishap /\ UNCHANGED <<thread, procs, excused>>
  /\ UNCHANGED <<place, wave, landed, given>>

(* The environment is told its merge base; if that fails the new thread is    *)
(* stopped, archived and its environment deleted, unless stopping fails too.  *)
SetBase(c) ==
  /\ op[c].at = "base"
  /\ \/ Fine /\ Answers(c, "launched")
     \/ Mishap /\ Goes(c, "undo") /\ UNCHANGED wave
  /\ UNCHANGED <<place, procs, thread, landed, given, excused>>

Undo(c) ==
  LET n == op[c].n IN
  /\ op[c].at = "undo" /\ Goes(c, "retain")
  /\ \/ Fine /\ thread' = [thread EXCEPT ![op[c].id].at = "archived", ![op[c].id].runs = FALSE]
        /\ procs' = [procs EXCEPT ![n] = @ \ {"pi"}] /\ UNCHANGED excused
     \/ Mishap /\ excused' = excused \cup {n} /\ UNCHANGED <<thread, procs>>
  /\ UNCHANGED <<place, wave, landed, given>>

-------------------------------------------------------------------------------
(* A failed launch keeps its setup log first, and with it all the rest when   *)
(* that fails; then it removes its worktree and branch.                       *)
Retain(c) ==
  /\ op[c].at = "retain"
  /\ \/ Goes(c, "clear") /\ Fine /\ UNCHANGED wave
     \/ Mishap /\ Answers(c, "left")
  /\ UNCHANGED <<place, procs, thread, landed, given, excused>>

Cleared(n) == [place EXCEPT ![n] = [Free EXCEPT !.made = place[n].made]]

Work(n) == {<<n, k>> : k \in place[n].dirty \cup place[n].on}

Clear(c) ==
  LET n == op[c].n IN
  /\ op[c].at = "clear"
  /\ \/ Fine /\ Answers(c, "cleaned") /\ place' = Cleared(n)
        /\ given' = given \cup (Work(n) \ landed)
     \/ Mishap /\ Answers(c, "left") /\ UNCHANGED <<place, given>>
  /\ UNCHANGED <<procs, thread, landed, excused>>

-------------------------------------------------------------------------------
(* A dispatcher's retirement (the branch goes once its patches are in its     *)
(* parent), an owner's `wm close` (the branch goes) and either's stop (only   *)
(* the processes go).  Without a live thread there is nothing to do.          *)
Begin(c, n) ==
  /\ op[c].at = "idle" /\ Cardinality(Live(n)) = 1 /\ place[n].tree /\ place[n].branch
  /\ \E do \in {"stop", IF c = Dispatcher THEN "retire" ELSE "abandon"} :
       op' = [op EXCEPT ![c] = [at |-> "list", do |-> do, n |-> n, waved |-> FALSE, wip |-> FALSE,
                                id |-> CHOOSE t \in Live(n) : TRUE, seen |-> {}]]
  /\ Excuses(n, Others(c, n) # {})
  /\ UNCHANGED <<place, procs, thread, wave, landed, given>>

(* Each of these may throw instead: what is done stays done.                  *)
Throws(c) == Ends(c) /\ Mishap /\ UNCHANGED <<place, procs, thread, landed, given, excused, wave>>

(* The processes in the worktree, with the children of all that are chosen.   *)
List(c) ==
  /\ op[c].at = "list"
  /\ op' = [op EXCEPT ![c].at = "stop", ![c].seen = procs[op[c].n]]
  /\ UNCHANGED <<place, procs, thread, wave, landed, given, excused, mishaps>>

(* A mutant: bb still runs the thread.                                        *)
unreleased(c) ==
  /\ op[c].at = "stop" /\ Goes(c, "kill")
  /\ UNCHANGED <<place, procs, thread, wave, landed, given, excused, mishaps>>

(* bb releases the thread's pi, which it would restart if it were killed.     *)
StopBb(c) ==
  LET n == op[c].n IN
  /\ op[c].at = "stop" /\ Goes(c, "kill")
  /\ thread' = [thread EXCEPT ![op[c].id].runs = FALSE]
  /\ procs' = [procs EXCEPT ![n] = @ \ {"pi"}]
  /\ UNCHANGED <<place, wave, landed, given, excused, mishaps>>

Kill(c) ==
  LET n == op[c].n IN
  /\ op[c].at = "kill"
  /\ procs' = [procs EXCEPT ![n] = @ \ op[c].seen]
  /\ IF op[c].do = "stop" THEN Ends(c) ELSE Goes(c, "save")
  /\ UNCHANGED <<place, thread, wave, landed, given, excused, mishaps>>

(* A mutant: work in progress goes with its worktree.                         *)
unsaved(c) ==
  /\ op[c].at = "save" /\ Goes(c, "remove")
  /\ UNCHANGED <<place, procs, thread, wave, landed, given, excused, mishaps>>

(* commitWip.                                                                 *)
SaveWip(c) ==
  LET n == op[c].n IN
  /\ op[c].at = "save"
  /\ op' = [op EXCEPT ![c].at = "remove", ![c].wip = place[n].tree /\ place[n].dirty # {}]
  /\ place' = IF place[n].tree
              THEN [place EXCEPT ![n].on = @ \cup place[n].dirty, ![n].dirty = {}] ELSE place
  /\ UNCHANGED <<procs, thread, wave, landed, given, excused, mishaps>>

RemoveTree(c) ==
  LET n == op[c].n IN
  /\ op[c].at = "remove" /\ Goes(c, "branch")
  /\ place' = [place EXCEPT ![n].tree = FALSE, ![n].dirty = {}]
  /\ UNCHANGED <<procs, thread, wave, landed, given, excused, mishaps>>

Unlanded(n) == {<<n, k>> : k \in place[n].on} \ landed
DropBranch(n) == place' = [place EXCEPT ![n].branch = FALSE, ![n].on = {}]

(* Abandoning deletes the branch here unless it got a WIP commit.             *)
CutBranch(c) ==
  LET n == op[c].n IN
  /\ op[c].at = "branch" /\ Goes(c, "archive")
  /\ IF op[c].do = "abandon" /\ ~op[c].wip
     THEN DropBranch(n) /\ given' = given \cup Unlanded(n)
     ELSE UNCHANGED <<place, given>>
  /\ UNCHANGED <<procs, thread, wave, landed, excused, mishaps>>

Archive(c) ==
  /\ op[c].at = "archive"
  /\ thread' = [thread EXCEPT ![op[c].id].at = "archived"]
  /\ IF op[c].do = "retire" THEN Goes(c, "cherry") ELSE Ends(c)
  /\ UNCHANGED <<place, procs, wave, landed, given, excused, mishaps>>

(* A mutant: a retired branch goes, landed or not.                            *)
anyBranch(n) == TRUE

(* `git cherry`: every patch of the branch is in its parent.                  *)
Merged(n) == Unlanded(n) = {}

Cherry(c) ==
  LET n == op[c].n IN
  /\ op[c].at = "cherry" /\ Ends(c)
  /\ IF Merged(n) THEN DropBranch(n) ELSE UNCHANGED place
  /\ UNCHANGED <<procs, thread, wave, landed, given, excused, mishaps>>

Retiring(c) ==
  \/ List(c) \/ StopBb(c) \/ Kill(c) \/ SaveWip(c) \/ RemoveTree(c) \/ CutBranch(c) \/ Archive(c)
  \/ Cherry(c)
  \/ op[c].at \in {"list", "stop", "kill", "save", "remove", "archive"} /\ Throws(c)

-------------------------------------------------------------------------------
(* Workers, bb and the other callers.                                         *)

(* History: a process begins in a worktree whose processes were listed.       *)
Late(n) ==
  Excuses(n, \E c \in Caller :
               op[c].at \in {"stop", "kill", "save", "remove", "branch", "archive"} /\ op[c].n = n)

Writes(n) ==
  /\ procs[n] # {} /\ place[n].tree /\ place[n].made < MaxWork
  /\ place' = [place EXCEPT ![n].made = @ + 1, ![n].dirty = @ \cup {place[n].made + 1}]
  /\ UNCHANGED <<procs, thread, op, wave, landed, given, excused, mishaps>>

Commits(n) ==
  /\ "pi" \in procs[n] /\ place[n].tree /\ place[n].branch /\ place[n].dirty # {}
  /\ place' = [place EXCEPT ![n].on = @ \cup place[n].dirty, ![n].dirty = {}]
  /\ UNCHANGED <<procs, thread, op, wave, landed, given, excused, mishaps>>

Forks(n) ==
  /\ "pi" \in procs[n] /\ "kid" \notin procs[n]
  /\ procs' = [procs EXCEPT ![n] = @ \cup {"kid"}] /\ Late(n)
  /\ UNCHANGED <<place, thread, op, wave, landed, given>>

(* bb restarts a pi that was killed under it.                                 *)
Restarts(t) ==
  LET n == thread[t].name IN
  /\ thread[t].at = "live" /\ n \in Acting /\ thread[t].runs /\ "pi" \notin procs[n] /\ place[n].tree
  /\ procs' = [procs EXCEPT ![n] = @ \cup {"pi"}]
  /\ UNCHANGED <<place, thread, op, wave, landed, given, excused, mishaps>>

(* A message starts the thread's pi again.                                    *)
Tell(t) ==
  LET n == thread[t].name IN
  /\ thread[t].at = "live" /\ n \in Acting /\ ~thread[t].runs
  /\ thread' = [thread EXCEPT ![t].runs = TRUE] /\ Late(n)
  /\ UNCHANGED <<place, procs, op, wave, landed, given>>

(* The branch as it is lands in its parent.                                   *)
Lands(n) ==
  /\ place[n].branch /\ Unlanded(n) # {}
  /\ landed' = landed \cup Unlanded(n)
  /\ UNCHANGED <<place, procs, thread, op, wave, given, excused, mishaps>>

(* A death; a dispatcher that starts again finds its workers by their titles, *)
(* whether or not their worktrees are still there (findWorker).               *)
Dies(c) ==
  /\ op[c].at # "idle" /\ Mishap /\ Ends(c)
  /\ wave' = IF c # Dispatcher THEN wave
             ELSE [NoWave EXCEPT !.active = {n \in Name : \E t \in Live(n) : thread[t].by = c}]
  /\ excused' = IF op[c].at \in {"spawn", "base", "undo"} THEN excused \cup {op[c].n} ELSE excused
  /\ UNCHANGED <<place, procs, thread, landed, given>>

Operates(c) ==
  \/ Look(c) \/ Ask(c) \/ Add(c) \/ Setup(c) \/ SpawnBb(c) \/ SetBase(c) \/ Undo(c)
  \/ Retain(c) \/ Clear(c) \/ Retiring(c)

Next ==
  \/ \E w \in SetToSeqs(Name) \cup {<<n>> : n \in Name} : Dispatch(w)
  \/ DispatchOne
  \/ \E c \in Caller : Operates(c) \/ Dies(c)
  \/ \E c \in Caller, n \in Acting : Spawn(c, n) \/ Begin(c, n)
  \/ \E n \in Acting : Writes(n) \/ Commits(n) \/ Forks(n) \/ Lands(n)
  \/ \E t \in Thread : Restarts(t) \/ Tell(t)

Spec == Init /\ [][Next]_vars

-------------------------------------------------------------------------------
(* Every variable has its type.                                               *)
TypeOK ==
  /\ \A n \in Name : place[n].dirty \subseteq 1..MaxWork /\ place[n].on \subseteq 1..MaxWork
                     /\ procs[n] \subseteq {"pi", "kid"}
  /\ \A t \in Thread : thread[t].at \in {"none", "live", "archived"}
  /\ landed \subseteq Name \X (1..MaxWork) /\ given \subseteq Name \X (1..MaxWork)

(* Nothing a worker made is lost: each of its changes is in its worktree, on  *)
(* its branch or landed, unless its branch was given up.  Not so where a      *)
(* process began during the retirement, or two callers met at one name.       *)
WorkSurvives ==
  \A n \in Name \ excused :
    \A k \in 1..place[n].made : <<n, k>> \in landed \cup given \cup Work(n)

(* A retired worker's processes are gone, and so is its thread.               *)
RetiredIsQuiet ==
  \A c \in Caller : op[c].at \in {"remove", "branch"} /\ op[c].n \notin excused =>
    procs[op[c].n] = {}

(* A dispatcher's waves keep to the budget, and a wave that is over says of   *)
(* every assignment what became of it: those it submitted have a worker, and  *)
(* those it did not come to are pending.                                      *)
WaveKeepsBudget ==
  /\ Cardinality({n \in Name \ excused : Titled(Dispatcher, n) # {}}) <= Budget
  /\ Cardinality(wave.failed) <= 1
  /\ wave.pending \cap wave.submitted = {} /\ wave.failed \cap (wave.pending \cup wave.submitted) = {}
=============================================================================
