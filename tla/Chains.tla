------------------------------- MODULE Chains -------------------------------
(***************************************************************************)
(* The chains of a run: how the reconciler launches a worker on a node,    *)
(* acts on its reports, replaces it, holds it behind an exception and      *)
(* carries on by a resolution (lib/reconcile/reconcile.ts: launch,         *)
(* startPhase, onReport, visit, raise, handleExceptions, applyResolution). *)
(* The nodes are siblings that land in the root's collector.  A tick polls *)
(* the workers, visits all nodes side by side and then goes through the    *)
(* exceptions one by one; each step below runs from one await to the next, *)
(* and a crash may fall between any two.                                   *)
(***************************************************************************)
EXTENDS Naturals, FiniteSets

CONSTANTS
  Node,          \* the nodes of the tree under the root
  Budget,        \* workers the run may have
  Repairs, Relaunches, Checkpoints, Integrations,  \* BUDGET
  Driven,        \* nodes whose ticket has a drive phase
  Reports,       \* what a worker's turn may end on
  Rulings,       \* the actions an owner or a handler may resolve with
  MaxHandle, MaxTurn, MaxQueued, MaxTrouble, MaxCrash  \* bounds

ASSUME ChainAssumption ==
  /\ Budget \in Nat /\ Repairs \in Nat /\ Relaunches \in Nat
  /\ Checkpoints \in Nat /\ Integrations \in Nat
  /\ MaxHandle \in Nat /\ MaxTurn \in Nat
  /\ Driven \subseteq Node
  /\ Reports \subseteq {"done", "bad", "blocked", "waiting", "checkpoint",
                        "limit", "error", "quota"}
  /\ Rulings \subseteq {"answer", "retry", "redispatch", "move-out", "escalate"}

VARIABLES
  mem,           \* the state in the process: chain, exception of each node, counter
  disk,          \* the state file
  worker,        \* handle -> its worktree and bb thread, turns ended, last report
  seen,          \* what the tick's poll saw of the workers
  task,          \* node -> the visit, or the step of its exception, under way
  stage,         \* where the tick is
  todo,          \* nodes the stage has still to take up
  threw,         \* a visit threw: the tick ends with it
  file,          \* node -> the resolution file queued for it
  closed,        \* nodes that landed or moved out
  cut,           \* history: nodes whose worker's message was cut off
  spared,        \* history: workers nobody keeps a record of, after a failure
  raised,        \* history: tells an exception from the one raised before it
  trouble, crashes, queued   \* what the bounds count

vars == <<mem, disk, worker, seen, task, stage, todo, threw, file, closed,
          cut, spared, raised, trouble, crashes, queued>>
hist == <<cut, spared, raised>>
counts == <<trouble, crashes, queued>>

Handle == 1..MaxHandle
Phase  == {"implement", "drive", "review", "integrate"}
NoTries == [repair |-> 0, relaunch |-> 0, checkpoint |-> 0, integrate |-> 0, provider |-> 0]
Blank == [phase |-> "none", handle |-> 0, launching |-> 0, to |-> "none",
          cursor |-> 0, held |-> FALSE, waiting |-> FALSE, tries |-> NoTries, old |-> {}]
Fresh == [Blank EXCEPT !.phase = "implement"]
NoEx == [id |-> 0, level |-> "none", handler |-> 0, cursor |-> 0, provider |-> FALSE]
NoFile == [act |-> "none", about |-> 0]
Unborn == [st |-> "none", role |-> "none", turn |-> 0, rep |-> "none"]
(* A step under way: what it waits for, where a throw goes, the phase it     *)
(* starts, what follows, a number it captured, who asked.                    *)
Rest == [at |-> "rest", err |-> "none", phase |-> "none", then |-> "none",
         n |-> 0, src |-> "none"]

C(n) == mem.chain[n]
X(n) == mem.ex[n]
Has(n) == C(n).phase # "none"
Pending(n) == X(n).id # 0
Quiet == \A n \in Node : task[n].at = "rest"
Thread(h) == worker[h].st \in {"working", "idle"}

Init ==
  /\ mem = [chain |-> [n \in Node |-> Blank], ex |-> [n \in Node |-> NoEx], count |-> 0]
  /\ disk = mem
  /\ worker = [h \in Handle |-> Unborn]
  /\ seen = worker
  /\ task = [n \in Node |-> Rest]
  /\ stage = "off" /\ todo = {} /\ threw = FALSE
  /\ file = [n \in Node |-> NoFile]
  /\ closed = {} /\ cut = {} /\ spared = {}
  /\ raised = 0 /\ trouble = 0 /\ crashes = 0 /\ queued = 0

----------------------------------------------------------------------------
(* Saving, and what the steps below share.                                  *)
Save(m) == mem' = m /\ disk' = m
Keep(m) == mem' = m /\ UNCHANGED disk
WithC(m, n, c) == [m EXCEPT !.chain[n] = c]
\* Mutated form of Unheld: a chain that stays held when its exception goes.
StaysHeld(m, n) == m
Unheld(m, n) == [m EXCEPT !.chain[n].held = FALSE]
Go(n, t) == task' = [task EXCEPT ![n] = t]
At(t, a) == [t EXCEPT !.at = a]
Fault == trouble + crashes < MaxTrouble /\ trouble' = trouble + 1 /\ UNCHANGED <<crashes, queued>>

(* launching, plus the workers of chains that are not held and the handlers. *)
(* A first worker is recorded with no await after its launch.                *)
Live ==
  Cardinality({n \in Node : \/ task[n].at \in {"spawn", "hire", "hired"}
                            \/ task[n].at = "up" /\ C(n).handle = 0})
    + Cardinality({n \in Node : C(n).handle # 0 /\ ~C(n).held})
    + Cardinality({n \in Node : X(n).handler # 0})

\* Mutated form of Raising: a raise that leaves a queued resolution file.
RaisingKeepsFile(m, n, level, provider) ==
  /\ Save([m EXCEPT !.chain[n].held = TRUE,
                    !.ex[n] = [id |-> raised + 1, level |-> level, handler |-> 0,
                               cursor |-> m.chain[n].cursor, provider |-> provider]])
  /\ raised' = 1 - raised
  /\ UNCHANGED file

(* raise(): the chain is held and any queued resolution file dropped.  No    *)
(* node is visited that has an exception.                                    *)
Raising(m, n, level, provider) ==
  /\ Save([m EXCEPT !.chain[n].held = TRUE,
                    !.ex[n] = [id |-> raised + 1, level |-> level, handler |-> 0,
                               cursor |-> m.chain[n].cursor, provider |-> provider]])
  /\ raised' = 1 - raised
  /\ file' = [file EXCEPT ![n] = NoFile]

\* Mutated form of Throw: the failure of a report's handling fails the tick.
ThrowFailsTick(m, n) ==
  /\ Go(n, Rest)
  /\ IF task[n].err = "launch"
     THEN Raising(m, n, "parent", FALSE) /\ UNCHANGED <<threw, cut>>
     ELSE /\ Keep(m)
          /\ threw' = TRUE
          /\ cut' = IF task[n].src = "handler" THEN cut \cup {n} ELSE cut
          /\ UNCHANGED <<file, raised>>

(* A step of node n threw: a first launch and a report are raised, anything  *)
(* else fails the tick.                                                      *)
Throw(m, n) ==
  /\ Go(n, Rest)
  /\ IF task[n].err \in {"launch", "report"}
     THEN Raising(m, n, "parent", FALSE) /\ UNCHANGED <<threw, cut>>
     ELSE /\ Keep(m)
          /\ threw' = TRUE
          /\ cut' = IF task[n].src = "handler" \/ task[n].then = "save"
                    THEN cut \cup {n} ELSE cut
          /\ UNCHANGED <<file, raised>>

(* nextHandle() and the saved intent to launch it for phase ph.              *)
Nameable(m, n) == m.chain[n].launching # 0 \/ m.count < MaxHandle
Intent(m, n, ph) ==
  LET fresh == m.chain[n].launching = 0
  IN [m EXCEPT !.count = IF fresh THEN @ + 1 ELSE @,
               !.chain[n].launching = IF fresh THEN m.count + 1 ELSE @,
               !.chain[n].to = ph]

(* retireHandle(): done, or failed and ignored by a caller that forgets h.   *)
Retire(h) ==
  \/ /\ worker' = IF h = 0 THEN worker ELSE [worker EXCEPT ![h].st = "gone"]
     /\ UNCHANGED <<spared, counts>>
  \/ /\ h # 0 /\ Thread(h) /\ Fault
     /\ spared' = spared \cup {h}
     /\ UNCHANGED worker

(* startPhase(), up to its first await: the stop of the worker it replaces,  *)
(* or the look for a registered one.                                         *)
Begin(m, n, t, ph) ==
  /\ Nameable(m, n)
  /\ IF m.chain[n].handle # 0
     THEN Keep(m) /\ Go(n, [t EXCEPT !.at = "stop", !.phase = ph])
     ELSE Save(Intent(m, n, ph)) /\ Go(n, [t EXCEPT !.at = "find", !.phase = ph])

----------------------------------------------------------------------------
(* The tick: poll, visits side by side, exceptions one by one.  The log of a *)
(* thread that is gone is not read any more; what was read of it is kept.   *)
Poll ==
  /\ stage = "off"
  /\ stage' = "visit" /\ todo' = Node /\ threw' = FALSE
  /\ seen' = [h \in Handle |-> IF worker[h].st = "gone" THEN [seen[h] EXCEPT !.st = "gone"]
                              ELSE worker[h]]
  /\ UNCHANGED <<mem, disk, worker, task, file, closed, hist, counts>>

(* Promise.all has started every visit before the first one goes on.        *)
Going(n, at) == task[n].at = at /\ (stage = "visit" => todo = {})

(* A tick whose visits failed never reaches the exceptions.  It is over, in *)
(* the model, when the visits that did not throw are.                       *)
VisitsOver ==
  /\ stage = "visit" /\ todo = {} /\ Quiet
  /\ IF threw THEN stage' = "off" /\ UNCHANGED todo
     ELSE stage' = "except" /\ todo' = Node
  /\ UNCHANGED <<mem, disk, worker, seen, task, threw, file, closed, hist, counts>>

TickOver ==
  /\ stage = "except" /\ (todo = {} \/ threw) /\ Quiet
  /\ stage' = "off" /\ todo' = {}
  /\ UNCHANGED <<mem, disk, worker, seen, task, threw, file, closed, hist, counts>>

----------------------------------------------------------------------------
(* What a visit finds, in the order visit() asks.                           *)
Gone(h) == seen[h].st = "gone"
News(n) == C(n).handle # 0 /\ seen[C(n).handle].turn > C(n).cursor

(* The worker of a held chain carries on by itself: withdraw.               *)
Resumed(n) ==
  LET h == C(n).handle IN
  /\ h # 0 /\ file[n] = NoFile
  /\ seen[h].turn > X(n).cursor
  /\ IF X(n).provider THEN X(n).handler = 0 /\ seen[h].rep \notin {"error", "quota"}
     ELSE seen[h].rep \in {"done", "blocked", "limit", "waiting"}

Finds(n) ==
  IF n \in closed THEN "nothing"
  ELSE IF Pending(n) THEN (IF Resumed(n) THEN "resumed" ELSE "nothing")
  ELSE IF ~Has(n) THEN (IF Live < Budget THEN "start" ELSE "nothing")
  ELSE IF C(n).held THEN "nothing"
  ELSE IF C(n).phase = "integrate" THEN "land"
  ELSE IF C(n).handle = 0 \/ C(n).launching # 0 THEN "launch"
  ELSE IF News(n)
       THEN IF seen[C(n).handle].rep = "error" /\ seen[C(n).handle].st = "working"
            THEN "nothing" ELSE "report"
  ELSE IF Gone(C(n).handle) THEN "dead"
  ELSE IF C(n).waiting THEN "waiting" ELSE "nothing"

(* Node n is taken up: its visit starts, or goes on after a withdrawal.     *)
Visits(n, found) ==
  /\ stage = "visit"
  /\ \/ task[n].at = "rest" /\ n \in todo
     \/ Going(n, "again")
  /\ Finds(n) = found
  /\ todo' = todo \ {n}

Nothing(n) ==
  /\ Visits(n, "nothing") \/ Visits(n, "waiting")
  /\ Go(n, Rest)
  /\ UNCHANGED <<mem, disk, worker, seen, stage, threw, file, closed, hist, counts>>

Start(n) ==
  /\ Visits(n, "start")
  /\ Begin(WithC(mem, n, Fresh), n, [Rest EXCEPT !.err = "launch"], "implement")
  /\ UNCHANGED <<worker, seen, stage, threw, file, closed, hist, counts>>

Resume(n) ==
  /\ Visits(n, "launch")
  /\ Begin(mem, n, [Rest EXCEPT !.err = "tick"],
           IF C(n).to = "none" THEN C(n).phase ELSE C(n).to)
  /\ UNCHANGED <<worker, seen, stage, threw, file, closed, hist, counts>>

GoLand(n) ==
  /\ Visits(n, "land")
  /\ Go(n, [Rest EXCEPT !.at = "land", !.err = "tick"])
  /\ UNCHANGED <<mem, disk, worker, seen, stage, threw, file, closed, hist, counts>>

(* The worker is gone: another one, until it died Relaunches times.         *)
Dead(n) ==
  LET k == C(n).tries.relaunch + 1
      m == WithC(mem, n, [C(n) EXCEPT !.tries.relaunch = k]) IN
  /\ Visits(n, "dead")
  /\ IF k > Relaunches
     THEN Raising(m, n, "parent", FALSE) /\ Go(n, Rest)
     ELSE /\ Begin(m, n, [Rest EXCEPT !.err = "tick", !.then = "relaunch", !.n = k], C(n).phase)
          /\ UNCHANGED <<file, raised>>
  /\ UNCHANGED <<worker, seen, stage, threw, closed, cut, spared, counts>>

(* Three hours of waiting, or half an hour without a check.                 *)
Stall(n) ==
  /\ C(n).waiting
  /\ Visits(n, "waiting") \/ Visits(n, "dead")
  /\ Raising(mem, n, "parent", FALSE)
  /\ Go(n, Rest)
  /\ UNCHANGED <<worker, seen, stage, threw, closed, cut, spared, counts>>
Nudge(n) ==
  /\ Visits(n, "waiting")
  /\ Save(mem)
  /\ Go(n, [Rest EXCEPT !.at = "tell", !.err = "tick"])
  /\ UNCHANGED <<worker, seen, stage, threw, file, closed, hist, counts>>

(* withdraw(): the handler is retired first.                                *)
Withdraw(n) ==
  /\ Visits(n, "resumed")
  /\ Go(n, [Rest EXCEPT !.at = "withdraw"])
  /\ UNCHANGED <<mem, disk, worker, seen, stage, threw, file, closed, hist, counts>>
Withdrawn(n) ==
  LET h == X(n).handler IN
  /\ Going(n, "withdraw")
  /\ Retire(h)
  /\ Save(Unheld([mem EXCEPT !.ex[n] = NoEx], n))
  /\ file' = [file EXCEPT ![n] = NoFile]
  /\ Go(n, At(Rest, "again"))
  /\ UNCHANGED <<seen, stage, todo, threw, closed, cut, raised>>

----------------------------------------------------------------------------
(* onReport(): the cursor moves in memory before the report is acted on.    *)
Taken(n) ==
  WithC(mem, n, [C(n) EXCEPT !.cursor = seen[C(n).handle].turn, !.waiting = FALSE])
Tried(n, key) == [Taken(n) EXCEPT !.chain[n].tries[key] = @ + 1]

Reported(n, kinds) ==
  /\ Visits(n, "report")
  /\ seen[C(n).handle].rep \in kinds
  /\ UNCHANGED <<worker, seen, stage, threw, closed, cut, spared, counts>>
Acting == [Rest EXCEPT !.err = "report"]
Telling == [Acting EXCEPT !.at = "tell", !.then = "save"]
Escalates(m, n, level, provider) == Raising(m, n, level, provider) /\ Go(n, Rest)

(* A blocked worker is its owner's; a report to repair goes back, a budget   *)
(* of times; one of the tracker's rate limit does (ten times: left out).     *)
OnTrouble(n) ==
  LET rep == seen[C(n).handle].rep
      m == IF rep = "bad" THEN Tried(n, "repair") ELSE Taken(n) IN
  /\ Reported(n, {"bad", "limit", "blocked"})
  /\ IF rep = "blocked" \/ m.chain[n].tries.repair > Repairs
     THEN Escalates(m, n, "parent", FALSE)
     ELSE Keep(m) /\ Go(n, Telling) /\ UNCHANGED <<file, raised>>
OnWaiting(n) ==
  /\ Reported(n, {"waiting"})
  /\ Save([Taken(n) EXCEPT !.chain[n].waiting = TRUE]) /\ Go(n, Rest)
  /\ UNCHANGED <<file, raised>>

(* checkpoint.ts: a live worker goes on, one that is gone is replaced.      *)
OnCheckpoint(n) ==
  LET m == Tried(n, "checkpoint")
      k == m.chain[n].tries.checkpoint IN
  /\ Reported(n, {"checkpoint"})
  /\ IF k > Checkpoints THEN Escalates(m, n, "parent", FALSE)
     ELSE /\ IF Gone(C(n).handle)
             THEN Begin(m, n, [Acting EXCEPT !.then = "checkpoint", !.n = k], m.chain[n].phase)
             ELSE Keep(m) /\ Go(n, Telling)
          /\ UNCHANGED <<file, raised>>

(* A provider error: the same worker once, a fresh one once, then the owner; *)
(* one of credentials or quota goes to the owner at once.                   *)
OnError(n) ==
  LET tries == C(n).tries.provider
      m == Tried(n, "provider") IN
  /\ Reported(n, {"error", "quota"})
  /\ IF seen[C(n).handle].rep = "quota" \/ tries >= 2
     THEN Escalates(Taken(n), n, "owner", TRUE)
     ELSE /\ IF tries = 0 /\ ~Gone(C(n).handle)
             THEN Save(m) /\ Go(n, Telling)
             ELSE Begin(m, n, Acting, m.chain[n].phase)
          /\ UNCHANGED <<file, raised>>

OnDone(n) ==
  LET m == Taken(n)
      phase == m.chain[n].phase IN
  /\ Reported(n, {"done"})
  /\ IF phase = "review"
     THEN /\ Save([m EXCEPT !.chain[n].phase = "integrate"])
          /\ Go(n, At(Acting, "land"))
     ELSE Begin(m, n, Acting, IF phase = "implement" /\ n \in Driven THEN "drive" ELSE "review")
  /\ UNCHANGED <<file, raised>>

----------------------------------------------------------------------------
(* startPhase() from its first await on.  The worker that is replaced stops *)
(* first, so what it commits is in its successor's base.                    *)
Stop(n) ==
  LET h == C(n).handle IN
  /\ Going(n, "stop")
  /\ \/ /\ Nameable(mem, n)
        /\ worker' = IF worker[h].st = "working" THEN [worker EXCEPT ![h].st = "idle"] ELSE worker
        /\ Save(Intent(mem, n, task[n].phase))
        /\ Go(n, At(task[n], "find"))
        /\ UNCHANGED <<file, raised, threw, cut, counts>>
     \/ /\ Fault
        /\ IF task[n].then = "relaunch"
           THEN Raising(mem, n, "parent", FALSE) /\ Go(n, Rest) /\ UNCHANGED <<threw, cut>>
           ELSE Throw(mem, n)
        /\ UNCHANGED worker
  /\ UNCHANGED <<seen, stage, todo, closed, spared>>

(* findWorker() adopts a thread of that name.  Otherwise newThread() makes  *)
(* its worktree, and refuses one that is there already.                     *)
Find(n) ==
  LET h == C(n).launching IN
  /\ Going(n, "find")
  /\ \/ /\ Thread(h)
        /\ Go(n, At(task[n], "up"))
        /\ UNCHANGED <<mem, disk, worker, file, raised, threw, cut, counts>>
     \/ /\ worker[h].st = "none"
        /\ worker' = [worker EXCEPT ![h] = [Unborn EXCEPT !.st = "made", !.role = "worker"]]
        /\ Go(n, At(task[n], "spawn"))
        /\ UNCHANGED <<mem, disk, file, raised, threw, cut, counts>>
     \/ /\ (worker[h].st \in {"made", "gone"} /\ UNCHANGED counts) \/ Fault
        /\ Throw(mem, n)
        /\ UNCHANGED worker
  /\ UNCHANGED <<seen, stage, todo, closed, spared>>

(* launch(): a failure takes its worktree away or leaves it; one on a git   *)
(* lock is tried again under another name (here the next number).           *)
Spawn(n) ==
  LET h == C(n).launching
      next == mem.count + 1 IN
  /\ Going(n, "spawn")
  /\ \/ /\ worker' = [worker EXCEPT ![h].st = "working"]
        /\ Go(n, At(task[n], "up"))
        /\ UNCHANGED <<mem, disk, file, raised, threw, cut, counts>>
     \/ /\ Fault
        /\ \E left \in {"none", "made"} : worker' = [worker EXCEPT ![h].st = left]
        /\ Throw(mem, n)
     \/ /\ Fault /\ next <= MaxHandle
        /\ worker' = [worker EXCEPT ![next] = worker[h]]
        /\ Save([mem EXCEPT !.count = next, !.chain[n].launching = next])
        /\ UNCHANGED <<task, file, raised, threw, cut>>
  /\ UNCHANGED <<seen, stage, todo, closed, spared>>

(* A resolution from a file is done when its file is removed.               *)
Done(t) == IF t.src = "file" THEN [Rest EXCEPT !.at = "unfile"] ELSE Rest

(* The predecessor is retired, or kept for later, and the launch recorded.  *)
(* The count of relaunches, or of checkpoints, outlives the reset.          *)
Recorded(c, t) ==
  [c EXCEPT !.phase = t.phase, !.handle = c.launching, !.launching = 0, !.to = "none",
            !.cursor = 0,
            !.tries = [k \in DOMAIN NoTries |->
                         IF k = t.then THEN t.n
                         ELSE IF k \in {"integrate", "provider"} THEN c.tries[k] ELSE 0]]
Owed(c, h) == [c EXCEPT !.old = @ \cup {h}]
Up(n) ==
  LET c == C(n)
      prev == c.handle IN
  /\ Going(n, "up")
  /\ \/ /\ worker' = IF prev = 0 THEN worker ELSE [worker EXCEPT ![prev].st = "gone"]
        /\ Save(WithC(mem, n, Recorded(c, task[n])))
        /\ UNCHANGED counts
     \/ /\ prev # 0 /\ Fault
        /\ Save(WithC(mem, n, Owed(Recorded(c, task[n]), prev)))
        /\ UNCHANGED worker
  /\ Go(n, Done(task[n]))
  /\ UNCHANGED <<seen, stage, todo, threw, file, closed, hist>>

(* sendChild(), and what follows it: after a report the state is saved,     *)
(* after an answer the chain goes on from where the exception was raised.   *)
Tell(n) ==
  LET h == C(n).handle
      t == task[n] IN
  /\ Going(n, "tell")
  /\ \/ /\ Thread(h)
        /\ worker' = [worker EXCEPT ![h].st = "working"]
        /\ IF t.then = "answer" THEN Save(Unheld(WithC(mem, n, [C(n) EXCEPT !.cursor = t.n]), n))
           ELSE IF t.then = "save" THEN Save(mem) ELSE Keep(mem)
        /\ Go(n, Done(t))
        /\ UNCHANGED <<file, raised, threw, cut, counts>>
     \/ /\ (~Thread(h) /\ UNCHANGED counts) \/ Fault
        /\ Throw(mem, n)
        /\ UNCHANGED worker
  /\ UNCHANGED <<seen, stage, todo, closed, spared>>

(* integrateReview(): the landing itself is the module Landing's.  Siblings  *)
(* that implement over the files that landed are told to rebase.             *)
Land(n) ==
  LET c == C(n)
      over == {C(k).handle : k \in {j \in Node \ {n} : C(j).phase = "implement"
                                                     /\ C(j).handle # 0}}
      tries == c.tries.integrate + 1
      m == WithC(mem, n, [c EXCEPT !.phase = "review", !.tries.integrate = tries]) IN
  /\ Going(n, "land")
  /\ \/ /\ \E told \in SUBSET {h \in over : worker[h].st = "idle"} :
             worker' = [h \in Handle |->
                          IF h \in {c.handle} \cup c.old THEN [worker[h] EXCEPT !.st = "gone"]
                          ELSE IF h \in told THEN [worker[h] EXCEPT !.st = "working"] ELSE worker[h]]
        /\ Save(WithC(mem, n, Blank)) /\ Go(n, Rest)
        /\ closed' = closed \cup {n}
        /\ UNCHANGED <<file, raised>>
     \/ /\ IF tries > Integrations THEN Escalates(m, n, "parent", FALSE)
           ELSE Keep(m) /\ Go(n, [task[n] EXCEPT !.at = "tell", !.then = "save"]) /\ UNCHANGED <<file, raised>>
        /\ UNCHANGED <<worker, closed>>
  /\ UNCHANGED <<seen, stage, todo, threw, cut, spared, counts>>

----------------------------------------------------------------------------
(* applyResolution() of action a, up to its first await.  An answer needs a *)
(* worker; without one it is a retry.  A repair budget starts again.        *)
Freed(m, n) ==
  [m EXCEPT !.ex[n] = NoEx, !.chain[n].waiting = FALSE,
            !.chain[n].tries.repair = IF @ > Repairs THEN 0 ELSE @]

Apply(m, n, a, src) ==
  LET c == m.chain[n]
      t == [Rest EXCEPT !.err = "tick", !.src = src]
      answers == a = "answer" /\ c.handle # 0 /\ ~Gone(c.handle) IN
  \/ /\ a = "escalate"
     /\ Save([m EXCEPT !.ex[n].level = "owner", !.ex[n].handler = 0]) /\ Go(n, Done(t))
  \/ /\ answers
     /\ Keep(Freed(m, n))
     /\ Go(n, [t EXCEPT !.at = "tell", !.then = "answer", !.n = m.ex[n].cursor])
  \/ /\ a \in {"answer", "retry"} /\ ~answers
     /\ Begin(Unheld(Freed(m, n), n), n, t, IF c.phase = "integrate" THEN "review" ELSE c.phase)
  \/ /\ a \in {"redispatch", "move-out"}
     /\ Keep(Freed(m, n)) /\ Go(n, [t EXCEPT !.at = "discard", !.then = a])

(* retireChain(): a worker that could not be retired is forgotten.          *)
Discard(n) ==
  LET c == C(n)
      mine == {c.handle} \cup c.old
      out == task[n].then = "move-out" IN
  /\ Going(n, "discard")
  /\ \/ /\ worker' = [h \in Handle |-> IF h \in mine THEN [worker[h] EXCEPT !.st = "gone"] ELSE worker[h]]
        /\ UNCHANGED <<spared, counts>>
     \/ /\ Fault
        /\ \E h \in mine \ {0} :
             /\ Thread(h)
             /\ worker' = [k \in Handle |-> IF k \in mine \ {h} THEN [worker[k] EXCEPT !.st = "gone"]
                                            ELSE worker[k]]
             /\ spared' = spared \cup {h}
  /\ Save(WithC(mem, n, Blank))
  /\ closed' = IF out THEN closed \cup {n} ELSE closed
  /\ file' = IF out THEN [file EXCEPT ![n] = NoFile] ELSE file
  /\ Go(n, Done(task[n]))
  /\ UNCHANGED <<seen, stage, todo, threw, cut, raised>>

(* A resolution's file is removed once it is applied: a crash replays it.   *)
Unfile(n) ==
  /\ Going(n, "unfile")
  /\ file' = [file EXCEPT ![n] = NoFile]
  /\ Go(n, Rest)
  /\ UNCHANGED <<mem, disk, worker, seen, stage, todo, threw, closed, hist, counts>>

----------------------------------------------------------------------------
(* handleExceptions(), a node at a time.                                    *)
Filed(n) == file[n] # NoFile
Handled(n) == X(n).handler # 0
Takes(n) == stage = "except" /\ n \in todo /\ Quiet /\ ~threw

(* A file for a node without an exception steers its chain.                 *)
TakeSteering(n) ==
  /\ Takes(n) /\ ~Pending(n) /\ Filed(n)
  /\ IF ~Has(n) \/ file[n].act = "escalate"
     THEN Keep(mem) /\ Go(n, Rest) /\ file' = [file EXCEPT ![n] = NoFile]
     ELSE /\ Apply([mem EXCEPT !.ex[n].cursor = C(n).cursor], n, file[n].act, "file")
          /\ UNCHANGED file
  /\ todo' = todo \ {n}
  /\ UNCHANGED <<worker, seen, stage, threw, closed, hist, counts>>

(* The owner's resolution answers at any level: a handler at work retires.  *)
TakeHandover(n) ==
  /\ Takes(n) /\ Pending(n) /\ Filed(n) /\ X(n).level # "owner"
  /\ Retire(X(n).handler)
  /\ Save([mem EXCEPT !.ex[n].level = "owner", !.ex[n].handler = 0])
  /\ UNCHANGED <<seen, task, stage, todo, threw, file, closed, cut, raised>>
TakeResolution(n) ==
  /\ Takes(n) /\ Pending(n) /\ Filed(n) /\ X(n).level = "owner"
  /\ Apply(mem, n, file[n].act, "file")
  /\ todo' = todo \ {n}
  /\ UNCHANGED <<worker, seen, stage, threw, file, closed, hist, counts>>

TakeHire(n) ==
  /\ Takes(n) /\ Pending(n) /\ ~Filed(n) /\ X(n).level = "parent" /\ ~Handled(n)
  /\ Live < Budget /\ mem.count < MaxHandle
  /\ Save([mem EXCEPT !.count = @ + 1])
  /\ Go(n, [Rest EXCEPT !.at = "hire", !.err = "tick", !.n = mem.count + 1])
  /\ todo' = todo \ {n}
  /\ UNCHANGED <<worker, seen, stage, threw, file, closed, hist, counts>>
Hire(n) ==
  /\ Going(n, "hire")
  /\ \/ /\ worker' = [worker EXCEPT ![task[n].n] = [Unborn EXCEPT !.st = "working", !.role = "handler"]]
        /\ Go(n, At(task[n], "hired"))
        /\ UNCHANGED <<mem, disk, counts>>
     \/ /\ Fault
        /\ Save([mem EXCEPT !.ex[n].level = "owner"])
        /\ Go(n, Rest)
        /\ UNCHANGED worker
  /\ UNCHANGED <<seen, stage, todo, threw, file, closed, hist>>
Hired(n) ==
  /\ Going(n, "hired")
  /\ Save([mem EXCEPT !.ex[n].handler = task[n].n])
  /\ Go(n, Rest)
  /\ UNCHANGED <<worker, seen, stage, todo, threw, file, closed, hist, counts>>

(* The handler reported: it is retired, and its ruling applied unless the   *)
(* worker carries on.  One that is gone without a ruling escalates.         *)
Ruled(n) == Handled(n) /\ seen[X(n).handler].turn > 0
TakeRuling(n) ==
  /\ Takes(n) /\ Pending(n) /\ ~Filed(n) /\ X(n).level = "parent" /\ Ruled(n)
  /\ Go(n, [Rest EXCEPT !.at = "judge", !.err = "tick", !.src = "handler"])
  /\ todo' = todo \ {n}
  /\ UNCHANGED <<mem, disk, worker, seen, stage, threw, file, closed, hist, counts>>
CarriesOn(n) ==
  LET h == C(n).handle IN
  /\ h # 0 /\ ~Gone(h)
  /\ \/ seen[h].st = "working"
     \/ seen[h].turn > X(n).cursor /\ seen[h].rep \in {"done", "blocked", "limit", "waiting"}
Judge(n) ==
  LET m == [mem EXCEPT !.ex[n].handler = 0] IN
  /\ Going(n, "judge")
  /\ Retire(X(n).handler)
  /\ IF CarriesOn(n)
     THEN /\ Save(Unheld([m EXCEPT !.ex[n] = NoEx], n))
          /\ file' = [file EXCEPT ![n] = NoFile]
          /\ Go(n, Rest)
     ELSE Apply(m, n, seen[X(n).handler].rep, "handler") /\ UNCHANGED file
  /\ UNCHANGED <<seen, stage, todo, threw, closed, cut, raised>>
TakeLost(n) ==
  /\ Takes(n) /\ Pending(n) /\ ~Filed(n) /\ X(n).level = "parent"
  /\ Handled(n) /\ ~Ruled(n) /\ Gone(X(n).handler)
  /\ Apply(mem, n, "escalate", "handler")
  /\ todo' = todo \ {n}
  /\ UNCHANGED <<worker, seen, stage, threw, file, closed, hist, counts>>

TakeNothing(n) ==
  /\ Takes(n) /\ ~Filed(n)
  /\ \/ ~Pending(n)
     \/ X(n).level = "owner"
     \/ ~Handled(n) /\ Live >= Budget
     \/ Handled(n) /\ ~Ruled(n) /\ ~Gone(X(n).handler)
  /\ todo' = todo \ {n}
  /\ UNCHANGED <<mem, disk, worker, seen, task, stage, threw, file, closed, hist, counts>>

----------------------------------------------------------------------------
(* The workers, the owner and the process.  A turn that ends during a tick  *)
(* is first seen by the next one's poll, so it may as well end between them. *)
EndTurn(h, r) ==
  /\ stage \in {"off", "down"}
  /\ worker[h].st = "working" /\ worker[h].turn < MaxTurn
  /\ r \in IF worker[h].role = "handler" THEN Rulings ELSE Reports
  /\ worker' = [worker EXCEPT ![h].st = "idle", ![h].turn = @ + 1, ![h].rep = r]
  /\ UNCHANGED <<mem, disk, seen, task, stage, todo, threw, file, closed, hist, counts>>
Die(h) ==
  /\ Thread(h) /\ Fault
  /\ worker' = [worker EXCEPT ![h].st = "gone"]
  /\ UNCHANGED <<mem, disk, seen, task, stage, todo, threw, file, closed, hist>>

Asks == queued < MaxQueued /\ queued' = queued + 1 /\ UNCHANGED <<trouble, crashes>>
(* The owner writes to a held worker directly.                              *)
OwnerTells(n) ==
  LET h == C(n).handle IN
  /\ stage \in {"off", "down"} /\ C(n).held
  /\ h # 0 /\ worker[h].st = "idle" /\ Asks
  /\ worker' = [worker EXCEPT ![h].st = "working"]
  /\ UNCHANGED <<mem, disk, seen, task, stage, todo, threw, file, closed, hist>>
(* reconcile_resolve, which sees the saved state.                           *)
Queue(n, a) ==
  /\ ~Filed(n) /\ Asks
  /\ disk.chain[n].phase # "none" \/ disk.ex[n].id # 0
  /\ file' = [file EXCEPT ![n] = [act |-> a, about |-> disk.ex[n].id]]
  /\ UNCHANGED <<mem, disk, worker, seen, task, stage, todo, threw, closed, hist>>

(* The process is lost with what it had not saved; a report whose cursor    *)
(* was, by another node's save, before its worker was told is cut off, and   *)
(* a handler that was not recorded yet is known to nobody.                  *)
Unsaid(n) == task[n].at \in {"tell", "stop"} /\ disk.chain[n].cursor = C(n).cursor
Crash ==
  /\ stage # "down" /\ crashes < MaxCrash /\ trouble + crashes < MaxTrouble
  /\ crashes' = crashes + 1
  /\ mem' = disk
  /\ cut' = cut \cup {n \in Node : Unsaid(n)}
  /\ spared' = spared \cup {task[n].n : n \in {k \in Node : task[k].at = "hired"}}
  /\ task' = [n \in Node |-> Rest]
  /\ seen' = [h \in Handle |-> Unborn]
  /\ stage' = "down" /\ todo' = {} /\ threw' = FALSE
  /\ UNCHANGED <<disk, worker, file, closed, raised, trouble, queued>>
Boot ==
  /\ stage = "down"
  /\ stage' = "off"
  /\ UNCHANGED <<mem, disk, worker, seen, task, todo, threw, file, closed, hist, counts>>

Visit(n) ==
  \/ Nothing(n) \/ Start(n) \/ Resume(n) \/ GoLand(n) \/ Dead(n) \/ Stall(n) \/ Nudge(n)
  \/ Withdraw(n) \/ Withdrawn(n)
OnReport(n) ==
  \/ OnTrouble(n) \/ OnWaiting(n) \/ OnCheckpoint(n)
  \/ OnError(n) \/ OnDone(n)
StartPhase(n) == Stop(n) \/ Find(n) \/ Spawn(n) \/ Up(n) \/ Tell(n) \/ Land(n)
HandleException(n) ==
  \/ TakeSteering(n) \/ TakeHandover(n) \/ TakeResolution(n) \/ TakeHire(n) \/ Hire(n) \/ Hired(n)
  \/ TakeRuling(n) \/ Judge(n) \/ TakeLost(n) \/ TakeNothing(n) \/ Discard(n) \/ Unfile(n)

Next ==
  \/ Poll \/ VisitsOver \/ TickOver \/ Crash \/ Boot
  \/ \E n \in Node : Visit(n) \/ OnReport(n) \/ StartPhase(n) \/ HandleException(n) \/ OwnerTells(n)
  \/ \E n \in Node, a \in Rulings : Queue(n, a)
  \/ \E h \in Handle, r \in Reports \cup Rulings : EndTurn(h, r)
  \/ \E h \in Handle : Die(h)

Spec == Init /\ [][Next]_vars

----------------------------------------------------------------------------
(* Every variable has its type.                                             *)
TypeOK ==
  /\ mem.count \in 0..MaxHandle
  /\ \A n \in Node : /\ C(n).phase \in Phase \/ C(n) = Blank
                     /\ {C(n).handle, C(n).launching} \cup C(n).old \subseteq 0..MaxHandle
                     /\ X(n).level \in {"none", "parent", "owner"}
                     /\ file[n].act \in Rulings \cup {"none"}
  /\ \A h \in Handle : worker[h].st \in {"none", "made", "working", "idle", "gone"}
  /\ stage \in {"off", "visit", "except", "down"} /\ todo \subseteq Node
  /\ closed \cup cut \subseteq Node /\ spared \subseteq Handle

Between == stage = "off" /\ Quiet

(* Between two ticks a chain is held only behind an exception, or until the *)
(* resolution still queued for it is tried again: one that is held and has   *)
(* neither would wait for good.  (Except where a handler's own ruling was    *)
(* lost with the send that failed.)                                         *)
HeldIsPending ==
  Between => \A n \in Node : C(n).held => Pending(n) \/ Filed(n) \/ n \in cut

(* Nor is a worker forgotten whose report was taken up: when it is idle and *)
(* its last turn handled, it waits for its process, is held, lands, or a     *)
(* successor is on its way.  (Except where its message was cut off.)         *)
NotForgotten ==
  Between => \A n \in Node :
    LET c == C(n) IN
    c.handle # 0 /\ worker[c.handle].st = "idle" /\ worker[c.handle].turn <= c.cursor
      => c.waiting \/ c.held \/ c.phase = "integrate" \/ c.launching # 0 \/ Filed(n) \/ n \in cut

(* A queued resolution answers the exception pending when it was queued,    *)
(* never one raised later: not after a withdrawal, a crash or a replay.     *)
NeverALaterOne ==
  [][\A n \in Node : TakeResolution(n) => file[n].about = X(n).id]_vars
=============================================================================
