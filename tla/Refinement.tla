----------------------------- MODULE Refinement -----------------------------
(***************************************************************************)
(* The refinement of one node of an execution tree: a writer session        *)
(* creates provisional children through the shared tracker, and the         *)
(* reconciler accepts them, hands them to a successor or takes them back    *)
(* (lib/reconcile/refinement.ts and the refine phase of                     *)
(* lib/reconcile/reconcile.ts: launch, startPhase, onReport, visit, tick).  *)
(* The stop command of lib/reconcile/main.ts runs the same operations after *)
(* it has killed the reconciler.                                            *)
(*                                                                         *)
(* Attempts are numbered by their launch handle, and an attempt's claim     *)
(* token is its number.  att, chain and stopping are the saved state: every *)
(* change is saved before the next step.  A step that throws is a Throw of  *)
(* the running task.                                                        *)
(***************************************************************************)
EXTENDS Naturals, FiniteSets

CONSTANTS
  Rows,         \* slugs the tracker may hold below the refined node
  Node,         \* the refined node
  Absent,       \* "no such row"
  Stable,       \* the run's own claim, reconcile:<root>
  Other,        \* a claim of somebody else's session
  None,         \* no claim; no report
  MaxAttempts,  \* bound: launch handles
  MaxFaults,    \* bound: failed spawns, stops, merges and tracker commands
  MaxCrashes,   \* bound: deaths of the reconciler, and first stop commands
  MaxMeddles,   \* bound: rows somebody else files or claims
  MaxTroubles   \* bound: all of these together

Handles == 1..MaxAttempts
Maybe   == 0..MaxAttempts
Claims  == Handles \cup {Stable, Other, None}

ASSUME NamesAssumption ==
  /\ Node \notin Rows /\ Absent \notin Rows \cup {Node}
  /\ {Stable, Other, None} \cap Handles = {}
  /\ Stable # Other /\ Stable # None /\ Other # None
ASSUME BoundAssumption ==
  /\ MaxAttempts \in Nat \ {0}
  /\ MaxFaults \in Nat /\ MaxCrashes \in Nat /\ MaxMeddles \in Nat /\ MaxTroubles \in Nat

VARIABLES
  up,       \* part-of of each row, or Absent
  claim,    \* claimed-by of each row
  omits,    \* the rows (and perhaps Node) that omit their own stage
  att,      \* state.refinements
  chain,    \* the node's chain
  stopping, \* a stop command has begun and not finished
  landed,   \* attempts whose prepared head the collector contains
  writer,   \* the bb thread of each launch handle
  said,     \* its report that was not handled yet
  stage,    \* where the reconciler's tick, or the stop command, is
  task,     \* the operation it is in the middle of
  faults, crashes, meddles

tracker == <<up, claim, omits>>
saved   == <<att, chain, stopping>>
threads == <<writer, said>>
bounds  == <<faults, crashes, meddles>>
vars    == <<tracker, saved, landed, threads, stage, task, bounds>>

-----------------------------------------------------------------------------
Attempt == [phase: {"none", "writing", "stopping", "cleaning", "adopting", "accepting",
                    "accepted", "removed"},
            baseline: SUBSET Rows, owned: SUBSET Rows, worker: BOOLEAN,
            successor: Maybe, children: SUBSET Rows, prepared: BOOLEAN, landed: BOOLEAN]
Chain  == [on: BOOLEAN, refinement: Maybe, launching: Maybe, handle: Maybe, held: BOOLEAN]
Report == [status: {"done", "blocked", "checkpoint"}, children: SUBSET Rows]
Task   == [op: {"none", "launch", "discard", "adopt", "accept"}, h: Maybe, step: STRING,
           rows: SUBSET Rows, row: Rows \cup {Node}, new: Maybe, adopt: BOOLEAN, caught: BOOLEAN,
           then: {"idle", "begin", "spawn", "failed", "hold", "drop"}]

NoAttempt == [phase |-> "none", baseline |-> {}, owned |-> {}, worker |-> FALSE,
              successor |-> 0, children |-> {}, prepared |-> FALSE, landed |-> FALSE]
NoChain   == [on |-> FALSE, refinement |-> 0, launching |-> 0, handle |-> 0, held |-> FALSE]
Idle      == [op |-> "none", h |-> 0, step |-> "idle", rows |-> {}, row |-> Node, new |-> 0,
              adopt |-> FALSE, caught |-> FALSE, then |-> "idle"]

Active(h)  == att[h].phase \notin {"none", "accepted", "removed"}
Threaded(h) == writer[h] \in {"working", "idle", "stopped"}
Present(r) == up[r] # Absent
Kids(p)    == {r \in Rows : up[r] = p}

(* subtree: the rows below Node, the least set closed under part-of.        *)
Below(S)  == \A r \in Rows : up[r] \in S \cup {Node} => r \in S
Subtree   == {r \in Rows : \A S \in SUBSET Rows : Below(S) => r \in S}

(* stillOwned: exact claim and not in the baseline.                        *)
Owned(h) == {r \in Subtree \ att[h].baseline : claim[r] = h}

Remembered(h) == [att EXCEPT ![h].owned = @ \cup Owned(h)]

(* The prepared head is an ancestor of the collector's.                    *)
Reached(h) == att[h].prepared /\ h \in landed

\* Mutated form of Abortable: only a saved landing forbids it.
AbortableUnlessSaved(h) ==
  att[h].phase = "accepting" =>
    /\ ~att[h].landed
    /\ \A r \in Subtree \ att[h].baseline : r \in att[h].owned => claim[r] # Stable

(* assertAbortable.                                                        *)
Abortable(h) ==
  att[h].phase = "accepting" =>
    /\ ~att[h].landed /\ ~Reached(h)
    /\ \A r \in Subtree \ att[h].baseline : r \in att[h].owned => claim[r] # Stable

(* validateAcceptance: the reported children are the node's, and every row  *)
(* of the subtree carries the claim it should.                             *)
Valid(h, children, replay) ==
  /\ Kids(Node) = children
  /\ \A r \in Subtree :
       IF r \in att[h].baseline
       THEN claim[r] \in {None, Stable}
       ELSE \/ claim[r] = h
            \/ replay /\ r \in att[h].owned /\ claim[r] = Stable

(* What counter and -r<n> suffixes give: a handle no launch has used.       *)
Used  == {h \in Handles : att[h].phase # "none" \/ h = chain.launching \/ writer[h] # "none"}
Fresh == IF Used = Handles THEN 0 ELSE CHOOSE h \in Handles \ Used : \A g \in Handles \ Used : h <= g

-----------------------------------------------------------------------------
(* Steps of a task.                                                        *)

In(op, step) == task.op = op /\ task.step = step
Goto(step)   == task' = [task EXCEPT !.step = step]
NoFault      == UNCHANGED bounds
MoreTrouble  == faults + crashes + meddles < MaxTroubles
Fault        == MoreTrouble /\ faults < MaxFaults /\ faults' = faults + 1 /\ UNCHANGED <<crashes, meddles>>
OnlyAtt      == UNCHANGED <<tracker, chain, stopping, landed, threads, stage, bounds>>

(* One operation of the visit, or one queued resolution, and the tick ends. *)
After == IF stage = "visit" THEN "between" ELSE stage

Halted(h)  == [writer EXCEPT ![h] = IF @ \in {"working", "idle"} THEN "stopped" ELSE @]
Retired(S) == [h \in Handles |-> IF h \in S /\ Threaded(h) THEN "retired" ELSE writer[h]]

(* A throw inside onReport, or of a first launch, raises an exception: the  *)
(* chain is held.  Any other ends the tick, or the stop command.           *)
Throws ==
  /\ task' = Idle
  /\ IF task.caught
     THEN chain' = [chain EXCEPT !.held = TRUE] /\ stage' = After
     ELSE /\ stage' = IF stage = "stop" THEN "down" ELSE "between"
          /\ UNCHANGED chain

(* A report that cannot be accepted is answered by a repair message, which  *)
(* starts the writer's next turn, until the repair budget is spent.        *)
Refused ==
  /\ task' = Idle
  /\ \/ stage = "recover" /\ stage' = "between" /\ UNCHANGED <<chain, threads>>
     \/ /\ stage = "visit" /\ stage' = After
        /\ said' = [said EXCEPT ![task.h] = None]
        /\ \/ /\ writer' = [writer EXCEPT ![task.h] = IF @ = "idle" THEN "working" ELSE @]
              /\ UNCHANGED chain
           \/ chain' = [chain EXCEPT !.held = TRUE] /\ UNCHANGED writer

Fails == IF task.op = "accept" THEN Refused ELSE Throws /\ UNCHANGED threads

(* A tracker, git or bb command fails before it has done anything.         *)
CommandFails ==
  /\ task.op # "none" /\ Fault /\ Fails
  /\ \/ task.step \in {"check", "stop", "prune", "pick", "write", "collect", "report",
                       "validate", "again", "land", "merge"}
     \/ task.op = "launch" /\ task.step \in {"begin", "failed"}
  /\ UNCHANGED <<tracker, att, stopping, landed>>

(* Where an operation returns to.  retireHandle may fail: a later tick      *)
(* retires the writer of an attempt that is over.                          *)
Returns ==
  CASE task.then = "begin" ->
         /\ task' = [task EXCEPT !.op = "launch", !.step = "begin"]
         /\ UNCHANGED <<chain, writer, stage>>
    [] task.then = "spawn" ->
         /\ task' = [task EXCEPT !.op = "launch", !.step = "name"]
         /\ UNCHANGED <<chain, writer, stage>>
    [] task.then = "failed" ->
         /\ task' = [task EXCEPT !.op = "launch", !.step = "failed"]
         /\ UNCHANGED <<chain, writer, stage>>
    [] task.then = "hold" ->
         /\ task' = Idle /\ chain' = [chain EXCEPT !.held = TRUE]
         /\ stage' = After /\ UNCHANGED writer
    [] task.then = "drop" ->
         /\ task' = Idle /\ chain' = NoChain /\ stage' = After
         /\ writer' \in {writer, Retired({chain.handle})}
    [] OTHER -> task' = Idle /\ stage' = After /\ UNCHANGED <<chain, writer>>

(* A row of task.rows is looked at again, and written if it is still owned. *)
Pick(h, from) ==
  \E r \in task.rows :
    IF r \in Owned(h)
    THEN task' = [task EXCEPT !.rows = @ \ {r}, !.row = r, !.step = "write"]
    ELSE task' = [task EXCEPT !.rows = @ \ {r}, !.step = from]

-----------------------------------------------------------------------------
(* discard                                                                 *)

DiscardCheck ==
  LET h == task.h IN
  /\ In("discard", "check")
  /\ \/ att[h].phase = "removed" /\ Returns /\ UNCHANGED <<att, said>>
     \/ /\ att[h].phase \in {"accepted", "adopting"} \/ ~Abortable(h)
        /\ Throws /\ UNCHANGED <<att, threads>>
     \/ /\ att[h].phase = "cleaning" /\ Goto("prune")
        /\ UNCHANGED <<att, chain, threads, stage>>
     \/ /\ att[h].phase \in {"writing", "stopping", "accepting"} /\ Abortable(h)
        /\ att' = [att EXCEPT ![h].phase = "stopping"] /\ Goto("stop")
        /\ UNCHANGED <<chain, threads, stage>>
  /\ UNCHANGED <<tracker, stopping, landed>> /\ NoFault

\* Mutated form of StopWriter: the thread is left at work.
StopWriterLater(op, next) ==
  /\ In(op, "stop") /\ Goto(next)
  /\ UNCHANGED <<tracker, saved, landed, threads, stage>> /\ NoFault

StopWriter(op, next) ==
  /\ In(op, "stop") /\ Goto(next)
  /\ writer' = Halted(task.h)
  /\ UNCHANGED <<tracker, saved, landed, said, stage>> /\ NoFault

(* cleaning is the receipt of a successful stop.                           *)
DiscardClean ==
  /\ In("discard", "clean") /\ Goto("prune")
  /\ att' = [att EXCEPT ![task.h].phase = "cleaning"]
  /\ OnlyAtt

(* A parent whose last child goes gets a stage of its own back.            *)
Restored(h, r) ==
  IF Kids(up[r]) = {r} THEN omits \ {up[r]} ELSE omits

Restorable(h, r) ==
  up[r] \in omits /\ Kids(up[r]) = {r} => up[r] = Node \/ up[r] \in Owned(h)

DiscardPrune ==
  LET h == task.h
      leaves == {r \in Owned(h) : Kids(r) = {}}
  IN
  /\ In("discard", "prune")
  /\ \/ /\ Owned(h) = {}
        /\ att' = [att EXCEPT ![h].phase = "removed"]
        /\ Returns /\ UNCHANGED <<omits, said>>
     \/ \E r \in leaves :
          /\ att' = Remembered(h)
          /\ IF Restorable(h, r)
             THEN /\ omits' = Restored(h, r)
                  /\ task' = [task EXCEPT !.rows = {r}, !.step = "pick"]
                  /\ UNCHANGED <<chain, threads, stage>>
             ELSE Throws /\ UNCHANGED <<omits, threads>>
     \/ /\ Owned(h) # {} /\ leaves = {}
        /\ att' = Remembered(h)
        /\ Throws /\ UNCHANGED <<omits, threads>>
  /\ UNCHANGED <<up, claim, stopping, landed>> /\ NoFault

DiscardPick ==
  /\ In("discard", "pick") /\ Pick(task.h, "prune")
  /\ UNCHANGED <<tracker, saved, landed, threads, stage>> /\ NoFault

(* The tracker refuses to leave an omitted stage without a child.          *)
DiscardRemove ==
  LET r == task.row IN
  /\ In("discard", "write")
  /\ IF up[r] \in omits /\ Kids(up[r]) = {r}
     THEN Throws /\ UNCHANGED <<tracker, threads>>
     ELSE /\ up' = [up EXCEPT ![r] = Absent]
          /\ claim' = [claim EXCEPT ![r] = None]
          /\ omits' = omits \ {r}
          /\ Goto("prune") /\ UNCHANGED <<chain, threads, stage>>
  /\ UNCHANGED <<att, stopping, landed>> /\ NoFault

-----------------------------------------------------------------------------
(* adopt                                                                   *)

AdoptCollect ==
  LET h == task.h
      g == att[h].successor
  IN
  /\ In("adopt", "collect")
  /\ att' = [att EXCEPT ![h].owned = @ \cup Owned(h),
                        ![g].owned = @ \cup Owned(h) \cup Owned(g)]
  /\ task' = [task EXCEPT !.rows = Owned(h), !.step = "pick"]
  /\ OnlyAtt

AdoptPick ==
  /\ In("adopt", "pick") /\ Pick(task.h, "pick")
  /\ UNCHANGED <<tracker, saved, landed, threads, stage>> /\ NoFault

AdoptTransfer ==
  /\ In("adopt", "write") /\ Goto("pick")
  /\ claim' = [claim EXCEPT ![task.row] = att[task.h].successor]
  /\ UNCHANGED <<up, omits, saved, landed, threads, stage>> /\ NoFault

AdoptDone ==
  /\ In("adopt", "pick") /\ task.rows = {}
  /\ att' = [att EXCEPT ![task.h].phase = "removed", ![att[task.h].successor].phase = "writing"]
  /\ Returns
  /\ UNCHANGED <<tracker, stopping, landed, said>> /\ NoFault

-----------------------------------------------------------------------------
(* acceptRefinement, accept and finishRefinement                           *)

AcceptReport ==
  LET h == task.h
      c == said[h].children
  IN
  /\ In("accept", "report")
  /\ IF chain.refinement = h /\ att[h].phase = "writing" /\ Valid(h, c, FALSE)
     THEN /\ att' = [Remembered(h) EXCEPT ![h].phase = "accepting", ![h].worker = TRUE,
                                          ![h].children = c]
          /\ Goto("validate") /\ UNCHANGED <<chain, threads, stage>>
     ELSE Refused /\ UNCHANGED att
  /\ UNCHANGED <<tracker, stopping, landed>> /\ NoFault

(* Both validations before the claims are converted.                       *)
AcceptValidate ==
  /\ task.op = "accept"
  /\ \E step \in {<<"validate", "land">>, <<"again", "pick">>} :
       /\ task.step = step[1]
       /\ IF Valid(task.h, att[task.h].children, TRUE)
          THEN /\ task' = [task EXCEPT !.step = step[2],
                                       !.rows = IF step[2] = "pick" THEN Owned(task.h) ELSE {}]
               /\ UNCHANGED <<chain, threads, stage>>
          ELSE Refused
  /\ UNCHANGED <<tracker, att, stopping, landed>> /\ NoFault

(* Stubs that reached the collector are recorded; others are prepared in    *)
(* the writer's checkout, that head saved, and then merged.                *)
AcceptLand ==
  LET h == task.h IN
  /\ In("accept", "land")
  /\ \/ /\ att[h].landed \/ Reached(h)
        /\ att' = [att EXCEPT ![h].landed = TRUE] /\ Goto("again")
        /\ UNCHANGED <<chain, threads, stage>>
     \/ /\ ~att[h].landed /\ ~Reached(h)
        /\ IF Threaded(h)
           THEN /\ att' = [att EXCEPT ![h].prepared = TRUE] /\ Goto("merge")
                /\ UNCHANGED <<chain, threads, stage>>
           ELSE Refused /\ UNCHANGED att
  /\ UNCHANGED <<tracker, stopping, landed>> /\ NoFault

AcceptMerge ==
  /\ In("accept", "merge") /\ Goto("land")
  /\ landed' = landed \cup {task.h}
  /\ UNCHANGED <<tracker, saved, threads, stage>> /\ NoFault

AcceptPick ==
  /\ In("accept", "pick") /\ Pick(task.h, "pick")
  /\ UNCHANGED <<tracker, saved, landed, threads, stage>> /\ NoFault

AcceptConvert ==
  /\ In("accept", "write") /\ Goto("pick")
  /\ claim' = [claim EXCEPT ![task.row] = Stable]
  /\ UNCHANGED <<up, omits, saved, landed, threads, stage>> /\ NoFault

AcceptDone ==
  LET h == task.h IN
  /\ In("accept", "pick") /\ task.rows = {}
  /\ IF Valid(h, att[h].children, TRUE)
     THEN /\ att' = [att EXCEPT ![h].phase = "accepted"]
          /\ said' = [said EXCEPT ![h] = None]
          /\ Returns
     ELSE Refused /\ UNCHANGED att
  /\ UNCHANGED <<tracker, stopping, landed>> /\ NoFault

-----------------------------------------------------------------------------
(* launch and startPhase                                                   *)

Busy(op, h, step, then, caught) ==
  task' = [Idle EXCEPT !.op = op, !.h = h, !.step = step, !.then = then, !.caught = caught]

(* startPhase stops the attempt being replaced before its successor starts. *)
Superseded ==
  IF chain.handle \in {0, chain.launching} THEN writer ELSE Halted(chain.handle)

(* The handle is saved before anything is launched; a thread already        *)
(* registered under it is adopted.                                         *)
StartPhase(resumed, adopt, caught) ==
  LET h == IF chain.launching # 0 THEN chain.launching ELSE IF resumed # 0 THEN resumed ELSE Fresh
      c == [chain EXCEPT !.on = TRUE, !.held = FALSE]
  IN
  /\ h # 0
  /\ writer' = Superseded
  /\ IF Threaded(h)
     THEN /\ chain' = [c EXCEPT !.handle = h, !.launching = 0]
          /\ said' = [said EXCEPT ![h] = None]
          /\ att' = IF chain.refinement = 0 THEN att
                    ELSE [att EXCEPT ![chain.refinement].worker = TRUE]
          /\ stage' = After /\ UNCHANGED task
     ELSE /\ chain' = [c EXCEPT !.launching = h]
          /\ task' = [Idle EXCEPT !.op = "launch", !.step = "intend", !.new = h,
                                  !.adopt = adopt, !.caught = caught]
          /\ UNCHANGED <<att, said, stage>>
  /\ UNCHANGED <<tracker, stopping, landed>> /\ NoFault

(* replaceRefinement, or beginRefinement when there is nothing to replace.  *)
LaunchIntend ==
  LET old == chain.refinement
      h == task.new
      replaced == old \notin {0, h} /\ Active(old)
      adopting == [task EXCEPT !.op = "adopt", !.h = old, !.step = "stop", !.then = "spawn"]
  IN
  /\ In("launch", "intend")
  /\ \/ /\ ~replaced /\ Goto("begin") /\ UNCHANGED <<att, chain, stage>>
     \/ /\ replaced /\ att[old].successor = h
        /\ task' = IF att[old].phase = "adopting" THEN adopting ELSE [task EXCEPT !.step = "name"]
        /\ UNCHANGED <<att, chain, stage>>
     \/ /\ replaced /\ att[old].successor \notin {0, h}
        /\ Throws /\ UNCHANGED att
     \/ /\ replaced /\ att[old].successor = 0 /\ ~task.adopt
        /\ task' = [task EXCEPT !.op = "discard", !.h = old, !.step = "check", !.then = "begin"]
        /\ UNCHANGED <<att, chain, stage>>
     \/ /\ replaced /\ att[old].successor = 0 /\ task.adopt
        /\ IF /\ att[old].phase \in {"writing", "stopping", "accepting"} /\ Abortable(old)
              /\ att[h].phase = "none"
           THEN /\ att' = [att EXCEPT
                       ![old].phase = "adopting", ![old].successor = h,
                       ![h] = [NoAttempt EXCEPT !.phase = "adopting",
                                 !.baseline = att[old].baseline, !.owned = att[old].owned]]
                /\ task' = adopting /\ UNCHANGED <<chain, stage>>
           ELSE Throws /\ UNCHANGED att
  /\ UNCHANGED <<tracker, stopping, landed, threads>> /\ NoFault

LaunchBegin ==
  LET h == task.new IN
  /\ In("launch", "begin") /\ Goto("name")
  /\ att' = IF att[h].phase # "none" THEN att
            ELSE [att EXCEPT ![h] = [NoAttempt EXCEPT !.phase = "writing", !.baseline = Subtree]]
  /\ OnlyAtt

LaunchName ==
  /\ In("launch", "name") /\ Goto("spawn")
  /\ att' = IF task.then # "begin" THEN att
            ELSE [att EXCEPT ![chain.refinement].successor = task.new]
  /\ chain' = [chain EXCEPT !.refinement = task.new]
  /\ UNCHANGED <<tracker, stopping, landed, threads, stage>> /\ NoFault

LaunchSpawn ==
  LET h == task.new IN
  /\ In("launch", "spawn") /\ Goto("receipt")
  /\ writer' = [writer EXCEPT ![h] = "working"]
  /\ said' = [said EXCEPT ![h] = None]
  /\ UNCHANGED <<tracker, saved, landed, stage>> /\ NoFault

(* The thread may have come up before the launch failed.                   *)
LaunchFails ==
  LET h == task.new IN
  /\ In("launch", "spawn") /\ Fault
  /\ writer' \in {writer, [writer EXCEPT ![h] = "working"]}
  /\ task' = [task EXCEPT !.op = "discard", !.h = h, !.step = "check", !.then = "failed"]
  /\ UNCHANGED <<tracker, saved, landed, said, stage>>

(* The failed launch's thread is retired.  A git lock is retried under a    *)
(* fresh handle; anything else is thrown.                                  *)
LaunchFailed ==
  /\ In("launch", "failed")
  /\ writer' = Retired({task.new})
  /\ \/ /\ Fresh # 0
        /\ chain' = [chain EXCEPT !.launching = Fresh]
        /\ task' = [task EXCEPT !.step = "intend", !.new = Fresh, !.adopt = FALSE, !.then = "idle"]
        /\ UNCHANGED stage
     \/ Throws
  /\ UNCHANGED <<tracker, att, stopping, landed, said>> /\ NoFault

LaunchReceipt ==
  LET h == task.new IN
  /\ In("launch", "receipt")
  /\ att' = [att EXCEPT ![h].worker = TRUE]
  /\ chain' = [chain EXCEPT !.handle = h, !.launching = 0]
  /\ writer' \in {writer, Retired({chain.handle} \ {h})}
  /\ task' = Idle /\ stage' = After
  /\ UNCHANGED <<tracker, stopping, landed, said>> /\ NoFault

-----------------------------------------------------------------------------
(* The tick: recovery, receipts and sweeps, then the visit of the node, or  *)
(* the resolution of its exception when the chain is held.                 *)

Free(at) == stage = at /\ task = Idle
Enter(at) == stage' = at /\ UNCHANGED task

(* recoverRefinements begins with observeRefinements.                      *)
BeginTick ==
  /\ Free("between") /\ Enter("recover")
  /\ att' = [h \in Handles |-> IF Active(h) THEN Remembered(h)[h] ELSE att[h]]
  /\ UNCHANGED <<tracker, chain, stopping, landed, threads>> /\ NoFault

Pending(h) ==
  \/ att[h].phase \in {"stopping", "cleaning", "accepting"}
  \/ att[h].phase = "adopting" /\ att[h].successor # 0
FirstOf(h, P(_)) == P(h) /\ \A g \in Handles : g < h => ~P(g)

Recover(h) ==
  /\ Free("recover") /\ FirstOf(h, Pending)
  /\ CASE att[h].phase = "adopting"  -> Busy("adopt", h, "stop", "idle", FALSE)
       [] att[h].phase = "accepting" -> Busy("accept", h, "validate", "idle", FALSE)
       [] OTHER                      -> Busy("discard", h, "check", "idle", FALSE)
  /\ UNCHANGED <<tracker, saved, landed, threads, stage>> /\ NoFault

(* The chain follows its attempt's successor, a thread whose receipt was    *)
(* never saved is adopted, and the writers of attempts that are over are    *)
(* retired.                                                                *)
Settle ==
  LET r  == IF chain.refinement = 0 \/ att[chain.refinement].successor = 0
            THEN chain.refinement ELSE att[chain.refinement].successor
      found == chain.on /\ r # 0 /\ att[r].phase = "writing" /\ Threaded(r)
      has == chain.on /\ r # 0 /\ (att[r].worker \/ found)
      c  == [chain EXCEPT !.refinement = r, !.handle = IF has THEN r ELSE @]
      over == {h \in Handles : /\ att[h].phase \in {"accepted", "removed"}
                               /\ att[h].worker /\ ~(chain.on /\ c.handle = h)}
  IN
  /\ Free("recover") /\ \A h \in Handles : ~Pending(h)
  /\ Enter("visit")
  /\ att' = IF found THEN [att EXCEPT ![r].worker = TRUE] ELSE att
  /\ chain' = c
  /\ said' = IF has /\ chain.handle # r THEN [said EXCEPT ![r] = None] ELSE said
  /\ \E gone \in SUBSET over : writer' = Retired(gone)
  /\ UNCHANGED <<tracker, stopping, landed>> /\ NoFault

OnVisit == Free("visit") /\ chain.on /\ ~chain.held
Accepted == chain.refinement # 0 /\ att[chain.refinement].phase = "accepted"
NoReceipt ==
  /\ chain.refinement # 0
  /\ att[chain.refinement].phase = "writing" /\ ~att[chain.refinement].worker
Launched == ~Accepted /\ ~NoReceipt /\ chain.handle # 0 /\ chain.launching = 0
Reported(status) == OnVisit /\ Launched /\ said[chain.handle] # None /\ said[chain.handle].status = status
Dead == writer[chain.handle] \in {"stopped", "retired"}
Heard == said' = [said EXCEPT ![chain.handle] = None]

(* A node without children and without a chain.                            *)
StartRefining ==
  /\ Free("visit") /\ ~chain.on
  /\ Kids(Node) = {} /\ \A h \in Handles : att[h].phase # "accepted"
  /\ StartPhase(0, FALSE, TRUE)

Deliver ==
  /\ OnVisit /\ Accepted
  /\ chain' = NoChain /\ writer' \in {writer, Retired({chain.handle})}
  /\ Enter("between")
  /\ UNCHANGED <<tracker, att, stopping, landed, said>> /\ NoFault

ResumeLaunch == OnVisit /\ NoReceipt /\ StartPhase(chain.refinement, FALSE, FALSE)

Relaunch ==
  /\ OnVisit /\ ~Accepted /\ ~NoReceipt /\ ~Launched
  /\ StartPhase(0, FALSE, FALSE)

OnDone ==
  /\ Reported("done")
  /\ Busy("accept", chain.handle, "report", "drop", TRUE)
  /\ UNCHANGED <<tracker, saved, landed, threads, stage>> /\ NoFault

OnBlocked ==
  /\ Reported("blocked") /\ Heard
  /\ Busy("discard", chain.refinement, "check", "hold", TRUE)
  /\ UNCHANGED <<tracker, saved, landed, writer, stage>> /\ NoFault

(* A checkpoint resumes its worker; one that is gone has its work adopted.  *)
OnCheckpoint ==
  /\ Reported("checkpoint")
  /\ \/ /\ Dead /\ StartPhase(0, TRUE, TRUE)
     \/ /\ ~Dead /\ Heard
        /\ writer' = [writer EXCEPT ![chain.handle] = "working"] /\ Enter("between")
        /\ UNCHANGED <<tracker, saved, landed>> /\ NoFault

OnDeath ==
  /\ OnVisit /\ Launched /\ said[chain.handle] = None /\ Dead
  /\ \/ StartPhase(0, FALSE, FALSE)
     \/ /\ Busy("discard", chain.refinement, "check", "hold", FALSE)
        /\ UNCHANGED <<tracker, saved, landed, threads, stage>> /\ NoFault

EndTick ==
  /\ Free("visit") /\ Enter("between")
  /\ \/ ~chain.on \/ chain.held
     \/ Launched /\ said[chain.handle] = None /\ ~Dead
  /\ UNCHANGED <<tracker, saved, landed, threads>> /\ NoFault

OnResolve == Free("visit") /\ chain.held

Answer ==
  /\ OnResolve /\ chain.handle # 0 /\ ~Dead
  /\ chain' = [chain EXCEPT !.held = FALSE]
  /\ writer' = [writer EXCEPT ![chain.handle] = "working"] /\ Heard
  /\ Enter("between")
  /\ UNCHANGED <<tracker, att, stopping, landed>> /\ NoFault

Retry(adopt) == OnResolve /\ StartPhase(0, adopt, FALSE)

\* Mutated form of Redispatch: the chain is dropped and its attempt left as it is.
RedispatchAtOnce ==
  /\ OnResolve
  /\ chain' = NoChain /\ writer' \in {writer, Retired({chain.handle})}
  /\ Enter("between")
  /\ UNCHANGED <<tracker, att, stopping, landed, said>> /\ NoFault

Redispatch ==
  /\ OnResolve
  /\ IF chain.refinement # 0 /\ Active(chain.refinement)
     THEN Busy("discard", chain.refinement, "check", "drop", FALSE)
          /\ UNCHANGED <<chain, writer, stage>>
     ELSE /\ chain' = NoChain /\ writer' \in {writer, Retired({chain.handle})}
          /\ Enter("between")
  /\ UNCHANGED <<tracker, att, stopping, landed, said>> /\ NoFault

-----------------------------------------------------------------------------
(* The process dies, is started again, or is stopped.                      *)

Crash ==
  /\ stage # "down" /\ stage' = "down" /\ task' = Idle
  /\ MoreTrouble /\ crashes < MaxCrashes /\ crashes' = crashes + 1
  /\ UNCHANGED <<tracker, saved, landed, threads, faults, meddles>>

Start ==
  /\ stage = "down" /\ ~stopping /\ stage' = "between"
  /\ UNCHANGED <<tracker, saved, landed, threads, task>> /\ NoFault

(* stop marks the state, kills the reconciler, and finishes adoptions and   *)
(* discards every attempt before it retires the workers.                   *)
Stop ==
  /\ stage \notin {"down", "stop"} /\ stage' = "stop" /\ task' = Idle
  /\ stopping' = TRUE
  /\ MoreTrouble /\ crashes < MaxCrashes /\ crashes' = crashes + 1
  /\ UNCHANGED <<tracker, att, chain, landed, threads, faults, meddles>>

StopAgain ==
  /\ stage = "down" /\ stopping /\ stage' = "stop"
  /\ UNCHANGED <<tracker, saved, landed, threads, task>> /\ NoFault

HalfAdopted(h) == att[h].phase = "adopting" /\ att[h].successor # 0

StopNext(h) ==
  /\ Free("stop")
  /\ \/ FirstOf(h, HalfAdopted) /\ Busy("adopt", h, "stop", "idle", FALSE)
     \/ /\ \A g \in Handles : ~HalfAdopted(g)
        /\ FirstOf(h, Active) /\ Busy("discard", h, "check", "idle", FALSE)
  /\ UNCHANGED <<tracker, saved, landed, threads, stage>> /\ NoFault

StopEnds ==
  /\ Free("stop") /\ \A h \in Handles : ~Active(h)
  /\ Enter("down")
  /\ chain' = NoChain /\ stopping' = FALSE /\ writer' = Retired(Handles)
  /\ UNCHANGED <<tracker, att, landed, said>> /\ NoFault

-----------------------------------------------------------------------------
(* The writer's session, and whoever else edits the tracker.               *)

Create(h, r, p) ==
  /\ writer[h] = "working" /\ ~Present(r) /\ p \in {Node} \cup {q \in Rows : Present(q)}
  /\ up' = [up EXCEPT ![r] = p]
  /\ claim' = [claim EXCEPT ![r] = h]
  /\ UNCHANGED <<omits, saved, landed, threads, stage, task>> /\ NoFault

Omit(h, p) ==
  /\ writer[h] = "working" /\ p \notin omits /\ Kids(p) # {}
  /\ p \in {Node} \cup {q \in Rows : claim[q] = h}
  /\ omits' = omits \cup {p}
  /\ UNCHANGED <<up, claim, saved, landed, threads, stage, task>> /\ NoFault

Says(h, status) ==
  /\ writer[h] = "working"
  /\ writer' = [writer EXCEPT ![h] = "idle"]
  /\ said' = [said EXCEPT ![h] =
       [status |-> status, children |-> IF status = "done" THEN Kids(Node) ELSE {}]]
  /\ UNCHANGED <<tracker, saved, landed, stage, task>> /\ NoFault

Dies(h) ==
  /\ writer[h] \in {"working", "idle"} /\ writer' = Halted(h)
  /\ UNCHANGED <<tracker, saved, landed, said, stage, task>> /\ NoFault

Meddle == MoreTrouble /\ meddles < MaxMeddles /\ meddles' = meddles + 1 /\ UNCHANGED <<faults, crashes>>

FileRow(r, p) ==
  /\ ~Present(r) /\ p \in {Node} \cup {q \in Rows : Present(q)} /\ Meddle
  /\ up' = [up EXCEPT ![r] = p]
  /\ UNCHANGED <<claim, omits, saved, landed, threads, stage, task>>

Reclaim(r) ==
  /\ Present(r) /\ claim[r] # Other /\ Meddle
  /\ claim' = [claim EXCEPT ![r] = Other]
  /\ UNCHANGED <<up, omits, saved, landed, threads, stage, task>>

-----------------------------------------------------------------------------
Init ==
  /\ up = [r \in Rows |-> Absent] /\ claim = [r \in Rows |-> None] /\ omits = {}
  /\ att = [h \in Handles |-> NoAttempt] /\ chain = NoChain /\ stopping = FALSE
  /\ landed = {}
  /\ writer = [h \in Handles |-> "none"] /\ said = [h \in Handles |-> None]
  /\ stage = "down" /\ task = Idle
  /\ faults = 0 /\ crashes = 0 /\ meddles = 0

Discarding == DiscardCheck \/ DiscardClean \/ DiscardPrune \/ DiscardPick \/ DiscardRemove
Adopting   == AdoptCollect \/ AdoptPick \/ AdoptTransfer \/ AdoptDone
Accepting  ==
  \/ AcceptReport \/ AcceptValidate \/ AcceptLand \/ AcceptMerge \/ AcceptPick
  \/ AcceptConvert \/ AcceptDone
Launching  ==
  \/ LaunchIntend \/ LaunchBegin \/ LaunchName \/ LaunchSpawn \/ LaunchFailed
  \/ LaunchReceipt
TaskStep ==
  \/ Discarding \/ Adopting \/ Accepting \/ Launching
  \/ StopWriter("discard", "clean") \/ StopWriter("adopt", "collect")
Visit ==
  \/ StartRefining \/ Deliver \/ ResumeLaunch \/ Relaunch \/ OnDone \/ OnBlocked
  \/ OnCheckpoint \/ OnDeath \/ EndTick
TickStep ==
  \/ Start \/ BeginTick \/ Settle \/ Visit \/ StopAgain \/ StopEnds
  \/ \E h \in Handles : Recover(h) \/ StopNext(h)
Resolve == Answer \/ Redispatch \/ \E adopt \in BOOLEAN : Retry(adopt)
Session(h) ==
  \/ \E r \in Rows, p \in Rows \cup {Node} : Create(h, r, p) \/ Omit(h, p)
  \/ \E status \in {"done", "blocked", "checkpoint"} : Says(h, status)
  \/ Dies(h)
Others ==
  \E r \in Rows : Reclaim(r) \/ \E p \in Rows \cup {Node} : FileRow(r, p)

Next ==
  \/ TaskStep \/ CommandFails \/ LaunchFails \/ TickStep \/ Resolve
  \/ Crash \/ Stop \/ Others
  \/ \E h \in Handles : Session(h)

Spec == Init /\ [][Next]_vars

(* The main loop ticks for ever, an operation under way goes on, a dead     *)
(* reconciler is started again, and a stop that failed is retried, as its   *)
(* refusal asks.  Writers and the owner owe nothing.                       *)
FairSpec == Spec /\ WF_vars(TaskStep) /\ WF_vars(TickStep)

-----------------------------------------------------------------------------
(* Properties.                                                             *)

(* Every variable keeps its type.                                          *)
TypeOK ==
  /\ up \in [Rows -> Rows \cup {Node, Absent}] /\ claim \in [Rows -> Claims]
  /\ omits \subseteq Rows \cup {Node}
  /\ att \in [Handles -> Attempt] /\ chain \in Chain /\ stopping \in BOOLEAN
  /\ landed \subseteq Handles
  /\ writer \in [Handles -> {"none", "working", "idle", "stopped", "retired"}]
  /\ said \in [Handles -> Report \cup {None}]
  /\ stage \in {"down", "between", "recover", "visit", "stop"}
  /\ task.op \in {"none", "launch", "discard", "adopt", "accept"}
  /\ task.h \in Maybe /\ task.new \in Maybe
  /\ task.rows \subseteq Rows /\ task.row \in Rows \cup {Node}

(* At most one writer of the node is at work, whatever launch was cut short *)
(* and whichever attempt replaces which.                                   *)
OneWriter == \A g, h \in Handles : writer[g] = "working" /\ writer[h] = "working" => g = h

(* The tracker row of a stub the collector already has is never given up:   *)
(* its attempt stays under acceptance until its claims are converted.      *)
StubsKeepContract == \A h \in landed : att[h].phase \in {"accepting", "accepted"}

(* A row is removed only by the cleanup of the attempt that created it, and *)
(* never under a writer at work, nor if it was accepted or handed over.     *)
RemovalIsEarned ==
  [][\A r \in Rows : up[r] # Absent /\ up'[r] = Absent =>
       \E h \in Handles :
         /\ att[h].phase = "cleaning" /\ writer[h] # "working"
         /\ r \in att[h].owned \ att[h].baseline
         /\ claim[r] \in {h, Other, None}]_vars
=============================================================================
