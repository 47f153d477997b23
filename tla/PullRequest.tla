----------------------------- MODULE PullRequest -----------------------------
(***************************************************************************)
(* A run that lands through a pull request (lib/reconcile/pull-request.ts  *)
(* and its host): the staged tree is gated, pushed, opened, repaired and   *)
(* merged while people push to the branch, move its base, review, merge or *)
(* close it.  A commit is the set of the changes it carries, so a merge is *)
(* a union and an ancestor a subset; nobody rewrites the remote's history. *)
(* A tick is cut where it asks the host or git, and may crash at any cut.  *)
(* Polling intervals, wording and diagnostics are left out.                *)
(***************************************************************************)
EXTENDS Naturals, FiniteSets, FiniteSetsExt

CONSTANTS
  Lands,          \* the landing modes a run may have captured
  Repairs,        \* REPAIRS
  Integrations,   \* INTEGRATIONS
  Reviews,        \* the reviews people may submit, each with a thread
  Kinds,          \* what they submit
  Says,           \* what a repair worker's turn may end on
  MaxHandle, MaxTurn, MaxBase, MaxTheirs, MaxEvents   \* bounds

ASSUME PullRequestAssumption ==
  /\ Lands \subseteq {"pr-merge", "pr-review"} /\ Lands # {}
  /\ Kinds \subseteq {"changes", "comment", "approve"}
  /\ Says \subseteq {"done", "bare", "waiting", "ask"}
  /\ {Repairs, Integrations, MaxHandle, MaxTurn, MaxBase, MaxTheirs,
      MaxEvents} \subseteq Nat

VARIABLES
  land,           \* the captured mode
  pr,             \* the saved receipt (PullRequestLanding)
  held,           \* an owner exception is pending on the root
  stage,          \* HEAD of the staging checkout
  repo,           \* the remote: its base branch and the run's branch
  gh,             \* the pull request at GitHub
  crew,           \* handle -> the repair worker of that name
  tick,           \* where the tick is, and what it holds in memory
  gated,          \* history: heads that passed the gates
  doubled,        \* history: a reply was posted twice
  people, trouble \* what the bounds count

vars == <<land, pr, held, stage, repo, gh, crew, tick, gated,
          doubled, people, trouble>>
hist == <<gated, doubled>>
counts == <<people, trouble>>

Handle == 1..MaxHandle
Main == <<"main", 0>>
Tree == <<"tree", 0>>
Moved(n) == <<"base", n>>
Theirs(n) == <<"theirs", n>>
Repair(h) == <<"repair", h>>
Change == {Main, Tree} \cup {Moved(n) : n \in 1..MaxBase}
            \cup {Theirs(n) : n \in 1..MaxTheirs} \cup {Repair(h) : h \in Handle}
None == {}        \* no such commit yet

NoRepair == [kind |-> "none", ids |-> {}, worker |-> 0, launch |-> 0, handled |-> 0,
             handoff |-> FALSE, prepared |-> None, pushed |-> None, retired |-> FALSE]
Unborn == [st |-> "none", turn |-> 0, says |-> "none", head |-> None, asked |-> {}]
NoSnap == [st |-> "none", head |-> None, base |-> None, ci |-> "none", merge |-> None,
           reviews |-> {}]
Rest == [at |-> "rest", snap |-> NoSnap, was |-> NoSnap,
         base |-> None, head |-> None, thread |-> {}]

R == pr.repair
Repairing == R.kind # "none"
Report == /\ R.worker # 0 /\ ~R.handoff
          /\ crew[R.worker].turn > R.handled
Green == {"none", "pass"}
Marker(t) == [thread |-> t, head |-> R.pushed]

Init ==
  /\ land \in Lands
  /\ pr = [phase |-> "opening", number |-> FALSE, prepared |-> {Main, Tree},
           pushed |-> None, base |-> {Main}, repair |-> NoRepair, repairs |-> 0,
           fails |-> 0, processed |-> {}, repaired |-> {},
           replies |-> {}, first |-> FALSE, count |-> 0]
  /\ held = FALSE
  /\ stage = {Main, Tree}
  /\ repo = [base |-> {Main}, head |-> None]
  /\ gh = [st |-> "none", ci |-> "none", merge |-> None, by |-> "none",
           reviews |-> [r \in {} |-> "none"], late |-> {}, replies |-> {}]
  /\ crew = [h \in Handle |-> Unborn]
  /\ tick = Rest
  /\ gated = {} /\ doubled = FALSE
  /\ people = 0 /\ trouble = 0

----------------------------------------------------------------------------
(* Steps of a tick.                                                         *)
At(a) == tick.at = a
Settled == {"hold", "tell", "carried", "launch", "launching", "launched", "retire", "finish",
            "finish2", "shelve", "rest"}     \* look at nothing the tick holds
Goto(a) == tick' = [IF a \in Settled THEN Rest ELSE tick EXCEPT !.at = a]
Stop == tick' = Rest
Persist(f) == pr' = f
Local == UNCHANGED <<land, stage, repo, gh, crew, gated, doubled, people>>
Calm == UNCHANGED trouble
Fault == people + trouble < MaxEvents /\ trouble' = trouble + 1

(* hold(): the save before it and the exception are two steps.              *)
Hold ==
  /\ At("hold")
  /\ held' = TRUE /\ Stop /\ Calm
  /\ UNCHANGED <<pr>> /\ Local

(* Any throw inside the tick is held for the owner.                          *)
Throws(at) ==
  /\ At(at) /\ Fault
  /\ Goto("hold")
  /\ UNCHANGED <<pr, held>> /\ Local

(* What the host answers: the request, its exact head's checks, its reviews. *)
Snapshot ==
  [st |-> gh.st, head |-> repo.head, base |-> repo.base, ci |-> gh.ci, merge |-> gh.merge,
   reviews |-> DOMAIN gh.reviews]

(* find(): all states, so an interrupted create never opens a second one.    *)
Found == gh.st # "none"

Seen == IF pr.number \/ Found THEN Snapshot ELSE NoSnap
Look(then, from, was) ==
  /\ At(from)
  /\ tick' = [Rest EXCEPT !.at = IF Seen.st \in {"none", "open"} THEN then ELSE "seen",
                          !.snap = Seen, !.was = was]
  /\ Persist([pr EXCEPT !.number = Seen.st # "none"])
  /\ Calm /\ UNCHANGED held /\ Local

(* A tick that is due, or has a report or a handoff to act on, observes.     *)
Observe == pr.phase # "merged" /\ Look("main", "rest", NoSnap)
ObserveForPush == Look("pushing", "push", IF Repairing THEN NoSnap ELSE tick.snap)
ObserveForMerge == Look("mergefetch", "merging", NoSnap)
ObserveRefused == Look("refused", "refusedlook", NoSnap)

\* Mutated form of Proven: the merge need only be in the base.
ProvenInBase(snap) == snap.merge \subseteq repo.base

(* An observed merge carries the exact prepared and pushed history.          *)
Proven(snap) ==
  /\ {Main, Tree} \cup snap.head \cup pr.prepared \cup pr.pushed \subseteq snap.merge
  /\ snap.merge \subseteq repo.base

(* terminal(), of a request that is open no more.                            *)
Judge ==
  /\ At("seen") /\ Calm
  /\ \/ /\ tick.snap.st = "closed"
        /\ Persist([pr EXCEPT !.phase = "closed"]) /\ Goto("retire")
     \/ /\ tick.snap.st = "merged" /\ Proven(tick.snap)
        /\ Persist([pr EXCEPT !.phase = "merged", !.base = repo.base]) /\ Goto("retire")
     \/ /\ tick.snap.st = "merged" /\ ~Proven(tick.snap)
        /\ Goto("hold") /\ UNCHANGED pr
  /\ UNCHANGED held /\ Local

(* retireRepair(), after an ended request or a finished repair.              *)
Retiring(after) ==
  /\ Calm /\ UNCHANGED <<held, land, stage, repo, gh>> /\ UNCHANGED hist
  /\ UNCHANGED people
  /\ IF R.worker # 0 /\ ~R.retired
     THEN /\ crew' = [crew EXCEPT ![R.worker].st = "gone"]
          /\ Persist([pr EXCEPT !.repair.retired = TRUE])
     ELSE UNCHANGED <<pr, crew>>
  /\ after
RetireEnded == At("retire") /\ Retiring(IF pr.phase = "closed" THEN Goto("hold") ELSE Stop)
RetireLanded == At("rest") /\ pr.phase = "merged" /\ R.worker # 0 /\ ~R.retired /\ Retiring(Stop)
RetireFinished == At("finish2") /\ Retiring(Goto("shelve"))

----------------------------------------------------------------------------
(* The repair worker: its report, its launch, its failures.                 *)

Lacking == R.ids # {} /\ crew[R.worker].says = "bare"
Saying == crew[R.worker].says
Heard == [pr EXCEPT !.repair.handled = crew[R.worker].turn]
Handed == [Heard EXCEPT !.repair.handoff = TRUE, !.repair.prepared = None,
                        !.repair.pushed = None]

(* An owner's exception pauses the work, not the observation.                *)
Paused == At("main") /\ held /\ Stop /\ Calm /\ UNCHANGED <<pr, held>> /\ Local

Hear ==
  /\ At("main") /\ ~held /\ Report /\ Calm
  /\ \/ Saying = "waiting" /\ Persist(Heard) /\ Stop
     \/ Saying = "ask" /\ Persist(Heard) /\ Goto("hold")
     \/ Lacking /\ UNCHANGED pr /\ Goto("hold")
     \/ Saying \in {"done", "bare"} /\ ~Lacking /\ Persist(Handed) /\ Goto("complete")
  /\ UNCHANGED held /\ Local

Route ==
  /\ At("main") /\ ~held /\ ~Report /\ Calm
  /\ Goto(IF ~Repairing THEN "fetch"
          ELSE IF R.worker = 0 THEN "launch"
          ELSE IF R.retired /\ R.pushed # None THEN "finish"
          ELSE IF R.handoff THEN "complete"
          ELSE IF crew[R.worker].st = "gone" THEN "hold"
          ELSE "rest")
  /\ UNCHANGED <<pr, held>> /\ Local

(* beginRepair(): the intent is saved before the worker is launched.         *)
Begin(kind, ids) ==
  IF pr.repairs >= Repairs
  THEN UNCHANGED pr /\ Goto("hold")
  ELSE /\ Persist([pr EXCEPT !.phase = "repairing", !.repairs = @ + 1, !.fails = 0,
                             !.repair = [NoRepair EXCEPT !.kind = kind, !.ids = ids]])
       /\ Goto("launch")

Intend ==
  /\ At("launch") /\ Calm
  /\ IF R.launch # 0 THEN UNCHANGED pr
     ELSE /\ pr.count < MaxHandle
          /\ Persist([pr EXCEPT !.count = @ + 1, !.repair.launch = pr.count + 1])
  /\ Goto("launching")
  /\ UNCHANGED held /\ Local

(* A launch interrupted after its spawn adopts the thread of its saved name. *)
Adopts(h) == crew[h].st \in {"working", "idle"}

Spawn ==
  /\ At("launching") /\ Calm
  /\ IF Adopts(R.launch) THEN UNCHANGED crew
     ELSE crew' = [crew EXCEPT ![R.launch] = [Unborn EXCEPT !.st = "working", !.head = stage,
                                                            !.asked = R.ids]]
  /\ Goto("launched")
  /\ UNCHANGED <<land, pr, held, stage, repo, gh, people>> /\ UNCHANGED hist
Launched ==
  /\ At("launched") /\ Persist([pr EXCEPT !.repair.worker = R.launch]) /\ Stop /\ Calm
  /\ UNCHANGED held /\ Local

(* integrationFailure(): recorded first, then the worker is told.            *)
IntegrationFails ==
  /\ Persist([pr EXCEPT !.fails = @ + 1, !.repair.handoff = FALSE])
  /\ Goto(IF pr.fails + 1 >= Integrations THEN "hold" ELSE "tell")

Tell ==
  /\ At("tell") /\ Calm
  /\ IF Adopts(R.worker)
     THEN crew' = [crew EXCEPT ![R.worker].st = "working"] /\ Stop
     ELSE UNCHANGED crew /\ Goto("hold")
  /\ UNCHANGED <<land, pr, held, stage, repo, gh, people>> /\ UNCHANGED hist

----------------------------------------------------------------------------
(* Staging: fetch, merge both histories, gate.                              *)
Fetched(next) == tick' = [tick EXCEPT !.at = next, !.base = repo.base, !.head = repo.head]
Same == tick.snap.st = "none" \/ (tick.snap.head = repo.head /\ tick.snap.base = repo.base)
Passed == gated' = gated \cup {stage}

(* A base that is red or still checking holds the landing.                   *)
Fetch ==
  /\ At("fetch") /\ Calm
  /\ \/ Same /\ Fetched("merge")
     \/ Stop
  /\ UNCHANGED <<pr, held>> /\ Local

Incoming == tick.base \cup tick.head
Merge ==
  /\ At("merge") /\ Calm
  /\ \/ /\ stage' = stage \cup Incoming /\ Goto("gate") /\ UNCHANGED pr
     \/ /\ ~(Incoming \subseteq stage) /\ Begin("base", {})
        /\ stage' \in {stage, stage \cup tick.head}
  /\ UNCHANGED <<land, held, repo, gh, crew, people>> /\ UNCHANGED hist

AfterGate ==
  Goto(IF stage # pr.pushed \/ tick.head = None THEN "push"
       ELSE IF pr.number THEN "checks" ELSE "open")
Gate ==
  /\ At("gate") /\ Calm
  /\ \/ /\ stage = pr.prepared /\ pr.base = tick.base /\ pr.pushed # None
        /\ UNCHANGED <<pr, gated>> /\ AfterGate
     \/ /\ stage # pr.prepared \/ pr.base # tick.base \/ pr.pushed = None
        /\ \/ /\ Persist([pr EXCEPT !.prepared = stage, !.base = tick.base,
                                    !.phase = IF pr.number THEN "waiting" ELSE "opening"])
              /\ Passed /\ AfterGate
           \/ Begin("base", {}) /\ UNCHANGED gated
  /\ UNCHANGED <<land, held, stage, repo, gh, crew, doubled, people>>

(* completeRepair(): the worker merges every history and gates, its branch   *)
(* is integrated, and what came in since is merged and gated again.          *)
Complete ==
  /\ At("complete") /\ Calm
  /\ \/ /\ R.pushed # None /\ Goto("finish")
     \/ /\ R.pushed = None /\ Same
        /\ Fetched(IF R.prepared # None /\ R.prepared \subseteq stage THEN "regate" ELSE "prepare")
     \/ /\ R.pushed = None /\ ~Same /\ Stop
  /\ UNCHANGED <<pr, held>> /\ Local

Prepare ==
  /\ At("prepare") /\ Calm
  /\ \/ /\ Adopts(R.worker)
        /\ LET h == stage \cup Incoming \cup crew[R.worker].head IN
             /\ crew' = [crew EXCEPT ![R.worker].head = h]
             /\ Persist([pr EXCEPT !.repair.prepared = h])
             /\ Goto("integrate")
     \/ IntegrationFails /\ UNCHANGED crew
  /\ UNCHANGED <<land, held, stage, repo, gh, people>> /\ UNCHANGED hist

Integrate ==
  /\ At("integrate") /\ Calm
  /\ stage' = stage \cup R.prepared /\ Goto("regate")
  /\ UNCHANGED <<land, pr, held, repo, gh, crew, people>> /\ UNCHANGED hist

Regate ==
  /\ At("regate") /\ Calm
  /\ \/ /\ stage' = stage \cup Incoming
        /\ Persist([pr EXCEPT !.prepared = stage', !.base = tick.base])
        /\ gated' = gated \cup {stage'} /\ Goto("push")
     \/ IntegrationFails /\ stage' \in {stage, stage \cup Incoming} /\ UNCHANGED gated
  /\ UNCHANGED <<land, held, repo, gh, crew, doubled, people>>

----------------------------------------------------------------------------
(* Publishing: push, open, merge.                                           *)

(* pushPrepared(): a race is a refresh, never a forced push.                 *)
Pushable ==
  /\ Same /\ repo.base = pr.base /\ repo.head \subseteq stage

Pushing ==
  /\ At("pushing") /\ Calm
  /\ IF Pushable THEN Fetched("pushgo") ELSE Stop
  /\ UNCHANGED <<pr, held>> /\ Local

Push ==
  /\ At("pushgo") /\ Calm
  /\ IF repo.head \subseteq stage
     THEN /\ repo' = [repo EXCEPT !.head = stage]
          /\ gh' = [gh EXCEPT !.ci = IF stage = repo.head THEN @ ELSE "none"]
          /\ Goto("pushed")
     ELSE Stop /\ UNCHANGED <<repo, gh>>
  /\ UNCHANGED <<land, pr, held, stage, crew, people>> /\ UNCHANGED hist

(* A refused push whose cause is no newer history goes to a repair.          *)
PushFails ==
  /\ At("pushgo") /\ Fault
  /\ IF ~(repo.head \subseteq stage) \/ repo.base # tick.base THEN Stop /\ UNCHANGED pr
     ELSE IF Repairing THEN IntegrationFails
     ELSE Begin("checks", {})
  /\ UNCHANGED held /\ Local

Pushed ==
  /\ At("pushed") /\ Calm
  /\ Persist([pr EXCEPT !.pushed = pr.prepared])
  /\ IF Repairing THEN Goto("carried")
     ELSE IF pr.number THEN tick' = [Rest EXCEPT !.at = "checks", !.snap = tick.was]
     ELSE Goto("open")
  /\ UNCHANGED held /\ Local
RepairPushed ==
  /\ At("carried") /\ Calm
  /\ Persist([pr EXCEPT !.repair.pushed = pr.pushed])
  /\ Goto(IF pr.number THEN "finish" ELSE "open")
  /\ UNCHANGED held /\ Local

Open ==
  /\ At("open") /\ Calm
  /\ gh' = IF Found THEN gh ELSE [gh EXCEPT !.st = "open"]
  /\ tick' = [Rest EXCEPT !.at = "opened", !.snap = [Snapshot EXCEPT !.st = gh'.st]]
  /\ UNCHANGED <<land, pr, held, stage, repo, crew, gated, doubled, people>>
OpenAnswerLost ==
  /\ At("open") /\ Fault /\ ~Found
  /\ gh' = [gh EXCEPT !.st = "open"]
  /\ Goto("hold")
  /\ UNCHANGED <<land, pr, held, stage, repo, crew, gated, doubled, people>>
(* mergeIfReady(), up to its own observation.                                *)
MayMerge ==
  IF land = "pr-merge" /\ ~Repairing /\ tick.snap.ci \in Green
  THEN Goto("merging") ELSE Stop
Opened ==
  /\ At("opened") /\ Calm
  /\ Persist([pr EXCEPT !.number = TRUE,
                        !.phase = IF Repairing THEN "repairing" ELSE "waiting"])
  /\ IF tick.snap.st # "open" THEN Goto("seen")
     ELSE IF Repairing THEN Goto("finish")
     ELSE MayMerge
  /\ UNCHANGED held /\ Local

\* Mutated form of Granted: a head that came after the push is as good.
GrantedAnyHead ==
  /\ tick.snap.head = repo.head /\ tick.snap.base = repo.base
  /\ tick.snap.base = pr.base /\ tick.snap.ci \in Green
(* Neither stale checks nor a moved base grants permission.                  *)
Granted ==
  /\ tick.snap.head = pr.pushed /\ tick.snap.head = repo.head
  /\ tick.snap.base = repo.base /\ tick.snap.base = pr.base
  /\ tick.snap.ci \in Green

MergeFetch ==
  /\ At("mergefetch") /\ Calm
  /\ \/ Granted /\ Goto("mergego")
     \/ Stop
  /\ UNCHANGED <<pr, held>> /\ Local

Landed(by) ==
  /\ gh' = [gh EXCEPT !.st = "merged", !.by = by, !.merge = repo.base \cup repo.head]
  /\ repo' = [repo EXCEPT !.base = @ \cup repo.head]

(* The host compares the head it is given with the branch's.                 *)
MergeRequest ==
  /\ At("mergego")
  /\ \/ /\ gh.st = "open" /\ repo.head = tick.snap.head /\ Landed("run")
        /\ \/ Stop /\ Calm
           \/ Goto("refusedlook") /\ Fault
     \/ /\ Goto("refusedlook") /\ UNCHANGED <<gh, repo>>
        /\ IF gh.st = "open" /\ repo.head = tick.snap.head THEN Fault ELSE Calm
  /\ UNCHANGED <<land, pr, held, stage, crew, people>> /\ UNCHANGED hist
Refused ==
  /\ At("refused") /\ Calm
  /\ \/ Goto("hold")
     \/ Stop
  /\ UNCHANGED <<pr, held>> /\ Local

----------------------------------------------------------------------------
(* Checks, reviews and the end of a repair.                                 *)

Known == pr.processed \cup pr.repaired
(* A submitted review that asks for changes, or comments in an open thread.  *)
(* The run's own replies, told by their marker, are consumed unread and are  *)
(* left out.                                                                 *)
Actionable(snap) == {r \in snap.reviews \ Known : gh.reviews[r] \in {"changes", "comment"}}
(* Changes requested again, after the first repair of a review.              *)
Again(ids) == pr.first /\ \E r \in ids : gh.reviews[r] = "changes" /\ r \in gh.late

Checks ==
  /\ At("checks") /\ Calm
  /\ LET ids == Actionable(tick.snap)
         seen == [pr EXCEPT !.processed = @ \cup (tick.snap.reviews \ ids)] IN
       \/ /\ tick.snap.head # pr.pushed /\ Stop /\ UNCHANGED pr
       \/ /\ tick.snap.head = pr.pushed /\ tick.snap.ci = "fail" /\ Begin("checks", {})
       \/ /\ tick.snap.head = pr.pushed /\ tick.snap.ci # "fail"
          /\ \/ land = "pr-merge" /\ MayMerge /\ UNCHANGED pr
             \/ land = "pr-review" /\ ids = {} /\ Persist(seen) /\ Stop
             \/ land = "pr-review" /\ ids # {} /\ Persist(seen)
                  /\ Goto(IF Again(ids) THEN "hold" ELSE "review")
  /\ UNCHANGED held /\ Local
Review ==
  /\ At("review") /\ Calm /\ Begin("review", Actionable(tick.snap))
  /\ UNCHANGED held /\ Local

\* Mutated form of Posted: a reply that does not look for its marker.
NeverPosted(m) == FALSE
(* reply(): an existing marker makes it a successful replay.                 *)
Posted(m) == m \in gh.replies

(* finishRepair(): one reply for each thread asked about, each recorded.     *)
Owing == {t \in R.ids : Marker(t) \notin pr.replies}
Reply ==
  /\ At("finish") /\ Calm
  /\ \E t \in Owing :
       /\ tick' = [tick EXCEPT !.at = "replied", !.thread = {t}]
       /\ IF Posted(Marker(t)) THEN UNCHANGED <<gh, doubled>>
          ELSE /\ gh' = [gh EXCEPT !.replies = @ \cup {Marker(t)}]
               /\ doubled' = (doubled \/ Marker(t) \in gh.replies)
  /\ UNCHANGED <<land, pr, held, stage, repo, crew, gated, people>>
Replied ==
  /\ At("replied") /\ Calm
  /\ Persist([pr EXCEPT !.replies = @ \cup {Marker(t) : t \in tick.thread}])
  /\ Goto("finish") /\ UNCHANGED held /\ Local
Finish ==
  /\ At("finish") /\ Calm /\ Owing = {}
  /\ Persist([pr EXCEPT !.processed = @ \cup R.ids, !.repaired = @ \cup R.ids,
                        !.first = @ \/ R.ids # {}])
  /\ Goto("finish2") /\ UNCHANGED held /\ Local
Shelve ==
  /\ At("shelve") /\ Calm
  /\ Persist([pr EXCEPT !.repair = NoRepair, !.phase = "waiting"])
  /\ Stop /\ UNCHANGED held /\ Local

(* Where the tick asks git, the host or a worker: what the world does between *)
(* two of these steps is the same as done before the second.                 *)
Asking == {"rest", "fetch", "complete", "push", "pushing", "pushgo", "open", "merging",
           "mergefetch", "mergego", "refusedlook", "finish"}
Throwing == (Asking \ {"pushgo", "mergego"}) \cup {"launching", "retire", "finish2", "tell"}

----------------------------------------------------------------------------
(* The owner, the repair workers, the people at GitHub, and crashes.        *)

(* resolvePr(): an answer goes to a live worker; otherwise its repair starts *)
(* over under a fresh name.                                                  *)
Answers == R.worker # 0 /\ Adopts(R.worker)
StartOver ==
  [pr EXCEPT !.phase = "repairing", !.fails = 0,
             !.repair = [NoRepair EXCEPT !.kind = R.kind, !.ids = R.ids]]
Resolve(action) ==
  /\ At("rest") /\ held /\ pr.phase # "merged" /\ Calm
  /\ held' = FALSE
  /\ IF action = "answer" /\ Answers
     THEN crew' = [crew EXCEPT ![R.worker].st = "working"] /\ UNCHANGED pr
     ELSE /\ crew' = IF R.worker # 0 THEN [crew EXCEPT ![R.worker].st = "gone"] ELSE crew
          /\ Persist(IF Repairing THEN StartOver
                     ELSE [pr EXCEPT !.phase = IF pr.number THEN "waiting" ELSE "opening"])
  /\ UNCHANGED <<land, stage, repo, gh, tick, people>> /\ UNCHANGED hist

Said == MapThenSumSet(LAMBDA h : crew[h].turn, Handle)
\* What a worker ends its turn on is polled when a tick starts.
EndTurn(h, says) ==
  /\ At("rest") /\ crew[h].st = "working" /\ Said < MaxTurn
  /\ crew' = [crew EXCEPT ![h].st = "idle", ![h].turn = @ + 1, ![h].says = says,
                          ![h].head = IF says \in {"done", "bare"} THEN @ \cup {Repair(h)} ELSE @]
  /\ UNCHANGED <<land, pr, held, stage, repo, gh, tick>> /\ UNCHANGED <<hist, counts>>
(* A worker that waits, for a process of its own, goes on by itself.         *)
GoesOn(h) ==
  /\ At("rest") /\ crew[h].st = "idle" /\ crew[h].says = "waiting"
  /\ crew' = [crew EXCEPT ![h].st = "working"]
  /\ UNCHANGED <<land, pr, held, stage, repo, gh, tick>> /\ UNCHANGED <<hist, counts>>
Die(h) ==
  /\ tick.at \in {"rest", "complete", "tell"} /\ Adopts(h) /\ Fault
  /\ crew' = [crew EXCEPT ![h].st = "gone"]
  /\ UNCHANGED <<land, pr, held, stage, repo, gh, tick, people>> /\ UNCHANGED hist

World == tick.at \in Asking /\ UNCHANGED <<land, pr, held, stage, crew, tick, trouble>> /\ UNCHANGED hist
Person == people + trouble < MaxEvents /\ people' = people + 1
HeadMoves ==
  /\ repo.head # None /\ gh.st = "open" /\ Person /\ World
  /\ \E n \in 1..MaxTheirs :
       /\ Theirs(n) \notin repo.head
       /\ repo' = [repo EXCEPT !.head = @ \cup {Theirs(n)}]
  /\ gh' = [gh EXCEPT !.ci = "none"]
BaseMoves ==
  /\ Person /\ World /\ UNCHANGED gh
  /\ \E n \in 1..MaxBase :
       /\ Moved(n) \notin repo.base
       /\ repo' = [repo EXCEPT !.base = @ \cup {Moved(n)}]
CI ==
  /\ gh.st = "open" /\ UNCHANGED people /\ World /\ UNCHANGED repo
  /\ \E s \in CASE gh.ci = "none" -> {"pending"}
                [] gh.ci = "pending" -> {"pass", "fail"}
                [] OTHER -> {} :
       gh' = [gh EXCEPT !.ci = s]
Submit ==
  /\ gh.st = "open" /\ Person /\ World /\ UNCHANGED repo
  /\ \E r \in Reviews \ DOMAIN gh.reviews, k \in Kinds :
       gh' = [gh EXCEPT !.reviews = [q \in DOMAIN gh.reviews \cup {r} |->
                                       IF q = r THEN k ELSE gh.reviews[q]],
                        !.late = IF pr.first THEN @ \cup {r} ELSE @]
PersonMerges == gh.st = "open" /\ Person /\ World /\ Landed("person")
PersonCloses ==
  /\ gh.st = "open" /\ Person /\ World /\ UNCHANGED repo
  /\ gh' = [gh EXCEPT !.st = "closed"]
Reopens ==
  /\ gh.st = "closed" /\ UNCHANGED people /\ World /\ UNCHANGED repo
  /\ gh' = [gh EXCEPT !.st = "open"]

(* Between two saves the process dies: the tick is gone, the receipt is not. *)
Crash ==
  /\ ~At("rest") /\ Fault
  /\ Stop
  /\ UNCHANGED <<pr, held>> /\ Local

Next ==
  \/ Observe \/ ObserveForPush \/ ObserveForMerge \/ ObserveRefused
  \/ Judge \/ RetireEnded \/ RetireLanded \/ RetireFinished
  \/ Hold \/ Paused \/ Hear \/ Route \/ Intend \/ Spawn \/ Launched \/ Tell
  \/ Fetch \/ Merge \/ Gate \/ Complete \/ Prepare \/ Integrate \/ Regate
  \/ Pushing \/ Push \/ PushFails \/ Pushed \/ RepairPushed \/ Open \/ OpenAnswerLost \/ Opened
  \/ MergeFetch \/ MergeRequest \/ Refused
  \/ Checks \/ Review \/ Reply \/ Replied \/ Finish \/ Shelve
  \/ \E a \in {"answer", "retry"} : Resolve(a)
  \/ \E h \in Handle : GoesOn(h) \/ Die(h) \/ \E s \in Says : EndTurn(h, s)
  \/ HeadMoves \/ BaseMoves \/ CI \/ Submit \/ PersonMerges \/ PersonCloses \/ Reopens
  \/ Crash
  \/ \E a \in Throwing : Throws(a)

Spec == Init /\ [][Next]_vars

----------------------------------------------------------------------------
(* Properties                                                               *)

(* The state's shape.                                                        *)
TypeOK ==
  /\ land \in Lands /\ held \in BOOLEAN
  /\ pr.phase \in {"opening", "waiting", "repairing", "merged", "closed"}
  /\ pr.prepared \subseteq Change /\ pr.pushed \subseteq Change /\ pr.base \subseteq Change
  /\ R.worker \in {0, R.launch}
  /\ stage \subseteq Change /\ repo.base \subseteq Change /\ repo.head \subseteq Change
  /\ gh.st \in {"none", "open", "closed", "merged"}

(* The run merges only in its merging mode, a head it gated itself together  *)
(* with the base it last integrated, with no repair open and no exception    *)
(* pending, after its checks were seen to pass: whoever pushed in between.   *)
MergesWhatItGated ==
  [][(gh.by # "run" /\ gh'.by = "run") =>
       /\ land = "pr-merge" /\ ~held /\ ~Repairing
       /\ repo.head \in gated /\ pr.base \subseteq repo.head
       /\ tick.snap.ci \in Green]_vars

(* A receipt that says merged is true: the base carries the tree and every   *)
(* head the run prepared or pushed, even when a person merged an older one.  *)
MergedCarriesAll ==
  pr.phase = "merged" =>
    /\ gh.st = "merged"
    /\ {Tree} \cup pr.prepared \cup pr.pushed \subseteq repo.base

(* A review counts as repaired, and its thread is answered, only once a      *)
(* worker asked about it has its commit on the branch; an answer is given    *)
(* once per pushed head, whatever is replayed.                               *)
AnsweredByPush ==
  /\ \A r \in pr.repaired \cup {m.thread : m \in gh.replies} :
       \E h \in Handle : r \in crew[h].asked /\ Repair(h) \in repo.head
  /\ \A m \in gh.replies : m.head \subseteq repo.head
  /\ ~doubled
=============================================================================
