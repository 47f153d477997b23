--------------------------- MODULE PullRequestProofs ---------------------------
(***************************************************************************)
(* What PullRequest.tla promises, for every number of repair workers,      *)
(* reviews, moves of the base and pushes of others: a receipt that says    *)
(* merged is true, an answered review has its commit on the branch, and    *)
(* the run merges only what it gated.                                      *)
(***************************************************************************)
EXTENDS PullRequest, TLAPS

----------------------------------------------------------------------------
(* The type.                                                                *)

Labels == {"rest", "main", "seen", "hold", "tell", "fetch", "merge", "gate", "complete",
           "prepare", "integrate", "regate", "push", "pushing", "pushgo", "pushed",
           "carried", "open", "opened", "checks", "review", "merging", "mergefetch",
           "mergego", "refusedlook", "refused", "launch", "launching", "launched",
           "retire", "finish", "replied", "finish2", "shelve"}
Commits == SUBSET Change
Causes == {"none", "base", "checks", "review"}
Results == {"none", "pending", "pass", "fail"}
Stands == {"none", "open", "closed", "merged"}
Markers == [thread : Reviews, head : Commits]

RepairTypes ==
  [kind : Causes, ids : SUBSET Reviews, worker : Nat, launch : Nat, handled : Nat,
   handoff : BOOLEAN, prepared : Commits, pushed : Commits, retired : BOOLEAN]
Phases == {"opening", "waiting", "repairing", "merged", "closed"}
Receipts ==
  [phase : Phases, number : BOOLEAN,
   prepared : Commits, pushed : Commits, base : Commits, repair : RepairTypes,
   repairs : Nat, fails : Nat, processed : SUBSET Reviews, repaired : SUBSET Reviews,
   replies : SUBSET Markers, first : BOOLEAN, count : Nat]
Snaps ==
  [st : Stands, head : Commits, base : Commits, ci : Results, merge : Commits,
   reviews : SUBSET Reviews]
Ticks ==
  [at : Labels, snap : Snaps, was : Snaps, base : Commits, head : Commits,
   thread : SUBSET Reviews]
Remotes == [base : Commits, head : Commits]
Submitted == UNION {[S -> Kinds] : S \in SUBSET Reviews}
Requests ==
  [st : Stands, ci : Results, merge : Commits, by : {"none", "run", "person"},
   reviews : Submitted, late : SUBSET Reviews, replies : SUBSET Markers]
RepairWorkers ==
  [st : {"none", "working", "idle", "gone"}, turn : Nat, says : Says \cup {"none"},
   head : Commits, asked : SUBSET Reviews]

TypeInv ==
  /\ land \in Lands /\ held \in BOOLEAN
  /\ pr \in Receipts
  /\ stage \in Commits
  /\ repo \in Remotes
  /\ gh \in Requests
  /\ crew \in [Handle -> RepairWorkers]
  /\ tick \in Ticks
  /\ gated \subseteq Commits
  /\ doubled \in BOOLEAN

----------------------------------------------------------------------------
(* The invariant.                                                           *)

(* The commit of the repair under way is on the run's branch.               *)
Carried == R.worker # 0 /\ Repair(R.worker) \in repo.head

(* The handles a receipt names are its own, and an adopted worker was asked  *)
(* what the repair is about.                                                 *)
Asked ==
  /\ R.launch \in 0..pr.count /\ pr.count <= MaxHandle
  /\ R.worker \in {0, R.launch}
  /\ R.launch # 0 => Repairing
  /\ R.launch # 0 => crew[R.launch].st = "none" \/ crew[R.launch].asked = R.ids
  /\ R.worker # 0 => crew[R.worker].st # "none"
  /\ \A h \in Handle : h > pr.count => crew[h].st = "none"
  /\ \A h \in Handle : crew[h].st = "none" => crew[h].asked = {}

(* What a worker handed over carries its commit, and so does what came of    *)
(* it.                                                                       *)
Delivered ==
  /\ \A h \in Handle : crew[h].says \in {"done", "bare"} => Repair(h) \in crew[h].head
  /\ R.handoff => R.worker # 0 /\ Repair(R.worker) \in crew[R.worker].head
  /\ R.prepared # None => R.worker # 0 /\ Repair(R.worker) \in R.prepared
  /\ R.pushed # None => Carried

(* What was pushed is on the branch, what was prepared was gated and         *)
(* contains the base it was prepared on.                                     *)
Published ==
  /\ pr.pushed \subseteq repo.head /\ R.pushed \subseteq repo.head
  /\ pr.pushed # None => pr.prepared \in gated
  /\ pr.phase # "merged" => pr.base \subseteq pr.prepared

Alone == {"fetch", "merge", "gate", "checks", "review", "merging", "mergefetch", "mergego"}
Integrating == {"complete", "prepare", "integrate", "regate"}
Pushes == {"push", "pushing", "pushgo"}
Opens == {"open", "opened"}
Merges == {"merging", "mergefetch", "mergego"}

(* What holds where a tick t is, whatever people do beside it: of the        *)
(* receipt, of the staged tree, and of the permission to merge.             *)
Where(t) ==
  /\ t.at \notin {"rest", "retire", "hold"} => pr.phase # "merged"
  /\ t.at \notin {"rest", "main", "seen", "retire", "hold"} => ~held
  /\ t.at \in Alone => ~Repairing
  /\ t.at \in Integrating => R.handoff
  /\ t.at \in {"launch", "launching", "launched"} => Repairing /\ R.worker = 0
  /\ t.at \in {"launching", "launched"} => R.launch # 0
  /\ t.at = "launched" => crew[R.launch].st # "none"
  /\ t.at \in {"carried", "finish", "replied"} => Carried
  /\ t.at \in {"seen", "opened"} => (t.snap.st = "merged" => gh.st = "merged")
Staged(t) ==
  /\ t.at = "gate" => t.base \subseteq stage
  /\ t.at \in {"integrate", "regate"} => R.prepared # None
  /\ t.at = "regate" => R.prepared \subseteq stage
  /\ t.at \in Pushes =>
       /\ pr.prepared = stage /\ stage \in gated
       /\ Repairing => R.prepared # None /\ R.prepared \subseteq stage
  /\ t.at = "pushed" =>
       /\ pr.prepared \subseteq repo.head /\ pr.prepared \in gated
       /\ Repairing => Carried
  /\ t.at \in Opens /\ Repairing => Carried
  /\ t.at \in Opens \cup Merges \cup {"checks"} /\ ~Repairing =>
       pr.pushed = pr.prepared /\ pr.prepared \in gated
Granting(t) ==
  /\ t.at \in Merges => land = "pr-merge"
  /\ t.at = "mergego" =>
       t.snap.head = pr.pushed /\ t.snap.base = pr.base /\ t.snap.ci \in Green
Fits(t) == Where(t) /\ Staged(t) /\ Granting(t)

(* AnsweredByPush, of a single review.                                       *)
Answered(r) == \E h \in Handle : r \in crew[h].asked /\ Repair(h) \in repo.head
Ended == MergedCarriesAll /\ AnsweredByPush

PullRequestInv ==
  TypeInv /\ Asked /\ Delivered /\ Published /\ Fits(tick) /\ Ended

----------------------------------------------------------------------------
(* Records.  The types of the records are opened here and nowhere else.     *)

(* The fields of a receipt and of a repair, of a tick and of a snapshot.    *)
LEMMA ReceiptFields ==
  ASSUME NEW p \in Receipts
  PROVE  /\ p.phase \in Phases
         /\ p.number \in BOOLEAN
         /\ p.prepared \in Commits /\ p.pushed \in Commits /\ p.base \in Commits
         /\ p.repair \in RepairTypes
         /\ p.repairs \in Nat /\ p.fails \in Nat /\ p.count \in Nat
         /\ p.processed \subseteq Reviews /\ p.repaired \subseteq Reviews
         /\ p.replies \subseteq Markers /\ p.first \in BOOLEAN
BY DEF Receipts

LEMMA RepairFields ==
  ASSUME NEW r \in RepairTypes
  PROVE  /\ r.kind \in Causes /\ r.ids \subseteq Reviews
         /\ r.worker \in Nat /\ r.launch \in Nat /\ r.handled \in Nat
         /\ r.handoff \in BOOLEAN /\ r.prepared \in Commits /\ r.pushed \in Commits
         /\ r.retired \in BOOLEAN
BY DEF RepairTypes

(* What no invariant here reads of a receipt may be anything.               *)
Alike(p, q) ==
  /\ q.phase = p.phase /\ q.prepared = p.prepared /\ q.pushed = p.pushed
  /\ q.base = p.base /\ q.repair = p.repair /\ q.repaired = p.repaired
  /\ q.count = p.count

LEMMA AlikeFacts ==
  ASSUME NEW p \in Receipts
  PROVE  /\ \A b \in BOOLEAN : LET q == [p EXCEPT !.number = b] IN q \in Receipts /\ Alike(p, q)
         /\ \A S \in SUBSET Reviews : LET q == [p EXCEPT !.processed = S]
                                     IN q \in Receipts /\ Alike(p, q)
         /\ \A S \in SUBSET Markers : LET q == [p EXCEPT !.replies = S]
                                      IN q \in Receipts /\ Alike(p, q)
BY DEF Receipts, Alike

(* A change of the repair alone.                                            *)
LEMMA RepairFacts ==
  ASSUME NEW p \in Receipts, NEW r \in RepairTypes
  PROVE  LET q == [p EXCEPT !.repair = r]
         IN  /\ q \in Receipts /\ q.repair = r
             /\ q.phase = p.phase /\ q.prepared = p.prepared /\ q.pushed = p.pushed
             /\ q.base = p.base /\ q.repaired = p.repaired /\ q.count = p.count
BY DEF Receipts

(* A change of the phase alone.                                            *)
LEMMA PhaseFacts ==
  ASSUME NEW p \in Receipts, NEW x \in Phases
  PROVE  LET q == [p EXCEPT !.phase = x]
         IN  /\ q \in Receipts
             /\ q.phase = x /\ q.prepared = p.prepared /\ q.pushed = p.pushed /\ q.base = p.base
             /\ q.repair = p.repair /\ q.repaired = p.repaired /\ q.count = p.count
BY DEF Receipts, Phases

(* The changes of a repair.                                                 *)
LEMMA RepairUpdates ==
  ASSUME NEW r \in RepairTypes
  PROVE  /\ \A b \in BOOLEAN : LET q == [r EXCEPT !.retired = b] IN
              /\ q \in RepairTypes /\ q.kind = r.kind /\ q.ids = r.ids /\ q.worker = r.worker
              /\ q.launch = r.launch /\ q.handoff = r.handoff /\ q.prepared = r.prepared
              /\ q.pushed = r.pushed
         /\ \A n \in Nat : LET q == [r EXCEPT !.handled = n] IN
              /\ q \in RepairTypes /\ q.kind = r.kind /\ q.ids = r.ids /\ q.worker = r.worker
              /\ q.launch = r.launch /\ q.handoff = r.handoff /\ q.prepared = r.prepared
              /\ q.pushed = r.pushed
         /\ \A n \in Nat : LET q == [r EXCEPT !.launch = n] IN
              /\ q \in RepairTypes /\ q.kind = r.kind /\ q.ids = r.ids /\ q.worker = r.worker
              /\ q.launch = n /\ q.handoff = r.handoff /\ q.prepared = r.prepared
              /\ q.pushed = r.pushed
         /\ \A n \in Nat : LET q == [r EXCEPT !.worker = n] IN
              /\ q \in RepairTypes /\ q.kind = r.kind /\ q.ids = r.ids /\ q.worker = n
              /\ q.launch = r.launch /\ q.handoff = r.handoff /\ q.prepared = r.prepared
              /\ q.pushed = r.pushed
         /\ \A b \in BOOLEAN : LET q == [r EXCEPT !.handoff = b] IN
              /\ q \in RepairTypes /\ q.kind = r.kind /\ q.ids = r.ids /\ q.worker = r.worker
              /\ q.launch = r.launch /\ q.handoff = b /\ q.prepared = r.prepared
              /\ q.pushed = r.pushed
         /\ \A c \in Commits : LET q == [r EXCEPT !.prepared = c] IN
              /\ q \in RepairTypes /\ q.kind = r.kind /\ q.ids = r.ids /\ q.worker = r.worker
              /\ q.launch = r.launch /\ q.handoff = r.handoff /\ q.prepared = c
              /\ q.pushed = r.pushed
         /\ \A c \in Commits : LET q == [r EXCEPT !.pushed = c] IN
              /\ q \in RepairTypes /\ q.kind = r.kind /\ q.ids = r.ids /\ q.worker = r.worker
              /\ q.launch = r.launch /\ q.handoff = r.handoff /\ q.prepared = r.prepared
              /\ q.pushed = c
BY DEF RepairTypes

LEMMA NoneIsCommit == None \in Commits
BY DEF None, Commits

LEMMA NoRepairFacts ==
  /\ NoRepair \in RepairTypes
  /\ NoRepair.kind = "none" /\ NoRepair.worker = 0 /\ NoRepair.launch = 0
  /\ NoRepair.handoff = FALSE /\ NoRepair.prepared = None /\ NoRepair.pushed = None
  /\ NoRepair.ids = {}
BY NoneIsCommit DEF NoRepair, RepairTypes, Causes

(* The same, written into the receipt.                                      *)
LEMMA Nested ==
  ASSUME NEW p \in Receipts
  PROVE  /\ \A x : [p EXCEPT !.repair.retired = x] = [p EXCEPT !.repair = [p.repair EXCEPT !.retired = x]]
         /\ \A x : [p EXCEPT !.repair.handled = x] = [p EXCEPT !.repair = [p.repair EXCEPT !.handled = x]]
         /\ \A x : [p EXCEPT !.repair.worker = x] = [p EXCEPT !.repair = [p.repair EXCEPT !.worker = x]]
         /\ \A x : [p EXCEPT !.repair.prepared = x] = [p EXCEPT !.repair = [p.repair EXCEPT !.prepared = x]]
         /\ \A x : [p EXCEPT !.repair.pushed = x] = [p EXCEPT !.repair = [p.repair EXCEPT !.pushed = x]]
         /\ \A n, x : [p EXCEPT !.count = n, !.repair.launch = x]
                        = [p EXCEPT !.count = n, !.repair = [p.repair EXCEPT !.launch = x]]
         /\ \A n, x : [p EXCEPT !.fails = n, !.repair.handoff = x]
                        = [p EXCEPT !.fails = n, !.repair = [p.repair EXCEPT !.handoff = x]]
         /\ \A x, y, z : [p EXCEPT !.repair.handoff = x, !.repair.prepared = y, !.repair.pushed = z]
                        = [p EXCEPT !.repair = [p.repair EXCEPT !.handoff = x, !.prepared = y, !.pushed = z]]
BY DEF Receipts

(* A tick, and where it goes.                                               *)
LEMMA TickFields ==
  ASSUME NEW t \in Ticks
  PROVE  /\ t.at \in Labels /\ t.snap \in Snaps /\ t.was \in Snaps
         /\ t.base \in Commits /\ t.head \in Commits /\ t.thread \subseteq Reviews
BY DEF Ticks

LEMMA SnapFields ==
  ASSUME NEW x \in Snaps
  PROVE  /\ x.st \in Stands /\ x.head \in Commits /\ x.base \in Commits
         /\ x.ci \in Results /\ x.merge \in Commits /\ x.reviews \subseteq Reviews
BY DEF Snaps

LEMMA RestFacts == Rest \in Ticks /\ Rest.at = "rest" /\ NoSnap \in Snaps /\ NoSnap.st = "none"
<1>1. NoSnap \in Snaps /\ NoSnap.st = "none"
  BY NoneIsCommit DEF NoSnap, Snaps, Stands, Results
<1> QED BY <1>1, NoneIsCommit DEF Rest, Ticks, Labels

LEMMA AtFacts ==
  ASSUME NEW t \in Ticks, NEW a \in Labels
  PROVE  LET q == [t EXCEPT !.at = a]
         IN  /\ q \in Ticks /\ q.at = a /\ q.snap = t.snap /\ q.was = t.was
             /\ q.base = t.base /\ q.head = t.head
BY DEF Ticks

LEMMA GotoFacts ==
  ASSUME NEW a \in Labels, tick \in Ticks, Goto(a)
  PROVE  /\ tick' \in Ticks /\ tick'.at = a
         /\ a \notin Settled => /\ tick'.snap = tick.snap /\ tick'.was = tick.was
                                /\ tick'.base = tick.base /\ tick'.head = tick.head
<1>1. CASE a \in Settled
  BY <1>1, RestFacts, AtFacts DEF Goto
<1>2. CASE a \notin Settled
  BY <1>2, AtFacts DEF Goto
<1> QED BY <1>1, <1>2

LEMMA StopFacts == Stop => tick' \in Ticks /\ tick'.at = "rest"
BY RestFacts DEF Stop

(* The other records.                                                       *)
LEMMA RequestFacts ==
  ASSUME NEW g \in Requests
  PROVE  /\ g.st \in Stands /\ g.ci \in Results /\ g.merge \in Commits
         /\ g.reviews \in Submitted /\ g.late \subseteq Reviews /\ g.replies \subseteq Markers
         /\ \A x \in Stands : LET q == [g EXCEPT !.st = x]
                              IN q \in Requests /\ q.st = x /\ q.replies = g.replies /\ q.by = g.by
         /\ \A x \in Results : LET q == [g EXCEPT !.ci = x]
                               IN q \in Requests /\ q.st = g.st /\ q.replies = g.replies /\ q.by = g.by
         /\ \A x \in SUBSET Markers : LET q == [g EXCEPT !.replies = x]
                                      IN q \in Requests /\ q.st = g.st /\ q.replies = x /\ q.by = g.by
         /\ \A x \in Submitted, y \in SUBSET Reviews :
              LET q == [g EXCEPT !.reviews = x, !.late = y]
              IN q \in Requests /\ q.st = g.st /\ q.replies = g.replies /\ q.by = g.by
         /\ \A x \in {"run", "person"}, y \in Commits :
              LET q == [g EXCEPT !.st = "merged", !.by = x, !.merge = y]
              IN q \in Requests /\ q.st = "merged" /\ q.replies = g.replies /\ q.by = x
BY DEF Requests, Stands

LEMMA SubmittedFacts == \A f \in Submitted : DOMAIN f \subseteq Reviews
BY DEF Submitted

LEMMA RemoteFacts ==
  ASSUME NEW p \in Remotes
  PROVE  /\ p.base \in Commits /\ p.head \in Commits
         /\ \A x \in Commits : LET q == [p EXCEPT !.base = x]
                               IN q \in Remotes /\ q.base = x /\ q.head = p.head
         /\ \A x \in Commits : LET q == [p EXCEPT !.head = x]
                               IN q \in Remotes /\ q.head = x /\ q.base = p.base
BY DEF Remotes

(* What a worker has may grow, and what it was asked stays.                  *)
Grown(h, w, v) ==
  /\ v \in RepairWorkers
  /\ v.st = "none" <=> w.st = "none"
  /\ v.asked = w.asked /\ w.head \subseteq v.head
  /\ v.says \in {"done", "bare"} => Repair(h) \in v.head

LEMMA WorkerFacts ==
  ASSUME NEW w \in RepairWorkers, NEW h \in Handle,
         w.says \in {"done", "bare"} => Repair(h) \in w.head
  PROVE  /\ w.st \in {"none", "working", "idle", "gone"} /\ w.turn \in Nat
         /\ w.head \in Commits /\ w.asked \subseteq Reviews
         /\ Grown(h, w, w)
         /\ w.st # "none" => Grown(h, w, [w EXCEPT !.st = "gone"])
         /\ w.st # "none" => Grown(h, w, [w EXCEPT !.st = "working"])
         /\ \A c \in Commits : w.head \subseteq c => Grown(h, w, [w EXCEPT !.head = c])
<1>1. \A x \in {"gone", "working"} : LET v == [w EXCEPT !.st = x] IN
        v \in RepairWorkers /\ v.st = x /\ v.asked = w.asked /\ v.head = w.head /\ v.says = w.says
  BY DEF RepairWorkers
<1>2. \A c \in Commits : LET v == [w EXCEPT !.head = c] IN
        v \in RepairWorkers /\ v.st = w.st /\ v.asked = w.asked /\ v.head = c /\ v.says = w.says
  BY DEF RepairWorkers
<1>3. /\ w.st \in {"none", "working", "idle", "gone"} /\ w.turn \in Nat
      /\ w.head \in Commits /\ w.asked \subseteq Reviews
  BY DEF RepairWorkers
<1> HIDE DEF RepairWorkers
<1> QED BY <1>1, <1>2, <1>3 DEF Grown

(* A worker's turn ends.                                                    *)
LEMMA TurnFacts ==
  ASSUME NEW w \in RepairWorkers, NEW h \in Handle, NEW s \in Says, w.st = "working",
         w.says \in {"done", "bare"} => Repair(h) \in w.head,
         NEW c \in Commits, w.head \subseteq c, s \in {"done", "bare"} => Repair(h) \in c
  PROVE  Grown(h, w, [w EXCEPT !.st = "idle", !.turn = @ + 1, !.says = s, !.head = c])
<1> DEFINE v == [w EXCEPT !.st = "idle", !.turn = @ + 1, !.says = s, !.head = c]
<1>1. \A n \in Nat : LET u == [w EXCEPT !.st = "idle", !.turn = n, !.says = s, !.head = c]
                      IN  /\ u \in RepairWorkers /\ u.st = "idle" /\ u.asked = w.asked
                          /\ u.head = c /\ u.says = s
  BY DEF RepairWorkers
<1>2. w.turn + 1 \in Nat
  BY DEF RepairWorkers
<1>3. v \in RepairWorkers /\ v.st = "idle" /\ v.asked = w.asked /\ v.head = c /\ v.says = s
  BY <1>1, <1>2
<1> QED BY <1>3 DEF Grown

----------------------------------------------------------------------------
(* Steps that leave the receipt, the staged tree and the gates as they are  *)
(* for the invariant, while the branch, the base and the workers may grow.  *)
SameRepair(r, q) ==
  /\ q.kind = r.kind /\ q.ids = r.ids /\ q.worker = r.worker /\ q.launch = r.launch
  /\ q.handoff = r.handoff /\ q.prepared = r.prepared /\ q.pushed = r.pushed
SameReceipt ==
  /\ pr' \in Receipts
  /\ (pr'.phase = "merged") <=> (pr.phase = "merged")
  /\ pr'.prepared = pr.prepared /\ pr'.pushed = pr.pushed /\ pr'.base = pr.base
  /\ pr'.repaired = pr.repaired /\ pr'.count = pr.count
  /\ SameRepair(pr.repair, pr'.repair)
GrowingCrew ==
  /\ crew' \in [Handle -> RepairWorkers]
  /\ \A h \in Handle : Grown(h, crew[h], crew'[h])
GrowingHub ==
  /\ repo' \in Remotes /\ gh' \in Requests
  /\ repo.head \subseteq repo'.head /\ repo.base \subseteq repo'.base
  /\ gh.st = "merged" => gh'.st = "merged"
Growing ==
  /\ SameReceipt /\ GrowingCrew /\ GrowingHub
  /\ UNCHANGED <<land, stage, gated, doubled>>
  /\ held' \in BOOLEAN /\ tick' \in Ticks

LEMMA WorkerIsHandle ==
  ASSUME TypeInv, Asked
  PROVE  /\ R \in RepairTypes
         /\ R.launch # 0 => R.launch \in Handle
         /\ R.worker # 0 => R.worker \in Handle /\ R.worker = R.launch
BY PullRequestAssumption, ReceiptFields, RepairFields DEF TypeInv, Asked, R, Handle

(* What a growing step leaves of a branch that carries a repair.             *)
LEMMA AnsweredStays ==
  ASSUME TypeInv, GrowingCrew, GrowingHub, NEW r, Answered(r)
  PROVE  Answered(r)'
BY DEF Answered, GrowingCrew, GrowingHub, Grown

LEMMA GrowAsked == ASSUME TypeInv, Asked, SameReceipt, GrowingCrew PROVE Asked'
<1>1. R.launch # 0 => R.launch \in Handle
  BY WorkerIsHandle
<1>2. R.worker # 0 => R.worker \in Handle
  BY WorkerIsHandle
<1> QED BY <1>1, <1>2 DEF Asked, SameReceipt, SameRepair, GrowingCrew, Grown, R, Repairing

LEMMA GrowDelivered ==
  ASSUME TypeInv, Asked, Delivered, SameReceipt, GrowingCrew, GrowingHub PROVE Delivered'
<1>1. R.worker # 0 => R.worker \in Handle
  BY WorkerIsHandle
<1>2. \A h \in Handle : crew'[h].says \in {"done", "bare"} => Repair(h) \in crew'[h].head
  BY DEF GrowingCrew, Grown
<1>3. R.handoff => R.worker # 0 /\ Repair(R.worker) \in crew'[R.worker].head
  BY <1>1 DEF Delivered, GrowingCrew, Grown
<1>4. Carried => R.worker # 0 /\ Repair(R.worker) \in repo'.head
  BY DEF Carried, GrowingHub
<1> QED BY <1>2, <1>3, <1>4 DEF Delivered, SameReceipt, SameRepair, R, Carried

LEMMA GrowPublished ==
  ASSUME TypeInv, Published, SameReceipt, GrowingHub, gated \subseteq gated' PROVE Published'
BY DEF Published, SameReceipt, SameRepair, GrowingHub, R

LEMMA GrowEnded ==
  ASSUME TypeInv, Ended, SameReceipt, GrowingCrew, GrowingHub, doubled' = doubled,
         gh'.replies = gh.replies
  PROVE  Ended'
<1>1. MergedCarriesAll'
  BY DEF Ended, MergedCarriesAll, SameReceipt, GrowingHub
<1>2. \A r \in pr'.repaired \cup {m.thread : m \in gh'.replies} : Answered(r)
  BY DEF Ended, AnsweredByPush, Answered, SameReceipt
<1>3. \A r \in pr'.repaired \cup {m.thread : m \in gh'.replies} : Answered(r)'
  BY <1>2, AnsweredStays
<1>4. AnsweredByPush'
  BY <1>3 DEF Ended, AnsweredByPush, Answered, GrowingHub
<1> QED BY <1>1, <1>4 DEF Ended

(* What fits where a tick goes, fits there after the step.                   *)
LEMMA GrowFits ==
  ASSUME TypeInv, Asked, SameReceipt, GrowingCrew, GrowingHub,
         UNCHANGED <<land, stage, gated>>, Fits(tick'),
         held' = held \/ tick'.at \in {"rest", "hold", "retire"}
  PROVE  Fits(tick)'
<1>1. R.launch # 0 => R.launch \in Handle
  BY WorkerIsHandle
<1>2. Carried => Carried'
  BY DEF Carried, GrowingHub, SameReceipt, SameRepair, R
<1>3. R'.prepared = R.prepared /\ R'.worker = R.worker /\ R'.launch = R.launch
      /\ R'.handoff = R.handoff /\ R'.kind = R.kind
  BY DEF SameReceipt, SameRepair, R
<1>4. Repairing' <=> Repairing
  BY <1>3 DEF Repairing
<1>5. Where(tick)'
  <2>1. tick'.at = "launched" => crew'[R'.launch].st # "none"
    BY <1>1, <1>3 DEF Fits, Where, GrowingCrew, Grown
  <2> QED BY <2>1, <1>2, <1>3, <1>4 DEF Fits, Where, SameReceipt, GrowingHub
<1>6. Staged(tick)'
  BY <1>2, <1>3, <1>4 DEF Fits, Staged, SameReceipt, GrowingHub
<1>7. Granting(tick)'
  BY DEF Fits, Granting, SameReceipt
<1> QED BY <1>5, <1>6, <1>7 DEF Fits

(* So a growing step keeps the invariant if the tick goes where it fits.     *)
LEMMA GrowingStep ==
  ASSUME PullRequestInv, Growing, gh'.replies = gh.replies, Fits(tick'),
         held' = held \/ tick'.at \in {"rest", "hold", "retire"}
  PROVE  PullRequestInv'
<1> USE DEF PullRequestInv
<1>1. TypeInv'
  BY DEF TypeInv, Growing, SameReceipt, GrowingCrew, GrowingHub
<1>2. Asked'
  BY GrowAsked DEF Growing
<1>3. Delivered'
  BY GrowDelivered DEF Growing
<1>4. Published'
  BY GrowPublished DEF Growing
<1>5. Fits(tick)'
  BY GrowFits DEF Growing
<1>6. Ended'
  BY GrowEnded DEF Growing
<1> QED BY <1>1, <1>2, <1>3, <1>4, <1>5, <1>6

(* Where a tick looks at nothing, it fits.                                  *)
LEMMA FitsAtRest ==
  ASSUME NEW t, t.at \in {"rest", "hold", "retire"}
  PROVE  Fits(t)
BY DEF Fits, Where, Staged, Granting, Alone, Integrating, Pushes, Opens, Merges

----------------------------------------------------------------------------
(* The steps of a tick that only look, decide, or are cut off.              *)
LEMMA LocalGrows == ASSUME TypeInv, Delivered, Local PROVE GrowingCrew /\ GrowingHub
<1>1. \A h \in Handle : Grown(h, crew[h], crew[h])
  BY WorkerFacts DEF TypeInv, Delivered
<1> QED BY <1>1 DEF GrowingCrew, GrowingHub, Local, TypeInv

LEMMA AlikeIsSame ==
  ASSUME TypeInv, pr' = pr \/ (pr' \in Receipts /\ Alike(pr, pr')) PROVE SameReceipt
BY DEF TypeInv, Alike, SameReceipt, SameRepair

LEMMA LocalStep ==
  ASSUME PullRequestInv, Local, SameReceipt, tick' \in Ticks, held' \in BOOLEAN, Fits(tick'),
         held' = held \/ tick'.at \in {"rest", "hold", "retire"}
  PROVE  PullRequestInv'
<1>1. GrowingCrew /\ GrowingHub
  BY LocalGrows DEF PullRequestInv
<1>2. Growing
  BY <1>1 DEF Growing, Local
<1>3. gh'.replies = gh.replies
  BY DEF Local
<1> QED BY <1>2, <1>3, GrowingStep

(* The same with the receipt as it was.                                     *)
LEMMA IdleStep ==
  ASSUME PullRequestInv, Local, pr' = pr, held' = held, tick' \in Ticks, Fits(tick')
  PROVE  PullRequestInv'
BY LocalStep, AlikeIsSame DEF PullRequestInv, TypeInv

LEMMA HoldStep == ASSUME PullRequestInv, Hold PROVE PullRequestInv'
<1>1. tick' \in Ticks /\ tick'.at = "rest"
  BY StopFacts DEF Hold
<1> QED BY <1>1, LocalStep, FitsAtRest, AlikeIsSame DEF Hold, PullRequestInv

LEMMA ThrowsStep == ASSUME PullRequestInv, NEW a, Throws(a) PROVE PullRequestInv'
<1>1. tick' \in Ticks /\ tick'.at = "hold"
  BY GotoFacts DEF Throws, PullRequestInv, TypeInv, Labels
<1> QED BY <1>1, IdleStep, FitsAtRest DEF Throws

LEMMA CrashStep == ASSUME PullRequestInv, Crash PROVE PullRequestInv'
<1>1. tick' \in Ticks /\ tick'.at = "rest"
  BY StopFacts DEF Crash
<1> QED BY <1>1, IdleStep, FitsAtRest DEF Crash

LEMMA PausedStep == ASSUME PullRequestInv, Paused PROVE PullRequestInv'
<1>1. tick' \in Ticks /\ tick'.at = "rest"
  BY StopFacts DEF Paused
<1> QED BY <1>1, IdleStep, FitsAtRest DEF Paused

(* An observation goes on where it may, or to the end it saw.                *)
LEMMA SeenFacts == TypeInv => Seen \in Snaps /\ (Seen.st = "merged" => gh.st = "merged")
<1>1. TypeInv => Snapshot \in Snaps /\ Snapshot.st = gh.st
  BY RequestFacts, RemoteFacts, SubmittedFacts DEF TypeInv, Snapshot, Snaps
<1> QED BY <1>1, RestFacts DEF Seen

LEMMA LookStep ==
  ASSUME PullRequestInv, NEW then \in Labels, NEW from, NEW was \in Snaps,
         Look(then, from, was), pr.phase # "merged", \A t : t.at = then => Fits(t)
  PROVE  PullRequestInv'
<1> DEFINE a == IF Seen.st \in {"none", "open"} THEN then ELSE "seen"
<1>a. a \in Labels /\ a \in {then, "seen"}
  BY DEF Labels
<1>b. Seen \in Snaps
  BY SeenFacts DEF PullRequestInv
<1>c. tick' = [Rest EXCEPT !.at = a, !.snap = Seen, !.was = was]
  BY DEF Look
<1> HIDE DEF a
<1>1. tick' \in Ticks /\ tick'.at \in {then, "seen"} /\ tick'.snap = Seen
  BY <1>a, <1>b, <1>c, RestFacts DEF Ticks
<1>2. Fits(tick')
  <2>1. CASE tick'.at = then
    BY <2>1
  <2>2. CASE tick'.at = "seen"
    BY <2>2, <1>1, SeenFacts
    DEF PullRequestInv, Fits, Where, Staged, Granting, Alone, Integrating, Pushes, Opens, Merges
  <2> QED BY <1>1, <2>1, <2>2
<1>3. pr' = [pr EXCEPT !.number = Seen.st # "none"]
  BY DEF Look, Persist
<1>4. SameReceipt
  BY <1>3, AlikeFacts, AlikeIsSame DEF PullRequestInv, TypeInv
<1> QED BY <1>1, <1>2, <1>4, LocalStep DEF Look, PullRequestInv, TypeInv

LEMMA ObserveStep == ASSUME PullRequestInv, Observe PROVE PullRequestInv'
<1>1. \A t : t.at = "main" => Fits(t)
  BY DEF Observe, Fits, Where, Staged, Granting, Alone, Integrating, Pushes, Opens, Merges
<1> QED BY <1>1, LookStep, RestFacts DEF Observe, Labels

LEMMA ObserveForPushStep == ASSUME PullRequestInv, ObserveForPush PROVE PullRequestInv'
<1>1. tick.at = "push"
  BY DEF ObserveForPush, Look, At
<1>2. pr.phase # "merged" /\ \A t : t.at = "pushing" => Fits(t)
  BY <1>1 DEF PullRequestInv, Fits, Where, Staged, Granting, Alone, Integrating, Pushes, Opens, Merges
<1>3. (IF Repairing THEN NoSnap ELSE tick.snap) \in Snaps
  BY RestFacts, TickFields DEF PullRequestInv, TypeInv
<1> QED BY <1>2, <1>3, LookStep DEF ObserveForPush, Labels

LEMMA ObserveForMergeStep == ASSUME PullRequestInv, ObserveForMerge PROVE PullRequestInv'
<1>1. tick.at = "merging"
  BY DEF ObserveForMerge, Look, At
<1>2. pr.phase # "merged" /\ \A t : t.at = "mergefetch" => Fits(t)
  BY <1>1 DEF PullRequestInv, Fits, Where, Staged, Granting, Alone, Integrating, Pushes, Opens, Merges
<1> QED BY <1>2, RestFacts, LookStep DEF ObserveForMerge, Labels

LEMMA ObserveRefusedStep == ASSUME PullRequestInv, ObserveRefused PROVE PullRequestInv'
<1>1. tick.at = "refusedlook"
  BY DEF ObserveRefused, Look, At
<1>2. pr.phase # "merged" /\ \A t : t.at = "refused" => Fits(t)
  BY <1>1 DEF PullRequestInv, Fits, Where, Staged, Granting, Alone, Integrating, Pushes, Opens, Merges
<1> QED BY <1>2, RestFacts, LookStep DEF ObserveRefused, Labels

(* What a step that only decides must know of where it is.                   *)
LEMMA RouteStep == ASSUME PullRequestInv, Route PROVE PullRequestInv'
<1>1. PICK a \in {"fetch", "launch", "finish", "complete", "hold", "rest"} :
         /\ Goto(a) /\ tick.at = "main" /\ ~held
         /\ a = "fetch" => ~Repairing
         /\ a = "launch" => Repairing /\ R.worker = 0
         /\ a = "finish" => R.pushed # None
         /\ a = "complete" => R.handoff
  BY DEF Route, At
<1>2. tick' \in Ticks /\ tick'.at = a
  BY <1>1, GotoFacts DEF PullRequestInv, TypeInv, Labels
<1>3. Fits(tick')
  BY <1>1, <1>2
  DEF PullRequestInv, Delivered, Fits, Where, Staged, Granting, Alone, Integrating, Pushes, Opens, Merges
<1> QED BY <1>2, <1>3, IdleStep DEF Route

LEMMA FetchedFacts ==
  ASSUME TypeInv, NEW a \in Labels, Fetched(a)
  PROVE  /\ tick' \in Ticks /\ tick'.at = a /\ tick'.snap = tick.snap
         /\ tick'.base = repo.base /\ tick'.head = repo.head
<1>1. repo.base \in Commits /\ repo.head \in Commits
  BY RemoteFacts DEF TypeInv
<1> QED BY <1>1 DEF TypeInv, Fetched, Ticks

LEMMA FetchStep == ASSUME PullRequestInv, Fetch PROVE PullRequestInv'
<1>1. tick.at = "fetch" /\ (Fetched("merge") \/ Stop)
  BY DEF Fetch, At
<1>2. tick' \in Ticks /\ tick'.at \in {"merge", "rest"}
  BY <1>1, FetchedFacts, StopFacts DEF PullRequestInv, Labels
<1>3. Fits(tick')
  BY <1>1, <1>2
  DEF PullRequestInv, Fits, Where, Staged, Granting, Alone, Integrating, Pushes, Opens, Merges
<1> QED BY <1>2, <1>3, IdleStep DEF Fetch

LEMMA CompleteStep == ASSUME PullRequestInv, Complete PROVE PullRequestInv'
<1>1. PICK a \in {"finish", "regate", "prepare", "rest"} :
         /\ tick' \in Ticks /\ tick'.at = a /\ tick.at = "complete"
         /\ a = "finish" => R.pushed # None
         /\ a = "regate" => R.prepared # None /\ R.prepared \subseteq stage
  <2>1. CASE R.pushed # None /\ Goto("finish")
    BY <2>1, GotoFacts DEF Complete, At, PullRequestInv, TypeInv, Labels
  <2>2. CASE Fetched(IF R.prepared # None /\ R.prepared \subseteq stage THEN "regate" ELSE "prepare")
    BY <2>2, FetchedFacts DEF Complete, At, PullRequestInv, Labels
  <2>3. CASE Stop
    BY <2>3, StopFacts DEF Complete, At
  <2> QED BY <2>1, <2>2, <2>3 DEF Complete
<1>2. Fits(tick')
  BY <1>1
  DEF PullRequestInv, Delivered, Fits, Where, Staged, Granting, Alone, Integrating, Pushes, Opens, Merges
<1> QED BY <1>1, <1>2, IdleStep DEF Complete

LEMMA PushingStep == ASSUME PullRequestInv, Pushing PROVE PullRequestInv'
<1>1. tick.at = "pushing" /\ (Fetched("pushgo") \/ Stop)
  BY DEF Pushing, At
<1>2. tick' \in Ticks /\ tick'.at \in {"pushgo", "rest"}
  BY <1>1, FetchedFacts, StopFacts DEF PullRequestInv, Labels
<1>3. Fits(tick')
  BY <1>1, <1>2
  DEF PullRequestInv, Fits, Where, Staged, Granting, Alone, Integrating, Pushes, Opens, Merges
<1> QED BY <1>2, <1>3, IdleStep DEF Pushing

LEMMA MergeFetchStep == ASSUME PullRequestInv, MergeFetch PROVE PullRequestInv'
<1>1. tick.at = "mergefetch" /\ ((Granted /\ Goto("mergego")) \/ Stop)
  BY DEF MergeFetch, At
<1>2. /\ tick' \in Ticks /\ tick'.at \in {"mergego", "rest"}
      /\ tick'.at = "mergego" => Granted /\ tick'.snap = tick.snap
  BY <1>1, GotoFacts, StopFacts DEF PullRequestInv, TypeInv, Labels, Settled
<1>3. Fits(tick')
  BY <1>1, <1>2
  DEF PullRequestInv, Granted, Fits, Where, Staged, Granting, Alone, Integrating, Pushes, Opens, Merges
<1> QED BY <1>2, <1>3, IdleStep DEF MergeFetch

LEMMA RefusedStep == ASSUME PullRequestInv, Refused PROVE PullRequestInv'
<1>1. tick' \in Ticks /\ tick'.at \in {"hold", "rest"}
  BY GotoFacts, StopFacts DEF Refused, PullRequestInv, TypeInv, Labels
<1> QED BY <1>1, FitsAtRest, IdleStep DEF Refused

(* Steps that also save something no invariant reads, or end the request.   *)
LEMMA JudgeStep == ASSUME PullRequestInv, Judge PROVE PullRequestInv'
<1> USE DEF PullRequestInv
<1>1. tick.at = "seen" /\ tick.snap \in Snaps /\ pr.phase # "merged"
  BY TickFields DEF Judge, At, TypeInv, Fits, Where
<1>2. tick' \in Ticks /\ tick'.at \in {"retire", "hold"} /\ held' = held /\ Local
  BY GotoFacts DEF Judge, TypeInv, Labels
<1>3. Fits(tick')
  BY <1>2, FitsAtRest
<1>4. CASE pr' = [pr EXCEPT !.phase = "closed"]
  <2>1. SameReceipt
    BY <1>1, <1>4, PhaseFacts DEF TypeInv, Phases, SameReceipt, SameRepair
  <2> QED BY <2>1, <1>2, <1>3, LocalStep DEF TypeInv
<1>5. CASE UNCHANGED pr
  BY <1>5, <1>2, <1>3, IdleStep
<1>6. CASE /\ tick.snap.st = "merged" /\ Proven(tick.snap)
           /\ pr' = [pr EXCEPT !.phase = "merged", !.base = repo.base]
  <2>1. /\ pr' \in Receipts /\ pr'.phase = "merged" /\ pr'.prepared = pr.prepared
        /\ pr'.pushed = pr.pushed /\ pr'.repair = pr.repair
        /\ pr'.repaired = pr.repaired /\ pr'.count = pr.count
    BY <1>6, RemoteFacts DEF TypeInv, Receipts, Phases
  <2>2. TypeInv'
    BY <2>1, <1>2 DEF TypeInv, Local
  <2>3. Asked' /\ Delivered'
    BY <2>1, <1>2 DEF Asked, Delivered, Local, R, Repairing, Carried
  <2>4. Published'
    BY <2>1, <1>2 DEF Published, Local, R
  <2>5. Fits(tick)'
    BY <1>2 DEF Fits, Where, Staged, Granting, Alone, Integrating, Pushes, Opens, Merges
  <2>6. MergedCarriesAll'
    BY <2>1, <1>1, <1>2, <1>6
    DEF MergedCarriesAll, Local, Fits, Where, Proven
  <2>7. AnsweredByPush'
    BY <2>1, <1>2 DEF Ended, AnsweredByPush, Local
  <2> QED BY <2>2, <2>3, <2>4, <2>5, <2>6, <2>7 DEF Ended
<1> QED BY <1>4, <1>5, <1>6 DEF Judge, Persist

(* A receipt whose repair has retired its worker.                           *)
LEMMA RetiredFacts ==
  ASSUME TypeInv
  PROVE  LET q == [pr EXCEPT !.repair.retired = TRUE]
         IN  /\ q \in Receipts /\ q.phase = pr.phase /\ q.prepared = pr.prepared
             /\ q.pushed = pr.pushed /\ q.base = pr.base /\ q.repaired = pr.repaired
             /\ q.count = pr.count /\ SameRepair(pr.repair, q.repair)
<1>1. pr \in Receipts /\ pr.repair \in RepairTypes
  BY ReceiptFields DEF TypeInv
<1>2. [pr.repair EXCEPT !.retired = TRUE] \in RepairTypes
  BY <1>1, RepairUpdates
<1>3. SameRepair(pr.repair, [pr.repair EXCEPT !.retired = TRUE])
  BY <1>1, RepairUpdates DEF SameRepair
<1> QED BY <1>1, <1>2, <1>3, RepairFacts, Nested

(* A worker that stops, goes on or brings its branch up to date.             *)
LEMMA OneWorker ==
  ASSUME TypeInv, Delivered, NEW h \in Handle, NEW w, Grown(h, crew[h], w),
         crew' = [crew EXCEPT ![h] = w]
  PROVE  GrowingCrew
<1>1. w \in RepairWorkers
  BY DEF Grown
<1>2. \A g \in Handle : Grown(g, crew[g], crew[g])
  BY WorkerFacts DEF TypeInv, Delivered
<1> QED BY <1>1, <1>2 DEF TypeInv, GrowingCrew

LEMMA WorkerStops ==
  ASSUME TypeInv, Delivered, NEW h \in Handle, crew[h].st # "none",
         NEW x \in {"gone", "working"}, crew' = [crew EXCEPT ![h].st = x]
  PROVE  GrowingCrew
<1>1. Grown(h, crew[h], [crew[h] EXCEPT !.st = x])
  BY WorkerFacts DEF TypeInv, Delivered
<1>2. crew' = [crew EXCEPT ![h] = [crew[h] EXCEPT !.st = x]]
  OBVIOUS
<1> QED BY <1>1, <1>2, OneWorker

(* What does not touch the remote or its pull request.                       *)
LEMMA HubStays == TypeInv /\ repo' = repo /\ gh' = gh => GrowingHub
BY DEF TypeInv, GrowingHub

LEMMA RetiringStep ==
  ASSUME PullRequestInv, NEW after, Retiring(after), tick' \in Ticks, Fits(tick')
  PROVE  PullRequestInv'
<1> USE DEF PullRequestInv
<1>1. SameReceipt /\ GrowingCrew
  <2>1. CASE R.worker # 0 /\ ~R.retired
    <3>1. SameReceipt
      BY <2>1, RetiredFacts DEF Retiring, Persist, SameReceipt
    <3>2. R.worker \in Handle /\ crew[R.worker].st # "none"
      BY <2>1, WorkerIsHandle DEF Asked
    <3>3. crew' = [crew EXCEPT ![R.worker].st = "gone"]
      BY <2>1 DEF Retiring
    <3> QED BY <3>1, <3>2, <3>3, WorkerStops
  <2>2. CASE ~(R.worker # 0 /\ ~R.retired)
    <3>1. UNCHANGED <<pr, crew>>
      BY <2>2 DEF Retiring
    <3>2. \A h \in Handle : Grown(h, crew[h], crew[h])
      BY WorkerFacts DEF TypeInv, Delivered
    <3> QED BY <3>1, <3>2, AlikeIsSame DEF GrowingCrew, TypeInv
  <2> QED BY <2>1, <2>2
<1>2. GrowingHub
  BY HubStays DEF Retiring
<1>3. Growing /\ gh'.replies = gh.replies
  BY <1>1, <1>2 DEF Growing, Retiring, hist, TypeInv
<1> QED BY <1>3, GrowingStep DEF Retiring

LEMMA RetireSteps ==
  ASSUME PullRequestInv, RetireEnded \/ RetireLanded \/ RetireFinished PROVE PullRequestInv'
<1> USE DEF PullRequestInv
<1>1. CASE RetireEnded
  <2>1. tick' \in Ticks /\ tick'.at \in {"rest", "hold"}
    BY <1>1, GotoFacts, StopFacts DEF RetireEnded, Retiring, TypeInv, Labels
  <2> QED BY <1>1, <2>1, FitsAtRest, RetiringStep DEF RetireEnded
<1>2. CASE RetireLanded
  <2>1. tick' \in Ticks /\ tick'.at = "rest"
    BY <1>2, StopFacts DEF RetireLanded, Retiring
  <2> QED BY <1>2, <2>1, FitsAtRest, RetiringStep DEF RetireLanded
<1>3. CASE RetireFinished
  <2>1. tick.at = "finish2" /\ tick' \in Ticks /\ tick'.at = "shelve"
    BY <1>3, GotoFacts DEF RetireFinished, At, Retiring, TypeInv, Labels
  <2>2. Fits(tick')
    BY <2>1 DEF Fits, Where, Staged, Granting, Alone, Integrating, Pushes, Opens, Merges
  <2> QED BY <1>3, <2>1, <2>2, RetiringStep DEF RetireFinished
<1> QED BY <1>1, <1>2, <1>3

----------------------------------------------------------------------------
(* A repair begins, starts over or ends: nothing of it is under way.        *)
Unstarted(q) ==
  /\ q \in RepairTypes /\ q.worker = 0 /\ q.launch = 0 /\ q.handoff = FALSE
  /\ q.prepared = None /\ q.pushed = None

LEMMA FitsWhenIdle ==
  tick'.at \in {"rest", "hold", "retire"} => Fits(tick)'
BY DEF Fits, Where, Staged, Granting, Alone, Integrating, Pushes, Opens, Merges

LEMMA UnstartedStep ==
  ASSUME PullRequestInv, pr' \in Receipts, Unstarted(pr'.repair),
         (pr'.phase = "merged") <=> (pr.phase = "merged"),
         pr'.prepared = pr.prepared, pr'.pushed = pr.pushed, pr'.base = pr.base,
         pr'.repaired = pr.repaired, pr'.count = pr.count,
         GrowingCrew, GrowingHub, gh'.replies = gh.replies,
         UNCHANGED <<land, gated, doubled>>, stage' \in Commits, held' \in BOOLEAN,
         tick' \in Ticks,
         \/ tick'.at \in {"rest", "hold"}
         \/ tick'.at = "launch" /\ pr'.repair.kind # "none" /\ ~held' /\ pr'.phase # "merged"
  PROVE  PullRequestInv'
<1> USE DEF PullRequestInv
<1>1. TypeInv'
  BY DEF TypeInv, GrowingCrew, GrowingHub
<1>2. pr.count \in Nat /\ pr.count <= MaxHandle
  BY ReceiptFields DEF TypeInv, Asked
<1>3. Asked'
  BY <1>2 DEF Asked, Unstarted, R, Repairing, GrowingCrew, Grown
<1>4. Delivered'
  BY DEF Delivered, Unstarted, R, GrowingCrew, Grown
<1>5. Published'
  BY NoneIsCommit DEF Published, Unstarted, R, GrowingHub, None
<1>6. Fits(tick)'
  <2>1. CASE tick'.at \in {"rest", "hold"}
    BY <2>1, FitsWhenIdle
  <2>2. CASE tick'.at = "launch" /\ pr'.repair.kind # "none" /\ ~held' /\ pr'.phase # "merged"
    BY <2>2 DEF Unstarted, Fits, Where, Staged, Granting, Alone, Integrating, Pushes, Opens,
                Merges, R, Repairing
  <2> QED BY <2>1, <2>2
<1>7. MergedCarriesAll'
  BY DEF Ended, MergedCarriesAll, GrowingHub
<1>8. \A r \in pr'.repaired \cup {m.thread : m \in gh'.replies} : Answered(r)'
  BY AnsweredStays DEF Ended, AnsweredByPush, Answered
<1>9. AnsweredByPush'
  BY <1>8 DEF Ended, AnsweredByPush, Answered, GrowingHub
<1> QED BY <1>1, <1>3, <1>4, <1>5, <1>6, <1>7, <1>9 DEF Ended

LEMMA BeginMeans ==
  ASSUME TypeInv, NEW k \in {"base", "checks", "review"}, NEW ids \in SUBSET Reviews,
         Begin(k, ids)
  PROVE  /\ tick' \in Ticks
         /\ \/ pr' = pr /\ tick'.at = "hold"
            \/ /\ tick'.at = "launch" /\ pr' \in Receipts /\ pr'.phase = "repairing"
               /\ Unstarted(pr'.repair) /\ pr'.repair.kind = k
               /\ pr'.prepared = pr.prepared /\ pr'.pushed = pr.pushed /\ pr'.base = pr.base
               /\ pr'.repaired = pr.repaired /\ pr'.count = pr.count
<1>1. CASE pr' = pr /\ Goto("hold")
  BY <1>1, GotoFacts DEF TypeInv, Labels
<1>2. CASE /\ pr' = [pr EXCEPT !.phase = "repairing", !.repairs = @ + 1, !.fails = 0,
                              !.repair = [NoRepair EXCEPT !.kind = k, !.ids = ids]]
           /\ Goto("launch")
  <2>1. tick' \in Ticks /\ tick'.at = "launch"
    BY <1>2, GotoFacts DEF TypeInv, Labels
  <2> DEFINE r == [NoRepair EXCEPT !.kind = k, !.ids = ids]
  <2>2. Unstarted(r) /\ r.kind = k
    BY NoneIsCommit DEF NoRepair, RepairTypes, Causes, Unstarted
  <2>3. pr.repairs + 1 \in Nat
    BY ReceiptFields DEF TypeInv
  <2> HIDE DEF r
  <2>4. \A n \in Nat : LET q == [pr EXCEPT !.phase = "repairing", !.repairs = n, !.fails = 0, !.repair = r]
        IN  /\ q \in Receipts /\ q.phase = "repairing" /\ q.repair = r
            /\ q.prepared = pr.prepared /\ q.pushed = pr.pushed /\ q.base = pr.base
            /\ q.repaired = pr.repaired /\ q.count = pr.count
    BY <2>2 DEF TypeInv, Receipts, Phases, Unstarted
  <2>5. pr' = [pr EXCEPT !.phase = "repairing", !.repairs = pr.repairs + 1, !.fails = 0, !.repair = r]
    BY <1>2 DEF r
  <2> QED BY <2>1, <2>2, <2>3, <2>4, <2>5
<1> QED BY <1>1, <1>2 DEF Begin, Persist

LEMMA BeginStep ==
  ASSUME PullRequestInv, NEW k \in {"base", "checks", "review"}, NEW ids \in SUBSET Reviews,
         Begin(k, ids), ~held, held' = held, pr.phase # "merged", stage' \in Commits,
         UNCHANGED <<land, repo, gh, crew, gated, doubled>>
  PROVE  PullRequestInv'
<1> USE DEF PullRequestInv
<1>1. GrowingCrew /\ GrowingHub
  <2>1. \A h \in Handle : Grown(h, crew[h], crew[h])
    BY WorkerFacts DEF TypeInv, Delivered
  <2> QED BY <2>1, HubStays DEF GrowingCrew, TypeInv
<1>2. held' \in BOOLEAN
  BY DEF TypeInv
<1>3. CASE pr' = pr /\ tick'.at = "hold" /\ tick' \in Ticks
  <2>1. SameReceipt
    BY <1>3, AlikeIsSame
  <2>2. TypeInv'
    BY <1>3, <1>2 DEF TypeInv
  <2>3. Fits(tick)'
    BY <1>3, FitsWhenIdle
  <2> QED BY <1>1, <2>1, <2>2, <2>3, GrowAsked, GrowDelivered, GrowPublished, GrowEnded
<1>4. CASE ~(pr' = pr /\ tick'.at = "hold" /\ tick' \in Ticks)
  BY <1>1, <1>2, <1>4, BeginMeans, UnstartedStep
<1> QED BY <1>3, <1>4

(* The start-over of an owner's retry, and the end of a finished repair.     *)
LEMMA ShelveStep == ASSUME PullRequestInv, Shelve PROVE PullRequestInv'
<1> USE DEF PullRequestInv
<1>1. tick.at = "shelve" /\ tick' \in Ticks /\ tick'.at = "rest" /\ pr.phase # "merged"
  BY StopFacts DEF Shelve, At, Fits, Where
<1>2. /\ pr' \in Receipts /\ pr'.phase = "waiting" /\ pr'.repair = NoRepair
      /\ pr'.prepared = pr.prepared /\ pr'.pushed = pr.pushed /\ pr'.base = pr.base
      /\ pr'.repaired = pr.repaired /\ pr'.count = pr.count
  BY NoRepairFacts DEF Shelve, Persist, TypeInv, Receipts, Phases
<1>3. Unstarted(pr'.repair)
  BY <1>2, NoRepairFacts DEF Unstarted
<1>4. GrowingCrew /\ GrowingHub
  BY LocalGrows DEF Shelve
<1> QED BY <1>1, <1>2, <1>3, <1>4, UnstartedStep DEF Shelve, Local, TypeInv

LEMMA ResolveStep == ASSUME PullRequestInv, NEW a, Resolve(a) PROVE PullRequestInv'
<1> USE DEF PullRequestInv
<1>1. /\ tick' = tick /\ tick.at = "rest" /\ pr.phase # "merged" /\ held' = FALSE
      /\ UNCHANGED <<land, stage, repo, gh, gated, doubled>> /\ tick \in Ticks
  BY DEF Resolve, At, hist, TypeInv
<1>2. GrowingHub
  BY <1>1, HubStays
<1>3. Fits(tick') /\ tick' \in Ticks
  BY <1>1, FitsAtRest
<1>4. CASE crew' = [crew EXCEPT ![R.worker].st = "working"] /\ pr' = pr /\ Answers
  <2>1. R.worker \in Handle /\ crew[R.worker].st # "none"
    BY <1>4, WorkerIsHandle DEF Answers, Asked
  <2>2. GrowingCrew
    BY <1>4, <2>1, WorkerStops
  <2>3. Growing
    BY <1>1, <1>2, <1>3, <1>4, <2>2, AlikeIsSame DEF Growing
  <2> QED BY <1>1, <1>3, <2>3, GrowingStep
<1>5. CASE /\ crew' = IF R.worker # 0 THEN [crew EXCEPT ![R.worker].st = "gone"] ELSE crew
           /\ pr' = IF Repairing THEN StartOver
                    ELSE [pr EXCEPT !.phase = IF pr.number THEN "waiting" ELSE "opening"]
  <2>1. GrowingCrew
    <3>1. CASE R.worker # 0
      <4>1. R.worker \in Handle /\ crew[R.worker].st # "none"
        BY <3>1, WorkerIsHandle DEF Asked
      <4> QED BY <1>5, <3>1, <4>1, WorkerStops
    <3>2. CASE R.worker = 0
      <4>1. \A h \in Handle : Grown(h, crew[h], crew[h])
        BY WorkerFacts DEF TypeInv, Delivered
      <4> QED BY <1>5, <3>2, <4>1 DEF GrowingCrew, TypeInv
    <3> QED BY <3>1, <3>2
  <2>2. CASE Repairing
    <3> DEFINE r == [NoRepair EXCEPT !.kind = R.kind, !.ids = R.ids]
    <3>0. R.kind \in Causes /\ R.ids \in SUBSET Reviews
      BY WorkerIsHandle, RepairFields
    <3>1. Unstarted(r)
      BY <3>0, NoneIsCommit DEF NoRepair, RepairTypes, Unstarted, Causes
    <3>2. pr' = [pr EXCEPT !.phase = "repairing", !.fails = 0, !.repair = r]
      BY <1>5, <2>2 DEF StartOver
    <3> HIDE DEF r
    <3>3. /\ pr' \in Receipts /\ pr'.phase = "repairing" /\ pr'.repair = r
          /\ pr'.prepared = pr.prepared /\ pr'.pushed = pr.pushed /\ pr'.base = pr.base
          /\ pr'.repaired = pr.repaired /\ pr'.count = pr.count
      BY <3>1, <3>2 DEF TypeInv, Receipts, Phases, Unstarted
    <3> QED BY <1>1, <1>2, <1>3, <2>1, <3>1, <3>3, UnstartedStep DEF TypeInv
  <2>3. CASE ~Repairing
    <3>1. PICK x \in {"waiting", "opening"} : pr' = [pr EXCEPT !.phase = x]
      BY <1>5, <2>3
    <3>2. SameReceipt
      BY <1>1, <3>1 DEF TypeInv, Receipts, Phases, SameReceipt, SameRepair
    <3>3. Growing
      BY <1>1, <1>2, <1>3, <2>1, <3>2 DEF Growing
    <3> QED BY <1>1, <1>3, <3>3, GrowingStep
  <2> QED BY <2>2, <2>3
<1> QED BY <1>4, <1>5 DEF Resolve, Persist

----------------------------------------------------------------------------
(* The repair worker's report and its launch.                               *)
LEMMA HearStep == ASSUME PullRequestInv, Hear PROVE PullRequestInv'
<1> USE DEF PullRequestInv
<1>1. /\ tick.at = "main" /\ ~held /\ held' = held /\ Local /\ Report
      /\ pr.phase # "merged"
  BY DEF Hear, At, Fits, Where
<1>2. R.worker # 0 /\ R.worker \in Handle /\ R \in RepairTypes
  BY <1>1, WorkerIsHandle DEF Report
<1>3. crew[R.worker].turn \in Nat
  BY <1>2 DEF TypeInv, RepairWorkers
<1>4. CASE (pr' = Heard \/ pr' = pr) /\ (Stop \/ Goto("hold"))
  <2>1. SameReceipt
    <3>1. CASE pr' = pr
      BY <3>1, AlikeIsSame
    <3>2. CASE pr' = [pr EXCEPT !.repair.handled = crew[R.worker].turn]
      <4> DEFINE r == [R EXCEPT !.handled = crew[R.worker].turn]
      <4>1. r \in RepairTypes /\ SameRepair(R, r)
        BY <1>2, <1>3 DEF RepairTypes, SameRepair
      <4>2. pr' = [pr EXCEPT !.repair = r]
        BY <3>2 DEF TypeInv, Receipts, R
      <4> HIDE DEF r
      <4> QED BY <4>1, <4>2 DEF TypeInv, Receipts, SameReceipt, R
    <3> QED BY <1>4, <3>1, <3>2 DEF Heard
  <2>2. tick' \in Ticks /\ tick'.at \in {"rest", "hold"}
    BY <1>4, GotoFacts, StopFacts DEF TypeInv, Labels
  <2> QED BY <1>1, <2>1, <2>2, FitsAtRest, LocalStep DEF TypeInv
<1>5. CASE Saying \in {"done", "bare"} /\ pr' = Handed /\ Goto("complete")
  <2> DEFINE r == [[R EXCEPT !.handled = crew[R.worker].turn]
                     EXCEPT !.handoff = TRUE, !.prepared = None, !.pushed = None]
  <2>1. /\ r \in RepairTypes /\ r.kind = R.kind /\ r.ids = R.ids /\ r.worker = R.worker
        /\ r.launch = R.launch /\ r.handoff = TRUE /\ r.prepared = None /\ r.pushed = None
    BY <1>2, <1>3, NoneIsCommit DEF RepairTypes
  <2>2. pr' = [[pr EXCEPT !.repair = [R EXCEPT !.handled = crew[R.worker].turn]] EXCEPT !.repair = r]
    BY <1>5 DEF Handed, Heard, TypeInv, Receipts, R
  <2> HIDE DEF r
  <2>3. /\ pr' \in Receipts /\ pr'.phase = pr.phase /\ pr'.repair = r
        /\ pr'.prepared = pr.prepared /\ pr'.pushed = pr.pushed /\ pr'.base = pr.base
        /\ pr'.repaired = pr.repaired /\ pr'.count = pr.count
    BY <2>1, <2>2 DEF TypeInv, Receipts
  <2>4. tick' \in Ticks /\ tick'.at = "complete"
    BY <1>5, GotoFacts DEF TypeInv, Labels
  <2>5. Repair(R.worker) \in crew[R.worker].head
    BY <1>2, <1>5 DEF Delivered, Saying
  <2>6. TypeInv'
    BY <1>1, <2>3, <2>4 DEF TypeInv, Local
  <2>7. Asked'
    BY <1>1, <2>1, <2>3 DEF Asked, Local, R, Repairing
  <2>8. Delivered'
    BY <1>1, <1>2, <2>1, <2>3, <2>5 DEF Delivered, Local, R
  <2>9. Published'
    BY <1>1, <2>1, <2>3 DEF Published, Local, R, None
  <2>10. Fits(tick)'
    BY <1>1, <2>1, <2>3, <2>4
    DEF Fits, Where, Staged, Granting, Alone, Integrating, Pushes, Opens, Merges, R
  <2>11. Ended'
    BY <1>1, <2>3 DEF Ended, MergedCarriesAll, AnsweredByPush, Local
  <2> QED BY <2>6, <2>7, <2>8, <2>9, <2>10, <2>11
<1> QED BY <1>1, <1>4, <1>5 DEF Hear, Persist

(* A handle is taken, fresh or the one a crash left.                         *)
LEMMA IntendStep == ASSUME PullRequestInv, Intend PROVE PullRequestInv'
<1> USE DEF PullRequestInv
<1>1. /\ tick.at = "launch" /\ held' = held /\ Local /\ ~held /\ pr.phase # "merged"
      /\ Repairing /\ R.worker = 0
  BY DEF Intend, At, Fits, Where
<1>2. tick' \in Ticks /\ tick'.at = "launching"
  BY GotoFacts DEF Intend, TypeInv, Labels
<1>3. CASE R.launch # 0
  <2>1. Fits(tick')
    BY <1>1, <1>2, <1>3
    DEF Fits, Where, Staged, Granting, Alone, Integrating, Pushes, Opens, Merges
  <2> QED BY <1>1, <1>2, <1>3, <2>1, IdleStep DEF Intend
<1>4. CASE R.launch = 0
  <2>0. pr.count < MaxHandle /\ pr.count \in Nat
    BY <1>4, ReceiptFields DEF Intend, TypeInv
  <2>a. pr.count + 1 \in Nat
    BY <2>0
  <2> DEFINE n == pr.count + 1
             r == [R EXCEPT !.launch = n]
  <2>1. /\ r \in RepairTypes /\ r.kind = R.kind /\ r.ids = R.ids /\ r.worker = R.worker
        /\ r.launch = n /\ r.handoff = R.handoff /\ r.prepared = R.prepared
        /\ r.pushed = R.pushed
    BY <2>a, WorkerIsHandle DEF RepairTypes
  <2>2. pr' = [pr EXCEPT !.count = n, !.repair = r]
    BY <1>4 DEF Intend, Persist, TypeInv, Receipts, R
  <2> HIDE DEF r, n
  <2>3. /\ pr' \in Receipts /\ pr'.phase = pr.phase /\ pr'.repair = r
        /\ pr'.prepared = pr.prepared /\ pr'.pushed = pr.pushed /\ pr'.base = pr.base
        /\ pr'.repaired = pr.repaired /\ pr'.count = n
    BY <2>1, <2>2, <2>a DEF TypeInv, Receipts, n
  <2>4. n \in Handle /\ n # 0 /\ n > pr.count /\ n <= MaxHandle /\ n \in 0..n
    BY <2>0, PullRequestAssumption DEF n, Handle
  <2>5. TypeInv'
    BY <1>1, <1>2, <2>3 DEF TypeInv, Local
  <2>6. Asked'
    <3>1. crew[n].st = "none"
      BY <2>4 DEF Asked
    <3>2. \A h \in Handle : h > n => crew[h].st = "none"
      BY <2>0, PullRequestAssumption DEF Asked, n, Handle
    <3> QED BY <1>1, <2>1, <2>3, <2>4, <3>1, <3>2 DEF Asked, Local, R, Repairing
  <2>7. Delivered' /\ Published'
    BY <1>1, <2>1, <2>3 DEF Delivered, Published, Carried, Local, R
  <2>8. Fits(tick)'
    BY <1>1, <1>2, <2>1, <2>3, <2>4
    DEF Fits, Where, Staged, Granting, Alone, Integrating, Pushes, Opens, Merges, R, Repairing
  <2>9. Ended'
    BY <1>1, <2>3 DEF Ended, MergedCarriesAll, AnsweredByPush, Local
  <2> QED BY <2>5, <2>6, <2>7, <2>8, <2>9
<1> QED BY <1>3, <1>4

(* The worker of that handle is spawned, or adopted if it is there.          *)
LEMMA SpawnStep == ASSUME PullRequestInv, Spawn PROVE PullRequestInv'
<1> USE DEF PullRequestInv
<1>1. /\ tick.at = "launching" /\ ~held /\ pr.phase # "merged"
      /\ Repairing /\ R.worker = 0 /\ R.launch # 0
      /\ UNCHANGED <<land, pr, held, stage, repo, gh, gated, doubled>>
  BY DEF Spawn, At, Fits, Where, hist
<1>2. tick' \in Ticks /\ tick'.at = "launched"
  BY GotoFacts DEF Spawn, TypeInv, Labels
<1>3. R.launch \in Handle /\ R \in RepairTypes /\ R.ids \subseteq Reviews
  BY <1>1, WorkerIsHandle, RepairFields
<1>4. CASE Adopts(R.launch)
  <2>1. crew' = crew /\ crew[R.launch].st # "none"
    BY <1>4 DEF Spawn, Adopts
  <2>2. Fits(tick')
    BY <1>1, <1>2, <2>1 DEF Fits, Where, Staged, Granting, Alone, Integrating, Pushes, Opens, Merges
  <2>3. Local
    BY <1>1, <2>1 DEF Local, Spawn
  <2> QED BY <1>1, <1>2, <2>2, <2>3, IdleStep
<1>5. CASE ~Adopts(R.launch)
  <2> DEFINE w == [Unborn EXCEPT !.st = "working", !.head = stage, !.asked = R.ids]
  <2>1. w \in RepairWorkers /\ w.st = "working" /\ w.asked = R.ids /\ w.says = "none"
    BY <1>3 DEF TypeInv, Unborn, RepairWorkers
  <2> HIDE DEF w
  <2>2. crew' = [crew EXCEPT ![R.launch] = w]
    BY <1>5 DEF Spawn, w
  <2>3. crew' \in [Handle -> RepairWorkers] /\ crew'[R.launch] = w
    BY <1>3, <2>1, <2>2 DEF TypeInv
  <2>4. \A h \in Handle : h # R.launch => crew'[h] = crew[h]
    BY <2>2 DEF TypeInv
  <2>5. \A h \in Handle : crew[h].asked \subseteq crew'[h].asked
    BY <1>3, <2>1, <2>3, <2>4, <1>1 DEF Asked
  <2>6. TypeInv'
    BY <1>1, <1>2, <2>3 DEF TypeInv
  <2>7. Asked'
    <3>1. R.launch <= pr.count
      BY DEF Asked
    <3>2. \A h \in Handle : h > pr.count => h # R.launch
      BY <3>1, <1>3, ReceiptFields DEF TypeInv, Handle
    <3>3. \A h \in Handle : /\ h > pr.count => crew'[h].st = "none"
                            /\ crew'[h].st = "none" => crew'[h].asked = {}
      BY <2>1, <2>3, <2>4, <3>2 DEF Asked
    <3> QED BY <1>1, <2>1, <2>3, <3>3 DEF Asked, R, Repairing
  <2>8. Delivered'
    <3>1. \A h \in Handle : crew'[h].says \in {"done", "bare"} => Repair(h) \in crew'[h].head
      BY <2>1, <2>3, <2>4 DEF Delivered
    <3> QED BY <1>1, <3>1 DEF Delivered, R, Carried
  <2>9. Published'
    BY <1>1 DEF Published, R
  <2>10. Fits(tick)'
    BY <1>1, <1>2, <2>1, <2>3
    DEF Fits, Where, Staged, Granting, Alone, Integrating, Pushes, Opens, Merges, R, Repairing
  <2>11. Ended'
    BY <1>1, <2>5 DEF Ended, MergedCarriesAll, AnsweredByPush
  <2> QED BY <2>6, <2>7, <2>8, <2>9, <2>10, <2>11
<1> QED BY <1>4, <1>5

LEMMA LaunchedStep == ASSUME PullRequestInv, Launched PROVE PullRequestInv'
<1> USE DEF PullRequestInv
<1>1. /\ tick.at = "launched" /\ held' = held /\ Local /\ Repairing /\ R.launch # 0
      /\ crew[R.launch].st # "none" /\ R.worker = 0
  BY DEF Launched, At, Fits, Where
<1>2. tick' \in Ticks /\ tick'.at = "rest"
  BY StopFacts DEF Launched
<1>3. R \in RepairTypes /\ R.launch \in Nat
  BY WorkerIsHandle, RepairFields
<1> DEFINE r == [R EXCEPT !.worker = R.launch]
<1>4. /\ r \in RepairTypes /\ r.kind = R.kind /\ r.ids = R.ids /\ r.worker = R.launch
      /\ r.launch = R.launch /\ r.handoff = R.handoff /\ r.prepared = R.prepared
      /\ r.pushed = R.pushed
  BY <1>3 DEF RepairTypes
<1>5. pr' = [pr EXCEPT !.repair = r]
  BY DEF Launched, Persist, TypeInv, Receipts, R
<1> HIDE DEF r
<1>6. /\ pr' \in Receipts /\ pr'.phase = pr.phase /\ pr'.repair = r
      /\ pr'.prepared = pr.prepared /\ pr'.pushed = pr.pushed /\ pr'.base = pr.base
      /\ pr'.repaired = pr.repaired /\ pr'.count = pr.count
  BY <1>4, <1>5 DEF TypeInv, Receipts
<1>7. TypeInv'
  BY <1>1, <1>2, <1>6 DEF TypeInv, Local
<1>8. Asked'
  BY <1>1, <1>4, <1>6 DEF Asked, Local, R, Repairing
<1>9. ~R.handoff /\ R.prepared = None /\ R.pushed = None
  BY <1>1, RepairFields, <1>3 DEF Delivered, Carried
<1>10. Delivered' /\ Published'
  BY <1>1, <1>4, <1>6, <1>9 DEF Delivered, Published, Local, R
<1>11. Fits(tick)'
  BY <1>2, FitsWhenIdle
<1>12. Ended'
  BY <1>1, <1>6 DEF Ended, MergedCarriesAll, AnsweredByPush, Local
<1> QED BY <1>7, <1>8, <1>10, <1>11, <1>12

LEMMA TellStep == ASSUME PullRequestInv, Tell PROVE PullRequestInv'
<1> USE DEF PullRequestInv
<1>1. UNCHANGED <<land, pr, held, stage, repo, gh, gated, doubled>>
  BY DEF Tell, hist
<1>2. tick' \in Ticks /\ tick'.at \in {"rest", "hold"}
  BY GotoFacts, StopFacts DEF Tell, TypeInv, Labels
<1>3. \A h \in Handle : Grown(h, crew[h], crew[h])
  BY WorkerFacts DEF TypeInv, Delivered
<1>4. GrowingCrew
  <2>1. CASE crew' = crew
    BY <1>3, <2>1 DEF GrowingCrew, TypeInv
  <2>2. CASE Adopts(R.worker) /\ crew' = [crew EXCEPT ![R.worker].st = "working"]
    <3>1. CASE R.worker \in Handle
      BY <2>2, <3>1, WorkerStops DEF Adopts
    <3>2. CASE R.worker \notin Handle
      BY <1>3, <2>2, <3>2 DEF GrowingCrew, TypeInv
    <3> QED BY <3>1, <3>2
  <2> QED BY <2>1, <2>2 DEF Tell
<1>5. Growing
  BY <1>1, <1>2, <1>4, HubStays, AlikeIsSame DEF Growing, TypeInv
<1> QED BY <1>1, <1>2, <1>5, FitsAtRest, GrowingStep

----------------------------------------------------------------------------
(* Staging, integrating and pushing.                                        *)

(* An integration fails: the worker has to hand over again.                  *)
LEMMA FailStep ==
  ASSUME PullRequestInv, IntegrationFails, held' = held, ~held, pr.phase # "merged",
         stage' \in Commits, UNCHANGED <<land, repo, gh, crew, gated, doubled>>
  PROVE  PullRequestInv'
<1> USE DEF PullRequestInv
<1>1. tick' \in Ticks /\ tick'.at \in {"hold", "tell"}
  BY GotoFacts DEF IntegrationFails, TypeInv, Labels
<1> DEFINE r == [R EXCEPT !.handoff = FALSE]
<1>2. /\ r \in RepairTypes /\ r.kind = R.kind /\ r.ids = R.ids /\ r.worker = R.worker
      /\ r.launch = R.launch /\ r.handoff = FALSE /\ r.prepared = R.prepared
      /\ r.pushed = R.pushed
  BY WorkerIsHandle DEF RepairTypes
<1>3. pr' = [pr EXCEPT !.fails = pr.fails + 1, !.repair = r]
  BY DEF IntegrationFails, Persist, TypeInv, Receipts, R
<1>4. pr.fails + 1 \in Nat
  BY ReceiptFields DEF TypeInv
<1> HIDE DEF r
<1>5. \A n \in Nat : LET q == [pr EXCEPT !.fails = n, !.repair = r]
      IN  /\ q \in Receipts /\ q.phase = pr.phase /\ q.repair = r
          /\ q.prepared = pr.prepared /\ q.pushed = pr.pushed /\ q.base = pr.base
          /\ q.repaired = pr.repaired /\ q.count = pr.count
  BY <1>2 DEF TypeInv, Receipts
<1>6. /\ pr' \in Receipts /\ pr'.phase = pr.phase /\ pr'.repair = r
      /\ pr'.prepared = pr.prepared /\ pr'.pushed = pr.pushed /\ pr'.base = pr.base
      /\ pr'.repaired = pr.repaired /\ pr'.count = pr.count
  BY <1>3, <1>4, <1>5
<1>7. TypeInv'
  BY <1>1, <1>6 DEF TypeInv
<1>8. Asked'
  BY <1>2, <1>6 DEF Asked, R, Repairing
<1>9. Delivered' /\ Published'
  BY <1>2, <1>6 DEF Delivered, Published, Carried, R
<1>10. Fits(tick)'
  BY <1>1, <1>6 DEF Fits, Where, Staged, Granting, Alone, Integrating, Pushes, Opens, Merges
<1>11. Ended'
  BY <1>6 DEF Ended, MergedCarriesAll, AnsweredByPush
<1> QED BY <1>7, <1>8, <1>9, <1>10, <1>11

(* What the tick fetched merges to a commit.                                *)
LEMMA IncomingIsCommit ==
  TypeInv => Incoming \in Commits /\ stage \cup Incoming \in Commits
             /\ stage \cup tick.head \in Commits
BY TickFields DEF TypeInv, Incoming, Commits

LEMMA MergeStep == ASSUME PullRequestInv, Merge PROVE PullRequestInv'
<1> USE DEF PullRequestInv
<1>1. /\ tick.at = "merge" /\ ~held /\ pr.phase # "merged" /\ ~Repairing
      /\ UNCHANGED <<land, held, repo, gh, crew, gated, doubled>>
  BY DEF Merge, At, Fits, Where, Alone, hist
<1>2. CASE stage' = stage \cup Incoming /\ Goto("gate") /\ UNCHANGED pr
  <2>1. tick' \in Ticks /\ tick'.at = "gate" /\ tick'.base = tick.base
    BY <1>2, GotoFacts DEF TypeInv, Labels, Settled
  <2>2. TypeInv'
    BY <1>1, <1>2, <2>1, IncomingIsCommit DEF TypeInv
  <2>3. Asked' /\ Delivered' /\ Published' /\ Ended'
    BY <1>1, <1>2
    DEF Asked, Delivered, Published, Carried, R, Repairing, Ended, MergedCarriesAll, AnsweredByPush
  <2>4. Fits(tick)'
    BY <1>1, <1>2, <2>1
    DEF Fits, Where, Staged, Granting, Alone, Integrating, Pushes, Opens, Merges, R, Repairing, Incoming
  <2> QED BY <2>2, <2>3, <2>4
<1>3. CASE Begin("base", {}) /\ stage' \in {stage, stage \cup tick.head}
  <2>1. stage' \in Commits
    BY <1>3, IncomingIsCommit DEF TypeInv
  <2> QED BY <1>1, <1>3, <2>1, BeginStep
<1> QED BY <1>2, <1>3 DEF Merge

(* After the gates, with a receipt that holds the staged tree.               *)
LEMMA AfterGateFacts ==
  ASSUME TypeInv, AfterGate
  PROVE  /\ tick' \in Ticks
         /\ tick'.at \in {"push", "checks", "open"}
         /\ tick'.at # "push" => stage = pr.pushed
BY GotoFacts DEF AfterGate, TypeInv, Labels

LEMMA GateStep == ASSUME PullRequestInv, Gate PROVE PullRequestInv'
<1> USE DEF PullRequestInv
<1>1. /\ tick.at = "gate" /\ ~held /\ pr.phase # "merged" /\ ~Repairing
      /\ UNCHANGED <<land, held, stage, repo, gh, crew, doubled>>
      /\ tick.base \subseteq stage /\ tick.base \in Commits /\ stage \in Commits
  BY TickFields DEF Gate, At, Fits, Where, Staged, Alone, TypeInv
<1>2. CASE stage = pr.prepared /\ pr.pushed # None /\ UNCHANGED <<pr, gated>> /\ AfterGate
  <2>1. /\ tick' \in Ticks /\ tick'.at \in {"push", "checks", "open"}
        /\ tick'.at # "push" => stage = pr.pushed
    BY <1>2, AfterGateFacts
  <2>2. Local
    BY <1>1, <1>2 DEF Gate, Local
  <2>3. pr.prepared \in gated
    BY <1>2 DEF Published
  <2>4. Fits(tick')
    BY <1>1, <1>2, <2>1, <2>3
    DEF Fits, Where, Staged, Granting, Alone, Integrating, Pushes, Opens, Merges
  <2> QED BY <1>1, <1>2, <2>1, <2>2, <2>4, IdleStep
<1>3. CASE /\ pr' = [pr EXCEPT !.prepared = stage, !.base = tick.base,
                              !.phase = IF pr.number THEN "waiting" ELSE "opening"]
           /\ gated' = gated \cup {stage} /\ AfterGate
  <2>1. PICK x \in {"waiting", "opening"} :
          pr' = [pr EXCEPT !.prepared = stage, !.base = tick.base, !.phase = x]
    BY <1>3
  <2>2. /\ pr' \in Receipts /\ pr'.phase = x /\ pr'.repair = pr.repair
        /\ pr'.prepared = stage /\ pr'.pushed = pr.pushed /\ pr'.base = tick.base
        /\ pr'.repaired = pr.repaired /\ pr'.count = pr.count
    BY <1>1, <2>1 DEF TypeInv, Receipts, Phases
  <2>3. /\ tick' \in Ticks /\ tick'.at \in {"push", "checks", "open"}
        /\ tick'.at # "push" => stage = pr.pushed
    BY <1>3, AfterGateFacts
  <2>4. TypeInv'
    BY <1>1, <1>3, <2>2, <2>3 DEF TypeInv
  <2>5. Asked' /\ Delivered'
    BY <1>1, <2>2 DEF Asked, Delivered, Carried, R, Repairing
  <2>6. Published'
    BY <1>1, <1>3, <2>2 DEF Published, R
  <2>7. Fits(tick)'
    BY <1>1, <1>3, <2>2, <2>3
    DEF Fits, Where, Staged, Granting, Alone, Integrating, Pushes, Opens, Merges, R, Repairing
  <2>8. Ended'
    BY <1>1, <2>2 DEF Ended, MergedCarriesAll, AnsweredByPush
  <2> QED BY <2>4, <2>5, <2>6, <2>7, <2>8
<1>4. CASE Begin("base", {}) /\ UNCHANGED gated
  BY <1>1, <1>4, BeginStep
<1> QED BY <1>2, <1>3, <1>4 DEF Gate, Persist, Passed

LEMMA PrepareStep == ASSUME PullRequestInv, Prepare PROVE PullRequestInv'
<1> USE DEF PullRequestInv
<1>1. /\ tick.at = "prepare" /\ ~held /\ pr.phase # "merged" /\ R.handoff
      /\ UNCHANGED <<land, held, stage, repo, gh, gated, doubled>>
  BY DEF Prepare, At, Fits, Where, Integrating, hist
<1>2. R.worker # 0 /\ R.worker \in Handle /\ R \in RepairTypes
      /\ Repair(R.worker) \in crew[R.worker].head
  BY <1>1, WorkerIsHandle DEF Delivered
<1> DEFINE h == stage \cup Incoming \cup crew[R.worker].head
<1>3. CASE /\ crew' = [crew EXCEPT ![R.worker].head = h]
           /\ pr' = [pr EXCEPT !.repair.prepared = h] /\ Goto("integrate")
  <2>1. h \in Commits /\ crew[R.worker].head \subseteq h /\ Repair(R.worker) \in h
    BY <1>2, IncomingIsCommit DEF TypeInv, RepairWorkers, Commits
  <2> HIDE DEF h
  <2>2. Grown(R.worker, crew[R.worker], [crew[R.worker] EXCEPT !.head = h])
    BY <1>2, <2>1, WorkerFacts DEF TypeInv, Delivered
  <2>3. crew' = [crew EXCEPT ![R.worker] = [crew[R.worker] EXCEPT !.head = h]]
    BY <1>3
  <2>4. GrowingCrew /\ GrowingHub
    BY <1>1, <1>2, <2>2, <2>3, OneWorker, HubStays
  <2> DEFINE r == [R EXCEPT !.prepared = h]
  <2>5. /\ r \in RepairTypes /\ r.kind = R.kind /\ r.ids = R.ids /\ r.worker = R.worker
        /\ r.launch = R.launch /\ r.handoff = R.handoff /\ r.prepared = h
        /\ r.pushed = R.pushed
    BY <1>2, <2>1 DEF RepairTypes
  <2>6. pr' = [pr EXCEPT !.repair = r]
    BY <1>3 DEF TypeInv, Receipts, R
  <2> HIDE DEF r
  <2>7. /\ pr' \in Receipts /\ pr'.phase = pr.phase /\ pr'.repair = r
        /\ pr'.prepared = pr.prepared /\ pr'.pushed = pr.pushed /\ pr'.base = pr.base
        /\ pr'.repaired = pr.repaired /\ pr'.count = pr.count
    BY <2>5, <2>6 DEF TypeInv, Receipts
  <2>8. tick' \in Ticks /\ tick'.at = "integrate"
    BY <1>3, GotoFacts DEF TypeInv, Labels
  <2>9. TypeInv'
    BY <1>1, <2>4, <2>7, <2>8 DEF TypeInv, GrowingCrew
  <2>10. Asked'
    <3>1. R.launch # 0 => R.launch \in Handle
      BY WorkerIsHandle
    <3> QED BY <1>2, <2>4, <2>5, <2>7, <3>1 DEF Asked, R, Repairing, GrowingCrew, Grown
  <2>11. Delivered'
    <3>1. Repair(R.worker) \in crew'[R.worker].head
      BY <1>2, <2>4 DEF GrowingCrew, Grown
    <3>2. \A g \in Handle : crew'[g].says \in {"done", "bare"} => Repair(g) \in crew'[g].head
      BY <2>4 DEF GrowingCrew, Grown
    <3> QED BY <1>1, <1>2, <2>1, <2>5, <2>7, <3>1, <3>2 DEF Delivered, R, Carried
  <2>12. Published'
    BY <1>1, <2>5, <2>7 DEF Published, R
  <2>13. Fits(tick)'
    BY <1>1, <2>1, <2>5, <2>7, <2>8
    DEF Fits, Where, Staged, Granting, Alone, Integrating, Pushes, Opens, Merges, R, None
  <2>14. Ended'
    <3>1. MergedCarriesAll'
      BY <1>1, <2>7 DEF Ended, MergedCarriesAll
    <3>2. \A x \in pr'.repaired \cup {m.thread : m \in gh'.replies} : Answered(x)'
      BY <1>1, <2>4, <2>7, AnsweredStays DEF Ended, AnsweredByPush, Answered
    <3>3. AnsweredByPush'
      BY <1>1, <3>2 DEF Ended, AnsweredByPush, Answered
    <3> QED BY <3>1, <3>3 DEF Ended
  <2> QED BY <2>9, <2>10, <2>11, <2>12, <2>13, <2>14
<1>4. CASE IntegrationFails /\ UNCHANGED crew
  BY <1>1, <1>4, FailStep DEF TypeInv
<1> QED BY <1>3, <1>4 DEF Prepare, Persist

LEMMA IntegrateStep == ASSUME PullRequestInv, Integrate PROVE PullRequestInv'
<1> USE DEF PullRequestInv
<1>1. /\ tick.at = "integrate" /\ ~held /\ pr.phase # "merged" /\ R.handoff /\ R.prepared # None
      /\ UNCHANGED <<land, pr, held, repo, gh, crew, gated, doubled>>
      /\ stage' = stage \cup R.prepared
  BY DEF Integrate, At, Fits, Where, Staged, Integrating, hist
<1>2. tick' \in Ticks /\ tick'.at = "regate"
  BY GotoFacts DEF Integrate, TypeInv, Labels
<1>3. stage' \in Commits
  BY <1>1, WorkerIsHandle, RepairFields DEF TypeInv, Commits
<1>4. TypeInv'
  BY <1>1, <1>2, <1>3 DEF TypeInv
<1>5. Asked' /\ Delivered' /\ Published' /\ Ended'
  BY <1>1
  DEF Asked, Delivered, Published, Carried, R, Repairing, Ended, MergedCarriesAll, AnsweredByPush
<1>6. Fits(tick)'
  BY <1>1, <1>2 DEF Fits, Where, Staged, Granting, Alone, Integrating, Pushes, Opens, Merges, R
<1> QED BY <1>4, <1>5, <1>6

LEMMA RegateStep == ASSUME PullRequestInv, Regate PROVE PullRequestInv'
<1> USE DEF PullRequestInv
<1>1. /\ tick.at = "regate" /\ ~held /\ pr.phase # "merged" /\ R.handoff
      /\ R.prepared # None /\ R.prepared \subseteq stage
      /\ UNCHANGED <<land, held, repo, gh, crew, doubled>>
  BY DEF Regate, At, Fits, Where, Staged, Integrating
<1>2. /\ stage \cup Incoming \in Commits /\ tick.base \in Commits
      /\ tick.base \subseteq Incoming /\ stage \in Commits
  BY IncomingIsCommit, TickFields DEF TypeInv, Incoming
<1>3. CASE /\ stage' = stage \cup Incoming
           /\ pr' = [pr EXCEPT !.prepared = stage', !.base = tick.base]
           /\ gated' = gated \cup {stage'} /\ Goto("push")
  <2>1. stage' \in Commits
    BY <1>2, <1>3
  <2>2. /\ pr' \in Receipts /\ pr'.phase = pr.phase /\ pr'.repair = pr.repair
        /\ pr'.prepared = stage' /\ pr'.pushed = pr.pushed /\ pr'.base = tick.base
        /\ pr'.repaired = pr.repaired /\ pr'.count = pr.count
    BY <1>2, <1>3, <2>1 DEF TypeInv, Receipts
  <2>3. tick' \in Ticks /\ tick'.at = "push"
    BY <1>3, GotoFacts DEF TypeInv, Labels
  <2>4. TypeInv'
    BY <1>1, <1>3, <2>1, <2>2, <2>3 DEF TypeInv
  <2>5. Asked' /\ Delivered'
    BY <1>1, <2>2 DEF Asked, Delivered, Carried, R, Repairing
  <2>6. Published'
    BY <1>1, <1>2, <1>3, <2>2 DEF Published, R
  <2>7. Fits(tick)'
    BY <1>1, <1>3, <2>2, <2>3
    DEF Fits, Where, Staged, Granting, Alone, Integrating, Pushes, Opens, Merges, R, Repairing
  <2>8. Ended'
    BY <1>1, <2>2 DEF Ended, MergedCarriesAll, AnsweredByPush
  <2> QED BY <2>4, <2>5, <2>6, <2>7, <2>8
<1>4. CASE IntegrationFails /\ stage' \in {stage, stage \cup Incoming} /\ UNCHANGED gated
  BY <1>1, <1>2, <1>4, FailStep
<1> QED BY <1>3, <1>4 DEF Regate, Persist

----------------------------------------------------------------------------
(* Publishing and merging.                                                  *)
LEMMA CrewStays == TypeInv /\ Delivered /\ crew' = crew => GrowingCrew
<1>1. TypeInv /\ Delivered => \A h \in Handle : Grown(h, crew[h], crew[h])
  BY WorkerFacts DEF TypeInv, Delivered
<1> QED BY <1>1 DEF GrowingCrew, TypeInv

LEMMA ReceiptStays == TypeInv /\ pr' = pr => SameReceipt
BY AlikeIsSame

LEMMA PushStep == ASSUME PullRequestInv, Push PROVE PullRequestInv'
<1> USE DEF PullRequestInv
<1>1. /\ tick.at = "pushgo" /\ ~held /\ pr.phase # "merged" /\ stage \in Commits
      /\ pr.prepared = stage /\ stage \in gated
      /\ Repairing => R.prepared # None /\ R.prepared \subseteq stage
      /\ UNCHANGED <<land, pr, held, stage, crew, gated, doubled>>
  BY DEF Push, At, Fits, Where, Staged, Pushes, hist, TypeInv
<1>2. CASE /\ repo.head \subseteq stage
           /\ repo' = [repo EXCEPT !.head = stage]
           /\ gh' = [gh EXCEPT !.ci = IF stage = repo.head THEN @ ELSE "none"]
           /\ Goto("pushed")
  <2>1. repo' \in Remotes /\ repo'.head = stage /\ repo'.base = repo.base
    BY <1>1, <1>2 DEF TypeInv, Remotes
  <2>2. gh' \in Requests /\ gh'.st = gh.st /\ gh'.replies = gh.replies
    BY <1>2 DEF TypeInv, Requests, Results
  <2>3. GrowingHub
    BY <1>2, <2>1, <2>2 DEF GrowingHub
  <2>4. tick' \in Ticks /\ tick'.at = "pushed"
    BY <1>2, GotoFacts DEF TypeInv, Labels
  <2>5. TypeInv'
    BY <1>1, <2>1, <2>2, <2>4 DEF TypeInv
  <2>6. Asked' /\ Delivered' /\ Published'
    BY <1>1, <2>3, CrewStays, ReceiptStays, GrowAsked, GrowDelivered, GrowPublished
  <2>7. Repairing => Carried'
    BY <1>1, <2>1 DEF Delivered, Carried, R
  <2>8. Fits(tick)'
    BY <1>1, <2>1, <2>4, <2>7
    DEF Fits, Where, Staged, Granting, Alone, Integrating, Pushes, Opens, Merges, R, Repairing
  <2>9. Ended'
    BY <1>1, <2>2, <2>3, CrewStays, ReceiptStays, GrowEnded
  <2> QED BY <2>5, <2>6, <2>8, <2>9
<1>3. CASE Stop /\ UNCHANGED <<repo, gh>>
  <2>1. tick' \in Ticks /\ tick'.at = "rest" /\ Local
    BY <1>1, <1>3, StopFacts DEF Local, Push
  <2> QED BY <1>1, <2>1, FitsAtRest, IdleStep
<1> QED BY <1>2, <1>3 DEF Push

LEMMA PushFailsStep == ASSUME PullRequestInv, PushFails PROVE PullRequestInv'
<1> USE DEF PullRequestInv
<1>1. /\ tick.at = "pushgo" /\ ~held /\ held' = held /\ pr.phase # "merged" /\ Local
  BY DEF PushFails, At, Fits, Where
<1>2. stage' \in Commits /\ UNCHANGED <<land, repo, gh, crew, gated, doubled>>
  BY <1>1 DEF Local, TypeInv
<1>3. CASE Stop /\ UNCHANGED pr
  BY <1>1, <1>3, StopFacts, FitsAtRest, IdleStep
<1>4. CASE IntegrationFails
  BY <1>1, <1>2, <1>4, FailStep
<1>5. CASE Begin("checks", {})
  BY <1>1, <1>2, <1>5, BeginStep
<1> QED BY <1>3, <1>4, <1>5 DEF PushFails

LEMMA PushedStep == ASSUME PullRequestInv, Pushed PROVE PullRequestInv'
<1> USE DEF PullRequestInv
<1>1. /\ tick.at = "pushed" /\ ~held /\ held' = held /\ pr.phase # "merged" /\ Local
      /\ pr.prepared \subseteq repo.head /\ pr.prepared \in gated
      /\ Repairing => Carried
  BY DEF Pushed, At, Fits, Where, Staged
<1>2. /\ pr' \in Receipts /\ pr'.phase = pr.phase /\ pr'.repair = pr.repair
      /\ pr'.prepared = pr.prepared /\ pr'.pushed = pr.prepared /\ pr'.base = pr.base
      /\ pr'.repaired = pr.repaired /\ pr'.count = pr.count
  BY DEF Pushed, Persist, TypeInv, Receipts
<1>3. /\ tick' \in Ticks
      /\ \/ Repairing /\ tick'.at = "carried"
         \/ ~Repairing /\ tick'.at \in {"checks", "open"}
  <2>1. CASE Repairing
    BY <2>1, GotoFacts DEF Pushed, TypeInv, Labels
  <2>2. CASE ~Repairing /\ pr.number
    BY <2>2, RestFacts, TickFields DEF Pushed, TypeInv, Labels, Ticks
  <2>3. CASE ~Repairing /\ ~pr.number
    BY <2>3, GotoFacts DEF Pushed, TypeInv, Labels
  <2> QED BY <2>1, <2>2, <2>3
<1>4. TypeInv'
  BY <1>1, <1>2, <1>3 DEF TypeInv, Local
<1>5. Asked' /\ Delivered'
  BY <1>1, <1>2 DEF Asked, Delivered, Carried, R, Repairing, Local
<1>6. Published'
  BY <1>1, <1>2 DEF Published, R, Local
<1>7. Fits(tick)'
  BY <1>1, <1>2, <1>3
  DEF Fits, Where, Staged, Granting, Alone, Integrating, Pushes, Opens, Merges, R, Repairing,
      Carried, Local
<1>8. Ended'
  <2>1. MergedCarriesAll'
    BY <1>1, <1>2 DEF MergedCarriesAll
  <2> QED BY <1>1, <1>2, <2>1 DEF Ended, AnsweredByPush, Local
<1> QED BY <1>4, <1>5, <1>6, <1>7, <1>8

LEMMA RepairPushedStep == ASSUME PullRequestInv, RepairPushed PROVE PullRequestInv'
<1> USE DEF PullRequestInv
<1>1. /\ tick.at = "carried" /\ ~held /\ held' = held /\ pr.phase # "merged" /\ Local /\ Carried
  BY DEF RepairPushed, At, Fits, Where
<1>2. R \in RepairTypes /\ pr.pushed \in Commits
  BY WorkerIsHandle, ReceiptFields DEF TypeInv
<1> DEFINE r == [R EXCEPT !.pushed = pr.pushed]
<1>3. /\ r \in RepairTypes /\ r.kind = R.kind /\ r.ids = R.ids /\ r.worker = R.worker
      /\ r.launch = R.launch /\ r.handoff = R.handoff /\ r.prepared = R.prepared
      /\ r.pushed = pr.pushed
  BY <1>2 DEF RepairTypes
<1>4. pr' = [pr EXCEPT !.repair = r]
  BY DEF RepairPushed, Persist, TypeInv, Receipts, R
<1> HIDE DEF r
<1>5. /\ pr' \in Receipts /\ pr'.phase = pr.phase /\ pr'.repair = r
      /\ pr'.prepared = pr.prepared /\ pr'.pushed = pr.pushed /\ pr'.base = pr.base
      /\ pr'.repaired = pr.repaired /\ pr'.count = pr.count
  BY <1>3, <1>4 DEF TypeInv, Receipts
<1>6. tick' \in Ticks /\ tick'.at \in {"finish", "open"}
  BY GotoFacts DEF RepairPushed, TypeInv, Labels
<1>7. TypeInv'
  BY <1>1, <1>5, <1>6 DEF TypeInv, Local
<1>8. Asked'
  BY <1>1, <1>3, <1>5 DEF Asked, R, Repairing, Local
<1>9. Delivered' /\ Published'
  BY <1>1, <1>3, <1>5 DEF Delivered, Published, Carried, R, Local
<1>10. Repairing
  BY <1>1 DEF Asked, Carried
<1>11. Fits(tick)'
  BY <1>1, <1>3, <1>5, <1>6, <1>10
  DEF Fits, Where, Staged, Granting, Alone, Integrating, Pushes, Opens, Merges, R, Repairing,
      Carried, Local
<1>12. Ended'
  BY <1>1, <1>5 DEF Ended, MergedCarriesAll, AnsweredByPush, Local
<1> QED BY <1>7, <1>8, <1>9, <1>11, <1>12

(* The request is opened, whether or not the answer comes.                   *)
LEMMA OpenGrows ==
  ASSUME TypeInv, repo' = repo, gh' = gh \/ (gh.st = "none" /\ gh' = [gh EXCEPT !.st = "open"])
  PROVE  GrowingHub /\ gh'.replies = gh.replies
<1>1. CASE gh' = gh
  BY <1>1, HubStays
<1>2. CASE gh.st = "none" /\ gh' = [gh EXCEPT !.st = "open"]
  <2>1. gh' \in Requests /\ gh'.replies = gh.replies
    BY <1>2 DEF TypeInv, Requests, Stands
  <2> QED BY <1>2, <2>1 DEF TypeInv, GrowingHub
<1> QED BY <1>1, <1>2

LEMMA OpenStep == ASSUME PullRequestInv, Open PROVE PullRequestInv'
<1> USE DEF PullRequestInv
<1>1. /\ tick.at = "open" /\ UNCHANGED <<land, pr, held, stage, repo, crew, gated, doubled>>
      /\ GrowingHub /\ gh'.replies = gh.replies
  BY OpenGrows DEF Open, At, Found
<1> DEFINE x == [Snapshot EXCEPT !.st = gh'.st]
<1>2. x \in Snaps /\ x.st = gh'.st
  BY <1>1, RequestFacts, RemoteFacts, SubmittedFacts DEF TypeInv, Snapshot, Snaps, GrowingHub
<1>3. tick' = [Rest EXCEPT !.at = "opened", !.snap = x]
  BY DEF Open
<1> HIDE DEF x
<1>4. tick' \in Ticks /\ tick'.at = "opened" /\ tick'.snap = x
  BY <1>2, <1>3, RestFacts DEF Ticks, Labels
<1>5. (gh'.st = "merged") => (gh.st = "merged")
  BY DEF Open, TypeInv, Requests
<1>6. Fits(tick')
  BY <1>1, <1>2, <1>4, <1>5
  DEF Fits, Where, Staged, Granting, Alone, Integrating, Pushes, Opens, Merges
<1>7. Growing
  BY <1>1, <1>4, CrewStays, ReceiptStays DEF Growing, TypeInv
<1> QED BY <1>1, <1>6, <1>7, GrowingStep

LEMMA OpenAnswerLostStep == ASSUME PullRequestInv, OpenAnswerLost PROVE PullRequestInv'
<1> USE DEF PullRequestInv
<1>1. /\ UNCHANGED <<land, pr, held, stage, repo, crew, gated, doubled>>
      /\ GrowingHub /\ gh'.replies = gh.replies
  BY OpenGrows DEF OpenAnswerLost, Found
<1>2. tick' \in Ticks /\ tick'.at = "hold"
  BY GotoFacts DEF OpenAnswerLost, TypeInv, Labels
<1>3. Growing
  BY <1>1, <1>2, CrewStays, ReceiptStays DEF Growing, TypeInv
<1> QED BY <1>1, <1>2, <1>3, FitsAtRest, GrowingStep

LEMMA MayMergeFacts ==
  ASSUME TypeInv, MayMerge
  PROVE  /\ tick' \in Ticks
         /\ tick'.at = "rest" \/ (tick'.at = "merging" /\ land = "pr-merge" /\ ~Repairing)
BY GotoFacts, StopFacts DEF MayMerge, TypeInv, Labels

LEMMA OpenedStep == ASSUME PullRequestInv, Opened PROVE PullRequestInv'
<1> USE DEF PullRequestInv
<1>1. /\ tick.at = "opened" /\ held' = held /\ Local /\ pr.phase # "merged" /\ tick \in Ticks
  BY DEF Opened, At, Fits, Where, TypeInv
<1>2. PICK x \in {"repairing", "waiting"} : pr' = [pr EXCEPT !.number = TRUE, !.phase = x]
  BY DEF Opened, Persist
<1>3. SameReceipt
  BY <1>1, <1>2 DEF TypeInv, Receipts, Phases, SameReceipt, SameRepair
<1>4. /\ tick' \in Ticks
      /\ \/ tick'.at = "rest"
         \/ tick'.at = "seen" /\ tick'.snap = tick.snap
         \/ tick'.at = "finish" /\ Repairing
         \/ tick'.at = "merging" /\ land = "pr-merge" /\ ~Repairing
  BY <1>1, GotoFacts, MayMergeFacts DEF Opened, Labels, Settled
<1>5. Fits(tick')
  BY <1>1, <1>4 DEF Fits, Where, Staged, Granting, Alone, Integrating, Pushes, Opens, Merges
<1> QED BY <1>1, <1>3, <1>4, <1>5, LocalStep DEF TypeInv

(* A merge, by the run or by a person.                                       *)
LEMMA LandedGrows ==
  ASSUME TypeInv, NEW by \in {"run", "person"}, Landed(by)
  PROVE  GrowingHub /\ gh'.replies = gh.replies /\ gh'.by = by
<1>1. repo.base \cup repo.head \in Commits
  BY RemoteFacts DEF TypeInv, Commits
<1>2. repo' \in Remotes /\ repo'.head = repo.head /\ repo'.base = repo.base \cup repo.head
  BY <1>1 DEF Landed, TypeInv, Remotes
<1>3. gh' \in Requests /\ gh'.st = "merged" /\ gh'.replies = gh.replies /\ gh'.by = by
  BY <1>1 DEF Landed, TypeInv, Requests, Stands
<1> QED BY <1>2, <1>3 DEF GrowingHub

LEMMA MergeRequestStep == ASSUME PullRequestInv, MergeRequest PROVE PullRequestInv'
<1> USE DEF PullRequestInv
<1>1. tick.at = "mergego" /\ UNCHANGED <<land, pr, held, stage, crew, gated, doubled>>
  BY DEF MergeRequest, At, hist
<1>2. tick' \in Ticks /\ tick'.at \in {"rest", "refusedlook"}
  BY GotoFacts, StopFacts DEF MergeRequest, TypeInv, Labels
<1>3. Fits(tick')
  BY <1>1, <1>2 DEF Fits, Where, Staged, Granting, Alone, Integrating, Pushes, Opens, Merges
<1>4. GrowingHub /\ gh'.replies = gh.replies
  BY LandedGrows, HubStays DEF MergeRequest
<1>5. Growing
  BY <1>1, <1>2, <1>4, CrewStays, ReceiptStays DEF Growing, TypeInv
<1> QED BY <1>1, <1>3, <1>4, <1>5, GrowingStep

----------------------------------------------------------------------------
(* Checks, reviews and replies.                                             *)
LEMMA ActionableIsReviews ==
  TypeInv => /\ Actionable(tick.snap) \in SUBSET Reviews
             /\ pr.processed \cup (tick.snap.reviews \ Actionable(tick.snap)) \in SUBSET Reviews
BY TickFields, SnapFields, ReceiptFields DEF TypeInv, Actionable

LEMMA ChecksStep == ASSUME PullRequestInv, Checks PROVE PullRequestInv'
<1> USE DEF PullRequestInv
<1>1. /\ tick.at = "checks" /\ ~held /\ held' = held /\ Local /\ pr.phase # "merged" /\ ~Repairing
  BY DEF Checks, At, Fits, Where, Alone
<1>2. CASE Begin("checks", {})
  <2>1. stage' \in Commits /\ UNCHANGED <<land, repo, gh, crew, gated, doubled>>
    BY <1>1 DEF Local, TypeInv
  <2> QED BY <1>1, <1>2, <2>1, BeginStep
<1> DEFINE ids == Actionable(tick.snap)
           seen == [pr EXCEPT !.processed = @ \cup (tick.snap.reviews \ ids)]
<1>3. CASE UNCHANGED pr \/ pr' = seen
  <2>1. SameReceipt
    BY <1>3, ActionableIsReviews DEF TypeInv, Receipts, SameReceipt, SameRepair
  <2> HIDE DEF seen
  <2>2. CASE /\ tick' \in Ticks
             /\ \/ tick'.at \in {"rest", "hold", "review"}
                \/ tick'.at = "merging" /\ land = "pr-merge"
    <3>1. Fits(tick')
      BY <1>1, <2>2 DEF Fits, Where, Staged, Granting, Alone, Integrating, Pushes, Opens, Merges
    <3> QED BY <1>1, <2>1, <2>2, <3>1, LocalStep DEF TypeInv
  <2>3. CASE Begin("checks", {})
    BY <1>2, <2>3
  <2>4. CASE MayMerge
    BY <2>2, <2>4, MayMergeFacts
  <2>5. CASE Stop
    BY <2>2, <2>5, StopFacts
  <2>6. CASE Goto(IF Again(ids) THEN "hold" ELSE "review")
    BY <2>2, <2>6, GotoFacts DEF TypeInv, Labels
  <2> QED BY <2>3, <2>4, <2>5, <2>6 DEF Checks
<1> QED BY <1>2, <1>3 DEF Checks, Persist

LEMMA ReviewStep == ASSUME PullRequestInv, Review PROVE PullRequestInv'
<1> USE DEF PullRequestInv
<1>1. /\ ~held /\ held' = held /\ Local /\ pr.phase # "merged"
      /\ Begin("review", Actionable(tick.snap))
  BY DEF Review, At, Fits, Where
<1>2. stage' \in Commits /\ UNCHANGED <<land, repo, gh, crew, gated, doubled>>
  BY <1>1 DEF Local, TypeInv
<1> QED BY <1>1, <1>2, ActionableIsReviews, BeginStep

(* Where the repair is carried, what it was asked about is answered.         *)
LEMMA CarriedAnswers ==
  ASSUME TypeInv, Asked, Carried, NEW t \in R.ids PROVE Answered(t)
<1>1. R.worker \in Handle /\ R.worker = R.launch /\ crew[R.worker].st # "none"
  BY WorkerIsHandle DEF Carried, Asked
<1>2. crew[R.worker].asked = R.ids
  BY <1>1 DEF Asked, Carried
<1> QED BY <1>1, <1>2 DEF Answered, Carried

LEMMA MarkerFacts ==
  ASSUME TypeInv, Asked, NEW t \in Reviews
  PROVE  Marker(t) \in Markers /\ Marker(t).thread = t /\ Marker(t).head = R.pushed
BY WorkerIsHandle, RepairFields DEF Marker, Markers

LEMMA ReplyStep == ASSUME PullRequestInv, Reply PROVE PullRequestInv'
<1> USE DEF PullRequestInv
<1>1. /\ tick.at = "finish" /\ ~held /\ pr.phase # "merged" /\ Carried
      /\ UNCHANGED <<land, pr, held, stage, repo, crew, gated>>
  BY DEF Reply, At, Fits, Where
<1>2. PICK t \in Owing :
        /\ tick' = [tick EXCEPT !.at = "replied", !.thread = {t}]
        /\ IF Posted(Marker(t)) THEN UNCHANGED <<gh, doubled>>
           ELSE /\ gh' = [gh EXCEPT !.replies = @ \cup {Marker(t)}]
                /\ doubled' = (doubled \/ Marker(t) \in gh.replies)
  BY DEF Reply
<1>3. t \in R.ids /\ t \in Reviews
  BY WorkerIsHandle, RepairFields DEF Owing
<1>4. tick' \in Ticks /\ tick'.at = "replied"
  BY <1>2, <1>3 DEF TypeInv, Ticks, Labels
<1>5. Marker(t) \in Markers /\ Marker(t).thread = t /\ Marker(t).head = R.pushed
  BY <1>3, MarkerFacts
<1>6. doubled' = doubled /\ doubled = FALSE
  BY <1>2 DEF Posted, TypeInv, Ended, AnsweredByPush
<1>7. gh' \in Requests /\ gh'.st = gh.st /\ gh'.replies \subseteq gh.replies \cup {Marker(t)}
  BY <1>2, <1>5 DEF TypeInv, Requests
<1>8. GrowingHub /\ GrowingCrew /\ SameReceipt
  BY <1>1, <1>7, CrewStays, ReceiptStays DEF GrowingHub, TypeInv
<1>9. TypeInv'
  BY <1>1, <1>4, <1>6, <1>7 DEF TypeInv
<1>10. Asked' /\ Delivered' /\ Published'
  BY <1>1, <1>8, GrowAsked, GrowDelivered, GrowPublished
<1>11. Fits(tick)'
  BY <1>1, <1>4
  DEF Fits, Where, Staged, Granting, Alone, Integrating, Pushes, Opens, Merges, Carried, R
<1>12. MergedCarriesAll'
  BY <1>1, <1>7 DEF Ended, MergedCarriesAll
<1>13. Answered(t)
  BY <1>1, <1>3, CarriedAnswers
<1>14. \A r \in pr'.repaired \cup {m.thread : m \in gh'.replies} : Answered(r)'
  BY <1>1, <1>5, <1>7, <1>13 DEF Ended, AnsweredByPush, Answered
<1>15. \A m \in gh'.replies : m.head \subseteq repo'.head
  BY <1>1, <1>5, <1>7 DEF Ended, AnsweredByPush, Published
<1>16. AnsweredByPush'
  BY <1>6, <1>14, <1>15 DEF AnsweredByPush, Answered
<1> QED BY <1>9, <1>10, <1>11, <1>12, <1>16 DEF Ended

LEMMA RepliedStep == ASSUME PullRequestInv, Replied PROVE PullRequestInv'
<1> USE DEF PullRequestInv
<1>1. tick.at = "replied" /\ held' = held /\ Local
  BY DEF Replied, At
<1>2. tick' \in Ticks /\ tick'.at = "finish"
  BY GotoFacts DEF Replied, TypeInv, Labels
<1>3. Fits(tick')
  BY <1>1, <1>2 DEF Fits, Where, Staged, Granting, Alone, Integrating, Pushes, Opens, Merges
<1>4. \A t \in tick.thread : Marker(t) \in Markers
  BY TickFields, MarkerFacts DEF TypeInv
<1>5. SameReceipt
  BY <1>4 DEF Replied, Persist, TypeInv, Receipts, SameReceipt, SameRepair
<1> QED BY <1>1, <1>2, <1>3, <1>5, LocalStep DEF TypeInv

LEMMA FinishStep == ASSUME PullRequestInv, Finish PROVE PullRequestInv'
<1> USE DEF PullRequestInv
<1>1. /\ tick.at = "finish" /\ held' = held /\ ~held /\ Local /\ Carried /\ pr.phase # "merged"
  BY DEF Finish, At, Fits, Where
<1>2. tick' \in Ticks /\ tick'.at = "finish2"
  BY GotoFacts DEF Finish, TypeInv, Labels
<1>3. R.ids \subseteq Reviews
  BY WorkerIsHandle, RepairFields
<1>4. /\ pr' \in Receipts /\ pr'.phase = pr.phase /\ pr'.repair = pr.repair
      /\ pr'.prepared = pr.prepared /\ pr'.pushed = pr.pushed /\ pr'.base = pr.base
      /\ pr'.repaired = pr.repaired \cup R.ids /\ pr'.count = pr.count
  BY <1>3 DEF Finish, Persist, TypeInv, Receipts
<1>5. TypeInv'
  BY <1>1, <1>2, <1>4 DEF TypeInv, Local
<1>6. Asked' /\ Delivered' /\ Published'
  BY <1>1, <1>4 DEF Asked, Delivered, Published, Carried, R, Repairing, Local
<1>7. Fits(tick)'
  BY <1>1, <1>2, <1>4 DEF Fits, Where, Staged, Granting, Alone, Integrating, Pushes, Opens, Merges
<1>8. MergedCarriesAll'
  BY <1>1, <1>4 DEF MergedCarriesAll
<1>9. \A t \in R.ids : Answered(t)
  BY <1>1, CarriedAnswers
<1>10. AnsweredByPush'
  BY <1>1, <1>4, <1>9 DEF Ended, AnsweredByPush, Answered, Local
<1> QED BY <1>5, <1>6, <1>7, <1>8, <1>10 DEF Ended

----------------------------------------------------------------------------
(* The workers and the people.                                              *)
LEMMA EndTurnStep ==
  ASSUME PullRequestInv, NEW h \in Handle, NEW s \in Says, EndTurn(h, s) PROVE PullRequestInv'
<1> USE DEF PullRequestInv
<1>1. /\ tick' = tick /\ tick.at = "rest" /\ crew[h].st = "working"
      /\ UNCHANGED <<land, pr, held, stage, repo, gh, gated, doubled>>
  BY DEF EndTurn, At, hist
<1> DEFINE c == IF s \in {"done", "bare"} THEN crew[h].head \cup {Repair(h)} ELSE crew[h].head
           w == [crew[h] EXCEPT !.st = "idle", !.turn = @ + 1, !.says = s, !.head = c]
<1>2. crew[h] \in RepairWorkers /\ (crew[h].says \in {"done", "bare"} => Repair(h) \in crew[h].head)
  BY DEF TypeInv, Delivered
<1>3. c \in Commits /\ crew[h].head \subseteq c /\ (s \in {"done", "bare"} => Repair(h) \in c)
  BY <1>2 DEF RepairWorkers, Commits, Change
<1>4. crew' = [crew EXCEPT ![h] = w]
  BY DEF EndTurn
<1> HIDE DEF c
<1>5. Grown(h, crew[h], w)
  BY <1>1, <1>2, <1>3, TurnFacts
<1> HIDE DEF w
<1>6. GrowingCrew
  BY <1>4, <1>5, OneWorker
<1>7. Growing
  BY <1>1, <1>6, HubStays, ReceiptStays DEF Growing, TypeInv
<1> QED BY <1>1, <1>7, FitsAtRest, GrowingStep

LEMMA GoesOnStep ==
  ASSUME PullRequestInv, NEW h \in Handle, GoesOn(h) PROVE PullRequestInv'
<1> USE DEF PullRequestInv
<1>1. /\ tick' = tick /\ tick.at = "rest" /\ crew[h].st # "none"
      /\ crew' = [crew EXCEPT ![h].st = "working"]
      /\ UNCHANGED <<land, pr, held, stage, repo, gh, gated, doubled>>
  BY DEF GoesOn, At, hist
<1>2. Growing
  BY <1>1, WorkerStops, HubStays, ReceiptStays DEF Growing, TypeInv
<1> QED BY <1>1, <1>2, FitsAtRest, GrowingStep

LEMMA DieStep ==
  ASSUME PullRequestInv, NEW h \in Handle, Die(h) PROVE PullRequestInv'
<1> USE DEF PullRequestInv
<1>1. /\ tick' = tick /\ crew[h].st # "none"
      /\ crew' = [crew EXCEPT ![h].st = "gone"]
      /\ UNCHANGED <<land, pr, held, stage, repo, gh, gated, doubled>>
  BY DEF Die, Adopts, hist
<1>2. Growing
  BY <1>1, WorkerStops, HubStays, ReceiptStays DEF Growing, TypeInv
<1> QED BY <1>1, <1>2, GrowingStep

(* What people do at GitHub adds to the branch or the base, or ends what is  *)
(* not merged.                                                              *)
LEMMA WorldStep ==
  ASSUME PullRequestInv, World, GrowingHub, gh'.replies = gh.replies PROVE PullRequestInv'
<1> USE DEF PullRequestInv
<1>1. UNCHANGED <<land, pr, held, stage, crew, tick, gated, doubled>>
  BY DEF World, hist
<1>2. Growing
  BY <1>1, CrewStays, ReceiptStays DEF Growing, TypeInv
<1> QED BY <1>1, <1>2, GrowingStep

LEMMA HeadMovesStep == ASSUME PullRequestInv, HeadMoves PROVE PullRequestInv'
<1> USE DEF PullRequestInv
<1>1. PICK n \in 1..MaxTheirs : repo' = [repo EXCEPT !.head = @ \cup {Theirs(n)}]
  BY DEF HeadMoves
<1>2. repo.head \cup {Theirs(n)} \in Commits
  BY <1>1, RemoteFacts DEF TypeInv, Commits, Change
<1>3. repo' \in Remotes /\ repo.head \subseteq repo'.head /\ repo.base \subseteq repo'.base
  BY <1>1, <1>2 DEF TypeInv, Remotes
<1>4. gh' \in Requests /\ gh'.st = gh.st /\ gh'.replies = gh.replies
  BY DEF HeadMoves, TypeInv, Requests, Results
<1> QED BY <1>3, <1>4, WorldStep DEF HeadMoves, GrowingHub

LEMMA BaseMovesStep == ASSUME PullRequestInv, BaseMoves PROVE PullRequestInv'
<1> USE DEF PullRequestInv
<1>1. PICK n \in 1..MaxBase : repo' = [repo EXCEPT !.base = @ \cup {Moved(n)}]
  BY DEF BaseMoves
<1>2. repo.base \cup {Moved(n)} \in Commits
  BY <1>1, RemoteFacts DEF TypeInv, Commits, Change
<1>3. repo' \in Remotes /\ repo.head \subseteq repo'.head /\ repo.base \subseteq repo'.base
  BY <1>1, <1>2 DEF TypeInv, Remotes
<1> QED BY <1>3, WorldStep DEF BaseMoves, GrowingHub, TypeInv

LEMMA CIStep == ASSUME PullRequestInv, CI PROVE PullRequestInv'
<1> USE DEF PullRequestInv
<1>1. PICK x \in Results : gh' = [gh EXCEPT !.ci = x]
  BY RequestFacts DEF CI, Results, TypeInv
<1>2. gh' \in Requests /\ gh'.st = gh.st /\ gh'.replies = gh.replies
  BY <1>1 DEF TypeInv, Requests
<1> QED BY <1>2, WorldStep DEF CI, GrowingHub, TypeInv

LEMMA SubmitStep == ASSUME PullRequestInv, Submit PROVE PullRequestInv'
<1> USE DEF PullRequestInv
<1>1. PICK r \in Reviews \ DOMAIN gh.reviews, k \in Kinds :
        gh' = [gh EXCEPT !.reviews = [q \in DOMAIN gh.reviews \cup {r} |->
                                        IF q = r THEN k ELSE gh.reviews[q]],
                         !.late = IF pr.first THEN @ \cup {r} ELSE @]
  BY DEF Submit
<1> DEFINE f == [q \in DOMAIN gh.reviews \cup {r} |-> IF q = r THEN k ELSE gh.reviews[q]]
           l == IF pr.first THEN gh.late \cup {r} ELSE gh.late
<1>0. gh.reviews \in Submitted /\ gh.late \subseteq Reviews /\ r \in Reviews
  BY DEF TypeInv, Requests
<1>2. f \in Submitted
  <2>1. PICK S \in SUBSET Reviews : gh.reviews \in [S -> Kinds]
    BY <1>0 DEF Submitted
  <2>2. f \in [S \cup {r} -> Kinds]
    BY <2>1
  <2>3. S \cup {r} \in SUBSET Reviews
    BY <1>0
  <2> HIDE DEF f
  <2> QED BY <2>2, <2>3 DEF Submitted
<1>3. l \in SUBSET Reviews
  BY <1>0
<1>4. gh' = [gh EXCEPT !.reviews = f, !.late = l]
  BY <1>1
<1> HIDE DEF f, l
<1>5. gh' \in Requests /\ gh'.st = gh.st /\ gh'.replies = gh.replies
  BY <1>2, <1>3, <1>4 DEF TypeInv, Requests
<1> QED BY <1>5, WorldStep DEF Submit, GrowingHub, TypeInv

LEMMA PersonMergesStep == ASSUME PullRequestInv, PersonMerges PROVE PullRequestInv'
BY LandedGrows, WorldStep DEF PersonMerges, PullRequestInv

LEMMA PersonClosesStep ==
  ASSUME PullRequestInv, PersonCloses \/ Reopens PROVE PullRequestInv'
<1> USE DEF PullRequestInv
<1>1. PICK x \in {"open", "closed"} : gh' = [gh EXCEPT !.st = x]
  BY DEF PersonCloses, Reopens
<1>2. gh' \in Requests /\ gh'.replies = gh.replies /\ gh.st # "merged"
  BY <1>1 DEF PersonCloses, Reopens, TypeInv, Requests, Stands
<1> QED BY <1>2, WorldStep DEF PersonCloses, Reopens, GrowingHub, TypeInv

----------------------------------------------------------------------------
(* The invariant and the theorems.                                          *)
LEMMA InitInv == ASSUME Init PROVE PullRequestInv
<1> USE DEF Init
<1>0. {Main, Tree} \in Commits /\ {Main} \in Commits /\ None \in Commits
  BY DEF Commits, Change, None
<1>1. pr \in Receipts /\ R = NoRepair /\ pr.count = 0 /\ pr.phase = "opening"
      /\ pr.pushed = None /\ pr.base = {Main} /\ pr.prepared = {Main, Tree} /\ pr.repaired = {}
  BY <1>0, NoRepairFacts DEF Receipts, Phases, R
<1>2. crew \in [Handle -> RepairWorkers]
  BY <1>0 DEF Unborn, RepairWorkers
<1>3. \A h \in Handle : crew[h].st = "none" /\ crew[h].asked = {} /\ crew[h].says = "none"
  BY DEF Unborn
<1>4. gh \in Requests /\ gh.replies = {} /\ gh.st = "none"
  <2> DEFINE f == [r \in {} |-> "none"]
  <2>1. f \in [{} -> Kinds]
    OBVIOUS
  <2>2. f \in Submitted
    BY <2>1 DEF Submitted
  <2>3. gh = [st |-> "none", ci |-> "none", merge |-> None, by |-> "none",
              reviews |-> f, late |-> {}, replies |-> {}]
    OBVIOUS
  <2> HIDE DEF f
  <2> QED BY <1>0, <2>2, <2>3 DEF Requests, Stands, Results
<1>5. tick \in Ticks /\ tick.at = "rest"
  BY RestFacts
<1>6. TypeInv
  BY <1>0, <1>1, <1>2, <1>4, <1>5 DEF TypeInv, Remotes
<1>7. Asked /\ Delivered /\ Published
  BY <1>1, <1>3, NoRepairFacts, PullRequestAssumption
  DEF Asked, Delivered, Published, Repairing, None
<1>8. Fits(tick)
  BY <1>5, FitsAtRest
<1>9. Ended
  BY <1>1, <1>4 DEF Ended, MergedCarriesAll, AnsweredByPush
<1> QED BY <1>6, <1>7, <1>8, <1>9 DEF PullRequestInv

LEMMA StutterInv == ASSUME PullRequestInv, UNCHANGED vars PROVE PullRequestInv'
BY DEF vars, PullRequestInv, TypeInv, Asked, Delivered, Published, Carried, R, Repairing, Fits,
       Where, Staged, Granting, Ended, MergedCarriesAll, AnsweredByPush

LEMMA NextInv == ASSUME PullRequestInv, [Next]_vars PROVE PullRequestInv'
<1>1. CASE UNCHANGED vars
  BY <1>1, StutterInv
<1>2. CASE Observe \/ ObserveForPush \/ ObserveForMerge \/ ObserveRefused
  BY <1>2, ObserveStep, ObserveForPushStep, ObserveForMergeStep, ObserveRefusedStep
<1>3. CASE Judge \/ RetireEnded \/ RetireLanded \/ RetireFinished
  BY <1>3, JudgeStep, RetireSteps
<1>4. CASE Hold \/ Paused \/ Hear \/ Route \/ Intend \/ Spawn \/ Launched \/ Tell
  BY <1>4, HoldStep, PausedStep, HearStep, RouteStep, IntendStep, SpawnStep, LaunchedStep, TellStep
<1>5. CASE Fetch \/ Merge \/ Gate \/ Complete \/ Prepare \/ Integrate \/ Regate
  BY <1>5, FetchStep, MergeStep, GateStep, CompleteStep, PrepareStep, IntegrateStep, RegateStep
<1>6. CASE Pushing \/ Push \/ PushFails \/ Pushed \/ RepairPushed
  BY <1>6, PushingStep, PushStep, PushFailsStep, PushedStep, RepairPushedStep
<1>7. CASE Open \/ OpenAnswerLost \/ Opened \/ MergeFetch \/ MergeRequest \/ Refused
  BY <1>7, OpenStep, OpenAnswerLostStep, OpenedStep, MergeFetchStep, MergeRequestStep, RefusedStep
<1>8. CASE Checks \/ Review \/ Reply \/ Replied \/ Finish \/ Shelve
  BY <1>8, ChecksStep, ReviewStep, ReplyStep, RepliedStep, FinishStep, ShelveStep
<1>9. CASE \E a \in {"answer", "retry"} : Resolve(a)
  BY <1>9, ResolveStep
<1>10. CASE \E h \in Handle : GoesOn(h) \/ Die(h) \/ \E s \in Says : EndTurn(h, s)
  BY <1>10, GoesOnStep, DieStep, EndTurnStep
<1>11. CASE HeadMoves \/ BaseMoves \/ CI \/ Submit \/ PersonMerges \/ PersonCloses \/ Reopens
  BY <1>11, HeadMovesStep, BaseMovesStep, CIStep, SubmitStep, PersonMergesStep, PersonClosesStep
<1>12. CASE Crash \/ \E a \in Throwing : Throws(a)
  BY <1>12, CrashStep, ThrowsStep
<1> QED BY <1>1, <1>2, <1>3, <1>4, <1>5, <1>6, <1>7, <1>8, <1>9, <1>10, <1>11, <1>12 DEF Next

(* The invariant holds of every reachable state: types, what the receipt    *)
(* says of the repair's worker and commit, and where a tick can be.         *)
THEOREM PullRequestInvariant == Spec => []PullRequestInv
<1>1. Init => PullRequestInv
  BY InitInv
<1>2. PullRequestInv /\ [Next]_vars => PullRequestInv'
  BY NextInv
<1> QED BY <1>1, <1>2, PTL DEF Spec

(* A receipt that says merged is true: terminal() found every prepared and  *)
(* pushed head in the merge, and nothing prepares or pushes afterwards.     *)
THEOREM MergedReceiptsAreTrue == Spec => []MergedCarriesAll
<1>1. PullRequestInv => MergedCarriesAll
  BY DEF PullRequestInv, Ended
<1> QED BY <1>1, PullRequestInvariant, PTL

(* A review that counts as repaired, or has its reply, has the commit of a  *)
(* worker asked about it on the branch, and one reply for each pushed head.  *)
THEOREM RepliesFollowPushes == Spec => []AnsweredByPush
<1>1. PullRequestInv => AnsweredByPush
  BY DEF PullRequestInv, Ended
<1> QED BY <1>1, PullRequestInvariant, PTL

(* Only the merge request itself makes the run the one who merged.          *)
LEMMA OnlyRequestMerges ==
  ASSUME PullRequestInv, [Next]_vars, gh.by # "run", gh'.by = "run"
  PROVE  MergeRequest
<1> USE DEF PullRequestInv
<1>1. gh \in Requests
  BY DEF TypeInv
<1>2. ASSUME gh' = gh PROVE FALSE
  BY <1>2
<1>3. ASSUME Local PROVE FALSE
  BY <1>2, <1>3 DEF Local
<1>4. ASSUME Push PROVE FALSE
  BY <1>1, <1>2, <1>4 DEF Push, Requests
<1>5. ASSUME Open \/ OpenAnswerLost \/ Reply PROVE FALSE
  BY <1>1, <1>2, <1>5 DEF Open, OpenAnswerLost, Reply, Requests
<1>6. ASSUME HeadMoves \/ BaseMoves \/ CI \/ PersonCloses \/ Reopens PROVE FALSE
  BY <1>1, <1>2, <1>6 DEF HeadMoves, BaseMoves, CI, PersonCloses, Reopens, Requests
<1>7. ASSUME Submit PROVE FALSE
  BY <1>1, <1>7 DEF Submit, Requests
<1>8. ASSUME PersonMerges PROVE FALSE
  BY <1>8, LandedGrows DEF PersonMerges
<1>9. ASSUME UNCHANGED vars PROVE FALSE
  BY <1>2, <1>9 DEF vars
<1>10. ASSUME \/ Observe \/ ObserveForPush \/ ObserveForMerge \/ ObserveRefused \/ Judge
              \/ Hold \/ Paused \/ Hear \/ Route \/ Intend \/ Launched
              \/ Fetch \/ Complete \/ Pushing \/ PushFails \/ Pushed \/ RepairPushed
              \/ Opened \/ MergeFetch \/ Refused \/ Checks \/ Review \/ Replied \/ Finish
              \/ Shelve \/ Crash \/ \E a \in Throwing : Throws(a)
       PROVE  FALSE
  BY <1>3, <1>10
  DEF Observe, ObserveForPush, ObserveForMerge, ObserveRefused, Look, Judge, Hold, Paused, Hear,
      Route, Intend, Launched, Fetch, Complete, Pushing, PushFails, Pushed, RepairPushed,
      Opened, MergeFetch, Refused, Checks, Review, Replied, Finish, Shelve, Crash, Throws
<1>11. ASSUME \/ RetireEnded \/ RetireLanded \/ RetireFinished \/ Spawn \/ Tell
              \/ Merge \/ Gate \/ Prepare \/ Integrate \/ Regate
              \/ \E a \in {"answer", "retry"} : Resolve(a)
              \/ \E h \in Handle : GoesOn(h) \/ Die(h) \/ \E s \in Says : EndTurn(h, s)
       PROVE  FALSE
  BY <1>2, <1>11
  DEF RetireEnded, RetireLanded, RetireFinished, Retiring, Spawn, Tell, Merge, Gate, Prepare,
      Integrate, Regate, Resolve, GoesOn, Die, EndTurn
<1> QED BY <1>4, <1>5, <1>6, <1>7, <1>8, <1>9, <1>10, <1>11 DEF Next

(* What the run merges is what it gated, in the mode that merges, with      *)
(* nothing under repair and nobody to be asked: whatever people pushed,     *)
(* moved or reviewed between the looks of mergeIfReady() and its request.    *)
THEOREM MergesAreEarned == Spec => MergesWhatItGated
<1> DEFINE Earned == (gh.by # "run" /\ gh'.by = "run") =>
                       /\ land = "pr-merge" /\ ~held /\ ~Repairing
                       /\ repo.head \in gated /\ pr.base \subseteq repo.head
                       /\ tick.snap.ci \in Green
<1>1. PullRequestInv /\ [Next]_vars => Earned
  <2> SUFFICES ASSUME PullRequestInv, [Next]_vars, gh.by # "run", gh'.by = "run"
               PROVE  /\ land = "pr-merge" /\ ~held /\ ~Repairing
                      /\ repo.head \in gated /\ pr.base \subseteq repo.head
                      /\ tick.snap.ci \in Green
    OBVIOUS
  <2>1. MergeRequest
    BY OnlyRequestMerges
  <2>2. tick.at = "mergego" /\ repo.head = tick.snap.head
    BY <2>1 DEF MergeRequest, At
  <2>3. /\ land = "pr-merge" /\ ~held /\ ~Repairing /\ pr.phase # "merged"
        /\ pr.pushed = pr.prepared /\ pr.prepared \in gated
        /\ tick.snap.head = pr.pushed /\ tick.snap.ci \in Green
    BY <2>2 DEF PullRequestInv, Fits, Where, Staged, Granting, Alone, Merges
  <2> QED BY <2>2, <2>3 DEF PullRequestInv, Published
<1>2. Spec => [][Earned]_vars
  <2> HIDE DEF Earned
  <2> QED BY <1>1, PullRequestInvariant, PTL DEF Spec
<1> QED BY <1>2 DEF MergesWhatItGated
================================================================================
