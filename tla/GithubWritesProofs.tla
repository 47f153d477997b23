-------------------------- MODULE GithubWritesProofs --------------------------
(***************************************************************************)
(* What the GitHub tracker's writes promise for every number of issues,    *)
(* callers, failed or lost mutations, deaths and deeds of people: a create *)
(* that is made again and again makes one issue.                           *)
(***************************************************************************)
EXTENDS GithubWrites, FiniteSetTheorems, TLAPS

(* A record, or a function: it is its fields.                               *)
IsFcn(f) == f = [x \in DOMAIN f |-> f[x]]

(* GitHub's issues and the journal are records with the fields that creation *)
(* is about.                                                                *)
HubShape(h) ==
  /\ DOMAIN h = Issue /\ IsFcn(h)
  /\ \A i \in Issue : IsFcn(h[i]) /\ "here" \in DOMAIN h[i] /\ h[i].here \in BOOLEAN
JournalShape(j) == IsFcn(j) /\ "create" \in DOMAIN j

(* The call: what it does next, then, and the call it was made in.  A nested *)
(* update returns to the close that frees a dependent; no call but a create  *)
(* gets to publish.                                                         *)
Later == {"complete", "again", "release", "forget", "moved"}
Shaped(c) == IsFcn(c) /\ {"at", "then"} \subseteq DOMAIN c
Plain(c) == Shaped(c) /\ c.then \in Seq(Later) /\ c.at # "freed"
Nested(c) ==
  /\ Shaped(c) /\ "outer" \in DOMAIN c
  /\ Plain(c.outer) /\ c.outer.at = "free"
  /\ \/ c.then = <<"freed">> /\ c.at \in {"update", "relate", "issue", "note", "clear"}
     \/ c.then = <<>> /\ c.at = "freed"
Idle(c) == c = NoCall
CallOK(c) == Idle(c) \/ Plain(c) \/ Nested(c)

(* The journal says publishing before GitHub is asked, and never takes it    *)
(* back; until then there is no issue, and whoever is about to ask is the    *)
(* first.                                                                   *)
Once ==
  /\ journal.create \in {"none", "intent"} => \A i \in Fresh : ~hub[i].here
  /\ At("publish") => journal.create = "publishing" /\ \A i \in Fresh : ~hub[i].here
  /\ \A i, j \in Fresh : hub[i].here /\ hub[j].here => i = j

GithubInv == HubShape(hub) /\ JournalShape(journal) /\ CallOK(call) /\ Once

----------------------------------------------------------------------------
(* Calls.                                                                   *)
LEMMA NoCallOK == CallOK(NoCall) /\ NoCall.at = "none"
BY DEF CallOK, Idle, NoCall

(* The next step of the same call.                                          *)
LEMMA ToOK ==
  ASSUME NEW c, Plain(c), NEW a, a # "freed"
  PROVE  LET q == [c EXCEPT !.at = a] IN Plain(q) /\ q.at = a /\ q.then = c.then
BY DEF Plain, Shaped, IsFcn

LEMMA NestedTo ==
  ASSUME NEW c, Nested(c), c.then = <<"freed">>, NEW a \in {"update", "relate", "issue", "note", "clear"}
  PROVE  LET q == [c EXCEPT !.at = a] IN Nested(q) /\ q.at = a /\ q.then = c.then
<1> DEFINE q == [c EXCEPT !.at = a]
<1>1. q.at = a /\ q.then = c.then /\ q.outer = c.outer /\ DOMAIN q = DOMAIN c /\ IsFcn(q)
  BY DEF Nested, Shaped, IsFcn
<1> HIDE DEF q
<1>2. Shaped(q)
  BY <1>1 DEF Nested, Shaped
<1>3. Nested(q)
  BY <1>1, <1>2 DEF Nested
<1> QED BY <1>1, <1>3 DEF q

(* Another field of a call.                                                 *)
LEMMA FieldOK ==
  ASSUME NEW c, Plain(c) \/ Nested(c), NEW f, f \notin {"at", "then", "outer"}, NEW v
  PROVE  LET q == [c EXCEPT ![f] = v] IN
           (Plain(c) => Plain(q)) /\ (Nested(c) => Nested(q)) /\ q.at = c.at /\ q.then = c.then
<1> DEFINE q == [c EXCEPT ![f] = v]
<1>1. q.at = c.at /\ q.then = c.then /\ DOMAIN q = DOMAIN c /\ IsFcn(q)
  BY DEF Plain, Nested, Shaped, IsFcn
<1>2. Nested(c) => q.outer = c.outer
  BY DEF Nested, Shaped, IsFcn
<1> HIDE DEF q
<1>3. Shaped(c) /\ Shaped(q)
  BY <1>1 DEF Plain, Nested, Shaped
<1>4. Plain(c) => Plain(q)
  BY <1>1, <1>3 DEF Plain
<1>5. Nested(c) => Nested(q)
  BY <1>1, <1>2, <1>3 DEF Nested
<1> QED BY <1>1, <1>4, <1>5 DEF q

LEMMA ThenFieldOK ==
  ASSUME NEW c, Plain(c), NEW v \in Seq(Later)
  PROVE  LET q == [c EXCEPT !.then = v] IN Plain(q) /\ q.at = c.at /\ q.then = v
BY DEF Plain, Shaped, IsFcn

LEMMA TwoFieldsOK ==
  ASSUME NEW c, Plain(c), NEW v \in Seq(Later), NEW u
  PROVE  LET q == [c EXCEPT !.fields = u, !.then = v] IN Plain(q) /\ q.at = c.at
BY DEF Plain, Shaped, IsFcn

LEMMA LaterFacts ==
  /\ <<"complete">> \in Seq(Later) /\ <<"again">> \in Seq(Later) /\ <<"forget">> \in Seq(Later)
  /\ <<"release", "forget">> \in Seq(Later) /\ <<"release", "moved">> \in Seq(Later)
  /\ <<>> \in Seq(Later)
BY DEF Later

(* The rest of a call.                                                      *)
LEMMA ThenOK ==
  ASSUME Plain(call) \/ (Nested(call) /\ call.then = <<"freed">>)
  PROVE  CallOK(Then) /\ Then.at # "publish"
<1>1. CASE Plain(call) /\ call.then = <<>>
  BY <1>1, NoCallOK DEF Then
<1>2. CASE Plain(call) /\ call.then # <<>>
  <2> DEFINE a == Head(call.then)
             t == Tail(call.then)
             q == [call EXCEPT !.at = a, !.then = t]
  <2>1. a \in Later /\ t \in Seq(Later)
    BY <1>2 DEF Plain
  <2>2. Then = q
    BY <1>2 DEF Then
  <2> HIDE DEF a, t
  <2>3. IsFcn(q) /\ DOMAIN q = DOMAIN call /\ q.at = a /\ q.then = t
    BY <1>2 DEF Plain, Shaped, IsFcn
  <2> HIDE DEF q
  <2> QED BY <1>2, <2>1, <2>2, <2>3 DEF CallOK, Plain, Shaped, Later
<1>3. CASE Nested(call) /\ call.then = <<"freed">>
  <2> DEFINE q == [call EXCEPT !.at = "freed", !.then = <<>>]
  <2>1. Then = q
    BY <1>3 DEF Then
  <2>2. IsFcn(q) /\ DOMAIN q = DOMAIN call /\ q.at = "freed" /\ q.then = <<>> /\ q.outer = call.outer
    BY <1>3 DEF Nested, Shaped, IsFcn
  <2> HIDE DEF q
  <2> QED BY <1>3, <2>1, <2>2 DEF CallOK, Nested, Shaped
<1> QED BY <1>1, <1>2, <1>3

----------------------------------------------------------------------------
(* GitHub and the journal.                                                  *)

(* Nothing is created or destroyed.                                         *)
Alike(h) == HubShape(h) /\ \A i \in Issue : h[i].here = hub[i].here

LEMMA EditAlike ==
  ASSUME HubShape(hub), NEW i, NEW f, f # "here", NEW v
  PROVE  Alike([hub EXCEPT ![i] = [hub[i] EXCEPT ![f] = v]])
<1> DEFINE r == [hub[i] EXCEPT ![f] = v]
           h == [hub EXCEPT ![i] = r]
<1>1. CASE i \in Issue
  <2>1. IsFcn(r) /\ "here" \in DOMAIN r /\ r.here = hub[i].here
    BY <1>1 DEF HubShape, IsFcn
  <2> HIDE DEF r
  <2>2. DOMAIN h = Issue /\ IsFcn(h) /\ h[i] = r /\ \A k \in Issue \ {i} : h[k] = hub[k]
    BY <1>1 DEF HubShape, IsFcn
  <2> HIDE DEF h
  <2>3. Alike(h)
    BY <1>1, <2>1, <2>2 DEF HubShape, Alike
  <2> QED BY <2>3 DEF h, r
<1>2. CASE i \notin Issue
  <2>1. h = hub
    BY <1>2 DEF HubShape, IsFcn
  <2> HIDE DEF h
  <2>2. Alike(h)
    BY <2>1 DEF Alike
  <2> QED BY <2>2 DEF h, r
<1> QED BY <1>1, <1>2

(* One edit after another.                                                  *)
LEMMA EditOf ==
  ASSUME NEW g, Alike(g), NEW i, NEW v
  PROVE  Alike([g EXCEPT ![i].human = v])
<1> DEFINE r == [g[i] EXCEPT !.human = v]
           h == [g EXCEPT ![i] = r]
<1>1. CASE i \in Issue
  <2>1. IsFcn(r) /\ "here" \in DOMAIN r /\ r.here = g[i].here
    BY <1>1 DEF Alike, HubShape, IsFcn
  <2> HIDE DEF r
  <2>2. DOMAIN h = Issue /\ IsFcn(h) /\ h[i] = r /\ \A k \in Issue \ {i} : h[k] = g[k]
    BY <1>1 DEF Alike, HubShape, IsFcn
  <2> HIDE DEF h
  <2>3. Alike(h)
    BY <1>1, <2>1, <2>2 DEF HubShape, Alike
  <2> QED BY <2>3 DEF h, r
<1>2. CASE i \notin Issue
  <2>1. h = g
    BY <1>2 DEF Alike, HubShape, IsFcn
  <2> HIDE DEF h
  <2> QED BY <2>1 DEF h, r
<1> QED BY <1>1, <1>2

LEMMA SelfAlike == ASSUME HubShape(hub) PROVE Alike(hub)
BY DEF Alike

LEMMA JournalOK ==
  ASSUME JournalShape(journal), NEW f, f # "create", NEW v
  PROVE  LET j == [journal EXCEPT ![f] = v] IN JournalShape(j) /\ j.create = journal.create
BY DEF JournalShape, IsFcn

LEMMA CreateOK ==
  ASSUME JournalShape(journal), NEW v
  PROVE  LET j == [journal EXCEPT !.create = v] IN JournalShape(j) /\ j.create = v
BY DEF JournalShape, IsFcn

----------------------------------------------------------------------------
(* Steps.                                                                   *)

(* A step that creates nothing and does not get to publish.                 *)
LEMMA KeepStep ==
  ASSUME GithubInv, HubShape(hub'), \A i \in Issue : hub'[i].here = hub[i].here,
         JournalShape(journal'),
         \/ journal'.create = journal.create
         \/ journal.create = "none" /\ journal'.create = "intent"
         \/ journal'.create \notin {"none", "intent"},
         CallOK(call'), call'.at # "publish"
  PROVE  GithubInv'
<1>1. Once'
  BY DEF GithubInv, Once, At, Issue
<1> QED BY <1>1 DEF GithubInv

LEMMA SaveStep ==
  ASSUME GithubInv, NEW j, NEW next, Save(j, next), JournalShape(j),
         \/ j.create = journal.create
         \/ journal.create = "none" /\ j.create = "intent"
         \/ j.create \notin {"none", "intent"},
         CallOK(next), next.at # "publish"
  PROVE  GithubInv'
<1>1. hub' = hub /\ journal' = j /\ call' = next
  BY DEF Save
<1> QED BY <1>1, KeepStep DEF GithubInv

LEMMA GoOnStep ==
  ASSUME GithubInv, NEW next, GoOn(next), CallOK(next), next.at # "publish"
  PROVE  GithubInv'
BY SaveStep DEF GoOn, GithubInv

LEMMA MutateStep ==
  ASSUME GithubInv, NEW after, NEW next, Mutate(after, next), Alike(after),
         CallOK(next), next.at # "publish"
  PROVE  GithubInv'
<1>1. hub' \in {hub, after} /\ journal' = journal /\ call' \in {next, NoCall}
  BY DEF Mutate, End
<1>2. HubShape(hub') /\ \A i \in Issue : hub'[i].here = hub[i].here
  BY <1>1 DEF Alike, GithubInv
<1> QED BY <1>1, <1>2, NoCallOK, KeepStep DEF GithubInv

LEMMA LoadStep ==
  ASSUME GithubInv, NEW next, Load(next), CallOK(next), next.at # "publish"
  PROVE  GithubInv'
<1>1. hub' = hub /\ journal' = journal /\ call' = next
  BY DEF Load
<1> QED BY <1>1, KeepStep DEF GithubInv

LEMMA RefuseStep ==
  ASSUME GithubInv, Refuse
  PROVE  GithubInv'
<1>1. hub' = hub /\ journal' = journal /\ call' = NoCall
  BY DEF Refuse, End
<1> QED BY <1>1, NoCallOK, KeepStep DEF GithubInv

(* What a call is, by what it does next.                                    *)
LEMMA CallFacts ==
  ASSUME GithubInv, NEW a, At(a), a \notin {"none", "freed"}
  PROVE  /\ Plain(call) \/ (Nested(call) /\ call.then = <<"freed">>)
         /\ a \notin {"update", "relate", "issue", "note", "clear"} => Plain(call)
BY NoCallOK DEF GithubInv, CallOK, Idle, Nested, At, NoCall

(* The next step of a call that is not a create's.                          *)
LEMMA ToStepOK ==
  ASSUME Plain(call) \/ (Nested(call) /\ call.then = <<"freed">>), NEW a, a \notin {"freed", "publish"},
         Plain(call) \/ a \in {"update", "relate", "issue", "note", "clear"}
  PROVE  /\ CallOK(To(a)) /\ To(a).at # "publish" /\ To(a).at = a /\ To(a).then = call.then
         /\ Plain(call) => Plain(To(a))
         /\ Nested(call) /\ call.then = <<"freed">> => Nested(To(a))
<1>1. CASE Plain(call)
  <2>1. Plain(To(a)) /\ To(a).at = a /\ To(a).then = call.then
    BY <1>1, ToOK DEF To
  <2>2. ~(Nested(call) /\ call.then = <<"freed">>)
    BY <1>1 DEF Plain, Later
  <2> QED BY <2>1, <2>2 DEF CallOK
<1>2. CASE ~Plain(call)
  <2>1. Nested(To(a)) /\ To(a).at = a /\ To(a).then = call.then
    BY <1>2, NestedTo DEF To
  <2> QED BY <1>2, <2>1 DEF CallOK
<1> QED BY <1>1, <1>2
----------------------------------------------------------------------------
(* update.                                                                  *)
LEMMA IntendStep == ASSUME GithubInv, Intend PROVE GithubInv'
<1>1. Plain(call) \/ (Nested(call) /\ call.then = <<"freed">>)
  BY CallFacts DEF Intend
<1>2. CASE Refuse
  BY <1>2, RefuseStep
<1>3. CASE ~Refuse
  <2> DEFINE j == [journal EXCEPT !.update = (i0 :> call.fields) @@ @]
             q == [To("relate") EXCEPT !.left = Edits]
  <2>1. Save(j, q)
    BY <1>3 DEF Intend
  <2>2. JournalShape(j) /\ j.create = journal.create
    BY JournalOK DEF GithubInv
  <2>3. /\ Plain(To("relate")) \/ Nested(To("relate"))
        /\ To("relate").at = "relate"
    BY <1>1, ToStepOK
  <2>4. CallOK(q) /\ q.at = "relate"
    BY <2>3, FieldOK DEF CallOK
  <2> HIDE DEF j, q
  <2> QED BY <2>1, <2>2, <2>4, SaveStep
<1> QED BY <1>2, <1>3

LEMMA EditedAlike == ASSUME GithubInv, NEW e PROVE Alike(Edited(e))
BY EditAlike DEF Edited, GithubInv

LEMMA RelateStep == ASSUME GithubInv, Relate PROVE GithubInv'
<1>1. Plain(call) \/ (Nested(call) /\ call.then = <<"freed">>)
  BY CallFacts DEF Relate
<1>2. CASE Refuse
  BY <1>2, RefuseStep
<1>3. CASE \E a \in {"issue", "note"} : GoOn(To(a))
  <2>1. PICK a \in {"issue", "note"} : GoOn(To(a))
    BY <1>3
  <2> QED BY <1>1, <2>1, ToStepOK, GoOnStep
<1>4. CASE \E e : Mutate(Edited(e), [call EXCEPT !.left = @ \ {e}])
  <2>1. PICK e : Mutate(Edited(e), [call EXCEPT !.left = @ \ {e}])
    BY <1>4
  <2> DEFINE q == [call EXCEPT !.left = @ \ {e}]
  <2>2. CallOK(q) /\ q.at = call.at
    BY <1>1, FieldOK DEF CallOK
  <2>3. Mutate(Edited(e), q) /\ call.at = "relate"
    BY <2>1 DEF Relate, At
  <2> HIDE DEF q
  <2> QED BY <2>2, <2>3, EditedAlike, MutateStep
<1> QED BY <1>2, <1>3, <1>4 DEF Relate

LEMMA WriteIssueStep == ASSUME GithubInv, WriteIssue PROVE GithubInv'
<1>1. Plain(call) \/ (Nested(call) /\ call.then = <<"freed">>)
  BY CallFacts DEF WriteIssue
<1>2. Alike(Written)
  <2> DEFINE g == IF Has("claimed-by") THEN [hub EXCEPT ![i0].by = Assignees] ELSE hub
  <2>1. Alike(g)
    BY EditAlike, SelfAlike DEF GithubInv
  <2>2. Written = IF Has("assignee") THEN [g EXCEPT ![i0].human = TRUE] ELSE g
    BY DEF Written
  <2> HIDE DEF g
  <2>3. Alike([g EXCEPT ![i0].human = TRUE])
    BY <2>1, EditOf
  <2> QED BY <2>1, <2>2, <2>3
<1> QED BY <1>1, <1>2, ToStepOK, MutateStep DEF WriteIssue

LEMMA ReceiptOK ==
  ASSUME GithubInv, NEW claim
  PROVE  JournalShape(Receipt(claim)) /\ Receipt(claim).create = journal.create
BY JournalOK DEF Receipt, GithubInv

LEMMA NoteStep == ASSUME GithubInv, Note PROVE GithubInv'
<1>1. Plain(call) \/ (Nested(call) /\ call.then = <<"freed">>)
  BY CallFacts DEF Note
<1> QED BY <1>1, ToStepOK, ReceiptOK, SaveStep DEF Note

LEMMA ClearStep == ASSUME GithubInv, Clear PROVE GithubInv'
<1>1. Plain(call) \/ (Nested(call) /\ call.then = <<"freed">>)
  BY CallFacts DEF Clear
<1>2. JournalShape(Cleared) /\ Cleared.create = journal.create
  BY JournalOK DEF Cleared, GithubInv
<1> QED BY <1>1, <1>2, ThenOK, SaveStep DEF Clear

----------------------------------------------------------------------------
(* create.                                                                  *)

(* Only a create whose intent is saved and which was never published gets to *)
(* publish; from then on the journal says so.                               *)
LEMMA CreateStep == ASSUME GithubInv, Create PROVE GithubInv'
<1>1. Plain(call) /\ call.at = "create" /\ JournalShape(journal)
  BY CallFacts DEF Create, At, GithubInv
<1>2. CASE Refuse \/ GoOn(NoCall)
  BY <1>2, RefuseStep, GoOnStep, NoCallOK
<1>3. CASE journal.create = "none" /\ Save([journal EXCEPT !.create = "intent"], call)
  <2> DEFINE j == [journal EXCEPT !.create = "intent"]
  <2>1. JournalShape(j) /\ j.create = "intent" /\ Save(j, call)
    BY <1>1, <1>3, CreateOK
  <2> HIDE DEF j
  <2> QED BY <1>1, <1>3, <2>1, SaveStep DEF CallOK
<1>4. CASE GoOn([To("created") EXCEPT !.slug = CHOOSE i \in Found(s) : TRUE])
  <2> DEFINE q == [To("created") EXCEPT !.slug = CHOOSE i \in Found(s) : TRUE]
  <2>1. Plain(To("created")) /\ To("created").at = "created"
    BY <1>1, ToStepOK
  <2>2. CallOK(q) /\ q.at = "created"
    BY <2>1, FieldOK DEF CallOK
  <2> HIDE DEF q
  <2> QED BY <1>4, <2>2, GoOnStep DEF q
<1>5. CASE MayPublish /\ Save([journal EXCEPT !.create = "publishing"], To("publish"))
  <2> DEFINE j == [journal EXCEPT !.create = "publishing"]
  <2>1. JournalShape(j) /\ j.create = "publishing" /\ Save(j, To("publish"))
    BY <1>1, <1>5, CreateOK
  <2> HIDE DEF j
  <2>2. Plain(To("publish")) /\ To("publish").at = "publish"
    BY <1>1, ToOK DEF To
  <2>3. hub' = hub /\ journal' = j /\ call' = To("publish")
    BY <2>1 DEF Save
  <2>4. \A i \in Fresh : ~hub[i].here
    BY <1>5 DEF MayPublish, GithubInv, Once
  <2>5. Once'
    BY <2>1, <2>2, <2>3, <2>4 DEF Once, At
  <2> QED BY <2>1, <2>2, <2>3, <2>5 DEF GithubInv, CallOK
<1> QED BY <1>2, <1>3, <1>4, <1>5 DEF Create

(* The one issue.                                                           *)
LEMMA PublishStep == ASSUME GithubInv, Publish PROVE GithubInv'
<1> DEFINE new == CHOOSE i \in Fresh : ~hub[i].here
           r == [Native({}) EXCEPT !.by = {Me}]
           h == [hub EXCEPT ![new] = r]
<1>1. Plain(call) /\ call.at = "publish"
  BY CallFacts DEF Publish, At
<1>2. new \in Fresh /\ Mutate(h, To("published"))
  BY DEF Publish
<1>3. IsFcn(r) /\ "here" \in DOMAIN r /\ r.here = TRUE
  BY DEF Native, IsFcn
<1> HIDE DEF new, r
<1>4. HubShape(h) /\ h[new] = r /\ \A i \in Fresh \ {new} : h[i] = hub[i]
  BY <1>2, <1>3 DEF GithubInv, HubShape, IsFcn, Issue
<1> HIDE DEF h
<1>5. hub' \in {hub, h} /\ journal' = journal /\ call' \in {To("published"), NoCall}
  BY <1>2 DEF Mutate, End
<1>6. CallOK(call') /\ call'.at # "publish"
  BY <1>1, <1>5, NoCallOK, ToStepOK
<1>7. journal.create = "publishing" /\ \A i \in Fresh : ~hub[i].here
  BY <1>1 DEF GithubInv, Once, At
<1>8. \A i, j \in Fresh : hub'[i].here /\ hub'[j].here => i = j
  BY <1>2, <1>3, <1>4, <1>5, <1>7
<1>9. Once'
  BY <1>5, <1>6, <1>7, <1>8 DEF Once, At
<1> QED BY <1>4, <1>5, <1>6, <1>9 DEF GithubInv

LEMMA RefetchStep == ASSUME GithubInv, Refetch PROVE GithubInv'
<1> DEFINE q == [To("create") EXCEPT !.seen = Snapshot]
<1>1. Plain(call) /\ Load(q)
  BY CallFacts DEF Refetch
<1>2. Plain(To("create")) /\ To("create").at = "create"
  BY <1>1, ToStepOK
<1>3. CallOK(q) /\ q.at = "create"
  BY <1>2, FieldOK DEF CallOK
<1> HIDE DEF q
<1> QED BY <1>1, <1>3, LoadStep

LEMMA CreatedStep == ASSUME GithubInv, Created PROVE GithubInv'
<1>1. Plain(call)
  BY CallFacts DEF Created
<1>2. Refuse \/ Save(Receipt(Attempt), To("materialize"))
  BY DEF Created
<1> QED BY <1>1, <1>2, RefuseStep, ToStepOK, ReceiptOK, SaveStep

LEMMA MaterializeStep == ASSUME GithubInv, Materialize PROVE GithubInv'
<1> DEFINE j == [journal EXCEPT !.create = "published"]
           q == [To("update") EXCEPT !.fields = "blocked-by" :> NewBlockers, !.then = <<"complete">>]
<1>1. Plain(call) /\ (Save(j, To("complete")) \/ Save(j, q))
  BY CallFacts DEF Materialize
<1>2. JournalShape(j) /\ j.create = "published"
  BY CreateOK DEF GithubInv
<1> HIDE DEF j
<1>3. CallOK(To("complete")) /\ To("complete").at = "complete" /\ Plain(To("update")) /\ To("update").at = "update"
  BY <1>1, ToStepOK
<1>4. Plain(q) /\ q.at = "update"
  BY <1>3, TwoFieldsOK, LaterFacts
<1> HIDE DEF q
<1> QED BY <1>1, <1>2, <1>3, <1>4, SaveStep DEF CallOK

LEMMA CompleteStep == ASSUME GithubInv, Complete PROVE GithubInv'
<1> DEFINE j == [journal EXCEPT !.create = "done"]
<1>1. JournalShape(j) /\ j.create = "done" /\ Save(j, NoCall)
  BY CreateOK DEF GithubInv, Complete
<1> HIDE DEF j
<1> QED BY <1>1, SaveStep, NoCallOK

----------------------------------------------------------------------------
(* release and close.                                                       *)
LEMMA ReleaseStep == ASSUME GithubInv, Release PROVE GithubInv'
<1>1. Plain(call)
  BY CallFacts DEF Release
<1>2. Alike([hub EXCEPT ![i0].by = @ \ {Me}])
  BY EditAlike DEF GithubInv
<1>3. \/ Mutate([hub EXCEPT ![i0].by = @ \ {Me}], To("released"))
      \/ GoOn(To("released"))
      \/ GoOn(Then)
  BY DEF Release
<1>4. CallOK(To("released")) /\ To("released").at # "publish" /\ CallOK(Then) /\ Then.at # "publish"
  BY <1>1, ToStepOK, ThenOK
<1> QED BY <1>2, <1>3, <1>4, MutateStep, GoOnStep

LEMMA ReleasedStep == ASSUME GithubInv, Released PROVE GithubInv'
<1>1. Plain(call)
  BY CallFacts DEF Released
<1> QED BY <1>1, ThenOK, ReceiptOK, SaveStep DEF Released

LEMMA CloseStep == ASSUME GithubInv, Close PROVE GithubInv'
<1> DEFINE j == [journal EXCEPT !.close[i0] = "saved"]
<1>1. Plain(call) /\ call.at = "close"
  BY CallFacts DEF Close, At
<1>2. GoOn(NoCall) \/ GoOn(To("result")) \/ Save(j, call)
  BY DEF Close
<1>3. JournalShape(j) /\ j.create = journal.create
  BY JournalOK DEF GithubInv
<1> HIDE DEF j
<1> QED BY <1>1, <1>2, <1>3, NoCallOK, ToStepOK, GoOnStep, SaveStep DEF CallOK

LEMMA ResultStep == ASSUME GithubInv, Result PROVE GithubInv'
<1>1. Plain(call)
  BY CallFacts DEF Result
<1>2. Alike([hub EXCEPT ![i0].results = @ + 1])
  BY EditAlike DEF GithubInv
<1> QED BY <1>1, <1>2, ToStepOK, GoOnStep, MutateStep DEF Result

LEMMA ShutStep == ASSUME GithubInv, Shut PROVE GithubInv'
<1> DEFINE q == [To("release") EXCEPT !.then = <<"again">>]
           h == [hub EXCEPT ![i0].state = "COMPLETED"]
<1>1. Plain(call) /\ (GoOn(q) \/ Mutate(h, q))
  BY CallFacts DEF Shut
<1>2. Alike(h)
  BY EditAlike DEF GithubInv
<1>3. Plain(To("release")) /\ To("release").at = "release"
  BY <1>1, ToStepOK
<1>4. CallOK(q) /\ q.at = "release"
  BY <1>3, ThenFieldOK, LaterFacts DEF CallOK
<1> HIDE DEF q, h
<1> QED BY <1>1, <1>2, <1>4, GoOnStep, MutateStep

LEMMA AgainStep == ASSUME GithubInv, Again PROVE GithubInv'
<1> DEFINE c == [To("free") EXCEPT !.seen = Snapshot]
           q == [c EXCEPT !.left = Dependents(Snapshot, i0)]
<1>1. Plain(call) /\ (Refuse \/ Load([To("free") EXCEPT !.seen = Snapshot, !.left = Dependents(Snapshot, i0)]))
  BY CallFacts DEF Again
<1>2. Plain(To("free")) /\ To("free").at = "free"
  BY <1>1, ToStepOK
<1>3. Plain(c) /\ c.at = "free"
  BY <1>2, FieldOK
<1>4. [To("free") EXCEPT !.seen = Snapshot, !.left = Dependents(Snapshot, i0)] = q
  OBVIOUS
<1> HIDE DEF c
<1>5. CallOK(q) /\ q.at = "free"
  BY <1>3, FieldOK DEF CallOK
<1> HIDE DEF q
<1> QED BY <1>1, <1>4, <1>5, RefuseStep, LoadStep

(* The update of a dependent remembers the close it was made in.            *)
LEMMA FreeStep == ASSUME GithubInv, Free PROVE GithubInv'
<1>1. Plain(call) /\ call.at = "free"
  BY CallFacts DEF Free, At
<1>2. Plain(To("free")) /\ To("free").at = "free" /\ CallOK(To("closed")) /\ To("closed").at = "closed"
  BY <1>1, ToStepOK
<1>3. CASE GoOn(To("closed"))
  BY <1>2, <1>3, GoOnStep
<1>4. CASE call.left # {}
  <2> DEFINE d == CHOOSE d \in call.left : TRUE
             o == [To("free") EXCEPT !.left = @ \ {d}]
             w == "blocked-by" :> (s[d].blockedBy \ {i0})
             q == [at |-> "update", req |-> "close", as |-> call.as, slug |-> d, seen |-> s, left |-> {},
                   fields |-> w, then |-> <<"freed">>, outer |-> o]
  <2>1. GoOn(q)
    BY <1>4 DEF Free
  <2>2. Plain(o) /\ o.at = "free"
    BY <1>2, FieldOK
  <2> HIDE DEF d, o, w
  <2>3. Shaped(q) /\ "outer" \in DOMAIN q /\ q.outer = o /\ q.at = "update" /\ q.then = <<"freed">>
    BY DEF Shaped, IsFcn
  <2> HIDE DEF q
  <2>4. Nested(q)
    BY <2>2, <2>3 DEF Nested
  <2> QED BY <2>1, <2>3, <2>4, GoOnStep DEF CallOK
<1> QED BY <1>3, <1>4 DEF Free

LEMMA FreedStep == ASSUME GithubInv, Freed PROVE GithubInv'
<1>1. Nested(call) /\ GoOn(call.outer)
  BY NoCallOK DEF GithubInv, CallOK, Idle, Plain, Freed, At
<1> QED BY <1>1, GoOnStep DEF Nested, CallOK

LEMMA ClosedStep == ASSUME GithubInv, Closed PROVE GithubInv'
<1> DEFINE j == [journal EXCEPT !.close[i0] = "done"]
<1>1. JournalShape(j) /\ j.create = journal.create /\ Save(j, NoCall)
  BY JournalOK DEF GithubInv, Closed
<1> HIDE DEF j
<1> QED BY <1>1, NoCallOK, SaveStep

----------------------------------------------------------------------------
(* remove and moveOut.                                                      *)
LEMMA RemoveStep == ASSUME GithubInv, Remove PROVE GithubInv'
<1> DEFINE j == [journal EXCEPT !.remove[i0] = "saved"]
           q == [To("release") EXCEPT !.then = <<"forget">>]
<1>1. Plain(call)
  BY CallFacts DEF Remove
<1>2. Refuse \/ GoOn(NoCall) \/ GoOn(q) \/ Save(j, To("discard"))
  BY DEF Remove
<1>3. JournalShape(j) /\ j.create = journal.create
  BY JournalOK DEF GithubInv
<1>4. Plain(To("release")) /\ To("release").at = "release" /\ CallOK(To("discard")) /\ To("discard").at = "discard"
  BY <1>1, ToStepOK
<1>5. CallOK(q) /\ q.at = "release"
  BY <1>4, ThenFieldOK, LaterFacts DEF CallOK
<1> HIDE DEF j, q
<1> QED BY <1>2, <1>3, <1>4, <1>5, NoCallOK, RefuseStep, GoOnStep, SaveStep

LEMMA DiscardStep == ASSUME GithubInv, Discard PROVE GithubInv'
<1> DEFINE u == [key \in {"part-of", "blocked-by"} |-> {}]
           q == [To("update") EXCEPT !.then = <<"release", "forget">>, !.fields = u]
           r == [To("update") EXCEPT !.fields = u, !.then = <<"release", "forget">>]
           h == [hub EXCEPT ![i0].state = "NOT_PLANNED"]
<1>1. Plain(call) /\ (GoOn(q) \/ Mutate(h, q))
  BY CallFacts DEF Discard
<1>2. Alike(h)
  BY EditAlike DEF GithubInv
<1>3. Plain(To("update")) /\ To("update").at = "update"
  BY <1>1, ToStepOK
<1> HIDE DEF u
<1>4. q = r
  OBVIOUS
<1>5. CallOK(r) /\ r.at = "update"
  BY <1>3, TwoFieldsOK, LaterFacts DEF CallOK
<1> HIDE DEF q, r, h
<1> QED BY <1>1, <1>2, <1>4, <1>5, GoOnStep, MutateStep

LEMMA ForgetStep == ASSUME GithubInv, Forget PROVE GithubInv'
<1> DEFINE j == [journal EXCEPT !.removed = @ \cup {i0}]
<1>1. Plain(call) /\ Save(j, To("forgotten"))
  BY CallFacts DEF Forget
<1>2. JournalShape(j) /\ j.create = journal.create
  BY JournalOK DEF GithubInv
<1> HIDE DEF j
<1> QED BY <1>1, <1>2, ToStepOK, SaveStep

LEMMA ForgottenStep == ASSUME GithubInv, Forgotten PROVE GithubInv'
<1> DEFINE j == [journal EXCEPT !.remove[i0] = "done"]
<1>1. JournalShape(j) /\ j.create = journal.create /\ Save(j, NoCall)
  BY JournalOK DEF GithubInv, Forgotten
<1> HIDE DEF j
<1> QED BY <1>1, NoCallOK, SaveStep

LEMMA MoveStep == ASSUME GithubInv, Move PROVE GithubInv'
<1> DEFINE j == [journal EXCEPT !.move[i0] = "saved"]
<1>1. Plain(call) /\ call.at = "move"
  BY CallFacts DEF Move, At
<1>2. Refuse \/ GoOn(NoCall) \/ GoOn(To("reason")) \/ Save(j, call)
  BY DEF Move
<1>3. JournalShape(j) /\ j.create = journal.create
  BY JournalOK DEF GithubInv
<1> HIDE DEF j
<1> QED BY <1>1, <1>2, <1>3, NoCallOK, ToStepOK, RefuseStep, GoOnStep, SaveStep DEF CallOK

LEMMA ReasonStep == ASSUME GithubInv, Reason PROVE GithubInv'
<1> DEFINE u == "assignee" :> "human"
           q == [To("update") EXCEPT !.then = <<"release", "moved">>, !.fields = u]
           r == [To("update") EXCEPT !.fields = u, !.then = <<"release", "moved">>]
           h == [hub EXCEPT ![i0].moveOuts = @ + 1]
<1>1. Plain(call) /\ (GoOn(q) \/ Mutate(h, q))
  BY CallFacts DEF Reason
<1>2. Alike(h)
  BY EditAlike DEF GithubInv
<1>3. Plain(To("update")) /\ To("update").at = "update"
  BY <1>1, ToStepOK
<1> HIDE DEF u
<1>4. q = r
  OBVIOUS
<1>5. CallOK(r) /\ r.at = "update"
  BY <1>3, TwoFieldsOK, LaterFacts DEF CallOK
<1> HIDE DEF q, r, h
<1> QED BY <1>1, <1>2, <1>4, <1>5, GoOnStep, MutateStep

LEMMA MovedStep == ASSUME GithubInv, Moved PROVE GithubInv'
<1> DEFINE j == [journal EXCEPT !.move[i0] = "done"]
<1>1. JournalShape(j) /\ j.create = journal.create /\ Save(j, NoCall)
  BY JournalOK DEF GithubInv, Moved
<1> HIDE DEF j
<1> QED BY <1>1, NoCallOK, SaveStep

----------------------------------------------------------------------------
(* Callers, readers, crashes and people.                                    *)
LEMMA BeginStep == ASSUME GithubInv, NEW r \in Requests, NEW i, Begin(r, i) PROVE GithubInv'
<1> DEFINE a == IF r \in {"claim", "accept"} THEN "update" ELSE r
           q == [at |-> a, req |-> r, slug |-> i,
                 as |-> phase, seen |-> Snapshot, fields |-> Fields(r, i), left |-> {}, then |-> <<>>]
<1>1. Load(q)
  BY DEF Begin
<1>2. a \notin {"freed", "publish"}
  BY Constants
<1> HIDE DEF a
<1>3. Shaped(q) /\ q.at = a /\ q.then = <<>>
  BY DEF Shaped, IsFcn
<1> HIDE DEF q
<1>4. CallOK(q) /\ q.at # "publish"
  BY <1>2, <1>3, LaterFacts DEF CallOK, Plain
<1> QED BY <1>1, <1>4, LoadStep

LEMMA WorldStep == ASSUME GithubInv, Read \/ Expire \/ Decide \/ Crash PROVE GithubInv'
<1>1. CASE Read
  BY <1>1, NoCallOK, LoadStep DEF Read
<1>2. CASE Expire \/ Decide
  BY <1>2 DEF Expire, Decide, GithubInv, Once, At
<1>3. CASE Crash
  <2>1. hub' = hub /\ journal' = journal /\ call' = NoCall
    BY <1>3 DEF Crash
  <2> QED BY <2>1, NoCallOK, KeepStep DEF GithubInv
<1> QED BY <1>1, <1>2, <1>3

LEMMA PeopleStep == ASSUME GithubInv, NEW i \in Issue, People(i) PROVE GithubInv'
<1>1. Alike(hub')
  <2>1. \/ hub' = [hub EXCEPT ![i] = [hub[i] EXCEPT !.by = @ \cup {Them}]]
        \/ hub' = [hub EXCEPT ![i] = [hub[i] EXCEPT !.by = @ \ {Me}]]
        \/ hub' = [hub EXCEPT ![i] = [hub[i] EXCEPT !.state = "COMPLETED"]]
    BY DEF People, Deed
  <2>2. /\ Alike([hub EXCEPT ![i] = [hub[i] EXCEPT !.by = @ \cup {Them}]])
        /\ Alike([hub EXCEPT ![i] = [hub[i] EXCEPT !.by = @ \ {Me}]])
        /\ Alike([hub EXCEPT ![i] = [hub[i] EXCEPT !.state = "COMPLETED"]])
    BY EditAlike DEF GithubInv
  <2> QED BY <2>1, <2>2
<1>2. journal' = journal /\ call' = call
  BY DEF People, Deed
<1>3. Once'
  BY <1>1, <1>2 DEF GithubInv, Once, At, Alike, Issue
<1> QED BY <1>1, <1>2, <1>3 DEF GithubInv, Alike

----------------------------------------------------------------------------
LEMMA GithubInit == Init => GithubInv
<1> SUFFICES ASSUME Init PROVE GithubInv
  OBVIOUS
<1>1. HubShape(hub) /\ \A i \in Fresh : ~hub[i].here
  <2>1. \A b : IsFcn(Native(b)) /\ "here" \in DOMAIN Native(b) /\ Native(b).here = TRUE
    BY DEF Native, IsFcn
  <2>2. IsFcn(Absent) /\ "here" \in DOMAIN Absent /\ Absent.here = FALSE
    BY <2>1 DEF Absent, IsFcn
  <2>3. \A i \in Issue : (\E b : hub[i] = Native(b)) \/ hub[i] = Absent
    BY DEF Init
  <2>4. \A i \in Fresh : i \in Issue /\ hub[i] = Absent
    BY Constants DEF Init, Issue
  <2>5. DOMAIN hub = Issue /\ IsFcn(hub)
    BY DEF Init, IsFcn
  <2> QED BY <2>1, <2>2, <2>3, <2>4, <2>5 DEF HubShape
<1>2. JournalShape(journal) /\ journal.create = "none"
  BY DEF Init, JournalShape, IsFcn
<1>3. call = NoCall
  BY DEF Init
<1>4. CallOK(call) /\ ~At("publish")
  BY <1>3, NoCallOK DEF At
<1> QED BY <1>1, <1>2, <1>4 DEF GithubInv, Once

LEMMA WorkStep == ASSUME GithubInv, Work PROVE GithubInv'
BY IntendStep, RelateStep, WriteIssueStep, NoteStep, ClearStep, CreateStep, PublishStep, RefetchStep,
   CreatedStep, MaterializeStep, CompleteStep, ReleaseStep, ReleasedStep, CloseStep, ResultStep, ShutStep,
   AgainStep, FreeStep, FreedStep, ClosedStep, RemoveStep, DiscardStep, ForgetStep, ForgottenStep,
   MoveStep, ReasonStep, MovedStep DEF Work

LEMMA GithubNext == GithubInv /\ [Next]_vars => GithubInv'
<1> SUFFICES ASSUME GithubInv, [Next]_vars PROVE GithubInv'
  OBVIOUS
<1>1. CASE UNCHANGED vars
  BY <1>1 DEF vars, GithubInv, Once, At
<1>2. CASE Next
  BY <1>2, BeginStep, WorkStep, WorldStep, PeopleStep DEF Next
<1> QED BY <1>1, <1>2

(* The journal of a create is ahead of GitHub in every reachable state:      *)
(* while it says none or intent no issue carries its marker, and the only    *)
(* call that can ask GitHub for the issue has saved publishing first         *)
(* (lib/tracker-github-write.ts, create).                                    *)
THEOREM GithubInvariant == Spec => []GithubInv
<1>1. Init => GithubInv
  BY GithubInit
<1>2. GithubInv /\ [Next]_vars => GithubInv'
  BY GithubNext
<1> QED BY <1>1, <1>2, PTL DEF Spec

(* However often a create is refused, loses its answer, dies with its        *)
(* process or is made again from a stale snapshot, and whatever people do    *)
(* meanwhile, at most one issue comes of it.                                 *)
THEOREM OneIssue == Spec => []OneIssuePerRequest
<1>1. GithubInv => OneIssuePerRequest
  <2> SUFFICES ASSUME GithubInv PROVE OneIssuePerRequest
    OBVIOUS
  <2>1. \A i, j \in Found(hub) : i = j
    BY DEF Found, GithubInv, Once
  <2>2. CASE Found(hub) = {}
    BY <2>2, FS_EmptySet DEF OneIssuePerRequest
  <2>3. CASE Found(hub) # {}
    <3>1. PICK i \in Found(hub) : Found(hub) = {i}
      BY <2>1, <2>3
    <3>2. Cardinality({i}) = 1
      BY FS_Singleton
    <3> QED BY <3>1, <3>2 DEF OneIssuePerRequest
  <2> QED BY <2>2, <2>3
<1> QED BY <1>1, GithubInvariant, PTL

===============================================================================
