---------------------------- MODULE GithubWrites ----------------------------
(***************************************************************************)
(* The GitHub tracker's writes (lib/tracker-github-write.ts, -state.ts,    *)
(* -relations.ts) beside what readers make of the same repository          *)
(* (lib/tracker-github.ts).  A write is one call under the repository's    *)
(* lock: it reads a snapshot, which may be a minute old, saves its intent  *)
(* in a private journal, and then asks GitHub for one mutation after       *)
(* another.  Every mutation may be refused, may happen and lose its        *)
(* answer, or may be the last thing its process does; the caller then      *)
(* makes the same call again.  Between mutations people use GitHub.        *)
(*                                                                         *)
(* One run, one refinement attempt under a parent issue that is not        *)
(* written; Tickets are the run's issues, Fresh names what it creates.     *)
(***************************************************************************)
EXTENDS Integers, FiniteSets, Sequences, TLC

CONSTANTS
    Tickets, Fresh,      \* the issues there are, and names for created ones
    Blocks,              \* pairs of tickets: the first blocks the second
    Requests,            \* which verbs the callers use
    Claims, Closes, Moves,   \* the tickets they are used on
    NewBlockers,         \* what blocks the created child; None: its fields do not say
    MaxTrouble,          \* bound: failed mutations, dead processes and people's deeds
    MaxDeeds,            \* bound: what people do meanwhile
    None

ASSUME Constants ==
    /\ Tickets \cap Fresh = {} /\ None \notin Tickets \cup Fresh
    /\ Blocks \subseteq Tickets \X Tickets
    /\ Requests \subseteq {"create", "claim", "accept", "close", "remove", "move"}
    /\ Claims \cup Closes \cup Moves \subseteq Tickets
    /\ NewBlockers = None \/ NewBlockers \subseteq Tickets
    /\ MaxTrouble \in Nat /\ MaxDeeds \in Nat

VARIABLES
    hub,        \* GitHub: Issue -> its native state
    cache,      \* the snapshot kept on disk for a minute, or None
    journal,    \* the private journals, the repository's and the run's
    phase,      \* the attempt's phase in the saved run: who may write for it
    call,       \* the write that holds the lock, or NoCall
    trouble, deeds,
    touched,    \* issues people have changed
    unsure      \* a create's answer was lost, or its process died

vars == <<hub, cache, journal, phase, call, trouble, deeds, touched, unsure>>

Issue == Tickets \cup Fresh
Me == "viewer"
Them == "someone"
Run == "reconcile:root"              \* the stable claim of the run
Attempt == "reconcile:root/handle"   \* the claim of its refinement attempt

NoCall == [at |-> "none"]
NoFields == [key \in {} |-> {}]

(* A native issue: whether it was created, its state, its assignees,       *)
(* whether it hangs under the parent, what blocks it, who its label routes *)
(* it to, and how many result and move-out comments it carries.            *)
Native(blockers) ==
    [here |-> TRUE, state |-> "OPEN", by |-> {}, child |-> TRUE, blockedBy |-> blockers,
     human |-> FALSE, results |-> 0, moveOuts |-> 0]
Absent == [Native({}) EXCEPT !.here = FALSE]

Init ==
    /\ hub = [i \in Issue |-> IF i \in Tickets
                 THEN Native({b \in Tickets : <<b, i>> \in Blocks}) ELSE Absent]
    /\ cache = None
    /\ journal = [create |-> "none", update |-> [i \in {} |-> NoFields],
                  close |-> [i \in Issue |-> "none"], move |-> [i \in Issue |-> "none"],
                  remove |-> [i \in Issue |-> "none"],
                  claim |-> [i \in {} |-> None], removed |-> {}]
    /\ phase = "writing" /\ call = NoCall
    /\ trouble = 0 /\ deeds = 0 /\ touched = {} /\ unsure = FALSE

-----------------------------------------------------------------------------
(* What a reader makes of a snapshot and the journals.                     *)

Found(snap) == {i \in Fresh : snap[i].here}       \* issues with the create's marker
Mine(snap, i) == Me \in snap[i].by
Pending(i) == i \in DOMAIN journal.update
PendingClaim(i) ==
    IF Pending(i) /\ "claimed-by" \in DOMAIN journal.update[i]
    THEN journal.update[i]["claimed-by"] ELSE None

Detached(snap, i) ==
    /\ snap[i].state = "NOT_PLANNED" /\ ~snap[i].child /\ snap[i].blockedBy = {}

Removed(snap, i) ==
    \/ i \in journal.removed
    \/ journal.remove[i] = "saved" /\ Detached(snap, i) /\ ~Mine(snap, i)
Removing(snap, i) == journal.remove[i] = "saved" /\ ~Removed(snap, i)

(* The claim the update and the receipt give, before the create's intent   *)
(* is looked at.                                                           *)
Receipted(snap, i) ==
    CASE PendingClaim(i) # None /\ Mine(snap, i) -> PendingClaim(i)
      [] PendingClaim(i) = None /\ i \in DOMAIN journal.claim -> journal.claim[i]
      [] OTHER -> None

(* The create's intent speaks for its issue until the creation is          *)
(* recorded as published.                                                  *)
Unpublished(snap, i) ==
    i \in Fresh /\ snap[i].here /\ journal.create = "publishing" /\ ~Removed(snap, i)
Speaks(snap, i) == Unpublished(snap, i) /\ journal.remove[i] = "none"

(* Two sources that contradict each other make the whole repository        *)
(* unreadable: every reader throws.                                        *)
Contradicts(snap, i) ==
    Speaks(snap, i) /\ \/ ~snap[i].child \/ ~Mine(snap, i)
                       \/ Receipted(snap, i) \notin {None, Attempt}
Readable(snap) == \A i \in Issue : ~Contradicts(snap, i)

Claim(snap, i) ==
    IF ~Mine(snap, i) THEN None
    ELSE IF Receipted(snap, i) # None THEN Receipted(snap, i)
    ELSE IF Unpublished(snap, i) THEN Attempt ELSE None

(* The rows of the tracker, and whether one is under the parent.           *)
Row(snap, i) == snap[i].here /\ ~Removed(snap, i)
Under(snap, i) == snap[i].child \/ Removing(snap, i)
Dependents(snap, i) == {d \in Issue : Row(snap, d) /\ i \in snap[d].blockedBy}

-----------------------------------------------------------------------------
(* A call ends: the snapshot on disk is thrown away, whatever happened.    *)
End == call' = NoCall /\ cache' = None
Refuse == End /\ UNCHANGED <<hub, journal, phase, trouble, deeds, touched, unsure>>

At(step) == call.at = step
(* A step that only saves the journal, and goes on as next.                *)
Save(j, next) ==
    /\ journal' = j /\ call' = next
    /\ cache' = IF next = NoCall THEN None ELSE cache
    /\ UNCHANGED <<hub, phase, trouble, deeds, touched, unsure>>
GoOn(next) == Save(journal, next)

(* A mutation that turns the repository into after.  A refused one had no  *)
(* effect; a lost one has had it although the caller never learns; with a  *)
(* dead process the snapshot on disk stays as it was.                      *)
Mutate(after, next) ==
    /\ UNCHANGED <<journal, phase, deeds, touched>>
    /\ \/ hub' = after /\ call' = next /\ cache' = None /\ UNCHANGED <<trouble, unsure>>
       \/ /\ trouble + deeds < MaxTrouble /\ trouble' = trouble + 1
          /\ \/ hub' = hub /\ End /\ UNCHANGED unsure
             \/ hub' = after /\ End /\ unsure' = (unsure \/ At("publish"))
             \/ /\ hub' \in {hub, after} /\ call' = NoCall /\ UNCHANGED cache
                /\ unsure' = (unsure \/ At("publish"))

(* Reads: the snapshot on disk if there is one, else a new one.            *)
Snapshot == IF cache = None THEN hub ELSE cache
Load(next) ==
    /\ call' = next /\ cache' = Snapshot
    /\ UNCHANGED <<hub, journal, phase, trouble, deeds, touched, unsure>>

To(step) == [call EXCEPT !.at = step]
Then == IF call.then = <<>> THEN NoCall
        ELSE [call EXCEPT !.at = Head(call.then), !.then = Tail(call.then)]
s == call.seen
i0 == call.slug

-----------------------------------------------------------------------------
(* The callers.  A run claims what it starts and closes what it has        *)
(* claimed; its worker creates one child; the child is accepted, or the    *)
(* attempt is cleaned up.  A caller whose update failed makes that call    *)
(* again before another about the same issue, as the error tells it to,    *)
(* and every caller has read the tracker before it writes.                 *)
Wanted(r, i) ==
    /\ r \in Requests
    /\ \/ r = "create" /\ i = None /\ phase = "writing"
       \/ r = "claim" /\ i \in Claims /\ journal.close[i] = "none" /\ journal.move[i] = "none"
       \/ r = "close" /\ i \in Closes /\ i \in DOMAIN journal.claim /\ ~Pending(i)
       \/ r = "close" /\ i \in Closes /\ journal.close[i] = "saved"
       \/ r = "move" /\ i \in Moves /\ (Pending(i) => journal.move[i] = "saved")
       \/ /\ r = "accept" /\ i \in Fresh /\ phase = "accepting"
          /\ Row(Snapshot, i) /\ Claim(Snapshot, i) = Attempt
       \/ /\ r = "remove" /\ i \in Fresh /\ phase \in {"cleaning", "removed"} /\ hub[i].here
          /\ Claim(Snapshot, i) = Attempt \/ journal.remove[i] = "saved"

Fields(r, i) ==
    CASE r \in {"claim", "accept"} -> "claimed-by" :> Run [] OTHER -> NoFields

Begin(r, i) ==
    /\ call = NoCall /\ Wanted(r, i)
    /\ Readable(Snapshot)
    /\ Load([at |-> IF r \in {"claim", "accept"} THEN "update" ELSE r, req |-> r, slug |-> i,
             as |-> phase, seen |-> Snapshot, fields |-> Fields(r, i), left |-> {}, then |-> <<>>])

(* The rest of the world moves between calls, and while GitHub is asked;   *)
(* anywhere else comes to the same as before the next question.            *)
Asking ==
    call = NoCall \/ call.at \in {"relate", "issue", "publish", "published", "release",
                                 "result", "shut", "again", "discard", "reason"}

(* A reader, and the minute going by.                                      *)
Read == call = NoCall /\ cache = None /\ Load(NoCall)
Expire ==
    /\ call = NoCall /\ cache # None /\ cache' = None
    /\ UNCHANGED <<hub, journal, phase, call, trouble, deeds, touched, unsure>>

(* The attempt is accepted, or discarded and then removed.                 *)
Decide ==
    /\ Asking
    /\ \/ phase = "writing" /\ phase' \in {"accepting", "cleaning"}
       \/ phase = "cleaning" /\ call = NoCall /\ phase' = "removed"
          /\ \A i \in Fresh : ~Row(Snapshot, i)
    /\ UNCHANGED <<hub, cache, journal, call, trouble, deeds, touched, unsure>>

-----------------------------------------------------------------------------
(* update: the intent, the relations one by one, the issue itself, the     *)
(* receipt, and the intent cleared.                                        *)
Has(key) == key \in DOMAIN call.fields
ClaimTo == call.fields["claimed-by"]

MayClaim ==
    LET previous == Claim(s, i0)
    IN  /\ previous = None => s[i0].by = {}
        /\ (previous = Attempt => call.as = "accepting")

Intending ==
    /\ Row(s, i0)
    /\ Has("claimed-by") => MayClaim
    /\ Pending(i0) => journal.update[i0] = call.fields

(* What the relations need, from the snapshot: an edge to drop or add.     *)
Edits ==
    (IF Has("part-of") /\ s[i0].child THEN {<<"detach", None>>} ELSE {})
    \cup (IF ~Has("blocked-by") THEN {} ELSE
            LET want == call.fields["blocked-by"]
            IN  {<<"unblock", b>> : b \in s[i0].blockedBy \ want}
                \cup {<<"block", b>> : b \in want \ s[i0].blockedBy})

Intend ==
    /\ At("update")
    /\ IF Intending
       THEN Save([journal EXCEPT !.update = (i0 :> call.fields) @@ @],
                 [To("relate") EXCEPT !.left = Edits])
       ELSE Refuse

Edited(e) ==
    IF e[1] = "detach" THEN [hub EXCEPT ![i0].child = FALSE]
    ELSE [hub EXCEPT ![i0].blockedBy = IF e[1] = "unblock" THEN @ \ {e[2]} ELSE @ \cup {e[2]}]

(* GitHub answers an edge that is already gone, or there, with an error.   *)
Relate ==
    /\ At("relate")
    /\ IF ~Readable(s) THEN Refuse
       ELSE IF call.left = {}
       THEN GoOn(To(IF Has("claimed-by") \/ Has("assignee") THEN "issue" ELSE "note"))
       ELSE LET e == CHOOSE e \in call.left : \A f \in call.left : e[1] = "detach" \/ f[1] # "detach"
            IN  IF Edited(e) = hub THEN Refuse
                ELSE Mutate(Edited(e), [call EXCEPT !.left = @ \ {e}])

(* The assignees are written as a whole, from the snapshot.                *)
Assignees == IF ClaimTo = None THEN s[i0].by \ {Me} ELSE s[i0].by \cup {Me}
Written ==
    LET assigned == IF Has("claimed-by") THEN [hub EXCEPT ![i0].by = Assignees] ELSE hub
    IN  IF Has("assignee") THEN [assigned EXCEPT ![i0].human = TRUE] ELSE assigned
WriteIssue == At("issue") /\ Mutate(Written, To("note"))

Drop(f, i) == [x \in DOMAIN f \ {i} |-> f[x]]
Receipt(claim) ==
    IF claim = None THEN [journal EXCEPT !.claim = Drop(@, i0)]
    ELSE [journal EXCEPT !.claim = (i0 :> claim) @@ @]
Note == At("note") /\ Has("claimed-by") /\ Save(Receipt(ClaimTo), To("clear"))

Cleared == [journal EXCEPT !.update = Drop(@, i0)]
Clear ==
    /\ At("clear") \/ (At("note") /\ ~Has("claimed-by"))
    /\ Save(Cleared, Then)

-----------------------------------------------------------------------------
(* create: an intent with a random marker, an honest note that it is being *)
(* published, the issue, its receipt, its blockers.                        *)
MayPublishAgain == journal.create \in {"intent", "publishing"}
MayPublish == journal.create = "intent"

Create ==
    /\ At("create")
    /\ IF journal.create = "done" THEN GoOn(NoCall)
       ELSE IF journal.create = "none" THEN Save([journal EXCEPT !.create = "intent"], call)
       ELSE IF Found(s) # {} /\ Cardinality(Found(s)) <= 1
       THEN GoOn([To("created") EXCEPT !.slug = CHOOSE i \in Found(s) : TRUE])
       ELSE IF Found(s) = {} /\ MayPublish
       THEN Save([journal EXCEPT !.create = "publishing"], To("publish"))
       ELSE Refuse

Publish ==
    /\ At("publish") /\ \E i \in Fresh : ~hub[i].here
    /\ LET new == CHOOSE i \in Fresh : ~hub[i].here
       IN  Mutate([hub EXCEPT ![new] = [Native({}) EXCEPT !.by = {Me}]], To("published"))
Refetch ==
    /\ At("published") /\ Load([To("create") EXCEPT !.seen = Snapshot])

Created ==
    /\ At("created")
    /\ IF s[i0].child /\ Mine(s, i0) THEN Save(Receipt(Attempt), To("materialize")) ELSE Refuse
Materialize ==
    /\ At("materialize")
    /\ Save([journal EXCEPT !.create = "published"],
            IF NewBlockers = None THEN To("complete")
            ELSE [To("update") EXCEPT !.fields = "blocked-by" :> NewBlockers, !.then = <<"complete">>])
Complete == At("complete") /\ Save([journal EXCEPT !.create = "done"], NoCall)

-----------------------------------------------------------------------------
(* release: unassign what the receipt says is ours.  If the unassignment   *)
(* was made but its answer lost, only the receipt is left to drop.         *)
Release ==
    /\ At("release")
    /\ IF Claim(s, i0) # None THEN Mutate([hub EXCEPT ![i0].by = @ \ {Me}], To("released"))
       ELSE GoOn(IF i0 \in DOMAIN journal.claim THEN To("released") ELSE Then)
Released == At("released") /\ Save(Receipt(None), Then)

(* close: the result as a comment that carries a marker, the issue closed, *)
(* the claim released, and the issues it blocked freed, from a snapshot    *)
(* taken again.                                                            *)
Close ==
    /\ At("close")
    /\ IF journal.close[i0] = "done" THEN GoOn(NoCall)
       ELSE IF journal.close[i0] = "none" THEN Save([journal EXCEPT !.close[i0] = "saved"], call)
       ELSE GoOn(To("result"))
Result ==
    /\ At("result")
    /\ IF s[i0].results > 0 THEN GoOn(To("shut"))
       ELSE Mutate([hub EXCEPT ![i0].results = @ + 1], To("shut"))
Shut ==
    /\ At("shut")
    /\ LET next == [To("release") EXCEPT !.then = <<"again">>]
       IN  IF s[i0].state # "OPEN" THEN GoOn(next)
           ELSE Mutate([hub EXCEPT ![i0].state = "COMPLETED"], next)
Again ==
    /\ At("again")
    /\ IF Readable(Snapshot)
       THEN Load([To("free") EXCEPT !.seen = Snapshot, !.left = Dependents(Snapshot, i0)])
       ELSE Refuse
(* A dependent is updated as a call of its own inside this one.            *)
Free ==
    /\ At("free")
    /\ IF call.left = {} THEN GoOn(To("closed"))
       ELSE LET d == CHOOSE d \in call.left : TRUE
            IN  GoOn([at |-> "update", req |-> "close", as |-> call.as, slug |-> d, seen |-> s, left |-> {},
                      fields |-> "blocked-by" :> (s[d].blockedBy \ {i0}), then |-> <<"freed">>,
                      outer |-> [To("free") EXCEPT !.left = @ \ {d}]])
Freed == At("freed") /\ GoOn(call.outer)
Closed == At("closed") /\ Save([journal EXCEPT !.close[i0] = "done"], NoCall)

-----------------------------------------------------------------------------
(* remove: only the attempt's own open child, with nothing under it or     *)
(* waiting for it; closed as not planned, detached, released.              *)
RemovalClaimAssigned == Claim(s, i0)
RemovalClaim ==
    IF journal.remove[i0] = "saved" /\ s[i0].by = {} THEN Attempt ELSE Claim(s, i0)
MayRemove ==
    /\ s[i0].state # "COMPLETED"
    /\ RemovalClaim = Attempt
    /\ call.as \in {"writing", "cleaning"} \/ (journal.remove[i0] = "saved" /\ call.as = "removed")
    /\ Under(s, i0) \/ journal.remove[i0] = "saved"
    /\ \A d \in Dependents(s, i0) : d = i0
    /\ s[i0].by \subseteq {Me}
Finished == journal.remove[i0] = "saved" /\ Detached(s, i0) /\ s[i0].by = {}

Remove ==
    /\ At("remove")
    /\ IF journal.remove[i0] = "done" THEN GoOn(NoCall)
       ELSE IF ~MayRemove THEN Refuse
       ELSE IF Finished THEN GoOn([To("release") EXCEPT !.then = <<"forget">>])
       ELSE Save([journal EXCEPT !.remove[i0] = "saved"], To("discard"))
Discard ==
    /\ At("discard")
    /\ LET next == [To("update") EXCEPT !.then = <<"release", "forget">>,
                        !.fields = [key \in {"part-of", "blocked-by"} |-> {}]]
       IN  IF s[i0].state = "OPEN"
           THEN Mutate([hub EXCEPT ![i0].state = "NOT_PLANNED"], next) ELSE GoOn(next)
Forget ==
    /\ At("forget")
    /\ Save([journal EXCEPT !.removed = @ \cup {i0}], To("forgotten"))
Forgotten == At("forgotten") /\ Save([journal EXCEPT !.remove[i0] = "done"], NoCall)

(* moveOut: the reason as a comment, the routing label, the release.       *)
Move ==
    /\ At("move")
    /\ IF journal.move[i0] = "done" THEN GoOn(NoCall)
       ELSE IF journal.move[i0] = "saved" THEN GoOn(To("reason"))
       ELSE IF ~s[i0].human /\ (s[i0].by # {} => Claim(s, i0) # None)
       THEN Save([journal EXCEPT !.move[i0] = "saved"], call)
       ELSE Refuse
Reason ==
    /\ At("reason")
    /\ LET next == [To("update") EXCEPT !.then = <<"release", "moved">>, !.fields = "assignee" :> "human"]
       IN  IF s[i0].moveOuts > 0 THEN GoOn(next)
           ELSE Mutate([hub EXCEPT ![i0].moveOuts = @ + 1], next)
Moved == At("moved") /\ Save([journal EXCEPT !.move[i0] = "done"], NoCall)

-----------------------------------------------------------------------------
(* The process dies between two saves.                                     *)
Crash ==
    /\ call # NoCall /\ trouble + deeds < MaxTrouble
    /\ trouble' = trouble + 1 /\ call' = NoCall
    /\ unsure' = (unsure \/ At("publish"))
    /\ UNCHANGED <<hub, cache, journal, phase, deeds, touched>>

(* People: one takes an issue, unassigns the run, closes or reopens one.   *)
Deed(i, after) ==
    /\ Asking /\ hub[i].here /\ deeds < MaxDeeds /\ trouble + deeds < MaxTrouble /\ deeds' = deeds + 1
    /\ hub' = [hub EXCEPT ![i] = after] /\ hub' # hub
    /\ touched' = touched \cup {i}
    /\ UNCHANGED <<cache, journal, phase, call, trouble, unsure>>
People(i) ==
    \/ Deed(i, [hub[i] EXCEPT !.by = @ \cup {Them}])
    \/ Deed(i, [hub[i] EXCEPT !.by = @ \ {Me}])
    \/ Deed(i, [hub[i] EXCEPT !.state = "COMPLETED"])

Work ==
    \/ Intend \/ Relate \/ WriteIssue \/ Note \/ Clear
    \/ Create \/ Publish \/ Refetch \/ Created \/ Materialize \/ Complete
    \/ Release \/ Released
    \/ Close \/ Result \/ Shut \/ Again \/ Free \/ Freed \/ Closed
    \/ Remove \/ Discard \/ Forget \/ Forgotten
    \/ Move \/ Reason \/ Moved

Next ==
    \/ \E r \in Requests, i \in Issue \cup {None} : Begin(r, i)
    \/ Work \/ Read \/ Expire \/ Decide \/ Crash
    \/ \E i \in Issue : People(i)

Spec == Init /\ [][Next]_vars

(* A call that has the lock goes on, a minute passes, and a caller whose   *)
(* call failed makes it again whenever it can.                             *)
Fair ==
    /\ WF_vars(Work) /\ WF_vars(Expire)
    /\ \A r \in Requests \cap {"close", "move", "remove"} : SF_vars(\E i \in Issue : Begin(r, i))
FairSpec == Spec /\ Fair

-----------------------------------------------------------------------------
(* Properties.                                                             *)

(* The state has the shape its comments give it.                           *)
TypeOK ==
    /\ hub \in [Issue -> [here : BOOLEAN, state : {"OPEN", "COMPLETED", "NOT_PLANNED"},
            by : SUBSET {Me, Them}, child : BOOLEAN, blockedBy : SUBSET Tickets,
            human : BOOLEAN, results : 0..3, moveOuts : 0..3]]
    /\ cache = None \/ DOMAIN cache = Issue
    /\ journal.create \in {"none", "intent", "publishing", "published", "done"}
    /\ DOMAIN journal.update \subseteq Issue /\ DOMAIN journal.claim \subseteq Issue
    /\ \A i \in Issue : {journal.close[i], journal.move[i], journal.remove[i]}
                            \subseteq {"none", "saved", "done"}
    /\ phase \in {"writing", "accepting", "cleaning", "removed"}

(* However often a create fails, loses its answer or is made again, from   *)
(* however old a snapshot, one issue comes of it.                          *)
OneIssuePerRequest == Cardinality(Found(hub)) <= 1

(* A call made again often enough finishes, unless people change what it   *)
(* is about.                                                               *)
RetriedIsFinished ==
    /\ \A i \in Closes : journal.close[i] = "saved" ~> journal.close[i] = "done" \/ touched # {}
    /\ \A i \in Moves : journal.move[i] = "saved" ~> journal.move[i] = "done" \/ touched # {}
    /\ \A i \in Fresh : journal.remove[i] = "saved" ~> journal.remove[i] = "done" \/ touched # {}
=============================================================================
