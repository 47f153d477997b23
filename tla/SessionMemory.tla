----------------------------- MODULE SessionMemory -----------------------------
(* The observational memory of one session (src/extensions/context/om).  The *)
(* session file is a tree of entries and the session stands at one of them;  *)
(* the memory ledger is a set of records in a store, each anchored at the    *)
(* entry the session stood at when it was written, and a record is seen from *)
(* every entry below its anchor.  In the background one consolidation at a   *)
(* time observes new entries, reflects on the observations, drops some and   *)
(* condenses the reflections.  Each stage reads the branch, waits for a      *)
(* model, and writes where the session stands by then: meanwhile the user    *)
(* writes on, moves to another entry, or compacts the context, and the       *)
(* process may die between any two steps.                                    *)
EXTENDS Naturals, FiniteSets, Sequences, FiniteSetsExt
Sq == INSTANCE SequencesExt

CONSTANTS
  Noted,        \* what an observation can say
  Learned,      \* what a reflection can say
  ObserveAfter, \* new entries an observation waits for
  ReflectAfter, \* new entries a reflection waits for
  MaxChunk,     \* entries one observation reads
  PoolMax,      \* observations that make a compaction fold everything
  PoolTarget,   \* observations kept by the dropper
  ReflMax,      \* reflections that start the condenser
  ReflTarget,   \* reflections the condenser aims at
  MaxPasses,    \* passes of the condenser
  MaxCalls,     \* bound: proposals of an observer or a reflector
  MaxMerges,    \* bound: proposals of a condenser
  MaxEntries,   \* bound: entries of the session file
  MaxRuns,      \* bound: consolidations
  MaxTroubles   \* bound: moves of the user, failed models and deaths

VARIABLES
  log,          \* the entries of the session file, by number
  tip,          \* the entry the session stands at
  observations, reflections, drops,   \* the records of the store
  run,          \* the consolidation in flight
  backoff,      \* an observer found nothing to note: when to try again
  runs, troubles

vars == <<log, tip, observations, reflections, drops, run, backoff, runs, troubles>>
store == <<observations, reflections, drops>>
None == <<>>
-------------------------------------------------------------------------------
(* An entry of the file has a greater number than those above it, so on one  *)
(* branch the order of the numbers is the order of the entries.              *)
Branch(n) ==
  LET above[m \in 0..Len(log)] ==
        IF m = 0 THEN {} ELSE above[log[m].up] \cup {m}
  IN  above[n]
Here == Branch(tip)
Sources(S) == {n \in S : log[n].kind = "source"}

(* A memory is known by what it says and, when it replaces others, by those. *)
Id(says, from) == <<says, from>>

Visible(S) == {r \in S : r.at \in Here}
Ids(S) == {r.id : r \in S}
Dropped == UNION {d.ids : d \in Visible(drops)}
ActiveObservations == Ids(Visible(observations)) \ Dropped
ActiveReflections == {r \in Visible(reflections) : r.id \notin Dropped}

(* The last entry a kind of record covers on this branch, 0 for none, and    *)
(* the entries after it.                                                     *)
Marker(S) == Max({0} \cup {r.covers : r \in {v \in Visible(S) : v.covers \in Here}})
Backlog(S) == Sources({n \in Here : n > Marker(S)})
AnyStageDue == \/ Cardinality(Backlog(observations)) >= ObserveAfter
               \/ Cardinality(Backlog(reflections)) >= ReflectAfter
-------------------------------------------------------------------------------
(* What a compaction shows: the records covered up to a boundary.            *)
Covered(r, b) == r.covers \in Here /\ r.covers <= b
Supersessions(b) == {d \in Visible(drops) : d.by # None /\ Covered(d, b)}

FoldProjection(observed, reflected, dropped) ==
  LET corrections == Supersessions(observed)
      gone == UNION {d.ids : d \in corrections \cup
                             {x \in Visible(drops) : Covered(x, dropped)}}
  IN [observations |-> Ids({r \in Visible(observations) : Covered(r, observed)}) \ gone,
      reflections |-> Ids({r \in Visible(reflections) :
                             \/ Covered(r, reflected)
                             \/ Covered(r, observed) /\ \E d \in corrections : d.by = r.id})
                        \ gone]
FullProjection(b) == FoldProjection(b, b, b)
Compactions == {n \in Here : log[n].kind = "compaction" /\ log[n].ours}

LatestFullFold == LET full == {n \in Compactions : log[n].full}
                  IN  IF full = {} THEN 0 ELSE log[Max(full)].kept
CompactionProjection(kept) ==
  LET stable == FoldProjection(kept, LatestFullFold, LatestFullFold)
      full == Cardinality(stable.observations) >= PoolMax
  IN  [full |-> full,
       shown |-> IF full THEN FullProjection(kept) ELSE stable]
(* What the recall of a memory finds on this branch: the observations it is  *)
(* or rests on, and of these what the branch no longer has.                  *)
First(S) == {o \in S : \A p \in S : p.id = o.id => o.at <= p.at}
Recall(id) ==
  LET direct == {o \in Visible(observations) : o.id = id}
      matched == {r \in Visible(reflections) : r.id = id}
      rests == UNION {r.support : r \in matched}
      recalled == direct \cup {o \in First(Visible(observations)) : o.id \in rests}
      cited == UNION {o.cites : o \in recalled}
  IN  [found |-> direct # {} \/ matched # {},
       missing |-> rests \ Ids(recalled),
       lost |-> cited \ Sources(Here)]
-------------------------------------------------------------------------------
NoRun == [stage |-> "none"]
NoBackoff == [covers |-> 0, entries |-> 0]
Nothing == [observations |-> {}, reflections |-> {}]
Entry(kind, kept, ours, full, shown) ==
  [up |-> tip, kind |-> kind, kept |-> kept, ours |-> ours, full |-> full, shown |-> shown]
Init ==
  /\ tip = 0 /\ log = <<>> /\ observations = {} /\ reflections = {} /\ drops = {}
  /\ run = NoRun /\ backoff = NoBackoff /\ runs = 0 /\ troubles = 0

(* Nothing else of the session happens while the consolidation runs without  *)
(* waiting for a model; only the process may die there.                      *)
Waiting == run.stage \in {"none", "observing", "reflecting", "dropping", "condensing"}
Goes(stage) == run' = [run EXCEPT !.stage = stage]
Over == run' = NoRun
(* A record written where the branch that was read is no longer above.       *)
Stray == run.tip \notin Here
Trouble == troubles < MaxTroubles /\ troubles' = troubles + 1
-------------------------------------------------------------------------------
(* The session: a turn writes an entry, the user moves to another entry, a   *)
(* compaction keeps the entries from one on and shows the memory before.     *)
Enter(e) == log' = log \o <<e>> /\ tip' = Len(log) + 1
Turn ==
  /\ Waiting /\ Len(log) < MaxEntries
  /\ Enter(Entry("source", 0, FALSE, FALSE, Nothing))
  /\ UNCHANGED <<store, run, backoff, runs, troubles>>

Move ==
  /\ Waiting /\ Trouble /\ tip' \in 1..Len(log) \ {tip}
  /\ UNCHANGED <<log, store, run, backoff, runs>>

LastKept == Max({0} \cup {log[n].kept : n \in Here})
Compact ==
  /\ Waiting /\ Len(log) < MaxEntries
  /\ \E kept \in {n \in Sources(Here) : n >= LastKept} :
       LET p == CompactionProjection(kept)
           ours == p.shown # Nothing
       IN  Enter(Entry("compaction", kept, ours, ours /\ p.full, p.shown))
  /\ UNCHANGED <<store, run, backoff, runs, troubles>>

Die ==
  /\ Trouble /\ Over /\ backoff' = NoBackoff
  /\ run # NoRun \/ backoff # NoBackoff
  /\ UNCHANGED <<log, tip, store, runs>>
-------------------------------------------------------------------------------
(* Observing.                                                                *)
Launch ==
  /\ run = NoRun /\ runs < MaxRuns /\ AnyStageDue
  /\ run' = [stage |-> "observer"] /\ runs' = runs + 1
  /\ UNCHANGED <<log, tip, store, backoff, troubles>>

(* A span an observer found nothing in is left until as much again is new.   *)
Backing == /\ backoff # NoBackoff /\ backoff.covers = Marker(observations)
           /\ Cardinality(Backlog(observations)) < backoff.entries + ObserveAfter
(* A chunk is the first entries not covered yet.                             *)
Chunk == {n \in Backlog(observations) :
            Cardinality({m \in Backlog(observations) : m <= n}) <= MaxChunk}
StartObserver ==
  /\ run.stage = "observer"
  /\ IF Cardinality(Backlog(observations)) < ObserveAfter \/ Backing
     THEN Goes("reflector") /\ UNCHANGED backoff
     ELSE /\ run' = [stage |-> "observing", tip |-> tip, notes |-> {}, chunk |-> Chunk,
                     covers |-> Marker(observations),
                     entries |-> Cardinality(Backlog(observations))]
          /\ backoff' = NoBackoff
  /\ UNCHANGED <<log, tip, store, runs, troubles>>

Note ==
  /\ run.stage = "observing" /\ Cardinality(run.notes) < MaxCalls
  /\ \E says \in Noted, cites \in SUBSET run.chunk :
       /\ cites # {} /\ \A o \in run.notes : o.id # Id(says, {})
       /\ run' = [run EXCEPT !.notes = @ \cup {[id |-> Id(says, {}), cites |-> cites]}]
  /\ UNCHANGED <<log, tip, store, backoff, runs, troubles>>

(* A mutant: the marker is the whole backlog. *)
ObservationOfAll(o) ==
  [id |-> o.id, cites |-> o.cites, at |-> tip, covers |-> Max(Sources(Here)),
   chunk |-> run.chunk, stray |-> Stray]

Observation(o) == [id |-> o.id, cites |-> o.cites, at |-> tip, covers |-> Max(run.chunk),
                   chunk |-> run.chunk, stray |-> Stray]
ObserverAnswers ==
  /\ run.stage = "observing"
  /\ backoff' = IF run.notes = {} THEN [covers |-> run.covers, entries |-> run.entries]
                                 ELSE NoBackoff
  /\ observations' = observations \cup {Observation(o) : o \in run.notes}
  /\ run' = [stage |-> "reflector"]
  /\ UNCHANGED <<log, tip, reflections, drops, runs, troubles>>

(* No model, or a failed one: the consolidation ends here.                   *)
Fail ==
  /\ run.stage \in {"observing", "reflecting"} /\ Trouble /\ Over
  /\ UNCHANGED <<log, tip, store, backoff, runs>>
-------------------------------------------------------------------------------
(* Reflecting: proposals may replace reflections, older ones or new ones.    *)
StartReflector ==
  /\ run.stage = "reflector"
  /\ IF Cardinality(Backlog(reflections)) < ReflectAfter \/ Marker(observations) = 0
     THEN Over
     ELSE run' = [stage |-> IF ActiveObservations = {} THEN "condenser" ELSE "reflecting",
                  tip |-> tip, covers |-> Marker(observations), calls |-> 0,
                  seen |-> ActiveObservations, new |-> {}, superseded |-> <<>>,
                  old |-> {[id |-> r.id, support |-> r.support] : r \in ActiveReflections}]
  /\ UNCHANGED <<log, tip, store, backoff, runs, troubles>>

Support(S) == UNION {r.support : r \in S}
Known == run.old \cup run.new
Gone == {s[1] : s \in Sq!ToSet(run.superseded)}
(* A fact already known keeps its id; a new one that replaces others is      *)
(* named after them too.                                                     *)
Names(says, replaces) ==
  LET same == {r.id : r \in {k \in Known : k.id[1] = says /\ k.id \notin Gone}}
  IN  IF same # {} THEN same ELSE {Id(says, replaces)}
Propose ==
  /\ run.stage = "reflecting" /\ run.calls < MaxCalls
  /\ \E says \in Learned, replaces \in SUBSET Ids(Known) :
     \E id \in Names(says, replaces),
        support \in SUBSET (run.seen \cup Support({r \in Known : r.id \in replaces})) :
       /\ support # {} /\ id \notin Gone \cup replaces /\ replaces \cap Gone = {}
       /\ run' = [run EXCEPT !.calls = @ + 1,
                             !.superseded = @ \o Sq!SetToSeq({<<old, id>> : old \in replaces}),
                             !.new = IF id \in Ids(Known) THEN @
                                     ELSE @ \cup {[id |-> id, support |-> support]}]
  /\ UNCHANGED <<log, tip, store, backoff, runs, troubles>>

(* The new reflections are written first, then each that is replaced.        *)
Recorded(S) == IF S = {} THEN <<>> ELSE <<[kind |-> "reflections", new |-> S]>>
Drop(ids, by, into) ==
  IF ids = {} THEN <<>> ELSE <<[kind |-> "drop", ids |-> ids, by |-> by, into |-> into]>>
Replacements == [i \in DOMAIN run.superseded |->
                   Drop({run.superseded[i][1]}, run.superseded[i][2], {})[1]]
(* A mutant: what is replaced goes first. *)
RemovesFirst ==
  /\ run.stage = "reflecting"
  /\ run' = [stage |-> "writing", then |-> "dropper", tip |-> run.tip,
             covers |-> run.covers, writes |-> Replacements \o Recorded(run.new),
             eff |-> IF run.new = {} THEN 0 ELSE run.covers,
             same |-> {r \in run.new : r.id \notin Gone}]
  /\ UNCHANGED <<log, tip, store, backoff, runs, troubles>>

ReflectorAnswers ==
  /\ run.stage = "reflecting"
  /\ run' = [stage |-> "writing", then |-> "dropper", tip |-> run.tip,
             covers |-> run.covers, writes |-> Recorded(run.new) \o Replacements,
             eff |-> IF run.new = {} THEN 0 ELSE run.covers,
             same |-> {r \in run.new : r.id \notin Gone}]
  /\ UNCHANGED <<log, tip, store, backoff, runs, troubles>>

(* One transaction of the store.                                             *)
Write ==
  /\ run.stage = "writing" /\ run.writes # <<>>
  /\ LET w == Head(run.writes) IN
       IF w.kind = "reflections"
       THEN /\ reflections' = reflections \cup
                 {[id |-> r.id, support |-> r.support, at |-> tip, covers |-> run.covers,
                   stray |-> Stray] : r \in w.new}
            /\ UNCHANGED drops
       ELSE /\ drops' = drops \cup
                 {[ids |-> w.ids, by |-> w.by, into |-> w.into, at |-> tip,
                   covers |-> run.covers, stray |-> Stray, n |-> Cardinality(drops) + 1]}
            /\ UNCHANGED reflections
  /\ run' = [run EXCEPT !.writes = Tail(@)]
  /\ UNCHANGED <<log, tip, observations, backoff, runs, troubles>>
Written ==
  /\ run.stage = "writing" /\ run.writes = <<>>
  /\ IF run.then = "none" THEN Over ELSE Goes(run.then)
  /\ UNCHANGED <<log, tip, store, backoff, runs, troubles>>
-------------------------------------------------------------------------------
(* Dropping, only after a reflection was added.                              *)
Excess(S) == Cardinality(S) - PoolTarget
StartDropper ==
  /\ run.stage = "dropper"
  /\ IF \/ run.eff = 0 \/ run.same = {} \/ Marker(observations) = 0
        \/ Cardinality(ActiveObservations) <= PoolTarget
     THEN Goes("condenser")
     ELSE run' = [stage |-> "dropping", tip |-> tip, seen |-> ActiveObservations,
                  refs |-> {[id |-> r.id, support |-> r.support] : r \in ActiveReflections}
                           \cup run.same,
                  covers |-> IF run.eff \in Here THEN Min({run.eff, Marker(observations)})
                             ELSE Marker(observations)]
  /\ UNCHANGED <<log, tip, store, backoff, runs, troubles>>

(* Of what the model proposes, the best reflected observations go first.     *)
Tier(o) == Min({2, Cardinality({r \in run.refs : o \in r.support})})
Candidates(proposed) ==
  {D \in SUBSET proposed :
     /\ Cardinality(D) = Min({Cardinality(proposed), Excess(run.seen)})
     /\ \A d \in D, k \in proposed \ D : Tier(d) >= Tier(k)}
DropperAnswers ==
  /\ run.stage = "dropping"
  /\ \E proposed \in SUBSET run.seen : \E D \in Candidates(proposed) :
       run' = [stage |-> "writing", then |-> "condenser", tip |-> run.tip,
               covers |-> run.covers, writes |-> Drop(D, None, {})]
  /\ UNCHANGED <<log, tip, store, backoff, runs, troubles>>

DropperFails ==
  /\ run.stage = "dropping" /\ Trouble /\ Goes("condenser")
  /\ UNCHANGED <<log, tip, store, backoff, runs>>
-------------------------------------------------------------------------------
(* Condensing: passes of merges and drops over the pool, all written at last.*)
Pool(S) == {[id |-> r.id, support |-> r.support] : r \in S}
StartCondenser ==
  /\ run.stage = "condenser"
  /\ IF Marker(reflections) = 0 \/ Cardinality(Ids(ActiveReflections)) <= ReflMax
     THEN Over
     ELSE run' = [stage |-> "condensing", tip |-> tip, covers |-> Marker(reflections),
                  calls |-> 0, pass |-> 1, original |-> Ids(ActiveReflections),
                  pool |-> Pool(ActiveReflections), consumed |-> {}, added |-> {},
                  lost |-> {}, net |-> {}, dropped |-> {}, into |-> {}]
  /\ UNCHANGED <<log, tip, store, backoff, runs, troubles>>

Unused == {r \in run.pool : r.id \notin run.consumed}
MergedName(says, sources) ==
  LET say(S) == {r.id : r \in {x \in S : x.id[1] = says}}
  IN  IF say(Unused) # {} THEN say(Unused)
      ELSE IF say(run.added) # {} THEN say(run.added) ELSE {Id(says, Ids(sources))}
(* What stands for the reflections that went, once these become id.          *)
Becomes(ids, id) == {<<p[1], IF p[2] \in ids THEN id ELSE p[2]>> : p \in run.into}
                    \cup {<<x, id>> : x \in ids \ {id}}
Merge ==
  /\ run.stage = "condensing" /\ run.calls < MaxMerges
  /\ \E sources \in SUBSET Unused, says \in Learned :
     /\ sources # {}
     /\ \E id \in MergedName(says, sources) :
          run' = [run EXCEPT !.calls = @ + 1, !.consumed = @ \cup Ids(sources),
                  !.lost = @ \cup (Ids(sources) \ {id}),
                  !.added = IF id \in Ids(run.pool) THEN @
                            ELSE {r \in @ : r.id # id}
                                 \cup {[id |-> id, support |-> Support(sources)]},
                  !.into = Becomes(Ids(sources), id)]
  /\ UNCHANGED <<log, tip, store, backoff, runs, troubles>>

Discard ==
  /\ run.stage = "condensing" /\ run.calls < MaxMerges
  /\ \E r \in Unused :
       run' = [run EXCEPT !.calls = @ + 1, !.consumed = @ \cup {r.id},
                          !.lost = @ \cup {r.id},
                          !.into = {p \in @ : r.id \notin {p[1], p[2]}}]
  /\ UNCHANGED <<log, tip, store, backoff, runs, troubles>>

(* The net change of the passes so far.                                      *)
NetDropped == run.dropped \cup (run.lost \cap run.original)
NetAdded == {r \in run.net : r.id \notin run.lost}
            \cup {r \in run.added : r.id \notin run.original}
Changed == run.lost # {} \/ run.added # {}
LastPass == run.pass = MaxPasses \/ Cardinality(run.pool) <= ReflTarget
NextPass ==
  /\ run.stage = "condensing" /\ Changed /\ ~LastPass
  /\ LET pool == {r \in run.pool : r.id \notin run.lost} \cup run.added IN
       /\ pool # {}
       /\ run' = [run EXCEPT !.pass = @ + 1, !.pool = pool, !.consumed = {}, !.added = {},
                             !.lost = {}, !.net = NetAdded, !.dropped = NetDropped]
  /\ UNCHANGED <<log, tip, store, backoff, runs, troubles>>
CondenserAnswers ==
  /\ run.stage = "condensing" /\ (Changed => LastPass)
  /\ run' = [stage |-> "writing", then |-> "none", tip |-> run.tip, covers |-> run.covers,
             writes |-> Recorded(NetAdded)
                        \o Drop(NetDropped, None, {p \in run.into : p[1] \in NetDropped})]
  /\ UNCHANGED <<log, tip, store, backoff, runs, troubles>>

CondenserFails ==
  /\ run.stage = "condensing" /\ Trouble /\ Over
  /\ UNCHANGED <<log, tip, store, backoff, runs>>
-------------------------------------------------------------------------------
Consolidation ==
  \/ Launch \/ StartObserver \/ Note \/ ObserverAnswers
  \/ StartReflector \/ Propose \/ ReflectorAnswers \/ Write \/ Written
  \/ StartDropper \/ DropperAnswers
  \/ StartCondenser \/ Merge \/ Discard \/ NextPass \/ CondenserAnswers
Next == \/ Consolidation \/ Turn \/ Move \/ Compact
        \/ Die \/ Fail \/ DropperFails \/ CondenserFails
Spec == Init /\ [][Next]_vars
-------------------------------------------------------------------------------
TypeOK ==
  /\ tip \in 0..Len(log) /\ \A n \in DOMAIN log : log[n].up \in 0..(n - 1)
  /\ \A r \in observations \cup reflections \cup drops :
       r.at \in DOMAIN log /\ r.covers \in DOMAIN log /\ log[r.covers].kind = "source"
  /\ \A d \in drops : d.ids # {}

Clean == \A S \in {observations, reflections, drops} : \A r \in Visible(S) : ~r.stray

(* Every entry up to the observed one was read by an observer whose notes    *)
(* are on this branch, unless a record was written after the session had     *)
(* left the branch it is about (capped chunks, runs that failed or died).    *)
NothingSkipped ==
  Clean => \A n \in Sources(Here) : n <= Marker(observations) =>
             \E r \in Visible(observations) : n \in r.chunk

(* What replaces a reflection, or what it was merged into, is on the branch  *)
(* and was not tombstoned before: no fact is lost with the one it replaces.  *)
Targets(d) == (IF d.by = None THEN {} ELSE {d.by}) \cup {p[2] : p \in d.into}
StandInLives ==
  Clean => \A d \in Visible(drops) : \A t \in Targets(d) :
    /\ t \in Ids(Visible(reflections))
    /\ \A e \in Visible(drops) : t \in e.ids => e.n > d.n
=============================================================================
