-------------------------------- MODULE Journal --------------------------------
(* The memory systems of a session and the agent's own journal               *)
(* (src/extensions/context/mechanism.ts, journal.ts, src/lib/records).  The  *)
(* session file is a tree of entries; the session stands at one of them.     *)
(* Which systems are on is a record anchored in the tree, or the settings.   *)
(* A compaction is made by the active system that owns it, else by the next  *)
(* usable one, else by pi.  The journal's asks the model for entries over    *)
(* the context as it was last sent: meanwhile the session may have moved on, *)
(* and what it wrote shows only once pi has recorded the compaction.         *)
EXTENDS Naturals, FiniteSets, Sequences, FiniteSetsExt, SequencesExt

CONSTANTS
  Registered,   \* the systems, in the order they are registered
  Owns,         \* the surfaces each owns alone
  TheJournal,   \* the journal among them
  Listed,       \* memory.systems of the settings, None when not set
  Job,          \* handles of compactions in flight
  MaxEntries,   \* bound: entries of the session file
  MaxEvents     \* bound: failures, moves, restarts, /memory commands, edits of the settings

System == ToSet(Registered)
None == <<>>

VARIABLES
  log,          \* the entries of the session file, by number
  tip,          \* the entry the session stands at
  records,      \* the journal's records, by number
  cursors,      \* the /memory lists, oldest first
  usable,       \* the systems the settings enable
  tools,        \* the systems whose tools are declared
  turn,         \* the agent runs
  snapshot,     \* the request as last sent
  job,          \* the compactions in flight
  busy,         \* the journal's own flag: it is compacting
  triggering,   \* the journal asked pi to compact
  events

tree == <<log, tip, records>>
choice == <<cursors, usable, tools>>
flags == <<busy, triggering>>
vars == <<log, tip, records, cursors, usable, tools, turn, snapshot, job, busy, triggering, events>>
Event == events < MaxEvents /\ events' = events + 1
-------------------------------------------------------------------------------
(* Entries are numbered as they come, so numbers grow along a branch.        *)
Branch(n) ==
  LET above[m \in 0..Len(log)] == IF m = 0 THEN {} ELSE above[log[m].up] \cup {m} IN above[n]
Here == Branch(tip)

(* A record is seen from the entries below the one it was written at; a fork *)
(* holds its parent's entries, and so sees its records.                      *)
Visible(r, n) == r.at = 0 \/ r.at \in Branch(n)
-------------------------------------------------------------------------------
Shared(a, b) == Owns[a] \cap Owns[b] # {}
OwnersFirst == SelectSeq(Registered, LAMBDA s : s \in usable /\ "compaction" \in Owns[s])

(* Systems that overlap none taken before them, in this order.               *)
Compatible(taken, seq) ==
  FoldLeft(LAMBDA on, s : IF s \in ToSet(on) \/ \E a \in ToSet(on) : Shared(a, s)
                          THEN on ELSE Append(on, s), taken, seq)
Defaults == Compatible(IF OwnersFirst = <<>> THEN <<>> ELSE <<Head(OwnersFirst)>>,
                       SelectSeq(Registered, LAMBDA s : s \in usable))
Resolve(list) == Compatible(<<>>, SelectSeq(list, LAMBDA s : s \in usable))

(* The last list written above this entry, else the settings, else defaults. *)
ActiveAt(n) ==
  LET rows == SelectSeq(cursors, LAMBDA c : Visible(c, n)) IN
  IF rows # <<>> THEN Resolve(Last(rows).list)
  ELSE IF Listed # None THEN Resolve(Listed) ELSE Defaults
Active == ToSet(ActiveAt(tip))

(* The owner that is active comes first, then the others.                    *)
Order ==
  SelectSeq(OwnersFirst, LAMBDA s : s \in Active) \o SelectSeq(OwnersFirst, LAMBDA s : s \notin Active)
-------------------------------------------------------------------------------
Sources(S) == {n \in S : log[n].kind \in {"said", "call"}}
Compactions(n) == {m \in Branch(n) : log[m].kind = "compaction"}
Latest(n) == Max({0} \cup Compactions(n))

(* What pi sends: what the latest compaction kept, and what came after it.   *)
InContext(n) ==
  LET c == Latest(n) IN {m \in Sources(Branch(n)) : c # 0 => m >= log[c].kept}

(* A mutant: only the latest compaction's entries.                           *)
latestOnly(n) == LET c == Latest(n) IN IF c = 0 THEN {} ELSE log[c].records

(* The entries that the journal's compactions on this branch list.           *)
ListedRecords(n) == UNION {log[c].records : c \in Compactions(n)}

(* journalRenderer.query: listed checkpoints, and entries written by a call  *)
(* that is no longer in context.                                             *)
Query(n, kept) ==
  {i \in DOMAIN records :
     /\ Visible(records[i], n)
     /\ IF records[i].call = 0 THEN i \in ListedRecords(n) ELSE records[i].call \notin kept}

(* expand: a journal's summary is replaced by its entries.                   *)
Context(n) ==
  LET c == Latest(n) IN
  [entries |-> InContext(n), summary |-> c,
   journal |-> IF c # 0 /\ log[c].by = TheJournal THEN Query(n, InContext(n)) ELSE {}]

(* A mutant: the request last sent, wherever the session went since.         *)
sentLast(n) ==
  IF snapshot = None THEN Context(n)
  ELSE [snapshot.sent EXCEPT !.entries = @ \cup {m \in Sources(Branch(n)) : m > snapshot.leaf}]

(* The context as last sent and what followed, when that is on this branch;  *)
(* else it is built again.                                                   *)
Replay(n) ==
  IF /\ snapshot # None /\ snapshot.leaf \in Branch(n)
     /\ \A c \in Compactions(n) : c <= snapshot.leaf
  THEN [snapshot.sent EXCEPT !.entries = @ \cup {m \in Sources(Branch(n)) : m > snapshot.leaf}]
  ELSE Context(n)

(* History: the entries a checkpoint over this context stands for.           *)
StandsFor(sent, kept) ==
  {m \in sent.entries : m < kept} \cup
  (IF sent.summary # 0 /\ log[sent.summary].by # TheJournal THEN log[sent.summary].folded ELSE {})
-------------------------------------------------------------------------------
NoJob == [at |-> "none", auto |-> FALSE]
Init ==
  /\ log = <<>> /\ tip = 0 /\ records = <<>>
  /\ cursors = <<>> /\ usable = System /\ tools = {}
  /\ turn = FALSE /\ snapshot = None
  /\ job = [k \in Job |-> NoJob] /\ busy = FALSE /\ triggering = FALSE
  /\ events = 0

Entry(kind) == [up |-> tip, kind |-> kind, by |-> "", kept |-> 0, records |-> {}, folded |-> {},
                astray |-> FALSE]
Appends(e) == Len(log) < MaxEntries /\ log' = Append(log, e) /\ tip' = Len(log) + 1

(* A turn starts: the active systems' tools are declared and the request     *)
(* that is sent is kept.                                                     *)
Ask ==
  /\ ~turn /\ turn' = TRUE
  /\ Appends(Entry("said"))
  /\ tools' = Active
  /\ snapshot' = [leaf |-> tip', sent |-> [Context(tip) EXCEPT !.entries = @ \cup {tip'}]]
  /\ UNCHANGED <<records, cursors, usable, job, flags, events>>

(* The agent calls the tool: its message is an entry, the entry a record.    *)
Call ==
  /\ turn /\ TheJournal \in tools
  /\ Appends(Entry("call"))
  /\ records' = Append(records, [at |-> tip', call |-> tip', covers |-> {}])
  /\ UNCHANGED <<choice, turn, snapshot, job, flags, events>>

(* A move to another entry, here or in a fork: the tools follow.             *)
Move ==
  /\ ~turn /\ Event
  /\ tip' \in (0..Len(log)) \ {tip}
  /\ tools' = ToSet(ActiveAt(tip'))
  /\ UNCHANGED <<log, records, cursors, usable, turn, snapshot, job, flags>>

(* /memory name, +name and -name write the list for the entries below.       *)
Memory(s) ==
  /\ Event
  /\ \E list \in {SelectSeq(ActiveAt(tip), LAMBDA a : a # s)} \cup
                 (IF \E a \in Active \ {s} : Shared(a, s) THEN {}
                  ELSE {IF s \in Active THEN ActiveAt(tip) ELSE Append(ActiveAt(tip), s)}) \cup
                 {<<s>> \o SelectSeq(ActiveAt(tip), LAMBDA a : a # s /\ ~Shared(a, s))} :
       /\ cursors' = Append(cursors, [at |-> tip, list |-> list])
       /\ tools' = ToSet(Resolve(list))
  /\ UNCHANGED <<tree, usable, turn, snapshot, job, flags>>

(* The settings are edited.                                                  *)
Settings ==
  /\ Event
  /\ \E s \in System : usable' = IF s \in usable THEN usable \ {s} ELSE usable \cup {s}
  /\ UNCHANGED <<tree, cursors, tools, turn, snapshot, job, flags>>
-------------------------------------------------------------------------------
Sets(k, at) == job' = [job EXCEPT ![k].at = at]

(* A compaction is over, recorded or not; pi tells the journal if it asked.  *)
Ends(k) ==
  /\ job' = [job EXCEPT ![k] = NoJob]
  /\ triggering' = IF job[k].auto THEN FALSE ELSE triggering

(* pi prepares a compaction of the branch it is on: it picks what to keep.   *)
Prepares(k, auto) ==
  /\ job[k].at = "none" /\ \E n \in InContext(tip) : n # Min(InContext(tip))
  /\ \E keep \in InContext(tip) \ {Min(InContext(tip))} :
       job' = [job EXCEPT ![k] = [at |-> "try", auto |-> auto, leaf |-> tip, keep |-> keep,
                                  order |-> Order, by |-> "", mark |-> tip, records |-> {},
                                  folded |-> {}]]

Compact(k) ==
  /\ ~turn /\ Prepares(k, FALSE)
  /\ UNCHANGED <<tree, choice, turn, snapshot, flags, events>>

(* The agent settles; past its threshold the journal asks pi to compact.     *)
Settle ==
  /\ turn /\ turn' = FALSE
  /\ \/ UNCHANGED <<job, triggering>>
     \/ /\ ~triggering /\ ~busy /\ TheJournal \in Active /\ TheJournal \in usable
        /\ triggering' = TRUE
        /\ \E k \in Job : Prepares(k, TRUE)
  /\ UNCHANGED <<tree, choice, snapshot, busy, events>>

TailChoices(k) == InContext(job[k].leaf)
Folds(k, keep) == \E n \in TailChoices(k) : n < keep
Onward(k) == [job[k] EXCEPT !.at = "try", !.order = Tail(@)]

(* A system's turn: the journal starts its checkpoint, unless it already     *)
(* makes one; another system renders or gives up; with none left pi does.    *)
TryJournal(k) ==
  /\ job[k].at = "try" /\ job[k].order # <<>> /\ Head(job[k].order) = TheJournal
  /\ IF busy THEN Ends(k) /\ UNCHANGED <<busy>>
     ELSE /\ busy' = TRUE /\ UNCHANGED triggering
          /\ job' = [job EXCEPT ![k].at = "asking", ![k].mark = tip]
  /\ UNCHANGED <<tree, choice, turn, snapshot, events>>

TryOther(k) ==
  /\ job[k].at = "try" /\ (job[k].order # <<>> => Head(job[k].order) # TheJournal)
  /\ \/ job' = [job EXCEPT ![k].at = "record",
                           ![k].by = IF job[k].order = <<>> THEN "pi" ELSE Head(job[k].order),
                           ![k].folded = {m \in Branch(job[k].leaf) : m < job[k].keep}]
        /\ UNCHANGED events
     \/ job[k].order # <<>> /\ Event /\ job' = [job EXCEPT ![k] = Onward(k)]
  /\ UNCHANGED <<tree, choice, turn, snapshot, flags>>

(* The model fails, or its answer cannot be used: the next system's turn.    *)
(* An abort ends the compaction.  Either way the journal's own flag goes.    *)
Fails(k) ==
  /\ job[k].at = "asking" /\ Event /\ busy' = FALSE
  /\ \/ Ends(k)
     \/ job' = [job EXCEPT ![k] = Onward(k)] /\ UNCHANGED triggering
  /\ UNCHANGED <<tree, choice, turn, snapshot>>

(* A mutant: the session may be anywhere by now.                             *)
anywhere(k) == TRUE

(* Nothing but bookkeeping was added since the checkpoint began.             *)
Unmoved(k) == job[k].mark \in Here /\ ~\E n \in Here : n > job[k].mark

(* The model answered with entries, one of them naming the tail to keep: all *)
(* are written in one transaction, where the session stands.                 *)
Answers(k) ==
  /\ job[k].at = "asking" /\ busy' = FALSE
  /\ \E keep \in TailChoices(k) :
       IF Folds(k, keep) /\ Unmoved(k)
       THEN LET covers == StandsFor(Replay(job[k].leaf), keep) IN
            /\ records' = Append(records, [at |-> tip, call |-> 0, covers |-> covers])
            /\ job' = [job EXCEPT ![k].at = "record", ![k].by = TheJournal, ![k].keep = keep,
                                  ![k].records = {Len(records) + 1}, ![k].folded = covers]
       ELSE job' = [job EXCEPT ![k] = Onward(k)] /\ UNCHANGED records
  /\ UNCHANGED <<log, tip, choice, turn, snapshot, triggering, events>>

(* pi records the compaction where the session stands.                       *)
Record(k) ==
  /\ job[k].at = "record"
  /\ Appends([Entry("compaction") EXCEPT
                !.by = job[k].by, !.kept = job[k].keep, !.records = job[k].records,
                !.folded = job[k].folded,
                !.astray = ~({job[k].leaf, job[k].mark} \subseteq Here)])
  /\ snapshot' = None /\ Ends(k)
  /\ UNCHANGED <<records, choice, turn, busy, events>>

(* pi drops it: aborted, or another extension refused.                       *)
Drop(k) ==
  /\ job[k].at = "record" /\ Event /\ Ends(k)
  /\ UNCHANGED <<tree, choice, turn, snapshot, busy>>

(* The process is gone; a new one opens the session where it stood.          *)
Restart ==
  /\ Event /\ turn' = FALSE /\ snapshot' = None
  /\ job' = [k \in Job |-> NoJob] /\ busy' = FALSE /\ triggering' = FALSE
  /\ tools' = Active
  /\ UNCHANGED <<tree, cursors, usable>>

Works(k) == TryJournal(k) \/ TryOther(k) \/ Answers(k) \/ Record(k)
Next ==
  \/ Ask \/ Call \/ Settle \/ Move \/ Settings \/ Restart
  \/ \E s \in System : Memory(s)
  \/ \E k \in Job : Compact(k) \/ Works(k) \/ Fails(k) \/ Drop(k)
Spec == Init /\ [][Next]_vars
-------------------------------------------------------------------------------
(* Values of the variables have their kinds.                                 *)
TypeOK ==
  /\ tip \in 0..Len(log) /\ usable \subseteq System /\ tools \subseteq System
  /\ \A i \in DOMAIN records : records[i].at \in 0..Len(log)
  /\ turn \in BOOLEAN /\ busy \in BOOLEAN /\ triggering \in BOOLEAN

(* The journal's compaction is the latest of this branch, and those of the   *)
(* branch were recorded on the branch they folded.                           *)
OfTheJournal ==
  /\ Latest(tip) # 0 /\ log[Latest(tip)].by = TheJournal
  /\ \A c \in Compactions(tip) : ~log[c].astray

(* No part of the session is lost to the journal: while its compaction is    *)
(* the latest of a branch, every message of the branch is in the context or  *)
(* is stood for by an entry that is shown, however often the context was     *)
(* folded, by whom, and wherever the session moved in between (expand and    *)
(* query, journal.ts:112-123 and 160-168).                                   *)
NothingForgotten ==
  LET sent == Context(tip) IN
  \A n \in Sources(Here) :
    n \in sent.entries \/ \E i \in sent.journal : n \in records[i].covers

(* Each entry the agent wrote on this branch is in the context once, as its  *)
(* own call or among the journal's, and none of a compaction that was never  *)
(* recorded, or of another branch, is.                                       *)
ShownOnce ==
  LET sent == Context(tip) IN
  \A i \in DOMAIN records :
    IF records[i].call = 0
    THEN i \in sent.journal <=> \E c \in Compactions(tip) : i \in log[c].records
    ELSE IF records[i].call \in Here
         THEN (records[i].call \in sent.entries) # (i \in sent.journal)
         ELSE i \notin sent.journal
(* What the journal shows is whole: nothing is forgotten, nothing is twice.  *)
JournalIsWhole == OfTheJournal => NothingForgotten /\ ShownOnce
=============================================================================
