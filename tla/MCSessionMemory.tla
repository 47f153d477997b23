---------------------------- MODULE MCSessionMemory ----------------------------
(* Small instances, for TLC, of the two memories of a session: observational  *)
(* memory (SessionMemory), and the agent's journal beside it (Journal).       *)
(* These share no state: `part` says which of them a behaviour is about, and  *)
(* the other stays as it began.                                               *)
EXTENDS SessionMemory, TLC

CONSTANTS journal, om, k, MaxSession, MaxEvents

VARIABLES
  part, session, place, records, cursors, usable, tools, turn, snapshot, job, busy, triggering,
  events

TheSystems == <<journal, om>>
TheSurfaces == (journal :> {"compaction"}) @@ (om :> {"compaction"})
J == INSTANCE Journal WITH
       Registered <- TheSystems, Owns <- TheSurfaces, TheJournal <- journal, Listed <- <<>>,
       Job <- {k}, MaxEntries <- MaxSession, log <- session, tip <- place

journalVars ==
  <<session, place, records, cursors, usable, tools, turn, snapshot, job, busy, triggering, events>>
-------------------------------------------------------------------------------
PartsInit == part \in {"memory", "journal"} /\ Init /\ J!Init

MemoryNext == part = "memory" /\ Next /\ UNCHANGED <<part, journalVars>>
JournalNext == part = "journal" /\ J!Next /\ UNCHANGED <<part, vars>>

Parts == PartsInit /\ [][MemoryNext \/ JournalNext]_<<part, vars, journalVars>>

(* What is said is told apart only by being the same or not.                  *)
Alike == Permutations(Noted) \cup Permutations(Learned)
-------------------------------------------------------------------------------
(* What the journal shows is whole: no message of a branch it folded is       *)
(* forgotten, and no entry is shown twice (context/journal.ts, expand).   *)
JournalIsWhole == J!TypeOK /\ J!JournalIsWhole
================================================================================
