-------------------------------- MODULE Vault --------------------------------
(* Writes of the tracker kept in a vault (scripts/issues.ts): files of one    *)
(* Git checkout.  A command validates the whole graph and publishes the files *)
(* it touches one after the other under the vault lock; it then leaves a      *)
(* detached process behind, the persister, that commits those paths.          *)
(* Persisters take turns under a lock of their own, wait for a rebase or a    *)
(* merge of that checkout to end and for other Git processes to release       *)
(* index.lock, remove one that nobody holds, and reset what a commit hook     *)
(* left staged.  Commands are killed by their callers' timeouts, people work  *)
(* with Git in the same checkout, and the machine may go down at any step.    *)
EXTENDS Naturals, Sequences, TrackerRules
Sq == INSTANCE SequencesExt

CONSTANTS
  Slug,        \* names of issues
  Initial,     \* the rows of the tracker at first, a graph
  Requests,    \* the writes callers ask for
  Absent,      \* a file that does not exist
  Nobody,      \* a lock nobody holds
  Git, Dead,   \* holders of index.lock: a Git of people, and one that is gone
  MaxWrites,   \* bound: writes accepted
  MaxTroubles  \* bound: kills, faults, Git operations of people and crashes

VARIABLES
  tree,        \* the files of the checkout, each with the number of its write
  head, index, \* the same, as committed and as staged
  lock,        \* the file index.lock
  operation,   \* a merge, rebase, cherry-pick or revert is in progress
  vault, turn, \* holders of the vault lock and of the persisters' lock
  command,     \* each write's command
  persister,   \* each write's persister
  writes, troubles

vars == <<tree, head, index, lock, operation, vault, turn, command, persister, writes, troubles>>
files == <<tree, head, index>>
Write == 1..MaxWrites
-------------------------------------------------------------------------------
Graph(t) == [s \in {s \in Slug : t[s].row # Absent} |-> t[s].row]
Same(a, b) == a.row = b.row /\ a.neat = b.neat
Exists(f) == f.row # Absent

NoLock == <<>>
(* index.lock: whose Git made it, whether it is older than the stale bound,   *)
(* and whether it is the very file that a persister has looked at.            *)
LockOf(who) == [by |-> who, old |-> FALSE, seen |-> FALSE]
Locked == lock # NoLock

NoPaths == [s \in {} |-> s]
Fresh(at, paths) == [at |-> at, paths |-> paths, grab |-> NoPaths, why |-> "", again |-> FALSE,
                     noticed |-> FALSE, kept |-> FALSE, missed |-> FALSE]

Init ==
  /\ tree = [s \in Slug |-> [row |-> IF s \in DOMAIN Initial THEN Initial[s] ELSE Absent,
                             neat |-> TRUE, n |-> 0]]
  /\ head = tree /\ index = tree
  /\ lock \in {NoLock, LockOf(Dead)} /\ operation \in BOOLEAN
  /\ vault = Nobody /\ turn = Nobody
  /\ command = [w \in Write |-> [at |-> "none", left |-> <<>>, put |-> NoPaths, told |-> ""]]
  /\ persister = [w \in Write |-> Fresh("none", {})]
  /\ writes = 0 /\ troubles = 0

Trouble == troubles < MaxTroubles /\ troubles' = troubles + 1
-------------------------------------------------------------------------------
(* What a write changes: for each file touched its new row.                   *)

(* A closed issue frees what it blocks, and so do the parents it completes.   *)
Resolved(s, all) ==
  LET closed == [all EXCEPT ![s].stage = "done", ![s].claim = None]
  IN  {n \in complete(closed) : n = s \/ n \notin complete(all)}

Closed(s, all) ==
  LET resolved == Resolved(s, all)
      freed == {d \in DOMAIN all : all[d].blocked \cap resolved # {}}
      row(d) == IF d = s THEN [all[d] EXCEPT !.stage = "done", !.claim = None] ELSE all[d]
  IN  [d \in freed \cup {s} |-> [row(d) EXCEPT !.blocked = @ \ resolved]]

(* check --fix drops the blockers that are complete.                          *)
Fixed(all) ==
  LET stale == {d \in DOMAIN all : all[d].blocked \cap complete(all) # {}}
  IN  [d \in stale |-> [all[d] EXCEPT !.blocked = @ \ complete(all)]]

Changes(r, all) ==
  CASE r.cmd = "create" -> [s \in {r.slug} |-> r.row]
    [] r.cmd = "update" -> [s \in {r.slug} |->
                             [f \in DOMAIN all[s] |-> IF f \in DOMAIN r.fields THEN r.fields[f] ELSE all[s][f]]]
    [] r.cmd = "remove" -> [s \in {r.slug} |-> Absent]
    [] r.cmd = "close"  -> Closed(r.slug, all)
    [] r.cmd = "fix"    -> Fixed(all)

Accepts(r, all) ==
  CASE r.cmd = "create" -> r.slug \notin DOMAIN all
    [] r.cmd = "close"  -> r.slug \in DOMAIN all /\ ~all[r.slug].archived
    [] r.cmd = "fix"    -> Fixed(all) # NoPaths
    [] OTHER            -> r.slug \in DOMAIN all

Candidate(changes, all) ==
  LET there == {s \in Slug : IF s \in DOMAIN changes THEN changes[s] # Absent ELSE s \in DOMAIN all}
  IN  [s \in there |-> IF s \in DOMAIN changes THEN changes[s] ELSE all[s]]

(* The issue asked for is written first, then the others.                     *)
Order(r, S) == IF r.cmd = "fix" THEN Sq!SetToSeq(S) ELSE <<r.slug>> \o Sq!SetToSeq(S \ {r.slug})

-------------------------------------------------------------------------------
(* The command.                                                               *)
Load(r) ==
  LET w == writes + 1
      all == Graph(tree)
      changes == Changes(r, all)
  IN  /\ w \in Write /\ vault = Nobody
      /\ validateGraph(all) /\ Accepts(r, all) /\ validateGraph(Candidate(changes, all))
      /\ writes' = w /\ vault' = w
      /\ command' = [command EXCEPT ![w] =
           [at |-> "publishes", left |-> Order(r, DOMAIN changes), put |-> changes, told |-> ""]]
      /\ UNCHANGED <<files, lock, operation, turn, persister, troubles>>

(* One file is replaced, or removed; after the last one the lock is released. *)
Publish(w) ==
  LET c == command[w]
      s == Head(c.left)
      last == Len(c.left) = 1
  IN  /\ c.at = "publishes"
      /\ tree' = [tree EXCEPT ![s] = [row |-> c.put[s], neat |-> FALSE, n |-> w]]
      /\ command' = [command EXCEPT ![w].left = Tail(@), ![w].at = IF last THEN "published" ELSE @]
      /\ vault' = IF last THEN Nobody ELSE vault
      /\ UNCHANGED <<head, index, lock, operation, turn, persister, writes, troubles>>

PublishFails(w) ==
  /\ Trouble /\ command[w].at = "publishes"
  /\ command' = [command EXCEPT ![w].at = "over", ![w].told = "failed"]
  /\ vault' = Nobody
  /\ UNCHANGED <<files, lock, operation, turn, persister, writes>>

Spawn(w) ==
  /\ command[w].at = "published"
  /\ command' = [command EXCEPT ![w].at = "waits"]
  /\ persister' = [persister EXCEPT ![w] = Fresh("queued", DOMAIN command[w].put)]
  /\ UNCHANGED <<files, lock, operation, vault, turn, writes, troubles>>

(* The persister's result is passed on, whatever it is.                       *)
Hear(w) ==
  /\ command[w].at = "waits" /\ persister[w].at \in {"done", "failed"}
  /\ command' = [command EXCEPT ![w].at = "over", ![w].told = persister[w].at]
  /\ UNCHANGED <<files, lock, operation, vault, turn, persister, writes, troubles>>

(* An operation in progress is not waited for: the persister does.            *)
Defer(w) ==
  /\ command[w].at = "waits" /\ persister[w].at \notin {"done", "failed"}
  /\ operation \/ persister[w].noticed
  /\ command' = [command EXCEPT ![w].at = "over", ![w].told = "deferred"]
  /\ UNCHANGED <<files, lock, operation, vault, turn, persister, writes, troubles>>

(* A caller's timeout kills the command, not the persister.                   *)
Kill(w) ==
  /\ Trouble /\ command[w].at \in {"publishes", "published", "waits"}
  /\ command' = [command EXCEPT ![w].at = "dead"]
  /\ vault' = IF vault = w THEN Nobody ELSE vault
  /\ UNCHANGED <<files, lock, operation, turn, persister, writes>>
-------------------------------------------------------------------------------
(* The persister.                                                             *)
Goes(w, at) == persister' = [persister EXCEPT ![w].at = at]
Throws(w, why) == persister' = [persister EXCEPT ![w].at = "caught", ![w].why = why]

(* What `git diff HEAD` lists: a file neither staged nor committed is unknown *)
(* to it.                                                                     *)
Differs(w) == {s \in persister[w].paths :
                 (Exists(index[s]) \/ Exists(head[s])) /\ ~Same(tree[s], head[s])}

(* Every file of the write is committed, as it or a later write left it.      *)
Committed(w) == \A s \in persister[w].paths : head[s].n >= w \/ Same(head[s], tree[s])

Finish(w, at) ==
  /\ persister' = [persister EXCEPT ![w].at = at, ![w].kept = Committed(w)]
  /\ turn' = Nobody

Enter(w) ==
  /\ persister[w].at = "queued" /\ turn = Nobody
  /\ turn' = w /\ Goes(w, "checks")
  /\ UNCHANGED <<files, lock, operation, vault, command, writes, troubles>>

Notice(w) ==
  /\ persister[w].at = "checks" /\ operation
  /\ persister' = [persister EXCEPT ![w].noticed = TRUE]
  /\ UNCHANGED <<files, lock, operation, vault, turn, command, writes, troubles>>

Check(w) ==
  /\ persister[w].at = "checks" /\ ~operation
  /\ IF Locked /\ lock.old
     THEN lock' = [lock EXCEPT !.seen = TRUE] /\ Goes(w, "looks")
     ELSE UNCHANGED lock /\ Goes(w, "adds")
  /\ UNCHANGED <<files, operation, vault, turn, command, writes, troubles>>

(* lsof names the Git process that holds the file, or works in the checkout.  *)
Held == Locked /\ lock.by # Dead

Look(w) ==
  /\ persister[w].at = "looks"
  /\ Goes(w, IF Held THEN "adds" ELSE "unlinks")
  /\ UNCHANGED <<files, lock, operation, vault, turn, command, writes, troubles>>

(* The file looked at is removed if it is still there.                        *)
Unlink(w) ==
  /\ persister[w].at = "unlinks"
  /\ lock' = IF Locked /\ lock.seen THEN NoLock ELSE lock
  /\ Goes(w, "adds")
  /\ UNCHANGED <<files, operation, vault, turn, command, writes, troubles>>

(* git add: refused when a path is neither in the checkout nor staged.        *)
Add(w) ==
  LET paths == persister[w].paths
      unknown == {s \in paths : ~Exists(tree[s]) /\ ~Exists(index[s])}
  IN  /\ persister[w].at = "adds"
      /\ IF Locked THEN Throws(w, "lock") /\ UNCHANGED index
         ELSE IF unknown # {} THEN Throws(w, "other") /\ UNCHANGED index
         ELSE /\ index' = [s \in Slug |-> IF s \in paths THEN tree[s] ELSE index[s]]
              /\ Goes(w, IF {s \in paths : ~Same(tree[s], head[s])} = {} THEN "settles" ELSE "commits")
      /\ UNCHANGED <<tree, head, lock, operation, vault, turn, command, writes, troubles>>

(* git commit --only: refused during an operation; it takes index.lock, reads *)
(* the files and runs the hooks.                                              *)
Commit(w) ==
  /\ persister[w].at = "commits"
  /\ IF Locked \/ operation
     THEN Throws(w, IF operation THEN "other" ELSE "lock") /\ UNCHANGED lock
     ELSE /\ lock' = LockOf(w)
          /\ persister' = [persister EXCEPT ![w].at = "hooks",
                                                ![w].grab = [s \in persister[w].paths |-> tree[s]]]
  /\ UNCHANGED <<files, operation, vault, turn, command, writes, troubles>>

(* A hook formats what is committed: the files and HEAD get the formatted     *)
(* text, and the index what was staged before.                                *)
Hooked(w) ==
  LET grab == persister[w].grab
      tidy(s) == [grab[s] EXCEPT !.neat = TRUE]
      paths == DOMAIN grab
  IN  /\ persister[w].at = "hooks"
      /\ head' = [s \in Slug |-> IF s \in paths THEN tidy(s) ELSE head[s]]
      /\ tree' = [s \in Slug |-> IF s \in paths /\ tree[s] = grab[s] THEN tidy(s) ELSE tree[s]]
      /\ index' = [s \in Slug |-> IF s \in paths THEN grab[s] ELSE index[s]]
      /\ lock' = NoLock
      /\ persister' = [persister EXCEPT ![w].at = "settles", ![w].grab = NoPaths]
      /\ UNCHANGED <<operation, vault, turn, command, writes, troubles>>

HookRefuses(w) ==
  /\ Trouble /\ persister[w].at = "hooks"
  /\ lock' = NoLock
  /\ persister' = [persister EXCEPT ![w].at = "caught", ![w].why = "other", ![w].grab = NoPaths]
  /\ UNCHANGED <<files, operation, vault, turn, command, writes>>

(* What is staged although the file is as committed.                          *)
Stale(w) == {s \in persister[w].paths : ~Same(index[s], head[s]) /\ Same(tree[s], head[s])}

Settle(w) ==
  /\ persister[w].at = "settles"
  /\ IF Stale(w) = {} THEN Finish(w, "done") /\ UNCHANGED index
     ELSE IF ~Locked
     THEN /\ index' = [s \in Slug |-> IF s \in Stale(w) THEN head[s] ELSE index[s]]
          /\ Finish(w, "done")
     ELSE IF persister[w].again THEN Finish(w, "failed") /\ UNCHANGED index
     ELSE Throws(w, "lock") /\ UNCHANGED <<index, turn>>
  /\ UNCHANGED <<tree, head, lock, operation, vault, command, writes, troubles>>

(* A mutant: a lock in the way is taken for another writer's commit.          *)
CaughtEarly(w) ==
  /\ persister[w].at = "caught"
  /\ IF operation THEN Goes(w, "checks") ELSE Goes(w, "settles")
  /\ UNCHANGED <<files, lock, operation, vault, turn, command, writes, troubles>>

(* The exception's handler: an operation is waited for; when nothing differs  *)
(* from HEAD another writer has committed it; a lock is waited for.           *)
Caught(w) ==
  /\ persister[w].at = "caught"
  /\ IF operation THEN Goes(w, "checks") /\ UNCHANGED turn
     ELSE IF Differs(w) = {}
     THEN /\ persister' = [persister EXCEPT ![w].at = "settles", ![w].again = TRUE,
                             ![w].missed = \E s \in persister[w].paths : ~Same(tree[s], head[s])]
          /\ UNCHANGED turn
     ELSE IF persister[w].why = "lock" THEN Goes(w, "checks") /\ UNCHANGED turn
     ELSE Finish(w, "failed")
  /\ UNCHANGED <<files, lock, operation, vault, command, writes, troubles>>

(* Ten minutes of waiting end in an error.                                    *)
Expire(w) ==
  /\ Trouble
  /\ \/ persister[w].at = "checks" /\ operation
     \/ persister[w].at = "caught" /\ ~operation /\ Differs(w) # {}
  /\ Finish(w, "failed")
  /\ UNCHANGED <<files, lock, operation, vault, command, writes>>
-------------------------------------------------------------------------------
(* People and their Git in the same checkout, and the machine.                *)
Alone == UNCHANGED <<vault, turn, command, persister, writes>>

(* A commit of a person may take the tracker's files along.                   *)
TakesAlong(S) ==
  /\ head' = [s \in Slug |-> IF s \in S THEN tree[s] ELSE head[s]]
  /\ index' = [s \in Slug |-> IF s \in S THEN tree[s] ELSE index[s]]
  /\ UNCHANGED tree

GitTakes ==
  /\ Trouble /\ ~Locked
  /\ lock' = LockOf(Git)
  /\ UNCHANGED <<files, operation>> /\ Alone

GitReleases ==
  /\ Locked /\ lock.by = Git
  /\ lock' = NoLock
  /\ UNCHANGED <<files, operation, troubles>> /\ Alone

GetsOld ==
  /\ Locked /\ ~lock.old
  /\ lock' = [lock EXCEPT !.old = TRUE]
  /\ UNCHANGED <<files, operation, troubles>> /\ Alone

PersonUnlocks ==
  /\ Locked /\ lock.by = Dead
  /\ lock' = NoLock
  /\ UNCHANGED <<files, operation, troubles>> /\ Alone

OperationBegins ==
  /\ Trouble /\ ~Locked /\ ~operation
  /\ operation' = TRUE
  /\ UNCHANGED <<files, lock>> /\ Alone

OperationEnds ==
  /\ operation /\ ~Locked
  /\ operation' = FALSE
  /\ \E S \in {{}, Slug} : TakesAlong(S)
  /\ UNCHANGED <<lock, troubles>> /\ Alone

(* Everything that runs is gone, and index.lock stays.                        *)
Crash ==
  /\ Trouble
  /\ vault' = Nobody /\ turn' = Nobody
  /\ lock' = IF Locked THEN [lock EXCEPT !.by = Dead] ELSE NoLock
  /\ command' = [w \in Write |-> IF command[w].at \in {"publishes", "published", "waits"}
                                 THEN [command[w] EXCEPT !.at = "dead"] ELSE command[w]]
  /\ persister' = [w \in Write |-> IF persister[w].at \notin {"none", "done", "failed"}
                                   THEN [persister[w] EXCEPT !.at = "dead"] ELSE persister[w]]
  /\ UNCHANGED <<files, operation, writes>>

-------------------------------------------------------------------------------
Command(w) == Publish(w) \/ Spawn(w) \/ Hear(w) \/ Defer(w)
Persist(w) ==
  \/ Enter(w) \/ Check(w) \/ Look(w) \/ Unlink(w) \/ Add(w)
  \/ Commit(w) \/ Hooked(w) \/ Settle(w) \/ Caught(w)
People == GitTakes \/ PersonUnlocks \/ OperationBegins \/ Crash

Next ==
  \/ \E r \in Requests : Load(r)
  \/ \E w \in Write : \/ Command(w) \/ PublishFails(w) \/ Kill(w)
                      \/ Persist(w) \/ Notice(w) \/ HookRefuses(w) \/ Expire(w)
  \/ People \/ GitReleases \/ GetsOld \/ OperationEnds

Spec == Init /\ [][Next]_vars

-------------------------------------------------------------------------------
TypeOK ==
  /\ \A s \in Slug : {tree[s].n, head[s].n, index[s].n} \subseteq 0..writes
  /\ \A s \in Slug : head[s].n <= tree[s].n
  /\ lock = NoLock \/ lock.by \in Write \cup {Git, Dead}
  /\ vault \in Write \cup {Nobody} /\ turn \in Write \cup {Nobody}
  /\ \A w \in Write : (command[w].at = "publishes") = (vault = w)
  /\ \A w \in Write : persister[w].at \in {"hooks", "settles"} => turn = w

(* Whatever writes run side by side, are cut between two files or fail half   *)
(* way, the files are a graph the tracker accepts, and when every open issue  *)
(* may be taken by an agent some issue is on the frontier: no combination of  *)
(* parents and blockers leaves everything waiting.                            *)
Open(all) == DOMAIN all \ complete(all)
WorkRemains ==
  LET all == Graph(tree)
      free == /\ \A s \in DOMAIN all : all[s].claim = None /\ ~all[s].guarded /\ all[s].blocked \subseteq DOMAIN all
              /\ \A s \in Open(all) : all[s].agent /\ all[s].stage \in {None, "spec", "ticket", "done"}
  IN  /\ validateGraph(all)
      /\ free /\ Open(all) # {} => frontier(all, TRUE) # {}

(* A caller that is told its write was persisted finds it in HEAD, at that    *)
(* moment, as written or as a later write left it.  One case is excepted, a   *)
(* new file whose `git add` met index.lock: nothing then differs from HEAD    *)
(* for Git, and the write is reported although it is in no commit.            *)
ToldIsTrue ==
  \A w \in Write : command[w].told = "done" => persister[w].kept \/ persister[w].missed
=============================================================================
