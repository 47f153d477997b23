-------------------------------- MODULE Pickup --------------------------------
(* Pickup of ready work (lib/reconcile/pickup.ts): one record per repository, *)
(* owned by the thread that enables it, and one watcher process that reads    *)
(* the tracker when its files change and every five minutes, and starts a     *)
(* reconciler on each root that may be taken.  Every change of the record and *)
(* every scan runs under one lock.  People meanwhile edit the tracker, claim  *)
(* issues, start and stop reconcilers by hand; processes die, and watchers    *)
(* replace themselves when the code on disk has changed.                      *)
EXTENDS TrackerRules, Naturals

CONSTANTS
  Slug,        \* names of issues
  Trackers,    \* the graphs of issues that people and runs may write
  Tracked,     \* the one of them at first
  Owner,       \* threads that may own the pickup
  Scopes,      \* the scopes they ask for
  Project,     \* the scope of the whole project
  Nobody,      \* a lock nobody holds, a process nobody has started
  MaxPid,      \* bound: watcher processes
  MaxEdits,    \* bound: edits and manual starts and stops
  MaxTroubles  \* bound: processes and threads that die, starts that fail

VARIABLES
  rows,     \* the tracker
  settled,  \* issues whose file is unchanged for the quiet period
  runs,     \* each root's reconciler: none, live, stalled or finished
  pickup,   \* the record
  lock,     \* who holds its lock
  watcher,  \* the watcher processes
  threads,  \* the owners' threads that are live
  asking,   \* configurations in progress
  spawned,  \* history: how often pickup has spawned each root's reconciler
  raced,    \* history: a person acted since the scan has read the tracker
  edits, mishaps

vars == <<rows, settled, runs, pickup, lock, watcher, threads, asking, spawned, raced, edits, mishaps>>
Pid == 1..MaxPid
-------------------------------------------------------------------------------
Init ==
  /\ rows = Tracked /\ settled = Slug
  /\ runs = [s \in Slug |-> "none"]
  /\ pickup = [enabled |-> FALSE, paused |-> FALSE, owner |-> None, scope |-> {},
               watcher |-> Nobody, started |-> {}]
  /\ lock = Nobody
  /\ watcher = [w \in Pid |-> [at |-> "unborn", after |-> Nobody, due |-> FALSE, ends |-> FALSE,
                               left |-> {}, new |-> {}]]
  /\ threads = Owner
  /\ asking = [o \in Owner |-> "no"]
  /\ spawned = [s \in Slug |-> 0] /\ raced = FALSE
  /\ edits = 0 /\ mishaps = 0

Mishap == mishaps < MaxTroubles /\ mishaps' = mishaps + 1
Acts == edits < MaxEdits /\ edits' = edits + 1 /\ raced' = TRUE

Alive(w) == w # Nobody /\ watcher[w].at \notin {"unborn", "dead"}
Free == lock = Nobody
Unborn == {w \in Pid : watcher[w].at = "unborn"}
Born(w, after) == [watcher[w] EXCEPT !.at = "born", !.after = after]

-------------------------------------------------------------------------------
(* Which roots a scan starts.                                                 *)
Unfinished(s) == runs[s] \in {"live", "stalled"}

(* The snapshot shows an unfinished run as a claim of its root.               *)
Snapshot(all, unfinished) ==
  LET done == complete(all)
  IN  [s \in DOMAIN all |->
        [all[s] EXCEPT !.claim = IF s \in unfinished \ done THEN "run" ELSE @]]

(* What every snapshot offers and which rows of it are claimed.               *)
Shown ==
  {LET shown == Snapshot(all, unfinished)
   IN  [of |-> <<all, unfinished>>, frontier |-> frontier(shown, FALSE),
        claimed |-> {s \in DOMAIN all : shown[s].claim # None}] :
     all \in Trackers, unfinished \in SUBSET Slug}
Read == CHOOSE read \in Shown : read.of = <<rows, {s \in Slug : Unfinished(s)}>>

Above(s) ==
  LET up[d \in DOMAIN rows] == d = rows[s].up \/ \E c \in children(d, rows) : c # s /\ up[c]
  IN  {d \in DOMAIN rows : up[d]}
Whole(s) == {d \in DOMAIN rows : d = s \/ s \in Above(d)}

InScope(s) == pickup.scope = Project \/ ({s} \cup Above(s)) \cap pickup.scope # {}

Candidates(read) == {s \in read.frontier : InScope(s)}

(* A mutant: a child of a tree that someone shapes is taken out of it.        *)
RipeWithin(read) ==
  {s \in Candidates(read) :
     Above(s) \cap Candidates(read) = {} /\ runs[s] = "none" /\ s \notin pickup.started}

(* A mutant: only the record's own starts count.                              *)
RipeByRecord(read) ==
  {s \in Candidates(read) :
     /\ Above(s) \cap read.claimed = {}
     /\ Above(s) \cap Candidates(read) = {} /\ s \notin pickup.started}

(* The widest free roots that no reconciler and no pickup has taken before.   *)
Ripe(read) ==
  {s \in Candidates(read) :
     /\ Above(s) \cap read.claimed = {}
     /\ Above(s) \cap Candidates(read) = {}
     /\ runs[s] = "none" /\ s \notin pickup.started}

select == {s \in Ripe(Read) : Whole(s) \subseteq settled}

-------------------------------------------------------------------------------
(* Configuration.                                                             *)
(* Another owner's pickup is refused while that owner's thread lives; the     *)
(* answer of bb is awaited before the lock is taken.                          *)
Ask(o) ==
  /\ asking[o] = "no" /\ o \in threads /\ edits < MaxEdits
  /\ pickup.enabled => pickup.owner = o \/ pickup.owner \notin threads
  /\ asking' = [asking EXCEPT ![o] = "sets"]
  /\ edits' = edits + 1
  /\ UNCHANGED <<rows, settled, runs, pickup, lock, watcher, threads, spawned, raced, mishaps>>

Configure(o, scope, paused) ==
  /\ asking[o] = "sets" /\ Free
  /\ pickup' = [pickup EXCEPT !.enabled = TRUE, !.owner = o, !.scope = scope, !.paused = paused]
  /\ asking' = [asking EXCEPT ![o] = "watches"]
  /\ UNCHANGED <<rows, settled, runs, lock, watcher, threads, spawned, raced, edits, mishaps>>

(* A watcher that is alive is left alone, whatever is about to happen to it.  *)
ensureWatcher ==
  IF ~pickup.enabled \/ Alive(pickup.watcher) THEN UNCHANGED <<pickup, watcher>>
  ELSE \E w \in Unborn :
         /\ pickup' = [pickup EXCEPT !.watcher = w]
         /\ watcher' = [watcher EXCEPT ![w] = Born(w, Nobody)]

Watched(o) ==
  /\ asking[o] = "watches" /\ Free /\ ensureWatcher
  /\ asking' = [asking EXCEPT ![o] = "no"]
  /\ UNCHANGED <<rows, settled, runs, lock, threads, spawned, raced, edits, mishaps>>

(* The owner's session starts again.                                          *)
SessionStart(o) ==
  /\ o \in threads /\ Free /\ pickup.owner = o /\ pickup.enabled
  /\ ~Alive(pickup.watcher) /\ ensureWatcher
  /\ UNCHANGED <<rows, settled, runs, lock, threads, asking, spawned, raced, edits, mishaps>>

stopPickup ==
  /\ Free /\ pickup.enabled
  /\ pickup' = [pickup EXCEPT !.enabled = FALSE]
  /\ watcher' = [w \in Pid |-> IF w = pickup.watcher /\ Alive(w)
                               THEN [watcher[w] EXCEPT !.ends = TRUE] ELSE watcher[w]]
  /\ UNCHANGED <<rows, settled, runs, lock, threads, asking, spawned, raced, edits, mishaps>>

-------------------------------------------------------------------------------
(* The watcher.                                                               *)
World == UNCHANGED <<rows, settled, threads, asking, edits>>
Dies(w) == [watcher EXCEPT ![w].at = "dead"]

(* It waits for its predecessor to be gone, then takes the record over.       *)
Boot(w) ==
  /\ watcher[w].at = "born" /\ ~Alive(watcher[w].after) /\ Free
  /\ IF ~pickup.enabled \/ (Alive(pickup.watcher) /\ pickup.watcher # w)
     THEN watcher' = Dies(w) /\ UNCHANGED pickup
     ELSE /\ pickup' = [pickup EXCEPT !.watcher = w]
          /\ watcher' = [watcher EXCEPT ![w].at = "rests", ![w].due = TRUE]
  /\ UNCHANGED <<runs, lock, spawned, raced, mishaps>> /\ World

Tick(w) ==
  /\ watcher[w].at = "rests" /\ watcher[w].due
  /\ watcher' = IF ~pickup.enabled \/ pickup.watcher # w THEN Dies(w)
                ELSE [watcher EXCEPT ![w].at = "asks", ![w].due = FALSE]
  /\ UNCHANGED <<runs, pickup, lock, spawned, raced, mishaps>> /\ World

(* scan(): the record, the tracker and the runs are read once.                *)
Scan(w) ==
  /\ watcher[w].at = "asks" /\ Free
  /\ IF ~pickup.enabled \/ pickup.paused
     THEN watcher' = [watcher EXCEPT ![w].at = "rests"] /\ UNCHANGED <<lock, raced>>
     ELSE /\ lock' = w /\ raced' = FALSE
          /\ watcher' = [watcher EXCEPT ![w].at = "starts", ![w].left = select, ![w].new = {},
                                         ![w].due = Ripe(Read) # select]
  /\ UNCHANGED <<runs, pickup, spawned, mishaps>> /\ World

(* A run that lives already is left alone and recorded as started.            *)
StartRun(w, root) ==
  /\ watcher[w].at = "starts" /\ root \in watcher[w].left
  /\ watcher' = [watcher EXCEPT ![w].left = @ \ {root}, ![w].new = @ \cup {root}]
  /\ runs' = [runs EXCEPT ![root] = "live"]
  /\ spawned' = [spawned EXCEPT ![root] = @ + (IF runs[root] = "live" THEN 0 ELSE 1)]
  /\ UNCHANGED <<pickup, lock, raced, mishaps>> /\ World

StartFails(w, root) ==
  /\ Mishap /\ watcher[w].at = "starts" /\ root \in watcher[w].left
  /\ watcher' = [watcher EXCEPT ![w].left = @ \ {root}]
  /\ UNCHANGED <<runs, pickup, lock, spawned, raced>> /\ World

Record(w) ==
  /\ watcher[w].at = "starts" /\ watcher[w].left = {}
  /\ pickup' = [pickup EXCEPT !.started = @ \cup watcher[w].new]
  /\ watcher' = [watcher EXCEPT ![w].at = "rests", ![w].new = {}]
  /\ lock' = Nobody
  /\ UNCHANGED <<runs, spawned, raced, mishaps>> /\ World

(* The code on disk is new: a successor is spawned and recorded.              *)
Refresh(w) ==
  /\ watcher[w].at = "rests" /\ Free
  /\ IF ~pickup.enabled \/ pickup.watcher # w THEN watcher' = Dies(w) /\ UNCHANGED pickup
     ELSE \E n \in Unborn :
            /\ pickup' = [pickup EXCEPT !.watcher = n]
            /\ watcher' = [Dies(w) EXCEPT ![n] = Born(n, w)]
  /\ UNCHANGED <<runs, lock, spawned, raced, mishaps>> /\ World

(* Every five minutes.                                                        *)
Recover(w) ==
  /\ watcher[w].at = "rests" /\ ~watcher[w].due
  /\ watcher' = [watcher EXCEPT ![w].due = TRUE]
  /\ UNCHANGED <<runs, pickup, lock, spawned, raced, mishaps>> /\ World

(* A signal is taken between two ticks, or before the handlers are there.     *)
End(w) ==
  /\ watcher[w].ends /\ watcher[w].at \in {"born", "rests"}
  /\ watcher' = Dies(w)
  /\ UNCHANGED <<runs, pickup, lock, spawned, raced, mishaps>> /\ World

(* A mutant: the lock is a file that outlives its process.                    *)
KilledHolding(w) ==
  /\ Mishap /\ Alive(w)
  /\ watcher' = Dies(w)
  /\ UNCHANGED <<runs, pickup, lock, spawned, raced>> /\ World

Killed(w) ==
  /\ Mishap /\ Alive(w)
  /\ watcher' = Dies(w)
  /\ lock' = IF lock = w THEN Nobody ELSE lock
  /\ UNCHANGED <<runs, pickup, spawned, raced>> /\ World

-------------------------------------------------------------------------------
(* People and reconcilers.                                                    *)
Kicked == [w \in Pid |-> IF watcher[w].at \in {"rests", "asks", "starts"}
                        THEN [watcher[w] EXCEPT !.due = TRUE] ELSE watcher[w]]
Apart == UNCHANGED <<pickup, lock, threads, asking, spawned>>

Edit(new) ==
  /\ Acts /\ Cardinality({s \in Slug : new[s] # rows[s]}) = 1
  /\ rows' = new /\ settled' = {s \in settled : new[s] = rows[s]} /\ watcher' = Kicked
  /\ UNCHANGED <<runs, mishaps>> /\ Apart

QuietPeriod(s) ==
  /\ s \notin settled /\ settled' = settled \cup {s}
  /\ UNCHANGED <<rows, runs, watcher, raced, edits, mishaps>> /\ Apart

StartByHand(s) ==
  /\ Acts /\ runs[s] # "live" /\ runs' = [runs EXCEPT ![s] = "live"]
  /\ UNCHANGED <<rows, settled, watcher, mishaps>> /\ Apart

StopByHand(s) ==
  /\ Acts /\ Unfinished(s) /\ runs' = [runs EXCEPT ![s] = "finished"]
  /\ UNCHANGED <<rows, settled, watcher, mishaps>> /\ Apart

RunDies(s) ==
  /\ Mishap /\ runs[s] = "live" /\ runs' = [runs EXCEPT ![s] = "stalled"]
  /\ UNCHANGED <<rows, settled, watcher, raced, edits>> /\ Apart

(* A run closes its whole tree.                                               *)
RunFinishes(s) ==
  LET closed(d) == IF d \in Whole(s) THEN [rows[d] EXCEPT !.stage = "done"] ELSE rows[d]
  IN  /\ runs[s] = "live" /\ runs' = [runs EXCEPT ![s] = "finished"]
      /\ rows' = [d \in DOMAIN rows |-> closed(d)]
      /\ settled' = settled \ Whole(s) /\ watcher' = Kicked
      /\ UNCHANGED <<raced, edits, mishaps>> /\ Apart

ThreadGone(o) ==
  /\ Mishap /\ o \in threads /\ threads' = threads \ {o}
  /\ asking' = [asking EXCEPT ![o] = "no"]
  /\ UNCHANGED <<rows, settled, runs, pickup, lock, watcher, spawned, raced, edits>>

-------------------------------------------------------------------------------
Works(w) == Boot(w) \/ Tick(w) \/ Scan(w) \/ Record(w) \/ End(w) \/ \E s \in Slug : StartRun(w, s)

Next ==
  \/ \E o \in Owner : \/ Ask(o) \/ Watched(o) \/ SessionStart(o) \/ ThreadGone(o)
                     \/ \E scope \in Scopes, paused \in BOOLEAN : Configure(o, scope, paused)
  \/ stopPickup
  \/ \E w \in Pid : \/ Works(w) \/ Refresh(w) \/ Recover(w) \/ Killed(w)
                   \/ \E s \in Slug : StartFails(w, s)
  \/ \E new \in Trackers : Edit(new)
  \/ \E s \in Slug : \/ QuietPeriod(s) \/ StartByHand(s) \/ StopByHand(s)
                    \/ RunDies(s) \/ RunFinishes(s)

Spec == Init /\ [][Next]_vars

(* Watchers run, files come to rest, the five minutes pass and a configuration*)
(* under way is carried out; an owner that lives starts a session again.      *)
Fairness ==
  /\ \A w \in Pid : WF_vars(Works(w)) /\ WF_vars(Recover(w))
  /\ \A s \in Slug : WF_vars(QuietPeriod(s))
  /\ \A o \in Owner : WF_vars(Watched(o)) /\ WF_vars(SessionStart(o))
FairSpec == Spec /\ Fairness
-------------------------------------------------------------------------------
TypeOK ==
  /\ settled \subseteq Slug /\ threads \subseteq Owner
  /\ runs \in [Slug -> {"none", "live", "stalled", "finished"}]
  /\ pickup.watcher \in Pid \cup {Nobody} /\ pickup.started \subseteq Slug
  /\ lock = Nobody \/ watcher[lock].at = "starts"
  /\ \A w \in Pid : watcher[w].at = "starts" => lock = w

(* Pickup spawns a root's reconciler at most once: whatever scans repeat,     *)
(* watchers replace each other or die between a start and its record, and     *)
(* people stop the run, it is theirs to start again.                          *)
StartedOnce == \A s \in Slug : spawned[s] <= 1

(* A run that pickup starts is alone in its tree: unless a person acted since *)
(* the scan has read the tracker, no open issue above or below its root is    *)
(* claimed or has an unfinished run of its own, not even one that has stalled.*)
AloneInItsTree ==
  [][\A s \in Slug : spawned'[s] > spawned[s] /\ ~raced =>
       \A d \in (Above(s) \cup Whole(s)) \ complete(rows) :
         ~Unfinished(d) /\ rows[d].claim = None]_vars

(* While an owner's thread lives and pickup is neither paused nor stopped, a  *)
(* root that stays ready is started in the end: no edit is missed between two *)
(* scans, and neither a failed start nor the end of a watcher forgets it,*)
(* as long as the bound on watchers leaves one.                               *)
ReadyIsStarted ==
  \A s \in Slug :
    s \in Ripe(Read) /\ pickup.enabled /\ ~pickup.paused
      ~> \/ s \notin Ripe(Read) \/ ~pickup.enabled \/ pickup.paused
         \/ pickup.owner \notin threads
         \/ Unborn = {} /\ \A w \in Pid : ~Alive(w)
===============================================================================
