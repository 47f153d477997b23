----------------------------- MODULE ChainsProofs -----------------------------
(***************************************************************************)
(* What Chains.tla promises, for every number of nodes, workers, budgets    *)
(* and mishaps: no node is held without somebody who knows, no idle worker *)
(* is forgotten, and a resolution answers the exception it was queued for.  *)
(***************************************************************************)
EXTENDS Chains, TLAPS

----------------------------------------------------------------------------
(* The type.                                                               *)

Stages == {"off", "visit", "except", "down"}
Causes == {"none", "launch", "report", "tick"}
Sources == {"none", "file", "handler"}
Labels == {"rest", "stop", "find", "spawn", "up", "tell", "land", "withdraw", "again",
           "discard", "unfile", "hire", "hired", "judge"}
Thens == {"none", "relaunch", "checkpoint", "save", "answer", "redispatch", "move-out"}
Rules == {"answer", "retry", "redispatch", "move-out", "escalate"}
ChainTypes ==
  [phase : Phase \cup {"none"}, handle : Nat, launching : Nat, to : Phase \cup {"none"},
   cursor : Nat, held : BOOLEAN, waiting : BOOLEAN, tries : [DOMAIN NoTries -> Nat],
   old : SUBSET Handle]
ExTypes ==
  [id : Nat, level : {"none", "parent", "owner"}, handler : Nat, cursor : Nat,
   provider : BOOLEAN]
Mems == [chain : [Node -> ChainTypes], ex : [Node -> ExTypes], count : Nat]
Threads ==
  [st : {"none", "made", "working", "idle", "gone"}, role : {"none", "worker", "handler"},
   turn : Nat, rep : Reports \cup Rulings \cup {"none"}]
Tasks == [at : Labels, err : Causes, phase : Phase \cup {"none"}, then : Thens, n : Nat, src : Sources]
Files == [act : Rules \cup {"none"}, about : Nat]

(* What is not of the chains themselves.                                   *)
Around ==
  /\ worker \in [Handle -> Threads]
  /\ todo \subseteq Node /\ threw \in BOOLEAN
  /\ closed \subseteq Node /\ cut \subseteq Node /\ spared \subseteq Handle
TypeInv ==
  /\ mem \in Mems /\ disk \in Mems
  /\ seen \in [Handle -> Threads]
  /\ task \in [Node -> Tasks] /\ file \in [Node -> Files]
  /\ stage \in Stages /\ raised \in {0, 1}
  /\ Around

----------------------------------------------------------------------------
(* The invariant.                                                          *)

(* A chain and its exception as they are saved together.                   *)
Paired(c, x) ==
  /\ x.id = 0 => x = NoEx
  /\ x.id # 0 => c.held /\ x.cursor = c.cursor
  /\ c.phase = "none" => c.handle = 0 /\ c.launching = 0 /\ ~c.held
  /\ c.phase = "integrate" => c.handle # 0

(* Names are given once: what is saved names the same workers, and none     *)
(* twice.                                                                   *)
Named ==
  /\ disk.count = mem.count /\ mem.count <= MaxHandle
  /\ \A n \in Node :
       /\ disk.chain[n].handle = C(n).handle /\ disk.chain[n].launching = C(n).launching
       /\ disk.chain[n].phase = "none" <=> C(n).phase = "none"
       /\ C(n).handle <= mem.count /\ C(n).launching <= mem.count
  /\ \A n, k \in Node :
       /\ C(n).handle # 0 => C(n).handle # C(k).launching
       /\ n # k /\ C(n).handle # 0 => C(n).handle # C(k).handle
       /\ n # k /\ C(n).launching # 0 => C(n).launching # C(k).launching

(* What is known of a worker: its roles, and how far the poll is behind.    *)
Polled(h) ==
  /\ worker[h].st = "none" => worker[h].turn = 0
  /\ h > mem.count => /\ worker[h].st \in {"none", "gone"}
                      /\ worker[h].role = "none" /\ worker[h].turn = 0
  /\ seen[h].turn <= worker[h].turn
  /\ seen[h].turn > 0 => seen[h].role = worker[h].role
  /\ worker[h].role = "handler" /\ worker[h].turn > 0 => worker[h].rep \in Rules
  /\ seen[h].role = "handler" /\ seen[h].turn > 0 => seen[h].rep \in Rules
  /\ seen[h].st = "working" /\ worker[h].st = "idle" =>
       \/ worker[h].turn > seen[h].turn
       \/ \A n \in Node : C(n).launching # h /\ (C(n).handle = h => C(n).launching # 0)

(* The workers and the handler that node n names.                           *)
Handles(x) == x.handler # 0 => x.handler \in Handle /\ worker[x.handler].role = "handler"
Crewed(n) ==
  /\ C(n).handle # 0 =>
       /\ worker[C(n).handle].role = "worker"
       /\ C(n).cursor <= worker[C(n).handle].turn
       /\ disk.chain[n].cursor <= worker[C(n).handle].turn
       /\ seen[C(n).handle].st = "working" => C(n).cursor <= seen[C(n).handle].turn
  /\ C(n).launching # 0 =>
       /\ worker[C(n).launching].role \in {"none", "worker"}
       /\ worker[C(n).launching].st \in {"working", "idle"} => worker[C(n).launching].role = "worker"
       /\ worker[C(n).launching].st = "idle" => worker[C(n).launching].turn > 0
  /\ Handles(X(n)) /\ Handles(disk.ex[n])

Steered(n) == file[n].act \notin {"none", "escalate"}
Excused(n) == Steered(n) \/ n \in cut

(* Somebody will act on the chain: its idle worker has news, or it says why *)
(* not; and it is held behind an exception.                                 *)
Cared(c) ==
  c.handle # 0 /\ worker[c.handle].st = "idle" /\ worker[c.handle].turn <= c.cursor
    => c.waiting \/ c.held \/ c.phase = "integrate" \/ c.launching # 0
Known(c, x) == c.held => x.id # 0

(* So it is of the chain in memory, but while the worker is about to be     *)
(* told or replaced; and of the saved one, which a crash makes the chain    *)
(* again.                                                                   *)
Untold(n) == task[n].at \in {"tell", "stop"}
Answering(n) == task[n].at = "discard" \/ (task[n].at = "tell" /\ task[n].then = "answer")
Minded(n) ==
  /\ Untold(n) \/ Cared(C(n)) \/ Excused(n)
  /\ Answering(n) \/ Known(C(n), X(n)) \/ Excused(n)
  /\ Cared(disk.chain[n]) \/ Excused(n) \/ (Untold(n) /\ disk.chain[n].cursor = C(n).cursor)
  /\ Known(disk.chain[n], disk.ex[n]) \/ Excused(n)
  /\ task[n].at = "unfile" =>
       n \in cut \/ /\ Cared(C(n)) /\ Known(C(n), X(n))
                    /\ Cared(disk.chain[n]) /\ Known(disk.chain[n], disk.ex[n])

(* A queued resolution is about the exception there is.                     *)
About(n) ==
  /\ file[n] = NoFile \/ file[n].act # "none"
  /\ X(n).id # 0 => disk.ex[n].id = X(n).id
  /\ file[n] # NoFile /\ X(n).id # 0 => file[n].about = X(n).id
  /\ file[n] # NoFile /\ disk.ex[n].id # 0 => file[n].about = disk.ex[n].id

(* What holds where node n's step is.                                       *)
Where(n) ==
  LET t == task[n] IN
  /\ t.at = "rest" => t.src = "none" /\ t.then # "answer"
  /\ t.src = "file" => Steered(n)
  /\ t.at \in {"tell", "stop", "find", "spawn", "up", "land"} => Has(n)
  /\ t.at \in {"stop", "find", "spawn", "up", "land"} => ~C(n).held
  /\ t.at \in {"find", "spawn", "up"} => C(n).launching # 0
  /\ t.at = "spawn" => worker[C(n).launching].turn = 0 /\ worker[C(n).launching].role = "worker"
  /\ t.at = "up" => worker[C(n).launching].role = "worker"
  /\ t.at = "land" => C(n).phase = "integrate" /\ t.src = "none"
  /\ t.at \in {"stop", "find", "spawn", "up"} => t.phase # "none"
  /\ t.at = "tell" /\ t.src # "none" => t.then = "answer"
  /\ t.at = "tell" => C(n).handle # 0
  /\ t.at = "stop" => C(n).handle # 0
  /\ t.at = "tell" /\ t.then # "answer" => ~C(n).held
  /\ t.at = "tell" /\ t.then = "answer" => t.src # "none" /\ t.n = C(n).cursor /\ X(n) = NoEx
  /\ Untold(n) =>
       \/ t.err = "report" \/ t.src # "none" \/ t.then = "save"
       \/ t.at = "stop" /\ (t.then = "relaunch" \/ C(n).launching # 0)
       \/ t.at = "tell" /\ C(n).waiting /\ disk.chain[n].waiting
  /\ t.at = "withdraw" => Pending(n) /\ C(n).handle # 0 /\ seen[C(n).handle].turn > X(n).cursor
  /\ t.at \in {"hire", "hired", "judge"} => Pending(n)
  /\ t.at = "hire" => t.n \in Handle /\ t.n = mem.count /\ worker[t.n].turn = 0
                      /\ \A k \in Node : C(k).handle < t.n /\ C(k).launching < t.n
  /\ t.at = "hired" => t.n \in Handle /\ worker[t.n].role = "handler"
  /\ t.at = "discard" => X(n) = NoEx
  /\ t.at = "judge" => X(n).handler # 0 /\ seen[X(n).handler].turn > 0

(* Visits go side by side, exceptions one by one.                           *)
Staged ==
  /\ stage \in {"off", "down"} => Quiet
  /\ stage = "visit" => \A n \in Node :
       /\ task[n].at \notin {"discard", "unfile", "hire", "hired", "judge"}
       /\ task[n].src = "none" /\ task[n].then # "answer"
  /\ stage = "except" => \A n, k \in Node : task[n].at # "rest" /\ task[k].at # "rest" => n = k

NodeInv(n) == Paired(C(n), X(n)) /\ Paired(disk.chain[n], disk.ex[n])
              /\ Crewed(n) /\ Minded(n) /\ About(n) /\ Where(n)
ChainsInv ==
  TypeInv /\ Named /\ Staged /\ (\A h \in Handle : Polled(h)) /\ \A n \in Node : NodeInv(n)
----------------------------------------------------------------------------
(* Records.  The types of the records are opened here and nowhere else.     *)

(* The fields of a chain and of an exception.                               *)
LEMMA ChainFields ==
  ASSUME NEW c \in ChainTypes
  PROVE  /\ c.phase \in Phase \cup {"none"} /\ c.handle \in Nat /\ c.launching \in Nat
         /\ c.to \in Phase \cup {"none"} /\ c.cursor \in Nat
         /\ c.held \in BOOLEAN /\ c.waiting \in BOOLEAN
         /\ c.tries \in [DOMAIN NoTries -> Nat] /\ c.old \subseteq Handle
BY DEF ChainTypes

LEMMA ExFields ==
  ASSUME NEW x \in ExTypes
  PROVE  /\ x.id \in Nat /\ x.level \in {"none", "parent", "owner"} /\ x.handler \in Nat
         /\ x.cursor \in Nat /\ x.provider \in BOOLEAN
BY DEF ExTypes

LEMMA MemFields ==
  ASSUME NEW m \in Mems, NEW n \in Node
  PROVE  m.chain[n] \in ChainTypes /\ m.ex[n] \in ExTypes /\ m.count \in Nat
BY DEF Mems

(* What the program starts from.                                            *)
LEMMA BlankFacts ==
  /\ Blank \in ChainTypes /\ Blank.phase = "none" /\ Blank.handle = 0 /\ Blank.launching = 0
  /\ Blank.held = FALSE /\ Blank.cursor = 0
  /\ Fresh \in ChainTypes /\ Fresh.phase = "implement" /\ Fresh.handle = 0
  /\ Fresh.launching = 0 /\ Fresh.held = FALSE /\ Fresh.cursor = 0
  /\ NoEx \in ExTypes /\ NoEx.id = 0 /\ NoEx.handler = 0
<1>1. NoTries \in [DOMAIN NoTries -> Nat]
  BY DEF NoTries
<1>2. /\ Blank \in ChainTypes /\ Blank.phase = "none" /\ Blank.handle = 0 /\ Blank.launching = 0
      /\ Blank.held = FALSE /\ Blank.cursor = 0
  BY <1>1 DEF Blank, ChainTypes
<1>3. /\ Fresh \in ChainTypes /\ Fresh.phase = "implement" /\ Fresh.handle = 0
      /\ Fresh.launching = 0 /\ Fresh.held = FALSE /\ Fresh.cursor = 0
  BY <1>1 DEF Fresh, Blank, ChainTypes, Phase
<1>4. NoEx \in ExTypes /\ NoEx.id = 0 /\ NoEx.handler = 0
  BY DEF NoEx, ExTypes
<1> QED BY <1>2, <1>3, <1>4

(* A chain that differs only in what its worker has told.                    *)
LEMMA ChainUpdates ==
  ASSUME NEW c \in ChainTypes
  PROVE  /\ \A b \in BOOLEAN :
              LET q == [c EXCEPT !.held = b] IN
                /\ q \in ChainTypes /\ q.phase = c.phase /\ q.handle = c.handle
                /\ q.launching = c.launching /\ q.cursor = c.cursor /\ q.held = b
                /\ q.waiting = c.waiting
         /\ \A f \in [DOMAIN NoTries -> Nat] :
              LET q == [c EXCEPT !.tries = f] IN
                /\ q \in ChainTypes /\ q.phase = c.phase /\ q.handle = c.handle
                /\ q.launching = c.launching /\ q.cursor = c.cursor /\ q.held = c.held
                /\ q.waiting = c.waiting
         /\ \A k \in Nat, b \in BOOLEAN :
              LET q == [c EXCEPT !.cursor = k, !.waiting = b] IN
                /\ q \in ChainTypes /\ q.phase = c.phase /\ q.handle = c.handle
                /\ q.launching = c.launching /\ q.cursor = k /\ q.held = c.held
                /\ q.waiting = b
         /\ \A k \in Nat :
              LET q == [c EXCEPT !.cursor = k] IN
                /\ q \in ChainTypes /\ q.phase = c.phase /\ q.handle = c.handle
                /\ q.launching = c.launching /\ q.cursor = k /\ q.held = c.held
                /\ q.waiting = c.waiting
         /\ \A p \in Phase, f \in [DOMAIN NoTries -> Nat] :
              LET q == [c EXCEPT !.phase = p, !.tries = f] IN
                /\ q \in ChainTypes /\ q.phase = p /\ q.handle = c.handle
                /\ q.launching = c.launching /\ q.cursor = c.cursor /\ q.held = c.held
                /\ q.waiting = c.waiting
         /\ \A k \in Nat, p \in Phase :
              LET q == [c EXCEPT !.launching = k, !.to = p] IN
                /\ q \in ChainTypes /\ q.phase = c.phase /\ q.handle = c.handle
                /\ q.launching = k /\ q.cursor = c.cursor /\ q.held = c.held
                /\ q.waiting = c.waiting
BY DEF ChainTypes

(* One more try.                                                            *)
LEMMA TriesFacts ==
  ASSUME NEW f \in [DOMAIN NoTries -> Nat], NEW k \in DOMAIN NoTries, NEW i \in Nat
  PROVE  [f EXCEPT ![k] = i] \in [DOMAIN NoTries -> Nat] /\ f[k] \in Nat /\ f[k] + 1 \in Nat
OBVIOUS

LEMMA TriesDomain == DOMAIN NoTries = {"repair", "relaunch", "checkpoint", "integrate", "provider"}
BY DEF NoTries

(* m2 differs from m in node n alone, and there only as said.                *)
Apart(m2, m, n) ==
  /\ m2 \in Mems
  /\ \A k \in Node \ {n} : m2.chain[k] = m.chain[k] /\ m2.ex[k] = m.ex[k]

(* The chain and the exception of a node are kept but for what a report, a   *)
(* budget or the end of an exception changes.                               *)
Alike(c2, c) ==
  /\ c2 \in ChainTypes /\ c2.handle = c.handle /\ c2.launching = c.launching
  /\ c2.phase = c.phase /\ c2.held = c.held

(* Taken(n) and Tried(n, key) move the cursor to what the poll saw.          *)
LEMMA TakenFacts ==
  ASSUME TypeInv, NEW n \in Node, C(n).handle \in Handle
  PROVE  /\ Apart(Taken(n), mem, n) /\ Alike(Taken(n).chain[n], C(n))
         /\ Taken(n).ex[n] = X(n) /\ Taken(n).count = mem.count
         /\ Taken(n).chain[n].cursor = seen[C(n).handle].turn
         /\ Taken(n).chain[n].waiting = FALSE
         /\ Taken(n).chain[n].tries = C(n).tries
<1>1. C(n) \in ChainTypes /\ mem \in Mems
  BY MemFields DEF TypeInv, C
<1>2. seen[C(n).handle].turn \in Nat
  BY DEF TypeInv, Threads
<1> DEFINE c2 == [C(n) EXCEPT !.cursor = seen[C(n).handle].turn, !.waiting = FALSE]
<1>3. /\ Alike(c2, C(n)) /\ c2.cursor = seen[C(n).handle].turn /\ c2.waiting = FALSE
      /\ c2.tries = C(n).tries
  BY <1>1, <1>2 DEF Alike, ChainTypes
<1>4. Taken(n) = [mem EXCEPT !.chain[n] = c2]
  BY DEF Taken, WithC
<1> HIDE DEF c2
<1>5. c2 \in ChainTypes /\ NoEx \in ExTypes
  BY <1>3, BlankFacts DEF Alike
<1> QED BY <1>1, <1>3, <1>4, <1>5 DEF X, Apart, Mems

LEMMA TriedFacts ==
  ASSUME TypeInv, NEW n \in Node, C(n).handle \in Handle, NEW key \in DOMAIN NoTries
  PROVE  /\ Apart(Tried(n, key), mem, n) /\ Alike(Tried(n, key).chain[n], C(n))
         /\ Tried(n, key).ex[n] = X(n) /\ Tried(n, key).count = mem.count
         /\ Tried(n, key).chain[n].cursor = seen[C(n).handle].turn
         /\ Tried(n, key).chain[n].waiting = FALSE
         /\ Tried(n, key).chain[n].tries[key] \in Nat
<1> DEFINE m == Taken(n)
           f == [m.chain[n].tries EXCEPT ![key] = @ + 1]
           c2 == [m.chain[n] EXCEPT !.tries = f]
<1>1. /\ Apart(m, mem, n) /\ Alike(m.chain[n], C(n)) /\ m.ex[n] = X(n) /\ m.count = mem.count
      /\ m.chain[n].cursor = seen[C(n).handle].turn /\ m.chain[n].waiting = FALSE
  BY TakenFacts
<1>2. m \in Mems /\ m.chain[n] \in ChainTypes
  BY <1>1, MemFields DEF Apart
<1>3. m.chain[n].tries \in [DOMAIN NoTries -> Nat]
  BY <1>2, ChainFields
<1>4. Tried(n, key) = [m EXCEPT !.chain[n] = c2]
  BY <1>2 DEF Tried, Mems
<1> HIDE DEF m
<1>5. f \in [DOMAIN NoTries -> Nat] /\ f[key] \in Nat
  BY <1>3, TriesFacts
<1> HIDE DEF f
<1>6. /\ c2 \in ChainTypes /\ Alike(c2, m.chain[n]) /\ c2.cursor = m.chain[n].cursor
      /\ c2.waiting = m.chain[n].waiting
  BY <1>2, <1>5 DEF Alike, ChainTypes
<1>7. c2.tries = f
  BY <1>2 DEF ChainTypes
<1> HIDE DEF c2
<1>8. LET q == [m EXCEPT !.chain[n] = c2] IN
        Apart(q, m, n) /\ q.chain[n] = c2 /\ q.ex[n] = m.ex[n] /\ q.count = m.count
  BY <1>2, <1>6 DEF Apart, Mems
<1> QED BY <1>1, <1>4, <1>5, <1>6, <1>7, <1>8 DEF Apart, Alike

(* Unheld and Freed.                                                        *)
LEMMA UnheldFacts ==
  ASSUME NEW m \in Mems, NEW n \in Node
  PROVE  LET q == Unheld(m, n) IN
           /\ Apart(q, m, n) /\ q.ex[n] = m.ex[n] /\ q.count = m.count
           /\ q.chain[n] \in ChainTypes
           /\ q.chain[n].handle = m.chain[n].handle /\ q.chain[n].launching = m.chain[n].launching
           /\ q.chain[n].phase = m.chain[n].phase /\ q.chain[n].cursor = m.chain[n].cursor
           /\ q.chain[n].held = FALSE /\ q.chain[n].waiting = m.chain[n].waiting
<1> DEFINE c2 == [m.chain[n] EXCEPT !.held = FALSE]
<1>1. m.chain[n] \in ChainTypes
  BY MemFields
<1>2. /\ c2 \in ChainTypes /\ c2.handle = m.chain[n].handle /\ c2.launching = m.chain[n].launching
      /\ c2.phase = m.chain[n].phase /\ c2.cursor = m.chain[n].cursor /\ c2.held = FALSE
      /\ c2.waiting = m.chain[n].waiting
  BY <1>1, ChainUpdates
<1>3. Unheld(m, n) = [m EXCEPT !.chain[n] = c2]
  BY DEF Unheld, Mems
<1> HIDE DEF c2
<1> QED BY <1>2, <1>3 DEF Apart, Mems

LEMMA FreedFacts ==
  ASSUME ChainAssumption, NEW m \in Mems, NEW n \in Node
  PROVE  LET q == Freed(m, n) IN
           /\ Apart(q, m, n) /\ q.ex[n] = NoEx /\ q.count = m.count
           /\ Alike(q.chain[n], m.chain[n]) /\ q.chain[n].cursor = m.chain[n].cursor
<1> DEFINE m1 == [m EXCEPT !.ex[n] = NoEx]
           m2 == [m1 EXCEPT !.chain[n].waiting = FALSE]
           c1 == [m.chain[n] EXCEPT !.waiting = FALSE]
           i  == IF m.chain[n].tries.repair > Repairs THEN 0 ELSE m.chain[n].tries.repair
           f  == [m.chain[n].tries EXCEPT !.repair = i]
           c2 == [c1 EXCEPT !.tries = f]
           m3 == [m2 EXCEPT !.chain[n].tries.repair = i]
<1>1. m.chain[n] \in ChainTypes /\ m.chain[n].tries \in [DOMAIN NoTries -> Nat] /\ m.chain[n].cursor \in Nat
  BY MemFields, ChainFields
<1>0. Freed(m, n) = [m2 EXCEPT !.chain[n].tries.repair = IF @ > Repairs THEN 0 ELSE @]
  BY Zenon DEF Freed
<1>2. m1 \in Mems /\ Apart(m1, m, n) /\ m1.ex[n] = NoEx /\ m1.count = m.count /\ m1.chain = m.chain
  BY BlankFacts DEF Apart, Mems
<1>3. Alike(c1, m.chain[n]) /\ c1.cursor = m.chain[n].cursor /\ c1.tries = m.chain[n].tries
  BY <1>1 DEF Alike, ChainTypes
<1> HIDE DEF m1
<1>4. m2 = [m1 EXCEPT !.chain[n] = c1]
  BY <1>2 DEF Mems
<1> HIDE DEF c1
<1>5. m2 \in Mems /\ Apart(m2, m1, n) /\ m2.chain[n] = c1 /\ m2.ex = m1.ex /\ m2.count = m1.count
  BY <1>2, <1>3, <1>4 DEF Apart, Mems, Alike
<1> HIDE DEF m2
<1>6. f \in [DOMAIN NoTries -> Nat]
  BY <1>1, TriesDomain DEF ChainAssumption
<1>7. c2 = [c1 EXCEPT !.tries.repair = i]
  BY <1>1, <1>3 DEF Alike, ChainTypes
<1>8. Freed(m, n) = m3
  BY <1>0, <1>3, <1>5 DEF Mems
<1>9. m3 = [m2 EXCEPT !.chain[n] = c2]
  BY <1>5, <1>7 DEF Mems
<1> HIDE DEF f, i, m3
<1>10. Alike(c2, c1) /\ c2.cursor = c1.cursor
  BY <1>3, <1>6 DEF Alike, ChainTypes
<1> HIDE DEF c2
<1>11. /\ Apart(m3, m2, n) /\ m3.chain[n] = c2 /\ m3.ex = m2.ex /\ m3.count = m2.count
  BY <1>5, <1>9, <1>10 DEF Apart, Mems, Alike
<1> QED BY <1>2, <1>3, <1>5, <1>8, <1>10, <1>11 DEF Apart, Alike

(* The saved intent to launch.                                              *)
LEMMA IntentFacts ==
  ASSUME NEW m \in Mems, NEW n \in Node, NEW ph \in Phase
  PROVE  LET q == Intent(m, n, ph)
             k == IF m.chain[n].launching = 0 THEN m.count + 1 ELSE m.chain[n].launching
         IN  /\ Apart(q, m, n) /\ q.ex[n] = m.ex[n]
             /\ q.count = IF m.chain[n].launching = 0 THEN m.count + 1 ELSE m.count
             /\ q.chain[n] \in ChainTypes
             /\ q.chain[n].handle = m.chain[n].handle /\ q.chain[n].launching = k
             /\ q.chain[n].phase = m.chain[n].phase /\ q.chain[n].cursor = m.chain[n].cursor
             /\ q.chain[n].held = m.chain[n].held /\ q.chain[n].waiting = m.chain[n].waiting
<1> DEFINE i == IF m.chain[n].launching = 0 THEN m.count + 1 ELSE m.count
           k == IF m.chain[n].launching = 0 THEN m.count + 1 ELSE m.chain[n].launching
           c2 == [m.chain[n] EXCEPT !.launching = k, !.to = ph]
<1>1. /\ m.chain[n] \in ChainTypes /\ m.chain[n].launching \in Nat /\ m.count \in Nat
  BY MemFields, ChainFields
<1>2. i \in Nat /\ k \in Nat
  BY <1>1
<1>3. Intent(m, n, ph) = [m EXCEPT !.count = i, !.chain[n] = c2]
  BY DEF Intent, Mems
<1>i. i = IF m.chain[n].launching = 0 THEN m.count + 1 ELSE m.count
  OBVIOUS
<1>k. k = IF m.chain[n].launching = 0 THEN m.count + 1 ELSE m.chain[n].launching
  OBVIOUS
<1> HIDE DEF i, k
<1>4. /\ c2 \in ChainTypes /\ c2.handle = m.chain[n].handle /\ c2.launching = k
      /\ c2.phase = m.chain[n].phase /\ c2.cursor = m.chain[n].cursor
      /\ c2.held = m.chain[n].held /\ c2.waiting = m.chain[n].waiting
  BY <1>1, <1>2 DEF ChainTypes
<1> HIDE DEF c2
<1>5. LET q == [m EXCEPT !.count = i, !.chain[n] = c2] IN
        Apart(q, m, n) /\ q.chain[n] = c2 /\ q.ex[n] = m.ex[n] /\ q.count = i
  BY <1>2, <1>4 DEF Apart, Mems
<1> QED BY <1>3, <1>4, <1>5, <1>i, <1>k

----------------------------------------------------------------------------
(* A step of one node, and what it leaves of the others.                    *)

(* Who acts: nobody else waits for anything, or all are visits.             *)
Acts(n) == stage = "visit" \/ (stage = "except" /\ \A k \in Node \ {n} : task[k].at = "rest")

OnlyNode(n) ==
  /\ Acts(n)
  /\ Apart(mem', mem, n)
  /\ \A k \in Node \ {n} : task'[k] = task[k] /\ file'[k] = file[k]
  /\ seen' = seen /\ stage' = stage /\ cut \subseteq cut'

(* The names node n has after the step: as before, with a new one to launch, *)
(* the launched one recorded, or none.                                      *)
Renames(n) ==
  LET c == C(n)
      d == mem'.chain[n] IN
  /\ mem'.count \in {mem.count, mem.count + 1} /\ mem'.count <= MaxHandle
  /\ \/ d.handle = c.handle /\ d.launching = c.launching
     \/ d.handle = c.handle /\ d.launching = mem.count + 1 /\ mem'.count = mem.count + 1
     \/ d.handle = c.launching /\ d.launching = 0
     \/ d.handle = 0 /\ d.launching = 0

Saves(n) ==
  \/ disk' = mem'
  \/ /\ disk' = disk /\ mem'.count = mem.count
     /\ mem'.chain[n].handle = C(n).handle /\ mem'.chain[n].launching = C(n).launching
     /\ mem'.chain[n].phase = "none" <=> C(n).phase = "none"

(* A worker that a step leaves alone, tells or puts an end to.              *)
Tame(h) ==
  /\ worker'[h].turn = worker[h].turn /\ worker'[h].role = worker[h].role
  /\ worker'[h].rep = worker[h].rep
  /\ \/ worker'[h].st = worker[h].st \/ worker'[h].st = "gone"
     \/ worker[h].st = "idle" /\ worker'[h].st = "working"

(* A worker that node n alone may change otherwise.                         *)
Mine(n, h) ==
  /\ h # 0
  /\ \/ h = C(n).handle \/ h = C(n).launching \/ h = mem.count + 1
     \/ task[n].at = "hire" /\ h = task[n].n

Crew(n) ==
  \A h \in Handle :
    \/ Tame(h)
    \/ Mine(n, h) /\ Polled(h)' /\ (worker[h].role = "handler" => worker'[h].role = "handler")

(* Of a fresh name nothing is known.                                        *)
LEMMA FreshName ==
  ASSUME ChainsInv, NEW n \in Node
  PROVE  /\ C(n) \in ChainTypes /\ X(n) \in ExTypes
         /\ disk.chain[n] \in ChainTypes /\ disk.ex[n] \in ExTypes
         /\ C(n).handle \in 0..mem.count /\ C(n).launching \in 0..mem.count
         /\ mem.count \in 0..MaxHandle
         /\ mem \in Mems /\ disk \in Mems /\ mem.count \in Nat
         /\ C(n).handle \in Nat /\ C(n).launching \in Nat
         /\ C(n).cursor \in Nat /\ disk.chain[n].cursor \in Nat
<1>1. mem \in Mems /\ disk \in Mems
  BY DEF ChainsInv, TypeInv
<1>2. C(n) \in ChainTypes /\ X(n) \in ExTypes /\ mem.count \in Nat
      /\ disk.chain[n] \in ChainTypes /\ disk.ex[n] \in ExTypes
  BY <1>1, MemFields DEF C, X
<1>3. /\ C(n).handle \in Nat /\ C(n).launching \in Nat
      /\ C(n).cursor \in Nat /\ disk.chain[n].cursor \in Nat
  BY <1>2, ChainFields
<1>4. C(n).handle <= mem.count /\ C(n).launching <= mem.count /\ mem.count <= MaxHandle
  BY DEF ChainsInv, Named
<1> QED BY <1>1, <1>2, <1>3, <1>4, ChainAssumption DEF ChainAssumption

LEMMA WorkerTypes ==
  ASSUME TypeInv, NEW h \in Handle
  PROVE  /\ h \in Nat /\ h # 0 /\ h <= MaxHandle
         /\ worker[h].turn \in Nat /\ seen[h].turn \in Nat
         /\ worker[h] \in Threads /\ seen[h] \in Threads
BY ChainAssumption DEF TypeInv, Around, Threads, Handle, ChainAssumption

LEMMA KeepNamed ==
  ASSUME ChainsInv, NEW n \in Node, OnlyNode(n), Renames(n), Saves(n)
  PROVE  Named'
<1>1. /\ mem.count \in Nat /\ mem.count <= MaxHandle
      /\ \A k \in Node : /\ C(k).handle \in 0..mem.count /\ C(k).launching \in 0..mem.count
                         /\ C(k).handle \in Nat /\ C(k).launching \in Nat
  BY FreshName
<1>2. disk'.count = mem'.count
  BY DEF Saves, ChainsInv, Named
<1>3. ASSUME NEW k \in Node
      PROVE  /\ disk'.chain[k].handle = mem'.chain[k].handle
             /\ disk'.chain[k].launching = mem'.chain[k].launching
             /\ disk'.chain[k].phase = "none" <=> mem'.chain[k].phase = "none"
  <2>1. CASE disk' = mem'
    BY <2>1
  <2>2. CASE disk' = disk /\ k = n
    BY <2>2 DEF Saves, ChainsInv, Named, C
  <2>3. CASE disk' = disk /\ k # n
    BY <2>3 DEF OnlyNode, Apart, ChainsInv, Named, C
  <2> QED BY <2>1, <2>2, <2>3 DEF Saves
<1>4. ASSUME NEW k \in Node
      PROVE  mem'.chain[k].handle <= mem'.count /\ mem'.chain[k].launching <= mem'.count
  <2>1. CASE k = n
    BY <1>1, <2>1 DEF Renames
  <2>2. CASE k # n
    BY <1>1, <2>2 DEF Renames, OnlyNode, Apart, C
  <2> QED BY <2>1, <2>2
<1>5. ASSUME NEW a \in Node, NEW b \in Node
      PROVE  /\ C(a).handle # 0 => C(a).handle # C(b).launching
             /\ a # b /\ C(a).handle # 0 => C(a).handle # C(b).handle
             /\ a # b /\ C(a).launching # 0 => C(a).launching # C(b).launching
  BY DEF ChainsInv, Named
<1>6. ASSUME NEW a \in Node, NEW b \in Node
      PROVE  /\ mem'.chain[a].handle # 0 => mem'.chain[a].handle # mem'.chain[b].launching
             /\ a # b /\ mem'.chain[a].handle # 0 => mem'.chain[a].handle # mem'.chain[b].handle
             /\ a # b /\ mem'.chain[a].launching # 0 => mem'.chain[a].launching # mem'.chain[b].launching
  <2>1. \A k \in Node \ {n} : mem'.chain[k] = C(k)
    BY DEF OnlyNode, Apart, C
  <2>2. CASE a = n /\ b = n
    BY <1>1, <1>5, <2>2 DEF Renames
  <2>3. CASE a = n /\ b # n
    BY <1>1, <1>5, <2>1, <2>3 DEF Renames
  <2>4. CASE a # n /\ b = n
    BY <1>1, <1>5, <2>1, <2>4 DEF Renames
  <2>5. CASE a # n /\ b # n
    BY <1>5, <2>1, <2>5
  <2> QED BY <2>2, <2>3, <2>4, <2>5
<1>7. mem'.count <= MaxHandle
  BY DEF Renames
<1> QED BY <1>2, <1>3, <1>4, <1>6, <1>7 DEF Named, C

(* The launched worker of node n is one that nobody stopped.                *)
LEMMA KeepPolled ==
  ASSUME ChainsInv, NEW n \in Node, OnlyNode(n), Renames(n), NEW h \in Handle, Tame(h)
  PROVE  Polled(h)'
<1>1. /\ h \in Nat /\ h # 0 /\ mem.count \in Nat /\ seen' = seen
      /\ worker[h].turn \in Nat /\ seen[h].turn \in Nat
  BY FreshName, WorkerTypes DEF ChainsInv, OnlyNode
<1>2. Polled(h)
  BY DEF ChainsInv
<1>3. /\ C(n).launching \in Nat /\ C(n).handle \in Nat
      /\ C(n).launching <= mem.count
  BY FreshName
<1>4. ASSUME seen[h].st = "working", worker'[h].st = "idle"
      PROVE  \/ worker'[h].turn > seen[h].turn
             \/ \A k \in Node : /\ mem'.chain[k].launching # h
                                /\ mem'.chain[k].handle = h => mem'.chain[k].launching # 0
  <2>1. worker[h].st = "idle" /\ worker'[h].turn = worker[h].turn
    BY <1>4 DEF Tame
  <2>2. h <= mem.count
    BY <1>1, <1>2, <2>1 DEF Polled
  <2>3. CASE worker[h].turn > seen[h].turn
    BY <2>1, <2>3
  <2>4. CASE \A k \in Node : C(k).launching # h /\ (C(k).handle = h => C(k).launching # 0)
    <3>1. \A k \in Node \ {n} : mem'.chain[k] = C(k)
      BY DEF OnlyNode, Apart, C
    <3>2. /\ mem'.chain[n].launching # h
          /\ mem'.chain[n].handle = h => mem'.chain[n].launching # 0
      BY <1>1, <1>3, <2>2, <2>4 DEF Renames
    <3> QED BY <2>4, <3>1, <3>2
  <2> QED BY <1>2, <1>4, <2>1, <2>3, <2>4 DEF Polled
<1>5. h > mem'.count => h > mem.count
  BY <1>1 DEF Renames
<1>6. h > mem.count => worker'[h].st \in {"none", "gone"} /\ worker'[h].role = "none"
  BY <1>2 DEF Polled, Tame
<1>7. /\ worker'[h].st = "none" => worker'[h].turn = 0
      /\ seen'[h].turn <= worker'[h].turn
      /\ seen'[h].turn > 0 => seen'[h].role = worker'[h].role
      /\ worker'[h].role = "handler" /\ worker'[h].turn > 0 => worker'[h].rep \in Rules
      /\ seen'[h].role = "handler" /\ seen'[h].turn > 0 => seen'[h].rep \in Rules
  BY <1>1, <1>2 DEF Polled, Tame
<1>8. h > mem.count => worker'[h].turn = 0
  BY <1>2, <1>6 DEF Polled, Tame
<1> QED BY <1>1, <1>4, <1>5, <1>6, <1>7, <1>8 DEF Polled, C

(* What a step of node n leaves of another node k.                          *)
LEMMA OthersNames ==
  ASSUME ChainsInv, NEW n \in Node, Crew(n), NEW k \in Node, k # n
  PROVE  /\ C(k).handle # 0 => C(k).handle \in Handle /\ Tame(C(k).handle)
         /\ C(k).launching # 0 => C(k).launching \in Handle /\ Tame(C(k).launching)
         /\ \A h \in Handle : worker[h].role = "handler" => worker'[h].role = "handler"
<1>1. /\ C(k).handle \in 0..mem.count /\ C(k).launching \in 0..mem.count
      /\ mem.count \in 0..MaxHandle /\ MaxHandle \in Nat
  BY FreshName, ChainAssumption DEF ChainAssumption
<1>2. /\ C(k).handle # 0 => C(k).handle \in Handle
      /\ C(k).launching # 0 => C(k).launching \in Handle
  BY <1>1 DEF Handle
<1>3. /\ C(k).handle # 0 => C(k).handle # C(n).launching /\ C(k).handle # C(n).handle
      /\ C(k).launching # 0 => C(k).launching # C(n).launching
      /\ C(n).handle # 0 => C(n).handle # C(k).launching
  BY DEF ChainsInv, Named
<1>4. task[n].at = "hire" => C(k).handle < task[n].n /\ C(k).launching < task[n].n
  BY DEF ChainsInv, NodeInv, Where
<1>5. C(k).handle # 0 => ~Mine(n, C(k).handle)
  BY <1>1, <1>3, <1>4 DEF Mine
<1>6. C(k).launching # 0 => ~Mine(n, C(k).launching)
  BY <1>1, <1>3, <1>4 DEF Mine
<1>7. \A h \in Handle : worker[h].role = "handler" => worker'[h].role = "handler"
  BY DEF Crew, Tame
<1> QED BY <1>2, <1>5, <1>6, <1>7 DEF Crew

LEMMA OthersKeep ==
  ASSUME ChainsInv, NEW n \in Node, OnlyNode(n), Saves(n), Crew(n), NEW k \in Node, k # n
  PROVE  NodeInv(k)'
<1> DEFINE dc == disk.chain[k]
           dx == disk.ex[k]
<1>1. /\ mem'.chain[k] = C(k) /\ mem'.ex[k] = X(k) /\ task'[k] = task[k] /\ file'[k] = file[k]
      /\ seen' = seen /\ stage' = stage /\ (k \in cut => k \in cut')
  BY DEF OnlyNode, Apart, C, X
<1>2. \/ disk'.chain[k] = dc /\ disk'.ex[k] = dx
      \/ disk'.chain[k] = C(k) /\ disk'.ex[k] = X(k)
  BY <1>1 DEF Saves
<1>3. NodeInv(k)
  BY DEF ChainsInv
<1>4. /\ C(k).handle # 0 => C(k).handle \in Handle /\ Tame(C(k).handle)
      /\ C(k).launching # 0 => C(k).launching \in Handle /\ Tame(C(k).launching)
      /\ \A h \in Handle : worker[h].role = "handler" => worker'[h].role = "handler"
  BY OthersNames
<1>5. stage = "visit" \/ (stage = "except" /\ task[k].at = "rest")
  BY DEF OnlyNode, Acts
<1>6. stage = "visit" =>
        /\ task[k].at \notin {"discard", "unfile", "hire", "hired", "judge"}
        /\ task[k].src = "none" /\ task[k].then # "answer"
  BY DEF ChainsInv, Staged
<1>7. dc.handle = C(k).handle /\ dc.launching = C(k).launching
  BY DEF ChainsInv, Named
<1>8. Paired(C(k), X(k))' /\ Paired(disk.chain[k], disk.ex[k])'
  BY <1>1, <1>2, <1>3 DEF NodeInv, Paired, C, X
<1>9. Crewed(k)'
  <2>1. Handles(X(k))' /\ Handles(disk.ex[k])'
    BY <1>1, <1>2, <1>3, <1>4 DEF NodeInv, Crewed, Handles, X
  <2>2. Crewed(k)
    BY <1>3 DEF NodeInv
  <2>3. C(k).handle # 0 =>
          /\ worker'[C(k).handle].role = "worker"
          /\ C(k).cursor <= worker'[C(k).handle].turn
          /\ dc.cursor <= worker'[C(k).handle].turn
          /\ seen[C(k).handle].st = "working" => C(k).cursor <= seen[C(k).handle].turn
    BY <1>4, <2>2 DEF Crewed, Tame
  <2>4. C(k).launching # 0 =>
          LET v == worker'[C(k).launching] IN
          /\ v.role \in {"none", "worker"}
          /\ v.st \in {"working", "idle"} => v.role = "worker"
          /\ v.st = "idle" => v.turn > 0
    BY <1>4, <2>2 DEF Crewed, Tame
  <2> QED BY <1>1, <1>2, <2>1, <2>3, <2>4 DEF Crewed, C
<1>10. Minded(k)'
  <2>1. Minded(k)
    BY <1>3 DEF NodeInv
  <2>2. Excused(k) => Excused(k)'
    BY <1>1 DEF Excused, Steered
  <2>3. Cared(C(k)) => Cared(C(k))'
    <3>1. Cared(C(k)) => LET v == worker'[C(k).handle] IN
             C(k).handle # 0 /\ v.st = "idle" /\ v.turn <= C(k).cursor
               => C(k).waiting \/ C(k).held \/ C(k).phase = "integrate" \/ C(k).launching # 0
      BY <1>4 DEF Cared, Tame
    <3> QED BY <1>1, <3>1 DEF Cared, C
  <2>4. Cared(dc) => LET v == worker'[dc.handle] IN
             dc.handle # 0 /\ v.st = "idle" /\ v.turn <= dc.cursor
               => dc.waiting \/ dc.held \/ dc.phase = "integrate" \/ dc.launching # 0
    BY <1>4, <1>7 DEF Cared, Tame
  <2>5. CASE disk'.chain[k] = dc /\ disk'.ex[k] = dx
    <3>1. Cared(dc) => Cared(disk.chain[k])'
      BY <2>4, <2>5 DEF Cared
    <3> QED BY <1>1, <2>1, <2>2, <2>3, <2>5, <3>1 DEF Minded, Known, Untold, Answering, C, X
  <2>6. CASE disk'.chain[k] = C(k) /\ disk'.ex[k] = X(k)
    <3>1. Cared(C(k)) => Cared(disk.chain[k])'
      BY <1>1, <2>3, <2>6 DEF Cared, C
    <3>2. Untold(k) \/ Cared(C(k)) \/ Excused(k)
      BY <2>1 DEF Minded
    <3>3. Known(C(k), X(k)) \/ Excused(k)
      BY <1>5, <1>6, <2>1 DEF Minded, Answering
    <3>4. task[k].at # "unfile"
      BY <1>5, <1>6
    <3> QED BY <1>1, <2>2, <2>3, <2>6, <3>1, <3>2, <3>3, <3>4 DEF Minded, Known, Untold, Answering, C, X
  <2> QED BY <1>2, <2>5, <2>6
<1>11. About(k)'
  BY <1>1, <1>2, <1>3 DEF NodeInv, About, X
<1>12. Where(k)'
  <2>1. Where(k)
    BY <1>3 DEF NodeInv
  <2>2. task[k].at \notin {"hire", "hired", "judge"}
    BY <1>5, <1>6
  <2>3. task[k].at \in {"spawn", "up"} =>
          worker'[C(k).launching].turn = worker[C(k).launching].turn
          /\ worker'[C(k).launching].role = worker[C(k).launching].role
    BY <1>4, <2>1 DEF Where, Tame
  <2> QED BY <1>1, <1>2, <2>1, <2>2, <2>3 DEF Where, Has, Pending, Untold, Steered, C, X
<1> QED BY <1>8, <1>9, <1>10, <1>11, <1>12 DEF NodeInv

(* A step of node n keeps the invariant when it keeps what is said of n.     *)
LEMMA StepKeeps ==
  ASSUME ChainsInv, NEW n \in Node, TypeInv', OnlyNode(n), Renames(n), Saves(n), Crew(n),
         NodeInv(n)',
         stage = "visit" => /\ task'[n].at \notin {"discard", "unfile", "hire", "hired", "judge"}
                            /\ task'[n].src = "none" /\ task'[n].then # "answer"
  PROVE  ChainsInv'
<1>1. \A k \in Node \ {n} : NodeInv(k)' /\ task'[k] = task[k]
  BY OthersKeep DEF OnlyNode
<1>2. Staged'
  <2>1. stage' = stage /\ Acts(n)
    BY DEF OnlyNode
  <2>2. CASE stage = "visit"
    BY <1>1, <2>1, <2>2 DEF ChainsInv, Staged
  <2>3. CASE stage = "except" /\ \A k \in Node \ {n} : task[k].at = "rest"
    BY <1>1, <2>1, <2>3 DEF Staged
  <2> QED BY <2>1, <2>2, <2>3 DEF Acts
<1>3. \A h \in Handle : Polled(h)'
  BY KeepPolled DEF Crew
<1> QED BY <1>1, <1>2, <1>3, KeepNamed DEF ChainsInv

(* Only in a visit, or alone, does a node act.                              *)
LEMMA WhoActs ==
  ASSUME ChainsInv, NEW n \in Node, stage = "visit" \/ task[n].at # "rest" \/ Takes(n)
  PROVE  Acts(n)
<1>1. Staged /\ stage \in Stages
  BY DEF ChainsInv, TypeInv
<1>2. CASE task[n].at # "rest"
  BY <1>1, <1>2 DEF Acts, Staged, Stages, Quiet
<1>3. CASE Takes(n)
  BY <1>3 DEF Acts, Takes, Quiet
<1> QED BY <1>2, <1>3 DEF Acts

LEMMA LookingActs ==
  ASSUME ChainsInv, NEW n \in Node, NEW f, Visits(n, f)
  PROVE  /\ Acts(n) /\ stage = "visit" /\ task[n].at \in {"rest", "again"}
         /\ Finds(n) = f
         /\ todo' = todo \ {n}
BY WhoActs DEF Visits, Going

(* The launch of node n fails and leaves its worktree, or nothing.          *)
Undone(n, h) ==
  /\ h = C(n).launching /\ h # 0
  /\ worker[h].turn = 0 /\ worker'[h].turn = 0 /\ worker[h].role = "worker"
  /\ worker'[h].role = "worker" /\ worker'[h].st \in {"none", "made"}
Calm(n) == \A h \in Handle : Tame(h) \/ Undone(n, h)

LEMMA CalmCrew ==
  ASSUME ChainsInv, NEW n \in Node, Calm(n), mem'.count \in {mem.count, mem.count + 1}, seen' = seen
  PROVE  Crew(n)
<1> SUFFICES ASSUME NEW h \in Handle, Undone(n, h)
             PROVE  Mine(n, h) /\ Polled(h)'
                    /\ (worker[h].role = "handler" => worker'[h].role = "handler")
  BY DEF Crew, Calm
<1>1. Polled(h) /\ mem.count \in Nat /\ C(n).launching <= mem.count /\ h \in Nat
  BY FreshName, WorkerTypes DEF ChainsInv
<1>2. h <= mem'.count
  BY <1>1 DEF Undone
<1>3. Polled(h)'
  BY <1>1, <1>2 DEF Polled, Undone
<1> QED BY <1>3 DEF Undone, Mine

(* What a step makes of the memory when it names no worker anew.             *)
Near(m, n) ==
  /\ Apart(m, mem, n) /\ m.count = mem.count
  /\ m.chain[n].handle = C(n).handle /\ m.chain[n].launching = C(n).launching
  /\ C(n).handle # 0 => m.chain[n].cursor \in {C(n).cursor, seen[C(n).handle].turn}
  /\ m.ex[n].handler \in {0, X(n).handler}
  /\ m.chain[n].phase = "integrate" => m.chain[n].handle # 0

LEMMA NearMem == ASSUME ChainsInv, NEW n \in Node PROVE Near(mem, n)
BY DEF ChainsInv, TypeInv, NodeInv, Paired, Near, Apart, C, X

LEMMA NearHandle ==
  ASSUME ChainsInv, NEW n \in Node
  PROVE  /\ C(n).handle # 0 => C(n).handle \in Handle
         /\ C(n).launching # 0 => C(n).launching \in Handle
BY FreshName, ChainAssumption DEF Handle, ChainAssumption

LEMMA HandlerStays ==
  ASSUME NEW n \in Node, Calm(n), NEW x, Handles(x)
  PROVE  x.handler # 0 => x.handler \in Handle /\ worker'[x.handler].role = "handler"
BY DEF Handles, Calm, Tame, Undone

(* The crew of a node that names the workers it did.                        *)
LEMMA StayCrewed ==
  ASSUME ChainsInv, NEW n \in Node, Calm(n), seen' = seen, NEW m, Near(m, n)
  PROVE  /\ C(n).handle # 0 =>
              /\ worker'[C(n).handle].role = "worker"
              /\ m.chain[n].cursor <= worker'[C(n).handle].turn
              /\ disk.chain[n].cursor <= worker'[C(n).handle].turn
              /\ seen[C(n).handle].st = "working" => m.chain[n].cursor <= seen[C(n).handle].turn
         /\ C(n).launching # 0 =>
              LET v == worker'[C(n).launching] IN
              /\ v.role \in {"none", "worker"}
              /\ v.st \in {"working", "idle"} => v.role = "worker"
              /\ v.st = "idle" => v.turn > 0
         /\ Handles(m.ex[n])
<1>1. Crewed(n)
  BY DEF ChainsInv, NodeInv
<1>2. /\ C(n).handle # 0 => C(n).handle \in Handle /\ C(n).handle # C(n).launching
      /\ C(n).launching # 0 => C(n).launching \in Handle
  BY NearHandle DEF ChainsInv, Named
<1>3. C(n).handle # 0 => /\ Tame(C(n).handle) /\ seen[C(n).handle].turn <= worker[C(n).handle].turn
                         /\ seen[C(n).handle].turn \in Nat /\ worker[C(n).handle].turn \in Nat
  BY <1>2, WorkerTypes DEF Calm, Undone, ChainsInv, Polled
<1>4. C(n).handle # 0 =>
              /\ worker'[C(n).handle].role = "worker"
              /\ m.chain[n].cursor <= worker'[C(n).handle].turn
              /\ disk.chain[n].cursor <= worker'[C(n).handle].turn
              /\ seen[C(n).handle].st = "working" => m.chain[n].cursor <= seen[C(n).handle].turn
  BY <1>1, <1>3 DEF Crewed, Tame, Near
<1>5. C(n).launching # 0 =>
              LET v == worker'[C(n).launching] IN
              /\ v.role \in {"none", "worker"}
              /\ v.st \in {"working", "idle"} => v.role = "worker"
              /\ v.st = "idle" => v.turn > 0
  <2>1. CASE C(n).launching # 0 /\ Tame(C(n).launching)
    BY <1>1, <2>1 DEF Crewed, Tame
  <2>2. CASE C(n).launching # 0 /\ Undone(n, C(n).launching)
    BY <2>2 DEF Undone
  <2> QED BY <1>2, <2>1, <2>2 DEF Calm
<1>6. Handles(m.ex[n])
  BY <1>1 DEF Crewed, Near, Handles
<1> QED BY <1>4, <1>5, <1>6

(* Such a step keeps the invariant when it keeps what is said of n.          *)
LEMMA NearKeeps ==
  ASSUME ChainsInv, NEW n \in Node, TypeInv', Acts(n), Near(mem', n), Calm(n),
         \/ disk' = mem'
         \/ disk' = disk /\ (mem'.chain[n].phase = "none" <=> C(n).phase = "none"),
         \A k \in Node \ {n} : task'[k] = task[k] /\ file'[k] = file[k],
         seen' = seen, stage' = stage, cut \subseteq cut',
         Paired(C(n), X(n))', Paired(disk.chain[n], disk.ex[n])',
         Minded(n)', About(n)', Where(n)',
         stage = "visit" => /\ task'[n].at \notin {"discard", "unfile", "hire", "hired", "judge"}
                            /\ task'[n].src = "none" /\ task'[n].then # "answer"
  PROVE  ChainsInv'
<1>1. OnlyNode(n)
  BY DEF OnlyNode, Near
<1>2. mem.count <= MaxHandle
  BY DEF ChainsInv, Named
<1>3. Renames(n)
  BY <1>2 DEF Renames, Near
<1>4. Saves(n)
  BY DEF Saves, Near
<1>5. Crew(n)
  BY CalmCrew DEF Near
<1>6. Crewed(n)'
  <2>1. /\ Handles(X(n)) /\ Handles(disk.ex[n])
        /\ disk.chain[n].handle = C(n).handle /\ disk.chain[n].launching = C(n).launching
    BY DEF ChainsInv, NodeInv, Crewed, Named
  <2>2. Handles(X(n))' /\ Handles(disk.ex[n])'
    <3>1. Handles(X(n))'
      BY StayCrewed, HandlerStays DEF Handles, X
    <3>2. CASE disk' = mem'
      BY <3>1, <3>2 DEF X
    <3>3. CASE disk' = disk
      BY <2>1, <3>1, <3>3, HandlerStays DEF Handles
    <3> QED BY <3>1, <3>2, <3>3
  <2>3. CASE disk' = mem'
    BY <2>2, <2>3, StayCrewed DEF Crewed, Near, C
  <2>4. CASE disk' = disk
    BY <2>2, <2>4, StayCrewed DEF Crewed, Near, C
  <2> QED BY <2>3, <2>4
<1>7. NodeInv(n)'
  BY <1>6 DEF NodeInv
<1> QED BY <1>1, <1>3, <1>4, <1>5, <1>7, StepKeeps

(* A raised exception: the chain is held, no resolution is queued.          *)
LEMMA RaisingFacts ==
  ASSUME NEW n \in Node, NEW m \in Mems, NEW level \in {"parent", "owner"}, NEW p \in BOOLEAN,
         raised \in {0, 1}, Raising(m, n, level, p)
  PROVE  /\ disk' = mem' /\ Apart(mem', m, n) /\ mem'.count = m.count
         /\ mem'.chain[n] \in ChainTypes
         /\ mem'.chain[n].handle = m.chain[n].handle /\ mem'.chain[n].launching = m.chain[n].launching
         /\ mem'.chain[n].phase = m.chain[n].phase /\ mem'.chain[n].cursor = m.chain[n].cursor
         /\ mem'.chain[n].held = TRUE
         /\ mem'.ex[n].id # 0 /\ mem'.ex[n].handler = 0 /\ mem'.ex[n].cursor = m.chain[n].cursor
         /\ raised' \in {0, 1}
         /\ file' = [file EXCEPT ![n] = NoFile]
<1> DEFINE c2 == [m.chain[n] EXCEPT !.held = TRUE]
           x2 == [id |-> raised + 1, level |-> level, handler |-> 0,
                  cursor |-> m.chain[n].cursor, provider |-> p]
<1>1. m.chain[n] \in ChainTypes /\ m.chain[n].cursor \in Nat
  BY MemFields, ChainFields
<1>2. x2 \in ExTypes /\ x2.id # 0 /\ x2.handler = 0 /\ x2.cursor = m.chain[n].cursor
  BY <1>1 DEF ExTypes
<1>3. mem' = [m EXCEPT !.chain[n] = c2, !.ex[n] = x2]
  BY DEF Raising, Save, Mems
<1>4. /\ c2 \in ChainTypes /\ c2.handle = m.chain[n].handle /\ c2.launching = m.chain[n].launching
      /\ c2.phase = m.chain[n].phase /\ c2.cursor = m.chain[n].cursor /\ c2.held = TRUE
  BY <1>1 DEF ChainTypes
<1> HIDE DEF c2, x2
<1>5. /\ Apart(mem', m, n) /\ mem'.count = m.count /\ mem'.chain[n] = c2 /\ mem'.ex[n] = x2
  BY <1>2, <1>3, <1>4 DEF Apart, Mems
<1>6. disk' = mem' /\ raised' \in {0, 1} /\ file' = [file EXCEPT ![n] = NoFile]
  BY DEF Raising, Save
<1> QED BY <1>2, <1>4, <1>5, <1>6

LEMMA RestFacts ==
  /\ Rest \in Tasks /\ Rest.at = "rest" /\ Rest.src = "none" /\ Rest.then = "none"
  /\ Rest.err = "none" /\ Rest.n = 0
BY DEF Rest, Tasks, Labels, Causes, Thens, Sources

LEMMA NoFileFacts == NoFile \in Files /\ NoFile.act = "none"
BY DEF NoFile, Files

LEMMA RaisingStep ==
  ASSUME ChainsInv, NEW n \in Node, Acts(n), NEW m, Near(m, n), m.chain[n].phase # "none",
         NEW level \in {"parent", "owner"}, NEW p \in BOOLEAN,
         Raising(m, n, level, p), Go(n, Rest), Calm(n), Around',
         seen' = seen, stage' = stage, cut \subseteq cut'
  PROVE  ChainsInv'
<1>1. /\ disk' = mem' /\ Apart(mem', m, n) /\ mem'.count = m.count
      /\ mem'.chain[n] \in ChainTypes
      /\ mem'.chain[n].handle = m.chain[n].handle /\ mem'.chain[n].launching = m.chain[n].launching
      /\ mem'.chain[n].phase = m.chain[n].phase /\ mem'.chain[n].cursor = m.chain[n].cursor
      /\ mem'.chain[n].held = TRUE
      /\ mem'.ex[n].id # 0 /\ mem'.ex[n].handler = 0 /\ mem'.ex[n].cursor = m.chain[n].cursor
      /\ raised' \in {0, 1}
      /\ file' = [file EXCEPT ![n] = NoFile]
  <2>1. m \in Mems /\ raised \in {0, 1}
    BY DEF Near, Apart, ChainsInv, TypeInv
  <2> QED BY <2>1, RaisingFacts
<1>2. Near(mem', n)
  BY <1>1 DEF Near, Apart
<1>3. task' = [task EXCEPT ![n] = Rest]
  BY DEF Go
<1>4. task \in [Node -> Tasks] /\ file \in [Node -> Files] /\ seen \in [Handle -> Threads] /\ stage \in Stages
  BY DEF ChainsInv, TypeInv
<1>5. TypeInv'
  BY <1>1, <1>3, <1>4, RestFacts, NoFileFacts DEF TypeInv, Apart
<1>6. task'[n] = Rest /\ file'[n] = NoFile /\ \A k \in Node \ {n} : task'[k] = task[k] /\ file'[k] = file[k]
  BY <1>1, <1>3, <1>4
<1>7. Paired(C(n), X(n))' /\ Paired(disk.chain[n], disk.ex[n])'
  BY <1>1, <1>2 DEF Paired, Near, C, X
<1>8. Minded(n)'
  BY <1>1, <1>6, RestFacts DEF Minded, Cared, Known, Untold, Answering, C, X
<1>9. About(n)'
  BY <1>1, <1>6 DEF About, X
<1>10. Where(n)'
  BY <1>6, RestFacts DEF Where, Untold
<1> QED BY <1>1, <1>2, <1>5, <1>6, <1>7, <1>8, <1>9, <1>10, RestFacts, NearKeeps

(* A throw: raised, or the tick fails and leaves who will come back to it.   *)
LEMMA ThrowStep ==
  ASSUME ChainsInv, NEW n \in Node, task[n].at \in {"stop", "find", "spawn", "tell"},
         task[n].at = "stop" => task[n].then # "relaunch",
         Throw(mem, n), Calm(n),
         worker' \in [Handle -> Threads], todo' = todo, closed' = closed, spared' = spared,
         seen' = seen, stage' = stage
  PROVE  ChainsInv'
<1>1. Acts(n) /\ Near(mem, n) /\ Where(n) /\ Has(n) /\ TypeInv /\ Minded(n)
  BY WhoActs, NearMem DEF ChainsInv, NodeInv, Where
<1>2. CASE task[n].err \in {"launch", "report"}
  <2>1. Go(n, Rest) /\ Raising(mem, n, "parent", FALSE) /\ threw' = threw /\ cut' = cut
    BY <1>2 DEF Throw
  <2>2. Around'
    BY <1>1, <2>1 DEF TypeInv, Around
  <2> QED BY <1>1, <2>1, <2>2, RaisingStep DEF Has, C
<1>3. CASE task[n].err \notin {"launch", "report"}
  <2>1. /\ mem' = mem /\ disk' = disk /\ threw' = TRUE /\ file' = file /\ raised' = raised
        /\ task' = [task EXCEPT ![n] = Rest]
        /\ cut' = IF task[n].src = "handler" \/ task[n].then = "save" THEN cut \cup {n} ELSE cut
    BY <1>3 DEF Throw, Keep, Go
  <2>2. /\ task'[n] = Rest /\ \A k \in Node \ {n} : task'[k] = task[k]
    BY <1>1, <2>1 DEF TypeInv
  <2>3. TypeInv'
    BY <1>1, <2>1, RestFacts DEF TypeInv, Around
  <2>4. Near(mem', n) /\ cut \subseteq cut'
    BY <1>1, <2>1 DEF Near, Apart
  <2>5. Paired(C(n), X(n))' /\ Paired(disk.chain[n], disk.ex[n])' /\ About(n)'
    BY <2>1 DEF ChainsInv, NodeInv, Paired, About, C, X
  <2>6. Where(n)'
    BY <2>2, RestFacts DEF Where, Untold
  <2>7. task[n].src \in Sources
    BY <1>1 DEF TypeInv, Tasks
  <2>8. Excused(n)' \/ (/\ ~Excused(n) /\ task[n].src = "none" /\ task[n].then # "save")
    BY <1>1, <2>1, <2>7 DEF Excused, Steered, Where, Sources
  <2>9. Minded(n)'
    <3>1. CASE Excused(n)'
      BY <2>2, <3>1, RestFacts DEF Minded
    <3>2. CASE ~Excused(n) /\ task[n].src = "none" /\ task[n].then # "save"
      <4>1. C(n).launching # 0 \/ (C(n).waiting /\ disk.chain[n].waiting)
        BY <1>1, <1>3, <3>2 DEF Where, Untold
      <4>2. disk.chain[n].launching = C(n).launching
        BY DEF ChainsInv, Named
      <4>3. Cared(C(n))' /\ Cared(disk.chain[n])'
        BY <2>1, <4>1, <4>2 DEF Cared, C
      <4>4. Known(C(n), X(n)) /\ Known(disk.chain[n], disk.ex[n])
        BY <1>1, <3>2 DEF Minded, Answering, Where
      <4> QED BY <2>1, <2>2, <4>3, <4>4, RestFacts DEF Minded, Known, C, X
    <3> QED BY <2>8, <3>1, <3>2
  <2>10. mem'.chain[n].phase = "none" <=> C(n).phase = "none"
    BY <2>1 DEF C
  <2> QED BY <1>1, <2>1, <2>2, <2>3, <2>4, <2>5, <2>6, <2>9, <2>10, RestFacts, NearKeeps
<1> QED BY <1>2, <1>3

(* A step that raises nothing and leaves the queued resolution.             *)
LEMMA SettledStep ==
  ASSUME ChainsInv, NEW n \in Node, Acts(n), Near(mem', n), Calm(n), Around',
         mem'.ex[n].id \in {0, X(n).id},
         \/ disk' = mem'
         \/ disk' = disk /\ (mem'.chain[n].phase = "none" <=> C(n).phase = "none"),
         NEW t \in Tasks, Go(n, t), file' = file, raised' = raised,
         seen' = seen, stage' = stage, cut \subseteq cut',
         Paired(mem'.chain[n], mem'.ex[n]), Minded(n)', Where(n)',
         stage = "visit" => /\ t.at \notin {"discard", "unfile", "hire", "hired", "judge"}
                            /\ t.src = "none" /\ t.then # "answer"
  PROVE  ChainsInv'
<1>1. /\ TypeInv /\ task' = [task EXCEPT ![n] = t] /\ About(n)
      /\ Paired(disk.chain[n], disk.ex[n])
  BY DEF ChainsInv, NodeInv, Go
<1>2. task'[n] = t /\ \A k \in Node \ {n} : task'[k] = task[k] /\ file'[k] = file[k]
  BY <1>1 DEF TypeInv
<1>3. TypeInv'
  BY <1>1 DEF TypeInv, Near, Apart
<1>4. Paired(C(n), X(n))' /\ Paired(disk.chain[n], disk.ex[n])'
  <2>1. Paired(C(n), X(n))'
    BY DEF Paired, C, X
  <2>2. CASE disk' = mem'
    BY <2>1, <2>2 DEF C, X
  <2>3. CASE disk' = disk
    BY <1>1, <2>1, <2>3 DEF Paired
  <2> QED BY <2>1, <2>2, <2>3
<1>5. About(n)'
  BY <1>1 DEF About, X
<1> QED BY <1>2, <1>3, <1>4, <1>5, NearKeeps

(* The chain whose worker may be launched: not held, not pending.           *)
Startable(m, n) ==
  Near(m, n) /\ m.chain[n].phase # "none" /\ ~m.chain[n].held /\ m.ex[n] = NoEx

(* Stop() leaves the worker it replaces idle.                               *)
Idled(n, h) ==
  /\ h = C(n).handle /\ h # 0
  /\ worker'[h].turn = worker[h].turn /\ worker'[h].role = worker[h].role
  /\ worker'[h].rep = worker[h].rep
  /\ worker[h].st = "working" /\ worker'[h].st = "idle"

(* The intent to launch is saved.                                           *)
LEMMA IntentStep ==
  ASSUME ChainsInv, NEW n \in Node, Acts(n), NEW m, Startable(m, n), Nameable(m, n),
         NEW ph \in Phase, Save(Intent(m, n, ph)),
         NEW t \in Tasks, Go(n, t), t.at = "find", t.phase = ph, t.src = "file" => Steered(n),
         stage = "visit" => t.src = "none" /\ t.then # "answer",
         file' = file, raised' = raised, seen' = seen, stage' = stage, cut \subseteq cut',
         \A h \in Handle : Tame(h) \/ Idled(n, h), Around'
  PROVE  ChainsInv'
<1> DEFINE d == mem'.chain[n]
<1>1. /\ TypeInv /\ task' = [task EXCEPT ![n] = t] /\ About(n) /\ Crewed(n) /\ Paired(C(n), X(n))
      /\ disk' = mem' /\ mem' = Intent(m, n, ph) /\ m \in Mems /\ m.count = mem.count
      /\ m.chain[n].handle = C(n).handle /\ m.chain[n].launching = C(n).launching
  BY DEF ChainsInv, NodeInv, Go, Save, Startable, Near, Apart
<1>2. /\ C(n).handle \in 0..mem.count /\ C(n).launching \in 0..mem.count
      /\ mem.count \in 0..MaxHandle /\ mem.count \in Nat /\ MaxHandle \in Nat
  BY FreshName, ChainAssumption DEF ChainAssumption
<1>3. /\ Apart(mem', m, n) /\ mem'.ex[n] = NoEx
      /\ mem'.count = IF C(n).launching = 0 THEN mem.count + 1 ELSE mem.count
      /\ d \in ChainTypes /\ d.handle = C(n).handle
      /\ d.launching = IF C(n).launching = 0 THEN mem.count + 1 ELSE C(n).launching
      /\ d.phase # "none" /\ d.phase = m.chain[n].phase /\ d.cursor = m.chain[n].cursor /\ ~d.held
  BY <1>1, IntentFacts DEF Startable
<1>4. task'[n] = t /\ \A k \in Node \ {n} : task'[k] = task[k] /\ file'[k] = file[k]
  BY <1>1 DEF TypeInv
<1>5. OnlyNode(n)
  BY <1>3, <1>4 DEF OnlyNode, Apart, Startable, Near
<1>6. Renames(n) /\ Saves(n) /\ mem'.count >= mem.count /\ d.launching # 0 /\ d.launching \in Handle
  BY <1>1, <1>2, <1>3 DEF Renames, Saves, Nameable, Handle
<1>7. Named'
  BY <1>5, <1>6, KeepNamed
<1>8. TypeInv'
  BY <1>1, <1>3, <1>4 DEF TypeInv, Apart
<1>9. Crew(n)
  <2> SUFFICES ASSUME NEW h \in Handle, Idled(n, h)
               PROVE  Mine(n, h) /\ Polled(h)'
    BY DEF Crew, Idled
  <2>1. Polled(h) /\ h \in Nat /\ h = C(n).handle /\ h # 0 /\ ~(h > mem'.count)
    BY <1>2, <1>3, WorkerTypes DEF ChainsInv, Idled
  <2>2. \A k \in Node : /\ mem'.chain[k].launching # h
                        /\ mem'.chain[k].handle = h => mem'.chain[k].launching # 0
    <3>1. d.handle = h /\ d.launching # 0
      BY <1>3, <1>6, <2>1
    <3> QED BY <1>7, <2>1, <3>1 DEF Named, C
  <2>3. seen' = seen
    OBVIOUS
  <2>4. Polled(h)'
    BY <2>1, <2>2, <2>3 DEF Polled, Idled, C
  <2> QED BY <2>1, <2>4 DEF Mine
<1>10. Paired(C(n), X(n))' /\ Paired(disk.chain[n], disk.ex[n])'
  BY <1>1, <1>3, BlankFacts DEF Paired, Startable, Near, C, X
<1>11. Crewed(n)'
  <2>1. C(n).handle # 0 =>
          /\ C(n).handle \in Handle
          /\ worker'[C(n).handle].role = "worker"
          /\ d.cursor <= worker'[C(n).handle].turn
          /\ seen[C(n).handle].st = "working" => d.cursor <= seen[C(n).handle].turn
    <3> SUFFICES ASSUME C(n).handle # 0
                 PROVE  /\ C(n).handle \in Handle
                        /\ worker'[C(n).handle].role = "worker"
                        /\ d.cursor <= worker'[C(n).handle].turn
                        /\ seen[C(n).handle].st = "working" => d.cursor <= seen[C(n).handle].turn
      OBVIOUS
    <3>1. C(n).handle \in Handle
      BY NearHandle
    <3>2. /\ worker'[C(n).handle].turn = worker[C(n).handle].turn
          /\ worker'[C(n).handle].role = worker[C(n).handle].role
      BY <3>1 DEF Tame, Idled
    <3>3. Polled(C(n).handle) /\ worker[C(n).handle].turn \in Nat /\ seen[C(n).handle].turn \in Nat
      BY <1>1, <3>1, WorkerTypes DEF ChainsInv
    <3> QED BY <1>1, <1>3, <3>1, <3>2, <3>3 DEF Crewed, Startable, Near, Polled
  <2>2. LET v == worker'[d.launching] IN
          /\ v.role \in {"none", "worker"}
          /\ v.st \in {"working", "idle"} => v.role = "worker"
          /\ v.st = "idle" => v.turn > 0
    <3>1. Tame(d.launching)
      <4>1. d.launching # C(n).handle
        BY <1>2, <1>3, <1>6 DEF ChainsInv, Named
      <4> QED BY <1>6, <4>1 DEF Idled
    <3>2. CASE C(n).launching # 0
      BY <1>1, <1>3, <3>1, <3>2 DEF Crewed, Tame
    <3>3. CASE C(n).launching = 0
      <4>1. Polled(d.launching) /\ d.launching > mem.count
        BY <1>2, <1>3, <1>6, <3>3 DEF ChainsInv
      <4> QED BY <3>1, <4>1 DEF Polled, Tame
    <3> QED BY <3>2, <3>3
  <2>3. X(n)' = NoEx /\ disk'.ex[n] = NoEx
    BY <1>1, <1>3 DEF X
  <2> QED BY <1>1, <1>3, <2>1, <2>2, <2>3, BlankFacts DEF Crewed, Handles, C
<1>12. Minded(n)'
  BY <1>1, <1>3, <1>4, <1>6 DEF Minded, Cared, Known, Untold, Answering, C, X
<1>13. About(n)'
  BY <1>1, <1>3, BlankFacts DEF About, X
<1>14. Where(n)'
  <2>1. Steered(n) => Steered(n)'
    BY DEF Steered
  <2> QED BY <1>3, <1>4, <1>6, <2>1 DEF Where, Has, Untold, C, Phase
<1>15. NodeInv(n)'
  BY <1>10, <1>11, <1>12, <1>13, <1>14 DEF NodeInv
<1> QED BY <1>4, <1>5, <1>6, <1>8, <1>9, <1>15, StepKeeps

(* startPhase(), up to its first await.                                     *)
LEMMA BeginStep ==
  ASSUME ChainsInv, NEW n \in Node, Acts(n), task[n].at \in {"rest", "again", "judge"},
         NEW m, Startable(m, n), NEW ph \in Phase,
         NEW t \in Tasks, Begin(m, n, t, ph),
         t.then # "answer", t.src = "file" => Steered(n), stage = "visit" => t.src = "none",
         \/ t.err = "report" \/ t.src # "none" \/ t.then = "relaunch" \/ C(n).launching # 0
         \/ C(n).handle = 0,
         file' = file, raised' = raised, seen' = seen, stage' = stage, cut \subseteq cut',
         Calm(n), \A h \in Handle : Tame(h), Around'
  PROVE  ChainsInv'
<1>1. /\ Nameable(m, n) /\ m.chain[n].handle = C(n).handle /\ m.chain[n].launching = C(n).launching
      /\ Near(m, n) /\ m.chain[n].phase # "none" /\ ~m.chain[n].held /\ m.ex[n] = NoEx
  BY DEF Begin, Startable, Near
<1>2. CASE m.chain[n].handle # 0
  <2> DEFINE u == [t EXCEPT !.at = "stop", !.phase = ph]
  <2>1. mem' = m /\ disk' = disk /\ Go(n, u)
    BY <1>2 DEF Begin, Keep
  <2>2. /\ u \in Tasks /\ u.at = "stop" /\ u.phase = ph /\ u.then = t.then /\ u.src = t.src /\ u.err = t.err
    BY DEF Tasks, Labels
  <2> HIDE DEF u
  <2>3. task'[n] = u
    BY <2>1 DEF ChainsInv, TypeInv, Go
  <2>4. mem'.chain[n].phase = "none" <=> C(n).phase = "none"
    BY <1>1, <1>2, <2>1 DEF ChainsInv, NodeInv, Paired
  <2>5. Paired(mem'.chain[n], mem'.ex[n])
    BY <1>1, <2>1, BlankFacts DEF Paired, Near
  <2>6. Minded(n)'
    <3>1. Minded(n) /\ disk.chain[n].handle = C(n).handle
          /\ (C(n).handle # 0 => C(n).handle \in Handle)
      BY NearHandle DEF ChainsInv, NodeInv, Named
    <3>2. Cared(disk.chain[n]) \/ Excused(n)
      BY <3>1 DEF Minded, Untold
    <3>3. Cared(disk.chain[n]) => Cared(disk.chain[n])'
      BY <2>1, <3>1 DEF Cared, Tame
    <3>4. Excused(n) => Excused(n)'
      BY DEF Excused, Steered
    <3>5. Known(disk.chain[n], disk.ex[n]) \/ Excused(n)
      BY <3>1 DEF Minded
    <3> QED BY <1>1, <2>1, <2>2, <2>3, <3>2, <3>3, <3>4, <3>5 DEF Minded, Known, Untold, C
  <2>7. Where(n)'
    <3>1. Steered(n) => Steered(n)'
      BY DEF Steered
    <3> QED BY <1>1, <1>2, <2>1, <2>2, <2>3, <3>1 DEF Where, Has, Untold, C, Phase
  <2>8. mem'.ex[n].id \in {0, X(n).id}
    BY <1>1, <2>1, BlankFacts
  <2> QED BY <1>1, <2>1, <2>2, <2>4, <2>5, <2>6, <2>7, <2>8, SettledStep
<1>3. CASE m.chain[n].handle = 0
  <2> DEFINE u == [t EXCEPT !.at = "find", !.phase = ph]
  <2>1. Save(Intent(m, n, ph)) /\ Go(n, u)
    BY <1>3 DEF Begin
  <2>2. /\ u \in Tasks /\ u.at = "find" /\ u.phase = ph /\ u.then = t.then /\ u.src = t.src
    BY DEF Tasks, Labels
  <2> HIDE DEF u
  <2> QED BY <1>1, <2>1, <2>2, IntentStep
<1> QED BY <1>2, <1>3

----------------------------------------------------------------------------
(* The visits.                                                              *)

(* What visit() found.                                                      *)
LEMMA FindsMeans ==
  ASSUME NEW n \in Node
  PROVE  /\ Finds(n) = "start" => ~Pending(n) /\ ~Has(n)
         /\ Finds(n) = "resumed" => Pending(n) /\ Resumed(n)
         /\ Finds(n) \in {"land", "launch", "report", "dead", "waiting"} =>
              ~Pending(n) /\ Has(n) /\ ~C(n).held
         /\ Finds(n) = "land" => C(n).phase = "integrate"
         /\ Finds(n) = "launch" => C(n).handle = 0 \/ C(n).launching # 0
         /\ Finds(n) \in {"report", "dead", "waiting"} => C(n).handle # 0 /\ C(n).launching = 0
         /\ Finds(n) = "waiting" => C(n).waiting
<1>1. CASE n \in closed
  BY <1>1 DEF Finds
<1>2. CASE n \notin closed /\ Pending(n)
  BY <1>2 DEF Finds
<1>3. CASE n \notin closed /\ ~Pending(n) /\ ~Has(n)
  BY <1>3 DEF Finds
<1>4. CASE n \notin closed /\ ~Pending(n) /\ Has(n) /\ C(n).held
  BY <1>4 DEF Finds
<1>5. CASE n \notin closed /\ ~Pending(n) /\ Has(n) /\ ~C(n).held
  <2>1. CASE C(n).phase = "integrate"
    BY <1>5, <2>1 DEF Finds
  <2>2. CASE C(n).phase # "integrate" /\ (C(n).handle = 0 \/ C(n).launching # 0)
    BY <1>5, <2>2 DEF Finds
  <2>3. CASE C(n).phase # "integrate" /\ ~(C(n).handle = 0 \/ C(n).launching # 0)
    <3>1. CASE News(n)
      <4>1. Finds(n) \in {"nothing", "report"}
        BY <1>5, <2>3, <3>1 DEF Finds
      <4> QED BY <1>5, <2>3, <4>1
    <3>2. CASE ~News(n)
      <4>1. Finds(n) = IF Gone(C(n).handle) THEN "dead"
                       ELSE IF C(n).waiting THEN "waiting" ELSE "nothing"
        BY <1>5, <2>3, <3>2 DEF Finds
      <4> QED BY <1>5, <2>3, <4>1
    <3> QED BY <3>1, <3>2
  <2> QED BY <2>1, <2>2, <2>3
<1> QED BY <1>1, <1>2, <1>3, <1>4, <1>5

(* While the chain and what is queued stay as they are, so does who minds it. *)
LEMMA StaysMinded ==
  ASSUME ChainsInv, NEW n \in Node, task[n].at \notin {"tell", "stop", "discard", "unfile"},
         mem'.chain[n] = C(n), mem'.ex[n] = X(n),
         disk'.chain[n] \in {disk.chain[n], C(n)}, disk'.ex[n] \in {disk.ex[n], X(n)},
         disk' = disk \/ disk' = mem',
         file'[n] = file[n], n \in cut => n \in cut',
         C(n).handle # 0 => Tame(C(n).handle), task'[n].at # "unfile"
  PROVE  Minded(n)'
<1>1. Minded(n) /\ disk.chain[n].handle = C(n).handle
  BY DEF ChainsInv, NodeInv, Named
<1>2. Excused(n) => Excused(n)'
  BY DEF Excused, Steered
<1>3. /\ Cared(C(n)) \/ Excused(n)
      /\ Known(C(n), X(n)) \/ Excused(n)
      /\ Cared(disk.chain[n]) \/ Excused(n)
      /\ Known(disk.chain[n], disk.ex[n]) \/ Excused(n)
  BY <1>1 DEF Minded, Untold, Answering
<1>4. Cared(C(n)) => Cared(C(n))'
  BY DEF Cared, Tame, C
<1>5. CASE disk' = mem'
  BY <1>2, <1>3, <1>4, <1>5 DEF Minded, Known, C, X
<1>6. CASE disk' = disk
  <2>1. Cared(disk.chain[n]) => Cared(disk.chain[n])'
    BY <1>1, <1>6 DEF Cared, Tame
  <2> QED BY <1>2, <1>3, <1>4, <1>6, <2>1 DEF Minded, Known, C, X
<1> QED BY <1>5, <1>6

(* Nothing happens to the workers.                                          *)
LEMMA SameWorkers ==
  ASSUME worker' = worker
  PROVE  (\A h \in Handle : Tame(h)) /\ \A n \in Node : Calm(n)
BY DEF Tame, Calm

(* Only node n's step moves on.                                             *)
LEMMA MoveStep ==
  ASSUME ChainsInv, NEW n \in Node, Acts(n),
         task[n].at \notin {"tell", "stop", "discard", "unfile"},
         NEW t \in Tasks, Go(n, t), t.at # "unfile", Where(n)',
         stage = "visit" => /\ t.at \notin {"discard", "unfile", "hire", "hired", "judge"}
                            /\ t.src = "none" /\ t.then # "answer",
         UNCHANGED <<mem, disk, worker, seen, stage, threw, file, closed, hist, counts>>,
         todo' \subseteq Node
  PROVE  ChainsInv'
<1>1. TypeInv /\ Near(mem, n) /\ NodeInv(n)
  BY NearMem DEF ChainsInv
<1>2. /\ mem' = mem /\ disk' = disk /\ worker' = worker /\ seen' = seen /\ stage' = stage
      /\ file' = file /\ raised' = raised /\ cut' = cut /\ task' = [task EXCEPT ![n] = t]
  BY DEF hist, Go
<1>3. Near(mem', n)
  BY <1>1, <1>2 DEF Near, Apart
<1>4. Calm(n) /\ (\A h \in Handle : Tame(h)) /\ Around'
  BY <1>1, <1>2, SameWorkers DEF TypeInv, Around, hist
<1>5. task'[n] = t
  BY <1>1, <1>2 DEF TypeInv
<1>6. Minded(n)'
  BY <1>2, <1>4, <1>5, NearHandle, StaysMinded DEF C, X
<1>7. Paired(mem'.chain[n], mem'.ex[n]) /\ mem'.ex[n].id \in {0, X(n).id}
      /\ (mem'.chain[n].phase = "none" <=> C(n).phase = "none")
  BY <1>1, <1>2 DEF NodeInv, C, X
<1> QED BY <1>2, <1>3, <1>4, <1>6, <1>7, SettledStep

LEMMA NothingStep ==
  ASSUME ChainsInv, NEW n \in Node, Nothing(n)
  PROVE  ChainsInv'
<1>1. /\ Acts(n) /\ task[n].at \in {"rest", "again"} /\ todo' \subseteq Node
  BY LookingActs DEF Nothing, ChainsInv, TypeInv, Around
<1>2. task'[n] = Rest
  BY DEF Nothing, Go, ChainsInv, TypeInv
<1>3. Where(n)'
  BY <1>2, RestFacts DEF Where, Untold
<1> QED BY <1>1, <1>3, RestFacts, MoveStep DEF Nothing

LEMMA GoLandStep ==
  ASSUME ChainsInv, NEW n \in Node, GoLand(n)
  PROVE  ChainsInv'
<1> DEFINE t == [Rest EXCEPT !.at = "land", !.err = "tick"]
<1>1. /\ Acts(n) /\ task[n].at \in {"rest", "again"} /\ todo' \subseteq Node /\ Finds(n) = "land"
  BY LookingActs DEF GoLand, ChainsInv, TypeInv, Around
<1>2. /\ t \in Tasks /\ t.at = "land" /\ t.src = "none" /\ t.then = "none" /\ t.err = "tick"
  BY DEF Rest, Tasks, Labels, Causes, Thens, Sources
<1>3. Go(n, t)
  BY DEF GoLand
<1> HIDE DEF t
<1>4. task'[n] = t /\ mem' = mem
  BY <1>3 DEF GoLand, Go, ChainsInv, TypeInv
<1>5. Where(n)'
  BY <1>1, <1>2, <1>4, FindsMeans DEF Where, Untold, Has, C
<1> QED BY <1>1, <1>2, <1>3, <1>5, MoveStep DEF GoLand

LEMMA WithdrawStep ==
  ASSUME ChainsInv, NEW n \in Node, Withdraw(n)
  PROVE  ChainsInv'
<1> DEFINE t == [Rest EXCEPT !.at = "withdraw"]
<1>1. /\ Acts(n) /\ task[n].at \in {"rest", "again"} /\ todo' \subseteq Node /\ Finds(n) = "resumed"
  BY LookingActs DEF Withdraw, ChainsInv, TypeInv, Around
<1>2. /\ t \in Tasks /\ t.at = "withdraw" /\ t.src = "none" /\ t.then = "none"
  BY DEF Rest, Tasks, Labels, Causes, Thens, Sources
<1>3. Go(n, t)
  BY DEF Withdraw
<1> HIDE DEF t
<1>4. task'[n] = t /\ mem' = mem /\ seen' = seen
  BY <1>3 DEF Withdraw, Go, ChainsInv, TypeInv
<1>5. Pending(n) /\ C(n).handle # 0 /\ seen[C(n).handle].turn > X(n).cursor
  BY <1>1, FindsMeans DEF Resumed
<1>6. Where(n)'
  BY <1>2, <1>4, <1>5 DEF Where, Untold, Has, Pending, C, X
<1> QED BY <1>1, <1>2, <1>3, <1>6, MoveStep DEF Withdraw

(* Without an exception the one recorded is blank.                          *)
LEMMA NotPending ==
  ASSUME ChainsInv, NEW n \in Node, ~Pending(n)
  PROVE  X(n) = NoEx
BY DEF ChainsInv, NodeInv, Paired, Pending

(* A visit leaves the rest of the tick as it is.                            *)
LEMMA VisitAround ==
  ASSUME ChainsInv, NEW n \in Node, todo' = todo \ {n},
         UNCHANGED <<worker, seen, stage, threw, closed, cut, spared>>
  PROVE  /\ Around' /\ Calm(n) /\ (\A h \in Handle : Tame(h))
         /\ seen' = seen /\ stage' = stage /\ cut \subseteq cut'
BY SameWorkers DEF ChainsInv, TypeInv, Around

LEMMA StartStep ==
  ASSUME ChainsInv, NEW n \in Node, Start(n)
  PROVE  ChainsInv'
<1> DEFINE m == WithC(mem, n, Fresh)
           t == [Rest EXCEPT !.err = "launch"]
<1>1. /\ Acts(n) /\ task[n].at \in {"rest", "again"} /\ todo' = todo \ {n} /\ Finds(n) = "start"
  BY LookingActs DEF Start
<1>2. ~Pending(n) /\ C(n).phase = "none"
  BY <1>1, FindsMeans DEF Has
<1>3. C(n).handle = 0 /\ C(n).launching = 0 /\ X(n) = NoEx /\ mem \in Mems
  BY <1>2, NotPending DEF ChainsInv, NodeInv, Paired, TypeInv
<1>4. /\ Apart(m, mem, n) /\ m.count = mem.count /\ m.chain[n] = Fresh /\ m.ex[n] = X(n)
  BY <1>3, BlankFacts DEF WithC, Apart, Mems, X
<1>5. /\ t \in Tasks /\ t.src = "none" /\ t.then = "none"
  BY DEF Rest, Tasks, Labels, Causes, Thens, Sources
<1>6. Begin(m, n, t, "implement") /\ file' = file /\ raised' = raised
      /\ UNCHANGED <<worker, seen, stage, threw, closed, cut, spared>>
  BY DEF Start, hist
<1> HIDE DEF m, t
<1>7. Startable(m, n) /\ "implement" \in Phase
  BY <1>3, <1>4, BlankFacts DEF Startable, Near, Phase
<1> QED BY <1>1, <1>3, <1>5, <1>6, <1>7, VisitAround, BeginStep

LEMMA ResumeStep ==
  ASSUME ChainsInv, NEW n \in Node, Resume(n)
  PROVE  ChainsInv'
<1> DEFINE t == [Rest EXCEPT !.err = "tick"]
           ph == IF C(n).to = "none" THEN C(n).phase ELSE C(n).to
<1>1. /\ Acts(n) /\ task[n].at \in {"rest", "again"} /\ todo' = todo \ {n} /\ Finds(n) = "launch"
  BY LookingActs DEF Resume
<1>2. ~Pending(n) /\ C(n).phase # "none" /\ ~C(n).held /\ (C(n).handle = 0 \/ C(n).launching # 0)
  BY <1>1, FindsMeans DEF Has
<1>3. X(n) = NoEx /\ Near(mem, n) /\ C(n) \in ChainTypes
  BY <1>2, NotPending, NearMem, FreshName
<1>4. ph \in Phase
  BY <1>2, <1>3, ChainFields
<1>5. /\ t \in Tasks /\ t.src = "none" /\ t.then = "none"
  BY DEF Rest, Tasks, Labels, Causes, Thens, Sources
<1>6. Begin(mem, n, t, ph) /\ file' = file /\ raised' = raised
      /\ UNCHANGED <<worker, seen, stage, threw, closed, cut, spared>>
  BY DEF Resume, hist
<1> HIDE DEF ph, t
<1>7. Startable(mem, n)
  BY <1>2, <1>3 DEF Startable, C, X
<1> QED BY <1>1, <1>2, <1>4, <1>5, <1>6, <1>7, VisitAround, BeginStep

LEMMA DeadStep ==
  ASSUME ChainsInv, NEW n \in Node, Dead(n)
  PROVE  ChainsInv'
<1> DEFINE k == C(n).tries.relaunch + 1
           f == [C(n).tries EXCEPT !.relaunch = k]
           c2 == [C(n) EXCEPT !.tries = f]
           m == [mem EXCEPT !.chain[n] = c2]
           t == [Rest EXCEPT !.err = "tick", !.then = "relaunch", !.n = k]
<1>1. /\ Acts(n) /\ task[n].at \in {"rest", "again"} /\ todo' = todo \ {n} /\ Finds(n) = "dead"
  BY LookingActs DEF Dead
<1>2. ~Pending(n) /\ C(n).phase # "none" /\ ~C(n).held /\ C(n).handle # 0
  BY <1>1, FindsMeans DEF Has
<1>3. X(n) = NoEx /\ C(n) \in ChainTypes /\ mem \in Mems
  BY <1>2, NotPending, FreshName
<1>4. C(n).tries \in [DOMAIN NoTries -> Nat] /\ "relaunch" \in DOMAIN NoTries /\ C(n).phase \in Phase
  BY <1>2, <1>3, ChainFields, TriesDomain
<1>5. f \in [DOMAIN NoTries -> Nat] /\ k \in Nat
  BY <1>4, TriesFacts
<1>6. WithC(mem, n, [C(n) EXCEPT !.tries.relaunch = k]) = m
  BY <1>3, <1>4 DEF WithC, ChainTypes
<1>7. /\ t \in Tasks /\ t.src = "none" /\ t.then = "relaunch"
  BY <1>5 DEF Rest, Tasks, Labels, Causes, Thens, Sources
<1>8. /\ IF k > Relaunches THEN Raising(m, n, "parent", FALSE) /\ Go(n, Rest)
         ELSE Begin(m, n, t, C(n).phase) /\ UNCHANGED <<file, raised>>
      /\ UNCHANGED <<worker, seen, stage, threw, closed, cut, spared>>
  BY <1>6 DEF Dead
<1> HIDE DEF f, k, t
<1>9. Alike(c2, C(n)) /\ c2.cursor = C(n).cursor
  BY <1>3, <1>5 DEF Alike, ChainTypes
<1> HIDE DEF c2
<1>10. /\ Apart(m, mem, n) /\ m.count = mem.count /\ m.chain[n] = c2 /\ m.ex[n] = X(n)
  BY <1>3, <1>9 DEF Apart, Mems, Alike, X
<1> HIDE DEF m
<1>11. Startable(m, n)
  BY <1>2, <1>3, <1>9, <1>10 DEF Startable, Near, Alike
<1>12. Around' /\ Calm(n) /\ (\A h \in Handle : Tame(h)) /\ seen' = seen /\ stage' = stage /\ cut \subseteq cut'
  BY <1>1, <1>8, VisitAround
<1>13. CASE k > Relaunches
  BY <1>1, <1>8, <1>11, <1>12, <1>13, RaisingStep DEF Startable
<1>14. CASE ~(k > Relaunches)
  BY <1>1, <1>4, <1>7, <1>8, <1>11, <1>12, <1>14, BeginStep
<1> QED BY <1>13, <1>14

LEMMA StallStep ==
  ASSUME ChainsInv, NEW n \in Node, Stall(n)
  PROVE  ChainsInv'
<1>1. /\ Acts(n) /\ todo' = todo \ {n} /\ Finds(n) \in {"waiting", "dead"}
  BY LookingActs DEF Stall
<1>2. C(n).phase # "none" /\ Near(mem, n)
  BY <1>1, FindsMeans, NearMem DEF Has
<1>3. Raising(mem, n, "parent", FALSE) /\ Go(n, Rest)
      /\ UNCHANGED <<worker, seen, stage, threw, closed, cut, spared>>
  BY DEF Stall
<1>4. Around' /\ Calm(n) /\ seen' = seen /\ stage' = stage /\ cut \subseteq cut'
  BY <1>1, <1>3, VisitAround
<1> QED BY <1>1, <1>2, <1>3, <1>4, RaisingStep DEF C

LEMMA NudgeStep ==
  ASSUME ChainsInv, NEW n \in Node, Nudge(n)
  PROVE  ChainsInv'
<1> DEFINE t == [Rest EXCEPT !.at = "tell", !.err = "tick"]
<1>1. /\ Acts(n) /\ todo' = todo \ {n} /\ Finds(n) = "waiting"
  BY LookingActs DEF Nudge
<1>2. ~Pending(n) /\ C(n).phase # "none" /\ ~C(n).held /\ C(n).waiting /\ C(n).handle # 0
  BY <1>1, FindsMeans DEF Has
<1>3. Near(mem, n) /\ Paired(C(n), X(n)) /\ TypeInv
  BY NearMem DEF ChainsInv, NodeInv
<1>4. /\ t \in Tasks /\ t.at = "tell" /\ t.err = "tick" /\ t.src = "none" /\ t.then = "none"
  BY DEF Rest, Tasks, Labels, Causes, Thens, Sources
<1>5. /\ mem' = mem /\ disk' = mem /\ Go(n, t) /\ file' = file /\ raised' = raised
      /\ UNCHANGED <<worker, seen, stage, threw, closed, cut, spared>>
  BY DEF Nudge, hist, Save
<1> HIDE DEF t
<1>6. task'[n] = t
  BY <1>3, <1>5 DEF Go, TypeInv
<1>7. Minded(n)'
  BY <1>2, <1>4, <1>5, <1>6 DEF Minded, Untold, Known, C
<1>8. Where(n)'
  BY <1>2, <1>4, <1>5, <1>6 DEF Where, Untold, Has, C
<1>9. Around' /\ Calm(n) /\ seen' = seen /\ stage' = stage /\ cut \subseteq cut'
  BY <1>1, <1>5, VisitAround
<1>10. Near(mem', n) /\ mem'.ex[n].id \in {0, X(n).id} /\ Paired(mem'.chain[n], mem'.ex[n])
  BY <1>3, <1>5 DEF X, C
<1> QED BY <1>1, <1>4, <1>5, <1>7, <1>8, <1>9, <1>10, SettledStep

(* A handler that is retired is gone, or is left to itself.                 *)
LEMMA RetireFacts ==
  ASSUME ChainsInv, NEW n \in Node, Retire(X(n).handler)
  PROVE  /\ \A h \in Handle : Tame(h)
         /\ Calm(n) /\ worker' \in [Handle -> Threads] /\ spared' \subseteq Handle
<1> DEFINE r == X(n).handler
<1>1. /\ worker \in [Handle -> Threads] /\ spared \subseteq Handle /\ r \in Nat
      /\ r # 0 => r \in Handle
  <2>1. Handles(X(n)) /\ X(n) \in ExTypes
    BY FreshName DEF ChainsInv, NodeInv, Crewed
  <2> QED BY <2>1, ExFields DEF Handles, ChainsInv, TypeInv, Around
<1>2. CASE worker' = worker
  BY <1>1, <1>2 DEF Tame, Calm, Retire
<1>3. CASE r # 0 /\ worker' = [worker EXCEPT ![r].st = "gone"] /\ spared' = spared
  <2>1. worker' \in [Handle -> Threads]
    BY <1>1, <1>3 DEF Threads
  <2>2. \A h \in Handle : Tame(h)
    BY <1>1, <1>3 DEF Tame, Threads
  <2> QED BY <1>1, <1>3, <2>1, <2>2 DEF Calm
<1> QED BY <1>2, <1>3 DEF Retire

(* An exception ends and its chain goes on: the worker has news, or works.   *)
LEMMA EndedStep ==
  ASSUME ChainsInv, NEW n \in Node, Acts(n), Pending(n),
         Save(Unheld([mem EXCEPT !.ex[n] = NoEx], n)), file' = [file EXCEPT ![n] = NoFile],
         NEW t \in Tasks, Go(n, t), t.at \in {"rest", "again"}, t.src = "none", t.then = "none",
         \A h \in Handle : Tame(h), Calm(n), Around',
         seen' = seen, stage' = stage, cut' = cut, raised' = raised,
         (C(n).handle # 0 /\ worker'[C(n).handle].st = "idle"
            /\ worker'[C(n).handle].turn <= C(n).cursor) => C(n).launching # 0
  PROVE  ChainsInv'
<1> DEFINE q == [mem EXCEPT !.ex[n] = NoEx]
<1>1. Near(mem, n) /\ TypeInv /\ Paired(C(n), X(n))
  BY NearMem DEF ChainsInv, NodeInv
<1>2. q \in Mems /\ Apart(q, mem, n) /\ q.ex[n] = NoEx /\ q.chain = mem.chain /\ q.count = mem.count
  BY <1>1, BlankFacts DEF TypeInv, Apart, Mems
<1>u. mem' = Unheld(q, n) /\ disk' = mem'
  BY DEF Save
<1> HIDE DEF q
<1>3. /\ mem' = Unheld(q, n) /\ disk' = mem' /\ Apart(mem', q, n) /\ mem'.ex[n] = NoEx
      /\ mem'.count = mem.count /\ mem'.chain[n] \in ChainTypes
      /\ mem'.chain[n].handle = C(n).handle /\ mem'.chain[n].launching = C(n).launching
      /\ mem'.chain[n].phase = C(n).phase /\ mem'.chain[n].cursor = C(n).cursor
      /\ mem'.chain[n].held = FALSE
  <2> DEFINE r == Unheld(q, n)
  <2>1. /\ Apart(r, q, n) /\ r.ex[n] = q.ex[n] /\ r.count = q.count
        /\ r.chain[n] \in ChainTypes
        /\ r.chain[n].handle = q.chain[n].handle /\ r.chain[n].launching = q.chain[n].launching
        /\ r.chain[n].phase = q.chain[n].phase /\ r.chain[n].cursor = q.chain[n].cursor
        /\ r.chain[n].held = FALSE
    BY <1>2, UnheldFacts
  <2>2. mem' = r /\ disk' = r
    BY <1>u
  <2> HIDE DEF r
  <2>3. q.chain[n] = C(n)
    BY <1>2 DEF C
  <2>4. /\ mem'.chain[n].handle = C(n).handle /\ mem'.chain[n].launching = C(n).launching
        /\ mem'.chain[n].phase = C(n).phase /\ mem'.chain[n].cursor = C(n).cursor
    BY <2>1, <2>2, <2>3
  <2>5. /\ mem' = Unheld(q, n) /\ disk' = mem' /\ Apart(mem', q, n) /\ mem'.ex[n] = NoEx
        /\ mem'.count = mem.count /\ mem'.chain[n] \in ChainTypes /\ mem'.chain[n].held = FALSE
    BY <1>2, <1>u, <2>1, <2>2
  <2> QED BY <2>4, <2>5
<1>4. Near(mem', n)
  BY <1>1, <1>2, <1>3, BlankFacts DEF Near, Apart, C
<1>5. /\ task'[n] = t /\ file'[n] = NoFile /\ task' \in [Node -> Tasks] /\ file' \in [Node -> Files]
      /\ \A k \in Node \ {n} : task'[k] = task[k] /\ file'[k] = file[k]
  BY <1>1, NoFileFacts DEF Go, TypeInv
<1>6. TypeInv'
  BY <1>1, <1>3, <1>5 DEF TypeInv, Apart
<1>7. Paired(C(n), X(n))' /\ Paired(disk.chain[n], disk.ex[n])'
  BY <1>1, <1>3, BlankFacts DEF Paired, C, X
<1>8. Minded(n)'
  <2>1. Cared(C(n))'
    BY <1>3 DEF Cared, C
  <2> QED BY <1>3, <1>5, <2>1 DEF Minded, Known, Cared, C
<1>9. About(n)'
  BY <1>3, <1>5, BlankFacts DEF About, X
<1>10. Where(n)'
  BY <1>5 DEF Where, Untold
<1> QED BY <1>3, <1>4, <1>5, <1>6, <1>7, <1>8, <1>9, <1>10, NearKeeps

(* A worker with news is not forgotten.                                     *)
LEMMA NewsCares ==
  ASSUME ChainsInv, NEW n \in Node, Pending(n), C(n).handle # 0,
         seen[C(n).handle].turn > X(n).cursor, \A h \in Handle : Tame(h)
  PROVE  ~(worker'[C(n).handle].turn <= C(n).cursor)
<1>1. C(n).handle \in Handle /\ seen[C(n).handle].turn > C(n).cursor
  BY NearHandle DEF ChainsInv, NodeInv, Paired, Pending
<1> QED BY <1>1, WorkerTypes, FreshName DEF ChainsInv, Polled, Tame

LEMMA WithdrawnStep ==
  ASSUME ChainsInv, NEW n \in Node, Withdrawn(n)
  PROVE  ChainsInv'
<1> DEFINE t == At(Rest, "again")
<1>1. /\ task[n].at = "withdraw" /\ Retire(X(n).handler)
      /\ Save(Unheld([mem EXCEPT !.ex[n] = NoEx], n))
      /\ file' = [file EXCEPT ![n] = NoFile] /\ Go(n, t)
      /\ UNCHANGED <<seen, stage, todo, threw, closed, cut, raised>>
  BY DEF Withdrawn, Going
<1>2. Acts(n) /\ TypeInv /\ Where(n)
  BY <1>1, WhoActs DEF ChainsInv, NodeInv
<1>3. /\ t \in Tasks /\ t.at = "again" /\ t.src = "none" /\ t.then = "none"
  BY DEF At, Rest, Tasks, Labels, Causes, Thens, Sources
<1> HIDE DEF t
<1>4. (\A h \in Handle : Tame(h)) /\ Calm(n) /\ worker' \in [Handle -> Threads] /\ spared' \subseteq Handle
  BY <1>1, RetireFacts
<1>5. Around'
  BY <1>1, <1>2, <1>4 DEF TypeInv, Around
<1>6. C(n).handle # 0 /\ seen[C(n).handle].turn > X(n).cursor /\ Pending(n)
  BY <1>1, <1>2 DEF Where
<1>7. ~(worker'[C(n).handle].turn <= C(n).cursor)
  BY <1>4, <1>6, NewsCares
<1> QED BY <1>1, <1>2, <1>3, <1>4, <1>5, <1>6, <1>7, EndedStep

----------------------------------------------------------------------------
(* The reports.                                                             *)

LEMMA ReportedFacts ==
  ASSUME ChainsInv, NEW n \in Node, NEW kinds, Reported(n, kinds)
  PROVE  /\ Acts(n) /\ task[n].at \in {"rest", "again"}
         /\ C(n).handle \in Handle /\ C(n).launching = 0 /\ C(n).phase \in Phase /\ ~C(n).held
         /\ X(n) = NoEx /\ seen[C(n).handle].rep \in kinds
         /\ Around' /\ Calm(n) /\ (\A h \in Handle : Tame(h))
         /\ seen' = seen /\ stage' = stage /\ cut \subseteq cut'
<1>1. /\ Acts(n) /\ task[n].at \in {"rest", "again"} /\ todo' = todo \ {n} /\ Finds(n) = "report"
  BY LookingActs DEF Reported
<1>2. ~Pending(n) /\ C(n).phase # "none" /\ ~C(n).held /\ C(n).handle # 0 /\ C(n).launching = 0
  BY <1>1, FindsMeans DEF Has
<1>3. C(n).phase \in Phase /\ C(n).handle \in Handle
  BY <1>2, FreshName, ChainFields, NearHandle
<1>4. /\ seen[C(n).handle].rep \in kinds
      /\ UNCHANGED <<worker, seen, stage, threw, closed, cut, spared>>
  BY DEF Reported
<1> QED BY <1>1, <1>2, <1>3, <1>4, NotPending, VisitAround

(* What Taken and Tried make of the chain.                                  *)
Took(m, n) ==
  /\ Apart(m, mem, n) /\ Alike(m.chain[n], C(n)) /\ m.ex[n] = X(n) /\ m.count = mem.count
  /\ m.chain[n].cursor = seen[C(n).handle].turn

LEMMA TookStartable ==
  ASSUME NEW n \in Node, NEW m, Took(m, n), C(n).phase \in Phase, ~C(n).held, X(n) = NoEx,
         C(n).handle \in Handle
  PROVE  /\ Startable(m, n) /\ Near(m, n) /\ m.chain[n].phase # "none"
         /\ m.chain[n].phase = C(n).phase
BY DEF Took, Alike, Startable, Near, Phase, Handle

(* The worker is told before the cursor is saved, or after.                 *)
LEMMA TellingStep ==
  ASSUME ChainsInv, NEW n \in Node, Acts(n), task[n].at \in {"rest", "again"},
         C(n).handle \in Handle, C(n).launching = 0, C(n).phase \in Phase, ~C(n).held, X(n) = NoEx,
         NEW m, Took(m, n), Keep(m) \/ Save(m), Go(n, Telling), file' = file, raised' = raised,
         Around', Calm(n), \A h \in Handle : Tame(h),
         seen' = seen, stage' = stage, cut \subseteq cut'
  PROVE  ChainsInv'
<1>1. /\ Telling \in Tasks /\ Telling.at = "tell" /\ Telling.err = "report"
      /\ Telling.src = "none" /\ Telling.then = "save"
  BY DEF Telling, Acting, Rest, Tasks, Labels, Causes, Thens, Sources
<1>2. Near(m, n) /\ Paired(C(n), X(n)) /\ m.chain[n].phase # "none" /\ TypeInv
  BY TookStartable DEF ChainsInv, NodeInv
<1>3. mem' = m /\ disk' \in {disk, m}
  BY DEF Keep, Save
<1>4. task'[n] = Telling
  BY <1>2 DEF Go, TypeInv
<1>5. Paired(mem'.chain[n], mem'.ex[n]) /\ mem'.ex[n].id \in {0, X(n).id}
  BY <1>2, <1>3, BlankFacts DEF Paired, Near, Took, Alike
<1>6. Minded(n)'
  <2>1. Minded(n) /\ disk.chain[n].handle = C(n).handle
    BY DEF ChainsInv, NodeInv, Named
  <2>2. Cared(disk.chain[n]) \/ Excused(n)
    BY <2>1 DEF Minded, Untold
  <2>3. Cared(disk.chain[n]) /\ disk' = disk => Cared(disk.chain[n])'
    BY <2>1 DEF Cared, Tame
  <2>4. Excused(n) => Excused(n)'
    BY DEF Excused, Steered
  <2>5. Known(disk.chain[n], disk.ex[n]) \/ Excused(n)
    BY <2>1 DEF Minded
  <2>6. ~mem'.chain[n].held
    BY <1>3 DEF Took, Alike
  <2>7. CASE disk' = disk
    BY <1>1, <1>4, <2>2, <2>3, <2>4, <2>5, <2>6, <2>7 DEF Minded, Known, Untold, C
  <2>8. CASE disk' = mem'
    BY <1>1, <1>4, <2>6, <2>8 DEF Minded, Known, Untold, C
  <2> QED BY <1>3, <2>7, <2>8
<1>7. Where(n)'
  BY <1>1, <1>2, <1>3, <1>4 DEF Where, Untold, Has, C, Took, Alike, Handle
<1>8. mem'.chain[n].phase = "none" <=> C(n).phase = "none"
  BY <1>2, <1>3 DEF Phase
<1> QED BY <1>1, <1>2, <1>3, <1>5, <1>6, <1>7, <1>8, SettledStep

LEMMA OnTroubleStep ==
  ASSUME ChainsInv, NEW n \in Node, OnTrouble(n)
  PROVE  ChainsInv'
<1> DEFINE m == IF seen[C(n).handle].rep = "bad" THEN Tried(n, "repair") ELSE Taken(n)
<1>1. Reported(n, {"bad", "limit", "blocked"}) /\ TypeInv
  BY DEF OnTrouble, ChainsInv
<1>2. /\ Acts(n) /\ task[n].at \in {"rest", "again"}
      /\ C(n).handle \in Handle /\ C(n).launching = 0 /\ C(n).phase \in Phase /\ ~C(n).held
      /\ X(n) = NoEx /\ Around' /\ Calm(n) /\ (\A h \in Handle : Tame(h))
      /\ seen' = seen /\ stage' = stage /\ cut \subseteq cut'
  BY <1>1, ReportedFacts
<1>3. Took(m, n)
  BY <1>1, <1>2, TakenFacts, TriedFacts, TriesDomain DEF Took
<1>4. \/ Raising(m, n, "parent", FALSE) /\ Go(n, Rest)
      \/ Keep(m) /\ Go(n, Telling) /\ file' = file /\ raised' = raised
  BY DEF OnTrouble, Escalates
<1> HIDE DEF m
<1>5. Near(m, n) /\ m.chain[n].phase # "none"
  BY <1>2, <1>3, TookStartable
<1>6. CASE Raising(m, n, "parent", FALSE) /\ Go(n, Rest)
  BY <1>2, <1>5, <1>6, RaisingStep
<1>7. CASE Keep(m) /\ Go(n, Telling) /\ file' = file /\ raised' = raised
  BY <1>2, <1>3, <1>7, TellingStep
<1> QED BY <1>4, <1>6, <1>7

LEMMA OnCheckpointStep ==
  ASSUME ChainsInv, NEW n \in Node, OnCheckpoint(n)
  PROVE  ChainsInv'
<1> DEFINE m == Tried(n, "checkpoint")
           k == m.chain[n].tries.checkpoint
           t == [Acting EXCEPT !.then = "checkpoint", !.n = k]
<1>1. Reported(n, {"checkpoint"}) /\ TypeInv
  BY DEF OnCheckpoint, ChainsInv
<1>2. /\ Acts(n) /\ task[n].at \in {"rest", "again"}
      /\ C(n).handle \in Handle /\ C(n).launching = 0 /\ C(n).phase \in Phase /\ ~C(n).held
      /\ X(n) = NoEx /\ Around' /\ Calm(n) /\ (\A h \in Handle : Tame(h))
      /\ seen' = seen /\ stage' = stage /\ cut \subseteq cut'
  BY <1>1, ReportedFacts
<1>3. Took(m, n) /\ k \in Nat
  BY <1>1, <1>2, TriedFacts, TriesDomain DEF Took
<1>4. \/ Raising(m, n, "parent", FALSE) /\ Go(n, Rest)
      \/ Begin(m, n, t, m.chain[n].phase) /\ file' = file /\ raised' = raised
      \/ Keep(m) /\ Go(n, Telling) /\ file' = file /\ raised' = raised
  BY DEF OnCheckpoint, Escalates
<1> HIDE DEF m, k
<1>5. Startable(m, n) /\ Near(m, n) /\ m.chain[n].phase \in Phase /\ m.chain[n].phase # "none"
  BY <1>2, <1>3, TookStartable
<1>6. /\ t \in Tasks /\ t.src = "none" /\ t.then = "checkpoint" /\ t.err = "report"
  BY <1>3 DEF Acting, Rest, Tasks, Labels, Causes, Thens, Sources
<1> HIDE DEF t
<1>7. CASE Raising(m, n, "parent", FALSE) /\ Go(n, Rest)
  BY <1>2, <1>5, <1>7, RaisingStep
<1>8. CASE Begin(m, n, t, m.chain[n].phase) /\ file' = file /\ raised' = raised
  BY <1>2, <1>5, <1>6, <1>8, BeginStep
<1>9. CASE Keep(m) /\ Go(n, Telling) /\ file' = file /\ raised' = raised
  BY <1>2, <1>3, <1>9, TellingStep
<1> QED BY <1>4, <1>7, <1>8, <1>9

LEMMA ActingFacts ==
  /\ Acting \in Tasks /\ Acting.src = "none" /\ Acting.then = "none" /\ Acting.err = "report"
BY DEF Acting, Rest, Tasks, Labels, Causes, Thens, Sources

LEMMA OnErrorStep ==
  ASSUME ChainsInv, NEW n \in Node, OnError(n)
  PROVE  ChainsInv'
<1> DEFINE m == Tried(n, "provider")
           q == Taken(n)
<1>1. Reported(n, {"error", "quota"}) /\ TypeInv
  BY DEF OnError, ChainsInv
<1>2. /\ Acts(n) /\ task[n].at \in {"rest", "again"}
      /\ C(n).handle \in Handle /\ C(n).launching = 0 /\ C(n).phase \in Phase /\ ~C(n).held
      /\ X(n) = NoEx /\ Around' /\ Calm(n) /\ (\A h \in Handle : Tame(h))
      /\ seen' = seen /\ stage' = stage /\ cut \subseteq cut'
  BY <1>1, ReportedFacts
<1>3. Took(m, n) /\ Took(q, n)
  BY <1>1, <1>2, TriedFacts, TakenFacts, TriesDomain DEF Took
<1>4. \/ Raising(q, n, "owner", TRUE) /\ Go(n, Rest)
      \/ Begin(m, n, Acting, m.chain[n].phase) /\ file' = file /\ raised' = raised
      \/ Save(m) /\ Go(n, Telling) /\ file' = file /\ raised' = raised
  BY DEF OnError, Escalates
<1> HIDE DEF m, q
<1>5. /\ Startable(m, n) /\ m.chain[n].phase \in Phase
      /\ Near(q, n) /\ q.chain[n].phase # "none"
  BY <1>2, <1>3, TookStartable
<1>6. CASE Raising(q, n, "owner", TRUE) /\ Go(n, Rest)
  BY <1>2, <1>5, <1>6, RaisingStep
<1>7. CASE Begin(m, n, Acting, m.chain[n].phase) /\ file' = file /\ raised' = raised
  BY <1>2, <1>5, <1>7, ActingFacts, BeginStep
<1>8. CASE Save(m) /\ Go(n, Telling) /\ file' = file /\ raised' = raised
  BY <1>2, <1>3, <1>8, TellingStep
<1> QED BY <1>4, <1>6, <1>7, <1>8

LEMMA OnWaitingStep ==
  ASSUME ChainsInv, NEW n \in Node, OnWaiting(n)
  PROVE  ChainsInv'
<1> DEFINE q == Taken(n)
           c2 == [q.chain[n] EXCEPT !.waiting = TRUE]
           m == [q EXCEPT !.chain[n] = c2]
<1>1. Reported(n, {"waiting"}) /\ TypeInv
  BY DEF OnWaiting, ChainsInv
<1>2. /\ Acts(n)
      /\ C(n).handle \in Handle /\ C(n).launching = 0 /\ C(n).phase \in Phase /\ ~C(n).held
      /\ X(n) = NoEx /\ Around' /\ Calm(n) /\ seen' = seen /\ stage' = stage /\ cut \subseteq cut'
  BY <1>1, ReportedFacts
<1>3. Took(q, n) /\ q \in Mems /\ q.chain[n] \in ChainTypes
  BY <1>1, <1>2, TakenFacts, MemFields DEF Took, Apart
<1>4. Save([q EXCEPT !.chain[n].waiting = TRUE]) /\ Go(n, Rest) /\ file' = file /\ raised' = raised
  BY DEF OnWaiting
<1> HIDE DEF q
<1>5. [q EXCEPT !.chain[n].waiting = TRUE] = m
  BY <1>3 DEF Mems
<1>6. Alike(c2, q.chain[n]) /\ c2.cursor = q.chain[n].cursor /\ c2.waiting
  BY <1>3 DEF Alike, ChainTypes
<1> HIDE DEF c2
<1>7. Apart(m, q, n) /\ m.chain[n] = c2 /\ m.ex[n] = q.ex[n] /\ m.count = q.count
  BY <1>3, <1>6 DEF Apart, Mems, Alike
<1> HIDE DEF m
<1>8. Took(m, n) /\ m.chain[n].waiting /\ mem' = m /\ disk' = mem' /\ ~m.chain[n].held
  BY <1>2, <1>3, <1>4, <1>5, <1>6, <1>7 DEF Took, Apart, Alike, Save
<1>9. Near(m, n) /\ m.chain[n].phase # "none" /\ task'[n] = Rest
  BY <1>1, <1>2, <1>4, <1>8, TookStartable DEF Go, TypeInv
<1>10. Paired(mem'.chain[n], mem'.ex[n]) /\ mem'.ex[n].id \in {0, X(n).id}
  BY <1>2, <1>8, <1>9, BlankFacts DEF Paired, Near, Took
<1>11. Minded(n)'
  BY <1>8, <1>9, RestFacts DEF Minded, Cared, Known, C
<1>12. Where(n)'
  BY <1>9, RestFacts DEF Where, Untold
<1> QED BY <1>2, <1>4, <1>8, <1>9, <1>10, <1>11, <1>12, RestFacts, SettledStep

LEMMA OnDoneStep ==
  ASSUME ChainsInv, NEW n \in Node, OnDone(n)
  PROVE  ChainsInv'
<1> DEFINE q == Taken(n)
           ph == IF q.chain[n].phase = "implement" /\ n \in Driven THEN "drive" ELSE "review"
           c2 == [q.chain[n] EXCEPT !.phase = "integrate"]
           m == [q EXCEPT !.chain[n] = c2]
           t == At(Acting, "land")
<1>1. Reported(n, {"done"}) /\ TypeInv
  BY DEF OnDone, ChainsInv
<1>2. /\ Acts(n) /\ task[n].at \in {"rest", "again"}
      /\ C(n).handle \in Handle /\ C(n).launching = 0 /\ C(n).phase \in Phase /\ ~C(n).held
      /\ X(n) = NoEx /\ Around' /\ Calm(n) /\ (\A h \in Handle : Tame(h))
      /\ seen' = seen /\ stage' = stage /\ cut \subseteq cut'
  BY <1>1, ReportedFacts
<1>3. Took(q, n) /\ q \in Mems /\ q.chain[n] \in ChainTypes
  BY <1>1, <1>2, TakenFacts, MemFields DEF Took, Apart
<1>4. /\ \/ Save([q EXCEPT !.chain[n].phase = "integrate"]) /\ Go(n, t)
         \/ Begin(q, n, Acting, ph)
      /\ file' = file /\ raised' = raised
  BY DEF OnDone
<1>5. ph \in Phase
  BY DEF Phase
<1> HIDE DEF q, ph
<1>6. [q EXCEPT !.chain[n].phase = "integrate"] = m
  BY <1>3 DEF Mems
<1>7. /\ c2 \in ChainTypes /\ c2.handle = C(n).handle /\ c2.launching = 0 /\ c2.phase = "integrate"
      /\ ~c2.held /\ c2.cursor = seen[C(n).handle].turn
  BY <1>2, <1>3 DEF Took, Alike, ChainTypes, Phase
<1> HIDE DEF c2
<1>8. Apart(m, mem, n) /\ m.chain[n] = c2 /\ m.ex[n] = NoEx /\ m.count = mem.count
  BY <1>2, <1>3, <1>7 DEF Apart, Mems, Took
<1>9. /\ t \in Tasks /\ t.at = "land" /\ t.src = "none" /\ t.then = "none"
  BY DEF At, Acting, Rest, Tasks, Labels, Causes, Thens, Sources
<1> HIDE DEF m, t
<1>10. CASE Save(m) /\ Go(n, t)
  <2>1. Near(m, n) /\ mem' = m /\ disk' = mem' /\ task'[n] = t
    BY <1>1, <1>2, <1>7, <1>8, <1>10, BlankFacts DEF Near, Save, Go, TypeInv, Handle
  <2>2. Paired(mem'.chain[n], mem'.ex[n]) /\ mem'.ex[n].id \in {0, X(n).id}
    BY <1>7, <1>8, <2>1, BlankFacts DEF Paired, Near
  <2>3. Minded(n)'
    BY <1>7, <1>8, <1>9, <2>1 DEF Minded, Cared, Known, C
  <2>4. Where(n)'
    BY <1>7, <1>8, <1>9, <2>1 DEF Where, Untold, Has, C
  <2> QED BY <1>2, <1>4, <1>9, <1>10, <2>1, <2>2, <2>3, <2>4, SettledStep
<1>11. CASE Begin(q, n, Acting, ph)
  <2>1. Startable(q, n)
    BY <1>2, <1>3, TookStartable
  <2> QED BY <1>2, <1>4, <1>5, <1>11, <2>1, ActingFacts, BeginStep
<1> QED BY <1>4, <1>6, <1>10, <1>11

----------------------------------------------------------------------------
(* The launch.                                                              *)

(* A stage of visits, and what the step under way may be in it.             *)
LEMMA StageFacts ==
  ASSUME ChainsInv, NEW n \in Node
  PROVE  /\ TypeInv /\ task[n] \in Tasks /\ Where(n) /\ NodeInv(n)
         /\ stage = "visit" => task[n].src = "none" /\ task[n].then # "answer"
BY DEF ChainsInv, NodeInv, TypeInv, Staged

LEMMA AtFacts ==
  ASSUME NEW t \in Tasks, NEW a \in Labels
  PROVE  /\ At(t, a) \in Tasks /\ At(t, a).at = a /\ At(t, a).err = t.err /\ At(t, a).phase = t.phase
         /\ At(t, a).then = t.then /\ At(t, a).n = t.n /\ At(t, a).src = t.src
BY DEF At, Tasks

LEMMA StopStep ==
  ASSUME ChainsInv, NEW n \in Node, Stop(n)
  PROVE  ChainsInv'
<1> DEFINE t == At(task[n], "find")
<1>1. /\ task[n].at = "stop" /\ seen' = seen /\ stage' = stage /\ todo' = todo /\ closed' = closed
      /\ spared' = spared
  BY DEF Stop, Going
<1>2. /\ Acts(n) /\ Near(mem, n) /\ TypeInv /\ task[n] \in Tasks /\ Where(n) /\ NodeInv(n)
      /\ stage = "visit" => task[n].src = "none" /\ task[n].then # "answer"
  BY <1>1, WhoActs, NearMem, StageFacts
<1>3. /\ C(n).phase # "none" /\ ~C(n).held /\ C(n).handle # 0 /\ task[n].phase # "none"
      /\ C(n).handle \in Handle /\ task[n].phase \in Phase
  BY <1>1, <1>2, NearHandle DEF Where, Has, Tasks
<1>4. Startable(mem, n)
  BY <1>2, <1>3 DEF Startable, NodeInv, Paired, C, X
<1>5. ASSUME Nameable(mem, n), Save(Intent(mem, n, task[n].phase)), Go(n, t),
             worker' = IF worker[C(n).handle].st = "working"
                       THEN [worker EXCEPT ![C(n).handle].st = "idle"] ELSE worker,
             UNCHANGED <<file, raised, threw, cut, counts>>
      PROVE  ChainsInv'
  <2>1. worker' \in [Handle -> Threads] /\ \A h \in Handle : Tame(h) \/ Idled(n, h)
    BY <1>2, <1>3, <1>5 DEF TypeInv, Around, Threads, Tame, Idled
  <2>2. Around'
    BY <1>1, <1>2, <1>5, <2>1 DEF TypeInv, Around
  <2>3. /\ t \in Tasks /\ t.at = "find" /\ t.phase = task[n].phase /\ t.src = task[n].src
        /\ t.then = task[n].then
    BY <1>2, AtFacts DEF Labels
  <2> HIDE DEF t
  <2>4. t.src = "file" => Steered(n)
    BY <1>2, <2>3 DEF Where
  <2> QED BY <1>1, <1>2, <1>3, <1>4, <1>5, <2>1, <2>2, <2>3, <2>4, IntentStep
<1>6. ASSUME task[n].then = "relaunch", Raising(mem, n, "parent", FALSE), Go(n, Rest),
             UNCHANGED <<worker, threw, cut>>
      PROVE  ChainsInv'
  <2>1. Around' /\ Calm(n) /\ cut \subseteq cut'
    BY <1>1, <1>2, <1>6, SameWorkers DEF TypeInv, Around
  <2> QED BY <1>1, <1>2, <1>3, <1>6, <2>1, RaisingStep DEF C
<1>7. ASSUME task[n].then # "relaunch", Throw(mem, n), worker' = worker
      PROVE  ChainsInv'
  <2>1. worker' \in [Handle -> Threads] /\ Calm(n)
    BY <1>2, <1>7, SameWorkers DEF TypeInv, Around
  <2> QED BY <1>1, <1>7, <2>1, ThrowStep
<1> QED BY <1>5, <1>6, <1>7 DEF Stop

(* The launched worker is made, or starts.                                  *)
LEMMA LaunchedStep ==
  ASSUME ChainsInv, NEW n \in Node, task[n].at \in {"find", "spawn"},
         NEW v \in Threads, worker' = [worker EXCEPT ![C(n).launching] = v],
         worker[C(n).launching].turn = 0, v.turn = 0, v.role = "worker", v.st \in {"made", "working"},
         NEW a \in {"spawn", "up"}, Go(n, At(task[n], a)),
         UNCHANGED <<mem, disk, seen, stage, todo, threw, file, closed, cut, spared, raised>>
  PROVE  ChainsInv'
<1> DEFINE h == C(n).launching
           t == At(task[n], a)
<1>1. /\ Acts(n) /\ Near(mem, n) /\ TypeInv /\ task[n] \in Tasks /\ Where(n) /\ NodeInv(n)
      /\ stage = "visit" => task[n].src = "none" /\ task[n].then # "answer"
  BY WhoActs, NearMem, StageFacts
<1>2. h # 0 /\ h \in Handle /\ Has(n) /\ ~C(n).held /\ task[n].phase # "none" /\ h <= mem.count
  BY <1>1, NearHandle, FreshName DEF Where
<1>3. /\ t \in Tasks /\ t.at = a /\ t.phase = task[n].phase /\ t.src = task[n].src
      /\ t.then = task[n].then
  BY <1>1, AtFacts DEF Labels
<1>g. Go(n, t)
  OBVIOUS
<1> HIDE DEF t
<1>4. /\ task'[n] = t /\ task' \in [Node -> Tasks] /\ \A k \in Node \ {n} : task'[k] = task[k]
  BY <1>1, <1>3, <1>g DEF Go, TypeInv
<1>5. /\ worker'[h] = v /\ worker' \in [Handle -> Threads]
      /\ \A k \in Handle \ {h} : worker'[k] = worker[k] /\ Tame(k)
  BY <1>1, <1>2 DEF TypeInv, Around, Tame
<1>6. TypeInv'
  BY <1>1, <1>4, <1>5 DEF TypeInv, Around
<1>7. OnlyNode(n) /\ Renames(n) /\ Saves(n)
  BY <1>1, <1>4 DEF OnlyNode, Renames, Saves, Near, ChainsInv, Named, C
<1>8. Crew(n)
  <2> SUFFICES ASSUME NEW k \in Handle, ~Tame(k)
               PROVE  /\ Mine(n, k) /\ Polled(k)'
                      /\ worker[k].role = "handler" => worker'[k].role = "handler"
    BY DEF Crew
  <2>1. k = h
    BY <1>5
  <2>2. Polled(k) /\ worker[k].role \in {"none", "worker"}
    BY <1>1, <1>2, <2>1 DEF ChainsInv, NodeInv, Crewed
  <2>3. /\ seen[k].turn = 0 /\ worker'[k].turn = 0 /\ ~(k > mem'.count) /\ seen'[k] = seen[k]
        /\ worker'[k].st \in {"made", "working"} /\ worker'[k].role = "worker"
    BY <1>1, <1>2, <1>5, <2>1, <2>2, WorkerTypes, FreshName DEF Polled
  <2>4. Polled(k)'
    BY <2>3 DEF Polled
  <2>5. Mine(n, k)
    BY <1>2, <2>1 DEF Mine
  <2> QED BY <2>2, <2>4, <2>5
<1>9. Crewed(n)'
  <2>1. Crewed(n) /\ C(n).handle # h /\ worker[h].role # "handler"
    BY <1>1, <1>2 DEF NodeInv, Crewed, ChainsInv, Named
  <2>2. C(n).handle # 0 => C(n).handle \in Handle
    BY NearHandle
  <2>3. Handles(X(n))' /\ Handles(disk.ex[n])'
    BY <1>5, <2>1 DEF Crewed, Handles, X
  <2> QED BY <1>2, <1>5, <2>1, <2>2, <2>3 DEF Crewed, C
<1>10. Minded(n)'
  <2>1. C(n).handle # 0 => Tame(C(n).handle)
    BY <1>2, <1>5, NearHandle DEF ChainsInv, Named
  <2> QED BY <1>3, <1>4, <2>1, StaysMinded DEF C, X
<1>11. Where(n)'
  BY <1>1, <1>2, <1>3, <1>4, <1>5 DEF Where, Has, Untold, Steered, C
<1>12. NodeInv(n)'
  BY <1>1, <1>9, <1>10, <1>11 DEF NodeInv, About, C, X
<1> QED BY <1>1, <1>3, <1>4, <1>6, <1>7, <1>8, <1>12, StepKeeps

LEMMA FindStep ==
  ASSUME ChainsInv, NEW n \in Node, Find(n)
  PROVE  ChainsInv'
<1> DEFINE h == C(n).launching
           t == At(task[n], "up")
<1>1. /\ task[n].at = "find" /\ seen' = seen /\ stage' = stage /\ todo' = todo /\ closed' = closed
      /\ spared' = spared
  BY DEF Find, Going
<1>2. /\ Acts(n) /\ TypeInv /\ task[n] \in Tasks /\ Where(n) /\ NodeInv(n)
      /\ stage = "visit" => task[n].src = "none" /\ task[n].then # "answer"
  BY <1>1, WhoActs, StageFacts
<1>3. h # 0 /\ h \in Handle
  BY <1>1, <1>2, NearHandle DEF Where
<1>4. ASSUME Thread(h), Go(n, t), UNCHANGED <<mem, disk, worker, file, raised, threw, cut, counts>>
      PROVE  ChainsInv'
  <2>1. /\ t \in Tasks /\ t.at = "up" /\ t.phase = task[n].phase /\ t.src = task[n].src
        /\ t.then = task[n].then
    BY <1>2, AtFacts DEF Labels
  <2> HIDE DEF t
  <2>2. task'[n] = t
    BY <1>2, <1>4 DEF Go, TypeInv
  <2>3. worker[h].role = "worker"
    BY <1>2, <1>3, <1>4 DEF NodeInv, Crewed, Thread
  <2>4. Where(n)'
    BY <1>1, <1>2, <1>4, <2>1, <2>2, <2>3 DEF Where, Has, Untold, Steered, C
  <2>5. todo' \subseteq Node
    BY <1>1, <1>2 DEF TypeInv, Around
  <2> QED BY <1>1, <1>2, <1>4, <2>1, <2>4, <2>5, MoveStep DEF hist
<1>5. ASSUME worker[h].st = "none", Go(n, At(task[n], "spawn")),
             worker' = [worker EXCEPT ![h] = [Unborn EXCEPT !.st = "made", !.role = "worker"]],
             UNCHANGED <<mem, disk, file, raised, threw, cut, counts>>
      PROVE  ChainsInv'
  <2> DEFINE v == [Unborn EXCEPT !.st = "made", !.role = "worker"]
  <2>1. v \in Threads /\ v.turn = 0 /\ v.role = "worker" /\ v.st = "made"
    BY DEF Unborn, Threads
  <2>2. worker[h].turn = 0
    BY <1>3, <1>5 DEF ChainsInv, Polled
  <2>3. worker' = [worker EXCEPT ![h] = v]
    BY <1>5
  <2> HIDE DEF v
  <2> QED BY <1>1, <1>5, <2>1, <2>2, <2>3, LaunchedStep
<1>6. ASSUME Throw(mem, n), worker' = worker
      PROVE  ChainsInv'
  <2>1. worker' \in [Handle -> Threads] /\ Calm(n)
    BY <1>2, <1>6, SameWorkers DEF TypeInv, Around
  <2> QED BY <1>1, <1>6, <2>1, ThrowStep
<1> QED BY <1>4, <1>5, <1>6 DEF Find

LEMMA SpawnStep ==
  ASSUME ChainsInv, NEW n \in Node, Spawn(n)
  PROVE  ChainsInv'
<1> DEFINE h == C(n).launching
           next == mem.count + 1
<1>1. /\ task[n].at = "spawn" /\ seen' = seen /\ stage' = stage /\ todo' = todo /\ closed' = closed
      /\ spared' = spared
  BY DEF Spawn, Going
<1>2. /\ Acts(n) /\ TypeInv /\ task[n] \in Tasks /\ Where(n) /\ NodeInv(n) /\ Near(mem, n)
      /\ stage = "visit" => task[n].src = "none" /\ task[n].then # "answer"
  BY <1>1, WhoActs, StageFacts, NearMem
<1>3. /\ h # 0 /\ h \in Handle /\ worker[h].turn = 0 /\ worker[h].role = "worker"
      /\ ~C(n).held /\ Has(n) /\ h <= mem.count /\ worker[h] \in Threads
  BY <1>1, <1>2, NearHandle, FreshName, WorkerTypes DEF Where
<1>4. ASSUME worker' = [worker EXCEPT ![h].st = "working"], Go(n, At(task[n], "up")),
             UNCHANGED <<mem, disk, file, raised, threw, cut, counts>>
      PROVE  ChainsInv'
  <2> DEFINE v == [worker[h] EXCEPT !.st = "working"]
  <2>1. v \in Threads /\ v.turn = 0 /\ v.role = "worker" /\ v.st = "working"
    BY <1>3 DEF Threads
  <2>2. worker' = [worker EXCEPT ![h] = v]
    BY <1>2, <1>3, <1>4 DEF TypeInv, Around
  <2> HIDE DEF v
  <2> QED BY <1>1, <1>3, <1>4, <2>1, <2>2, LaunchedStep
<1>5. ASSUME NEW left \in {"none", "made"}, worker' = [worker EXCEPT ![h].st = left], Throw(mem, n)
      PROVE  ChainsInv'
  <2>1. worker' \in [Handle -> Threads]
    BY <1>2, <1>3, <1>5 DEF TypeInv, Around, Threads
  <2>2. \A k \in Handle \ {h} : Tame(k)
    BY <1>2, <1>3, <1>5 DEF TypeInv, Around, Tame
  <2>3. Undone(n, h)
    BY <1>2, <1>3, <1>5 DEF TypeInv, Around, Undone, Threads
  <2>4. Calm(n)
    BY <2>2, <2>3 DEF Calm
  <2> QED BY <1>1, <2>1, <2>4, <1>5, ThrowStep
<1>6. ASSUME next <= MaxHandle, worker' = [worker EXCEPT ![next] = worker[h]],
             Save([mem EXCEPT !.count = next, !.chain[n].launching = next]),
             UNCHANGED <<task, file, raised, threw, cut>>
      PROVE  ChainsInv'
  <2> DEFINE c2 == [C(n) EXCEPT !.launching = next]
             d == mem'.chain[n]
  <2>1. mem.count \in Nat /\ next \in Handle /\ next # h /\ C(n) \in ChainTypes /\ mem \in Mems
        /\ C(n).handle # next /\ C(n).handle <= mem.count /\ next \in Nat /\ next # 0
        /\ MaxHandle \in Nat
    BY <1>3, <1>6, FreshName, ChainAssumption DEF Handle, ChainAssumption
  <2>2. /\ c2 \in ChainTypes /\ c2.handle = C(n).handle /\ c2.launching = next /\ c2.held = C(n).held
        /\ c2.phase = C(n).phase /\ c2.cursor = C(n).cursor /\ c2.waiting = C(n).waiting
    BY <2>1 DEF ChainTypes
  <2>3. mem' = [mem EXCEPT !.count = next, !.chain[n] = c2] /\ disk' = mem'
    BY <1>6, <2>1 DEF Save, Mems, C
  <2> HIDE DEF c2
  <2>4. Apart(mem', mem, n) /\ d = c2 /\ mem'.ex[n] = X(n) /\ mem'.count = next
    BY <2>1, <2>2, <2>3 DEF Apart, Mems, X
  <2>5. /\ worker'[next] = worker[h] /\ worker' \in [Handle -> Threads]
        /\ \A k \in Handle \ {next} : worker'[k] = worker[k] /\ Tame(k)
    BY <1>2, <1>3, <2>1, <1>6 DEF TypeInv, Around, Tame
  <2>6. TypeInv'
    BY <1>1, <1>2, <1>6, <2>3, <2>4, <2>5 DEF TypeInv, Around, Apart
  <2>7. OnlyNode(n) /\ Renames(n) /\ Saves(n)
    BY <1>1, <1>2, <1>6, <2>1, <2>2, <2>3, <2>4 DEF OnlyNode, Renames, Saves
  <2>8. worker[h].st # "idle"
    BY <1>2, <1>3 DEF NodeInv, Crewed
  <2>9. Crew(n)
    <3> SUFFICES ASSUME NEW k \in Handle, ~Tame(k)
                 PROVE  /\ Mine(n, k) /\ Polled(k)'
                        /\ worker[k].role = "handler" => worker'[k].role = "handler"
      BY DEF Crew
    <3>0. k = next
      BY <2>5
    <3>1. Polled(k) /\ k > mem.count
      BY <2>1, <3>0 DEF ChainsInv
    <3>2. /\ seen[k].turn = 0 /\ worker'[k].turn = 0 /\ ~(k > mem'.count)
          /\ seen'[k] = seen[k] /\ worker'[k].st # "idle" /\ worker'[k].role = "worker"
          /\ worker[k].role = "none"
      BY <1>1, <1>2, <1>3, <2>1, <2>4, <2>5, <2>8, <3>0, <3>1, WorkerTypes DEF Polled
    <3>3. Polled(k)'
      BY <3>2 DEF Polled
    <3>4. Mine(n, k)
      BY <2>1, <3>0 DEF Mine
    <3> QED BY <3>2, <3>3, <3>4
  <2>10. Paired(C(n), X(n))' /\ Paired(disk.chain[n], disk.ex[n])'
    BY <1>2, <1>3, <2>2, <2>3, <2>4 DEF NodeInv, Paired, Has, C, X
  <2>11. Crewed(n)'
    <3>1. Crewed(n) /\ worker[next].role # "handler"
      BY <1>2, <2>1 DEF NodeInv, ChainsInv, Polled
    <3>2. Handles(X(n))' /\ Handles(disk.ex[n])'
      BY <2>3, <2>4, <2>5, <3>1 DEF Crewed, Handles, X
    <3>3. C(n).handle # 0 => C(n).handle \in Handle
      BY NearHandle
    <3> QED BY <1>1, <1>3, <2>1, <2>2, <2>3, <2>4, <2>5, <2>8, <3>1, <3>2, <3>3 DEF Crewed, C
  <2>12. Minded(n)'
    BY <1>1, <1>3, <1>6, <2>1, <2>2, <2>3, <2>4 DEF Minded, Cared, Known, C
  <2>13. About(n)'
    BY <1>2, <1>6, <2>3, <2>4 DEF NodeInv, About, X
  <2>14. Where(n)'
    BY <1>1, <1>2, <1>3, <1>6, <2>1, <2>2, <2>4, <2>5 DEF Where, Has, Untold, Steered, C
  <2> QED BY <1>2, <1>6, <2>6, <2>7, <2>9, <2>10, <2>11, <2>12, <2>13, <2>14, StageFacts, StepKeeps DEF NodeInv, ChainsInv, Staged
<1> QED BY <1>4, <1>5, <1>6 DEF Spawn

(* What is left to do of a resolution from a file.                          *)
LEMMA DoneFacts ==
  ASSUME NEW t \in Tasks
  PROVE  /\ Done(t) \in Tasks /\ Done(t).src = "none" /\ Done(t).then = "none" /\ Done(t).n = 0
         /\ Done(t).at = IF t.src = "file" THEN "unfile" ELSE "rest"
BY DEF Done, Rest, Tasks, Labels, Causes, Thens, Sources

(* The names move on: the launched worker is the chain's, or it has none.    *)
LEMMA MovedStep ==
  ASSUME ChainsInv, NEW n \in Node, Acts(n), X(n) = NoEx,
         NEW d \in ChainTypes, mem' = [mem EXCEPT !.chain[n] = d], disk' = mem', ~d.held,
         \/ d = Blank
         \/ /\ d.handle = C(n).launching /\ d.handle # 0 /\ d.launching = 0 /\ d.phase # "none"
            /\ d.cursor = 0 /\ worker[d.handle].role = "worker",
         \A h \in Handle : Tame(h), Around',
         NEW t \in Tasks, t.at \in {"rest", "unfile"}, t.src = "none", t.then = "none",
         stage = "visit" => t.at = "rest",
         Go(n, t), file' \in {file, [file EXCEPT ![n] = NoFile]},
         UNCHANGED <<raised, seen, stage, cut>>
  PROVE  ChainsInv'
<1>1. /\ TypeInv /\ NodeInv(n) /\ C(n).launching \in Nat /\ mem.count <= MaxHandle
  BY FreshName DEF ChainsInv
<1>2. /\ Apart(mem', mem, n) /\ mem'.chain[n] = d /\ mem'.ex[n] = NoEx /\ mem'.count = mem.count
  BY <1>1 DEF Apart, Mems, TypeInv, X
<1>3. task'[n] = t /\ task' \in [Node -> Tasks] /\ file' \in [Node -> Files]
      /\ file'[n] \in {file[n], NoFile} /\ \A k \in Node \ {n} : task'[k] = task[k] /\ file'[k] = file[k]
  BY <1>1, NoFileFacts DEF Go, TypeInv
<1>4. TypeInv'
  BY <1>1, <1>2, <1>3 DEF TypeInv, Apart
<1>5. OnlyNode(n) /\ Saves(n) /\ Crew(n)
  BY <1>1, <1>2, <1>3 DEF OnlyNode, Saves, Crew
<1>6. Renames(n)
  BY <1>1, <1>2, BlankFacts DEF Renames
<1>7. Paired(C(n), X(n))' /\ Paired(disk.chain[n], disk.ex[n])'
  BY <1>2, BlankFacts DEF Paired, C, X
<1>8. /\ d.handle # 0 =>
           /\ d.handle \in Handle /\ worker'[d.handle].role = "worker" /\ worker'[d.handle].turn \in Nat
           /\ seen[d.handle].turn \in Nat /\ d.cursor = 0 /\ d = mem'.chain[n]
           /\ worker'[d.handle].st = "idle" => worker'[d.handle].turn > 0
      /\ d.launching = 0
  <2>1. d = Blank \/ d.handle \in Handle
    BY NearHandle
  <2>2. CASE d = Blank
    BY <2>2, BlankFacts
  <2>3. CASE d # Blank
    BY <1>1, <1>2, <2>1, <2>3, WorkerTypes DEF NodeInv, Crewed, Tame
  <2> QED BY <2>2, <2>3
<1>9. Crewed(n)'
  BY <1>2, <1>8, BlankFacts DEF Crewed, Handles, C, X
<1>10. Minded(n)'
  <2>1. Cared(C(n))'
    BY <1>2, <1>8 DEF Cared, C
  <2>2. Cared(C(n))' /\ Cared(disk.chain[n])'
    BY <2>1 DEF C
  <2> QED BY <1>2, <1>3, <2>2 DEF Minded, Known, C
<1>11. About(n)'
  BY <1>1, <1>2, <1>3, BlankFacts DEF NodeInv, About, X
<1>12. Where(n)'
  BY <1>3 DEF Where, Untold
<1> QED BY <1>3, <1>4, <1>5, <1>6, <1>7, <1>9, <1>10, <1>11, <1>12, StepKeeps DEF NodeInv

LEMMA UpStep ==
  ASSUME ChainsInv, NEW n \in Node, Up(n)
  PROVE  ChainsInv'
<1> DEFINE c == C(n)
           r == Recorded(c, task[n])
           t == Done(task[n])
<1>1. /\ task[n].at = "up" /\ Go(n, t)
      /\ UNCHANGED <<seen, stage, todo, threw, file, closed, cut, spared, raised>>
  BY DEF Up, Going, hist
<1>2. /\ Acts(n) /\ TypeInv /\ task[n] \in Tasks /\ Where(n) /\ NodeInv(n) /\ Near(mem, n)
      /\ stage = "visit" => task[n].src = "none" /\ task[n].then # "answer"
  BY <1>1, WhoActs, StageFacts, NearMem
<1>3. /\ c.launching # 0 /\ ~c.held /\ X(n) = NoEx /\ worker[c.launching].role = "worker"
      /\ task[n].phase \in Phase /\ c \in ChainTypes /\ c.tries \in [DOMAIN NoTries -> Nat]
      /\ task[n].n \in Nat
      /\ c.handle # 0 => c.handle \in Handle
  BY <1>1, <1>2, NearHandle, FreshName, ChainFields DEF Where, Tasks, NodeInv, Paired
<1>4. /\ t \in Tasks /\ t.at \in {"rest", "unfile"} /\ t.src = "none" /\ t.then = "none"
      /\ stage = "visit" => t.at = "rest"
  BY <1>2, DoneFacts
<1>5. /\ r \in ChainTypes /\ r.handle = c.launching /\ r.launching = 0 /\ r.phase = task[n].phase
      /\ r.cursor = 0 /\ r.held = c.held /\ r.old \subseteq Handle
  <2> DEFINE f == [k \in DOMAIN NoTries |->
                         IF k = task[n].then THEN task[n].n
                         ELSE IF k \in {"integrate", "provider"} THEN c.tries[k] ELSE 0]
  <2>1. f \in [DOMAIN NoTries -> Nat]
    BY <1>3
  <2>2. r = [c EXCEPT !.phase = task[n].phase, !.handle = c.launching, !.launching = 0, !.to = "none",
                      !.cursor = 0, !.tries = f]
    BY DEF Recorded
  <2> HIDE DEF f, r, c
  <2> QED BY <1>3, <2>1, <2>2 DEF ChainTypes
<1>6. ASSUME NEW d, d = r \/ (d = Owed(r, c.handle) /\ c.handle # 0),
             Save(WithC(mem, n, d)), (\A h \in Handle : Tame(h)), worker' \in [Handle -> Threads]
      PROVE  ChainsInv'
  <2>1. /\ d \in ChainTypes /\ d.handle = c.launching /\ d.launching = 0 /\ d.phase = task[n].phase
        /\ d.cursor = 0 /\ d.held = c.held
    <3> HIDE DEF r, c
    <3> QED BY <1>3, <1>5, <1>6 DEF Owed, ChainTypes
  <2>2. Around'
    BY <1>1, <1>2, <1>6 DEF TypeInv, Around
  <2>3. mem' = [mem EXCEPT !.chain[n] = d] /\ disk' = mem' /\ d.phase # "none"
    BY <1>3, <1>6, <2>1 DEF Save, WithC, Phase
  <2> HIDE DEF t
  <2> QED BY <1>1, <1>2, <1>3, <1>4, <1>6, <2>1, <2>2, <2>3, MovedStep
<1>7. ASSUME worker' = IF c.handle = 0 THEN worker ELSE [worker EXCEPT ![c.handle].st = "gone"]
      PROVE  (\A h \in Handle : Tame(h)) /\ worker' \in [Handle -> Threads]
  BY <1>2, <1>3, <1>7 DEF TypeInv, Around, Threads, Tame
<1>8. ASSUME worker' = worker
      PROVE  (\A h \in Handle : Tame(h)) /\ worker' \in [Handle -> Threads]
  BY <1>2, <1>8, SameWorkers DEF TypeInv, Around
<1>9. CASE /\ worker' = IF c.handle = 0 THEN worker ELSE [worker EXCEPT ![c.handle].st = "gone"]
           /\ Save(WithC(mem, n, r))
  <2> HIDE DEF r
  <2> QED BY <1>6, <1>7, <1>9
<1>10. CASE c.handle # 0 /\ Save(WithC(mem, n, Owed(r, c.handle))) /\ worker' = worker
  <2> HIDE DEF r
  <2> QED BY <1>6, <1>8, <1>10
<1> QED BY <1>9, <1>10 DEF Up

(* The worker is told; what waited for that is saved.                       *)
LEMMA TellStep ==
  ASSUME ChainsInv, NEW n \in Node, Tell(n)
  PROVE  ChainsInv'
<1> DEFINE h == C(n).handle
           t == task[n]
           d == Done(t)
           c2 == [C(n) EXCEPT !.cursor = t.n]
           q == [mem EXCEPT !.chain[n] = c2]
<1>1. /\ task[n].at = "tell" /\ seen' = seen /\ stage' = stage /\ todo' = todo /\ closed' = closed
      /\ spared' = spared
  BY DEF Tell, Going
<1>2. /\ Acts(n) /\ TypeInv /\ task[n] \in Tasks /\ Where(n) /\ NodeInv(n) /\ Near(mem, n)
      /\ stage = "visit" => task[n].src = "none" /\ task[n].then # "answer"
      /\ C(n) \in ChainTypes /\ mem \in Mems
  BY <1>1, WhoActs, StageFacts, NearMem, FreshName
<1>3. /\ h # 0 /\ h \in Handle /\ C(n).phase # "none" /\ t.n \in Nat
      /\ disk.chain[n].handle = h
      /\ disk.chain[n].phase = "none" <=> C(n).phase = "none"
  BY <1>1, <1>2, NearHandle DEF Where, Has, Tasks, ChainsInv, Named
<1>4. /\ d \in Tasks /\ d.at \in {"rest", "unfile"} /\ d.src = "none" /\ d.then = "none"
      /\ stage = "visit" => d.at = "rest"
      /\ d.at = "unfile" => t.src = "file"
  BY <1>2, DoneFacts
<1>5. ASSUME Throw(mem, n), worker' = worker
      PROVE  ChainsInv'
  <2>1. worker' \in [Handle -> Threads] /\ Calm(n)
    BY <1>2, <1>5, SameWorkers DEF TypeInv, Around
  <2> QED BY <1>1, <1>5, <2>1, ThrowStep
<1>6. ASSUME Thread(h), worker' = [worker EXCEPT ![h].st = "working"], Go(n, d),
             UNCHANGED <<file, raised, threw, cut, counts>>,
             \/ t.then = "answer" /\ Save(Unheld(q, n))
             \/ t.then = "save" /\ Save(mem)
             \/ t.then \notin {"answer", "save"} /\ Keep(mem)
      PROVE  ChainsInv'
  <2> HIDE DEF d
  <2>1. /\ worker' \in [Handle -> Threads] /\ (\A k \in Handle : Tame(k)) /\ worker'[h].st = "working"
    BY <1>2, <1>3, <1>6 DEF TypeInv, Around, Threads, Tame, Thread
  <2>2. Around' /\ Calm(n)
    BY <1>1, <1>2, <1>6, <2>1 DEF TypeInv, Around, Calm
  <2>3. task'[n] = d
    BY <1>2, <1>6 DEF Go, TypeInv
  <2>4. Where(n)'
    BY <1>4, <2>3 DEF Where, Untold
  <2>5. CASE t.then = "answer" /\ Save(Unheld(q, n))
    <3>1. t.n = C(n).cursor /\ X(n) = NoEx
      BY <1>1, <1>2, <2>5 DEF Where
    <3>2. /\ c2 \in ChainTypes /\ c2.handle = h /\ c2.launching = C(n).launching
          /\ c2.phase = C(n).phase /\ c2.cursor = C(n).cursor
      BY <1>2, <1>3, <3>1 DEF ChainTypes
    <3> HIDE DEF c2
    <3>3. q \in Mems /\ Apart(q, mem, n) /\ q.chain[n] = c2 /\ q.ex[n] = X(n) /\ q.count = mem.count
      BY <1>2, <3>2 DEF Apart, Mems, X
    <3> HIDE DEF q
    <3>4. /\ mem' = Unheld(q, n) /\ disk' = mem' /\ Apart(mem', q, n) /\ mem'.ex[n] = NoEx
          /\ mem'.count = mem.count /\ mem'.chain[n] \in ChainTypes
          /\ mem'.chain[n].handle = h /\ mem'.chain[n].launching = C(n).launching
          /\ mem'.chain[n].phase = C(n).phase /\ mem'.chain[n].cursor = C(n).cursor
          /\ mem'.chain[n].held = FALSE
      BY <2>5, <3>1, <3>2, <3>3, UnheldFacts DEF Save
    <3>5. Near(mem', n)
      BY <1>2, <3>3, <3>4, BlankFacts DEF Near, Apart, C
    <3>6. Paired(mem'.chain[n], mem'.ex[n]) /\ mem'.ex[n].id \in {0, X(n).id}
      BY <1>3, <3>4, <3>5, BlankFacts DEF Paired, Near
    <3>7. Minded(n)'
      <4>1. Cared(C(n))' /\ Known(C(n), X(n))'
        BY <2>1, <3>4 DEF Cared, Known, C
      <4>2. Cared(disk.chain[n])' /\ Known(disk.chain[n], disk.ex[n])'
        BY <3>4, <4>1 DEF C, X
      <4> QED BY <4>1, <4>2 DEF Minded
    <3> QED BY <1>1, <1>2, <1>4, <1>6, <2>2, <2>4, <3>4, <3>5, <3>6, <3>7, SettledStep
  <2>6. CASE t.then # "answer" /\ mem' = mem /\ disk' \in {disk, mem}
    <3>1. /\ t.src = "none" /\ ~C(n).held /\ d.at = "rest"
      BY <1>1, <1>2, <1>4, <2>6 DEF Where, Tasks, Sources
    <3>2. Near(mem', n) /\ Paired(mem'.chain[n], mem'.ex[n]) /\ mem'.ex[n].id \in {0, X(n).id}
          /\ (mem'.chain[n].phase = "none" <=> C(n).phase = "none")
      BY <1>2, <2>6 DEF NodeInv, Near, Apart, C, X
    <3>3. Minded(n)'
      <4>1. Cared(C(n))' /\ Known(C(n), X(n))'
        BY <2>1, <2>6, <3>1 DEF Cared, Known, C
      <4>2. Cared(disk.chain[n])'
        BY <1>3, <2>1, <2>6 DEF Cared, C
      <4>3. Known(disk.chain[n], disk.ex[n])' \/ Excused(n)'
        <5>1. Known(disk.chain[n], disk.ex[n]) \/ Excused(n)
          BY <1>2 DEF NodeInv, Minded
        <5> QED BY <1>6, <2>6, <3>1, <5>1 DEF Known, Excused, Steered, C
      <4> QED BY <2>3, <3>1, <4>1, <4>2, <4>3 DEF Minded
    <3> QED BY <1>1, <1>2, <1>4, <1>6, <2>2, <2>4, <2>6, <3>2, <3>3, SettledStep
  <2> QED BY <1>6, <2>5, <2>6 DEF Save, Keep
<1> HIDE DEF d
<1> QED BY <1>1, <1>5, <1>6 DEF Tell, WithC, d

LEMMA LandStep ==
  ASSUME ChainsInv, NEW n \in Node, Land(n)
  PROVE  ChainsInv'
<1> DEFINE c == C(n)
           tries == c.tries.integrate + 1
           f == [c.tries EXCEPT !.integrate = tries]
           c2 == [c EXCEPT !.phase = "review", !.tries = f]
           m == [mem EXCEPT !.chain[n] = c2]
           t == [task[n] EXCEPT !.at = "tell", !.then = "save"]
<1>1. /\ task[n].at = "land" /\ seen' = seen /\ stage' = stage /\ todo' = todo /\ threw' = threw
      /\ cut' = cut /\ spared' = spared
  BY DEF Land, Going
<1>2. /\ Acts(n) /\ TypeInv /\ task[n] \in Tasks /\ Where(n) /\ NodeInv(n) /\ Near(mem, n)
      /\ stage = "visit" => task[n].src = "none" /\ task[n].then # "answer"
      /\ c \in ChainTypes /\ mem \in Mems
  BY <1>1, WhoActs, StageFacts, NearMem, FreshName
<1>3. /\ c.phase = "integrate" /\ ~c.held /\ c.handle # 0 /\ task[n].src = "none" /\ X(n) = NoEx
      /\ c.tries \in [DOMAIN NoTries -> Nat]
  BY <1>1, <1>2, ChainFields DEF Where, NodeInv, Paired
<1>4. ASSUME NEW told, Save(WithC(mem, n, Blank)), Go(n, Rest), closed' = closed \cup {n},
             \A h \in Handle : h \in told => worker[h].st = "idle",
             worker' = [h \in Handle |->
                          IF h \in {c.handle} \cup c.old THEN [worker[h] EXCEPT !.st = "gone"]
                          ELSE IF h \in told THEN [worker[h] EXCEPT !.st = "working"] ELSE worker[h]],
             UNCHANGED <<file, raised>>
      PROVE  ChainsInv'
  <2> DEFINE mine == {c.handle} \cup c.old
  <2>m. worker' = [h \in Handle |->
                     IF h \in mine THEN [worker[h] EXCEPT !.st = "gone"]
                     ELSE IF h \in told THEN [worker[h] EXCEPT !.st = "working"] ELSE worker[h]]
    BY <1>4
  <2> HIDE DEF mine
  <2>1. worker' \in [Handle -> Threads] /\ \A h \in Handle : Tame(h)
    <3> SUFFICES ASSUME NEW h \in Handle PROVE worker'[h] \in Threads /\ Tame(h)
      BY <2>m
    <3>1. worker[h] \in Threads
      BY <1>2, WorkerTypes
    <3>2. CASE h \in mine
      BY <2>m, <3>1, <3>2 DEF Threads, Tame
    <3>3. CASE h \notin mine /\ h \in told
      BY <1>4, <2>m, <3>1, <3>3 DEF Threads, Tame
    <3>4. CASE h \notin mine /\ h \notin told
      BY <2>m, <3>1, <3>4 DEF Tame
    <3> QED BY <3>2, <3>3, <3>4
  <2>2. Around'
    BY <1>1, <1>2, <1>4, <2>1 DEF TypeInv, Around
  <2>3. mem' = [mem EXCEPT !.chain[n] = Blank] /\ disk' = mem'
    BY <1>4 DEF Save, WithC
  <2> QED BY <1>1, <1>2, <1>3, <1>4, <2>1, <2>2, <2>3, BlankFacts, RestFacts, MovedStep
<1>5. ASSUME \/ Raising(m, n, "parent", FALSE) /\ Go(n, Rest)
             \/ Keep(m) /\ Go(n, t) /\ UNCHANGED <<file, raised>>,
             UNCHANGED <<worker, closed>>
      PROVE  ChainsInv'
  <2>1. f \in [DOMAIN NoTries -> Nat]
    BY <1>3, TriesFacts, TriesDomain
  <2> HIDE DEF f
  <2>2. /\ c2 \in ChainTypes /\ c2.handle = c.handle /\ c2.launching = c.launching
        /\ c2.phase = "review" /\ c2.cursor = c.cursor /\ ~c2.held
    BY <1>2, <1>3, <2>1 DEF ChainTypes, Phase
  <2> HIDE DEF c2
  <2>3. Apart(m, mem, n) /\ m.chain[n] = c2 /\ m.ex[n] = NoEx /\ m.count = mem.count
    BY <1>2, <1>3, <2>2 DEF Apart, Mems, X
  <2> HIDE DEF m
  <2>4. Near(m, n) /\ m.chain[n].phase # "none"
    BY <2>2, <2>3, BlankFacts DEF Near
  <2>5. Around' /\ Calm(n) /\ cut \subseteq cut'
    BY <1>1, <1>2, <1>5, SameWorkers DEF TypeInv, Around
  <2>6. CASE Raising(m, n, "parent", FALSE) /\ Go(n, Rest)
    BY <1>1, <1>2, <2>4, <2>5, <2>6, RaisingStep
  <2>7. CASE Keep(m) /\ Go(n, t) /\ UNCHANGED <<file, raised>>
    <3>1. /\ t \in Tasks /\ t.at = "tell" /\ t.then = "save" /\ t.src = "none"
      BY <1>2, <1>3 DEF Tasks, Labels, Thens
    <3> HIDE DEF t
    <3>2. mem' = m /\ disk' = disk /\ task'[n] = t
      BY <1>2, <2>7 DEF Keep, Go, TypeInv
    <3>3. Paired(mem'.chain[n], mem'.ex[n]) /\ mem'.ex[n].id \in {0, X(n).id}
          /\ (mem'.chain[n].phase = "none" <=> C(n).phase = "none")
      BY <1>3, <2>2, <2>3, <3>2, BlankFacts DEF Paired
    <3>4. Minded(n)'
      <4>1. Cared(disk.chain[n]) \/ Excused(n)
        BY <1>1, <1>2 DEF NodeInv, Minded, Untold
      <4>2. Cared(disk.chain[n]) => Cared(disk.chain[n])'
        BY <1>5, <3>2 DEF Cared
      <4>3. Excused(n) => Excused(n)'
        BY <1>1, <2>7 DEF Excused, Steered
      <4>4. Known(disk.chain[n], disk.ex[n]) \/ Excused(n)
        BY <1>2 DEF NodeInv, Minded
      <4> QED BY <2>2, <2>3, <3>1, <3>2, <4>1, <4>2, <4>3, <4>4 DEF Minded, Known, Untold, C
    <3>5. Where(n)'
      BY <1>3, <2>2, <2>3, <3>1, <3>2 DEF Where, Untold, Has, C
    <3> QED BY <1>1, <1>2, <2>4, <2>5, <2>7, <3>1, <3>2, <3>3, <3>4, <3>5, SettledStep
  <2> QED BY <1>5, <2>6, <2>7
<1>6. WithC(mem, n, [c EXCEPT !.phase = "review", !.tries.integrate = tries]) = m
  BY <1>2, <1>3 DEF WithC, ChainTypes
<1> DEFINE over == {C(k).handle : k \in {j \in Node \ {n} : C(j).phase = "implement"
                                                     /\ C(j).handle # 0}}
<1>7. CASE /\ \E told \in SUBSET {h \in over : worker[h].st = "idle"} :
                 worker' = [h \in Handle |->
                          IF h \in {c.handle} \cup c.old THEN [worker[h] EXCEPT !.st = "gone"]
                          ELSE IF h \in told THEN [worker[h] EXCEPT !.st = "working"] ELSE worker[h]]
           /\ Save(WithC(mem, n, Blank)) /\ Go(n, Rest)
           /\ closed' = closed \cup {n}
           /\ UNCHANGED <<file, raised>>
  <2> HIDE DEF over
  <2>1. PICK told \in SUBSET {h \in over : worker[h].st = "idle"} :
                 worker' = [h \in Handle |->
                          IF h \in {c.handle} \cup c.old THEN [worker[h] EXCEPT !.st = "gone"]
                          ELSE IF h \in told THEN [worker[h] EXCEPT !.st = "working"] ELSE worker[h]]
    BY <1>7
  <2>2. \A h \in Handle : h \in told => worker[h].st = "idle"
    OBVIOUS
  <2> QED BY <1>4, <1>7, <2>1, <2>2
<1>8. CASE /\ IF tries > Integrations THEN Escalates(m, n, "parent", FALSE)
              ELSE Keep(m) /\ Go(n, t) /\ UNCHANGED <<file, raised>>
           /\ UNCHANGED <<worker, closed>>
  <2> HIDE DEF m, t, tries
  <2> QED BY <1>5, <1>8 DEF Escalates
<1> HIDE DEF over
<1> QED BY <1>6, <1>7, <1>8 DEF Land, over

----------------------------------------------------------------------------
(* The resolutions.                                                         *)

(* A resolution escalates, answers, starts again or discards.                *)
LEMMA ApplyStep ==
  ASSUME ChainsInv, NEW n \in Node, Acts(n), stage = "except", task[n].at \in {"rest", "judge"},
         Has(n), NEW m, Near(m, n), m.chain[n] = C(n), m.ex[n].id = X(n).id, m.ex[n].cursor = C(n).cursor,
         NEW a \in Rules, NEW src \in {"file", "handler"},
         src = "file" => a = file[n].act,
         src = "handler" \/ a = "escalate" => Pending(n),
         Apply(m, n, a, src),
         \A h \in Handle : Tame(h), Calm(n), Around',
         file' = file, raised' = raised, seen' = seen, stage' = stage, cut \subseteq cut'
  PROVE  ChainsInv'
<1> DEFINE t == [Rest EXCEPT !.err = "tick", !.src = src]
           q == Freed(m, n)
           u == Unheld(q, n)
           ph == IF C(n).phase = "integrate" THEN "review" ELSE C(n).phase
           ta == [t EXCEPT !.at = "tell", !.then = "answer", !.n = m.ex[n].cursor]
           td == [t EXCEPT !.at = "discard", !.then = a]
           x2 == [m.ex[n] EXCEPT !.level = "owner", !.handler = 0]
           e == [m EXCEPT !.ex[n] = x2]
<1>1. /\ TypeInv /\ NodeInv(n) /\ C(n) \in ChainTypes /\ m \in Mems /\ m.ex[n] \in ExTypes
      /\ C(n).phase \in Phase /\ C(n).cursor \in Nat
  BY FreshName, MemFields, ChainFields DEF ChainsInv, Near, Apart, Has
<1>2. /\ t \in Tasks /\ t.src = src /\ t.then = "none" /\ t.err = "tick"
  BY DEF Rest, Tasks, Labels, Causes, Thens, Sources
<1>3. /\ Apart(q, m, n) /\ q.ex[n] = NoEx /\ q.count = m.count
      /\ Alike(q.chain[n], C(n)) /\ q.chain[n].cursor = C(n).cursor
  BY <1>1, FreedFacts, ChainAssumption
<1>4. Near(q, n) /\ Paired(q.chain[n], q.ex[n]) /\ q.chain[n].phase # "none" /\ q \in Mems
  BY <1>1, <1>3, BlankFacts DEF Near, Apart, Alike, NodeInv, Paired, Has
<1>5. Pending(n) => C(n).held
  BY <1>1 DEF NodeInv, Paired, Pending
<1>6. CASE a = "escalate" /\ Save([m EXCEPT !.ex[n].level = "owner", !.ex[n].handler = 0]) /\ Go(n, Done(t))
  <2>1. /\ x2 \in ExTypes /\ x2.id = X(n).id /\ x2.id # 0 /\ x2.handler = 0 /\ x2.cursor = C(n).cursor
    BY <1>1, <1>6 DEF ExTypes, Pending
  <2>2. mem' = e /\ disk' = mem'
    BY <1>1, <1>6 DEF Save, Mems
  <2> HIDE DEF x2
  <2>3. /\ Apart(mem', m, n) /\ mem'.chain[n] = C(n) /\ mem'.ex[n] = x2 /\ mem'.count = m.count
    BY <1>1, <2>1, <2>2 DEF Apart, Mems
  <2>4. Near(mem', n) /\ Paired(mem'.chain[n], mem'.ex[n]) /\ mem'.ex[n].id \in {0, X(n).id}
    BY <1>1, <1>5, <1>6, <2>1, <2>3 DEF Near, Apart, NodeInv, Paired
  <2> DEFINE d == Done(t)
  <2>5. /\ d \in Tasks /\ d.src = "none" /\ d.then = "none" /\ d.at \in {"rest", "unfile"}
    BY <1>2, DoneFacts
  <2> HIDE DEF t, d
  <2>6. task'[n] = d
    BY <1>1, <1>6 DEF TypeInv, Go, d
  <2>7. Minded(n)'
    <3>1. Cared(C(n))' /\ Known(C(n), X(n))'
      BY <1>5, <1>6, <2>1, <2>3 DEF Cared, Known, C, X
    <3>2. Cared(disk.chain[n])' /\ Known(disk.chain[n], disk.ex[n])'
      BY <2>2, <3>1 DEF C, X
    <3> QED BY <3>1, <3>2 DEF Minded
  <2>8. Where(n)'
    BY <2>5, <2>6 DEF Where, Untold
  <2> QED BY <1>6, <2>2, <2>4, <2>5, <2>7, <2>8, SettledStep DEF d
<1> HIDE DEF q
<1>7. Minded(n) /\ (Cared(disk.chain[n]) \/ Excused(n)) /\ (Known(disk.chain[n], disk.ex[n]) \/ Excused(n))
      /\ disk.chain[n].handle = C(n).handle
  BY <1>1 DEF NodeInv, Minded, Untold, ChainsInv, Named
<1>8. (Excused(n) => Excused(n)') /\ (Steered(n) => Steered(n)')
  BY DEF Excused, Steered
<1>9. disk' = disk => (Cared(disk.chain[n]) => Cared(disk.chain[n])')
  BY <1>7, NearHandle DEF Cared, Tame
<1>10. CASE a = "answer" /\ C(n).handle # 0 /\ Keep(q) /\ Go(n, ta)
  <2>1. /\ ta \in Tasks /\ ta.at = "tell" /\ ta.then = "answer" /\ ta.n = C(n).cursor /\ ta.src = src
    BY <1>1, <1>2 DEF Tasks, Labels, Thens
  <2> HIDE DEF ta
  <2>2. mem' = q /\ disk' = disk /\ task'[n] = ta
    BY <1>1, <1>10 DEF Keep, Go, TypeInv
  <2>3. Minded(n)'
    BY <1>7, <1>8, <1>9, <2>1, <2>2 DEF Minded, Untold, Answering, Known
  <2>4. Where(n)'
    <3>1. src = "file" => Steered(n)
      BY <1>10 DEF Steered
    <3> QED BY <1>3, <1>4, <1>8, <1>10, <2>1, <2>2, <3>1 DEF Where, Has, Untold, Alike, C, X
  <2> QED BY <1>3, <1>4, <1>10, <2>1, <2>2, <2>3, <2>4, BlankFacts, SettledStep DEF Has
<1>11. CASE a \in {"answer", "retry"} /\ Begin(u, n, t, ph)
  <2>1. Startable(u, n)
    <3>1. /\ Apart(u, q, n) /\ u.ex[n] = q.ex[n] /\ u.count = q.count
          /\ u.chain[n] \in ChainTypes
          /\ u.chain[n].handle = q.chain[n].handle /\ u.chain[n].launching = q.chain[n].launching
          /\ u.chain[n].phase = q.chain[n].phase /\ u.chain[n].cursor = q.chain[n].cursor
          /\ u.chain[n].held = FALSE
      BY <1>4, UnheldFacts
    <3> HIDE DEF u
    <3> QED BY <1>3, <1>4, <3>1 DEF Startable, Near, Apart
  <2>2. ph \in Phase /\ (src = "file" => Steered(n))
    BY <1>1, <1>11 DEF Phase, Steered
  <2> HIDE DEF t, u, ph
  <2> QED BY <1>2, <1>11, <2>1, <2>2, BeginStep
<1>12. CASE a \in {"redispatch", "move-out"} /\ Keep(q) /\ Go(n, td)
  <2>1. /\ td \in Tasks /\ td.at = "discard" /\ td.src = src /\ td.then # "answer"
    BY <1>2, <1>12 DEF Tasks, Labels, Thens
  <2> HIDE DEF td
  <2>2. mem' = q /\ disk' = disk /\ task'[n] = td
    BY <1>1, <1>12 DEF Keep, Go, TypeInv
  <2>3. src = "file" => Steered(n)
    BY <1>12 DEF Steered
  <2>4. Minded(n)'
    <3>1. Cared(C(n))' \/ Excused(n)'
      BY <1>3, <1>5, <1>8, <2>2, <2>3 DEF Cared, Alike, Excused, C
    <3> QED BY <1>7, <1>8, <1>9, <2>1, <2>2, <3>1 DEF Minded, Untold, Answering, Known
  <2>5. Where(n)'
    BY <1>3, <1>8, <2>1, <2>2, <2>3 DEF Where, Untold, X
  <2> QED BY <1>3, <1>4, <1>12, <2>1, <2>2, <2>4, <2>5, BlankFacts, SettledStep DEF Has
<1> HIDE DEF t, ta, td, u, ph
<1> QED BY <1>6, <1>10, <1>11, <1>12 DEF Apply, q, t, ta, td, u, ph

(* A queued file is dropped: nobody waits for it.                           *)
LEMMA ClearedStep ==
  ASSUME ChainsInv, NEW n \in Node, Acts(n),
         n \in cut \/ /\ Cared(C(n)) /\ Known(C(n), X(n))
                      /\ Cared(disk.chain[n]) /\ Known(disk.chain[n], disk.ex[n]),
         Go(n, Rest), file' = [file EXCEPT ![n] = NoFile], Around',
         UNCHANGED <<mem, disk, worker, seen, stage, cut, raised>>
  PROVE  ChainsInv'
<1>1. TypeInv /\ Near(mem, n) /\ NodeInv(n)
  BY NearMem DEF ChainsInv
<1>2. /\ task'[n] = Rest /\ file'[n] = NoFile /\ task' \in [Node -> Tasks] /\ file' \in [Node -> Files]
      /\ \A k \in Node \ {n} : task'[k] = task[k] /\ file'[k] = file[k]
  BY <1>1, RestFacts, NoFileFacts DEF Go, TypeInv
<1>3. TypeInv'
  BY <1>1, <1>2 DEF TypeInv
<1>4. Near(mem', n) /\ Calm(n)
  BY <1>1, SameWorkers DEF Near, Apart
<1>5. Paired(C(n), X(n))' /\ Paired(disk.chain[n], disk.ex[n])'
  BY <1>1 DEF NodeInv, Paired, C, X
<1>6. Minded(n)'
  BY <1>2, RestFacts DEF Minded, Cared, Known, Excused, C, X
<1>7. About(n)'
  BY <1>1, <1>2 DEF NodeInv, About, X
<1>8. Where(n)'
  BY <1>2, RestFacts DEF Where, Untold
<1>9. mem'.chain[n].phase = "none" <=> C(n).phase = "none"
  BY DEF C
<1> QED BY <1>2, <1>3, <1>4, <1>5, <1>6, <1>7, <1>8, <1>9, RestFacts, NearKeeps

(* Only the exception of node n changes; the chain is held behind it.       *)
LEMMA ExceptionStep ==
  ASSUME ChainsInv, NEW n \in Node, Acts(n), Pending(n),
         NEW x \in ExTypes, x.id = X(n).id, x.cursor = X(n).cursor, x.handler = 0,
         mem' = [mem EXCEPT !.ex[n] = x], disk' = mem',
         NEW t \in Tasks, Go(n, t), t.at = "rest", t.src = "none", t.then # "answer",
         \A h \in Handle : Tame(h), Calm(n), Around',
         UNCHANGED <<file, raised, seen, stage, cut>>
  PROVE  ChainsInv'
<1>1. TypeInv /\ NodeInv(n) /\ C(n).held /\ Near(mem, n)
  BY NearMem DEF ChainsInv, NodeInv, Paired, Pending
<1>2. /\ Apart(mem', mem, n) /\ mem'.chain[n] = C(n) /\ mem'.ex[n] = x /\ mem'.count = mem.count
  BY <1>1 DEF Apart, Mems, TypeInv, C
<1>3. Near(mem', n) /\ Paired(mem'.chain[n], mem'.ex[n])
  BY <1>1, <1>2 DEF Near, NodeInv, Paired, Pending, C
<1>4. task'[n] = t
  BY <1>1 DEF Go, TypeInv
<1>5. Minded(n)'
  <2>1. Cared(C(n))' /\ Known(C(n), X(n))'
    BY <1>1, <1>2 DEF Cared, Known, Pending, C, X
  <2>2. Cared(disk.chain[n])' /\ Known(disk.chain[n], disk.ex[n])'
    BY <2>1 DEF C, X
  <2> QED BY <2>1, <2>2 DEF Minded
<1>6. Where(n)'
  BY <1>4 DEF Where, Untold
<1> QED BY <1>2, <1>3, <1>5, <1>6, SettledStep

LEMMA TakesFacts ==
  ASSUME ChainsInv, NEW n \in Node, Takes(n)
  PROVE  /\ Acts(n) /\ stage = "except" /\ task[n].at = "rest" /\ task[n] \in Tasks
         /\ task[n].src = "none" /\ task[n].then # "answer"
         /\ TypeInv /\ NodeInv(n) /\ Near(mem, n) /\ C(n) \in ChainTypes /\ X(n) \in ExTypes
BY WhoActs, NearMem, FreshName, StageFacts DEF Takes, Quiet, Where

LEMMA TakeSteeringStep ==
  ASSUME ChainsInv, NEW n \in Node, TakeSteering(n)
  PROVE  ChainsInv'
<1> DEFINE x2 == [X(n) EXCEPT !.cursor = C(n).cursor]
           m == [mem EXCEPT !.ex[n] = x2]
           a == file[n].act
<1>1. /\ Takes(n) /\ ~Pending(n) /\ Filed(n) /\ todo' = todo \ {n}
      /\ UNCHANGED <<worker, seen, stage, threw, closed, cut, spared, raised>>
  BY DEF TakeSteering, hist
<1>2. /\ Acts(n) /\ stage = "except" /\ task[n].at = "rest" /\ TypeInv /\ NodeInv(n) /\ Near(mem, n)
      /\ C(n) \in ChainTypes /\ X(n) \in ExTypes
  BY <1>1, TakesFacts
<1>3. Around' /\ Calm(n) /\ \A h \in Handle : Tame(h)
  BY <1>1, <1>2, SameWorkers DEF TypeInv, Around
<1>4. CASE ~Has(n) \/ file[n].act = "escalate"
  <2>1. /\ mem' = mem /\ disk' = disk /\ Go(n, Rest) /\ file' = [file EXCEPT ![n] = NoFile]
    BY <1>4 DEF TakeSteering, Keep
  <2>2. Minded(n) /\ Paired(C(n), X(n)) /\ disk.chain[n].phase = "none" <=> C(n).phase = "none"
        /\ Paired(disk.chain[n], disk.ex[n])
    BY <1>2 DEF NodeInv, ChainsInv, Named
  <2>3. n \in cut \/ /\ Cared(C(n)) /\ Known(C(n), X(n))
                     /\ Cared(disk.chain[n]) /\ Known(disk.chain[n], disk.ex[n])
    <3>1. CASE ~Has(n)
      BY <1>2, <3>1 DEF NodeInv, ChainsInv, Named, Paired, Cared, Known, Has
    <3>2. CASE file[n].act = "escalate"
      BY <1>2, <3>2 DEF NodeInv, Minded, Excused, Steered, Untold, Answering
    <3> QED BY <1>4, <3>1, <3>2
  <2> QED BY <1>1, <1>2, <1>3, <2>1, <2>3, ClearedStep
<1>5. CASE Has(n) /\ file[n].act # "escalate"
  <2>1. Apply([mem EXCEPT !.ex[n].cursor = C(n).cursor], n, a, "file") /\ file' = file
    BY <1>5 DEF TakeSteering
  <2>2. [mem EXCEPT !.ex[n].cursor = C(n).cursor] = m
    BY <1>2 DEF TypeInv, Mems, X
  <2>3. x2 \in ExTypes /\ x2.id = X(n).id /\ x2.handler = X(n).handler /\ x2.cursor = C(n).cursor
    BY <1>2, ChainFields DEF ExTypes
  <2> HIDE DEF x2
  <2>4. Apart(m, mem, n) /\ m.chain[n] = C(n) /\ m.ex[n] = x2 /\ m.count = mem.count
    BY <1>2, <2>3 DEF TypeInv, Apart, Mems, C
  <2>5. a \in Rules
    BY <1>1, <1>2 DEF TypeInv, Files, NodeInv, About, Filed
  <2> HIDE DEF m, a
  <2>6. Near(m, n)
    BY <1>2, <2>3, <2>4 DEF Near, C
  <2>7. a # "escalate" /\ a = file[n].act
    BY <1>5 DEF a
  <2>8. Apply(m, n, a, "file")
    BY <2>1, <2>2
  <2> QED BY <1>1, <1>2, <1>3, <1>5, <2>1, <2>3, <2>4, <2>5, <2>6, <2>7, <2>8, ApplyStep
<1> QED BY <1>4, <1>5

LEMMA TakeHandoverStep ==
  ASSUME ChainsInv, NEW n \in Node, TakeHandover(n)
  PROVE  ChainsInv'
<1> DEFINE x2 == [X(n) EXCEPT !.level = "owner", !.handler = 0]
<1>1. /\ Takes(n) /\ Pending(n) /\ Retire(X(n).handler)
      /\ Save([mem EXCEPT !.ex[n].level = "owner", !.ex[n].handler = 0])
      /\ UNCHANGED <<seen, task, stage, todo, threw, file, closed, cut, raised>>
  BY DEF TakeHandover
<1>2. /\ Acts(n) /\ stage = "except" /\ task[n].at = "rest" /\ TypeInv /\ NodeInv(n)
      /\ X(n) \in ExTypes /\ task[n] \in Tasks /\ task[n].src = "none" /\ task[n].then # "answer"
  BY <1>1, TakesFacts
<1>3. (\A h \in Handle : Tame(h)) /\ Calm(n) /\ worker' \in [Handle -> Threads] /\ spared' \subseteq Handle
  BY <1>1, RetireFacts
<1>4. Around'
  BY <1>1, <1>2, <1>3 DEF TypeInv, Around
<1>5. x2 \in ExTypes /\ x2.id = X(n).id /\ x2.handler = 0 /\ x2.cursor = X(n).cursor
  BY <1>2 DEF ExTypes
<1>6. mem' = [mem EXCEPT !.ex[n] = x2] /\ disk' = mem'
  BY <1>1, <1>2 DEF Save, TypeInv, Mems, X
<1>7. Go(n, task[n])
  BY <1>1, <1>2 DEF Go, TypeInv
<1> HIDE DEF x2
<1> QED BY <1>1, <1>2, <1>3, <1>4, <1>5, <1>6, <1>7, ExceptionStep

LEMMA TakeResolutionStep ==
  ASSUME ChainsInv, NEW n \in Node, TakeResolution(n)
  PROVE  ChainsInv' /\ file[n].about = X(n).id
<1>1. /\ Takes(n) /\ Pending(n) /\ Filed(n) /\ Apply(mem, n, file[n].act, "file") /\ todo' = todo \ {n}
      /\ UNCHANGED <<worker, seen, stage, threw, file, closed, cut, spared, raised>>
  BY DEF TakeResolution, hist
<1>2. /\ Acts(n) /\ stage = "except" /\ task[n].at = "rest" /\ TypeInv /\ NodeInv(n) /\ Near(mem, n)
      /\ C(n) \in ChainTypes /\ X(n) \in ExTypes
  BY <1>1, TakesFacts
<1>3. Around' /\ Calm(n) /\ \A h \in Handle : Tame(h)
  BY <1>1, <1>2, SameWorkers DEF TypeInv, Around
<1>4. file[n].act \in Rules /\ Has(n) /\ X(n).cursor = C(n).cursor
  BY <1>1, <1>2 DEF TypeInv, Files, NodeInv, About, Filed, Paired, Pending, Has
<1>5. file[n].about = X(n).id
  BY <1>1, <1>2 DEF NodeInv, About, Filed, Pending
<1>6. mem.chain[n] = C(n) /\ mem.ex[n] = X(n)
  BY DEF C, X
<1> QED BY <1>1, <1>2, <1>3, <1>4, <1>5, <1>6, ApplyStep

(* The worktree of the worker, and those kept of old, are given up.          *)
LEMMA DiscardStep ==
  ASSUME ChainsInv, NEW n \in Node, Discard(n)
  PROVE  ChainsInv'
<1> DEFINE mine == {C(n).handle} \cup C(n).old
           t == Done(task[n])
<1>1. /\ task[n].at = "discard" /\ Go(n, t) /\ mem' = [mem EXCEPT !.chain[n] = Blank] /\ disk' = mem'
      /\ file' \in {file, [file EXCEPT ![n] = NoFile]} /\ closed' \in {closed, closed \cup {n}}
      /\ UNCHANGED <<seen, stage, todo, threw, cut, raised>>
  BY DEF Discard, Going, Save, WithC
<1>2. /\ Acts(n) /\ TypeInv /\ task[n] \in Tasks /\ Where(n) /\ X(n) = NoEx
      /\ stage = "visit" => task[n].src = "none" /\ task[n].then # "answer"
  BY <1>1, WhoActs, StageFacts DEF Where
<1>3. /\ t \in Tasks /\ t.at \in {"rest", "unfile"} /\ t.src = "none" /\ t.then = "none"
      /\ stage = "visit" => t.at = "rest"
  BY <1>2, DoneFacts
<1>4. ASSUME NEW some, worker' = [h \in Handle |-> IF h \in some THEN [worker[h] EXCEPT !.st = "gone"]
                                                   ELSE worker[h]],
             spared' \subseteq Handle
      PROVE  ChainsInv'
  <2>1. worker' \in [Handle -> Threads] /\ \A h \in Handle : Tame(h)
    BY <1>2, <1>4 DEF TypeInv, Around, Threads, Tame
  <2>2. Around'
    BY <1>1, <1>2, <1>4, <2>1 DEF TypeInv, Around
  <2> HIDE DEF t
  <2> QED BY <1>1, <1>2, <1>3, <2>1, <2>2, BlankFacts, MovedStep
<1>5. CASE /\ worker' = [h \in Handle |-> IF h \in mine THEN [worker[h] EXCEPT !.st = "gone"] ELSE worker[h]]
           /\ spared' = spared
  <2>1. spared' \subseteq Handle
    BY <1>2, <1>5 DEF TypeInv, Around
  <2> HIDE DEF mine
  <2> QED BY <1>4, <1>5, <2>1
<1>6. CASE \E h \in mine \ {0} :
             /\ Thread(h)
             /\ worker' = [k \in Handle |-> IF k \in mine \ {h} THEN [worker[k] EXCEPT !.st = "gone"]
                                            ELSE worker[k]]
             /\ spared' = spared \cup {h}
  <2>1. PICK h \in mine \ {0} :
             /\ worker' = [k \in Handle |-> IF k \in mine \ {h} THEN [worker[k] EXCEPT !.st = "gone"]
                                            ELSE worker[k]]
             /\ spared' = spared \cup {h}
    BY <1>6
  <2>2. h \in Handle
    BY NearHandle, FreshName, ChainFields
  <2>3. spared' \subseteq Handle
    BY <1>2, <2>1, <2>2 DEF TypeInv, Around
  <2> HIDE DEF mine
  <2> QED BY <1>4, <2>1, <2>3
<1> HIDE DEF mine, t
<1> QED BY <1>5, <1>6 DEF Discard, mine

LEMMA UnfileStep ==
  ASSUME ChainsInv, NEW n \in Node, Unfile(n)
  PROVE  ChainsInv'
<1>1. /\ task[n].at = "unfile" /\ file' = [file EXCEPT ![n] = NoFile] /\ Go(n, Rest)
      /\ UNCHANGED <<mem, disk, worker, seen, stage, todo, threw, closed, cut, spared, raised>>
  BY DEF Unfile, Going, hist
<1>2. Acts(n) /\ TypeInv /\ NodeInv(n)
  BY <1>1, WhoActs, StageFacts
<1>3. n \in cut \/ /\ Cared(C(n)) /\ Known(C(n), X(n))
                   /\ Cared(disk.chain[n]) /\ Known(disk.chain[n], disk.ex[n])
  BY <1>1, <1>2 DEF NodeInv, Minded
<1>4. Around'
  BY <1>1, <1>2 DEF TypeInv, Around
<1> QED BY <1>1, <1>2, <1>3, <1>4, ClearedStep

(* The exception of node n may name a handler anew.                         *)
LEMMA HandledStep ==
  ASSUME ChainsInv, NEW n \in Node, Acts(n), Pending(n), stage # "visit",
         NEW x \in ExTypes, x.id = X(n).id, x.cursor = X(n).cursor,
         x.handler # 0 => x.handler \in Handle /\ worker[x.handler].role = "handler",
         NEW i \in {mem.count, mem.count + 1}, i <= MaxHandle,
         mem' = [mem EXCEPT !.count = i, !.ex[n] = x], disk' = mem',
         NEW t \in Tasks, Go(n, t), t.src = "none", t.then # "answer",
         t.at = "rest" \/ (t.at = "hire" /\ t.n = i /\ i = mem.count + 1),
         UNCHANGED <<worker, file, raised, seen, stage, cut>>, Around'
  PROVE  ChainsInv'
<1>1. TypeInv /\ NodeInv(n) /\ C(n).held /\ mem.count \in Nat
  BY FreshName DEF ChainsInv, NodeInv, Paired, Pending
<1>i. i \in Nat /\ mem \in Mems
  BY <1>1 DEF TypeInv
<1>2. /\ Apart(mem', mem, n) /\ mem'.chain = mem.chain /\ mem'.ex[n] = x /\ mem'.count = i
  BY <1>i DEF Apart, Mems
<1>3. task'[n] = t /\ task' \in [Node -> Tasks] /\ \A k \in Node \ {n} : task'[k] = task[k]
  BY <1>1 DEF Go, TypeInv
<1>4. TypeInv'
  BY <1>1, <1>2, <1>3 DEF TypeInv, Apart
<1>5. OnlyNode(n) /\ Saves(n) /\ Renames(n) /\ Crew(n)
  BY <1>1, <1>2, <1>3, SameWorkers DEF OnlyNode, Saves, Renames, Crew, C
<1>6. Paired(C(n), X(n))' /\ Paired(disk.chain[n], disk.ex[n])'
  BY <1>1, <1>2 DEF NodeInv, Paired, Pending, C, X
<1>7. Crewed(n)'
  BY <1>1, <1>2 DEF NodeInv, Crewed, Handles, C, X
<1>8. Minded(n)'
  <2>1. Cared(C(n))' /\ Known(C(n), X(n))'
    BY <1>1, <1>2 DEF Cared, Known, Pending, C, X
  <2>2. Cared(disk.chain[n])' /\ Known(disk.chain[n], disk.ex[n])'
    BY <2>1 DEF C, X
  <2> QED BY <2>1, <2>2 DEF Minded
<1>9. About(n)'
  BY <1>1, <1>2 DEF NodeInv, About, Pending, X
<1>10. Where(n)'
  <2>1. CASE t.at = "rest"
    BY <1>3, <2>1 DEF Where, Untold
  <2>2. CASE t.at = "hire" /\ t.n = i /\ i = mem.count + 1
    <3>1. i \in Handle
      BY <1>1, <2>2, ChainAssumption DEF Handle, ChainAssumption
    <3>2. worker[i].turn = 0
      BY <1>1, <2>2, <3>1 DEF ChainsInv, Polled
    <3>3. \A k \in Node : C(k).handle < i /\ C(k).launching < i
      BY <1>1, <2>2, FreshName
    <3>4. Pending(n)'
      BY <1>2 DEF Pending, X
    <3> QED BY <1>2, <1>3, <2>2, <3>1, <3>2, <3>3, <3>4 DEF Where, Untold, C
  <2> QED BY <2>1, <2>2
<1>11. NodeInv(n)'
  BY <1>6, <1>7, <1>8, <1>9, <1>10 DEF NodeInv
<1> QED BY <1>4, <1>5, <1>11, StepKeeps

LEMMA TakeHireStep ==
  ASSUME ChainsInv, NEW n \in Node, TakeHire(n)
  PROVE  ChainsInv'
<1> DEFINE t == [Rest EXCEPT !.at = "hire", !.err = "tick", !.n = mem.count + 1]
           i == mem.count + 1
<1>1. /\ Takes(n) /\ Pending(n) /\ ~Handled(n) /\ mem.count < MaxHandle
      /\ Save([mem EXCEPT !.count = @ + 1]) /\ Go(n, t) /\ todo' = todo \ {n}
      /\ UNCHANGED <<worker, seen, stage, threw, file, closed, cut, spared, raised>>
  BY DEF TakeHire, hist
<1>2. /\ Acts(n) /\ stage = "except" /\ TypeInv /\ X(n) \in ExTypes /\ mem.count \in Nat
  BY <1>1, TakesFacts, FreshName
<1>3. Around'
  BY <1>1, <1>2 DEF TypeInv, Around
<1>i. i \in Nat
  BY <1>2
<1>4. /\ t \in Tasks /\ t.at = "hire" /\ t.src = "none" /\ t.then = "none" /\ t.n = i
  BY <1>i DEF Rest, Tasks, Labels, Causes, Thens, Sources
<1>5. mem' = [mem EXCEPT !.count = i, !.ex[n] = X(n)] /\ disk' = mem'
  BY <1>1, <1>2 DEF Save, TypeInv, Mems, X
<1>6. X(n).handler = 0 /\ i <= MaxHandle
  BY <1>1, <1>2, ChainAssumption DEF Handled, ChainAssumption
<1> HIDE DEF t, i
<1> QED BY <1>1, <1>2, <1>3, <1>4, <1>5, <1>6, HandledStep DEF i

LEMMA HiredStep ==
  ASSUME ChainsInv, NEW n \in Node, Hired(n)
  PROVE  ChainsInv'
<1> DEFINE x2 == [X(n) EXCEPT !.handler = task[n].n]
<1>1. /\ task[n].at = "hired" /\ Save([mem EXCEPT !.ex[n].handler = task[n].n]) /\ Go(n, Rest)
      /\ UNCHANGED <<worker, seen, stage, todo, threw, file, closed, cut, spared, raised>>
  BY DEF Hired, Going, hist
<1>2. Acts(n) /\ TypeInv /\ Where(n) /\ task[n] \in Tasks /\ X(n) \in ExTypes /\ mem.count <= MaxHandle
      /\ stage # "visit"
  BY <1>1, WhoActs, StageFacts, FreshName DEF ChainsInv, Named, Staged
<1>3. /\ Pending(n) /\ task[n].n \in Handle /\ worker[task[n].n].role = "handler" /\ task[n].n \in Nat
  BY <1>1, <1>2 DEF Where, Tasks
<1>4. x2 \in ExTypes /\ x2.id = X(n).id /\ x2.cursor = X(n).cursor /\ x2.handler = task[n].n
  BY <1>2, <1>3 DEF ExTypes
<1>5. mem' = [mem EXCEPT !.count = mem.count, !.ex[n] = x2] /\ disk' = mem'
  BY <1>1, <1>2 DEF Save, TypeInv, Mems, X
<1>6. Around'
  BY <1>1, <1>2 DEF TypeInv, Around
<1> HIDE DEF x2
<1> QED BY <1>1, <1>2, <1>3, <1>4, <1>5, <1>6, RestFacts, HandledStep

LEMMA HireStep ==
  ASSUME ChainsInv, NEW n \in Node, Hire(n)
  PROVE  ChainsInv'
<1> DEFINE h == task[n].n
           v == [Unborn EXCEPT !.st = "working", !.role = "handler"]
           t == At(task[n], "hired")
           x2 == [X(n) EXCEPT !.level = "owner"]
<1>1. /\ task[n].at = "hire"
      /\ UNCHANGED <<seen, stage, todo, threw, file, closed, cut, spared, raised>>
  BY DEF Hire, Going, hist
<1>2. /\ Acts(n) /\ TypeInv /\ Where(n) /\ task[n] \in Tasks /\ NodeInv(n) /\ stage # "visit"
      /\ X(n) \in ExTypes /\ mem.count <= MaxHandle /\ Near(mem, n)
  BY <1>1, WhoActs, StageFacts, FreshName, NearMem DEF ChainsInv, Named, Staged
<1>3. /\ h \in Handle /\ h = mem.count /\ worker[h].turn = 0 /\ Pending(n) /\ h \in Nat
      /\ \A k \in Node : C(k).handle < h /\ C(k).launching < h
  BY <1>1, <1>2 DEF Where, Tasks
<1>4. ASSUME worker' = [worker EXCEPT ![h] = v], Go(n, t), mem' = mem, disk' = disk
      PROVE  ChainsInv'
  <2>1. v \in Threads /\ v.st = "working" /\ v.role = "handler" /\ v.turn = 0
    BY DEF Unborn, Threads
  <2>2. t \in Tasks /\ t.at = "hired" /\ t.n = h /\ t.src = task[n].src /\ t.then = task[n].then
    BY <1>2, AtFacts DEF Labels
  <2>g. Go(n, t)
    BY <1>4
  <2> HIDE DEF v, t
  <2>3. task'[n] = t /\ task' \in [Node -> Tasks] /\ \A k \in Node \ {n} : task'[k] = task[k]
    BY <1>2, <2>2, <2>g DEF Go, TypeInv
  <2>4. /\ worker' \in [Handle -> Threads] /\ worker'[h] = v
        /\ \A k \in Handle : k = h \/ (Tame(k) /\ worker'[k] = worker[k])
    BY <1>2, <1>3, <1>4, <2>1 DEF TypeInv, Around, Tame
  <2>5. TypeInv'
    BY <1>1, <1>2, <1>4, <2>3, <2>4 DEF TypeInv, Around
  <2>6. OnlyNode(n) /\ Saves(n) /\ Renames(n)
    BY <1>1, <1>2, <1>4, <2>3 DEF OnlyNode, Saves, Renames, Near, C
  <2>7. Crew(n)
    <3> SUFFICES ASSUME NEW k \in Handle, ~Tame(k)
                 PROVE  /\ Mine(n, k) /\ Polled(k)'
                        /\ worker[k].role = "handler" => worker'[k].role = "handler"
      BY DEF Crew
    <3>1. k = h
      BY <2>4
    <3>2. /\ worker'[k].turn = 0 /\ worker'[k].st = "working" /\ worker'[k].role = "handler"
          /\ seen'[k] = seen[k] /\ seen[k].turn = 0 /\ ~(k > mem'.count)
      BY <1>1, <1>3, <1>4, <2>1, <2>4, <3>1, WorkerTypes DEF ChainsInv, Polled
    <3>3. Polled(k)'
      BY <3>2 DEF Polled
    <3>4. Mine(n, k)
      BY <1>1, <3>1, WorkerTypes DEF Mine, ChainsInv
    <3> QED BY <3>2, <3>3, <3>4
  <2>8. C(n).handle # 0 => C(n).handle \in Handle /\ C(n).handle # h
    BY <1>3, NearHandle, FreshName
  <2>9. C(n).launching # 0 => C(n).launching \in Handle /\ C(n).launching # h
    BY <1>3, NearHandle, FreshName
  <2>10. Crewed(n)'
    <3>1. Crewed(n)
      BY <1>2 DEF NodeInv
    <3>2. Handles(X(n))' /\ Handles(disk.ex[n])'
      BY <1>4, <2>1, <2>4, <3>1 DEF Crewed, Handles, X
    <3> QED BY <1>1, <1>4, <2>4, <2>8, <2>9, <3>1, <3>2 DEF Crewed, C
  <2>11. Minded(n)'
    BY <1>1, <1>4, <2>2, <2>3, <2>4, <2>8, StaysMinded DEF C, X
  <2>12. Where(n)'
    BY <1>1, <1>2, <1>3, <1>4, <2>1, <2>2, <2>3, <2>4 DEF Where, Untold, Pending, Steered, X
  <2>13. NodeInv(n)'
    BY <1>1, <1>2, <1>4, <2>10, <2>11, <2>12 DEF NodeInv, About, C, X
  <2> QED BY <1>2, <2>5, <2>6, <2>7, <2>13, StepKeeps
<1>5. ASSUME Save([mem EXCEPT !.ex[n].level = "owner"]), Go(n, Rest), worker' = worker
      PROVE  ChainsInv'
  <2>1. x2 \in ExTypes /\ x2.id = X(n).id /\ x2.cursor = X(n).cursor /\ x2.handler = X(n).handler
    BY <1>2 DEF ExTypes
  <2>2. mem' = [mem EXCEPT !.count = mem.count, !.ex[n] = x2] /\ disk' = mem'
    BY <1>2, <1>5 DEF Save, TypeInv, Mems, X
  <2>3. Around'
    BY <1>1, <1>2, <1>5 DEF TypeInv, Around
  <2>4. x2.handler # 0 => x2.handler \in Handle /\ worker[x2.handler].role = "handler"
    BY <1>2, <2>1 DEF NodeInv, Crewed, Handles
  <2> HIDE DEF x2
  <2> QED BY <1>1, <1>2, <1>3, <1>5, <2>1, <2>2, <2>3, <2>4, RestFacts, HandledStep
<1> HIDE DEF v, t
<1> QED BY <1>4, <1>5 DEF Hire, v, t

LEMMA TakeRulingStep ==
  ASSUME ChainsInv, NEW n \in Node, TakeRuling(n)
  PROVE  ChainsInv'
<1> DEFINE t == [Rest EXCEPT !.at = "judge", !.err = "tick", !.src = "handler"]
<1>1. /\ Takes(n) /\ Pending(n) /\ Ruled(n) /\ Go(n, t) /\ todo' = todo \ {n}
      /\ UNCHANGED <<mem, disk, worker, seen, stage, threw, file, closed, hist, counts>>
  BY DEF TakeRuling
<1>2. Acts(n) /\ stage = "except" /\ task[n].at = "rest" /\ TypeInv
  BY <1>1, TakesFacts
<1>3. /\ t \in Tasks /\ t.at = "judge" /\ t.src = "handler" /\ t.then = "none"
  BY DEF Rest, Tasks, Labels, Causes, Thens, Sources
<1> HIDE DEF t
<1>4. task'[n] = t /\ mem' = mem /\ seen' = seen
  BY <1>1, <1>2 DEF Go, TypeInv
<1>5. Where(n)'
  BY <1>1, <1>3, <1>4 DEF Where, Untold, Ruled, Handled, Pending, X
<1>6. todo' \subseteq Node
  BY <1>1, <1>2 DEF TypeInv, Around
<1> QED BY <1>1, <1>2, <1>3, <1>5, <1>6, MoveStep

LEMMA JudgeStep ==
  ASSUME ChainsInv, NEW n \in Node, Judge(n)
  PROVE  ChainsInv'
<1> DEFINE x2 == [X(n) EXCEPT !.handler = 0]
           m == [mem EXCEPT !.ex[n] = x2]
           a == seen[X(n).handler].rep
<1>1. /\ task[n].at = "judge" /\ Retire(X(n).handler)
      /\ UNCHANGED <<seen, stage, todo, threw, closed, cut, raised>>
  BY DEF Judge, Going
<1>2. /\ Acts(n) /\ TypeInv /\ NodeInv(n) /\ Where(n) /\ X(n) \in ExTypes /\ C(n) \in ChainTypes
      /\ stage = "except" /\ mem \in Mems /\ Near(mem, n)
  BY <1>1, WhoActs, StageFacts, FreshName, NearMem DEF ChainsInv, Staged, Acts
<1>3. (\A h \in Handle : Tame(h)) /\ Calm(n) /\ worker' \in [Handle -> Threads] /\ spared' \subseteq Handle
  BY <1>1, RetireFacts
<1>4. Around'
  BY <1>1, <1>2, <1>3 DEF TypeInv, Around
<1>5. Pending(n) /\ X(n).handler # 0 /\ seen[X(n).handler].turn > 0
  BY <1>1, <1>2 DEF Where
<1>6. [mem EXCEPT !.ex[n].handler = 0] = m
  BY <1>2 DEF Mems, X
<1>7. CASE CarriesOn(n)
  <2>1. /\ Save(Unheld([m EXCEPT !.ex[n] = NoEx], n))
        /\ file' = [file EXCEPT ![n] = NoFile] /\ Go(n, Rest)
    BY <1>6, <1>7 DEF Judge
  <2>2. [m EXCEPT !.ex[n] = NoEx] = [mem EXCEPT !.ex[n] = NoEx]
    BY <1>2 DEF Mems
  <2>3. C(n).handle # 0 /\ C(n).handle \in Handle
    BY <1>7, NearHandle DEF CarriesOn
  <2>4. ASSUME worker'[C(n).handle].st = "idle", worker'[C(n).handle].turn <= C(n).cursor
        PROVE  C(n).launching # 0
    <3>1. CASE seen[C(n).handle].turn > X(n).cursor
      BY <1>3, <1>5, <2>3, <2>4, <3>1, NewsCares
    <3>2. CASE seen[C(n).handle].st = "working"
      <4>1. /\ worker[C(n).handle].st = "idle"
            /\ worker[C(n).handle].turn <= C(n).cursor
        BY <1>3, <2>3, <2>4 DEF Tame
      <4>2. C(n).cursor <= seen[C(n).handle].turn
        BY <1>2, <2>3, <3>2 DEF NodeInv, Crewed
      <4>3. ~(worker[C(n).handle].turn > seen[C(n).handle].turn)
        BY <1>2, <2>3, <4>1, <4>2, WorkerTypes, FreshName
      <4> QED BY <2>3, <3>2, <4>1, <4>3 DEF ChainsInv, Polled
    <3> QED BY <1>7, <3>1, <3>2 DEF CarriesOn
  <2> QED BY <1>1, <1>2, <1>3, <1>4, <1>5, <2>1, <2>2, <2>4, RestFacts, EndedStep
<1>8. CASE ~CarriesOn(n)
  <2>1. Apply(m, n, a, "handler") /\ file' = file
    BY <1>6, <1>8 DEF Judge
  <2>2. x2 \in ExTypes /\ x2.id = X(n).id /\ x2.handler = 0 /\ x2.cursor = X(n).cursor
    BY <1>2 DEF ExTypes
  <2>3. X(n).handler \in Handle /\ worker[X(n).handler].role = "handler"
    BY <1>2, <1>5 DEF NodeInv, Crewed, Handles
  <2>4. a \in Rules
    BY <1>5, <2>3 DEF ChainsInv, Polled
  <2> HIDE DEF x2, a
  <2>5. Apart(m, mem, n) /\ m.chain[n] = C(n) /\ m.ex[n] = x2 /\ m.count = mem.count
    BY <1>2, <2>2 DEF Apart, Mems, C
  <2> HIDE DEF m
  <2>6. Near(m, n)
    BY <1>2, <2>2, <2>5 DEF Near, C
  <2>7. Has(n) /\ X(n).cursor = C(n).cursor
    BY <1>2, <1>5 DEF NodeInv, Paired, Pending, Has
  <2> QED BY <1>1, <1>2, <1>3, <1>4, <1>5, <2>1, <2>2, <2>4, <2>5, <2>6, <2>7, ApplyStep
<1> QED BY <1>7, <1>8

LEMMA TakeLostStep ==
  ASSUME ChainsInv, NEW n \in Node, TakeLost(n)
  PROVE  ChainsInv'
<1>1. /\ Takes(n) /\ Pending(n) /\ Apply(mem, n, "escalate", "handler") /\ todo' = todo \ {n}
      /\ UNCHANGED <<worker, seen, stage, threw, file, closed, cut, spared, raised>>
  BY DEF TakeLost, hist
<1>2. /\ Acts(n) /\ stage = "except" /\ task[n].at = "rest" /\ TypeInv /\ NodeInv(n) /\ Near(mem, n)
      /\ C(n) \in ChainTypes /\ X(n) \in ExTypes
  BY <1>1, TakesFacts
<1>3. Around' /\ Calm(n) /\ \A h \in Handle : Tame(h)
  BY <1>1, <1>2, SameWorkers DEF TypeInv, Around
<1>4. Has(n) /\ X(n).cursor = C(n).cursor
  BY <1>1, <1>2 DEF NodeInv, Paired, Pending, Has
<1>5. mem.chain[n] = C(n) /\ mem.ex[n] = X(n) /\ "escalate" \in Rules
  BY DEF C, X, Rules
<1> QED BY <1>1, <1>2, <1>3, <1>4, <1>5, ApplyStep

----------------------------------------------------------------------------
(* The tick, the workers, the owner and the process.                        *)

(* The program does nothing; the workers are told or die.                   *)
LEMMA QuietStep ==
  ASSUME ChainsInv, \A h \in Handle : Tame(h), Around', stage' \in Stages, Staged',
         UNCHANGED <<mem, disk, seen, task, file, cut, raised>>
  PROVE  ChainsInv'
<1>1. TypeInv' /\ Named'
  BY DEF ChainsInv, TypeInv, Named, C
<1>2. ASSUME NEW h \in Handle
      PROVE  Polled(h)'
  BY WorkerTypes DEF ChainsInv, Polled, Tame, C
<1>3. ASSUME NEW n \in Node
      PROVE  NodeInv(n)'
  <2>1. NodeInv(n) /\ (C(n).handle # 0 => C(n).handle \in Handle)
        /\ (C(n).launching # 0 => C(n).launching \in Handle) /\ disk.chain[n].handle = C(n).handle
    BY NearHandle DEF ChainsInv, Named
  <2>2. Paired(C(n), X(n))' /\ Paired(disk.chain[n], disk.ex[n])'
    BY <2>1 DEF NodeInv, Paired, C, X
  <2>3. Handles(X(n))' /\ Handles(disk.ex[n])'
    BY <2>1 DEF NodeInv, Crewed, Handles, Tame, X
  <2>4. Crewed(n)'
    BY <2>1, <2>3 DEF NodeInv, Crewed, Tame, C
  <2>5. Cared(C(n)) => Cared(C(n))'
    BY <2>1 DEF Cared, Tame, C
  <2>6. Cared(disk.chain[n]) => Cared(disk.chain[n])'
    BY <2>1 DEF Cared, Tame
  <2>7. Minded(n)'
    BY <2>1, <2>5, <2>6 DEF NodeInv, Minded, Known, Untold, Answering, Excused, Steered, C, X
  <2>8. About(n)'
    BY <2>1 DEF NodeInv, About, X
  <2>9. Where(n)'
    BY <2>1 DEF NodeInv, Where, Has, Pending, Untold, Steered, Tame, C, X
  <2> QED BY <2>2, <2>4, <2>7, <2>8, <2>9 DEF NodeInv
<1> QED BY <1>1, <1>2, <1>3 DEF ChainsInv

LEMMA RestStep ==
  ASSUME ChainsInv, UNCHANGED <<mem, disk, worker, seen, task, file, cut, spared, closed, raised>>,
         todo' \subseteq Node, threw' \in BOOLEAN, stage' \in Stages, Staged'
  PROVE  ChainsInv'
<1>1. Around' /\ \A h \in Handle : Tame(h)
  BY SameWorkers DEF ChainsInv, TypeInv, Around
<1> QED BY <1>1, QuietStep

LEMMA TickSteps ==
  ASSUME ChainsInv, VisitsOver \/ TickOver \/ Boot \/ (\E n \in Node : TakeNothing(n)) \/ UNCHANGED vars
  PROVE  ChainsInv'
<1>1. /\ UNCHANGED <<mem, disk, worker, seen, task, file, cut, spared, closed, raised>>
      /\ todo' \subseteq Node /\ threw' \in BOOLEAN /\ stage' \in Stages
  BY DEF VisitsOver, TickOver, Boot, TakeNothing, ChainsInv, TypeInv, Around, Stages, hist, vars
<1>2. Staged'
  BY <1>1 DEF VisitsOver, TickOver, Boot, TakeNothing, ChainsInv, Staged, Quiet, vars
<1> QED BY <1>1, <1>2, RestStep

(* Nothing is under way where the tick is off or the process down.          *)
LEMMA QuietFacts ==
  ASSUME ChainsInv, stage \in {"off", "down"}, NEW n \in Node
  PROVE  task[n].at = "rest" /\ task[n].src = "none" /\ task[n].then # "answer"
BY DEF ChainsInv, Staged, Quiet, NodeInv, Where

LEMMA PollStep ==
  ASSUME ChainsInv, Poll
  PROVE  ChainsInv'
<1>1. /\ stage = "off" /\ stage' = "visit" /\ todo' = Node /\ threw' = FALSE
      /\ UNCHANGED <<mem, disk, worker, task, file, closed, cut, spared, raised>>
      /\ TypeInv
  BY DEF Poll, hist, ChainsInv
<1>2. ASSUME NEW h \in Handle
      PROVE  /\ seen'[h] \in Threads
             /\ \/ seen'[h] = worker[h]
                \/ /\ seen'[h].st = "gone" /\ seen'[h].turn = seen[h].turn
                   /\ seen'[h].role = seen[h].role /\ seen'[h].rep = seen[h].rep
  <2>1. seen[h] \in Threads /\ worker[h] \in Threads
    BY WorkerTypes, <1>1
  <2>2. seen'[h] = IF worker[h].st = "gone" THEN [seen[h] EXCEPT !.st = "gone"] ELSE worker[h]
    BY DEF Poll
  <2> QED BY <2>1, <2>2 DEF Threads
<1>3. seen' \in [Handle -> Threads]
  <2>1. seen' = [h \in Handle |-> seen'[h]]
    BY DEF Poll
  <2> QED BY <2>1, <1>2
<1>4. TypeInv' /\ Named'
  BY <1>1, <1>3 DEF ChainsInv, TypeInv, Named, Around, Stages, C
<1>5. Staged'
  BY <1>1, QuietFacts DEF Staged
<1>6. ASSUME NEW h \in Handle
      PROVE  Polled(h)'
  <2>1. Polled(h) /\ worker'[h] = worker[h] /\ mem' = mem /\ worker[h].turn \in Nat
    BY <1>1, WorkerTypes DEF ChainsInv
  <2>2. CASE seen'[h] = worker[h]
    BY <2>1, <2>2 DEF Polled
  <2>3. CASE seen'[h].st = "gone" /\ seen'[h].turn = seen[h].turn
             /\ seen'[h].role = seen[h].role /\ seen'[h].rep = seen[h].rep
    BY <2>1, <2>3 DEF Polled
  <2> QED BY <1>2, <2>2, <2>3
<1>7. ASSUME NEW n \in Node
      PROVE  NodeInv(n)'
  <2>1. NodeInv(n) /\ (C(n).handle # 0 => C(n).handle \in Handle) /\ C(n)' = C(n) /\ X(n)' = X(n)
    BY <1>1, NearHandle DEF ChainsInv, C, X
  <2>2. Paired(C(n), X(n))' /\ Paired(disk.chain[n], disk.ex[n])'
    BY <1>1, <2>1 DEF NodeInv, Paired
  <2>3. Crewed(n)'
    <3>1. C(n).handle # 0 /\ seen'[C(n).handle].st = "working"
            => C(n).cursor <= seen'[C(n).handle].turn
      BY <1>2, <2>1 DEF NodeInv, Crewed
    <3> QED BY <1>1, <2>1, <3>1 DEF NodeInv, Crewed, Handles
  <2>4. Minded(n)' /\ About(n)'
    BY <1>1, <2>1 DEF NodeInv, Minded, About, Cared, Known, Untold, Answering, Excused, Steered
  <2>5. task'[n] = task[n] /\ task[n].at = "rest" /\ task[n].src = "none" /\ task[n].then # "answer"
    BY <1>1, QuietFacts
  <2>6. Where(n)'
    BY <2>5 DEF Where, Untold
  <2> QED BY <2>2, <2>3, <2>4, <2>6 DEF NodeInv
<1> QED BY <1>4, <1>5, <1>6, <1>7 DEF ChainsInv

(* A crash makes the saved chain the chain again.                           *)
LEMMA CrashStep ==
  ASSUME ChainsInv, Crash
  PROVE  ChainsInv'
<1>1. /\ mem' = disk /\ stage' = "down" /\ todo' = {} /\ threw' = FALSE
      /\ cut' = cut \cup {n \in Node : Unsaid(n)}
      /\ spared' = spared \cup {task[n].n : n \in {k \in Node : task[k].at = "hired"}}
      /\ task' = [n \in Node |-> Rest] /\ seen' = [h \in Handle |-> Unborn]
      /\ UNCHANGED <<disk, worker, file, closed, raised>>
      /\ TypeInv
  BY DEF Crash, ChainsInv
<1>2. spared' \subseteq Handle
  BY <1>1 DEF ChainsInv, NodeInv, Where, TypeInv, Around
<1>3. Unborn \in Threads /\ Unborn.turn = 0 /\ Unborn.st = "none"
  BY DEF Unborn, Threads
<1>4. TypeInv'
  BY <1>1, <1>2, <1>3, RestFacts DEF TypeInv, Around, Stages
<1>5. Named'
  BY <1>1 DEF ChainsInv, Named, C
<1>6. Staged'
  BY <1>1, RestFacts DEF Staged, Quiet
<1>7. ASSUME NEW h \in Handle
      PROVE  Polled(h)'
  <2>1. /\ Polled(h) /\ worker'[h] = worker[h] /\ mem'.count = mem.count /\ worker[h].turn \in Nat
        /\ seen'[h] = Unborn
    BY <1>1, WorkerTypes DEF ChainsInv, Named
  <2> QED BY <1>3, <2>1 DEF Polled
<1>8. ASSUME NEW n \in Node
      PROVE  NodeInv(n)'
  <2>1. /\ NodeInv(n) /\ (C(n).handle # 0 => C(n).handle \in Handle)
        /\ C(n)' = disk.chain[n] /\ X(n)' = disk.ex[n]
        /\ disk.chain[n].handle = C(n).handle /\ disk.chain[n].launching = C(n).launching
        /\ task'[n] = Rest
    BY <1>1, NearHandle DEF ChainsInv, Named, C, X
  <2>2. Paired(C(n), X(n))' /\ Paired(disk.chain[n], disk.ex[n])'
    BY <1>1, <2>1 DEF NodeInv, Paired
  <2>3. Crewed(n)'
    BY <1>1, <1>3, <2>1 DEF NodeInv, Crewed, Handles
  <2>4. Minded(n)'
    <3>1. Untold(n) /\ disk.chain[n].cursor = C(n).cursor => n \in cut'
      BY <1>1 DEF Unsaid, Untold
    <3>2. Excused(n) => Excused(n)'
      BY <1>1 DEF Excused, Steered
    <3>3. /\ Cared(disk.chain[n]) => Cared(disk.chain[n])' /\ Cared(C(n))'
          /\ Known(disk.chain[n], disk.ex[n]) =>
               Known(disk.chain[n], disk.ex[n])' /\ Known(C(n), X(n))'
      BY <1>1, <2>1 DEF Cared, Known
    <3>4. n \in cut' => Excused(n)'
      BY DEF Excused
    <3> QED BY <2>1, <3>1, <3>2, <3>3, <3>4, RestFacts DEF NodeInv, Minded
  <2>5. About(n)'
    BY <1>1, <2>1 DEF NodeInv, About
  <2>6. Where(n)'
    BY <2>1, RestFacts DEF Where, Untold
  <2> QED BY <2>2, <2>3, <2>4, <2>5, <2>6 DEF NodeInv
<1> QED BY <1>4, <1>5, <1>6, <1>7, <1>8 DEF ChainsInv

Ended(w, i, r) == [w EXCEPT !.st = "idle", !.turn = i, !.rep = r]

LEMMA TurnEnds ==
  ASSUME NEW w \in Threads, NEW i \in Nat, NEW r \in Reports \cup Rulings
  PROVE  LET v == Ended(w, i, r) IN
           /\ v \in Threads /\ v.st = "idle" /\ v.turn = i /\ v.rep = r /\ v.role = w.role
BY DEF Threads, Ended

(* The end of a turn is news to the chain whose worker it is.               *)
LEMMA EndTurnStep ==
  ASSUME ChainsInv, NEW h \in Handle, NEW r, EndTurn(h, r)
  PROVE  ChainsInv'
<1> DEFINE i == worker[h].turn + 1
           v == Ended(worker[h], i, r)
<1>1. /\ stage \in {"off", "down"} /\ worker[h].st = "working"
      /\ r \in IF worker[h].role = "handler" THEN Rulings ELSE Reports
      /\ UNCHANGED <<mem, disk, seen, task, stage, todo, threw, file, closed, cut, spared, raised>>
      /\ TypeInv
  BY DEF EndTurn, hist, ChainsInv
<1>2. worker[h] \in Threads /\ worker[h].turn \in Nat /\ seen[h].turn \in Nat
  BY <1>1, WorkerTypes
<1>3. worker' = [worker EXCEPT ![h] = v]
  BY <1>1, <1>2 DEF EndTurn, TypeInv, Around, Ended
<1>4. /\ v \in Threads /\ v.st = "idle" /\ v.turn = worker[h].turn + 1 /\ v.rep = r
      /\ v.role = worker[h].role
  <2>1. r \in Reports \cup Rulings
    BY <1>1
  <2>2. i \in Nat /\ i = worker[h].turn + 1
    BY <1>2
  <2> HIDE DEF i
  <2> QED BY <1>2, <2>1, <2>2, TurnEnds
<1> HIDE DEF v
<1>5. /\ worker' \in [Handle -> Threads] /\ worker'[h] = v
      /\ \A k \in Handle \ {h} : worker'[k] = worker[k]
  BY <1>1, <1>3, <1>4 DEF TypeInv, Around
<1>6. TypeInv' /\ Named' /\ Staged'
  BY <1>1, <1>5 DEF ChainsInv, TypeInv, Named, Staged, Quiet, Around, C
<1>7. ASSUME NEW k \in Handle
      PROVE  Polled(k)'
  <2>1. CASE k = h
    <3>1. Polled(h) /\ (worker[h].role = "handler" => r \in Rules)
      BY <1>1, ChainAssumption DEF ChainsInv, ChainAssumption, Rules
    <3> QED BY <1>1, <1>2, <1>4, <1>5, <2>1, <3>1 DEF Polled
  <2>2. CASE k # h
    BY <1>1, <1>5, <2>2 DEF ChainsInv, Polled, C
  <2> QED BY <2>1, <2>2
<1>8. ASSUME NEW n \in Node
      PROVE  NodeInv(n)'
  <2>1. /\ NodeInv(n) /\ (C(n).handle # 0 => C(n).handle \in Handle)
        /\ (C(n).launching # 0 => C(n).launching \in Handle)
        /\ C(n)' = C(n) /\ X(n)' = X(n) /\ disk.chain[n].handle = C(n).handle
    BY <1>1, NearHandle DEF ChainsInv, Named, C, X
  <2>2. /\ C(n).cursor \in Nat /\ disk.chain[n].cursor \in Nat
    BY FreshName, ChainFields
  <2>3. Paired(C(n), X(n))' /\ Paired(disk.chain[n], disk.ex[n])'
    BY <1>1, <2>1 DEF NodeInv, Paired
  <2>4. Handles(X(n))' /\ Handles(disk.ex[n])'
    BY <1>1, <1>4, <1>5, <2>1 DEF NodeInv, Crewed, Handles
  <2>5. Crewed(n)'
    BY <1>1, <1>2, <1>4, <1>5, <2>1, <2>2, <2>4 DEF NodeInv, Crewed
  <2>6. Cared(C(n)) => Cared(C(n))'
    BY <1>1, <1>2, <1>4, <1>5, <2>1, <2>2 DEF NodeInv, Crewed, Cared
  <2>7. Cared(disk.chain[n]) => Cared(disk.chain[n])'
    BY <1>1, <1>2, <1>4, <1>5, <2>1, <2>2 DEF NodeInv, Crewed, Cared
  <2>8. task'[n] = task[n] /\ task[n].at = "rest" /\ task[n].src = "none" /\ task[n].then # "answer"
    BY <1>1, QuietFacts
  <2>9. Minded(n)'
    BY <1>1, <2>1, <2>6, <2>7, <2>8 DEF NodeInv, Minded, Known, Untold, Answering, Excused, Steered
  <2>10. About(n)' /\ Where(n)'
    BY <1>1, <2>1, <2>8 DEF NodeInv, About, Where, Untold
  <2> QED BY <2>3, <2>5, <2>9, <2>10 DEF NodeInv
<1> QED BY <1>6, <1>7, <1>8 DEF ChainsInv

LEMMA DieStep ==
  ASSUME ChainsInv, NEW h \in Handle, Die(h)
  PROVE  ChainsInv'
<1>1. /\ worker' = [worker EXCEPT ![h].st = "gone"]
      /\ UNCHANGED <<mem, disk, seen, task, stage, todo, threw, file, closed, cut, spared, raised>>
      /\ TypeInv /\ Staged
  BY DEF Die, hist, ChainsInv
<1>2. Around' /\ \A k \in Handle : Tame(k)
  BY <1>1 DEF TypeInv, Around, Threads, Tame
<1>3. Staged' /\ stage' \in Stages
  BY <1>1 DEF Staged, Quiet, TypeInv
<1> QED BY <1>1, <1>2, <1>3, QuietStep

LEMMA OwnerTellsStep ==
  ASSUME ChainsInv, NEW n \in Node, OwnerTells(n)
  PROVE  ChainsInv'
<1>1. /\ worker[C(n).handle].st = "idle" /\ C(n).handle # 0
      /\ worker' = [worker EXCEPT ![C(n).handle].st = "working"]
      /\ UNCHANGED <<mem, disk, seen, task, stage, todo, threw, file, closed, cut, spared, raised>>
      /\ TypeInv /\ Staged
  BY DEF OwnerTells, hist, ChainsInv
<1>2. Around' /\ \A k \in Handle : Tame(k)
  BY <1>1, NearHandle DEF TypeInv, Around, Threads, Tame
<1>3. Staged' /\ stage' \in Stages
  BY <1>1 DEF Staged, Quiet, TypeInv
<1> QED BY <1>1, <1>2, <1>3, QuietStep

(* A resolution is queued about the exception that is saved.                *)
LEMMA QueueStep ==
  ASSUME ChainsInv, NEW n \in Node, NEW a \in Rulings, Queue(n, a)
  PROVE  ChainsInv'
<1> DEFINE f == [act |-> a, about |-> disk.ex[n].id]
<1>1. /\ file[n] = NoFile /\ file' = [file EXCEPT ![n] = f]
      /\ UNCHANGED <<mem, disk, worker, seen, task, stage, todo, threw, closed, cut, spared, raised>>
      /\ TypeInv
  BY DEF Queue, Filed, hist, ChainsInv
<1>2. disk.ex[n].id \in Nat /\ a \in Rules
  BY FreshName, ExFields, ChainAssumption DEF ChainAssumption, Rules
<1>3. f \in Files /\ f.act = a /\ f.about = disk.ex[n].id /\ a # "none"
  BY <1>2 DEF Files, Rules
<1> HIDE DEF f
<1>4. /\ file'[n] = f /\ \A k \in Node \ {n} : file'[k] = file[k]
  BY <1>1 DEF TypeInv
<1>5. TypeInv' /\ Named' /\ Staged'
  BY <1>1, <1>3 DEF ChainsInv, TypeInv, Named, Staged, Quiet, Around, C
<1>6. ASSUME NEW h \in Handle
      PROVE  Polled(h)'
  BY <1>1 DEF ChainsInv, Polled, C
<1>7. ASSUME NEW k \in Node
      PROVE  NodeInv(k)'
  <2>1. NodeInv(k) /\ C(k)' = C(k) /\ X(k)' = X(k)
    BY <1>1 DEF ChainsInv, C, X
  <2>2. Paired(C(k), X(k))' /\ Paired(disk.chain[k], disk.ex[k])' /\ Crewed(k)'
    BY <1>1, <2>1 DEF NodeInv, Paired, Crewed, Handles
  <2>3. Steered(k) => Steered(k)'
    BY <1>1, <1>4, NoFileFacts DEF Steered
  <2>4. Minded(k)'
    BY <1>1, <2>1, <2>3 DEF NodeInv, Minded, Cared, Known, Untold, Answering, Excused
  <2>5. About(k)'
    <3>1. CASE k = n
      BY <1>1, <1>3, <1>4, <2>1, <3>1 DEF NodeInv, About
    <3>2. CASE k # n
      BY <1>1, <1>4, <2>1, <3>2 DEF NodeInv, About
    <3> QED BY <3>1, <3>2
  <2>6. Where(k)'
    BY <1>1, <2>1, <2>3 DEF NodeInv, Where, Has, Pending, Untold, C, X
  <2> QED BY <2>2, <2>4, <2>5, <2>6 DEF NodeInv
<1> QED BY <1>5, <1>6, <1>7 DEF ChainsInv

----------------------------------------------------------------------------
(* The theorems.                                                            *)

LEMMA InitInv == Init => ChainsInv
<1> SUFFICES ASSUME Init
             PROVE  ChainsInv
  OBVIOUS
<1>1. /\ mem = [chain |-> [n \in Node |-> Blank], ex |-> [n \in Node |-> NoEx], count |-> 0]
      /\ disk = mem /\ worker = [h \in Handle |-> Unborn] /\ seen = worker
      /\ task = [n \in Node |-> Rest] /\ stage = "off" /\ todo = {} /\ threw = FALSE
      /\ file = [n \in Node |-> NoFile] /\ closed = {} /\ cut = {} /\ spared = {} /\ raised = 0
  BY DEF Init
<1>2. Unborn \in Threads /\ Unborn.turn = 0 /\ Unborn.st = "none" /\ Unborn.role = "none"
  BY DEF Unborn, Threads
<1>3. mem \in Mems /\ mem.count = 0
  BY <1>1, BlankFacts DEF Mems
<1>4. TypeInv
  BY <1>1, <1>2, <1>3, RestFacts, NoFileFacts DEF TypeInv, Around, Stages
<1>5. \A n \in Node : /\ C(n) = Blank /\ X(n) = NoEx /\ disk.chain[n] = Blank /\ disk.ex[n] = NoEx
                      /\ task[n] = Rest /\ file[n] = NoFile
  BY <1>1 DEF C, X
<1>6. Named /\ Staged
  BY <1>1, <1>3, <1>5, BlankFacts, RestFacts, ChainAssumption DEF Named, Staged, Quiet, ChainAssumption
<1>7. ASSUME NEW h \in Handle
      PROVE  Polled(h)
  BY <1>1, <1>2 DEF Polled
<1>8. ASSUME NEW n \in Node
      PROVE  NodeInv(n)
  <2>1. Paired(C(n), X(n)) /\ Paired(disk.chain[n], disk.ex[n])
    BY <1>5, BlankFacts DEF Paired
  <2>2. Crewed(n) /\ Minded(n)
    BY <1>5, BlankFacts, RestFacts DEF Crewed, Handles, Minded, Cared, Known
  <2>3. About(n) /\ Where(n)
    BY <1>5, BlankFacts, RestFacts DEF About, Where, Untold
  <2> QED BY <2>1, <2>2, <2>3 DEF NodeInv
<1> QED BY <1>4, <1>6, <1>7, <1>8 DEF ChainsInv

LEMMA NextInv == ChainsInv /\ [Next]_vars => ChainsInv'
<1> SUFFICES ASSUME ChainsInv, [Next]_vars
             PROVE  ChainsInv'
  OBVIOUS
<1>1. CASE Poll \/ Crash
  BY <1>1, PollStep, CrashStep
<1>2. CASE VisitsOver \/ TickOver \/ Boot \/ UNCHANGED vars
  BY <1>2, TickSteps
<1>3. ASSUME NEW n \in Node, Visit(n)
      PROVE  ChainsInv'
  BY <1>3, NothingStep, StartStep, ResumeStep, GoLandStep, DeadStep, StallStep, NudgeStep,
     WithdrawStep, WithdrawnStep DEF Visit
<1>4. ASSUME NEW n \in Node, OnReport(n)
      PROVE  ChainsInv'
  BY <1>4, OnTroubleStep, OnWaitingStep, OnCheckpointStep, OnErrorStep, OnDoneStep DEF OnReport
<1>5. ASSUME NEW n \in Node, StartPhase(n)
      PROVE  ChainsInv'
  BY <1>5, StopStep, FindStep, SpawnStep, UpStep, TellStep, LandStep DEF StartPhase
<1>6. ASSUME NEW n \in Node, HandleException(n)
      PROVE  ChainsInv'
  <2>1. TakeNothing(n) => ChainsInv'
    BY TickSteps
  <2> QED BY <1>6, <2>1, TakeSteeringStep, TakeHandoverStep, TakeResolutionStep, TakeHireStep, HireStep,
             HiredStep, TakeRulingStep, JudgeStep, TakeLostStep, DiscardStep, UnfileStep
          DEF HandleException
<1>7. ASSUME NEW n \in Node, OwnerTells(n) \/ \E a \in Rulings : Queue(n, a)
      PROVE  ChainsInv'
  BY <1>7, OwnerTellsStep, QueueStep
<1>8. ASSUME NEW h \in Handle, Die(h) \/ \E r \in Reports \cup Rulings : EndTurn(h, r)
      PROVE  ChainsInv'
  BY <1>8, DieStep, EndTurnStep
<1> QED BY <1>1, <1>2, <1>3, <1>4, <1>5, <1>6, <1>7, <1>8 DEF Next

(* In every state of a run, and after every crash, the chains, what is saved *)
(* of them and their workers belong together: no worker is of two chains, a  *)
(* chain and its exception are saved as a pair, and whoever waits is minded  *)
(* by somebody, in memory and in the state file alike.                      *)
THEOREM ChainsInvariant == Spec => []ChainsInv
<1> QED BY InitInv, NextInv, PTL DEF Spec

(* A chain is held between two ticks only behind an exception, or until the  *)
(* resolution queued for it is tried again.                                 *)
THEOREM HeldNodesArePending == Spec => []HeldIsPending
<1>1. ASSUME ChainsInv, Between, NEW n \in Node, C(n).held
      PROVE  Pending(n) \/ Filed(n) \/ n \in cut
  <2>1. task[n].at = "rest" /\ NodeInv(n)
    BY <1>1 DEF Between, Quiet, ChainsInv
  <2>2. X(n).id # 0 \/ Steered(n) \/ n \in cut
    BY <1>1, <2>1 DEF NodeInv, Minded, Answering, Known, Excused
  <2> QED BY <2>2, NoFileFacts DEF Steered, Pending, Filed
<1>2. ChainsInv => HeldIsPending
  BY <1>1 DEF HeldIsPending
<1> QED BY <1>2, ChainsInvariant, PTL

(* No worker that is idle with its last report taken up is left without     *)
(* anything that will move its chain on.                                    *)
THEOREM NoWorkerForgotten == Spec => []NotForgotten
<1>1. ASSUME ChainsInv, Between, NEW n \in Node, C(n).handle # 0,
             worker[C(n).handle].st = "idle", worker[C(n).handle].turn <= C(n).cursor
      PROVE  \/ C(n).waiting \/ C(n).held \/ C(n).phase = "integrate" \/ C(n).launching # 0
             \/ Filed(n) \/ n \in cut
  <2>1. task[n].at = "rest" /\ NodeInv(n)
    BY <1>1 DEF Between, Quiet, ChainsInv
  <2>2. Cared(C(n)) \/ Steered(n) \/ n \in cut
    BY <2>1 DEF NodeInv, Minded, Untold, Excused
  <2> QED BY <1>1, <2>2, NoFileFacts DEF Steered, Cared, Filed
<1>2. ChainsInv => NotForgotten
  BY <1>1 DEF NotForgotten
<1> QED BY <1>2, ChainsInvariant, PTL

(* A resolution is applied to the exception it was queued about, whatever    *)
(* was withdrawn, raised again, replayed or lost in between.                *)
THEOREM AnswersTheirException == Spec => NeverALaterOne
<1>1. ChainsInv /\ [Next]_vars => [\A n \in Node : TakeResolution(n) => file[n].about = X(n).id]_vars
  BY TakeResolutionStep
<1> QED BY <1>1, ChainsInvariant, PTL DEF Spec, NeverALaterOne
================================================================================
