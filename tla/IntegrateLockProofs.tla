------------------------- MODULE IntegrateLockProofs -------------------------
(***************************************************************************)
(* For any processes and any callers: exclusion is lost in IntegrateLock   *)
(* only by the removal of a directory in use, and when one process at a    *)
(* time runs no such removal happens, so that exclusion holds.             *)
(***************************************************************************)
EXTENDS IntegrateLock, TLAPS

(* The directory a caller made is there for its whole turn, with the pid of *)
(* its process once it is at work.                                          *)
TurnsOwnTheLock ==
  ~stolen =>
    \A c \in Caller :
      InTurn(c) =>
        /\ lock # Absent
        /\ lock.maker = c
        /\ pc[c] = "in" => lock.pid = Of[c]

(* What one process at a time adds: one process lives, and one synchronous  *)
(* stretch runs, and what a caller read of a directory whose maker is at    *)
(* work is the pid of that one process.                                     *)
OneAtATime ==
  /\ ~stolen
  /\ \A p, q \in Process : proc[p] = "alive" /\ proc[q] = "alive" => p = q
  /\ \A c, d \in Caller : pc[c] \in Sync /\ pc[d] \in Sync => c = d
  /\ \A c, d \in Caller :
       pc[d] = "in" =>
         /\ pc[c] \notin {"check", "steal"}
         /\ pc[c] = "judge" => saw[c].pid = Of[c]

(* A directory with a maker, a pid and an age is there.                     *)
LEMMA AbsentIsNoDirectory ==
  ASSUME NEW c \in Caller, NEW p \in Process \cup {NoPid}
  PROVE  Absent # [maker |-> c, pid |-> p, aged |-> FALSE]
<1>1. [maker |-> c, pid |-> p, aged |-> FALSE] \in
        [maker : Caller, pid : Process \cup {NoPid}, aged : BOOLEAN]
  OBVIOUS
<1> QED BY <1>1, CallerAssumption DEF CallerAssumption

(* Before a process starts there is no directory and no caller under way.   *)
LEMMA TypeInit == Init => TypeOK
<1> SUFFICES ASSUME Init PROVE TypeOK
  OBVIOUS
<1>1. saw \in [Caller -> [pid : Process \cup {NoPid}, aged : BOOLEAN]]
  BY DEF Init
<1>2. proc \in [Process -> {"unborn", "alive", "dead"}]
  BY DEF Init
<1>3. pc \in [Caller -> {"out", "asleep", "in"} \cup Sync]
  BY DEF Init
<1> QED BY <1>1, <1>2, <1>3 DEF Init, TypeOK

(* Every step of locked(), of a process or of the clock keeps TypeOK.       *)
LEMMA TypeStep == TypeOK /\ [Next]_vars => TypeOK'
<1> SUFFICES ASSUME TypeOK, [Next]_vars PROVE TypeOK'
  OBVIOUS
<1> USE CallerAssumption DEF CallerAssumption
<1>1. CASE UNCHANGED vars
  BY <1>1 DEF vars, TypeOK
<1>2. CASE \E p \in Process : Boot(p)
  BY <1>2 DEF Boot, TypeOK
<1>3. CASE \E p \in Process : Crash(p)
  <2> PICK p \in Process : Crash(p)
    BY <1>3
  <2> QED BY DEF Crash, TypeOK
<1>4. CASE Age
  BY <1>4 DEF Age, TypeOK
<1>5. ASSUME NEW c \in Caller, Call(c) \/ Step(c)
      PROVE  TypeOK'
  <2> USE DEF TypeOK, Runs, Sync
  <2>1. CASE Call(c)
    BY <2>1 DEF Call
  <2>2. CASE Mkdir(c)
    BY <2>2 DEF Mkdir
  <2>3. CASE Exists(c)
    BY <2>3 DEF Exists
  <2>4. CASE WritePid(c)
    <3>1. lock # Absent => lock' \in [maker : Caller, pid : Process \cup {NoPid}, aged : BOOLEAN]
      <4> SUFFICES ASSUME lock # Absent
                   PROVE  lock' \in [maker : Caller, pid : Process \cup {NoPid}, aged : BOOLEAN]
        OBVIOUS
      <4>1. lock \in [maker : Caller, pid : Process \cup {NoPid}, aged : BOOLEAN]
        OBVIOUS
      <4>2. lock.maker \in Caller
        BY <4>1, Zenon
      <4>3. Of[c] \in Process \cup {NoPid}
        OBVIOUS
      <4>4. lock' = [maker |-> lock.maker, pid |-> Of[c], aged |-> FALSE]
        BY <2>4 DEF WritePid
      <4> HIDE DEF TypeOK, CallerAssumption
      <4> QED BY <4>2, <4>3, <4>4
    <3>2. lock' \in {Absent} \cup [maker : Caller, pid : Process \cup {NoPid}, aged : BOOLEAN]
      BY <2>4, <3>1 DEF WritePid
    <3>3. pc' \in [Caller -> {"out", "asleep", "in"} \cup Sync]
      BY <2>4 DEF WritePid
    <3>4. UNCHANGED <<proc, saw, stolen>>
      BY <2>4 DEF WritePid
    <3>5. \A d \in Caller : pc'[d] # "out" => pc[d] # "out"
      BY <2>4 DEF WritePid
    <3> QED BY <3>2, <3>3, <3>4, <3>5
  <2>5. CASE Stat(c)
    BY <2>5 DEF Stat
  <2>6. CASE ReadPid(c)
    BY <2>6 DEF ReadPid
  <2>7. CASE Check(c)
    BY <2>7 DEF Check
  <2>8. CASE Judge(c)
    BY <2>8 DEF Judge
  <2>9. CASE Steal(c)
    BY <2>9 DEF Steal
  <2>10. CASE Leave(c)
    BY <2>10 DEF Leave
  <2> QED BY <1>5, <2>1, <2>2, <2>3, <2>4, <2>5, <2>6, <2>7, <2>8, <2>9, <2>10 DEF Step
<1> QED BY <1>1, <1>2, <1>3, <1>4, <1>5 DEF Next

(* The type invariant of locked(): directory, pid, what each caller read    *)
(* and where it is stay in their types, and only a living process's callers *)
(* are under way.                                                           *)
THEOREM LockTypeCorrect == Spec => []TypeOK
<1>1. Init => TypeOK
  BY TypeInit
<1>2. TypeOK /\ [Next]_vars => TypeOK'
  BY TypeStep
<1> QED BY <1>1, <1>2, PTL DEF Spec

----------------------------------------------------------------------------
(* mkdir, the pid, the release and every look at the directory keep the     *)
(* makers' hold on their directories; a removal either hits a directory no  *)
(* one uses or is recorded in stolen.                                       *)
LEMMA TurnsStep ==
  TypeOK /\ TurnsOwnTheLock /\ [Next]_vars => TurnsOwnTheLock'
<1> SUFFICES ASSUME TypeOK, TurnsOwnTheLock, [Next]_vars, ~stolen'
             PROVE  TurnsOwnTheLock'
  BY DEF TurnsOwnTheLock
<1> USE CallerAssumption DEF CallerAssumption, TypeOK, TurnsOwnTheLock, InTurn, Sync
<1>1. CASE UNCHANGED vars
  BY <1>1 DEF vars
<1>2. CASE \E p \in Process : Boot(p)
  BY <1>2 DEF Boot
<1>3. CASE \E p \in Process : Crash(p)
  BY <1>3 DEF Crash
<1>4. CASE Age
  BY <1>4 DEF Age
<1>5. ASSUME NEW c \in Caller, Call(c) \/ Step(c)
      PROVE  TurnsOwnTheLock'
  <2>1. CASE Call(c)
    BY <2>1 DEF Call
  <2>2. CASE Mkdir(c)
    <3>1. lock' = [maker |-> c, pid |-> NoPid, aged |-> FALSE]
      BY <2>2 DEF Mkdir
    <3>2. Absent # [maker |-> c, pid |-> NoPid, aged |-> FALSE]
      BY AbsentIsNoDirectory
    <3>3. lock' # Absent /\ lock'.maker = c
      BY <3>1, <3>2
    <3>4. \A d \in Caller \ {c} : ~InTurn(d)
      BY <2>2 DEF Mkdir
    <3> QED BY <2>2, <3>3, <3>4 DEF Mkdir
  <2>3. CASE Exists(c)
    BY <2>3 DEF Exists
  <2>4. CASE WritePid(c)
    <3>1. lock.maker = c /\ lock # Absent
      BY <2>4 DEF WritePid
    <3>2. lock' = [maker |-> c, pid |-> Of[c], aged |-> FALSE]
      BY <2>4, <3>1 DEF WritePid
    <3>3. lock' # Absent /\ lock'.maker = c /\ lock'.pid = Of[c]
      BY <3>2, AbsentIsNoDirectory
    <3>4. \A d \in Caller \ {c} : ~InTurn(d)
      BY <2>4, <3>1 DEF WritePid
    <3> QED BY <2>4, <3>3, <3>4 DEF WritePid
  <2>5. CASE Stat(c)
    BY <2>5 DEF Stat
  <2>6. CASE ReadPid(c)
    BY <2>6 DEF ReadPid
  <2>7. CASE Check(c)
    BY <2>7 DEF Check
  <2>8. CASE Judge(c)
    BY <2>8 DEF Judge
  <2>9. CASE Steal(c)
    BY <2>9 DEF Steal
  <2>10. CASE Leave(c)
    BY <2>10 DEF Leave
  <2> QED BY <1>5, <2>1, <2>2, <2>3, <2>4, <2>5, <2>6, <2>7, <2>8, <2>9, <2>10 DEF Step
<1> QED BY <1>1, <1>2, <1>3, <1>4, <1>5 DEF Next

(* Two callers whose directories are the one that is there are the same.    *)
LEMMA TurnsExclude == TypeOK /\ TurnsOwnTheLock => ExclusionUnlessStolen
BY DEF TypeOK, TurnsOwnTheLock, ExclusionUnlessStolen, Exclusion, InTurn

(* Whatever the processes, the callers and the crashes: two callers are at  *)
(* work together only after somebody removed a directory in use.            *)
THEOREM ExclusionUntilStolen == Spec => []ExclusionUnlessStolen
<1>1. Init => TypeOK /\ TurnsOwnTheLock
  BY TypeInit DEF Init, TurnsOwnTheLock, InTurn
<1>2. TypeOK /\ TurnsOwnTheLock /\ [Next]_vars => (TypeOK /\ TurnsOwnTheLock)'
  BY TypeStep, TurnsStep
<1> QED BY <1>1, <1>2, TurnsExclude, PTL DEF Spec

----------------------------------------------------------------------------
(* With one process at a time, what a caller reads of a directory in one    *)
(* synchronous stretch is still so when it judges and removes it.           *)
LEMMA AloneStep ==
  Alone /\ TypeOK /\ TurnsOwnTheLock /\ OneAtATime /\ [Next]_vars => OneAtATime'
<1> SUFFICES ASSUME Alone, TypeOK, TurnsOwnTheLock, OneAtATime, [Next]_vars
             PROVE  OneAtATime'
  OBVIOUS
<1> USE CallerAssumption DEF CallerAssumption, TypeOK, TurnsOwnTheLock, OneAtATime, InTurn, Sync
<1>1. CASE UNCHANGED vars
  BY <1>1 DEF vars
<1>2. CASE \E p \in Process : Boot(p)
  BY <1>2 DEF Boot
<1>3. CASE \E p \in Process : Crash(p)
  BY <1>3 DEF Crash
<1>4. CASE Age
  BY <1>4 DEF Age
<1>5. ASSUME NEW c \in Caller, Call(c) \/ Step(c)
      PROVE  OneAtATime'
  <2>0. \A d \in Caller \ {c} : pc[d] # "out" => Of[d] = Of[c] /\ pc[d] \notin Sync
    BY <1>5 DEF Call, Step, Mkdir, Exists, WritePid, Stat, ReadPid, Check, Judge, Steal, Leave, Runs
  <2>1. CASE Call(c)
    BY <2>0, <2>1 DEF Call
  <2>2. CASE Mkdir(c)
    BY <2>0, <2>2 DEF Mkdir
  <2>3. CASE Exists(c)
    BY <2>0, <2>3 DEF Exists
  <2>4. CASE WritePid(c)
    BY <2>0, <2>4 DEF WritePid
  <2>5. CASE Stat(c)
    BY <2>0, <2>5 DEF Stat
  <2>6. CASE ReadPid(c)
    BY <2>0, <2>6 DEF ReadPid
  <2>7. CASE Check(c)
    BY <2>0, <2>7 DEF Check
  <2>8. CASE Judge(c)
    BY <2>0, <2>8 DEF Judge, LeftBehind, Runs
  <2>9. CASE Steal(c)
    BY <2>0, <2>9 DEF Steal
  <2>10. CASE Leave(c)
    BY <2>0, <2>10 DEF Leave
  <2> QED BY <1>5, <2>1, <2>2, <2>3, <2>4, <2>5, <2>6, <2>7, <2>8, <2>9, <2>10 DEF Step
<1> QED BY <1>1, <1>2, <1>3, <1>4, <1>5 DEF Next

(* When at most one reconciler process of the repository runs at a time,    *)
(* whatever dies and leaves its directory behind and however many calls of  *)
(* locked() wait, two of them are never at work together.                   *)
THEOREM ExclusionWhenAlone == Alone => (Spec => []Exclusion)
<1> DEFINE Inv == TypeOK /\ TurnsOwnTheLock /\ OneAtATime
<1> SUFFICES ASSUME Alone PROVE Spec => []Exclusion
  OBVIOUS
<1>1. Init => Inv
  BY TypeInit DEF Init, TurnsOwnTheLock, InTurn, OneAtATime, Sync
<1>2. Inv /\ [Next]_vars => Inv'
  BY TypeStep, TurnsStep, AloneStep
<1>3. Inv => Exclusion
  BY TurnsExclude DEF OneAtATime, ExclusionUnlessStolen
<1> QED BY <1>1, <1>2, <1>3, PTL DEF Spec

============================================================================
