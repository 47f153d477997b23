-------------------------- MODULE LandingContract --------------------------
(***************************************************************************)
(* What the landing protocol promises, without a process, memory, saves,   *)
(* branches or workers: issues are filed, each lands once, nothing lands   *)
(* under a landed ancestor, and only when the root has landed are the      *)
(* landed issues closed, children before parents.                          *)
(***************************************************************************)
CONSTANTS Nodes, Root, Parent, Above

VARIABLES
  filed,   \* issues that exist
  ledger,  \* issues whose reviewed code is durably landed
  done     \* issues closed in the tracker

File(n) ==
  /\ n \notin filed
  /\ filed' = filed \cup {n}
  /\ UNCHANGED <<ledger, done>>

Land(n) ==
  /\ n \in filed \ ledger
  /\ Above[n] \cap ledger = {}
  /\ ledger' = ledger \cup {n}
  /\ UNCHANGED <<filed, done>>

Close(n) ==
  /\ Root \in ledger
  /\ n \in ledger \ done
  /\ \A m \in ledger \ done : Parent[m] # n
  /\ done' = done \cup {n}
  /\ UNCHANGED <<filed, ledger>>

Init == filed = {Root} /\ ledger = {} /\ done = {}
Next == \E n \in Nodes : File(n) \/ Land(n) \/ Close(n)
Spec == Init /\ [][Next]_<<filed, ledger, done>>
=============================================================================
