--------------------------- MODULE MCIntegrateLock ---------------------------
(* Small instances of IntegrateLock for TLC.                                *)
EXTENDS IntegrateLock, TLC

CONSTANTS p1, p2

(* Two callers in one process and one in another.                           *)
TwoAndOne == {<<p1, 1>>, <<p1, 2>>, <<p2, 1>>}

ProcessOf == [c \in Caller |-> c[1]]

=============================================================================
