------------------------------- MODULE MCVault -------------------------------
(* Small instances of Vault for TLC.                                          *)
EXTENDS Vault, TLC

CONSTANTS plan, part, use, past

Row(up, blocked, stage) ==
  [up |-> up, blocked |-> blocked, guarded |-> FALSE, stage |-> stage, agent |-> TRUE,
   claim |-> None, later |-> FALSE, archived |-> FALSE]

(* A plan split into one part, which still names a blocker long archived.     *)
Rows ==
  (plan :> Row(None, {}, None)) @@ (part :> Row(plan, {past}, "ticket"))
    @@ (past :> [Row(None, {}, "done") EXCEPT !.archived = TRUE])

Update(s, fields) == [cmd |-> "update", slug |-> s, fields |-> fields]

(* The new issue waits for the plan; made side by side with the update of its *)
(* part, the two would wait for each other.                                   *)
Asked ==
  { [cmd |-> "create", slug |-> use, row |-> Row(None, {plan}, "spec")],
    Update(part, "blocked" :> {use}), [cmd |-> "close", slug |-> part],
    [cmd |-> "fix"], [cmd |-> "remove", slug |-> use] }
=============================================================================
