------------------------------- MODULE MCPickup -------------------------------
(* Small instances of Pickup for TLC.                                         *)
EXTENDS Pickup, TLC

CONSTANTS tree, leaf, me, you

Row(up, stage, claim) ==
  [up |-> up, blocked |-> {}, guarded |-> FALSE, stage |-> stage, agent |-> TRUE,
   claim |-> claim, later |-> FALSE, archived |-> FALSE]

(* A tree that is shaped, claimed by a person, carried out and closed, and its*)
(* leaf, which is ready before the tree is.                                   *)
Rows(stage, claim, own) == (tree :> Row(None, stage, claim)) @@ (leaf :> Row(tree, own, None))
Written ==
  {Rows(stage, claim, own) : stage \in {"goal", "spec", "done"}, claim \in {None, you}, own \in {"ticket", "done"}}
Shaped == Rows("goal", None, "ticket")
===============================================================================
