----------------------------- MODULE MCRunControl -----------------------------
(* Small instances of RunControl for TLC.                                   *)
EXTENDS RunControl, TLC

(* Reconcilers are interchangeable, and so are start commands.              *)
Alike == Permutations(Pid \ Foreground) \cup Permutations(Starter)

=============================================================================
