---------------------------- MODULE MCGithubWrites ----------------------------
(* The GitHub tracker's writes on two tickets, the first of which blocks   *)
(* the second, and names for two created children.                         *)
EXTENDS GithubWrites
CONSTANTS first, second, new1, new2
MCTickets == {first, second}
MCFresh == {new1, new2}
MCBlocks == {<<first, second>>}
===============================================================================
