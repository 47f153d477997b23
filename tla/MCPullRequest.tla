---------------------------- MODULE MCPullRequest ----------------------------
(* A pull-request landing on a small instance.                               *)
EXTENDS PullRequest
=============================================================================
