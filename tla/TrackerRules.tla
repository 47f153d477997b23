----------------------------- MODULE TrackerRules -----------------------------
(* The rules of the tracker, over a graph of issues: which graph is accepted, *)
(* when an issue is complete, and which issues are offered for work, as the   *)
(* tracker's command line says it (scripts/issues.ts) and as a reconciler     *)
(* says it for one collector (lib/reconcile/scheduling.ts).                   *)
(*                                                                            *)
(* A graph is a function from the slugs that exist to rows                    *)
(*   [up, blocked, guarded, stage, agent, claim, later, archived]:            *)
(* the parent or None, the slugs that block it, whether a guard does, its own *)
(* stage or None, whether an agent may take it, who claims it or None,        *)
(* whether it is deferred (priority 4), and whether its file is archived.     *)
EXTENDS Integers, FiniteSets, FiniteSetsExt

CONSTANT None  \* an omitted field
-------------------------------------------------------------------------------
STAGES == <<"idea", "goal", "spec", "ticket", "done">>
Rank(stage) == CHOOSE n \in DOMAIN STAGES : STAGES[n] = stage

children(s, all) == {c \in DOMAIN all : all[c].up = s}

(* The stage an issue has reached with its children.                          *)
effectiveStage(all) ==
  LET own(s) == IF all[s].stage = None THEN "done" ELSE all[s].stage
      rank[s \in DOMAIN all] ==
        IF all[s].archived THEN Rank("done")
        ELSE Min({Rank(own(s))} \cup {rank[c] : c \in children(s, all)})
  IN  [s \in DOMAIN all |-> STAGES[rank[s]]]

complete(all) ==
  LET stage == effectiveStage(all) IN {s \in DOMAIN all : stage[s] = "done"}

(* A cycle is a set of rows each of which leads to another of the set.        *)
Cyclic(next) ==
  \E T \in SUBSET DOMAIN next \ {{}} : \A s \in T : next[s] \cap T # {}

PartOf(all) == [s \in DOMAIN all |-> {all[s].up}]
BlockedBy(all) == [s \in DOMAIN all |-> all[s].blocked]
(* An issue is complete only after what blocks it and after its children.     *)
Completion(all) ==
  [s \in DOMAIN all |-> IF all[s].archived THEN {}
                        ELSE all[s].blocked \cup {c \in children(s, all) : ~all[c].archived}]

(* A mutant: each relation alone has no cycle.                                *)
ValidApart(all) ==
  /\ ~Cyclic(PartOf(all))
  /\ ~Cyclic(BlockedBy(all))
  /\ \A s \in DOMAIN all : all[s].stage = None => children(s, all) # {}

validateGraph(all) ==
  /\ ~Cyclic(PartOf(all))
  /\ ~Cyclic(BlockedBy(all))
  /\ ~Cyclic(Completion(all))
  /\ \A s \in DOMAIN all :
       /\ all[s].stage = None => children(s, all) # {}
       /\ all[s].archived => all[s].stage = "done"

(* An issue with its live descendants, those below an archived one left out.  *)
subtree(s, all) ==
  LET above[d \in DOMAIN all] ==
        \/ d = s
        \/ ~all[d].archived /\ all[d].up \in DOMAIN all /\ above[all[d].up]
  IN  {d \in DOMAIN all : above[d]}

Ready(stage) == stage \in {"spec", "ticket"}

-------------------------------------------------------------------------------
(* model(): the row of the command line, and whether it is on the frontier.   *)
OpenNodes(s, all, done) == {n \in subtree(s, all) : ~all[n].archived /\ n \notin done}

Remaining(nodes, all) == {n \in nodes : all[n].stage \notin {None, "done"}}

openBlockers(n, all, done) == all[n].blocked \ done

Claimed(s, all) == \E n \in subtree(s, all) : ~all[n].archived /\ all[n].claim # None

frontier(all, explicit) ==
  LET stage == effectiveStage(all)
      done == {s \in DOMAIN all : stage[s] = "done"}
  IN  {s \in DOMAIN all :
         LET nodes == OpenNodes(s, all, done)
             left == Remaining(nodes, all)
         IN  /\ ~all[s].archived
             /\ Ready(stage[s])
             /\ left # {} /\ \A n \in left : all[n].agent
             /\ UNION {openBlockers(n, all, done) : n \in nodes} \subseteq subtree(s, all)
             /\ \A n \in nodes : ~all[n].guarded
             /\ ~Claimed(s, all)
             /\ explicit \/ \A n \in nodes : ~all[n].later}

-------------------------------------------------------------------------------
(* schedulingView(): the same for one collector.  landed are the issues whose *)
(* result it contains, withheld those of an unfinished refinement, and        *)
(* ignored the claims of the run itself.                                      *)
Seeded(all, landed, withheld) ==
  LET done == complete(all)
  IN  {s \in DOMAIN all \ withheld : all[s].archived \/ s \in done \/ s \in landed}

ViewRank(all, landed, withheld) ==
  LET own(s) == IF all[s].stage = None THEN "done" ELSE all[s].stage
      seeded == Seeded(all, landed, withheld)
      rank[s \in DOMAIN all] ==
        IF s \in seeded THEN Rank("done")
        ELSE Min({Rank(own(s))} \cup {rank[c] : c \in children(s, all)})
  IN  rank

Satisfied(all, landed, withheld) ==
  LET rank == ViewRank(all, landed, withheld)
      seeded == Seeded(all, landed, withheld)
      satisfied[s \in DOMAIN all] ==
        \/ s \in seeded
        \/ /\ s \notin withheld
           /\ rank[s] = Rank("done")
           /\ \A c \in children(s, all) : satisfied[c]
  IN  {s \in DOMAIN all : satisfied[s]}

(* A reservation stands even on a child that has landed.                      *)
Reserved(s, all, ignored) ==
  \E n \in subtree(s, all) : ~all[n].archived /\ all[n].claim \notin ignored \cup {None}

schedulingView(all, landed, withheld, ignored, explicit) ==
  LET satisfied == Satisfied(all, landed, withheld)
      rank == ViewRank(all, landed, withheld)
  IN  {s \in DOMAIN all :
         LET scope == subtree(s, all)
             nodes == {n \in scope : ~all[n].archived /\ n \notin satisfied}
             left == Remaining(nodes, all)
         IN  /\ ~all[s].archived
             /\ Ready(STAGES[rank[s]])
             /\ left # {} /\ \A n \in left : all[n].agent
             /\ \A n \in nodes : ~all[n].guarded /\ all[n].blocked \subseteq scope \cup satisfied
             /\ ~Reserved(s, all, ignored)
             /\ explicit \/ \A n \in nodes : ~all[n].later
             /\ scope \cap withheld = {}}
=============================================================================
