----------------------------- MODULE MCLanding -----------------------------
(* Trees and bounds for model-checking Landing.                            *)
EXTENDS Landing, TLC

CONSTANTS root, mid, leaf

(* A root over an inner node that has a leaf: entries are carried twice.    *)
ChainParent == (root :> Owner) @@ (mid :> root) @@ (leaf :> mid)
ChainAbove  == (root :> {}) @@ (mid :> {root}) @@ (leaf :> {root, mid})

(* A root with one leaf.                                                    *)
PairParent == (root :> Owner) @@ (leaf :> root)
PairAbove  == (root :> {}) @@ (leaf :> {root})
=============================================================================
