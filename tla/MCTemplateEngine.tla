-------------------------- MODULE MCTemplateEngine --------------------------
(* A chain of two branches for TLC: g - a1 - a2, g - b1. *)
EXTENDS TemplateEngine, TLC

CONSTANTS g, a1, a2, b1

(* Heights start at 1: the program takes a template of height 0 for none. *)
MCBlock == {g, a1, a2, b1}
MCParent == (g :> NoBlock) @@ (a1 :> g) @@ (b1 :> g) @@ (a2 :> a1)
MCHeight == (g :> 1) @@ (a1 :> 2) @@ (b1 :> 2) @@ (a2 :> 3)
MCUnbuildable == {[prev |-> b, gen |-> 1] : b \in MCBlock}

(* A chain on which the node advances twice, for the liveness run: its     *)
(* first template on a1 cannot be built, all later ones can.               *)
MCChain == {g, a1, a2}
MCChainParent == (g :> NoBlock) @@ (a1 :> g) @@ (a2 :> a1)
MCChainHeight == (g :> 1) @@ (a1 :> 2) @@ (a2 :> 3)
MCChainUnbuildable == {[prev |-> a1, gen |-> 0]}

(* One competing pair, for the run in which the node refuses a block. *)
MCPair == {g, a1, b1}
MCPairParent == (g :> NoBlock) @@ (a1 :> g) @@ (b1 :> g)
MCPairHeight == (g :> 1) @@ (a1 :> 2) @@ (b1 :> 2)

=============================================================================
