-------------------------- MODULE MCStratumSession --------------------------
(* Two competing blocks on one for TLC. *)
EXTENDS StratumSession, TLC

CONSTANTS g, a1, b1

MCBlock == {g, a1, b1}
MCHeight == (g :> 1) @@ (a1 :> 2) @@ (b1 :> 2)

MCPair == {g, a1}
MCPairHeight == (g :> 1) @@ (a1 :> 2)

=============================================================================
