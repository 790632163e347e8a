--------------------------- MODULE MCSv2Connection ---------------------------
(* A block and its successor, two solutions, and two version bits, one of   *)
(* which a miner may roll, for TLC.                                         *)
EXTENDS Sv2Connection, TLC

CONSTANTS g, a1, weak, strong

MCBlock == {g, a1}
MCHeight == (g :> 1) @@ (a1 :> 2)
MCQuality == (weak :> 1) @@ (strong :> 3)
MCShareQuality == (weak :> 1)

=============================================================================
