--------------------------- MODULE MCSv2Admission ---------------------------
(* Four connections, three of them from one address, for TLC. *)
EXTENDS Sv2Admission, TLC

CONSTANTS c1, c2, c3, c4, a, b

MCConn == {c1, c2, c3, c4}
MCAddrOf == (c1 :> a) @@ (c2 :> a) @@ (c3 :> a) @@ (c4 :> b)

=============================================================================
