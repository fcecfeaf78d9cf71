----------------------------- MODULE MCNodeAuthority -----------------------------
(***************************************************************************)
(* NodeAuthority for TLC: the server of one Session boots twice, that of   *)
(* the other once.  Tokens are interchangeable.                            *)
(***************************************************************************)
EXTENDS NodeAuthority, TLC

CONSTANTS s1, s2, b1, b2, b3

MCSessions == {s1, s2}
MCBoots == {b1, b2, b3}
MCSessionOf == (b1 :> s1) @@ (b2 :> s1) @@ (b3 :> s2)

Symmetry == Permutations(Tokens)
=============================================================================
