---------------------------- MODULE MCPrepareCapacity ----------------------------
(***************************************************************************)
(* PrepareCapacity for TLC: two requests, two Sessions of one user, two     *)
(* keys, two transport targets.                                             *)
(***************************************************************************)
EXTENDS PrepareCapacity, TLC

CONSTANTS p1, p2, s1, s2, u1, k1, k2, c1, c2

(* p1 serves the first request and its repetitions; p2 these too, requests that
   name another target under the same key, and requests of another client. *)
MCAsks == p1 :> {<<k1, c1>>} @@ p2 :> {<<k1, c1>>, <<k1, c2>>, <<k2, c2>>}
=============================================================================
