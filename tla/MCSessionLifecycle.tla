--------------------------- MODULE MCSessionLifecycle ---------------------------
(***************************************************************************)
(* SessionLifecycle for TLC.  The workers are interchangeable when all of  *)
(* them are asked to prepare.                                              *)
(***************************************************************************)
EXTENDS SessionLifecycle, TLC

WorkerSymmetry == Permutations(Workers)
=============================================================================
