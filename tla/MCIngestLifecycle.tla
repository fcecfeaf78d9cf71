--------------------------- MODULE MCIngestLifecycle ---------------------------
(***************************************************************************)
(* IngestLifecycle for TLC: two sources, which the cfg makes model values. *)
(***************************************************************************)
EXTENDS IngestLifecycle

CONSTANTS a, b
=============================================================================
