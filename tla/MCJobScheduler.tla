--------------------------- MODULE MCJobScheduler ---------------------------
(* An instance of JobScheduler for TLC. *)
EXTENDS JobScheduler, TLC

CONSTANTS retention, staleness

(* A slow job and a fast one. *)
MCInterval == (retention :> 2) @@ (staleness :> 1)
=============================================================================
