---------------------------- MODULE MCStatistics ----------------------------
(* Values for checking Statistics. *)
EXTENDS Statistics

=============================================================================
