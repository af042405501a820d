----------------------------- MODULE MCDisplay -----------------------------
(* Values for checking Display. *)
EXTENDS Display

=============================================================================
