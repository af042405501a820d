--------------------------- MODULE MCSettingsFile ---------------------------
(* Values for checking SettingsFile. *)
EXTENDS SettingsFile

=============================================================================
