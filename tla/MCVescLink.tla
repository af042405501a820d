----------------------------- MODULE MCVescLink -----------------------------
(* Values for checking VescLink: the vesc thread asks several times, the    *)
(* IPC thread once, as often as a display asks for the profile.             *)
EXTENDS VescLink

BothThreads == {"vesc", "ipc"}

(* The first one accelerates alone, the second one brakes alone. *)
EachAlone == {"primary", "secondary"}
MCMaxQuestions == [vesc |-> 4, ipc |-> 2]

=============================================================================
