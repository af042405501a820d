----------------------------- MODULE MCBattery -----------------------------
(* Values for checking Battery: charging, nothing, idle, riding, a glitch. *)
EXTENDS Battery

MCCurrents == {-1, 0, 1, 2, 3}

=============================================================================
