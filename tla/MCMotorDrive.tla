---------------------------- MODULE MCMotorDrive ----------------------------
(* Values for checking MotorDrive: two controllers, or one that is          *)
(* configured twice, and currents that halve and split 9 to 1 without       *)
(* vanishing.  The bikes with a lossy wire are told apart by their          *)
(* secondary controller, the one with id 2.                                 *)
EXTENDS MotorDrive

MCSecondaryIDs == {0, 1, 2}
MCAvgCurrents == {-10, 0, 10}
MCLossyWires == {s \in Settings : s.secondaryVESCID = 2}

=============================================================================
