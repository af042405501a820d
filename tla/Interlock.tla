----------------------------- MODULE Interlock -----------------------------
(***************************************************************************)
(* What the motor drive promises, whatever the number of controllers and   *)
(* however the current is split between them: the bike is driven, or it is *)
(* braked, never both, and it does not go from one to the other without    *)
(* first letting every motor coast.                                        *)
(***************************************************************************)

VARIABLE engaged   \* The kinds of current some motor applies at this moment.

Kind == {"drive", "brake"}

Init == engaged = {}

Engage == /\ engaged = {}
          /\ \E k \in Kind : engaged' = {k}

Release == /\ engaged # {}
           /\ engaged' = {}

Next == Engage \/ Release

Spec == Init /\ [][Next]_engaged

=============================================================================
