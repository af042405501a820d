----------------------------- MODULE MCThrottle -----------------------------
(* Values for checking Throttle: released or pressed levers, a current that *)
(* ramps through the tension current on its way, all four saved modes.      *)
EXTENDS Throttle

MCThrottleMap == [l \in {0, 1} |-> IF l = 0 THEN 0 ELSE 2]
MCBrakeMap    == [l \in {0, 1} |-> l]

MCSavedModes == BOOLEAN \X BOOLEAN

=============================================================================
