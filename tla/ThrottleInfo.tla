---------------------------- MODULE ThrottleInfo ----------------------------
(***************************************************************************)
(* throttle_info (backend/main.cpp): the record through which the throttle *)
(* thread tells the vesc thread what to ask of the motors.  Throttle and   *)
(* MotorDrive share it, and nothing else.                                  *)
(***************************************************************************)
EXTENDS Integers

VARIABLE throttle_info

ThrottleRequest == [is_accelerating : BOOLEAN, requested_current : Nat,
                    maximum_current : Nat]

(* What it says before the throttle thread has run. *)
Idle == [is_accelerating |-> TRUE, requested_current |-> 0, maximum_current |-> 1]

(* A request for current to drive with. *)
Drives(request) == request.is_accelerating /\ request.requested_current > 0

=============================================================================
