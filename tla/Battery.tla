------------------------------ MODULE Battery ------------------------------
(***************************************************************************)
(* The battery (backend/battery.cpp).  The main loop gives it a voltage    *)
(* and a current in every round.  After ten minutes of next to no current  *)
(* the battery rests: the voltage then tells its percentage, and what was  *)
(* counted from the current is added to the lifetime counter.  A ride      *)
(* between two rests that used enough gives a new estimate of the capacity. *)
(*                                                                         *)
(* Percentages are steps of the curve, amp hours are integers, and the     *)
(* capacity is what one step of the curve holds.  A round lasts one unit   *)
(* of time.  Commands of the display come between the two halves of a      *)
(* round; one that falls between the load and the store of an addition is  *)
(* lost, which is the same as one that was never given.                    *)
(***************************************************************************)
EXTENDS Integers

CONSTANTS
  Currents,            \* the amp hours a round may see; negative ones charge
  idleMaxDischargingCurrent, idleMaxChargingCurrent,
  Glitch,              \* more than a round can hold: 20 Ah in the code
  voltageSettlingTime, \* in rounds
  accumulatedAmpHoursThreshold,
  Percentages,
  Capacities,          \* what the settings file or the display gives
  Lifetimes,           \* amp hours used so far, given in the same way
  NonFinite,           \* an infinity, or no number
  MaxAmpHours          \* bound: amp hours counted in a run

ASSUME BatteryAssumption ==
  /\ Currents \subseteq Int /\ 0 \in Currents
  /\ {idleMaxDischargingCurrent, idleMaxChargingCurrent, MaxAmpHours} \subseteq Nat
  /\ {Glitch, voltageSettlingTime, accumulatedAmpHoursThreshold} \subseteq Nat \ {0}
  /\ Percentages \subseteq Nat /\ 0 \in Percentages
  /\ Capacities \subseteq Nat /\ Lifetimes \subseteq Nat
  /\ NonFinite \notin Int

VARIABLES
  half,                       \* the next half of a round: "count", "estimate"
  settled,                    \* rounds since the last one with a real current
  ampHoursUsedInElapsedTime, percentageVoltageBased,
  isVoltageBased,             \* the battery rests
  state_isVoltageBased,       \* it rested in the round before
  firstTime,
  savedVoltagePercentage,     \* at the last round of the last rest
  ampHoursLifetime_savedVoltagePercentage,   \* at its first round
  accAmpHours_abs,            \* counted since the last rest
  ampHoursUsedLifetime,
  cycleCount,                 \* whether it is a number
  ampHoursFullyCharged,
  estimate,                   \* AMPHOUR_ESTIMATE_T
  rest,                       \* history: percentages of the rest, or NoRest
  due,                        \* history: what the lifetime should come to
  known,                      \* history: the capacity was always a number > 0
  ride                        \* history: net amp hours of the last ride

roundVars   == <<half, settled, ampHoursUsedInElapsedTime,
                 percentageVoltageBased, isVoltageBased>>
percentVars == <<state_isVoltageBased, firstTime, savedVoltagePercentage,
                 ampHoursLifetime_savedVoltagePercentage>>
countVars   == <<accAmpHours_abs, ampHoursUsedLifetime, cycleCount>>
history     == <<rest, due, ride>>
vars == <<roundVars, percentVars, countVars, ampHoursFullyCharged, estimate,
          history, known>>

-----------------------------------------------------------------------------
(* Numbers *)

fabs(x) == IF x < 0 THEN -x ELSE x
Plus(x, y) == IF NonFinite \in {x, y} THEN NonFinite ELSE x + y

(* What a change of percentage is worth. *)
AmpHours(from, to) == IF ampHoursFullyCharged = NonFinite THEN NonFinite
                      ELSE fabs(ampHoursFullyCharged * (from - to))

(* A division by the capacity gives no number for a capacity of zero, which *)
(* is what a settings file without the key gives.                           *)
CyclesAdded(x) == cycleCount /\ x # NonFinite /\ ampHoursFullyCharged # 0

(* Nothing flows in a round that lasted too long. *)
Plausible(x) == IF fabs(x) >= Glitch THEN 0 ELSE x

-----------------------------------------------------------------------------
(* The first half of processLoop: rest or not, and the lifetime counter *)

Quiet(current) == /\ current <= idleMaxDischargingCurrent
                  /\ -current <= idleMaxChargingCurrent
Rests(current) == Quiet(current) /\ settled >= voltageSettlingTime

(* Mutant: the state is not kept, each round of a rest counts as its first. *)
RestKept_Forgotten == UNCHANGED state_isVoltageBased
RestKept == state_isVoltageBased' = TRUE

RestBegins(percentage) ==
  /\ ~state_isVoltageBased
  /\ RestKept
  /\ ampHoursUsedLifetime' = Plus(ampHoursUsedLifetime, accAmpHours_abs)
  /\ cycleCount' = CyclesAdded(accAmpHours_abs)
  /\ ampHoursLifetime_savedVoltagePercentage' = percentage

RestGoesOn ==
  /\ state_isVoltageBased
  /\ UNCHANGED <<state_isVoltageBased, ampHoursUsedLifetime, cycleCount,
                 ampHoursLifetime_savedVoltagePercentage>>

(* Mutant: what was added to the lifetime counter is kept. *)
ResetCount_Forgotten == UNCHANGED accAmpHours_abs
ResetCount == accAmpHours_abs' = 0

Resting(percentage) ==
  /\ RestBegins(percentage) \/ RestGoesOn
  /\ ResetCount
  /\ savedVoltagePercentage' = percentage
  /\ UNCHANGED firstTime

(* What the percentage lost or gained at rest is counted when it ends. *)
Riding(amount, percentage) ==
  LET drift == IF state_isVoltageBased
               THEN AmpHours(ampHoursLifetime_savedVoltagePercentage,
                             savedVoltagePercentage)
               ELSE 0
  IN  /\ savedVoltagePercentage' = IF firstTime THEN percentage
                                   ELSE savedVoltagePercentage
      /\ firstTime' = FALSE
      /\ state_isVoltageBased' = FALSE
      /\ ampHoursUsedLifetime' = Plus(ampHoursUsedLifetime, drift)
      /\ cycleCount' = IF state_isVoltageBased THEN CyclesAdded(drift)
                                               ELSE cycleCount
      /\ accAmpHours_abs' = accAmpHours_abs + fabs(amount)
      /\ UNCHANGED ampHoursLifetime_savedVoltagePercentage

NoRest == <<>>

(* History: what a meter would see, that knows when the battery rests.      *)
Observe(rests, amount, percentage) ==
  /\ rest' = IF ~rests THEN NoRest
             ELSE IF rest = NoRest THEN <<percentage, percentage>>
             ELSE <<rest[1], percentage>>
  /\ due' = IF rests THEN due
            ELSE Plus(due, Plus(fabs(amount),
                      IF rest = NoRest THEN 0 ELSE AmpHours(rest[1], rest[2])))
  /\ ride' = IF rest = NoRest THEN ride + amount
             ELSE IF rests THEN ride ELSE amount

(* MaxAmpHours: afterwards the bike stands. *)
WithinBound(current, percentage) ==
  due = NonFinite \/ due >= MaxAmpHours
    => current = 0 /\ percentage = percentageVoltageBased

Count(current, percentage) ==
  /\ half = "count" /\ half' = "estimate"
  /\ WithinBound(current, percentage)
  /\ ampHoursUsedInElapsedTime' = Plausible(current)
  /\ percentageVoltageBased' = percentage
  /\ isVoltageBased' = Rests(current)
  /\ settled' = IF ~Quiet(current) THEN 1
                ELSE IF settled < voltageSettlingTime THEN settled + 1
                ELSE settled
  /\ IF Rests(current) THEN Resting(percentage)
                       ELSE Riding(Plausible(current), percentage)
  /\ Observe(Rests(current), Plausible(current), percentage)
  /\ UNCHANGED <<ampHoursFullyCharged, estimate, known>>

-----------------------------------------------------------------------------
(* The second half: a new estimate of the capacity *)

Known(capacity) == capacity \notin {0, NonFinite}

Start ==
  /\ estimate.state = "START"
  /\ estimate' = IF isVoltageBased
                 THEN [estimate EXCEPT !.state = "START_TO_RUNNING",
                                       !.start = percentageVoltageBased]
                 ELSE estimate
  /\ UNCHANGED ampHoursFullyCharged

(* The amp hours of the first round of the ride are left out. *)
StartToRunning ==
  /\ estimate.state = "START_TO_RUNNING"
  /\ estimate' = IF isVoltageBased
                 THEN [estimate EXCEPT !.start = percentageVoltageBased]
                 ELSE [estimate EXCEPT !.state = "RUNNING", !.accAmpHours = 0]
  /\ UNCHANGED ampHoursFullyCharged

(* Mutant: a ride that used too little goes on with the next one. *)
TooLittle_GoesOn == "RUNNING"
TooLittle == "START"

Running ==
  LET acc == estimate.accAmpHours + ampHoursUsedInElapsedTime
  IN  /\ estimate.state = "RUNNING"
      /\ estimate' =
           IF ~isVoltageBased THEN [estimate EXCEPT !.accAmpHours = acc]
           ELSE IF acc < accumulatedAmpHoursThreshold
           THEN [estimate EXCEPT !.accAmpHours = acc, !.state = TooLittle]
           ELSE [estimate EXCEPT !.accAmpHours = acc, !.state = "END",
                                 !.end = percentageVoltageBased]
      /\ UNCHANGED ampHoursFullyCharged

(* A division by no change of percentage gives an infinity, and the capacity *)
(* stays one.                                                               *)
Averaged(estimated) ==
  IF ampHoursFullyCharged = 0 THEN estimated
  ELSE IF NonFinite \in {ampHoursFullyCharged, estimated} THEN NonFinite
  ELSE (ampHoursFullyCharged + estimated) \div 2

End ==
  LET delta == estimate.start - estimate.end
  IN  /\ estimate.state = "END"
      /\ estimate' = [estimate EXCEPT !.state = "START"]
      /\ ampHoursFullyCharged' =
           IF delta < 0 THEN ampHoursFullyCharged
           ELSE Averaged(IF delta = 0 THEN NonFinite
                         ELSE estimate.accAmpHours \div delta)

Estimate ==
  /\ half = "estimate" /\ half' = "count"
  /\ Start \/ StartToRunning \/ Running \/ End
  /\ known' = (known /\ Known(ampHoursFullyCharged'))
  /\ UNCHANGED <<settled, ampHoursUsedInElapsedTime, percentageVoltageBased,
                 isVoltageBased, percentVars, countVars, history>>

-----------------------------------------------------------------------------
(* The commands SET_AMPHOURS_USED_LIFETIME and SET_AMPHOURS_CHARGED *)

setAmpHoursUsedLifetime(newValue) ==
  /\ ampHoursUsedLifetime' = newValue
  /\ due' = newValue + accAmpHours_abs
  /\ UNCHANGED <<roundVars, percentVars, accAmpHours_abs, cycleCount,
                 ampHoursFullyCharged, estimate, rest, ride, known>>

setAmpHoursFullyCharged(newValue) ==
  /\ ampHoursFullyCharged' = newValue
  /\ known' = (known /\ Known(newValue))
  /\ UNCHANGED <<roundVars, percentVars, countVars, estimate, history>>

-----------------------------------------------------------------------------

(* The backend starts: the settings file gives the counters and the         *)
(* capacity; what was counted since the last rest is not kept.              *)
Init ==
  /\ half = "count" /\ settled = 0
  /\ ampHoursUsedInElapsedTime = 0 /\ percentageVoltageBased = 0
  /\ isVoltageBased = FALSE /\ state_isVoltageBased = FALSE
  /\ firstTime = TRUE
  /\ savedVoltagePercentage = 0
  /\ ampHoursLifetime_savedVoltagePercentage = 0
  /\ accAmpHours_abs = 0 /\ cycleCount = TRUE
  /\ ampHoursUsedLifetime \in Lifetimes /\ due = ampHoursUsedLifetime
  /\ ampHoursFullyCharged \in Capacities
  /\ estimate = [state |-> "START", start |-> 0, end |-> 0, accAmpHours |-> 0]
  /\ rest = NoRest /\ ride = 0
  /\ known = Known(ampHoursFullyCharged)

Next ==
  \/ \E current \in Currents, percentage \in Percentages :
       Count(current, percentage)
  \/ Estimate
  \/ \E lifetime \in Lifetimes : setAmpHoursUsedLifetime(lifetime)
  \/ \E capacity \in Capacities : setAmpHoursFullyCharged(capacity)

Spec == Init /\ [][Next]_vars

-----------------------------------------------------------------------------
(* Properties *)

Numbers == Nat \cup {NonFinite}

(* Every variable has the type of the variable it stands for, and the state *)
(* that is kept from round to round agrees with the one found in this round *)
(* (battery.cpp:197-226).                                                   *)
TypeOK ==
  /\ half \in {"count", "estimate"}
  /\ settled \in 0..voltageSettlingTime
  /\ ampHoursUsedInElapsedTime \in Int
  /\ percentageVoltageBased \in Percentages
  /\ isVoltageBased \in BOOLEAN
  /\ state_isVoltageBased = isVoltageBased
  /\ firstTime \in BOOLEAN
  /\ savedVoltagePercentage \in Percentages
  /\ ampHoursLifetime_savedVoltagePercentage \in Percentages
  /\ accAmpHours_abs \in Nat
  /\ ampHoursUsedLifetime \in Numbers
  /\ cycleCount \in BOOLEAN
  /\ ampHoursFullyCharged \in Numbers
  /\ estimate \in [state : {"START", "START_TO_RUNNING", "RUNNING", "END"},
                   start : Percentages, end : Percentages, accAmpHours : Int]

(* "do this only once every isVoltageBased change" (battery.cpp:185): every *)
(* amp hour of a ride and every change of percentage at rest reaches the    *)
(* lifetime counter once, through any sequence of rides, rests and          *)
(* commands.  Unless the capacity was zero or infinite at some time, that   *)
(* counter and the counter of cycles stay numbers.                          *)
AmpHoursCountedOnce ==
  /\ Plus(ampHoursUsedLifetime, accAmpHours_abs) = due
  /\ known => ampHoursUsedLifetime # NonFinite /\ cycleCount

(* A capacity is estimated from one ride between two rests: the amp hours   *)
(* are those of that ride, save for its first round, and the percentages    *)
(* are those of the end of the rest before it and of the begin of the rest  *)
(* after it (battery.cpp:249-313).                                          *)
EstimateMeasuresRide ==
  half = "count" =>
    /\ estimate.state \in {"RUNNING", "END"}
         => fabs(ride - estimate.accAmpHours) < Glitch
    /\ estimate.state = "RUNNING"
         => ~isVoltageBased /\ estimate.start = savedVoltagePercentage
    /\ estimate.state = "END"
         => /\ isVoltageBased /\ estimate.end = savedVoltagePercentage
            /\ estimate.accAmpHours >= accumulatedAmpHoursThreshold

=============================================================================
