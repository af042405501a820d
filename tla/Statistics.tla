----------------------------- MODULE Statistics -----------------------------
(***************************************************************************)
(* The statistics of the bike (backend/main.cpp): two trips and the        *)
(* odometer.  The vesc thread adds distance, the main loop adds energy and *)
(* riding time, an IPC thread resets and sets.  No lock guards any of it:  *)
(* an addition is a load and a store.                                      *)
(*                                                                         *)
(* Distance is counted in ticks of the tachometer.  What the vesc thread   *)
(* finds in VESC.data after a question was answered is a reading of the    *)
(* primary controller, if need be one or more answers old, or a reading    *)
(* that went astray: of the second controller, or out of its turn.  How    *)
(* that happens is the matter of VescLink; here a reading may go astray at *)
(* any time, and they are counted.                                         *)
(*                                                                         *)
(* The settings file, which SettingsFile models, carries the statistics    *)
(* over a restart: here it is the values that a later start reads.         *)
(***************************************************************************)
EXTENDS Integers, Sequences, SequencesExt

CONSTANTS
  Fields,            \* the fields of a trip that are told apart
  BigStep,           \* 1000 ticks: no step between two readings is as big
  OdometerSettings,  \* what a display may set the odometer to
  Readings,          \* what a reading that goes astray may say
  MaxRolled,         \* bounds on the ticks that the wheel rolls,
  MaxRounds,         \*   on the additions of the main loop in one start,
  MaxCommands,       \*   on the resets and settings of the displays,
  MaxAstray,         \*   on the readings that go astray, and
  MaxStarts          \*   on the starts of the backend

ASSUME FieldsAssumption ==
  /\ "distance" \in Fields
  /\ Fields \subseteq {"distance", "wattHoursConsumed", "wattHoursRegenerated",
                       "rideTime"}
ASSUME StepAssumption == BigStep \in Nat \ {0}
ASSUME OdometerAssumption == OdometerSettings \cup Readings \subseteq Nat
ASSUME BoundsAssumption ==
  {MaxRolled, MaxRounds, MaxCommands, MaxAstray, MaxStarts} \subseteq Nat

Trips == {"trip_A", "trip_B"}

OdometerFields == {"distance", "rideTime"}
Cells == (Trips \X Fields) \cup ({"odometer"} \X (Fields \cap OdometerFields))
Zero  == [c \in Cells |-> 0]

Adders  == {"vesc", "main"}
Threads == Adders \cup {"ipc"}
None    == [held |-> FALSE, value |-> 0]

VARIABLES
  running,        \* the backend runs
  value,          \* trip_A, trip_B, odometer
  tachometerAbs,  \* of the primary motor controller
  tachometer_abs_previous,
  todo,           \* per thread, the stores still to come
  loaded,         \* per adder, the value an addition has loaded
  saved,          \* what a TOMLSave has written to the settings file
  rounds,         \* the main loop's additions, bounded
  commands,       \* the displays' resets and settings, bounded
  (* observed, not part of the program: *)
  rolled,         \* the ticks the wheel really rolled
  inOrder,        \* the last reading was the primary's, of its present run
  astray,         \* how many readings went astray, bounded
  starts,         \* how often the backend was started
  due,            \* per cell, what it was set to and was to be added since
  raced           \* the cells set between the load and store of an addition

threadVars == <<value, todo, loaded>>
dueVars    == <<rounds, due, raced>>
rideVars   == <<tachometerAbs, tachometer_abs_previous, rolled, inOrder, astray>>
vars == <<running, starts, threadVars, saved, commands, dueVars, rideVars>>

odo == <<"odometer", "distance">>

-----------------------------------------------------------------------------
(* Additions: trip_A.x += ..., trip_B.x += ..., odometer.x += ... *)

Job(c, a) == [cell |-> c, amount |-> a]

(* Mutant: the second trip is forgotten. *)
Additions_TripBForgotten(f, a) ==
  IF f \in OdometerFields
  THEN <<Job(<<"trip_A", f>>, a), Job(<<"odometer", f>>, a)>>
  ELSE <<Job(<<"trip_A", f>>, a)>>

Additions(f, a) ==
  IF f \in OdometerFields
  THEN <<Job(<<"trip_A", f>>, a), Job(<<"trip_B", f>>, a),
         Job(<<"odometer", f>>, a)>>
  ELSE <<Job(<<"trip_A", f>>, a), Job(<<"trip_B", f>>, a)>>

Idle(t) == running /\ todo[t] = <<>>

(* Mutant: a big step is taken for a long ride. *)
Distance_BigStepsCount(previous, current) ==
  IF previous > current THEN 0 ELSE current - previous

(* The tachometer went back to zero with its controller, or came from an    *)
(* earlier start of the backend: nothing is counted.                        *)
Distance(previous, current) ==
  IF previous > current \/ current - previous >= BigStep THEN 0
  ELSE current - previous

Count(f, amount) == [c \in Cells |-> due[c] + IF c[2] = f THEN amount ELSE 0]

(* VESCCombined.tachometerAbs: the primary's value of this moment or, if    *)
(* answers are late, one it has had since the last reading ...              *)
InOrder(reading) ==
  /\ \/ reading = tachometerAbs
     \/ inOrder /\ reading \in tachometer_abs_previous..tachometerAbs
  /\ inOrder' = TRUE
  /\ UNCHANGED astray

(* ... or anything else.  It may be the primary's all the same, of a moment *)
(* since which the wheel has turned by less than a big step: then those     *)
(* that follow it are in order.                                             *)
Astray(reading) ==
  /\ reading \in Readings
  /\ inOrder' = (tachometerAbs - reading \in 0..(BigStep - 1))
  /\ astray < MaxAstray /\ astray' = astray + 1

PossibleReadings ==
  Readings \cup {tachometerAbs} \cup tachometer_abs_previous..tachometerAbs

(* Mutant: the difference is taken as it is. *)
CountDistance_AnyDifference ==
  /\ Idle("vesc")
  /\ LET diff == tachometerAbs - tachometer_abs_previous
     IN  /\ todo' = [todo EXCEPT !["vesc"] =
                       IF diff # 0 THEN Additions("distance", diff) ELSE <<>>]
         /\ due' = Count("distance", diff)
  /\ InOrder(tachometerAbs) /\ tachometer_abs_previous' = tachometerAbs
  /\ UNCHANGED <<running, starts, value, loaded, saved, raced, tachometerAbs,
                 rolled, rounds, commands>>

(* The vesc thread has new telemetry. *)
CountDistance ==
  /\ Idle("vesc")
  /\ \E reading \in PossibleReadings :
       LET diff == Distance(tachometer_abs_previous, reading)
       IN  /\ InOrder(reading) \/ Astray(reading)
           /\ todo' = [todo EXCEPT !["vesc"] =
                         IF diff > 0 THEN Additions("distance", diff) ELSE <<>>]
           /\ due' = Count("distance", diff)
           /\ tachometer_abs_previous' = reading
  /\ UNCHANGED <<running, starts, value, loaded, saved, raced, tachometerAbs,
                 rolled, rounds, commands>>

(* The main loop, while the bike moves: energy was used or regenerated, or  *)
(* time has passed.                                                         *)
CountMain ==
  /\ Idle("main")
  /\ rounds < MaxRounds
  /\ rounds' = rounds + 1
  /\ \E f \in Fields \ {"distance"} :
       LET amount == IF f = "wattHoursRegenerated" THEN -1 ELSE 1
       IN  /\ todo' = [todo EXCEPT !["main"] = Additions(f, amount)]
           /\ due' = Count(f, amount)
  /\ UNCHANGED <<running, starts, value, loaded, saved, commands, raced,
                 rideVars>>

Load(t) ==
  /\ todo[t] # <<>> /\ ~loaded[t].held
  /\ loaded' = [loaded EXCEPT ![t] =
                  [held |-> TRUE, value |-> value[Head(todo[t]).cell]]]
  /\ UNCHANGED <<running, starts, value, todo, saved, commands, dueVars,
                 rideVars>>

Store(t) ==
  /\ loaded[t].held
  /\ value' = [value EXCEPT ![Head(todo[t]).cell] =
                 loaded[t].value + Head(todo[t]).amount]
  /\ todo' = [todo EXCEPT ![t] = Tail(@)]
  /\ loaded' = [loaded EXCEPT ![t] = None]
  /\ LET c == Head(todo[t]).cell
     IN  /\ due' = IF c \in raced THEN [due EXCEPT ![c] = value'[c]] ELSE due
         /\ raced' = raced \ {c}
  /\ UNCHANGED <<running, starts, saved, rounds, commands, rideVars>>

-----------------------------------------------------------------------------
(* Commands of a display, one at a time: ipc_output_mutex *)

Reset(trip, f) == IF f \in Fields THEN <<Job(<<trip, f>>, 0)>> ELSE <<>>

tripReset(trip) ==
  /\ Idle("ipc")
  /\ todo' = [todo EXCEPT !["ipc"] =
                Reset(trip, "distance") \o Reset(trip, "wattHoursConsumed")
                  \o Reset(trip, "wattHoursRegenerated")
                  \o Reset(trip, "rideTime")]
  /\ commands < MaxCommands /\ commands' = commands + 1
  /\ UNCHANGED <<running, starts, value, loaded, saved, dueVars, rideVars>>

SET_ODOMETER ==
  /\ Idle("ipc")
  /\ \E km \in OdometerSettings :
       todo' = [todo EXCEPT !["ipc"] = <<Job(odo, km)>>]
  /\ commands < MaxCommands /\ commands' = commands + 1
  /\ UNCHANGED <<running, starts, value, loaded, saved, dueVars, rideVars>>

(* What an addition under way will still bring to a cell. *)
UnderWay == ToSet(todo["vesc"]) \cup ToSet(todo["main"])
Outstanding(c) ==
  LET of == {job \in UnderWay : job.cell = c}
  IN  IF of = {} THEN 0 ELSE (CHOOSE job \in of : TRUE).amount

Loaded(c) == \E t \in Adders : loaded[t].held /\ Head(todo[t]).cell = c

Assign ==
  /\ todo["ipc"] # <<>>
  /\ LET c == Head(todo["ipc"]).cell
         x == Head(todo["ipc"]).amount
     IN  /\ value' = [value EXCEPT ![c] = x]
         /\ due' = [due EXCEPT ![c] = x + Outstanding(c)]
         /\ raced' = IF Loaded(c) THEN raced \cup {c} ELSE raced
  /\ todo' = [todo EXCEPT !["ipc"] = Tail(@)]
  /\ UNCHANGED <<running, starts, loaded, saved, rounds, commands, rideVars>>

-----------------------------------------------------------------------------
(* Around the program *)

(* By SAVE_PREFERENCES or by the main loop; MaxStarts: what the last start  *)
(* saves, no start reads.                                                   *)
TOMLSave ==
  /\ Idle("ipc") \/ Idle("main")
  /\ starts < MaxStarts
  /\ saved' = value
  /\ UNCHANGED <<running, starts, threadVars, commands, dueVars, rideVars>>

Roll ==
  /\ rolled < MaxRolled
  /\ rolled' = rolled + 1
  /\ tachometerAbs' = tachometerAbs + 1
  /\ UNCHANGED <<running, starts, threadVars, saved, commands, dueVars,
                 tachometer_abs_previous, inOrder, astray>>

ControllerRestarts ==
  /\ tachometerAbs > 0
  /\ tachometerAbs' = 0 /\ inOrder' = FALSE
  /\ UNCHANGED <<running, starts, threadVars, saved, commands, dueVars,
                 tachometer_abs_previous, rolled, astray>>

(* The backend ends, orderly or not: nothing is saved. *)
Ends ==
  /\ running /\ starts < MaxStarts
  /\ running' = FALSE
  /\ value' = Zero
  /\ todo' = [t \in Threads |-> <<>>]
  /\ loaded' = [t \in Adders |-> None]
  /\ tachometer_abs_previous' = 0 /\ inOrder' = FALSE
  /\ rounds' = 0
  /\ due' = Zero /\ raced' = {}
  /\ UNCHANGED <<starts, saved, commands, tachometerAbs, rolled, astray>>

(* The backend starts.  A missing entry reads as zero: the file may have    *)
(* been emptied and not written.                                            *)
setupTOML ==
  /\ ~running /\ starts < MaxStarts
  /\ running' = TRUE
  /\ starts' = starts + 1
  /\ value' \in {saved, Zero}
  /\ saved' = value' /\ due' = value'
  /\ UNCHANGED <<todo, loaded, rounds, commands, raced, rideVars>>

-----------------------------------------------------------------------------

Init ==
  /\ running = FALSE /\ starts = 0
  /\ value = Zero /\ saved = Zero
  /\ todo = [t \in Threads |-> <<>>]
  /\ loaded = [t \in Adders |-> None]
  /\ tachometerAbs = 0 /\ tachometer_abs_previous = 0
  /\ rolled = 0 /\ inOrder = FALSE /\ astray = 0
  /\ rounds = 0 /\ commands = 0
  /\ due = Zero
  /\ raced = {}

Next ==
  \/ CountDistance \/ CountMain
  \/ \E t \in Adders : Load(t) \/ Store(t)
  \/ (\E trip \in Trips : tripReset(trip)) \/ SET_ODOMETER \/ Assign
  \/ TOMLSave \/ Roll \/ ControllerRestarts \/ Ends \/ setupTOML

Spec == Init /\ [][Next]_vars

-----------------------------------------------------------------------------
(* Properties *)

Jobs == [cell : Cells, amount : Int]

(* Every variable has the type of the variable it stands for, a thread that *)
(* has loaded a value has an addition to store, and no distance is negative *)
(* (main.cpp:736, :752).                                                    *)
TypeOK ==
  /\ running \in BOOLEAN
  /\ value \in [Cells -> Int] /\ saved \in [Cells -> Int]
  /\ \A c \in Cells : c[2] = "distance" => value[c] \in Nat
  /\ {tachometerAbs, tachometer_abs_previous} \subseteq Nat
  /\ todo \in [Threads -> Seq(Jobs)]
  /\ loaded \in [Adders -> [held : BOOLEAN, value : Int]]
  /\ \A t \in Adders : loaded[t].held => todo[t] # <<>>
  /\ raced \subseteq Cells /\ due \in [Cells -> Int]
  /\ rolled \in 0..MaxRolled /\ starts \in 0..MaxStarts
  /\ inOrder \in BOOLEAN /\ astray \in 0..MaxAstray

(* "prevent the diff to be something extremely big" (main.cpp:747): through *)
(* restarts of controllers and backend and readings that are late or go     *)
(* astray, in any order, the odometer shows no distance that was not        *)
(* ridden, save for less than one big step for each start but the first,    *)
(* when the tachometer of an earlier one is new, and for each reading that  *)
(* goes astray: a step up to the second controller's tachometer, or back,   *)
(* counts like one of the wheel (main.cpp:693-699, 741-755).                *)
DistanceNotInvented ==
  running => \E km \in OdometerSettings \cup {0} :
    value[odo] <= km + rolled + (starts - 1 + astray) * (BigStep - 1)

(* Both trips and the odometer get every addition once: whatever the        *)
(* threads do in between, a counter is what it was set to plus what has     *)
(* been counted since.  The one exception is a reset that falls between the *)
(* load and the store of an addition: the reset is lost.                    *)
CountersInStep ==
  running => \A c \in Cells \ raced : value[c] = due[c] - Outstanding(c)

=============================================================================
