--------------------------- MODULE Battery_proofs ---------------------------
(***************************************************************************)
(* Proofs about Battery: types, that every amp hour is counted once, and   *)
(* that an estimate measures one ride between two rests.                   *)
(***************************************************************************)
EXTENDS Battery, TLAPS

(* The meter and the code agree on where a rest began and where it is now.  *)
SameRest ==
  /\ firstTime => ~isVoltageBased /\ settled = 0
  /\ isVoltageBased =>
       /\ rest = <<ampHoursLifetime_savedVoltagePercentage, savedVoltagePercentage>>
       /\ percentageVoltageBased = savedVoltagePercentage
       /\ accAmpHours_abs = 0
  /\ ~isVoltageBased => rest = NoRest

Counted ==
  /\ due \in Numbers
  /\ Plus(ampHoursUsedLifetime, accAmpHours_abs) = due
  /\ known \in BOOLEAN
  /\ known => /\ Known(ampHoursFullyCharged)
              /\ ampHoursUsedLifetime # NonFinite /\ cycleCount

(* Between the halves of a round, a running estimate still lacks the amp    *)
(* hours of this round.                                                     *)
Measured ==
  /\ ride \in Int
  /\ fabs(ampHoursUsedInElapsedTime) < Glitch
  /\ firstTime => estimate.state = "START" /\ half = "count"
  /\ half = "estimate" =>
       /\ estimate.state = "START_TO_RUNNING" /\ ~isVoltageBased
            => ride = ampHoursUsedInElapsedTime
                 /\ estimate.start = savedVoltagePercentage
       /\ estimate.state = "RUNNING"
            => /\ fabs(ride - estimate.accAmpHours - ampHoursUsedInElapsedTime)
                    < Glitch
               /\ ~isVoltageBased => estimate.start = savedVoltagePercentage
  /\ half = "count" /\ estimate.state = "START_TO_RUNNING"
       => isVoltageBased /\ estimate.start = savedVoltagePercentage
  /\ estimate.state = "END"
       => estimate.accAmpHours >= accumulatedAmpHoursThreshold

IInv == TypeOK /\ SameRest /\ Counted /\ Measured /\ EstimateMeasuresRide

-----------------------------------------------------------------------------
(* Numbers *)

(* A sum with a value that is no number is none either. *)
LEMMA PlusType ==
  ASSUME NEW x \in Numbers, NEW y \in Numbers
  PROVE  Plus(x, y) \in Numbers
BY BatteryAssumption DEF Plus, Numbers

(* Adding nothing changes nothing. *)
LEMMA PlusZero ==
  ASSUME NEW x \in Numbers
  PROVE  Plus(x, 0) = x
BY BatteryAssumption DEF Plus, Numbers

(* An addition to either of two counters adds to what they come to.         *)
LEMMA PlusRegroup ==
  ASSUME NEW x \in Numbers, NEW y \in Numbers, NEW m \in Nat, NEW n \in Nat
  PROVE  Plus(Plus(x, y), m + n) = Plus(Plus(x, m), Plus(n, y))
<1>1. NonFinite \notin Nat /\ m + n \in Nat
  BY BatteryAssumption
<1>2. CASE x = NonFinite \/ y = NonFinite
  BY <1>1, <1>2 DEF Plus
<1>3. CASE x # NonFinite /\ y # NonFinite
  <2>1. x \in Nat /\ y \in Nat
    BY <1>3 DEF Numbers
  <2>2. x + y \in Nat /\ x + m \in Nat /\ n + y \in Nat
    BY <2>1
  <2>3. /\ Plus(x, y) = x + y /\ Plus(x, m) = x + m /\ Plus(n, y) = n + y
        /\ Plus(x + y, m + n) = (x + y) + (m + n)
        /\ Plus(x + m, n + y) = (x + m) + (n + y)
    BY <1>1, <2>1, <2>2 DEF Plus
  <2> QED
    BY <2>1, <2>3
<1> QED BY <1>2, <1>3

(* The charge between two percentages is a number if the capacity is one. *)
LEMMA AmpHoursType ==
  ASSUME ampHoursFullyCharged \in Numbers,
         NEW from \in Percentages, NEW to \in Percentages
  PROVE  /\ AmpHours(from, to) \in Numbers
         /\ ampHoursFullyCharged # NonFinite => AmpHours(from, to) \in Nat
<1>1. from \in Nat /\ to \in Nat
  BY BatteryAssumption
<1>2. CASE ampHoursFullyCharged = NonFinite
  BY <1>2 DEF AmpHours, Numbers
<1>3. CASE ampHoursFullyCharged # NonFinite
  <2>1. ampHoursFullyCharged \in Nat
    BY <1>3 DEF Numbers
  <2>2. ampHoursFullyCharged * (from - to) \in Int
    BY <1>1, <2>1
  <2>3. fabs(ampHoursFullyCharged * (from - to)) \in Nat
    BY <2>2 DEF fabs
  <2> QED BY <1>3, <2>3 DEF AmpHours, Numbers
<1> QED BY <1>2, <1>3

(* What counts as a measured current is less than a glitch. *)
LEMMA PlausibleType ==
  ASSUME NEW current \in Currents
  PROVE  /\ Plausible(current) \in Int
         /\ fabs(Plausible(current)) \in Nat
         /\ fabs(Plausible(current)) < Glitch
BY BatteryAssumption DEF Plausible, fabs

-----------------------------------------------------------------------------

(* The invariant holds when the battery has been set up. *)
LEMMA InitInv == Init => IInv
<1> SUFFICES ASSUME Init PROVE IInv
  OBVIOUS
<1> USE BatteryAssumption DEF Init
<1>1. /\ NonFinite \notin Nat /\ ampHoursFullyCharged \in Nat
      /\ ampHoursUsedLifetime \in Nat
  OBVIOUS
<1>2. TypeOK
  <2>1. state_isVoltageBased = isVoltageBased
    BY Zenon
  <2>2. isVoltageBased \in BOOLEAN /\ firstTime \in BOOLEAN /\ cycleCount \in BOOLEAN
    OBVIOUS
  <2>3. estimate \in [state : {"START", "START_TO_RUNNING", "RUNNING", "END"},
                     start : Percentages, end : Percentages, accAmpHours : Int]
    OBVIOUS
  <2>4. ampHoursUsedLifetime \in Numbers /\ ampHoursFullyCharged \in Numbers
    BY <1>1 DEF Numbers
  <2> QED BY <2>1, <2>2, <2>3, <2>4 DEF TypeOK
<1>3. SameRest
  BY DEF SameRest
<1>4. Counted
  <2>1. Plus(ampHoursUsedLifetime, accAmpHours_abs) = due /\ due \in Numbers
    BY <1>1 DEF Plus, Numbers
  <2>2. known \in BOOLEAN /\ (known => Known(ampHoursFullyCharged))
    BY Zenon DEF Known
  <2>3. ampHoursUsedLifetime # NonFinite
    BY <1>1
  <2> QED BY <2>1, <2>2, <2>3, Zenon DEF Counted
<1>5. Measured
  BY DEF Measured, fabs
<1>6. EstimateMeasuresRide
  BY DEF EstimateMeasuresRide
<1> QED BY <1>2, <1>3, <1>4, <1>5, <1>6 DEF IInv

-----------------------------------------------------------------------------
(* The first half of a round *)

(* A battery that rests for the first time has been given a percentage.     *)
LEMMA NotAtFirst ==
  ASSUME IInv, NEW current \in Currents, Rests(current)
  PROVE  firstTime = FALSE
BY BatteryAssumption DEF IInv, SameRest, TypeOK, Rests

(* The counting branch while no current flows. *)
LEMMA CountRests ==
  ASSUME IInv, NEW current \in Currents, NEW percentage \in Percentages,
         Count(current, percentage), Rests(current)
  PROVE  TypeOK' /\ SameRest' /\ Counted'
<1> DEFINE amount == Plausible(current)
<1>1. /\ isVoltageBased' = TRUE /\ half' = "estimate" /\ firstTime' = FALSE
      /\ percentageVoltageBased' = percentage
      /\ savedVoltagePercentage' = percentage
      /\ ampHoursUsedInElapsedTime' = amount
      /\ accAmpHours_abs' = 0
      /\ due' = due
      /\ UNCHANGED <<ampHoursFullyCharged, estimate, known>>
  BY NotAtFirst DEF IInv, TypeOK, Count, Resting, ResetCount, Observe
<1>2. amount \in Int
  BY PlausibleType
<1>3. settled' \in 0..voltageSettlingTime
  BY BatteryAssumption DEF IInv, TypeOK, Count
<1>4. /\ ampHoursUsedLifetime \in Numbers /\ accAmpHours_abs \in Numbers
      /\ accAmpHours_abs \in Nat /\ NonFinite \notin Nat
      /\ state_isVoltageBased = isVoltageBased
      /\ isVoltageBased \in BOOLEAN
      /\ cycleCount \in BOOLEAN
  BY BatteryAssumption DEF IInv, TypeOK, Numbers
<1>5. /\ state_isVoltageBased' = TRUE
      /\ ampHoursUsedLifetime' \in Numbers
      /\ cycleCount' \in BOOLEAN
      /\ ampHoursLifetime_savedVoltagePercentage' \in Percentages
      /\ rest' = <<ampHoursLifetime_savedVoltagePercentage', percentage>>
      /\ ampHoursUsedLifetime' = due
      /\ known => ampHoursUsedLifetime' # NonFinite /\ cycleCount'
  <2>1. CASE isVoltageBased
    <3>1. /\ UNCHANGED <<state_isVoltageBased, ampHoursUsedLifetime, cycleCount,
                         ampHoursLifetime_savedVoltagePercentage>>
          /\ rest = <<ampHoursLifetime_savedVoltagePercentage, savedVoltagePercentage>>
          /\ accAmpHours_abs = 0
      BY <1>4, <2>1 DEF IInv, SameRest, Count, Resting, RestGoesOn, RestBegins
    <3>2. rest' = <<rest[1], percentage>>
      BY <3>1 DEF Count, Observe, NoRest
    <3>3. ampHoursUsedLifetime = due
      BY <1>4, <3>1, PlusZero DEF IInv, Counted
    <3> QED
      BY <1>4, <2>1, <3>1, <3>2, <3>3 DEF IInv, TypeOK, Counted
  <2>2. CASE ~isVoltageBased
    <3>1. /\ state_isVoltageBased' = TRUE
          /\ ampHoursUsedLifetime' = Plus(ampHoursUsedLifetime, accAmpHours_abs)
          /\ cycleCount' = CyclesAdded(accAmpHours_abs)
          /\ ampHoursLifetime_savedVoltagePercentage' = percentage
      BY <1>4, <2>2 DEF Count, Resting, RestGoesOn, RestBegins, RestKept
    <3>2. rest' = <<percentage, percentage>>
      BY <2>2 DEF IInv, SameRest, Count, Observe
    <3>3. ampHoursUsedLifetime' = due /\ ampHoursUsedLifetime' \in Numbers
      BY <1>4, <3>1, PlusType DEF IInv, Counted
    <3>4. cycleCount' \in BOOLEAN
      BY <1>4, <3>1 DEF CyclesAdded
    <3>5. ASSUME known PROVE ampHoursUsedLifetime' # NonFinite /\ cycleCount'
      <4>1. /\ ampHoursUsedLifetime # NonFinite /\ cycleCount
            /\ ampHoursFullyCharged # 0
        BY <3>5 DEF IInv, Counted, Known
      <4>2. ampHoursUsedLifetime \in Nat
        BY <1>4, <4>1 DEF Numbers
      <4>3. Plus(ampHoursUsedLifetime, accAmpHours_abs) \in Nat
        BY <1>4, <4>2 DEF Plus
      <4> QED BY <1>4, <3>1, <4>1, <4>3 DEF CyclesAdded
    <3> QED BY <3>1, <3>2, <3>3, <3>4, <3>5
  <2> QED BY <1>4, <2>1, <2>2
<1>6. TypeOK'
  BY <1>1, <1>2, <1>3, <1>5 DEF IInv, TypeOK, Numbers
<1>7. SameRest'
  BY <1>1, <1>5 DEF SameRest
<1>8. Counted'
  BY <1>1, <1>5, PlusZero DEF IInv, Counted
<1> QED BY <1>6, <1>7, <1>8

(* The counting branch while current flows. *)
LEMMA CountRides ==
  ASSUME IInv, NEW current \in Currents, NEW percentage \in Percentages,
         Count(current, percentage), ~Rests(current)
  PROVE  TypeOK' /\ SameRest' /\ Counted'
<1> DEFINE amount == Plausible(current)
           drift  == IF isVoltageBased
                     THEN AmpHours(ampHoursLifetime_savedVoltagePercentage,
                                   savedVoltagePercentage)
                     ELSE 0
<1>1. /\ isVoltageBased' = FALSE /\ half' = "estimate" /\ firstTime' = FALSE
      /\ state_isVoltageBased' = FALSE
      /\ percentageVoltageBased' = percentage
      /\ savedVoltagePercentage' \in {percentage, savedVoltagePercentage}
      /\ ampHoursUsedInElapsedTime' = amount
      /\ accAmpHours_abs' = accAmpHours_abs + fabs(amount)
      /\ rest' = NoRest
      /\ UNCHANGED <<ampHoursFullyCharged, estimate, known,
                     ampHoursLifetime_savedVoltagePercentage>>
  BY DEF Count, Riding, Observe
<1>2. amount \in Int /\ fabs(amount) \in Nat
  BY PlausibleType
<1>3. settled' \in 0..voltageSettlingTime
  BY BatteryAssumption DEF IInv, TypeOK, Count
<1>4. /\ ampHoursUsedLifetime \in Numbers /\ accAmpHours_abs \in Nat
      /\ ampHoursFullyCharged \in Numbers
      /\ NonFinite \notin Nat
      /\ state_isVoltageBased = isVoltageBased
      /\ isVoltageBased \in BOOLEAN
      /\ cycleCount \in BOOLEAN
      /\ ampHoursLifetime_savedVoltagePercentage \in Percentages
      /\ savedVoltagePercentage \in Percentages
  BY BatteryAssumption DEF IInv, TypeOK
<1>5. /\ drift \in Numbers
      /\ ampHoursFullyCharged # NonFinite => drift \in Nat
  BY <1>4, AmpHoursType DEF Numbers
<1>6. /\ ampHoursUsedLifetime' = Plus(ampHoursUsedLifetime, drift)
      /\ cycleCount' = IF isVoltageBased THEN CyclesAdded(drift) ELSE cycleCount
  BY <1>4 DEF Count, Riding
<1>7. due' = Plus(due, Plus(fabs(amount), drift))
  <2>1. CASE isVoltageBased
    <3>1. /\ rest = <<ampHoursLifetime_savedVoltagePercentage, savedVoltagePercentage>>
          /\ rest # NoRest
      BY <2>1 DEF IInv, SameRest, NoRest
    <3>2. rest[1] = ampHoursLifetime_savedVoltagePercentage
            /\ rest[2] = savedVoltagePercentage
      BY <3>1
    <3> QED BY <2>1, <3>1, <3>2 DEF Count, Observe
  <2>2. CASE ~isVoltageBased
    BY <2>2 DEF IInv, SameRest, Count, Observe
  <2> QED BY <1>4, <2>1, <2>2
<1> HIDE DEF amount, drift
<1>8. /\ Plus(ampHoursUsedLifetime', accAmpHours_abs') = due'
      /\ due' \in Numbers /\ ampHoursUsedLifetime' \in Numbers
  <2>1. /\ Plus(ampHoursUsedLifetime, accAmpHours_abs) = due
        /\ due \in Numbers
    BY DEF IInv, Counted
  <2>2. fabs(amount) \in Numbers
    BY <1>2 DEF Numbers
  <2>3. due' \in Numbers
    BY <1>5, <1>7, <2>1, <2>2, PlusType
  <2>4. Plus(Plus(ampHoursUsedLifetime, drift), accAmpHours_abs + fabs(amount))
          = Plus(Plus(ampHoursUsedLifetime, accAmpHours_abs),
                 Plus(fabs(amount), drift))
    BY <1>2, <1>4, <1>5, PlusRegroup
  <2>5. ampHoursUsedLifetime' \in Numbers
    BY <1>4, <1>5, <1>6, PlusType
  <2> QED BY <1>1, <1>6, <1>7, <2>1, <2>3, <2>4, <2>5
<1>9. /\ cycleCount' \in BOOLEAN
      /\ known => ampHoursUsedLifetime' # NonFinite /\ cycleCount'
  <2>1. cycleCount' \in BOOLEAN
    BY <1>4, <1>6 DEF CyclesAdded
  <2>2. ASSUME known PROVE ampHoursUsedLifetime' # NonFinite /\ cycleCount'
    <3>1. /\ ampHoursFullyCharged # 0 /\ ampHoursFullyCharged # NonFinite
          /\ ampHoursUsedLifetime # NonFinite /\ cycleCount
      BY <2>2 DEF IInv, Counted, Known
    <3>2. drift \in Nat /\ ampHoursUsedLifetime \in Nat
      BY <1>4, <1>5, <3>1 DEF Numbers
    <3>3. Plus(ampHoursUsedLifetime, drift) \in Nat
      BY <1>4, <3>2 DEF Plus
    <3>4. CyclesAdded(drift)
      BY <1>4, <3>1, <3>2 DEF CyclesAdded
    <3> QED BY <1>4, <1>6, <3>1, <3>3, <3>4
  <2> QED BY <2>1, <2>2
<1>10. TypeOK'
  <2>1. accAmpHours_abs' \in Nat /\ savedVoltagePercentage' \in Percentages
    BY <1>1, <1>2, <1>4
  <2> QED
    BY <1>1, <1>2, <1>3, <1>8, <1>9, <2>1 DEF IInv, TypeOK, amount
<1>11. SameRest'
  BY <1>1 DEF SameRest
<1>12. Counted'
  BY <1>1, <1>8, <1>9 DEF IInv, Counted
<1> QED BY <1>10, <1>11, <1>12

(* Counting keeps what is measured for the estimate. *)
LEMMA CountMeasures ==
  ASSUME IInv, NEW current \in Currents, NEW percentage \in Percentages,
         Count(current, percentage)
  PROVE  Measured' /\ EstimateMeasuresRide'
<1> DEFINE amount == Plausible(current)
<1>1. /\ half = "count" /\ half' = "estimate"
      /\ ampHoursUsedInElapsedTime' = amount
      /\ isVoltageBased' = Rests(current)
      /\ UNCHANGED estimate
      /\ ride' = IF rest = NoRest THEN ride + amount
                 ELSE IF Rests(current) THEN ride ELSE amount
  BY DEF Count, Observe
<1>2. amount \in Int /\ fabs(amount) < Glitch
  BY PlausibleType
<1>3. firstTime' = FALSE
  BY NotAtFirst DEF Count, Resting, Riding
<1>4. ride \in Int /\ estimate.accAmpHours \in Int
  BY DEF IInv, Measured, TypeOK
<1>5. ~firstTime /\ ~Rests(current)
        => savedVoltagePercentage' = savedVoltagePercentage
  BY DEF Count, Riding
<1> HIDE DEF amount
<1>6. ride' \in Int
  BY <1>1, <1>2, <1>4
<1>7. ASSUME estimate'.state = "START_TO_RUNNING", ~isVoltageBased'
      PROVE  /\ ride' = ampHoursUsedInElapsedTime'
             /\ estimate'.start = savedVoltagePercentage'
  <2>1. /\ isVoltageBased /\ estimate.start = savedVoltagePercentage
        /\ ~firstTime
    BY <1>1, <1>7 DEF IInv, Measured
  <2>2. rest # NoRest
    BY <2>1 DEF IInv, SameRest, NoRest
  <2> QED BY <1>1, <1>5, <1>7, <2>1, <2>2
<1>8. ASSUME estimate'.state = "RUNNING"
      PROVE  /\ fabs(ride' - estimate'.accAmpHours - ampHoursUsedInElapsedTime')
                  < Glitch
             /\ ~isVoltageBased' => estimate'.start = savedVoltagePercentage'
  <2>1. /\ fabs(ride - estimate.accAmpHours) < Glitch
        /\ ~isVoltageBased /\ estimate.start = savedVoltagePercentage
        /\ ~firstTime
    BY <1>1, <1>8 DEF IInv, EstimateMeasuresRide, Measured
  <2>2. ride' = ride + amount
    BY <1>1, <2>1 DEF IInv, SameRest
  <2>3. ride' - estimate.accAmpHours - amount = ride - estimate.accAmpHours
    BY <1>2, <1>4, <2>2
  <2> QED BY <1>1, <1>5, <2>1, <2>3
<1>9. Measured'
  <2>1. estimate'.state = "END"
          => estimate'.accAmpHours >= accumulatedAmpHoursThreshold
    BY <1>1 DEF IInv, Measured
  <2> QED
    BY <1>1, <1>2, <1>3, <1>6, <1>7, <1>8, <2>1 DEF Measured
<1>10. EstimateMeasuresRide'
  BY <1>1 DEF EstimateMeasuresRide
<1> QED BY <1>9, <1>10

-----------------------------------------------------------------------------
(* The second half of a round *)

(* An average of capacities is a capacity. *)
LEMMA AveragedType ==
  ASSUME ampHoursFullyCharged \in Numbers, NEW x \in Numbers
  PROVE  Averaged(x) \in Numbers
<1>1. CASE ampHoursFullyCharged = 0 \/ NonFinite \in {ampHoursFullyCharged, x}
  BY <1>1 DEF Averaged, Numbers
<1>2. CASE ampHoursFullyCharged # 0 /\ NonFinite \notin {ampHoursFullyCharged, x}
  <2>1. ampHoursFullyCharged \in Nat /\ x \in Nat
    BY <1>2 DEF Numbers
  <2>2. (ampHoursFullyCharged + x) \div 2 \in Nat
    BY <2>1
  <2> QED BY <1>2, <2>2 DEF Averaged, Numbers
<1> QED BY <1>1, <1>2

(* An update of the estimate is an estimate. *)
LEMMA EstimateType ==
  ASSUME NEW e \in [state : {"START", "START_TO_RUNNING", "RUNNING", "END"},
                   start : Percentages, end : Percentages, accAmpHours : Int],
         NEW s \in {"START", "START_TO_RUNNING", "RUNNING", "END"},
         NEW a \in Int, NEW p \in Percentages
  PROVE  /\ [e EXCEPT !.state = s, !.accAmpHours = a] \in
              [state : {"START", "START_TO_RUNNING", "RUNNING", "END"},
               start : Percentages, end : Percentages, accAmpHours : Int]
         /\ [e EXCEPT !.accAmpHours = a, !.state = s, !.end = p] \in
              [state : {"START", "START_TO_RUNNING", "RUNNING", "END"},
               start : Percentages, end : Percentages, accAmpHours : Int]
OBVIOUS

(* Whatever state the estimate is in, its record and the capacity keep      *)
(* their types, and a ride is measured from its first round but one.        *)
LEMMA EstimateMoves ==
  ASSUME IInv, Estimate
  PROVE  /\ estimate' \in [state : {"START", "START_TO_RUNNING", "RUNNING", "END"},
                           start : Percentages, end : Percentages,
                           accAmpHours : Int]
         /\ ampHoursFullyCharged' \in Numbers
         /\ firstTime => estimate'.state = "START"
         /\ estimate'.state = "START_TO_RUNNING"
              => isVoltageBased /\ estimate'.start = savedVoltagePercentage
         /\ estimate'.state \in {"RUNNING", "END"}
              => fabs(ride - estimate'.accAmpHours) < Glitch
         /\ estimate'.state = "RUNNING"
              => ~isVoltageBased /\ estimate'.start = savedVoltagePercentage
         /\ estimate'.state = "END"
              => /\ isVoltageBased /\ estimate'.end = savedVoltagePercentage
                 /\ estimate'.accAmpHours >= accumulatedAmpHoursThreshold
<1>1. /\ half = "estimate" /\ ~firstTime
      /\ estimate \in [state : {"START", "START_TO_RUNNING", "RUNNING", "END"},
                       start : Percentages, end : Percentages, accAmpHours : Int]
      /\ ampHoursFullyCharged \in Numbers
      /\ isVoltageBased \in BOOLEAN
      /\ percentageVoltageBased \in Percentages
      /\ isVoltageBased => percentageVoltageBased = savedVoltagePercentage
  BY DEF IInv, TypeOK, SameRest, Measured, Estimate
<1>2. /\ ride \in Int /\ ampHoursUsedInElapsedTime \in Int
      /\ fabs(ampHoursUsedInElapsedTime) < Glitch
  BY DEF IInv, TypeOK, Measured
<1>3. /\ estimate.state = "START_TO_RUNNING" /\ ~isVoltageBased
           => ride = ampHoursUsedInElapsedTime
                /\ estimate.start = savedVoltagePercentage
      /\ estimate.state = "RUNNING"
           => /\ fabs(ride - estimate.accAmpHours - ampHoursUsedInElapsedTime)
                   < Glitch
              /\ ~isVoltageBased => estimate.start = savedVoltagePercentage
  BY <1>1 DEF IInv, Measured
<1>4. CASE Start
  <2>1. CASE isVoltageBased
    <3>1. estimate' = [estimate EXCEPT !.state = "START_TO_RUNNING",
                                       !.start = percentageVoltageBased]
      BY <1>4, <2>1 DEF Start
    <3> QED BY <1>1, <1>4, <2>1, <3>1 DEF Start
  <2>2. CASE ~isVoltageBased
    BY <1>1, <1>4, <2>2 DEF Start
  <2> QED BY <1>1, <2>1, <2>2
<1>5. CASE StartToRunning
  <2>1. CASE isVoltageBased
    <3>1. estimate' = [estimate EXCEPT !.start = percentageVoltageBased]
      BY <1>5, <2>1 DEF StartToRunning
    <3> QED BY <1>1, <1>5, <2>1, <3>1 DEF StartToRunning
  <2>2. CASE ~isVoltageBased
    <3>1. estimate' = [estimate EXCEPT !.state = "RUNNING", !.accAmpHours = 0]
      BY <1>5, <2>2 DEF StartToRunning
    <3>2. /\ ride - 0 = ampHoursUsedInElapsedTime
          /\ estimate.start = savedVoltagePercentage
      BY <1>2, <1>3, <1>5, <2>2 DEF StartToRunning
    <3>3. /\ estimate'.state = "RUNNING" /\ estimate'.accAmpHours = 0
          /\ estimate'.start = savedVoltagePercentage
      BY <1>1, <3>1, <3>2
    <3>4. fabs(ride - estimate'.accAmpHours) < Glitch
      BY <1>2, <3>2, <3>3
    <3>5. estimate' \in [state : {"START", "START_TO_RUNNING", "RUNNING", "END"},
                        start : Percentages, end : Percentages,
                        accAmpHours : Int]
      <4>1. PICK zero \in Int : zero = 0
        OBVIOUS
      <4>2. [estimate EXCEPT !.state = "RUNNING", !.accAmpHours = zero] \in
              [state : {"START", "START_TO_RUNNING", "RUNNING", "END"},
               start : Percentages, end : Percentages, accAmpHours : Int]
        BY <1>1, EstimateType
      <4> QED BY <3>1, <4>1, <4>2
    <3> QED BY <1>1, <1>5, <2>2, <3>3, <3>4, <3>5 DEF StartToRunning
  <2> QED BY <1>1, <2>1, <2>2
<1>6. CASE Running
  <2> DEFINE acc == estimate.accAmpHours + ampHoursUsedInElapsedTime
  <2>1. /\ acc \in Int
        /\ ride - acc = ride - estimate.accAmpHours - ampHoursUsedInElapsedTime
        /\ accumulatedAmpHoursThreshold \in Int
    BY <1>1, <1>2, BatteryAssumption
  <2>2. fabs(ride - acc) < Glitch
    BY <1>3, <1>6, <2>1 DEF Running
  <2>3. CASE ~isVoltageBased
    <3>1. estimate' = [estimate EXCEPT !.accAmpHours = acc]
      BY <1>6, <2>3 DEF Running
    <3> HIDE DEF acc
    <3> QED BY <1>1, <1>3, <1>6, <2>1, <2>2, <2>3, <3>1 DEF Running
  <2>4. CASE isVoltageBased /\ acc < accumulatedAmpHoursThreshold
    <3>1. estimate' = [estimate EXCEPT !.accAmpHours = acc, !.state = "START"]
      BY <1>6, <2>4 DEF Running, TooLittle
    <3> HIDE DEF acc
    <3> QED BY <1>1, <1>6, <2>1, <2>4, <3>1 DEF Running
  <2>5. CASE isVoltageBased /\ ~(acc < accumulatedAmpHoursThreshold)
    <3>1. estimate' = [estimate EXCEPT !.accAmpHours = acc, !.state = "END",
                                       !.end = percentageVoltageBased]
      BY <1>6, <2>5 DEF Running
    <3> HIDE DEF acc
    <3>2. /\ estimate'.state = "END" /\ estimate'.accAmpHours = acc
          /\ estimate'.end = savedVoltagePercentage
      BY <1>1, <2>5, <3>1
    <3>3. estimate' \in [state : {"START", "START_TO_RUNNING", "RUNNING", "END"},
                        start : Percentages, end : Percentages,
                        accAmpHours : Int]
      BY <1>1, <2>1, <3>1, EstimateType
    <3>4. acc >= accumulatedAmpHoursThreshold
      BY <2>1, <2>5
    <3> QED BY <1>1, <1>6, <2>2, <2>5, <3>2, <3>3, <3>4 DEF Running
  <2> QED BY <2>3, <2>4, <2>5
<1>7. CASE End
  <2>1. estimate' = [estimate EXCEPT !.state = "START"]
    BY <1>7 DEF End
  <2>2. ampHoursFullyCharged' \in Numbers
    <3> DEFINE delta == estimate.start - estimate.end
    <3>1. delta \in Int /\ accumulatedAmpHoursThreshold \in Nat
      <4>1. Percentages \subseteq Nat /\ accumulatedAmpHoursThreshold \in Nat
        BY BatteryAssumption
      <4>2. estimate.start \in Nat /\ estimate.end \in Nat
        BY <1>1, <4>1
      <4> QED BY <4>1, <4>2
    <3>2. CASE delta < 0
      BY <1>1, <1>7, <3>2 DEF End
    <3>3. CASE delta = 0
      <4>1. ampHoursFullyCharged' = Averaged(NonFinite)
        BY <1>7, <3>3 DEF End
      <4>2. NonFinite \in Numbers
        BY DEF Numbers
      <4> QED BY <1>1, <4>1, <4>2, AveragedType
    <3>4. CASE delta > 0
      <4>1. ampHoursFullyCharged' = Averaged(estimate.accAmpHours \div delta)
        BY <1>7, <3>1, <3>4 DEF End
      <4>2. estimate.accAmpHours \in Nat
        BY <1>1, <1>7, <3>1 DEF IInv, Measured, End
      <4>3. estimate.accAmpHours \div delta \in Nat
        BY <3>1, <3>4, <4>2
      <4> QED BY <1>1, <4>1, <4>3, AveragedType DEF Numbers
    <3> QED BY <3>1, <3>2, <3>3, <3>4
  <2> QED BY <1>1, <2>1, <2>2
<1> QED BY <1>4, <1>5, <1>6, <1>7 DEF Estimate

(* An estimate keeps the invariant. *)
LEMMA EstimateStep == IInv /\ Estimate => IInv'
<1> SUFFICES ASSUME IInv, Estimate PROVE IInv'
  OBVIOUS
<1>1. /\ half' = "count"
      /\ UNCHANGED <<settled, ampHoursUsedInElapsedTime, percentageVoltageBased,
                     isVoltageBased, state_isVoltageBased, firstTime,
                     savedVoltagePercentage,
                     ampHoursLifetime_savedVoltagePercentage, accAmpHours_abs,
                     ampHoursUsedLifetime, cycleCount, rest, due, ride>>
      /\ known' = (known /\ Known(ampHoursFullyCharged'))
  BY DEF Estimate, percentVars, countVars, history
<1>2. TypeOK'
  BY <1>1, EstimateMoves DEF IInv, TypeOK
<1>3. SameRest'
  BY <1>1 DEF IInv, SameRest
<1>4. Counted'
  BY <1>1 DEF IInv, Counted, Known
<1>5. Measured'
  <2>1. ride' \in Int /\ fabs(ampHoursUsedInElapsedTime') < Glitch
    BY <1>1 DEF IInv, Measured
  <2>2. estimate'.state = "END"
          => estimate'.accAmpHours >= accumulatedAmpHoursThreshold
    BY EstimateMoves
  <2> QED BY <1>1, <2>1, <2>2, EstimateMoves DEF Measured
<1>6. EstimateMeasuresRide'
  BY <1>1, EstimateMoves DEF EstimateMeasuresRide
<1> QED BY <1>2, <1>3, <1>4, <1>5, <1>6 DEF IInv

-----------------------------------------------------------------------------
(* The commands of the display *)

(* Setting the charge used keeps the invariant. *)
LEMMA SetLifetime ==
  ASSUME NEW lifetime \in Lifetimes
  PROVE  IInv /\ setAmpHoursUsedLifetime(lifetime) => IInv'
<1> SUFFICES ASSUME IInv, setAmpHoursUsedLifetime(lifetime) PROVE IInv'
  OBVIOUS
<1>1. /\ ampHoursUsedLifetime' = lifetime /\ due' = lifetime + accAmpHours_abs
      /\ UNCHANGED <<half, settled, ampHoursUsedInElapsedTime,
                     percentageVoltageBased, isVoltageBased,
                     state_isVoltageBased, firstTime, savedVoltagePercentage,
                     ampHoursLifetime_savedVoltagePercentage, accAmpHours_abs,
                     cycleCount, ampHoursFullyCharged, estimate, rest, ride,
                     known>>
  BY DEF setAmpHoursUsedLifetime, roundVars, percentVars
<1>2. accAmpHours_abs \in Nat /\ lifetime \in Nat /\ NonFinite \notin Nat
  BY BatteryAssumption DEF IInv, TypeOK
<1>3. TypeOK'
  BY <1>1, <1>2 DEF IInv, TypeOK, Numbers
<1>4. SameRest'
  BY <1>1 DEF IInv, SameRest
<1>5. Counted'
  <2>1. /\ Plus(lifetime, accAmpHours_abs) = lifetime + accAmpHours_abs
        /\ lifetime + accAmpHours_abs \in Nat
    BY <1>2 DEF Plus
  <2> QED BY <1>1, <1>2, <2>1 DEF IInv, Counted, Numbers
<1>6. Measured'
  BY <1>1 DEF IInv, Measured
<1>7. EstimateMeasuresRide'
  BY <1>1 DEF IInv, EstimateMeasuresRide
<1> QED BY <1>3, <1>4, <1>5, <1>6, <1>7 DEF IInv

(* Setting the capacity keeps the invariant. *)
LEMMA SetCapacity ==
  ASSUME NEW capacity \in Capacities
  PROVE  IInv /\ setAmpHoursFullyCharged(capacity) => IInv'
<1> SUFFICES ASSUME IInv, setAmpHoursFullyCharged(capacity) PROVE IInv'
  OBVIOUS
<1>1. /\ ampHoursFullyCharged' = capacity
      /\ known' = (known /\ Known(capacity))
      /\ UNCHANGED <<half, settled, ampHoursUsedInElapsedTime,
                     percentageVoltageBased, isVoltageBased,
                     state_isVoltageBased, firstTime, savedVoltagePercentage,
                     ampHoursLifetime_savedVoltagePercentage, accAmpHours_abs,
                     ampHoursUsedLifetime, cycleCount, estimate, rest, due,
                     ride>>
  BY DEF setAmpHoursFullyCharged, roundVars, percentVars, countVars, history
<1>2. capacity \in Nat
  BY BatteryAssumption
<1>3. TypeOK'
  BY <1>1, <1>2 DEF IInv, TypeOK, Numbers
<1>4. SameRest'
  BY <1>1 DEF IInv, SameRest
<1>5. Counted'
  BY <1>1 DEF IInv, Counted, Known
<1>6. Measured'
  BY <1>1 DEF IInv, Measured
<1>7. EstimateMeasuresRide'
  BY <1>1 DEF IInv, EstimateMeasuresRide
<1> QED BY <1>3, <1>4, <1>5, <1>6, <1>7 DEF IInv

(* Every step keeps the invariant. *)
LEMMA StepInv == IInv /\ [Next]_vars => IInv'
<1> SUFFICES ASSUME IInv, [Next]_vars PROVE IInv'
  OBVIOUS
<1>1. ASSUME NEW current \in Currents, NEW percentage \in Percentages,
             Count(current, percentage)
      PROVE  IInv'
  <2>1. TypeOK' /\ SameRest' /\ Counted'
    BY <1>1, CountRests, CountRides
  <2>2. Measured' /\ EstimateMeasuresRide'
    BY <1>1, CountMeasures
  <2> QED BY <2>1, <2>2 DEF IInv
<1>2. CASE UNCHANGED vars
  BY <1>2 DEF vars, roundVars, percentVars, countVars, history, IInv, TypeOK,
              SameRest, Counted, Measured, EstimateMeasuresRide
<1> QED BY <1>1, <1>2, EstimateStep, SetLifetime, SetCapacity DEF Next

(* The invariant holds in every state. *)
LEMMA Inductive == Spec => []IInv
BY InitInv, StepInv, PTL DEF Spec

-----------------------------------------------------------------------------

(* Every variable keeps its type, and a rest is a rest for both halves of   *)
(* the bookkeeping.                                                         *)
THEOREM BatteryTypeCorrect == Spec => []TypeOK
<1>1. IInv => TypeOK
  BY DEF IInv
<1> QED BY Inductive, <1>1, PTL

(* "Make sure to do this only once every isVoltageBased change": whatever   *)
(* the currents, the percentages and the limits, each amp hour reaches the  *)
(* lifetime counter once (battery.cpp:181-231).                             *)
THEOREM EveryAmpHourCountedOnce == Spec => []AmpHoursCountedOnce
<1>1. IInv => AmpHoursCountedOnce
  BY DEF IInv, Counted, AmpHoursCountedOnce
<1> QED BY Inductive, <1>1, PTL

(* An estimate of the capacity measures one ride between two rests          *)
(* (battery.cpp:249-313).                                                   *)
THEOREM EstimatesMeasureOneRide == Spec => []EstimateMeasuresRide
<1>1. IInv => EstimateMeasuresRide
  BY DEF IInv
<1> QED BY Inductive, <1>1, PTL

=============================================================================
