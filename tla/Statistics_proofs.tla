-------------------------- MODULE Statistics_proofs --------------------------
(***************************************************************************)
(* Proofs about Statistics: types, that every counter gets every addition, *)
(* and that no distance is invented.                                       *)
(***************************************************************************)
EXTENDS Statistics, SequenceTheorems, TLAPS

(* What each thread has to store: the vesc thread distances, the main loop  *)
(* everything else, an IPC thread zeros and settings of the odometer.       *)
VescJobs == [cell : {c \in Cells : c[2] = "distance"}, amount : Nat]
MainJobs == [cell : {c \in Cells : c[2] # "distance"}, amount : Int]
IpcJobs  == {job \in [cell : Cells, amount : Nat] :
               job.cell = odo => job.amount \in OdometerSettings}

(* A backend that does not run holds nothing. *)
AtRest ==
  /\ \A t \in Threads : todo[t] = <<>>
  /\ \A t \in Adders : ~loaded[t].held
  /\ raced = {} /\ tachometer_abs_previous = 0 /\ ~inOrder
  /\ value = Zero /\ due = Zero

JobsInv ==
  /\ todo["vesc"] \in Seq(VescJobs)
  /\ todo["main"] \in Seq(MainJobs)
  /\ todo["ipc"] \in Seq(IpcJobs)
  /\ loaded["vesc"].held => loaded["vesc"].value \in Nat
  /\ \A c \in Cells : c[2] = "distance" => saved[c] \in Nat
  /\ ~running => AtRest

TypeInv == TypeOK /\ JobsInv

-----------------------------------------------------------------------------
(* What the operators return *)

(* Every trip has each of the fields told apart, and the odometer a distance. *)
LEMMA CellFacts ==
  /\ odo \in Cells /\ odo[2] = "distance"
  /\ \A f \in Fields : <<"trip_A", f>> \in Cells /\ <<"trip_B", f>> \in Cells
  /\ \A f \in Fields \cap OdometerFields : <<"odometer", f>> \in Cells
  /\ \A x, f : <<x, f>>[2] = f
BY FieldsAssumption DEF Cells, Trips, odo, OdometerFields

(* The jobs of each thread are jobs. *)
LEMMA JobsAreJobs ==
  VescJobs \subseteq Jobs /\ MainJobs \subseteq Jobs /\ IpcJobs \subseteq Jobs
BY DEF VescJobs, MainJobs, IpcJobs, Jobs

(* A sequence over a set is one over every larger set. *)
LEMMA SeqOfMore ==
  ASSUME NEW S, NEW T, S \subseteq T PROVE Seq(S) \subseteq Seq(T)
OBVIOUS

(* What a distance adds are jobs of the vesc thread. *)
LEMMA AdditionsOfDistance ==
  ASSUME NEW a \in Nat
  PROVE  Additions("distance", a) \in Seq(VescJobs)
<1>1. Job(<<"trip_A", "distance">>, a) \in VescJobs
  BY CellFacts, FieldsAssumption DEF Job, VescJobs
<1>2. Job(<<"trip_B", "distance">>, a) \in VescJobs
  BY CellFacts, FieldsAssumption DEF Job, VescJobs
<1>3. Job(<<"odometer", "distance">>, a) \in VescJobs
  BY CellFacts, FieldsAssumption DEF Job, VescJobs, odo
<1> QED BY <1>1, <1>2, <1>3 DEF Additions, OdometerFields

(* What energy and time add are jobs of the main loop. *)
LEMMA AdditionsOfMain ==
  ASSUME NEW f \in Fields \ {"distance"}, NEW a \in Int
  PROVE  Additions(f, a) \in Seq(MainJobs)
<1>1. Job(<<"trip_A", f>>, a) \in MainJobs /\ Job(<<"trip_B", f>>, a) \in MainJobs
  BY CellFacts DEF Job, MainJobs
<1>2. f \in OdometerFields => Job(<<"odometer", f>>, a) \in MainJobs
  BY CellFacts DEF Job, MainJobs
<1> QED BY <1>1, <1>2 DEF Additions

(* A reset of a trip never touches the odometer. *)
LEMMA ResetsOfIpc ==
  ASSUME NEW trip \in Trips, NEW f PROVE Reset(trip, f) \in Seq(IpcJobs)
<1>1. CASE f \in Fields
  <2>1. <<trip, f>> \in Cells /\ <<trip, f>> # odo
    BY <1>1 DEF Cells, Trips, odo
  <2>2. Job(<<trip, f>>, 0) \in IpcJobs
    BY <2>1 DEF Job, IpcJobs
  <2> QED BY <1>1, <2>2 DEF Reset
<1>2. CASE f \notin Fields
  BY <1>2 DEF Reset
<1> QED BY <1>1, <1>2

(* A setting of the odometer is one of those a display sends. *)
LEMMA SettingOfIpc ==
  ASSUME NEW km \in OdometerSettings PROVE <<Job(odo, km)>> \in Seq(IpcJobs)
<1>1. Job(odo, km) \in IpcJobs
  BY CellFacts, OdometerAssumption DEF Job, IpcJobs
<1> QED BY <1>1

(* What is counted of a difference is no distance backwards and no big step. *)
LEMMA DistanceIsNat ==
  ASSUME NEW x \in Nat, NEW y \in Nat
  PROVE  Distance(x, y) \in Nat /\ Distance(x, y) < BigStep
BY StepAssumption DEF Distance

(* Counting leaves numbers. *)
LEMMA CountType ==
  ASSUME due \in [Cells -> Int], NEW f, NEW a \in Int
  PROVE  Count(f, a) \in [Cells -> Int]
BY DEF Count

-----------------------------------------------------------------------------
(* Types *)

(* All is zero and empty. *)
LEMMA TypeInit == Init => TypeInv
<1> SUFFICES ASSUME Init PROVE TypeInv OBVIOUS
<1>1. Zero \in [Cells -> Int] /\ \A c \in Cells : Zero[c] \in Nat
  BY DEF Zero
<1>2. todo \in [Threads -> Seq(Jobs)] /\ \A t \in Threads : todo[t] = <<>>
  BY DEF Init
<1>3. /\ loaded \in [Adders -> [held : BOOLEAN, value : Int]]
      /\ \A t \in Adders : ~loaded[t].held
  BY DEF Init, None
<1>4. TypeOK
  <2>1. rolled \in 0..MaxRolled /\ starts \in 0..MaxStarts
    BY BoundsAssumption DEF Init
  <2>2. {tachometerAbs, tachometer_abs_previous} \subseteq Nat
    BY DEF Init
  <2>3. raced \subseteq Cells /\ running \in BOOLEAN /\ due \in [Cells -> Int]
    BY <1>1 DEF Init
  <2>4. /\ value \in [Cells -> Int] /\ saved \in [Cells -> Int]
        /\ \A c \in Cells : c[2] = "distance" => value[c] \in Nat
    BY <1>1 DEF Init
  <2>5. inOrder \in BOOLEAN
    BY Zenon DEF Init
  <2>6. astray \in 0..MaxAstray
    BY BoundsAssumption DEF Init
  <2> QED BY <1>2, <1>3, <2>1, <2>2, <2>3, <2>4, <2>5, <2>6, Zenon DEF TypeOK
<1>5. JobsInv
  BY <1>1, <1>2, <1>3 DEF Init, JobsInv, AtRest, Threads, Adders
<1> QED BY <1>4, <1>5 DEF TypeInv

(* The stores that a thread has left, and what they are made of. *)
LEMMA TailsOfJobs ==
  ASSUME TypeInv, NEW t \in Threads, todo[t] # <<>>,
         todo' = [todo EXCEPT ![t] = Tail(@)]
  PROVE  /\ Head(todo[t]) \in Jobs /\ Head(todo[t]) \in
              IF t = "vesc" THEN VescJobs ELSE IF t = "main" THEN MainJobs ELSE IpcJobs
         /\ todo' \in [Threads -> Seq(Jobs)]
         /\ todo'["vesc"] \in Seq(VescJobs)
         /\ todo'["main"] \in Seq(MainJobs)
         /\ todo'["ipc"] \in Seq(IpcJobs)
<1>1. todo \in [Threads -> Seq(Jobs)]
  BY DEF TypeInv, TypeOK
<1>2. /\ todo["vesc"] \in Seq(VescJobs) /\ todo["main"] \in Seq(MainJobs)
      /\ todo["ipc"] \in Seq(IpcJobs)
  BY DEF TypeInv, JobsInv
<1>3. /\ t = "vesc" => Head(todo[t]) \in VescJobs /\ Tail(todo[t]) \in Seq(VescJobs)
      /\ t = "main" => Head(todo[t]) \in MainJobs /\ Tail(todo[t]) \in Seq(MainJobs)
      /\ t = "ipc" => Head(todo[t]) \in IpcJobs /\ Tail(todo[t]) \in Seq(IpcJobs)
  BY <1>2
<1>4. t \in {"vesc", "main", "ipc"} /\ Threads = {"vesc", "main", "ipc"}
  BY DEF Threads, Adders
<1>5. Head(todo[t]) \in Jobs /\ Tail(todo[t]) \in Seq(Jobs)
  BY <1>1
<1>6. todo'["vesc"] \in Seq(VescJobs)
  BY <1>1, <1>2, <1>3, <1>4
<1>7. todo'["main"] \in Seq(MainJobs)
  BY <1>1, <1>2, <1>3, <1>4
<1>8. todo'["ipc"] \in Seq(IpcJobs)
  BY <1>1, <1>2, <1>3, <1>4
<1>9. todo' \in [Threads -> Seq(Jobs)]
  BY <1>1, <1>5
<1> QED BY <1>3, <1>4, <1>5, <1>6, <1>7, <1>8, <1>9

(* A thread that has nothing to store takes up jobs of its own. *)
LEMMA NewJobs ==
  ASSUME TypeInv, NEW t \in Threads, NEW q, todo' = [todo EXCEPT ![t] = q],
         t = "vesc" => q \in Seq(VescJobs),
         t = "main" => q \in Seq(MainJobs),
         t = "ipc" => q \in Seq(IpcJobs)
  PROVE  /\ todo' \in [Threads -> Seq(Jobs)]
         /\ todo'["vesc"] \in Seq(VescJobs)
         /\ todo'["main"] \in Seq(MainJobs)
         /\ todo'["ipc"] \in Seq(IpcJobs)
<1>1. todo \in [Threads -> Seq(Jobs)]
  BY DEF TypeInv, TypeOK
<1>2. /\ todo["vesc"] \in Seq(VescJobs) /\ todo["main"] \in Seq(MainJobs)
      /\ todo["ipc"] \in Seq(IpcJobs)
  BY DEF TypeInv, JobsInv
<1>3. t \in {"vesc", "main", "ipc"} /\ Threads = {"vesc", "main", "ipc"}
  BY DEF Threads, Adders
<1>4. q \in Seq(Jobs)
  BY <1>3, JobsAreJobs, SeqOfMore
<1> QED BY <1>1, <1>2, <1>3, <1>4

(* What of the types an action may disturb: each part on its own, so that   *)
(* a step shows only the parts it changes.                                  *)
Counters ==
  /\ value \in [Cells -> Int] /\ saved \in [Cells -> Int]
  /\ \A c \in Cells : c[2] = "distance" => value[c] \in Nat
  /\ \A c \in Cells : c[2] = "distance" => saved[c] \in Nat
Stores ==
  /\ todo \in [Threads -> Seq(Jobs)]
  /\ todo["vesc"] \in Seq(VescJobs)
  /\ todo["main"] \in Seq(MainJobs)
  /\ todo["ipc"] \in Seq(IpcJobs)
Loads ==
  /\ loaded \in [Adders -> [held : BOOLEAN, value : Int]]
  /\ \A t \in Adders : loaded[t].held => todo[t] # <<>>
  /\ loaded["vesc"].held => loaded["vesc"].value \in Nat
Rides ==
  /\ {tachometerAbs, tachometer_abs_previous} \subseteq Nat
  /\ rolled \in 0..MaxRolled
  /\ inOrder \in BOOLEAN /\ astray \in 0..MaxAstray
Observed ==
  /\ running \in BOOLEAN /\ starts \in 0..MaxStarts
  /\ raced \subseteq Cells /\ due \in [Cells -> Int]
Rests == ~running => AtRest

(* Together the parts are the whole. *)
LEMMA TypeInvParts ==
  TypeInv <=> Counters /\ Stores /\ Loads /\ Rides /\ Observed /\ Rests
BY Zenon DEF TypeInv, TypeOK, JobsInv, Counters, Stores, Loads, Rides, Observed, Rests

(* What is under way is a number. *)
LEMMA OutstandingIsInt ==
  ASSUME Stores, NEW c \in Cells PROVE Outstanding(c) \in Int
<1>1. ToSet(todo["vesc"]) \subseteq Jobs /\ ToSet(todo["main"]) \subseteq Jobs
  <2>1. todo["vesc"] \in Seq(Jobs) /\ todo["main"] \in Seq(Jobs)
    BY DEF Stores, Threads, Adders
  <2> QED BY <2>1 DEF ToSet
<1> DEFINE of == {job \in UnderWay : job.cell = c}
<1>2. of \subseteq Jobs
  BY <1>1 DEF UnderWay
<1>3. CASE of = {}
  BY <1>3 DEF Outstanding
<1>4. CASE of # {}
  <2>1. (CHOOSE job \in of : TRUE) \in of
    BY <1>4
  <2>2. (CHOOSE job \in of : TRUE).amount \in Int
    BY <1>2, <2>1 DEF Jobs
  <2> QED BY <1>4, <2>2 DEF Outstanding
<1> QED BY <1>3, <1>4

(* What a reading may be, and that it is one. *)
LEMMA ReadingOfStep ==
  ASSUME Rides, CountDistance
  PROVE  \E reading \in Nat :
           /\ InOrder(reading) \/ Astray(reading)
           /\ tachometer_abs_previous' = reading
           /\ Distance(tachometer_abs_previous, reading) \in Nat
           /\ due' = Count("distance", Distance(tachometer_abs_previous, reading))
           /\ todo' = [todo EXCEPT !["vesc"] =
                IF Distance(tachometer_abs_previous, reading) > 0
                THEN Additions("distance", Distance(tachometer_abs_previous, reading))
                ELSE <<>>]
<1>1. PossibleReadings \subseteq Nat /\ tachometer_abs_previous \in Nat
  BY OdometerAssumption DEF PossibleReadings, Rides
<1>2. PICK reading \in PossibleReadings :
        /\ InOrder(reading) \/ Astray(reading)
        /\ tachometer_abs_previous' = reading
        /\ due' = Count("distance", Distance(tachometer_abs_previous, reading))
        /\ todo' = [todo EXCEPT !["vesc"] =
             IF Distance(tachometer_abs_previous, reading) > 0
             THEN Additions("distance", Distance(tachometer_abs_previous, reading))
             ELSE <<>>]
  BY DEF CountDistance
<1>3. reading \in Nat /\ Distance(tachometer_abs_previous, reading) \in Nat
  BY <1>1, DistanceIsNat
<1> QED BY <1>2, <1>3

(* The order of readings is one, and no more go astray than the bound. *)
LEMMA ReadingType ==
  ASSUME Rides, NEW reading \in Nat, InOrder(reading) \/ Astray(reading)
  PROVE  inOrder' \in BOOLEAN /\ astray' \in 0..MaxAstray
<1>1. CASE InOrder(reading)
  BY <1>1 DEF InOrder, Rides
<1>2. CASE Astray(reading)
  BY <1>2, BoundsAssumption DEF Astray, Rides
<1> QED BY <1>1, <1>2

(* A step of one thread: it runs, and the parts that it leaves alone stay. *)
LEMMA TypeNext == TypeInv /\ [Next]_vars => TypeInv'
<1> SUFFICES ASSUME TypeInv, [Next]_vars PROVE TypeInv'
  OBVIOUS
<1>0. Counters /\ Stores /\ Loads /\ Rides /\ Observed /\ Rests
  BY TypeInvParts
<1>r. (\E t \in Threads : todo[t] # <<>>) => running
  BY <1>0, Zenon DEF Rests, AtRest
<1>s. SUFFICES Counters' /\ Stores' /\ Loads' /\ Rides' /\ Observed' /\ Rests'
  BY Zenon DEF TypeInv, TypeOK, JobsInv, Counters, Stores, Loads, Rides, Observed, Rests
<1>1. CASE CountDistance
  <2>1. PICK reading \in Nat :
          /\ InOrder(reading) \/ Astray(reading)
          /\ tachometer_abs_previous' = reading
          /\ Distance(tachometer_abs_previous, reading) \in Nat
          /\ due' = Count("distance", Distance(tachometer_abs_previous, reading))
          /\ todo' = [todo EXCEPT !["vesc"] =
               IF Distance(tachometer_abs_previous, reading) > 0
               THEN Additions("distance", Distance(tachometer_abs_previous, reading))
               ELSE <<>>]
    BY <1>0, <1>1, ReadingOfStep
  <2> DEFINE d == Distance(tachometer_abs_previous, reading)
             q == IF d > 0 THEN Additions("distance", d) ELSE <<>>
  <2>2. d \in Nat
    BY <2>1
  <2>3. q \in Seq(VescJobs) /\ todo' = [todo EXCEPT !["vesc"] = q]
    BY <2>1, <2>2, AdditionsOfDistance
  <2>4. running /\ running' /\ todo["vesc"] = <<>>
    BY <1>1 DEF CountDistance, Idle
  <2>5. Counters' /\ Rides'
    <3>1. inOrder' \in BOOLEAN /\ astray' \in 0..MaxAstray
      BY <1>0, <2>1, ReadingType
    <3> QED BY <1>0, <1>1, <2>1, <3>1 DEF CountDistance, Counters, Rides
  <2>6. Stores'
    BY <2>3, NewJobs DEF Stores, Threads, Adders
  <2>7. Loads'
    BY <1>0, <1>1, <2>3, <2>4 DEF CountDistance, Loads, Stores, Adders, Threads
  <2>8. due' \in [Cells -> Int]
    <3>1. due' = Count("distance", d)
      BY <2>1
    <3> QED BY <1>0, <2>2, <3>1, CountType DEF Observed
  <2>9. Observed'
    BY <1>0, <1>1, <2>8 DEF CountDistance, Observed
  <2> QED BY <2>4, <2>5, <2>6, <2>7, <2>9 DEF Rests
<1>2. CASE CountMain
  <2>1. PICK f \in Fields \ {"distance"}, a \in Int :
          /\ todo' = [todo EXCEPT !["main"] = Additions(f, a)]
          /\ due' = Count(f, a)
    <3>1. PICK f \in Fields \ {"distance"} :
            LET amount == IF f = "wattHoursRegenerated" THEN -1 ELSE 1
            IN  /\ todo' = [todo EXCEPT !["main"] = Additions(f, amount)]
                /\ due' = Count(f, amount)
      BY <1>2 DEF CountMain
    <3>2. PICK a \in {1, -1} : a = IF f = "wattHoursRegenerated" THEN -1 ELSE 1
      OBVIOUS
    <3>3. a \in Int
      OBVIOUS
    <3> QED BY <3>1, <3>2, <3>3, Zenon
  <2>2. Additions(f, a) \in Seq(MainJobs)
    BY AdditionsOfMain
  <2>3. todo' = [todo EXCEPT !["main"] = Additions(f, a)]
    BY <2>1
  <2>4. running /\ running' /\ todo["main"] = <<>>
    BY <1>2 DEF CountMain, Idle
  <2>5. Counters' /\ Rides'
    BY <1>0, <1>2 DEF CountMain, Counters, Rides, rideVars
  <2>6. Stores'
    <3>1. "main" \in Threads
      BY DEF Threads, Adders
    <3> QED BY <2>2, <2>3, <3>1, NewJobs DEF Stores
  <2>7. Loads'
    BY <1>0, <1>2, <2>3, <2>4 DEF CountMain, Loads, Stores, Adders, Threads
  <2>8. due' \in [Cells -> Int]
    BY <1>0, <2>1, CountType DEF Observed
  <2>9. Observed'
    BY <1>0, <1>2, <2>8 DEF CountMain, Observed
  <2> QED BY <2>4, <2>5, <2>6, <2>7, <2>9 DEF Rests
<1>3. ASSUME NEW t \in Adders, Load(t) PROVE Counters' /\ Stores' /\ Loads' /\ Rides' /\ Observed' /\ Rests'
  <2>1. t \in Threads /\ running
    BY <1>3, <1>r DEF Load, Threads
  <2>2. todo[t] \in Seq(Jobs) /\ Head(todo[t]) \in Jobs
    BY <1>0, <1>3, <2>1 DEF Stores, Load
  <2>3. t = "vesc" => Head(todo[t]) \in VescJobs
    BY <1>0, <1>3 DEF Stores, Load
  <2>4. /\ value[Head(todo[t]).cell] \in Int
        /\ t = "vesc" => value[Head(todo[t]).cell] \in Nat
    BY <1>0, <2>2, <2>3 DEF Counters, Jobs, VescJobs
  <2>5. Loads'
    BY <1>0, <1>3, <2>4 DEF Loads, Load, Adders
  <2>6. Counters' /\ Stores' /\ Rides' /\ Observed'
    BY <1>0, <1>3 DEF Load, Counters, Stores, Rides, Observed, dueVars, rideVars
  <2> QED BY <1>3, <2>1, <2>5, <2>6 DEF Rests, Load
<1>4. ASSUME NEW t \in Adders, Store(t) PROVE Counters' /\ Stores' /\ Loads' /\ Rides' /\ Observed' /\ Rests'
  <2>1. t \in Threads /\ todo[t] # <<>> /\ running
    BY <1>0, <1>4, <1>r DEF Store, Threads, Loads
  <2> DEFINE job == Head(todo[t])
             new == loaded[t].value + job.amount
  <2>2. /\ job \in Jobs
        /\ t = "vesc" => job \in VescJobs
        /\ t = "main" => job \in MainJobs
        /\ Stores'
    <3>1. todo' = [todo EXCEPT ![t] = Tail(@)]
      BY <1>4 DEF Store
    <3> QED BY <2>1, <3>1, TailsOfJobs DEF Stores
  <2>3. /\ loaded[t] \in [held : BOOLEAN, value : Int] /\ loaded[t].held
        /\ t = "vesc" => loaded[t].value \in Nat
    BY <1>0, <1>4 DEF Loads, Store
  <2>4. /\ job.cell \in Cells /\ new \in Int
        /\ job.cell[2] = "distance" => new \in Nat
    BY <2>2, <2>3 DEF Jobs, VescJobs, MainJobs, Adders
  <2>5. value' = [value EXCEPT ![job.cell] = new]
    BY <1>4 DEF Store
  <2>6. Counters'
    <3>1. saved' = saved
      BY <1>4 DEF Store
    <3> QED BY <1>0, <2>4, <2>5, <3>1 DEF Counters
  <2>7. Loads'
    BY <1>0, <1>4 DEF Loads, Store, None, Stores, Threads, Adders
  <2>8. Rides' /\ running' = running /\ starts' = starts
    BY <1>0, <1>4 DEF Store, Rides, rideVars
  <2>9. raced' \subseteq Cells /\ due' \in [Cells -> Int]
    <3>1. value'[job.cell] \in Int
      BY <2>4, <2>6 DEF Counters
    <3>2. /\ due' = IF job.cell \in raced THEN [due EXCEPT ![job.cell] = value'[job.cell]] ELSE due
          /\ raced' = raced \ {job.cell}
      BY <1>4 DEF Store
    <3> QED BY <1>0, <3>1, <3>2 DEF Observed
  <2> QED BY <1>0, <2>1, <2>2, <2>6, <2>7, <2>8, <2>9 DEF Observed, Rests
<1>5. ASSUME NEW trip \in Trips, tripReset(trip) PROVE Counters' /\ Stores' /\ Loads' /\ Rides' /\ Observed' /\ Rests'
  <2>1. Reset(trip, "distance") \o Reset(trip, "wattHoursConsumed")
          \o Reset(trip, "wattHoursRegenerated") \o Reset(trip, "rideTime") \in Seq(IpcJobs)
    BY ResetsOfIpc
  <2> QED BY <1>0, <1>5, <2>1, NewJobs DEF tripReset, Idle, Counters, Stores,
             Loads, Rides, Observed, Rests, Threads, Adders, dueVars, rideVars
<1>6. CASE SET_ODOMETER
  <2>1. PICK km \in OdometerSettings : todo' = [todo EXCEPT !["ipc"] = <<Job(odo, km)>>]
    BY <1>6 DEF SET_ODOMETER
  <2>2. <<Job(odo, km)>> \in Seq(IpcJobs)
    BY SettingOfIpc
  <2> QED BY <1>0, <1>6, <2>1, <2>2, NewJobs DEF SET_ODOMETER, Idle, Counters,
             Stores, Loads, Rides, Observed, Rests, Threads, Adders, dueVars, rideVars
<1>7. CASE Assign
  <2>1. "ipc" \in Threads /\ todo["ipc"] # <<>> /\ running
    BY <1>7, <1>r DEF Assign, Threads
  <2> DEFINE job == Head(todo["ipc"])
  <2>2. job \in IpcJobs /\ Stores'
    <3>1. todo' = [todo EXCEPT !["ipc"] = Tail(@)]
      BY <1>7 DEF Assign
    <3> QED BY <2>1, <3>1, TailsOfJobs DEF Stores
  <2>3. job.cell \in Cells /\ job.amount \in Nat
    BY <2>2 DEF IpcJobs
  <2>4. /\ value' = [value EXCEPT ![job.cell] = job.amount]
        /\ due' = [due EXCEPT ![job.cell] = job.amount + Outstanding(job.cell)]
        /\ raced' \subseteq raced \cup {job.cell}
    BY <1>7 DEF Assign
  <2>5. Counters'
    <3>1. saved' = saved
      BY <1>7 DEF Assign
    <3> QED BY <1>0, <2>3, <2>4, <3>1 DEF Counters
  <2>6. Outstanding(job.cell) \in Int
    BY <1>0, <2>3, OutstandingIsInt DEF Stores
  <2>7. Observed'
    <3>1. due' \in [Cells -> Int]
      BY <1>0, <2>3, <2>4, <2>6 DEF Observed
    <3>2. raced' \subseteq Cells /\ running' = running /\ starts' = starts
      BY <1>0, <1>7, <2>3, <2>4 DEF Observed, Assign
    <3> QED BY <1>0, <3>1, <3>2 DEF Observed
  <2>8. Loads'
    BY <1>0, <1>7 DEF Loads, Stores, Assign, Threads, Adders
  <2>9. Rides' /\ running'
    BY <1>0, <1>7, <2>1 DEF Rides, Assign, rideVars
  <2> QED BY <2>2, <2>5, <2>7, <2>8, <2>9 DEF Rests
<1>8. CASE TOMLSave
  <2>1. running
    BY <1>8 DEF TOMLSave, Idle
  <2>2. Counters'
    BY <1>0, <1>8 DEF TOMLSave, Counters, threadVars
  <2> QED BY <1>0, <1>8, <2>1, <2>2 DEF TOMLSave, Stores, Loads, Rides,
             Observed, Rests, threadVars, dueVars, rideVars
<1>9. CASE Roll
  <2>1. Rides'
    BY <1>0, <1>9, BoundsAssumption DEF Roll, Rides
  <2> QED BY <1>0, <1>9, <2>1 DEF Roll, Counters, Stores, Loads, Observed,
             Rests, AtRest, threadVars, dueVars
<1>10. CASE ControllerRestarts
  <2>1. Rides'
    <3>1. inOrder' \in BOOLEAN
      BY <1>10, Zenon DEF ControllerRestarts
    <3>2. /\ UNCHANGED <<tachometer_abs_previous, rolled, astray>>
          /\ tachometerAbs' = 0
      BY <1>10 DEF ControllerRestarts
    <3> QED BY <1>0, <3>1, <3>2 DEF Rides
  <2> QED BY <1>0, <1>10, <2>1 DEF ControllerRestarts, Counters, Stores, Loads,
             Observed, Rests, AtRest, threadVars, dueVars
<1>11. CASE Ends
  <2>1. Zero \in [Cells -> Int] /\ \A c \in Cells : Zero[c] \in Nat
    BY DEF Zero
  <2>2. Counters'
    BY <1>0, <1>11, <2>1 DEF Ends, Counters
  <2>3. Stores'
    BY <1>11 DEF Ends, Stores, Threads, Adders
  <2>4. Loads'
    BY <1>11 DEF Ends, Loads, None, Adders
  <2>5. Rides'
    <3>1. inOrder' \in BOOLEAN
      BY <1>11, Zenon DEF Ends
    <3>2. /\ UNCHANGED <<tachometerAbs, rolled, astray>>
          /\ tachometer_abs_previous' = 0
      BY <1>11 DEF Ends
    <3> QED BY <1>0, <3>1, <3>2 DEF Rides
  <2>6. Observed'
    BY <1>0, <1>11, <2>1 DEF Ends, Observed
  <2>7. Rests'
    BY <1>11 DEF Ends, Rests, AtRest, None
  <2> QED BY <2>2, <2>3, <2>4, <2>5, <2>6, <2>7
<1>12. CASE setupTOML
  <2>1. Zero \in [Cells -> Int] /\ \A c \in Cells : Zero[c] \in Nat
    BY DEF Zero
  <2>2. value' \in {saved, Zero} /\ saved' = value' /\ due' = value' /\ running'
    BY <1>12 DEF setupTOML
  <2>3. Counters'
    BY <1>0, <2>1, <2>2 DEF Counters
  <2>4. due' \in [Cells -> Int]
    BY <2>2, <2>3 DEF Counters
  <2>5. starts' \in 0..MaxStarts
    BY <1>0, <1>12, BoundsAssumption DEF setupTOML, Observed
  <2>6. Observed'
    BY <1>0, <1>12, <2>4, <2>5 DEF setupTOML, Observed
  <2>7. Stores' /\ Loads' /\ Rides'
    BY <1>0, <1>12 DEF setupTOML, Stores, Loads, Rides, rideVars
  <2> QED BY <2>2, <2>3, <2>6, <2>7 DEF Rests
<1>13. CASE UNCHANGED vars
  BY <1>0, <1>13 DEF vars, threadVars, dueVars, rideVars, Counters, Stores,
     Loads, Rides, Observed, Rests, AtRest
<1> QED
  BY <1>1, <1>2, <1>3, <1>4, <1>5, <1>6, <1>7, <1>8, <1>9, <1>10, <1>11, <1>12,
     <1>13, Zenon DEF Next

(* Types, threads that have loaded a value have it to store, no distance is  *)
(* negative: for every set of fields and every bound.                        *)
THEOREM StatisticsTypeCorrect == Spec => []TypeOK
<1>1. TypeInv => TypeOK
  BY DEF TypeInv
<1> QED BY TypeInit, TypeNext, <1>1, PTL DEF Spec

-----------------------------------------------------------------------------
(* Every counter gets every addition once *)

(* An addition goes to each counter once, ... *)
DifferentCells(s) ==
  \A i, j \in 1..Len(s) : s[i].cell = s[j].cell => i = j
Additive == \A t \in Adders : DifferentCells(todo[t])

(* ... what is loaded is what the counter holds, unless it was set since, ... *)
Fresh ==
  \A t \in Adders :
    loaded[t].held /\ Head(todo[t]).cell \notin raced =>
      loaded[t].value = value[Head(todo[t]).cell]

(* ... and a counter is raced no longer than it is loaded. *)
RacedIsLoaded == \A c \in raced : Loaded(c)

InStep == \A c \in Cells \ raced : value[c] = due[c] - Outstanding(c)

StepInv == TypeInv /\ Additive /\ Fresh /\ RacedIsLoaded /\ InStep

(* The jobs that are under way, told apart by their counters. *)
OfCell(U, c) == {job \in U : job.cell = c}

(* Outstanding is the amount of the one job, ... *)
LEMMA OutstandingOne ==
  ASSUME NEW c, NEW job, OfCell(UnderWay, c) = {job}
  PROVE  Outstanding(c) = job.amount
BY DEF Outstanding, OfCell

(* ... or nothing. *)
LEMMA OutstandingNone ==
  ASSUME NEW c, OfCell(UnderWay, c) = {} PROVE Outstanding(c) = 0
BY DEF Outstanding, OfCell

(* It is the same as long as the jobs for the counter are. *)
LEMMA OutstandingSame ==
  ASSUME NEW c, OfCell(UnderWay', c) = OfCell(UnderWay, c)
  PROVE  Outstanding(c)' = Outstanding(c)
<1>1. {job \in UnderWay' : job.cell = c} = {job \in UnderWay : job.cell = c}
  BY Zenon DEF OfCell
<1> DEFINE Amount(of) == IF of = {} THEN 0 ELSE (CHOOSE job \in of : TRUE).amount
<1>2. Outstanding(c) = Amount({job \in UnderWay : job.cell = c})
  BY DEF Outstanding
<1>3. Outstanding(c)' = Amount({job \in UnderWay' : job.cell = c})
  BY DEF Outstanding
<1> HIDE DEF Amount
<1> QED BY <1>1, <1>2, <1>3

(* The same of the state after a step. *)
LEMMA OutstandingOneNext ==
  ASSUME NEW c, NEW job, OfCell(UnderWay', c) = {job}
  PROVE  Outstanding(c)' = job.amount
BY DEF Outstanding, OfCell

(* And nothing, in the state after a step. *)
LEMMA OutstandingNoneNext ==
  ASSUME NEW c, OfCell(UnderWay', c) = {} PROVE Outstanding(c)' = 0
BY DEF Outstanding, OfCell

(* The first job and the others. *)
LEMMA HeadAndTail ==
  ASSUME NEW s \in Seq(Jobs), s # <<>>
  PROVE  /\ ToSet(s) = {Head(s)} \cup ToSet(Tail(s))
         /\ DifferentCells(s) =>
              /\ DifferentCells(Tail(s))
              /\ \A job \in ToSet(Tail(s)) : job.cell # Head(s).cell
<1>1. /\ Len(s) \in Nat /\ Len(s) > 0 /\ Head(s) = s[1]
      /\ Len(Tail(s)) = Len(s) - 1
      /\ \A i \in 1..Len(s) - 1 : Tail(s)[i] = s[i + 1]
  OBVIOUS
<1>2. ToSet(s) \subseteq {Head(s)} \cup ToSet(Tail(s))
  <2> SUFFICES ASSUME NEW i \in 1..Len(s) PROVE s[i] \in {Head(s)} \cup ToSet(Tail(s))
    BY DEF ToSet
  <2>1. CASE i = 1
    BY <1>1, <2>1
  <2>2. CASE i # 1
    <3>1. i - 1 \in 1..Len(s) - 1 /\ Tail(s)[i - 1] = s[i]
      BY <1>1, <2>2
    <3>2. DOMAIN Tail(s) = 1..Len(s) - 1
      BY <1>1
    <3> QED BY <3>1, <3>2, Zenon DEF ToSet
  <2> QED BY <2>1, <2>2
<1>3. ToSet(Tail(s)) \subseteq ToSet(s) /\ Head(s) \in ToSet(s)
  <2>1. ASSUME NEW i \in 1..Len(s) - 1 PROVE Tail(s)[i] \in ToSet(s)
    <3>1. i + 1 \in 1..Len(s) /\ Tail(s)[i] = s[i + 1]
      BY <1>1
    <3>2. DOMAIN s = 1..Len(s)
      OBVIOUS
    <3> QED BY <3>1, <3>2, Zenon DEF ToSet
  <2>2. 1 \in 1..Len(s)
    BY <1>1
  <2> QED BY <1>1, <2>1, <2>2 DEF ToSet
<1>4. ASSUME DifferentCells(s)
      PROVE  /\ DifferentCells(Tail(s))
             /\ \A job \in ToSet(Tail(s)) : job.cell # Head(s).cell
  <2>1. ASSUME NEW i \in 1..Len(s) - 1, NEW j \in 1..Len(s) - 1,
               Tail(s)[i].cell = Tail(s)[j].cell
        PROVE  i = j
    <3>1. i + 1 \in 1..Len(s) /\ j + 1 \in 1..Len(s)
      BY <1>1
    <3>2. s[i + 1].cell = s[j + 1].cell
      BY <1>1, <2>1
    <3>3. i + 1 = j + 1
      BY <1>4, <3>1, <3>2 DEF DifferentCells
    <3> QED BY <3>3
  <2>2. ASSUME NEW i \in 1..Len(s) - 1 PROVE Tail(s)[i].cell # Head(s).cell
    <3>1. i + 1 \in 1..Len(s) /\ 1 \in 1..Len(s) /\ i + 1 # 1
      BY <1>1
    <3> QED BY <1>1, <1>4, <3>1 DEF DifferentCells
  <2> QED BY <1>1, <2>1, <2>2 DEF DifferentCells, ToSet
<1> QED BY <1>2, <1>3, <1>4

(* The vesc thread has distances under way, the main loop all else. *)
LEMMA KindsUnderWay ==
  ASSUME Stores
  PROVE  /\ \A job \in ToSet(todo["vesc"]) : job.cell[2] = "distance"
         /\ \A job \in ToSet(todo["main"]) : job.cell[2] # "distance"
<1>1. todo["vesc"] \in Seq(VescJobs) /\ todo["main"] \in Seq(MainJobs)
  BY DEF Stores
<1>2. ToSet(todo["vesc"]) \subseteq VescJobs
  BY <1>1 DEF ToSet
<1>3. ToSet(todo["main"]) \subseteq MainJobs
  BY <1>1 DEF ToSet
<1> QED BY <1>2, <1>3 DEF VescJobs, MainJobs

(* A store ends one job: the only one for its counter. *)
LEMMA StoreEndsOne ==
  ASSUME Stores, Stores', Additive, NEW t \in Adders, todo[t] # <<>>,
         todo' = [todo EXCEPT ![t] = Tail(@)],
         NEW job, job = Head(todo[t])
  PROVE  /\ OfCell(UnderWay, job.cell) = {job}
         /\ OfCell(UnderWay', job.cell) = {}
         /\ \A c : c # job.cell => OfCell(UnderWay', c) = OfCell(UnderWay, c)
         /\ Additive'
         /\ \A u \in Adders : u # t /\ todo[u] # <<>> => Head(todo[u]).cell # job.cell
         /\ todo'[t] # <<>> => Head(todo'[t]).cell # job.cell
<1>1. todo \in [Threads -> Seq(Jobs)] /\ t \in Threads /\ todo[t] \in Seq(Jobs)
  BY DEF Stores, Threads
<1>2. ToSet(todo[t]) = {job} \cup ToSet(todo'[t])
  BY <1>1, HeadAndTail
<1>3. DifferentCells(todo'[t]) /\ \A j \in ToSet(todo'[t]) : j.cell # job.cell
  BY <1>1, HeadAndTail DEF Additive
<1>4. PICK u \in Adders : u # t /\ \A x \in Adders : x = t \/ x = u
  BY DEF Adders
<1>5. todo'[u] = todo[u] /\ todo'[t] = Tail(todo[t])
  BY <1>1, <1>4
<1>6. \A j \in ToSet(todo[u]) : j.cell # job.cell
  <2>1. job \in ToSet(todo[t])
    BY <1>2
  <2>2. (t = "vesc" /\ u = "main") \/ (t = "main" /\ u = "vesc")
    BY <1>4 DEF Adders
  <2> QED BY <2>1, <2>2, KindsUnderWay
<1>7. UnderWay = ToSet(todo[t]) \cup ToSet(todo[u])
  BY <1>4 DEF UnderWay, Adders
<1>8. UnderWay' = ToSet(todo'[t]) \cup ToSet(todo'[u])
  BY <1>4 DEF UnderWay, Adders
<1>9. OfCell(UnderWay, job.cell) = {job}
  BY <1>2, <1>3, <1>6, <1>7 DEF OfCell
<1>10. OfCell(UnderWay', job.cell) = {}
  BY <1>3, <1>5, <1>6, <1>8 DEF OfCell
<1>11. ASSUME NEW c, c # job.cell PROVE OfCell(UnderWay', c) = OfCell(UnderWay, c)
  BY <1>2, <1>5, <1>7, <1>8, <1>11 DEF OfCell
<1>12. Additive'
  BY <1>3, <1>4, <1>5 DEF Additive
<1>13. ASSUME NEW s \in Seq(Jobs), s # <<>> PROVE Head(s) \in ToSet(s)
  BY <1>13, HeadAndTail
<1>14. todo[u] # <<>> => Head(todo[u]).cell # job.cell
  <2>1. todo[u] \in Seq(Jobs)
    BY <1>1 DEF Threads
  <2> QED BY <1>6, <1>13, <2>1
<1>15. todo'[t] # <<>> => Head(todo'[t]).cell # job.cell
  <2>1. todo'[t] \in Seq(Jobs)
    BY <1>1 DEF Stores
  <2> QED BY <1>3, <1>13, <2>1
<1> QED BY <1>4, <1>9, <1>10, <1>11, <1>12, <1>14, <1>15

(* What is added is one job for each counter of the field. *)
LEMMA AdditionsAreOneEach ==
  ASSUME NEW f \in Fields, NEW a \in Int
  PROVE  /\ DifferentCells(Additions(f, a))
         /\ ToSet(Additions(f, a)) = {Job(c, a) : c \in {x \in Cells : x[2] = f}}
<1>1. {x \in Cells : x[2] = f} =
        IF f \in OdometerFields
        THEN {<<"trip_A", f>>, <<"trip_B", f>>, <<"odometer", f>>}
        ELSE {<<"trip_A", f>>, <<"trip_B", f>>}
  <2>1. \A x \in Cells : x[2] = f =>
          \/ x = <<"trip_A", f>> \/ x = <<"trip_B", f>>
          \/ f \in OdometerFields /\ x = <<"odometer", f>>
    BY DEF Cells, Trips
  <2> QED BY <2>1, CellFacts
<1>2. CASE f \in OdometerFields
  <2>1. Additions(f, a) = <<Job(<<"trip_A", f>>, a), Job(<<"trip_B", f>>, a),
                            Job(<<"odometer", f>>, a)>>
    BY <1>2 DEF Additions
  <2>2. ToSet(Additions(f, a)) = {Job(<<"trip_A", f>>, a), Job(<<"trip_B", f>>, a),
                                  Job(<<"odometer", f>>, a)}
    BY <2>1 DEF ToSet
  <2>3. DifferentCells(Additions(f, a))
    BY <2>1 DEF DifferentCells, Job
  <2> QED BY <1>1, <1>2, <2>2, <2>3
<1>3. CASE f \notin OdometerFields
  <2>1. Additions(f, a) = <<Job(<<"trip_A", f>>, a), Job(<<"trip_B", f>>, a)>>
    BY <1>3 DEF Additions
  <2>2. ToSet(Additions(f, a)) = {Job(<<"trip_A", f>>, a), Job(<<"trip_B", f>>, a)}
    BY <2>1 DEF ToSet
  <2>3. DifferentCells(Additions(f, a))
    BY <2>1 DEF DifferentCells, Job
  <2> QED BY <1>1, <1>3, <2>2, <2>3
<1> QED BY <1>2, <1>3

(* A count begins one job for each counter of its field, which had none. *)
LEMMA CountBeginsOne ==
  ASSUME Stores, Additive, NEW t \in Adders, todo[t] = <<>>,
         NEW f \in Fields, NEW a \in Int, t = "vesc" <=> f = "distance",
         todo' = [todo EXCEPT ![t] = Additions(f, a)]
  PROVE  /\ Additive'
         /\ \A c \in Cells : c[2] = f =>
              OfCell(UnderWay, c) = {} /\ OfCell(UnderWay', c) = {Job(c, a)}
         /\ \A c \in Cells : c[2] # f => OfCell(UnderWay', c) = OfCell(UnderWay, c)
<1>1. PICK u \in Adders : u # t /\ \A x \in Adders : x = t \/ x = u
  BY DEF Adders
<1>2. todo'[t] = Additions(f, a) /\ todo'[u] = todo[u]
  BY <1>1 DEF Stores, Threads
<1>3. UnderWay = ToSet(todo[u])
  <2>1. ToSet(todo[t]) = {}
    BY DEF ToSet
  <2> QED BY <1>1, <2>1 DEF UnderWay, Adders
<1>4. UnderWay' = ToSet(Additions(f, a)) \cup UnderWay
  BY <1>1, <1>2, <1>3 DEF UnderWay, Adders
<1>5. \A job \in UnderWay : job.cell[2] # f
  <2>1. (t = "vesc" /\ u = "main") \/ (t = "main" /\ u = "vesc")
    BY <1>1 DEF Adders
  <2> QED BY <1>3, <2>1, KindsUnderWay
<1>6. ToSet(Additions(f, a)) = {Job(c, a) : c \in {x \in Cells : x[2] = f}}
  BY AdditionsAreOneEach
<1>7. Additive'
  BY <1>1, <1>2, AdditionsAreOneEach DEF Additive
<1>8. ASSUME NEW c \in Cells, c[2] = f
      PROVE  OfCell(UnderWay, c) = {} /\ OfCell(UnderWay', c) = {Job(c, a)}
  BY <1>4, <1>5, <1>6, <1>8 DEF OfCell, Job
<1>9. ASSUME NEW c \in Cells, c[2] # f
      PROVE  OfCell(UnderWay', c) = OfCell(UnderWay, c)
  BY <1>4, <1>6, <1>9 DEF OfCell, Job
<1> QED BY <1>7, <1>8, <1>9

(* Counting keeps the counters in step: due grows by what is under way. *)
LEMMA CountInStep ==
  ASSUME TypeInv, StepInv, NEW t \in Adders, todo[t] = <<>>,
         NEW f \in Fields, NEW a \in Int, t = "vesc" <=> f = "distance",
         todo' = [todo EXCEPT ![t] = Additions(f, a)],
         due' = Count(f, a), value' = value, loaded' = loaded, raced' = raced
  PROVE  Additive' /\ Fresh' /\ RacedIsLoaded' /\ InStep'
<1>1. Stores /\ Loads /\ Counters /\ Observed
  BY TypeInvParts
<1>2. /\ Additive'
      /\ \A c \in Cells : c[2] = f =>
           OfCell(UnderWay, c) = {} /\ OfCell(UnderWay', c) = {Job(c, a)}
      /\ \A c \in Cells : c[2] # f => OfCell(UnderWay', c) = OfCell(UnderWay, c)
  BY <1>1, CountBeginsOne DEF StepInv
<1>3. \A u \in Adders : loaded[u].held => u # t /\ todo'[u] = todo[u]
  BY <1>1 DEF Loads, Stores, Threads
<1>4. Fresh'
  BY <1>3 DEF StepInv, Fresh
<1>5. RacedIsLoaded'
  BY <1>3 DEF StepInv, RacedIsLoaded, Loaded
<1>6. ASSUME NEW c \in Cells \ raced PROVE value[c] = due'[c] - Outstanding(c)'
  <2>1. value[c] = due[c] - Outstanding(c) /\ due[c] \in Int
    BY <1>1 DEF StepInv, InStep, Observed
  <2>2. CASE c[2] = f
    <3>1. Outstanding(c) = 0
      BY <1>2, <2>2, OutstandingNone
    <3>2. Outstanding(c)' = a
      <4>1. OfCell(UnderWay', c) = {Job(c, a)}
        BY <1>2, <2>2
      <4>2. Outstanding(c)' = Job(c, a).amount
        BY <4>1, OutstandingOneNext
      <4> QED BY <4>2 DEF Job
    <3>3. due'[c] = due[c] + a
      BY <2>2 DEF Count
    <3> QED BY <2>1, <3>1, <3>2, <3>3
  <2>3. CASE c[2] # f
    <3>1. Outstanding(c)' = Outstanding(c)
      BY <1>2, <2>3, OutstandingSame
    <3>2. due'[c] = due[c]
      BY <2>1, <2>3 DEF Count
    <3> QED BY <2>1, <3>1, <3>2
  <2> QED BY <2>2, <2>3
<1> QED BY <1>2, <1>4, <1>5, <1>6 DEF InStep

(* Nothing loaded, nothing to store, nothing raced: in step. *)
LEMMA NothingUnderWay ==
  ASSUME todo["vesc"] = <<>>, todo["main"] = <<>> PROVE UnderWay = {}
BY DEF UnderWay, ToSet

(* All counters are zero, and due is zero. *)
LEMMA StepInit == Init => StepInv
<1> SUFFICES ASSUME Init PROVE StepInv OBVIOUS
<1>1. TypeInv /\ \A t \in Threads : todo[t] = <<>>
  BY TypeInit DEF Init
<1>2. Additive
  BY <1>1 DEF Additive, DifferentCells, Threads
<1>3. Fresh /\ RacedIsLoaded
  BY DEF Init, Fresh, RacedIsLoaded, None
<1>4. InStep
  <2>1. \A c : Outstanding(c) = 0
    BY <1>1, NothingUnderWay, OutstandingNone DEF OfCell, Threads, Adders
  <2> QED BY <2>1 DEF Init, InStep, Zero
<1> QED BY <1>1, <1>2, <1>3, <1>4 DEF StepInv

(* What a thread stores next. *)
LEMMA HeadIsJob ==
  ASSUME Stores, NEW t \in Threads, todo[t] # <<>>
  PROVE  /\ Head(todo[t]) \in Jobs
         /\ Head(todo[t]).cell \in Cells /\ Head(todo[t]).amount \in Int
<1>1. todo[t] \in Seq(Jobs)
  BY DEF Stores
<1>2. Head(todo[t]) \in Jobs
  BY <1>1
<1> QED BY <1>2 DEF Jobs

(* No step puts a counter out of step. *)
LEMMA StepNext == StepInv /\ [Next]_vars => StepInv'
<1> SUFFICES ASSUME StepInv, [Next]_vars PROVE StepInv'
  OBVIOUS
<1>0. TypeInv /\ TypeInv'
  BY TypeNext DEF StepInv
<1>p. Counters /\ Stores /\ Loads /\ Observed /\ Rests /\ Rides
  BY <1>0, TypeInvParts
<1>q. Counters' /\ Stores' /\ Loads' /\ Observed'
  BY <1>0, Zenon DEF TypeInv, TypeOK, JobsInv, Counters, Stores, Loads, Observed
<1>s. SUFFICES Additive' /\ Fresh' /\ RacedIsLoaded' /\ InStep'
  BY <1>0 DEF StepInv
<1>i. Additive /\ Fresh /\ RacedIsLoaded /\ InStep
  BY DEF StepInv
<1>u. ASSUME todo' = todo, value' = value, due' = due, raced' = raced, loaded' = loaded
      PROVE  Additive' /\ Fresh' /\ RacedIsLoaded' /\ InStep'
  <2>1. \A c : Outstanding(c)' = Outstanding(c)
    BY <1>u DEF Outstanding, UnderWay
  <2>2. InStep'
    BY <1>i, <1>u, <2>1 DEF InStep
  <2>3. RacedIsLoaded'
    BY <1>i, <1>u DEF RacedIsLoaded, Loaded
  <2> QED BY <1>i, <1>u, <2>2, <2>3 DEF Additive, Fresh
<1>v. ASSUME todo'["vesc"] = todo["vesc"], todo'["main"] = todo["main"],
             value' = value, due' = due, raced' = raced, loaded' = loaded
      PROVE  Additive' /\ Fresh' /\ RacedIsLoaded' /\ InStep'
  <2>1. \A c : Outstanding(c)' = Outstanding(c)
    BY <1>v DEF Outstanding, UnderWay
  <2>2. InStep'
    BY <1>i, <1>v, <2>1 DEF InStep
  <2>3. \A t \in Adders : todo'[t] = todo[t]
    BY <1>v DEF Adders
  <2>4. RacedIsLoaded'
    BY <1>i, <1>v, <2>3 DEF RacedIsLoaded, Loaded
  <2> QED BY <1>i, <1>v, <2>2, <2>3, <2>4 DEF Additive, Fresh
<1>1. CASE CountDistance
  <2>0. PICK reading \in Nat :
          /\ Distance(tachometer_abs_previous, reading) \in Nat
          /\ due' = Count("distance", Distance(tachometer_abs_previous, reading))
          /\ todo' = [todo EXCEPT !["vesc"] =
               IF Distance(tachometer_abs_previous, reading) > 0
               THEN Additions("distance", Distance(tachometer_abs_previous, reading))
               ELSE <<>>]
    BY <1>p, <1>1, ReadingOfStep
  <2> DEFINE d == Distance(tachometer_abs_previous, reading)
  <2>1. d \in Nat
    BY <2>0
  <2>2. /\ todo["vesc"] = <<>> /\ due' = Count("distance", d)
        /\ todo' = [todo EXCEPT !["vesc"] = IF d > 0 THEN Additions("distance", d) ELSE <<>>]
        /\ value' = value /\ loaded' = loaded /\ raced' = raced
    BY <1>1, <2>0 DEF CountDistance, Idle
  <2>3. CASE d > 0
    <3>1. todo' = [todo EXCEPT !["vesc"] = Additions("distance", d)]
      BY <2>2, <2>3
    <3>2. "vesc" \in Adders /\ "distance" \in Fields /\ d \in Int
      BY <2>1, FieldsAssumption DEF Adders
    <3> HIDE DEF d
    <3> QED BY <1>0, <2>2, <3>1, <3>2, CountInStep
  <2>4. CASE d = 0
    <3>1. due' = due
      BY <1>p, <2>2, <2>4 DEF Count, Observed
    <3>2. todo'["vesc"] = todo["vesc"] /\ todo'["main"] = todo["main"]
      BY <1>p, <2>2, <2>4 DEF Stores, Threads, Adders
    <3> QED BY <1>v, <2>2, <3>1, <3>2
  <2> QED BY <2>1, <2>3, <2>4
<1>2. CASE CountMain
  <2>1. PICK f \in Fields \ {"distance"} :
          LET amount == IF f = "wattHoursRegenerated" THEN -1 ELSE 1
          IN  /\ todo' = [todo EXCEPT !["main"] = Additions(f, amount)]
              /\ due' = Count(f, amount)
    BY <1>2 DEF CountMain
  <2>2. PICK a \in {1, -1} : a = IF f = "wattHoursRegenerated" THEN -1 ELSE 1
    OBVIOUS
  <2>3. a \in Int
    OBVIOUS
  <2>4. todo' = [todo EXCEPT !["main"] = Additions(f, a)] /\ due' = Count(f, a)
    BY <2>1, <2>2, Zenon
  <2>5. /\ todo["main"] = <<>> /\ value' = value /\ loaded' = loaded
        /\ raced' = raced
    BY <1>2 DEF CountMain, Idle
  <2>6. "main" \in Adders /\ f \in Fields /\ ~("main" = "vesc") /\ f # "distance"
    BY DEF Adders
  <2> QED BY <1>0, <2>3, <2>4, <2>5, <2>6, CountInStep
<1>3. ASSUME NEW t \in Adders, Load(t)
      PROVE  Additive' /\ Fresh' /\ RacedIsLoaded' /\ InStep'
  <2>1. /\ loaded' = [loaded EXCEPT ![t] =
                         [held |-> TRUE, value |-> value[Head(todo[t]).cell]]]
        /\ ~loaded[t].held /\ todo' = todo /\ value' = value
        /\ due' = due /\ raced' = raced
    BY <1>3 DEF Load, dueVars
  <2>2. /\ loaded'[t].held /\ loaded'[t].value = value[Head(todo[t]).cell]
        /\ \A u \in Adders : u # t => loaded'[u] = loaded[u]
    BY <1>p, <2>1 DEF Loads
  <2>3. Fresh'
    BY <1>i, <2>1, <2>2 DEF Fresh
  <2>4. RacedIsLoaded'
    BY <1>i, <2>1, <2>2 DEF RacedIsLoaded, Loaded
  <2>5. InStep'
    BY <1>i, <2>1 DEF InStep, Outstanding, UnderWay
  <2> QED BY <1>i, <2>1, <2>3, <2>4, <2>5 DEF Additive
<1>4. ASSUME NEW t \in Adders, Store(t)
      PROVE  Additive' /\ Fresh' /\ RacedIsLoaded' /\ InStep'
  <2> DEFINE job == Head(todo[t])
             k   == job.cell
  <2>1. /\ loaded[t].held /\ todo[t] # <<>>
        /\ value' = [value EXCEPT ![k] = loaded[t].value + job.amount]
        /\ todo' = [todo EXCEPT ![t] = Tail(@)]
        /\ loaded' = [loaded EXCEPT ![t] = None]
        /\ due' = IF k \in raced THEN [due EXCEPT ![k] = value'[k]] ELSE due
        /\ raced' = raced \ {k}
    BY <1>4, <1>p DEF Store, Loads
  <2>2. job \in Jobs /\ k \in Cells /\ job.amount \in Int
    BY <1>p, <2>1, HeadIsJob DEF Threads
  <2>3. /\ OfCell(UnderWay, k) = {job} /\ OfCell(UnderWay', k) = {}
        /\ \A c : c # k => OfCell(UnderWay', c) = OfCell(UnderWay, c)
        /\ Additive'
        /\ \A u \in Adders : u # t /\ todo[u] # <<>> => Head(todo[u]).cell # k
    BY <1>p, <1>q, <1>i, <2>1, StoreEndsOne
  <2>4. /\ ~loaded'[t].held
        /\ \A u \in Adders : u # t => loaded'[u] = loaded[u] /\ todo'[u] = todo[u]
    BY <1>p, <2>1 DEF Loads, Stores, Threads, None
  <2>5. \A c \in Cells : c # k => value'[c] = value[c] /\ due'[c] = due[c]
    BY <1>p, <2>1, <2>2 DEF Counters, Observed
  <2>6. ASSUME NEW u \in Adders, loaded'[u].held, Head(todo'[u]).cell \notin raced'
        PROVE  loaded'[u].value = value'[Head(todo'[u]).cell]
    <3>1. u # t /\ loaded[u].held /\ todo[u] # <<>> /\ todo'[u] = todo[u]
      BY <1>p, <2>4, <2>6 DEF Loads
    <3>2. Head(todo[u]).cell # k /\ Head(todo[u]).cell \in Cells
      BY <1>p, <2>3, <3>1, HeadIsJob DEF Threads
    <3>3. loaded[u].value = value[Head(todo[u]).cell]
      BY <1>i, <2>1, <2>6, <3>1, <3>2 DEF Fresh
    <3> QED BY <2>4, <2>5, <3>1, <3>2, <3>3
  <2>7. ASSUME NEW c \in raced' PROVE Loaded(c)'
    <3>1. c \in raced /\ c # k
      BY <2>1
    <3>2. PICK u \in Adders : loaded[u].held /\ Head(todo[u]).cell = c
      BY <1>i, <3>1 DEF RacedIsLoaded, Loaded
    <3> QED BY <2>4, <3>1, <3>2 DEF Loaded
  <2>8. ASSUME NEW c \in Cells \ raced' PROVE value'[c] = due'[c] - Outstanding(c)'
    <3>1. CASE c # k
      <4>1. Outstanding(c)' = Outstanding(c)
        BY <2>3, <3>1, OutstandingSame
      <4>2. c \in Cells \ raced
        BY <2>1, <3>1
      <4> QED BY <1>i, <2>5, <3>1, <4>1, <4>2 DEF InStep
    <3>2. CASE c = k
      <4>1. Outstanding(c)' = 0
        BY <2>3, <3>2, OutstandingNoneNext
      <4>2. value'[c] = loaded[t].value + job.amount /\ value'[c] \in Int
        BY <1>p, <1>q, <2>1, <2>2, <3>2 DEF Counters
      <4>3. CASE c \in raced
        <5>1. due'[c] = value'[c]
          BY <1>p, <2>1, <3>2, <4>3 DEF Observed
        <5> QED BY <4>1, <4>2, <5>1
      <4>4. CASE c \notin raced
        <5>1. due'[c] = due[c] /\ due[c] \in Int
          BY <1>p, <2>1, <3>2, <4>4 DEF Observed
        <5>2. loaded[t].value = value[c]
          BY <1>i, <2>1, <3>2, <4>4 DEF Fresh
        <5>3. Outstanding(c) = job.amount
          BY <2>3, <3>2, OutstandingOne
        <5>4. value[c] = due[c] - job.amount
          BY <1>i, <4>4, <5>3 DEF InStep
        <5> QED BY <2>2, <4>1, <4>2, <5>1, <5>2, <5>4
      <4> QED BY <4>3, <4>4
    <3> QED BY <3>1, <3>2
  <2> QED BY <2>3, <2>6, <2>7, <2>8 DEF Fresh, RacedIsLoaded, InStep
<1>5. CASE \/ \E trip \in Trips : tripReset(trip)
           \/ SET_ODOMETER
  <2>1. /\ value' = value /\ due' = due /\ raced' = raced /\ loaded' = loaded
        /\ todo'["vesc"] = todo["vesc"] /\ todo'["main"] = todo["main"]
    BY <1>5, <1>p DEF tripReset, SET_ODOMETER, dueVars, Stores, Threads, Adders
  <2> QED BY <1>v, <2>1
<1>6. CASE Assign
  <2> DEFINE k == Head(todo["ipc"]).cell
             x == Head(todo["ipc"]).amount
  <2>1. /\ todo["ipc"] # <<>> /\ loaded' = loaded
        /\ value' = [value EXCEPT ![k] = x]
        /\ due' = [due EXCEPT ![k] = x + Outstanding(k)]
        /\ raced' = IF Loaded(k) THEN raced \cup {k} ELSE raced
        /\ todo' = [todo EXCEPT !["ipc"] = Tail(@)]
    BY <1>6 DEF Assign
  <2>2. k \in Cells /\ x \in Int
    BY <1>p, <2>1 DEF Stores, IpcJobs
  <2>3. \A t \in Adders : todo'[t] = todo[t]
    BY <1>p, <2>1 DEF Stores, Threads, Adders
  <2>4. ASSUME NEW c PROVE Outstanding(c)' = Outstanding(c)
    <3>1. UnderWay' = UnderWay
      BY <2>3 DEF UnderWay, Adders
    <3> QED BY <3>1, OutstandingSame DEF OfCell
  <2>5. Fresh'
    <3> SUFFICES ASSUME NEW t \in Adders, loaded[t].held, Head(todo[t]).cell \notin raced'
                 PROVE  loaded[t].value = value'[Head(todo[t]).cell]
      BY <2>1, <2>3 DEF Fresh
    <3>1. Head(todo[t]).cell # k
      BY <2>1 DEF Loaded
    <3>2. Head(todo[t]).cell \notin raced
      BY <2>1
    <3>3. loaded[t].value = value[Head(todo[t]).cell]
      BY <1>i, <3>2 DEF Fresh
    <3>4. Head(todo[t]).cell \in Cells
      BY <1>p, HeadIsJob DEF Loads, Threads
    <3> QED BY <1>p, <2>1, <2>2, <3>1, <3>3, <3>4 DEF Counters
  <2>6. RacedIsLoaded'
    <3>1. ASSUME NEW c, Loaded(c) PROVE Loaded(c)'
      BY <2>1, <2>3, <3>1 DEF Loaded
    <3>2. raced' \subseteq raced \cup {k} /\ (k \in raced' => k \in raced \/ Loaded(k))
      BY <2>1
    <3> QED BY <1>i, <3>1, <3>2 DEF RacedIsLoaded
  <2>7. InStep'
    <3> SUFFICES ASSUME NEW c \in Cells \ raced' PROVE value'[c] = due'[c] - Outstanding(c)
      BY <2>4 DEF InStep
    <3>1. CASE c = k
      <4>1. Outstanding(c) \in Int
        BY <1>p, OutstandingIsInt
      <4> QED BY <1>p, <2>1, <2>2, <3>1, <4>1 DEF Counters, Observed
    <3>2. CASE c # k
      <4>1. c \in Cells \ raced
        BY <2>1
      <4> QED BY <1>p, <1>i, <2>1, <2>2, <3>2, <4>1 DEF Counters, Observed, InStep
    <3> QED BY <3>1, <3>2
  <2> QED BY <1>i, <2>3, <2>5, <2>6, <2>7 DEF Additive
<1>7. CASE TOMLSave \/ Roll \/ ControllerRestarts \/ UNCHANGED vars
  BY <1>u, <1>7 DEF TOMLSave, Roll, ControllerRestarts, vars, threadVars, dueVars
<1>8. CASE Ends \/ setupTOML
  <2>1. /\ \A t \in Threads : todo'[t] = <<>>
        /\ \A t \in Adders : ~loaded'[t].held
        /\ raced' = {} /\ due' = value' /\ \A c \in Cells : value'[c] \in Int
    BY <1>p, <1>q, <1>8 DEF Ends, setupTOML, Rests, AtRest, None, Counters
  <2>2. UnderWay' = {}
    BY <2>1 DEF UnderWay, ToSet, Threads, Adders
  <2>3. ASSUME NEW c \in Cells PROVE Outstanding(c)' = 0
    BY <2>2, OutstandingNoneNext DEF OfCell
  <2>4. Additive'
    BY <2>1 DEF Additive, DifferentCells, Threads
  <2> QED BY <2>1, <2>3, <2>4 DEF Fresh, RacedIsLoaded, InStep
<1> QED
  BY <1>1, <1>2, <1>3, <1>4, <1>5, <1>6, <1>7, <1>8, Zenon DEF Next

(* Both trips and the odometer get every addition once: a counter differs   *)
(* from what it was set to and what was counted since only by what is under *)
(* way, unless it was set between the load and the store of an addition.    *)
THEOREM EveryAdditionReachesEveryCounter == Spec => []CountersInStep
<1>1. StepInv => CountersInStep
  BY DEF StepInv, InStep, CountersInStep
<1> QED BY StepInit, StepNext, <1>1, PTL DEF Spec

-----------------------------------------------------------------------------
(* No distance is invented *)

(* What may have been ridden: a start of the backend may take less than one *)
(* big step from the tachometer that an earlier one has counted, and a      *)
(* reading that goes astray brings less than one.                           *)
Ridden == rolled + (starts - 1 + astray) * (BigStep - 1)
Within(x, r) == \E km \in OdometerSettings \cup {0} : x <= km + r

(* What the readings to come may count, with an order o, the last reading p *)
(* and the tachometer t, and the wheel at rest: all between p and t while   *)
(* readings are in order; else at most what the next one counts.            *)
ToCome(o, p, t) ==
  IF o THEN t - p
  ELSE IF p >= t THEN 0
  ELSE IF t - p < BigStep THEN t - p
  ELSE BigStep - 1

(* What the odometer is still to get: under way, and not yet counted. *)
Coming ==
  Outstanding(odo) + ToCome(inOrder, tachometer_abs_previous, tachometerAbs)

(* The odometer and what is coming to it are within what was ridden, and so *)
(* is what a store will put there; what is saved is within it, too, since   *)
(* the next start begins with that.                                         *)
OdometerInv ==
  /\ tachometerAbs <= rolled
  /\ inOrder => tachometer_abs_previous <= tachometerAbs
  /\ running => starts > 0
  /\ starts = 0 => saved[odo] = 0
  /\ starts > 0 => Within(saved[odo], Ridden)
  /\ running => Coming <= Ridden /\ Within(value[odo] + Coming, Ridden)
  /\ loaded["vesc"].held /\ Head(todo["vesc"]).cell = odo =>
       Within(loaded["vesc"].value + Coming, Ridden)

DistanceInv == StepInv /\ OdometerInv

(* What is within a ride is within every longer one. *)
LEMMA WithinMore ==
  ASSUME NEW x \in Int, NEW y \in Int, NEW r \in Int, NEW q \in Int,
         Within(y, r), x - y <= q - r
  PROVE  Within(x, q)
<1>1. PICK km \in OdometerSettings \cup {0} : y <= km + r
  BY DEF Within
<1>2. km \in Int
  BY OdometerAssumption
<1>3. x <= km + q
  BY <1>1, <1>2
<1> QED BY <1>3 DEF Within

(* What may have been ridden is a number. *)
LEMMA RiddenIsInt ==
  ASSUME rolled \in Int, starts \in Int, astray \in Int PROVE Ridden \in Int
BY StepAssumption DEF Ridden

(* One allowance more is one big step more. *)
LEMMA OneMore ==
  ASSUME NEW n \in Int, NEW b \in Int PROVE (n + 1) * b = n * b + b
OBVIOUS

(* A state before readings begin: they bring less than a big step, and no   *)
(* more than the tachometer shows.                                          *)
LEMMA ComeIsNat ==
  ASSUME NEW o \in BOOLEAN, NEW p \in Nat, NEW t \in Nat, o => p <= t
  PROVE  /\ ToCome(o, p, t) \in Nat
         /\ ~o => ToCome(o, p, t) < BigStep /\ ToCome(o, p, t) <= t
BY StepAssumption DEF ToCome

(* Rolling on by one brings at most one, a restart of the controller none.  *)
LEMMA ComeRolls ==
  ASSUME NEW o \in BOOLEAN, NEW p \in Nat, NEW t \in Nat, o => p <= t
  PROVE  /\ ToCome(o, p, t + 1) <= ToCome(o, p, t) + 1
         /\ ToCome(FALSE, p, 0) = 0
BY StepAssumption DEF ToCome

(* A reading in order counts no more than was to come ...                   *)
LEMMA ComeInOrder ==
  ASSUME NEW o \in BOOLEAN, NEW p \in Nat, NEW t \in Nat, o => p <= t,
         NEW r \in Nat, r = t \/ (o /\ r \in p..t)
  PROVE  /\ r <= t
         /\ Distance(p, r) + ToCome(TRUE, r, t) <= ToCome(o, p, t)
<1>1. CASE r = t
  BY <1>1, StepAssumption DEF ToCome, Distance
<1>2. CASE o /\ r \in p..t
  BY <1>2, StepAssumption DEF ToCome, Distance
<1> QED BY <1>1, <1>2

(* ... and one that goes astray less than a big step more, with all that    *)
(* follows from it.                                                         *)
LEMMA ComeAstray ==
  ASSUME NEW o \in BOOLEAN, NEW p \in Nat, NEW t \in Nat, o => p <= t,
         NEW r \in Nat, NEW q \in BOOLEAN, q <=> t - r \in 0..(BigStep - 1)
  PROVE  /\ q => r <= t
         /\ Distance(p, r) + ToCome(q, r, t) <= ToCome(o, p, t) + (BigStep - 1)
<1>1. q => r <= t /\ t - r <= BigStep - 1
  BY StepAssumption
<1>2. ToCome(q, r, t) = IF r >= t THEN 0 ELSE IF t - r < BigStep THEN t - r ELSE BigStep - 1
  <2>1. CASE q
    BY <1>1, <2>1, StepAssumption DEF ToCome
  <2>2. CASE ~q
    BY <2>2 DEF ToCome
  <2> QED BY <2>1, <2>2
<1>3. CASE o
  BY <1>2, <1>3, StepAssumption DEF ToCome, Distance
<1>4. CASE ~o
  BY <1>2, <1>4, StepAssumption DEF ToCome, Distance
<1> QED BY <1>1, <1>3, <1>4

(* What is under way to the odometer comes from the vesc thread. *)
LEMMA OutstandingDistance == Stores => Outstanding(odo) \in Nat
<1> SUFFICES ASSUME Stores PROVE Outstanding(odo) \in Nat OBVIOUS
<1>1. OfCell(UnderWay, odo) \subseteq VescJobs
  <2>1. todo["vesc"] \in Seq(VescJobs)
    BY DEF Stores
  <2>2. ToSet(todo["vesc"]) \subseteq VescJobs
    BY <2>1 DEF ToSet
  <2> QED BY <2>2, KindsUnderWay, CellFacts DEF OfCell, UnderWay
<1> DEFINE of == {job \in UnderWay : job.cell = odo}
<1>2. CASE of = {}
  BY <1>2 DEF Outstanding
<1>3. CASE of # {}
  <2>1. (CHOOSE job \in of : TRUE) \in of
    BY <1>3
  <2>2. (CHOOSE job \in of : TRUE).amount \in Nat
    BY <1>1, <2>1 DEF OfCell, VescJobs
  <2> QED BY <1>3, <2>2 DEF Outstanding
<1> QED BY <1>2, <1>3

(* The same of the state after a step. *)
LEMMA OutstandingDistanceNext == Stores' => (Outstanding(odo) \in Nat)'
BY OutstandingDistance, PTL

(* What two sums have in common does not change their difference.           *)
LEMMA SumsDiffer ==
  ASSUME NEW o \in Int, NEW a \in Int, NEW b \in Int, NEW e \in Int, b - a <= e
  PROVE  (o + b) - (o + a) <= e
OBVIOUS

(* One grows from a to b or as much, the other by no more.                  *)
LEMMA GrowsLess ==
  ASSUME NEW c \in Int, NEW d \in Int, NEW r \in Int, NEW q \in Int,
         NEW a \in Int, NEW b \in Int, b >= a, d - c <= b - a, q - r = b - a
  PROVE  q - r >= d - c /\ q >= r
OBVIOUS

(* The odometer is not touched, and no more is to come than what was ridden *)
(* or allowed for in the step.                                              *)
LEMMA OdometerLeftAlone ==
  ASSUME DistanceInv, TypeInv', running' = running, starts' = starts,
         Ridden' - Ridden >= Coming' - Coming, Ridden' >= Ridden,
         Coming \in Int, Coming' \in Int, tachometerAbs' <= rolled',
         inOrder' => tachometer_abs_previous' <= tachometerAbs',
         value'[odo] = value[odo], saved' = saved,
         loaded'["vesc"].held /\ Head(todo'["vesc"]).cell = odo =>
           /\ loaded["vesc"].held /\ Head(todo["vesc"]).cell = odo
           /\ loaded'["vesc"] = loaded["vesc"]
  PROVE  OdometerInv'
<1>1. /\ Counters /\ Loads /\ rolled \in Int /\ starts \in Int /\ astray \in Int
      /\ rolled' \in Int /\ starts' \in Int /\ astray' \in Int
  <2>1. TypeInv
    BY DEF DistanceInv, StepInv
  <2>2. rolled \in 0..MaxRolled /\ starts \in 0..MaxStarts /\ astray \in 0..MaxAstray
    BY <2>1, TypeInvParts DEF Rides, Observed
  <2>3. rolled' \in 0..MaxRolled /\ starts' \in 0..MaxStarts /\ astray' \in 0..MaxAstray
    BY DEF TypeInv, TypeOK
  <2> QED BY <2>1, <2>2, <2>3, TypeInvParts, BoundsAssumption
<1>2. Ridden \in Int /\ Ridden' \in Int
  BY <1>1, StepAssumption DEF Ridden
<1>3. value[odo] \in Int /\ saved[odo] \in Int /\ loaded["vesc"].value \in Int
  BY <1>1, CellFacts DEF Counters, Loads, Adders
<1>4. starts' > 0 => Within(saved'[odo], Ridden')
  <2>1. saved[odo] - saved[odo] <= Ridden' - Ridden
    BY <1>1, <1>2, <1>3
  <2> QED BY <1>2, <1>3, <2>1, WithinMore DEF DistanceInv, OdometerInv
<1>5. running' => Coming' <= Ridden' /\ Within(value'[odo] + Coming', Ridden')
  <2>1. running' => Coming' <= Ridden'
    <3>1. running => Coming <= Ridden
      BY DEF DistanceInv, OdometerInv
    <3>2. Coming <= Ridden => Coming' <= Ridden'
      <4> DEFINE c == Coming
                 r == Ridden
                 d == Coming'
                 q == Ridden'
      <4>1. c \in Int /\ r \in Int /\ d \in Int /\ q \in Int /\ q - r >= d - c
        BY <1>2
      <4> HIDE DEF c, r, d, q
      <4>2. c <= r => d <= q
        BY <4>1
      <4> QED BY <4>2 DEF c, r, d, q
    <3> QED BY <3>1, <3>2
  <2>2. running' => Within(value'[odo] + Coming', Ridden')
    <3>1. /\ value[odo] + Coming \in Int /\ value[odo] + Coming' \in Int
          /\ (value[odo] + Coming') - (value[odo] + Coming) <= Ridden' - Ridden
      BY <1>2, <1>3
    <3> QED BY <1>2, <3>1, WithinMore DEF DistanceInv, OdometerInv
  <2> QED BY <2>1, <2>2
<1>6. loaded'["vesc"].held /\ Head(todo'["vesc"]).cell = odo =>
        Within(loaded'["vesc"].value + Coming', Ridden')
  <2> DEFINE w == loaded["vesc"].value
  <2>1. /\ w + Coming \in Int /\ w + Coming' \in Int
        /\ (w + Coming') - (w + Coming) <= Ridden' - Ridden
    BY <1>2, <1>3
  <2> QED BY <1>2, <2>1, WithinMore DEF DistanceInv, OdometerInv
<1> QED BY <1>4, <1>5, <1>6 DEF DistanceInv, OdometerInv

(* Nothing is counted, nothing was ridden. *)
LEMMA DistanceInit == Init => DistanceInv
<1> SUFFICES ASSUME Init PROVE DistanceInv OBVIOUS
<1>1. StepInv
  BY StepInit
<1>2. saved[odo] = 0
  BY CellFacts DEF Init, Zero
<1> QED BY <1>1, <1>2 DEF Init, DistanceInv, OdometerInv, None, Adders

(* No step brings the odometer more than was ridden. *)
LEMMA DistanceNext == DistanceInv /\ [Next]_vars => DistanceInv'
<1> SUFFICES ASSUME DistanceInv, [Next]_vars PROVE DistanceInv'
  OBVIOUS
<1>0. StepInv /\ StepInv' /\ TypeInv /\ TypeInv'
  BY StepNext DEF DistanceInv, StepInv
<1>p. Counters /\ Stores /\ Loads /\ Rides /\ Observed /\ Rests /\ Additive
  BY <1>0, TypeInvParts DEF StepInv
<1>q. Counters' /\ Stores' /\ Loads' /\ Rides' /\ Observed'
  BY <1>0, Zenon DEF TypeInv, TypeOK, JobsInv, Counters, Stores, Loads, Rides, Observed
<1>n. /\ rolled \in Nat /\ starts \in Nat /\ rolled' \in Nat /\ starts' \in Nat
      /\ tachometerAbs \in Nat /\ tachometer_abs_previous \in Nat
      /\ tachometerAbs' \in Nat /\ tachometer_abs_previous' \in Nat
      /\ tachometerAbs <= rolled /\ astray \in Nat /\ astray' \in Nat
  BY <1>p, <1>q, BoundsAssumption DEF Rides, Observed, DistanceInv, OdometerInv
<1>i. /\ inOrder \in BOOLEAN /\ inOrder' \in BOOLEAN
      /\ inOrder => tachometer_abs_previous <= tachometerAbs
  BY <1>p, <1>q DEF Rides, DistanceInv, OdometerInv
<1>t. ToCome(inOrder, tachometer_abs_previous, tachometerAbs) \in Nat
  BY <1>n, <1>i, ComeIsNat
<1>k. inOrder' => tachometer_abs_previous' <= tachometerAbs'
  <2>1. CASE CountDistance
    <3>1. PICK reading \in Nat :
            /\ InOrder(reading) \/ Astray(reading)
            /\ tachometer_abs_previous' = reading
      BY <1>p, <2>1, ReadingOfStep
    <3>2. tachometerAbs' = tachometerAbs
      BY <2>1 DEF CountDistance
    <3>3. CASE InOrder(reading)
      BY <1>n, <3>1, <3>2, <3>3 DEF InOrder
    <3>4. CASE Astray(reading)
      <4>1. tachometerAbs - reading \in 0..(BigStep - 1) => reading <= tachometerAbs
        BY <1>n
      <4>2. inOrder' = (tachometerAbs - reading \in 0..(BigStep - 1))
        BY <3>4 DEF Astray
      <4> QED BY <3>1, <3>2, <4>1, <4>2
    <3> QED BY <3>1, <3>3, <3>4
  <2>2. CASE Roll
    <3>1. /\ inOrder' = inOrder /\ tachometer_abs_previous' = tachometer_abs_previous
          /\ tachometerAbs' = tachometerAbs + 1
      BY <2>2 DEF Roll
    <3>2. /\ tachometer_abs_previous <= tachometerAbs =>
               tachometer_abs_previous <= tachometerAbs + 1
      BY <1>n
    <3> QED BY <1>i, <3>1, <3>2, Zenon
  <2>3. CASE ControllerRestarts \/ Ends
    BY <2>3, Zenon DEF ControllerRestarts, Ends
  <2>4. CASE ~CountDistance /\ ~Roll /\ ~ControllerRestarts /\ ~Ends
    <3>1. UNCHANGED rideVars
      BY <2>4, Zenon DEF Next, CountMain, Load, Store, tripReset, SET_ODOMETER,
         Assign, TOMLSave, setupTOML, vars, dueVars
    <3> QED BY <1>i, <3>1 DEF rideVars
  <2> QED BY <2>1, <2>2, <2>3, <2>4
<1>c. Coming \in Nat /\ Coming' \in Nat
  <2>1. Outstanding(odo) \in Nat
    BY <1>p, OutstandingDistance
  <2>2. Outstanding(odo)' \in Nat
    BY <1>q, OutstandingDistanceNext
  <2>3. ToCome(inOrder', tachometer_abs_previous', tachometerAbs') \in Nat
    BY <1>n, <1>i, <1>k, ComeIsNat
  <2> QED BY <1>t, <2>1, <2>2, <2>3 DEF Coming, ToCome
<1>b. (* Only what is coming, and the odometer, have to be looked at. *)
      SUFFICES OdometerInv'
  BY <1>0 DEF DistanceInv, OdometerInv
<1>o. ASSUME todo'["vesc"] = todo["vesc"], todo'["main"] = todo["main"]
      PROVE  Outstanding(odo)' = Outstanding(odo)
  <2>1. UnderWay' = UnderWay
    BY <1>o DEF UnderWay
  <2> QED BY <2>1, OutstandingSame DEF OfCell
<1>d. odo \in Cells /\ value[odo] \in Nat /\ Ridden \in Int /\ Ridden' \in Int
  BY <1>p, <1>n, CellFacts, RiddenIsInt, StepAssumption DEF Counters, Ridden
<1>a. ASSUME UNCHANGED <<starts, rideVars>>, Outstanding(odo)' = Outstanding(odo)
      PROVE  Coming' = Coming /\ Ridden' = Ridden
  BY <1>a DEF Coming, Ridden, ToCome, rideVars
<1>1. CASE CountDistance
  <2>0. PICK reading \in Nat :
          /\ InOrder(reading) \/ Astray(reading)
          /\ tachometer_abs_previous' = reading
          /\ Distance(tachometer_abs_previous, reading) \in Nat
          /\ todo' = [todo EXCEPT !["vesc"] =
               IF Distance(tachometer_abs_previous, reading) > 0
               THEN Additions("distance", Distance(tachometer_abs_previous, reading))
               ELSE <<>>]
    BY <1>p, <1>1, ReadingOfStep
  <2> DEFINE d == Distance(tachometer_abs_previous, reading)
  <2>1. /\ todo["vesc"] = <<>> /\ value' = value /\ loaded' = loaded /\ saved' = saved
        /\ todo' = [todo EXCEPT !["vesc"] = IF d > 0 THEN Additions("distance", d) ELSE <<>>]
        /\ running' = running /\ starts' = starts /\ rolled' = rolled
        /\ tachometerAbs' = tachometerAbs /\ tachometer_abs_previous' = reading
    BY <1>1, <2>0 DEF CountDistance, Idle
  <2>2. d \in Nat
    BY <2>0
  <2>3. Outstanding(odo) = 0
    <3>1. OfCell(UnderWay, odo) = {}
      BY <1>p, <2>1, KindsUnderWay, CellFacts DEF OfCell, UnderWay, ToSet
    <3> QED BY <3>1, OutstandingNone
  <2>4. Outstanding(odo)' = d
    <3>1. CASE d > 0
      <4>1. todo' = [todo EXCEPT !["vesc"] = Additions("distance", d)]
        BY <2>1, <3>1
      <4>2. "vesc" \in Adders /\ "distance" \in Fields /\ d \in Int
        BY <2>2, FieldsAssumption DEF Adders
      <4> HIDE DEF d
      <4>3. OfCell(UnderWay', odo) = {Job(odo, d)}
        <5>1. "vesc" = "vesc" <=> "distance" = "distance"
          OBVIOUS
        <5>2. Stores /\ Additive /\ todo["vesc"] = <<>>
          BY <1>p, <2>1
        <5>3. \A c \in Cells : c[2] = "distance" =>
                OfCell(UnderWay, c) = {} /\ OfCell(UnderWay', c) = {Job(c, d)}
          BY <4>1, <4>2, <5>1, <5>2, CountBeginsOne
        <5> QED BY <1>d, <5>3, CellFacts
      <4>4. Outstanding(odo)' = Job(odo, d).amount
        BY <4>3, OutstandingOneNext
      <4> QED BY <4>4 DEF Job
    <3>2. CASE d = 0
      <4>1. todo'["vesc"] = todo["vesc"] /\ todo'["main"] = todo["main"]
        BY <1>p, <2>1, <3>2 DEF Stores, Threads, Adders
      <4> QED BY <1>o, <2>3, <3>2, <4>1
    <3> QED BY <2>2, <3>1, <3>2
  <2> DEFINE before == ToCome(inOrder, tachometer_abs_previous, tachometerAbs)
             after  == ToCome(inOrder', reading, tachometerAbs)
  <2>5. after \in Nat /\ Coming' = d + after /\ Coming = before
    <3>1. after \in Nat
      BY <1>n, <1>i, <1>k, <2>1, ComeIsNat
    <3>2. Coming' = Outstanding(odo)' + ToCome(inOrder', tachometer_abs_previous', tachometerAbs')
      BY DEF Coming, ToCome
    <3>3. Coming' = d + after
      BY <2>1, <2>4, <3>2
    <3> QED BY <1>t, <2>3, <3>1, <3>3 DEF Coming
  <2>6. Ridden' - Ridden >= Coming' - Coming /\ Ridden' >= Ridden
    <3>1. CASE InOrder(reading)
      <4>1. inOrder' = TRUE /\ Ridden' = Ridden
        BY <2>1, <3>1 DEF InOrder, Ridden
      <4>2. reading = tachometerAbs \/ (inOrder /\ reading \in tachometer_abs_previous..tachometerAbs)
        BY <3>1 DEF InOrder
      <4>3. d + after <= before
        BY <1>n, <1>i, <4>1, <4>2, ComeInOrder
      <4> HIDE DEF d, after, before
      <4> QED BY <1>c, <1>d, <2>5, <4>1, <4>3
    <3>2. CASE Astray(reading)
      <4>1. /\ astray' = astray + 1
            /\ inOrder' <=> tachometerAbs - reading \in 0..(BigStep - 1)
        BY <3>2 DEF Astray
      <4>2. d + after <= before + (BigStep - 1)
        BY <1>n, <1>i, <4>1, ComeAstray
      <4>3. Ridden' = Ridden + (BigStep - 1)
        <5> DEFINE n == starts - 1 + astray
        <5>1. n \in Int /\ starts' - 1 + astray' = n + 1 /\ BigStep - 1 \in Int
          BY <1>n, <2>1, <4>1, StepAssumption
        <5>2. (n + 1) * (BigStep - 1) = n * (BigStep - 1) + (BigStep - 1)
          BY <5>1, OneMore
        <5>3. Ridden = rolled + n * (BigStep - 1) /\ n * (BigStep - 1) \in Int
          BY <5>1 DEF Ridden
        <5>4. Ridden' = rolled + (n + 1) * (BigStep - 1)
          BY <2>1, <5>1 DEF Ridden
        <5> HIDE DEF n
        <5> QED BY <1>n, <5>1, <5>2, <5>3, <5>4
      <4>4. BigStep - 1 \in Nat
        BY StepAssumption
      <4> HIDE DEF d, after, before
      <4> QED BY <1>c, <1>d, <2>5, <4>2, <4>3, <4>4
    <3> QED BY <2>0, <3>1, <3>2
  <2>7. ~loaded'["vesc"].held
    BY <1>p, <2>1 DEF Loads, Adders
  <2> QED BY <1>0, <1>c, <1>k, <1>n, <2>1, <2>6, <2>7, OdometerLeftAlone
<1>2. CASE CountMain
  <2>1. PICK f \in Fields \ {"distance"}, a \in Int :
          todo' = [todo EXCEPT !["main"] = Additions(f, a)]
    <3>1. PICK f \in Fields \ {"distance"} :
            todo' = [todo EXCEPT !["main"] =
              Additions(f, IF f = "wattHoursRegenerated" THEN -1 ELSE 1)]
      BY <1>2 DEF CountMain
    <3>2. (IF f = "wattHoursRegenerated" THEN -1 ELSE 1) \in Int
      OBVIOUS
    <3> QED BY <3>1, <3>2, Zenon
  <2>2. /\ todo["main"] = <<>> /\ value' = value /\ loaded' = loaded
        /\ UNCHANGED <<running, starts, saved, rideVars>>
    BY <1>2 DEF CountMain, Idle
  <2>3. todo'["vesc"] = todo["vesc"]
    BY <1>p, <2>1 DEF Stores, Threads, Adders
  <2>4. Outstanding(odo)' = Outstanding(odo)
    <3>1. "main" \in Adders /\ f \in Fields /\ ~("main" = "vesc") /\ f # "distance"
      BY DEF Adders
    <3>2. OfCell(UnderWay', odo) = OfCell(UnderWay, odo)
      BY <1>p, <1>d, <2>1, <2>2, <3>1, CountBeginsOne, CellFacts
    <3> QED BY <3>2, OutstandingSame
  <2>5. Coming' = Coming /\ Ridden' = Ridden
    BY <1>a, <2>2, <2>4
  <2> QED BY <1>0, <1>c, <1>d, <1>k, <1>n, <2>2, <2>3, <2>5, OdometerLeftAlone DEF rideVars
<1>3. ASSUME NEW t \in Adders, Load(t) PROVE OdometerInv'
  <2>1. /\ loaded' = [loaded EXCEPT ![t] =
                         [held |-> TRUE, value |-> value[Head(todo[t]).cell]]]
        /\ todo' = todo /\ value' = value
        /\ UNCHANGED <<running, starts, saved, rideVars>>
    BY <1>3 DEF Load
  <2>2. Coming' = Coming /\ Ridden' = Ridden
    BY <1>a, <1>o, <2>1
  <2>3. running
    BY <1>3, <1>p DEF Load, Rests, AtRest, Threads
  <2>4. loaded'["vesc"].held /\ Head(todo'["vesc"]).cell = odo =>
          Within(loaded'["vesc"].value + Coming', Ridden')
    <3>1. CASE t = "vesc"
      <4>1. loaded'["vesc"].value = value[Head(todo["vesc"]).cell]
        BY <1>p, <2>1, <3>1 DEF Loads
      <4> QED BY <2>1, <2>2, <2>3, <4>1 DEF DistanceInv, OdometerInv
    <3>2. CASE t # "vesc"
      <4>1. loaded'["vesc"] = loaded["vesc"]
        BY <2>1, <3>2, <1>p DEF Loads, Adders
      <4> QED BY <2>1, <2>2, <4>1 DEF DistanceInv, OdometerInv
    <3> QED BY <3>1, <3>2
  <2>5. tachometerAbs' = tachometerAbs /\ rolled' = rolled
    BY <2>1 DEF rideVars
  <2> QED BY <1>0, <1>k, <2>1, <2>2, <2>4, <2>5 DEF DistanceInv, OdometerInv
<1>4. ASSUME NEW t \in Adders, Store(t) PROVE OdometerInv'
  <2> DEFINE job == Head(todo[t])
             k   == job.cell
  <2>1. /\ loaded[t].held /\ todo[t] # <<>>
        /\ value' = [value EXCEPT ![k] = loaded[t].value + job.amount]
        /\ todo' = [todo EXCEPT ![t] = Tail(@)]
        /\ loaded' = [loaded EXCEPT ![t] = None]
        /\ UNCHANGED <<running, starts, saved, rideVars>>
    BY <1>4, <1>p DEF Store, Loads
  <2>2. job \in Jobs /\ k \in Cells /\ job.amount \in Int
    BY <1>p, <2>1, HeadIsJob DEF Threads
  <2>3. /\ OfCell(UnderWay, k) = {job} /\ OfCell(UnderWay', k) = {}
        /\ \A c : c # k => OfCell(UnderWay', c) = OfCell(UnderWay, c)
    BY <1>p, <1>q, <2>1, StoreEndsOne
  <2>4. /\ ~loaded'[t].held
        /\ t # "vesc" => loaded'["vesc"] = loaded["vesc"] /\ todo'["vesc"] = todo["vesc"]
    BY <1>p, <2>1 DEF Loads, Stores, Threads, None, Adders
  <2>5. CASE k # odo
    <3>1. Outstanding(odo)' = Outstanding(odo)
      BY <2>3, <2>5, OutstandingSame
    <3>2. Coming' = Coming /\ Ridden' = Ridden
      BY <1>a, <2>1, <3>1
    <3>3. value'[odo] = value[odo]
      BY <1>p, <1>d, <2>1, <2>5 DEF Counters
    <3> QED BY <1>0, <1>c, <1>d, <1>k, <1>n, <2>1, <2>4, <3>2, <3>3, OdometerLeftAlone DEF rideVars
  <2>6. CASE k = odo
    <3>1. t = "vesc" /\ ~loaded'["vesc"].held
      <4>1. todo["main"] \in Seq(MainJobs) /\ t \in {"vesc", "main"}
        BY <1>p DEF Stores, Adders
      <4>2. t = "main" => Head(todo[t]) \in MainJobs
        BY <2>1, <4>1
      <4> QED BY <2>4, <2>6, <4>1, <4>2, CellFacts DEF MainJobs
    <3>2. Outstanding(odo) = job.amount /\ Outstanding(odo)' = 0
      BY <2>3, <2>6, OutstandingOne, OutstandingNoneNext
    <3>3. /\ Coming' = Coming - job.amount /\ Ridden' = Ridden
          /\ job.amount \in Nat
      <4> DEFINE come == ToCome(inOrder, tachometer_abs_previous, tachometerAbs)
      <4>1. come \in Nat
        BY <1>t
      <4>2. job.amount \in Nat
        BY <1>p, <3>2, OutstandingDistance
      <4>3. Coming = job.amount + come
        BY <3>2 DEF Coming
      <4>4. Coming' = come
        <5>1. Coming' = Outstanding(odo)' + ToCome(inOrder', tachometer_abs_previous', tachometerAbs')
          BY DEF Coming, ToCome
        <5> QED BY <2>1, <3>2, <4>1, <5>1 DEF rideVars
      <4>5. Ridden' = Ridden
        BY <2>1 DEF Ridden, rideVars
      <4> HIDE DEF come
      <4> QED BY <4>1, <4>2, <4>3, <4>4, <4>5
    <3>4. value'[odo] = loaded["vesc"].value + job.amount /\ loaded["vesc"].value \in Int
      BY <1>p, <1>d, <2>1, <2>6, <3>1 DEF Counters, Loads
    <3>5. value'[odo] + Coming' = loaded["vesc"].value + Coming
      BY <1>c, <3>3, <3>4
    <3>6. Within(value'[odo] + Coming', Ridden')
      BY <2>1, <2>6, <3>1, <3>3, <3>5 DEF DistanceInv, OdometerInv
    <3>7. running' => Coming' <= Ridden'
      BY <1>c, <1>d, <2>1, <3>3 DEF DistanceInv, OdometerInv
    <3>8. starts' > 0 => Within(saved'[odo], Ridden')
      BY <2>1, <3>3 DEF DistanceInv, OdometerInv
    <3>9. tachometerAbs' <= rolled' /\ (running' => starts' > 0) /\ (starts' = 0 => saved'[odo] = 0)
      BY <2>1 DEF DistanceInv, OdometerInv, rideVars
    <3> QED BY <1>k, <3>1, <3>6, <3>7, <3>8, <3>9 DEF OdometerInv
  <2> QED BY <2>5, <2>6
<1>5. CASE \/ \E trip \in Trips : tripReset(trip)
           \/ SET_ODOMETER \/ UNCHANGED vars
  <2>1. /\ value' = value /\ loaded' = loaded
        /\ todo'["vesc"] = todo["vesc"] /\ todo'["main"] = todo["main"]
        /\ UNCHANGED <<running, starts, saved, rideVars>>
    BY <1>5, <1>p DEF tripReset, SET_ODOMETER, Stores, Threads, Adders, vars, threadVars
  <2>2. Coming' = Coming /\ Ridden' = Ridden
    BY <1>a, <1>o, <2>1
  <2> QED BY <1>0, <1>c, <1>d, <1>k, <1>n, <2>1, <2>2, OdometerLeftAlone DEF rideVars
<1>6. CASE Assign
  <2> DEFINE k == Head(todo["ipc"]).cell
             x == Head(todo["ipc"]).amount
  <2>1. /\ todo["ipc"] # <<>> /\ loaded' = loaded
        /\ value' = [value EXCEPT ![k] = x]
        /\ todo' = [todo EXCEPT !["ipc"] = Tail(@)]
        /\ UNCHANGED <<running, starts, saved, rideVars>>
    BY <1>6 DEF Assign
  <2>2. todo'["vesc"] = todo["vesc"] /\ todo'["main"] = todo["main"]
    BY <1>p, <2>1 DEF Stores, Threads, Adders
  <2>3. Coming' = Coming /\ Ridden' = Ridden
    BY <1>a, <1>o, <2>1, <2>2
  <2>4. CASE k # odo
    <3>1. value'[odo] = value[odo]
      BY <1>p, <1>d, <2>1, <2>4 DEF Counters
    <3> QED BY <1>0, <1>c, <1>d, <1>k, <1>n, <2>1, <2>2, <2>3, <3>1, OdometerLeftAlone DEF rideVars
  <2>5. CASE k = odo
    <3>1. Head(todo["ipc"]) \in IpcJobs
      BY <1>p, <2>1 DEF Stores
    <3>2. x \in OdometerSettings /\ x \in Nat
      BY <2>5, <3>1, OdometerAssumption DEF IpcJobs
    <3>3. value'[odo] = x
      BY <1>p, <1>d, <2>1, <2>5 DEF Counters
    <3>4. Coming <= Ridden => x + Coming <= x + Ridden
      BY <1>c, <1>d, <3>2
    <3>5. running' => Within(value'[odo] + Coming', Ridden')
      BY <2>1, <2>3, <3>2, <3>3, <3>4 DEF DistanceInv, OdometerInv, Within
    <3> QED BY <1>k, <2>1, <2>2, <2>3, <3>5 DEF DistanceInv, OdometerInv, rideVars
  <2> QED BY <2>4, <2>5
<1>7. CASE TOMLSave
  <2>1. /\ running /\ saved' = value
        /\ UNCHANGED <<running, starts, value, todo, loaded, rideVars>>
    BY <1>7 DEF TOMLSave, Idle, threadVars
  <2>2. Coming' = Coming /\ Ridden' = Ridden
    BY <1>a, <1>o, <2>1
  <2>3. Within(value[odo], Ridden)
    <3>1. Within(value[odo] + Coming, Ridden) /\ value[odo] + Coming \in Int
      BY <1>c, <1>d, <2>1 DEF DistanceInv, OdometerInv
    <3>2. value[odo] \in Int /\ value[odo] - (value[odo] + Coming) <= Ridden - Ridden
      BY <1>c, <1>d
    <3> QED BY <1>d, <3>1, <3>2, WithinMore
  <2>4. starts' > 0
    BY <2>1 DEF DistanceInv, OdometerInv
  <2> QED BY <1>k, <1>n, <2>1, <2>2, <2>3, <2>4 DEF DistanceInv, OdometerInv, rideVars
<1>8. CASE Roll \/ ControllerRestarts
  <2>1. /\ UNCHANGED <<running, starts, value, saved, todo, loaded,
                       tachometer_abs_previous, astray>>
        /\ \/ /\ rolled' = rolled + 1 /\ tachometerAbs' = tachometerAbs + 1
              /\ inOrder' = inOrder
           \/ rolled' = rolled /\ tachometerAbs' = 0 /\ inOrder' = FALSE
    BY <1>8 DEF Roll, ControllerRestarts, threadVars
  <2>2. Outstanding(odo)' = Outstanding(odo) /\ Outstanding(odo) \in Nat
    BY <1>o, <1>p, <2>1, OutstandingDistance
  <2> DEFINE now  == ToCome(inOrder, tachometer_abs_previous, tachometerAbs)
             next == ToCome(inOrder', tachometer_abs_previous, tachometerAbs')
  <2>3. now \in Nat /\ next \in Nat /\ next - now <= rolled' - rolled
    <3>1. now \in Nat /\ next \in Nat
      BY <1>n, <1>i, <1>k, <1>t, <2>1, ComeIsNat
    <3>2. CASE tachometerAbs' = 0 /\ rolled' = rolled /\ inOrder' = FALSE
      <4>1. next = 0
        BY <1>n, <1>i, <3>2, ComeRolls
      <4> QED BY <1>n, <3>1, <3>2, <4>1
    <3>3. CASE /\ tachometerAbs' = tachometerAbs + 1 /\ rolled' = rolled + 1
               /\ inOrder' = inOrder
      <4>1. next <= now + 1
        BY <1>n, <1>i, <3>3, ComeRolls
      <4> HIDE DEF now, next
      <4> QED BY <1>n, <3>1, <3>3, <4>1
    <3> QED BY <2>1, <3>1, <3>2, <3>3
  <2>4. Coming = Outstanding(odo) + now /\ Coming' = Outstanding(odo) + next
    <3>1. Coming' = Outstanding(odo)' + ToCome(inOrder', tachometer_abs_previous', tachometerAbs')
      BY DEF Coming, ToCome
    <3> QED BY <2>1, <2>2, <3>1 DEF Coming
  <2>5. Coming' - Coming <= rolled' - rolled
    <3> HIDE DEF now, next
    <3>1. /\ Outstanding(odo) \in Int /\ now \in Int /\ next \in Int
          /\ rolled' - rolled \in Int
      BY <1>n, <2>2, <2>3
    <3>2. (Outstanding(odo) + next) - (Outstanding(odo) + now) <= rolled' - rolled
      BY <2>3, <3>1, SumsDiffer
    <3> QED BY <2>4, <3>2
  <2>6. Ridden' - Ridden = rolled' - rolled
    BY <1>n, <2>1, StepAssumption DEF Ridden
  <2>7. /\ Ridden' - Ridden >= Coming' - Coming /\ Ridden' >= Ridden
        /\ tachometerAbs' <= rolled'
    <3>1. rolled' >= rolled /\ tachometerAbs' <= rolled'
      BY <1>n, <2>1
    <3>2. rolled' \in Int /\ rolled \in Int /\ rolled' >= rolled
      BY <1>n, <3>1
    <3>3. /\ Coming \in Int /\ Coming' \in Int
          /\ Ridden \in Int /\ Ridden' \in Int
      BY <1>c, <1>d
    <3>4. Ridden' - Ridden >= Coming' - Coming /\ Ridden' >= Ridden
      BY <2>5, <2>6, <3>2, <3>3, GrowsLess
    <3> QED BY <3>1, <3>4
  <2> QED BY <1>0, <1>c, <1>k, <2>1, <2>7, OdometerLeftAlone
<1>9. CASE Ends
  <2>1. /\ ~running' /\ ~loaded'["vesc"].held
        /\ UNCHANGED <<starts, saved, tachometerAbs, rolled, astray>>
    BY <1>9 DEF Ends, None, Adders
  <2>2. Ridden' = Ridden
    BY <2>1 DEF Ridden
  <2>3. starts' = starts /\ starts > 0 => Within(saved'[odo], Ridden')
    BY <2>1, <2>2 DEF DistanceInv, OdometerInv
  <2> QED BY <1>k, <2>1, <2>3 DEF DistanceInv, OdometerInv
<1>10. CASE setupTOML
  <2>1. /\ ~running /\ running' /\ starts' = starts + 1
        /\ value' \in {saved, Zero} /\ saved' = value'
        /\ UNCHANGED <<todo, loaded, rideVars>>
    BY <1>10 DEF setupTOML
  <2>2. /\ tachometer_abs_previous = 0 /\ ~inOrder /\ ~loaded["vesc"].held
        /\ todo["vesc"] = <<>> /\ todo["main"] = <<>>
    BY <1>p, <2>1 DEF Rests, AtRest, Threads, Adders
  <2>3. Outstanding(odo)' = 0
    <3>1. OfCell(UnderWay', odo) = {}
      BY <2>1, <2>2 DEF OfCell, UnderWay, ToSet
    <3> QED BY <3>1, OutstandingNoneNext
  <2> DEFINE d == ToCome(inOrder, tachometer_abs_previous, tachometerAbs)
  <2>4. d \in Nat /\ d < BigStep /\ d <= tachometerAbs /\ Coming' = d
    <3>1. d \in Nat /\ d < BigStep /\ d <= tachometerAbs
      BY <1>n, <1>i, <2>2, ComeIsNat
    <3>2. Coming' = Outstanding(odo)' + ToCome(inOrder', tachometer_abs_previous', tachometerAbs')
      BY DEF Coming, ToCome
    <3>3. Coming' = d
      BY <2>1, <2>3, <3>1, <3>2 DEF rideVars
    <3> QED BY <3>1, <3>3
  <2> HIDE DEF d
  <2>5. /\ Ridden' \in Int
        /\ Ridden' >= rolled
        /\ starts > 0 => Ridden' = Ridden + (BigStep - 1)
        /\ d <= Ridden'
    <3> DEFINE n == starts - 1 + astray
               slack == n * (BigStep - 1)
    <3>0. /\ rolled' = rolled /\ n \in Int /\ BigStep - 1 \in Nat /\ slack \in Int
          /\ starts' - 1 + astray' = n + 1 /\ n + 1 \in Nat
      BY <1>n, <2>1, StepAssumption DEF rideVars
    <3>1. Ridden' = rolled + (n + 1) * (BigStep - 1)
      BY <3>0 DEF Ridden
    <3>2. (n + 1) * (BigStep - 1) \in Nat
      BY <3>0
    <3>3. (n + 1) * (BigStep - 1) = slack + (BigStep - 1)
      BY <3>0, OneMore
    <3>4. Ridden = rolled + slack
      BY DEF Ridden
    <3> HIDE DEF slack, n
    <3>5. Ridden' >= rolled /\ Ridden' = Ridden + (BigStep - 1)
      BY <1>n, <3>0, <3>1, <3>2, <3>3, <3>4
    <3> QED BY <1>n, <1>d, <2>4, <3>5
  <2>6. Within(value'[odo] + d, Ridden')
    <3>1. CASE value'[odo] = 0
      <4> DEFINE q == Ridden'
      <4>1. q \in Int /\ d \in Nat /\ d <= q
        BY <2>4, <2>5
      <4> HIDE DEF q
      <4>2. 0 + d <= 0 + q
        BY <4>1
      <4> QED BY <3>1, <4>2 DEF Within, q
    <3>2. CASE value'[odo] = saved[odo] /\ starts > 0
      <4>1. Within(saved[odo], Ridden)
        BY <3>2 DEF DistanceInv, OdometerInv
      <4>2. saved[odo] \in Int /\ (saved[odo] + d) - saved[odo] <= Ridden' - Ridden
        BY <1>p, <1>d, <2>4, <2>5, <3>2, StepAssumption DEF Counters
      <4>3. saved[odo] + d \in Int
        BY <2>4, <4>2
      <4> QED BY <1>d, <2>5, <3>2, <4>1, <4>2, <4>3, WithinMore
    <3>3. value'[odo] = 0 \/ (value'[odo] = saved[odo] /\ starts > 0)
      BY <1>n, <1>d, <2>1 DEF DistanceInv, OdometerInv, Zero
    <3> QED BY <3>1, <3>2, <3>3
  <2>7. Within(saved'[odo], Ridden')
    <3>1. value'[odo] \in Nat
      BY <1>q, <1>d, CellFacts DEF Counters
    <3>2. value'[odo] \in Int /\ value'[odo] + d \in Int
      BY <2>4, <3>1
    <3>3. value'[odo] - (value'[odo] + d) <= Ridden' - Ridden'
      BY <2>4, <2>5, <3>1
    <3> QED BY <2>1, <2>5, <2>6, <3>2, <3>3, WithinMore
  <2>8. starts' > 0 /\ tachometerAbs' <= rolled' /\ ~loaded'["vesc"].held
    BY <1>n, <2>1, <2>2 DEF rideVars
  <2> QED BY <1>k, <1>n, <2>1, <2>4, <2>5, <2>6, <2>7, <2>8 DEF OdometerInv
<1> QED
  BY <1>1, <1>2, <1>3, <1>4, <1>5, <1>6, <1>7, <1>8, <1>9, <1>10, Zenon DEF Next

(* Through restarts of controllers and backend and readings that are late   *)
(* or go astray, in any order, the odometer shows no distance that was not  *)
(* ridden, save for less than one big step for each start of the backend    *)
(* but the first and for each reading that goes astray (main.cpp:693-699,   *)
(* 741-755).                                                                *)
THEOREM NoDistanceInvented == Spec => []DistanceNotInvented
<1>1. DistanceInv => DistanceNotInvented
  <2> SUFFICES ASSUME DistanceInv, running PROVE DistanceNotInvented
    BY DEF DistanceNotInvented
  <2>0. Counters /\ Stores /\ Rides /\ Observed
    BY TypeInvParts DEF DistanceInv, StepInv
  <2>1. rolled \in Int /\ starts \in Int /\ astray \in Int /\ value[odo] \in Int
    BY <2>0, BoundsAssumption, CellFacts DEF Rides, Observed, Counters
  <2>2. Coming \in Nat
    <3>1. tachometer_abs_previous \in Nat /\ tachometerAbs \in Nat
      BY <2>0 DEF Rides
    <3>2. inOrder \in BOOLEAN
      BY <2>0, Zenon DEF Rides
    <3>3. inOrder => tachometer_abs_previous <= tachometerAbs
      BY DEF DistanceInv, OdometerInv
    <3>4. ToCome(inOrder, tachometer_abs_previous, tachometerAbs) \in Nat
      BY <3>1, <3>2, <3>3, ComeIsNat
    <3> QED BY <2>0, <3>4, OutstandingDistance DEF Coming
  <2>3. Ridden \in Int
    BY <2>1, RiddenIsInt
  <2>4. Within(value[odo] + Coming, Ridden)
    BY DEF DistanceInv, OdometerInv
  <2>5. PICK km \in OdometerSettings \cup {0} : value[odo] + Coming <= km + Ridden
    BY <2>4 DEF Within
  <2>6. km \in Int
    BY OdometerAssumption
  <2>7. value[odo] <= km + Ridden
    BY <2>1, <2>2, <2>3, <2>5, <2>6
  <2>8. km + Ridden = km + rolled + (starts - 1 + astray) * (BigStep - 1)
    BY <2>1, <2>6, StepAssumption DEF Ridden
  <2> QED BY <2>7, <2>8 DEF DistanceNotInvented
<1> QED BY DistanceInit, DistanceNext, <1>1, PTL DEF Spec

=============================================================================
