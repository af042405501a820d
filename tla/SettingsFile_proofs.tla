------------------------- MODULE SettingsFile_proofs -------------------------
(***************************************************************************)
(* Proofs about SettingsFile: types, that what has reached the drive       *)
(* survives, and that a save leaves the values of the time it began.       *)
(***************************************************************************)
EXTENDS SettingsFile, TLAPS

Writing == {"serialize", "close"}

(* Whoever is not running saves nothing, and nothing is newer than the      *)
(* latest change.                                                           *)
Bounded ==
  /\ ~running => \A t \in Savers : saving[t] = "idle"
  /\ version <= latest /\ table <= latest /\ secured <= latest
  /\ file <= latest /\ drive <= latest
  /\ \A t \in Savers : buffer[t] <= latest

(* One save at a time: the file is empty just while one writes it, and what *)
(* it will hold is what the table has taken over.                           *)
OneSave ==
  /\ \A t, u \in Savers : saving[t] = "idle" \/ saving[u] = "idle" \/ t = u
  /\ \A t \in Savers : saving[t] \in Writing => file = Empty
  /\ \A t \in Savers : saving[t] = "close" => buffer[t] = table
  /\ file = Empty => \E t \in Savers : saving[t] \in Writing

(* The drive holds the newest version it ever held, or has seen the file    *)
(* emptied; nothing that can still get there is older.                      *)
NothingOlder ==
  /\ file # Torn /\ drive # Torn
  /\ file # Empty => file >= secured
  /\ drive # Empty => drive = secured
  /\ running => file <= table /\ secured <= table /\ table <= version

IInv == TypeOK /\ Bounded /\ (tidy => OneSave /\ NothingOlder)

(* The backend starts with every variable of its type. *)
LEMMA TypeInit == Init => TypeOK
<1> SUFFICES ASSUME Init PROVE TypeOK
  OBVIOUS
<1> USE BoundsAssumption
    DEF Init, Versions, Contents, Savers, Empty, Torn
<1>1. /\ saving \in [Savers -> {"idle", "open", "serialize", "close", "sync"}]
      /\ buffer \in [Savers -> Contents]
      /\ \A t \in Savers : saving[t] = "idle"
  OBVIOUS
<1>2. /\ {version, latest, table, secured} \subseteq Versions
      /\ {file, drive} \subseteq Contents /\ starts \in 0..MaxStarts
  OBVIOUS
<1>3. /\ running \in BOOLEAN /\ tidy \in BOOLEAN
      /\ autosaved \in BOOLEAN /\ autosaving \in BOOLEAN /\ ~autosaving
  OBVIOUS
<1> QED BY <1>1, <1>2, <1>3 DEF TypeOK

(* No step leaves the types. *)
LEMMA TypeStep == TypeOK /\ [Next]_vars => TypeOK'
<1> SUFFICES ASSUME TypeOK, [Next]_vars PROVE TypeOK'
  OBVIOUS
<1> USE BoundsAssumption
    DEF TypeOK, Versions, Contents, Savers, Empty, Torn, valueVars, saveVars,
        autoVars
<1>1. CASE Change
  BY <1>1 DEF Change
<1>2. CASE SAVE_PREFERENCES
  BY <1>2 DEF SAVE_PREFERENCES, UpdateTable, SaveStep
<1>3. CASE SaveRegularly
  BY <1>3 DEF SaveRegularly, UpdateTable, SaveStep
<1>4. CASE Autosave
  BY <1>4 DEF Autosave, UpdateTable, SaveStep
<1>5. CASE VoltageRecovers
  BY <1>5 DEF VoltageRecovers
<1>6. ASSUME NEW t \in Savers, OpenFile(t) PROVE TypeOK'
  BY <1>6 DEF OpenFile, SaveStep
<1>7. ASSUME NEW t \in Savers, Serialize(t) PROVE TypeOK'
  BY <1>7 DEF Serialize, SaveStep
<1>8. ASSUME NEW t \in Savers, CloseFile(t) PROVE TypeOK'
  BY <1>8 DEF CloseFile, SaveStep
<1>9. CASE Sync
  <2>1. /\ saving' \in [Savers -> {"idle", "open", "serialize", "close", "sync"}]
        /\ saving'["main"] = "idle" /\ saving'["ipc"] = saving["ipc"]
    BY <1>9 DEF Sync
  <2>2. saving["ipc"] # "sync"
    OBVIOUS
  <2>3. secured' \in Versions /\ drive' \in Contents
    BY <1>9 DEF Sync
  <2>4. autosaving' = FALSE
    BY <1>9 DEF Sync
  <2>5. UNCHANGED <<running, starts, version, latest, table, buffer, file,
                    autosaved, tidy>>
    BY <1>9 DEF Sync
  <2> QED BY <2>1, <2>2, <2>3, <2>4, <2>5
<1>10. CASE Writeback
  BY <1>10 DEF Writeback
<1>11. CASE Ends
  <2>1. /\ saving' \in [Savers -> {"idle", "open", "serialize", "close", "sync"}]
        /\ \A t \in Savers : saving'[t] = "idle"
        /\ buffer' \in [Savers -> Contents]
    BY <1>11 DEF Ends
  <2>2. {file', drive'} \subseteq Contents /\ secured' \in Versions
    BY <1>11 DEF Ends
  <2>3. running' \in BOOLEAN /\ autosaved' \in BOOLEAN /\ autosaving' \in BOOLEAN
    BY <1>11 DEF Ends
  <2>4. tidy' \in BOOLEAN /\ ~autosaving'
    BY <1>11 DEF Ends
  <2>5. {version', latest', table'} \subseteq Versions /\ starts' = starts
    BY <1>11 DEF Ends
  <2> QED BY <2>1, <2>2, <2>3, <2>4, <2>5
<1>12. CASE setupTOML
  BY <1>12 DEF setupTOML
<1>13. CASE UNCHANGED vars
  BY <1>13 DEF vars
<1> QED BY <1>1, <1>2, <1>3, <1>4, <1>5, <1>6, <1>7, <1>8, <1>9, <1>10, <1>11,
           <1>12, <1>13 DEF Next

(* No step makes anything newer than the latest change. *)
LEMMA BoundedStep == TypeOK /\ Bounded /\ [Next]_vars => Bounded'
<1> SUFFICES ASSUME TypeOK, Bounded, [Next]_vars PROVE Bounded'
  OBVIOUS
<1> USE BoundsAssumption
    DEF TypeOK, Bounded, Versions, Contents, Savers, Empty, Torn, valueVars,
        saveVars, autoVars
<1>1. CASE Change
  BY <1>1 DEF Change
<1>2. CASE SAVE_PREFERENCES
  BY <1>2 DEF SAVE_PREFERENCES, UpdateTable, SaveStep
<1>3. CASE SaveRegularly
  BY <1>3 DEF SaveRegularly, UpdateTable, SaveStep
<1>4. CASE Autosave
  BY <1>4 DEF Autosave, UpdateTable, SaveStep
<1>5. CASE VoltageRecovers
  BY <1>5 DEF VoltageRecovers
<1>6. ASSUME NEW t \in Savers, OpenFile(t) PROVE Bounded'
  BY <1>6 DEF OpenFile, SaveStep
<1>7. ASSUME NEW t \in Savers, Serialize(t) PROVE Bounded'
  BY <1>7 DEF Serialize, SaveStep
<1>8. ASSUME NEW t \in Savers, CloseFile(t) PROVE Bounded'
  BY <1>8 DEF CloseFile, SaveStep
<1>9. CASE Sync
  BY <1>9 DEF Sync
<1>10. CASE Writeback
  BY <1>10 DEF Writeback
<1>11. CASE Ends
  BY <1>11 DEF Ends
<1>12. CASE setupTOML
  BY <1>12 DEF setupTOML
<1>13. CASE UNCHANGED vars
  BY <1>13 DEF vars
<1> QED BY <1>1, <1>2, <1>3, <1>4, <1>5, <1>6, <1>7, <1>8, <1>9, <1>10, <1>11,
           <1>12, <1>13 DEF Next

(* While the saves and the ends have been tidy, they stay so. *)
LEMMA OneSaveStep ==
  ASSUME TypeOK, Bounded, tidy => OneSave, [Next]_vars, tidy'
  PROVE  OneSave'
<1> USE DEF TypeOK, Bounded, OneSave, Writing, Savers, Contents, Versions, Empty,
            Torn, valueVars, saveVars, autoVars
<1>1. CASE Change
  BY <1>1 DEF Change
<1>2. CASE SAVE_PREFERENCES
  BY <1>2 DEF SAVE_PREFERENCES, UpdateTable, SaveStep
<1>3. CASE SaveRegularly
  BY <1>3 DEF SaveRegularly, UpdateTable, SaveStep
<1>4. CASE Autosave
  BY <1>4 DEF Autosave, UpdateTable, SaveStep
<1>5. CASE VoltageRecovers
  BY <1>5 DEF VoltageRecovers
<1>6. ASSUME NEW t \in Savers, OpenFile(t) PROVE OneSave'
  BY <1>6 DEF OpenFile, SaveStep
<1>7. ASSUME NEW t \in Savers, Serialize(t) PROVE OneSave'
  BY <1>7 DEF Serialize, SaveStep
<1>8. ASSUME NEW t \in Savers, CloseFile(t) PROVE OneSave'
  BY <1>8 DEF CloseFile, SaveStep
<1>9. CASE Sync
  BY <1>9 DEF Sync
<1>10. CASE Writeback
  BY <1>10 DEF Writeback
<1>11. CASE Ends
  BY <1>11 DEF Ends
<1>12. CASE setupTOML
  BY <1>12 DEF setupTOML
<1>13. CASE UNCHANGED vars
  BY <1>13 DEF vars
<1> QED BY <1>1, <1>2, <1>3, <1>4, <1>5, <1>6, <1>7, <1>8, <1>9, <1>10, <1>11,
           <1>12, <1>13 DEF Next

(* While all is tidy, no older version gets on its way to the drive. *)
LEMMA NothingOlderStep ==
  ASSUME TypeOK, Bounded, tidy => OneSave /\ NothingOlder, [Next]_vars, tidy'
  PROVE  NothingOlder'
<1> USE BoundsAssumption
    DEF TypeOK, Bounded, OneSave, NothingOlder, Writing, Savers, Contents,
        Versions, Empty, Torn, valueVars, saveVars, autoVars
<1>1. CASE Change
  BY <1>1 DEF Change
<1>2. CASE SAVE_PREFERENCES
  BY <1>2 DEF SAVE_PREFERENCES, UpdateTable, SaveStep
<1>3. CASE SaveRegularly
  BY <1>3 DEF SaveRegularly, UpdateTable, SaveStep
<1>4. CASE Autosave
  BY <1>4 DEF Autosave, UpdateTable, SaveStep
<1>5. CASE VoltageRecovers
  BY <1>5 DEF VoltageRecovers
<1>6. ASSUME NEW t \in Savers, OpenFile(t) PROVE NothingOlder'
  BY <1>6 DEF OpenFile, SaveStep
<1>7. ASSUME NEW t \in Savers, Serialize(t) PROVE NothingOlder'
  BY <1>7 DEF Serialize, SaveStep
<1>8. ASSUME NEW t \in Savers, CloseFile(t) PROVE NothingOlder'
  BY <1>8 DEF CloseFile, SaveStep
<1>9. CASE Sync
  <2>1. /\ drive' = file /\ file' = file /\ running' = running
        /\ version' = version /\ table' = table /\ tidy
        /\ secured' = IF file > secured THEN file ELSE secured
    BY <1>9 DEF Sync
  <2>2. /\ file # Torn /\ (file # Empty => file >= secured)
        /\ (drive # Empty => drive = secured)
        /\ file \in Int /\ secured \in Nat /\ version \in Nat /\ table \in Nat
    BY <2>1
  <2>3. file # Empty => secured' = file
    BY <2>1, <2>2
  <2>4. file = Empty => secured' = secured
    BY <2>1, <2>2
  <2> QED BY <2>1, <2>2, <2>3, <2>4
<1>10. CASE Writeback
  <2>1. /\ drive' = file /\ file' = file /\ running' = running
        /\ version' = version /\ table' = table /\ tidy
        /\ secured' = IF file > secured THEN file ELSE secured
    BY <1>10 DEF Writeback
  <2>2. /\ file # Torn /\ (file # Empty => file >= secured)
        /\ (drive # Empty => drive = secured)
        /\ file \in Int /\ secured \in Nat /\ version \in Nat /\ table \in Nat
    BY <2>1
  <2>3. file # Empty => secured' = file
    BY <2>1, <2>2
  <2>4. file = Empty => secured' = secured
    BY <2>1, <2>2
  <2> QED BY <2>1, <2>2, <2>3, <2>4
<1>11. CASE Ends
  BY <1>11 DEF Ends
<1>12. CASE setupTOML
  BY <1>12 DEF setupTOML
<1>13. CASE UNCHANGED vars
  BY <1>13 DEF vars
<1> QED BY <1>1, <1>2, <1>3, <1>4, <1>5, <1>6, <1>7, <1>8, <1>9, <1>10, <1>11,
           <1>12, <1>13 DEF Next

(* The three parts together are inductive. *)
LEMMA Inductive == IInv /\ [Next]_vars => IInv'
<1> SUFFICES ASSUME IInv, [Next]_vars PROVE IInv'
  OBVIOUS
<1>1. TypeOK' /\ Bounded'
  BY TypeStep, BoundedStep DEF IInv
<1>2. ASSUME tidy' PROVE OneSave' /\ NothingOlder'
  BY <1>2, OneSaveStep, NothingOlderStep DEF IInv
<1> QED BY <1>1, <1>2 DEF IInv

(* They hold when the backend starts. *)
LEMMA Initially == Init => IInv
<1> SUFFICES ASSUME Init PROVE IInv
  OBVIOUS
<1>1. TypeOK
  BY TypeInit
<1>2. Bounded /\ OneSave /\ NothingOlder
  BY DEF Init, Bounded, OneSave, NothingOlder, Writing, Savers, Empty, Torn
<1> QED BY <1>1, <1>2 DEF IInv

(* The types are right, and only an autosave of the main loop waits for the *)
(* drive (main.cpp:1555-1561).                                              *)
THEOREM SettingsTypeCorrect == Spec => []TypeOK
<1>1. TypeOK /\ [Next]_vars => TypeOK'
  BY TypeStep
<1> QED BY TypeInit, <1>1, PTL DEF Spec

(* They hold in every behaviour. *)
LEMMA Invariant == Spec => []IInv
  BY Initially, Inductive, PTL DEF Spec

(* For any number of changes and restarts: what has reached the drive is    *)
(* never lost or replaced by what is older, unless two saves overlap or an  *)
(* end of the backend falls where the file is not whole.                    *)
THEOREM NothingSecuredIsLost == Spec => []SecuredSurvives
<1>1. IInv => SecuredSurvives
  BY DEF IInv, TypeOK, Versions, NothingOlder, SecuredSurvives
<1> QED BY Invariant, <1>1, PTL

(* A save leaves the values of the time it began in the file, whatever      *)
(* changes while it is under way, unless two saves overlap.                 *)
THEOREM SavesKeepTheirValues == Spec => SaveKeepsItsValues
<1>1. IInv /\ [Next]_vars
        => [\A t \in Savers : CloseFile(t) /\ tidy => file' = table]_vars
  BY DEF IInv, OneSave, Writing, CloseFile, SaveStep
<1> QED BY Invariant, <1>1, PTL DEF Spec, SaveKeepsItsValues

=============================================================================
