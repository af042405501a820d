---------------------------- MODULE SettingsFile ----------------------------
(***************************************************************************)
(* The settings file (setupTOML, TOMLSave and saveTableToFile): all that   *)
(* the backend remembers over a restart, in one file that the main loop    *)
(* saves every half hour and when the voltage of the battery collapses,    *)
(* and an IPC thread whenever a display asks.                              *)
(*                                                                         *)
(* The values are told apart by their version, which every change to any   *)
(* of them raises.  The file is what the page cache holds (file) and what  *)
(* the drive holds (drive): the kernel writes it back at any time, and     *)
(* std::system("sync") makes it.                                           *)
(***************************************************************************)
EXTENDS Integers

CONSTANTS
  MaxVersion,  \* bounds on the changes of the values
  MaxStarts    \*   and on the starts of the backend

ASSUME BoundsAssumption == {MaxVersion, MaxStarts} \subseteq Nat

Savers == {"main", "ipc"}

VARIABLES
  running,   \* the backend runs
  version,   \* of the values in memory
  table,     \* the table of settings: of the values it has taken over
  saving,    \* per saver, what TOMLSave does next
  buffer,    \* per saver, what its ofstream is to write
  file,      \* the settings file as the next reader finds it
  drive,     \* the settings file as a power cut leaves it
  autosaved, \* criticalLowVoltageShutdownAutoSave_saved
  autosaving,\* the main loop's save is the one of a low voltage
  (* observed, not part of the program: *)
  latest,    \* the last version given to a change
  starts,    \* how often the backend was started
  secured,   \* the newest version that the drive has held
  tidy       \* no two saves overlapped, and no end left a file that is torn

valueVars == <<version, latest>>
saveVars  == <<table, saving, buffer>>
autoVars  == <<autosaved, autosaving>>
vars == <<running, starts, valueVars, saveVars, file, drive, autoVars, secured,
          tidy>>

Empty == -1    \* opened for writing, nothing written: reads as no values
Torn  == -2    \* the text of two saves, which does not parse

Versions == 0..MaxVersion
Contents == Versions \cup {Empty, Torn}

-----------------------------------------------------------------------------
(* The values change: trips, odometer, battery, settings, profiles, notes. *)

Change ==
  /\ running /\ latest < MaxVersion
  /\ latest' = latest + 1
  /\ version' = latest'
  /\ UNCHANGED <<running, starts, saveVars, file, drive, autoVars, secured, tidy>>

-----------------------------------------------------------------------------
(* TOMLSave *)

SaveStep(t, from, to) ==
  /\ saving[t] = from
  /\ saving' = [saving EXCEPT ![t] = to]
  /\ UNCHANGED <<running, starts, valueVars, secured>>

(* The table takes over the values. *)
UpdateTable(t) ==
  /\ running
  /\ SaveStep(t, "idle", "open")
  /\ table' = version
  /\ tidy' = (tidy /\ \A s \in Savers : saving[s] = "idle")
  /\ UNCHANGED <<buffer, file, drive>>

(* SAVE_PREFERENCES; one display at a time, ipc_output_mutex. *)
SAVE_PREFERENCES == UpdateTable("ipc") /\ UNCHANGED autoVars

(* Every 30 minutes. *)
SaveRegularly == UpdateTable("main") /\ UNCHANGED autoVars

(* Once each time the voltage collapses. *)
Autosave ==
  /\ ~autosaved
  /\ autosaved' = TRUE /\ autosaving' = TRUE
  /\ UpdateTable("main")

VoltageRecovers ==
  /\ running /\ saving["main"] = "idle"
  /\ autosaved /\ autosaved' = FALSE
  /\ UNCHANGED <<running, starts, valueVars, saveVars, file, drive, autosaving,
                 secured, tidy>>

(* Mutant: the file is not truncated, what is written follows the old text. *)
OpenFile_Appends(t) ==
  /\ SaveStep(t, "open", "serialize")
  /\ file' = IF file \in {Empty, table} THEN file ELSE Torn
  /\ UNCHANGED <<table, buffer, drive, autoVars, tidy>>

(* std::ofstream file(SETTINGS_FILEPATH) *)
OpenFile(t) ==
  /\ SaveStep(t, "open", "serialize")
  /\ file' = Empty
  /\ UNCHANGED <<table, buffer, drive, autoVars, tidy>>

(* file << tbl *)
Serialize(t) ==
  /\ SaveStep(t, "serialize", "close")
  /\ buffer' = [buffer EXCEPT ![t] = table]
  /\ UNCHANGED <<table, file, drive, autoVars, tidy>>

(* Mutant: a display's save waits for the drive as well. *)
CloseFile_AlwaysSyncs(t) ==
  /\ SaveStep(t, "close", "sync")
  /\ \/ file' = buffer[t]
     \/ file \notin {Empty, buffer[t]} /\ file' = Torn
  /\ buffer' = [buffer EXCEPT ![t] = Empty]
  /\ UNCHANGED <<table, drive, autoVars, tidy>>

(* What another save has written since is overwritten from its start: if it *)
(* is longer, its end stays.                                                *)
CloseFile(t) ==
  /\ SaveStep(t, "close", IF t = "main" /\ autosaving THEN "sync" ELSE "idle")
  /\ \/ file' = buffer[t]
     \/ file \notin {Empty, buffer[t]} /\ file' = Torn
  /\ buffer' = [buffer EXCEPT ![t] = Empty]
  /\ UNCHANGED <<table, drive, autoVars, tidy>>

Sync ==
  /\ saving["main"] = "sync"
  /\ saving' = [saving EXCEPT !["main"] = "idle"]
  /\ autosaving' = FALSE
  /\ drive' = file
  /\ secured' = IF file > secured THEN file ELSE secured
  /\ UNCHANGED <<running, starts, valueVars, table, buffer, file, autosaved, tidy>>

-----------------------------------------------------------------------------
(* Around the program *)

(* The kernel writes the page cache back. *)
Writeback ==
  /\ drive' = file
  /\ secured' = IF file > secured THEN file ELSE secured
  /\ UNCHANGED <<running, starts, valueVars, saveVars, file, autoVars, tidy>>

(* SIGINT, a crash, or the power is cut: nothing is saved on the way out,   *)
(* and after a power cut the drive holds all there is.                      *)
Ends ==
  /\ running
  /\ running' = FALSE
  /\ file' \in {file, drive} /\ drive' \in {drive, file'}
  /\ secured' = IF drive' > secured THEN drive' ELSE secured
  /\ tidy' = (tidy /\ file' \notin {Empty, Torn})
  /\ version' = 0 /\ table' = 0
  /\ saving' = [t \in Savers |-> "idle"]
  /\ buffer' = [t \in Savers |-> Empty]
  /\ autosaved' = FALSE /\ autosaving' = FALSE
  /\ UNCHANGED <<starts, latest>>

(* Mutant: the values are not read back. *)
setupTOML_Defaults ==
  /\ ~running /\ starts < MaxStarts
  /\ file # Torn
  /\ running' = TRUE
  /\ starts' = starts + 1
  /\ version' = 0
  /\ table' = IF file = Empty THEN 0 ELSE file
  /\ UNCHANGED <<latest, saving, buffer, file, drive, autoVars, secured, tidy>>

(* A missing entry reads as 0, a file that does not parse ends the backend. *)
setupTOML ==
  /\ ~running /\ starts < MaxStarts
  /\ file # Torn
  /\ running' = TRUE
  /\ starts' = starts + 1
  /\ version' = IF file = Empty THEN 0 ELSE file
  /\ table' = version'
  /\ UNCHANGED <<latest, saving, buffer, file, drive, autoVars, secured, tidy>>

-----------------------------------------------------------------------------

Init ==
  /\ running = FALSE /\ starts = 0
  /\ version = 0 /\ latest = 0 /\ table = 0
  /\ saving = [t \in Savers |-> "idle"]
  /\ buffer = [t \in Savers |-> Empty]
  /\ file = 0 /\ drive = 0
  /\ autosaved = FALSE /\ autosaving = FALSE
  /\ secured = 0 /\ tidy = TRUE

Next ==
  \/ Change
  \/ SAVE_PREFERENCES \/ SaveRegularly \/ Autosave \/ VoltageRecovers
  \/ \E t \in Savers : OpenFile(t) \/ Serialize(t) \/ CloseFile(t)
  \/ Sync
  \/ Writeback \/ Ends \/ setupTOML

Spec == Init /\ [][Next]_vars

-----------------------------------------------------------------------------
(* Properties *)

(* The variables have their types; an autosave is under way only in a save  *)
(* of the main loop, and only it waits for the drive.                       *)
TypeOK ==
  /\ running \in BOOLEAN /\ tidy \in BOOLEAN
  /\ autosaved \in BOOLEAN /\ autosaving \in BOOLEAN
  /\ {version, latest, table, secured} \subseteq Versions
  /\ saving \in [Savers -> {"idle", "open", "serialize", "close", "sync"}]
  /\ buffer \in [Savers -> Contents]
  /\ {file, drive} \subseteq Contents
  /\ starts \in 0..MaxStarts
  /\ autosaving => saving["main"] # "idle"
  /\ \A t \in Savers : saving[t] = "sync" => t = "main" /\ autosaving

(* What has reached the drive is never lost or replaced by what is older,   *)
(* over any number of restarts, saves and power cuts, as long as no two     *)
(* saves overlap and no end of the backend falls where the file is not      *)
(* whole.                                                                   *)
SecuredSurvives == running /\ tidy => version >= secured

(* "Preferences were manually saved" (main.cpp:963), "Settings and          *)
(* variables were saved" (main.cpp:1289): a save leaves the values of the   *)
(* time it began in the file, whatever changes meanwhile, unless two saves  *)
(* overlap.                                                                 *)
SaveKeepsItsValues ==
  [][\A t \in Savers : CloseFile(t) /\ tidy => file' = table]_vars

(* "Autosave when BMS cuts power", "sync the filesystem cache to drive"     *)
(* (main.cpp:1555, :1560): when sync returns, the settings that the         *)
(* autosave took over are on the drive.                                     *)
AutosaveReachesDrive == [][Sync => drive' >= 0]_vars

=============================================================================
