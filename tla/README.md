# Verification of the e-bike software

TLA+ models of the e-bike's software, TLC runs that check them on small
instances, and TLAPS proofs about them. The system is a backend on a Raspberry
Pi, which reads the levers, commands one or two VESC motor controllers over a
UART and keeps the statistics, and a touch-screen frontend that talks to it over
TCP. The repository has no tests; comments, names and headers are the only
statements of intent, and where a property leans on one of them it is quoted.

## The system

### Backend (`backend/main.cpp`), its threads and what they share

| Thread | Code | Reads | Writes |
| --- | --- | --- | --- |
| main loop | `main` 1406-1607 | ADC and GPIO | `throttleLevel`, `brakeLevel`, `powerOn`, trip watt hours, the battery, the settings file |
| throttle | `throttleFunction` 388-576 | levers, `powerOn`, `battery.charging`, settings, profile, `speed_kmh` | `throttle_info` |
| vesc | `vescProcessingFunction` 588-778 | `throttle_info`, settings, `data_mcconf` | UART commands, telemetry, trip and odometer distance, `speed_kmh` |
| uptime | `uptimeCounterFunction` 339-347 | clock | `uptimeInSeconds` |
| IPC receivers, one per display | `TcpServer::receive_loop`, `TCP_Receive` 844-1181 | everything | settings, profile, trips, battery, the settings file |
| IPC console | `TCP_Send` 1340-1379 | standard input, the list of displays | ends the connections for writing at shutdown |
| IPC owner | `setupIPC` 1381-1404 | `done` | starts and stops the server |

Only four locks exist: `throttle_info_mtx` (a request of the throttle thread),
`ipc_output_mutex` (one command at a time), the two of `VescUart` (one packet
written, one packet read), and those of `TcpServer`. `msg::mtx`, which the code
names, is compiled out of the backend (`-DMSG_DISABLE_MTX`, `backend/Makefile:12`).
All other globals are shared without any.

### Components

| Component | Code | State | Operations | Hard behaviour | What makes it correct |
| --- | --- | --- | --- | --- | --- |
| Throttle state machine | `main.cpp` 361-576 | state, ramps, transition timers, `throttle_info` | one iteration, 100 times a second | inputs change between any two steps; a state with no way out | no current out of nothing; brake and power switch win; no trap |
| Motor drive | `main.cpp` 578-691, `VescUart.cpp` 440-477 | `_wasBraking`, `_wasAccelerating`, the split, what each controller does | one series of UART commands per request | profile changes between two reads, lost packets, motors no longer addressed | no motor drives against a braking one; motors are let go |
| VESC link | `VescUart.cpp`, `myUart.cpp` | the UART's bytes, `data`, `data_mcconf` | commands, requests with a reply, 100 ms timeout | two threads ask over one wire; late and crossed replies | an answer belongs to its question |
| Telemetry and trips | `main.cpp` 693-777, 275-282, 1514-1545 | tachometer of the previous round, trips, odometer | add a distance, add energy, reset | controllers restart, resets race additions | distance is counted once, and never invented |
| IPC server | `server.cpp`, `server.hpp`, `main.cpp` 1340-1404 | client list, receivers, sockets | accept, receive, send, stop | disconnect during a send, stop during an accept | whole frames, no leaked or reused descriptor, stop ends |
| IPC commands | `main.cpp` 844-1181 | the reply under construction, `toSendExtra` | one branch per command | commands of two displays, replies that are cut or lost | every command is answered to the one who asked |
| Settings file | `main.cpp` 1187-1291, 1548-1564, `commonUtils.cpp` 111-116 | table, file | load, save, autosave | crash in the middle of a save, two savers | what was saved is what is loaded |
| Battery | `battery.cpp` | amp hours, cycles, idle detection, capacity estimate | one `processLoop` per round, setters | long sequences of idle, charge, discharge | amp hours are conserved; the estimate waits for a settled voltage |
| Power profiles | `profiles.hpp`, `main.cpp` 304-333, 780-842 | profile table, `data_mcconf` | choose, read, change | a profile read while it changes | limits halve for two controllers |
| Range estimation | `rollingRangeEstimation.cpp`, `main.cpp` 269-273 | a window of distances and energies | add | empty window | weighted mean of what is in the window |
| Display's connection | `frontend/client.cpp`, `frontend/main.cpp` 374-554, 1495-1593 | socket, `isConnected`, `toSendExtra` | connect, read, write, stop | reconnects inside a read, partial writes | no command carried out twice; the display shows what the backend has |
| Message framing | `messagingUtils.cpp` | none | start, end, split, get a value | | split undoes start and end |
| Helpers | `rampLimiter.cpp`, `valueTransition.cpp`, `timer.cpp`, `loopRateLimiter.cpp`, `backend/map.hpp`, `commonUtils.cpp` | an output, a timer | `getValue`, `map` | boundaries | bounded and monotone |
| Sensors | `ads1115.cpp`, `inputOffset.h` | register values | read | pure I/O | |
| Frontend drawing | `frontend/*.cpp` except `client.cpp` | widgets | draw | | |
| Vendored | `toml.hpp`, `buffer.cpp`, `crc.cpp`, `datatypes.h`, `xdg-shell-client-protocol.h`, `cubicBezier.*` | | | | |

## The modules

| Module | Models | State and actions against the code |
| --- | --- | --- |
| `Interlock` | what the motor drive promises: driven, braked or coasting, and coasting in between | abstract specification, no code |
| `MotorDrive` | the drive half of `vescProcessingFunction` (588-691), the commands of `VescUart`, the saturation of the primary motor (718-730) | one action per UART command or branch, `pc` is the place in the loop; `drive` and `brake` are what each controller does; the throttle thread, the profile and command timeouts are the environment |
| `Throttle` | `throttleFunction` (388-576) with `RampLimiter` and `ValueTransition` | sample, power check, one case of the switch, hand over, second power check; every input may change between two of these |
| `ThrottleInfo` | `throttle_info` (354-359), the record between the two threads | the one variable that both modules declare |
| `MotorControl` | both threads over `throttle_info_mtx` | extends the two modules above, which share `throttle_info`: `HandOver` is the throttle thread's writing under the mutex, `Compute` the rest of its loop, `Command` the vesc thread, `Surroundings` inputs, timers, profile and command timeouts |
| `TcpServer` | `TcpServer` and its owner `setupIPC` | acceptor, receivers, console thread and owner each with a program counter; file descriptors are a table whose lowest free entry is used next; `stop()` in its three statements |
| `VescLink` | questions and replies of `VescUart` over one wire; choosing a profile (`main.cpp` 304-333) | `packSendPayload`, `receiveUartMessage` up to the unlock, `processReadPacket`, the caller's copy, for each asking thread; the IPC thread fills `data_mcconf` and sends it to one controller or both; controllers answer and take limits in order, late, damaged, or not |
| `Statistics` | trips and odometer (`main.cpp` 215-230, 275-282, 732-760, 1514-1545) | an addition is a load and a store per counter, between which any other thread may step; tachometer and restarts are the environment |
| `SettingsFile` | `setupTOML`, `TOMLSave`, `saveTableToFile`, the autosaves (1548-1564) | one action per statement that touches the file; the page cache and the drive apart, written back at any time; a power cut leaves what the drive has |
| `Battery` | `Battery::processLoop` and the setters (`battery.cpp` 128-366) | a round of the main loop is two actions, between which a display may set capacity and lifetime: rest or not and the lifetime counter, then the estimate; `settled` counts the rounds since the last real current |
| `CommandChannel` | what a rider may expect of a button: carried out once, spoiled, or lost | abstract specification, no code |
| `Display` | `ClientSocket` (`frontend/client.cpp`), `commThread`, `commThreadRead`, the end of the frontend (`frontend/main.cpp` 1495-1593), and `TCP_Receive` at the other end | three threads, each with a program counter, over `clientSocket`, `isConnected`, `isShutdown`, `successfulCommunication` and `toSendExtra`, none of which has a lock; the backend handles what is left in every connection |

`MC*` modules only give values to the constants. `MotorDrive_proofs`,
`MotorControl_proofs` (with what is proved of `Throttle`), `TcpServer_proofs`,
`VescLink_proofs`, `SettingsFile_proofs`, `Statistics_proofs`, `Battery_proofs` and
`Display_proofs` hold the proofs. `MotorControl` composes `Throttle` and
`MotorDrive`; `Display` relies on what `TcpServer` promises (a message written
whole is handed on whole, a reply goes to its asker) and on nothing else of it;
`Statistics` and `MotorDrive` start from what `SettingsFile` may have left.

Abstractions that matter:

- *Time.* A transition timer is running or has elapsed, a ramp moves at least one
  unit, a command timeout may strike at any time, a deadline of a send may pass
  whenever the send has not ended. Nothing depends on how long something takes.
- *Currents* are integers; the halving and the nine tenths of the brake truncate
  as the wire format does (milliamperes).
- *Shared globals* are read in one step each. Where the code reads one of them
  twice and the second look may matter, the model has both: the single-motor flag
  (`main.cpp:618` and `:657`, two steps) and the throttle (`:477` and `:498`,
  `ReleasedBetween`). The pair `powerOn`, `battery.charging` is read in one step, and a clamped
  current with the profile it is clamped to.
- *Bytes.* `TcpServer` numbers the bytes a display writes and knows which ones end
  a message. `VescLink` reads a packet in one step, because the reader's lock is
  held from its first byte to its last; a packet that the time limit divides is an
  action of its own.
- *The settings* are told apart by a version in `SettingsFile`, and their table is
  updated in one step; two saves that overlap are a data race on that table, of
  whose outcomes the model has those of the file (and a crash, which is an end
  like any other). `Statistics` in turn reads at a start what some save has
  written, or nothing.
- *Statistics* count ticks of the tachometer and units of energy and time, not
  kilometres; the loops that add them are otherwise idle. The reading of the
  tachometer comes from `VESC.data` (`main.cpp:693-699`), which after a late or
  crossed reply holds an older value or the second controller's, as `VescLink`
  shows. `InOrder` is a reading of the primary's present run, this moment's or a
  late one; every other one is `Astray`: any value, at any time, counted by the
  history variable `astray`.
- *The controllers that drive* under a profile are `Driving`: in a single-motor
  profile those that the two `setSecondaryVescAsFirst...` settings name for
  accelerating and for braking (`FirstMotors`), not those that the code sends limits
  to (`Addressed`).
- *Limits of a profile* are told apart by the profile they come from and by
  whether they were halved. Filling `data_mcconf` is one step; a profile given
  new values is one profile more. The history variable `spoiled` says that a
  reply replaced the limits between filling and sending, or that the wire lost
  them.
- *The battery's percentages* are steps of the voltage curve and the capacity is
  what one step holds; a round of the main loop is one unit of time. A setting
  that falls between the load and the store of an addition is lost, as if it had
  never been given. `rest`, `due`, `known` and `ride` are history.
- *The display* has one setting that commands change and every poll asks for (the
  power profile, regenerative braking, drivetrain backlash); the messages of one
  poll are one token, and so is a reply. The values of a profile and the notes,
  which are asked for once in a conversation (`frontend/main.cpp:1547-1560`), are
  not of this kind: a lost answer to them is not corrected before the next
  conversation. A command that a failed send cuts runs into the next message, as the
  splitter has it: what comes of it may be nothing, the value pressed, another one,
  or a number no profile has, on which the backend ends (`main.cpp:328`, `1142`).
  A connection is a lane: what was written into it is read by the backend also
  after the display has let go of it. `connect`, `recv` and `send` may each fail,
  and the backend may end. Nobody has to start it again; when it starts, it has the
  setting of some earlier save, or none.
- *poll in `TCP_Send` does not fail*, and of the errors of `accept` the model has
  those that end or skip an iteration: closed listener, no descriptor left, and a
  socket that cannot be made non-blocking.

## The runs

| Run | Bounds | Question | States, time |
| --- | --- | --- | --- |
| `motor_drive` | currents 0 and 20, limits 10 and 20 around the ADVANCED_2 ratio, every setting and drive style, one bike with a wire that loses commands | Can a sequence of requests, drive styles and profile changes let one motor drive against another? Are motors let go although commands are lost? | 365 000 states, 45 s |
| `motor_drive_lossy` (violation) | one current, lossy wire | Is one zero command enough? It is not. | stops at the counterexample |
| `throttle` | one pressed position of each lever, four saved modes; charger, levers and motion change at any step | Does current appear from nothing? Do switch and brake win? Is there a state the machine cannot leave? | 675 000 states, 2.5 min |
| `motor_control` | two controllers in style SIMPLE; power, brake and profile change | Do the promises to the rider hold through both threads: nothing drives before the throttle is pressed, switch and lever release the motors? | 165 000 states, 2 min |
| `tcp_server` | two connections, of which one writes two messages of two bytes each, two descriptors | Reuse of descriptors and numbers, framing, stop at any moment; does stop end, is a message always handed on? | 275 000 states, 1.5 min |
| `vesc_link` | four questions in all, at most two of the IPC thread, one loss, one change of profile, replies late by any time; one controller accelerates alone, the other brakes alone | Does an answer belong to its question, does the lock come back, do the limits follow the profile? | 630 000 states, 3 min |
| `vesc_link_crossed` (violation) | the same, perfect wire, no delay | May two threads ask at once? They may not. | stops at the counterexample |
| `statistics` | big step 2, two ticks, a distance and a riding time, one command, two starts, two readings that go astray to 0 or 3 | Is distance invented, is an addition lost? | 4.5 million states, 2 min |
| `settings_file` | three versions, three starts | Does what was saved survive? | 53 000 states |
| `settings_file_autosave` (violation) | one version, one start | Does the autosave reach the drive? Not beside another save. | stops at the counterexample |
| `display` | two commands, two lanes with one unread message each, one unread reply, one failure; the backend also ends of a cut command, saves and is started again at any time | Is a command carried out once and in order? Does the display find the backend again, show what it has, and end when told to? | 260 000 states, 2 min |
| `battery` | charging, idle, riding and implausible currents, two rounds to settle, two percentages, capacities with 0, six amp hours | Is every amp hour counted once? Does an estimate measure one ride? | 3.2 million states, 1 min |

Why these bounds are enough to be interesting: two controllers are all the code
can address; a drive current, a brake current and a leftover each need one value
besides zero, and the ADVANCED_2 ratio one on each side of its limits; two
connections are needed for a reply to reach the wrong one and for a descriptor to
be used again while the old number is still known; two messages let one packet
end the first and begin the second; four questions are enough for a reply to be
late across a change of controller and back, and for an answer to be stored
between filling `data_mcconf` and sending it (without the premise `~spoiled`
`LimitsFollowProfile` is violated within these bounds); a big step of two ticks
leaves one tick that can be counted twice after a restart, two readings astray lead
up to the second controller's tachometer and back, and one command can fall between
the load and the store of an addition; three
versions are what was secured, what is being saved and what a later save takes
over; two commands can change places, and one failure can cut a message, end a
connection or keep a display from connecting (with two failures and one command, and with three
failures and none, the properties of `Display` hold as well); two percentages rise, stay and
fall, and six amp hours let two rides be estimated. `CHECK_DEADLOCK` is off for
`TcpServer` and `Display`, whose threads end when they are told to, and for
`VescLink`, `Statistics` and `SettingsFile`, where the numbers of questions,
commands and starts are bounded.

### What the three violations show

- `motor_drive_lossy`: before the first brake command (and the first drive
  command) the zero commands are sent once and the flag is cleared first
  (`main.cpp:607-611`, `666-676`). The comments say "make sure the motors are not
  accelerating". If one of them is lost while a single-motor profile is on, the
  other motor keeps driving against the braking one until its command timeout.
  `OppositionEnds` shows the damage is bounded.
- `vesc_link_crossed`: `VescUart.h:147-157` promises the "returned data" of the
  command just sent. The command and the reply are under two locks, and
  `processReadPacket` takes any known packet: an IPC thread asking for the profile
  takes the vesc thread's values, is told "true", and shows limits that were never
  returned to it; the vesc thread likewise takes old values for new ones.
- `settings_file_autosave`: "Autosave when BMS cuts power" (`main.cpp:1555`), then
  "sync the filesystem cache to drive" (`:1560`). `saveTableToFile` empties the only
  copy before it writes it, and nothing keeps an IPC thread's `SAVE_PREFERENCES`
  from doing so while the main loop autosaves: the sync can put an empty or a torn
  file on the drive at the moment the power is about to go. A torn file does not
  parse, and the backend does not start with it. `SecuredSurvives` says when
  nothing is lost: no two saves overlap, and no power cut falls into a save.

### Fairness

- The threads of the backend loop for ever, so each is weakly fair.
- `SF` on handing over a request (`MotorControl`) and on taking the reader's lock
  (`VescLink`): the other thread gives the mutex up and spends milliseconds
  outside it, in UART reads or sleeps, in every round; a thread that waits gets it
  now and then. With weak fairness alone a waiting thread could be passed for ever.
- Transition timers and the command timeouts of the controllers run out: `WF`.
- A send ends by its deadline (`server.cpp:120-154`): part of `WF` of a receiver.
- The three threads of the display and the backend's receiver of each lane are
  weakly fair; the comm thread's ping every 750 ms (`frontend/main.cpp:1537`) is
  `SF` on composing a batch, since the condition it waits for comes and goes; a
  connection on which nothing arrives ends after the 30 s of `SO_RCVTIMEO`
  (`client.cpp:23-27`). Failures are bounded: what must come, comes after them.
- Sending the limits of a profile to the second controller follows the first: `WF`.
- Nothing is assumed of riders, displays, controllers' replies, or that the
  backend is ever told to end. Liveness properties that need something of them say
  so in their premise.

## What is proved

For every value of the constants that meets the named assumptions:

| Theorem | Says | Argument |
| --- | --- | --- |
| `TypeCorrect` (`MotorDrive_proofs`) | `TypeOK`: types, and the mutex is held exactly during a request | inductive as it stands; `SplitType` and `ShareBound` show the division of a current yields natural numbers |
| `NoOpposing` | `NoOpposingMotors`: no motor drives while one brakes, if no command is lost | `InterlockInv`: outside the critical section exactly one flag is up and the other kind of current is nowhere (`FlagsTell`); during the two zero commands the controller not yet addressed is the only one that may still apply the old current. `NoOpposingMotors` alone is not inductive: it does not say which current may still be on when a flag is down |
| `Refinement` | `ImplementsInterlock`: on a wire that loses nothing `MotorDrive` implements `Interlock` | the same invariant, and that no step changes both kinds (`Coasts`) |
| `CommandsKeepMode` | `CommandsFollowRequest`, on lossy wires too | `RequestHeld`: between reading the mode and the last command the request still says what is being carried out, because the throttle thread writes only while the mutex is free and `ChooseSplit` writes back no other mode; with `NewCurrents`, which step can give a motor a new current |
| `ThrottleTypeCorrect` (`MotorControl_proofs`) | `ThrottleTypeOK`, and the power switch is looked at again only in the off states | inductive as it stands |
| `NoSpontaneousDriveEver` | no drive current is requested before the throttle was pressed | strengthening: until then the ramp, the smoothed current, the pending request and `movingBecauseThrottle` are all at rest |
| `TwoThreadsImplementDrive` | `ImplementsMotorDrive`: the two threads together implement `MotorDrive` with its arbitrary requester | `RequestsExpected`: every current that the throttle thread samples, ramps, keeps or hands over is one `MotorDrive` was told to expect (`Requestable` currents are closed under the ramps and the interpolation). Then each step is one of `MotorDrive` (`ControlForDrive`): handing over, under the mutex, is what `Apply_Environment` stands for |
| `TwoThreadsKeepInterlock` | so what is proved of `MotorDrive` holds of the two threads: `NoOpposingMotors`, `ImplementsInterlock`, `CommandsFollowRequest` | `TwoThreadsImplementDrive` and the theorems above |
| `NothingDrivesBeforeThrottle` | `NothingDrivesUnpressed`: before the throttle was pressed no motor drives, but for the leftover current of the ADVANCED styles; on any wire, in every drive style | `UnpressedInv`: the throttle thread's side is that of `NoSpontaneousDriveEver`, kept although the vesc thread writes the clamped request back (`CommandKeepsRequest`); on the other side the split of a request for nothing is nothing (`SplitOfNothing`), and by `RequestHeld` the request that is split is still the one whose mode was read. The invariant of the request alone says nothing of the currents that are split and not yet sent |
| `TcpServerTypeCorrect` (`TcpServer_proofs`) | `TypeOK`: types, and a send owns a client exactly while it is under way | `TypeInv`: also the order of the ending (`PhaseOrder`: whoever joins the acceptor has joined the console thread) and that a connection is accepted once (`Fresh`) |
| `OwnDescriptors` | `DescriptorsOwned` | with its converse `DescriptorsUsed`, that a descriptor in use is that of a connection somebody holds: an accept takes a free one (`AcceptDoes`), and `DropClients` frees what nobody holds any more. Steps that add a holder add it only for a client that is held already (`HeldOrDropped`) |
| `RepliesReachAsker` | `RepliesGoToAsker` | `OwnNumbers`: client numbers are below `next_id_` and belong to one connection each; `OwnDestinations`: the search by number finds the asker, so a send owns no other client |
| `NothingOutlives` | `NothingOutlivesServer` | `Joinable`: a receiver that runs is in the list the destructor joins. With `PhaseOrder` nobody holds a client when it has joined them all, and by `DescriptorsUsed` no descriptor is left |
| `MessagesStayWhole` | `WholeMessages`, packets and messages in any number | inductive with the types; the work is in sequences: `ConsumedIs` (behind an even number of bytes the last end mark is at an even place and leaves at most one byte), `CutAgain`, `MiddleCounts` and `RecvMoves` (recv moves bytes along and changes nothing of the stream) |
| `VescLinkTypeCorrect` (`VescLink_proofs`) | `TypeOK`: types, and the reader's lock is held exactly by a thread that reads | `TypeInv`, inductive |
| `LimitsReachControllers` | `LimitsFollowProfile` | `FollowInv`: unless spoiled, while the limits are being sent `data_mcconf` holds those of the profile, the first controller has or will have them when the second is served (`FirstSent`), and otherwise all controllers they are sent to have or will have them (`AllSent`). `DrivingAddressed` compares who drives with whom the code sends them to: the only one left out is a second controller that drives alone (`LeftOut`, an exception in the property). What a line of commands leaves behind is `Leaves`: the last limits on it, which questions, answers and the handling of older limits do not change |
| `OwnAnswersWhenAlone` | `AnswersWhenAlone` | `AloneInv`: while nobody else asks and nothing was late, one question is under way or its answer, never both nor two (`VescAsks`), and the other thread only sets (`OthersOnlySet`) |
| `TelemetryNeverGoesBack` | `TelemetryMovesForward`, an action property, however late the replies | `OrderInv`: while nobody else asks, the questions of each controller are in the order in which they were asked along the whole way back: what is kept, `data`, what was read, the buffer, the queues of the controllers (`Line`), within buffer and queues (`BufferInOrder`, `QueuesInOrder`), and none is newer than the last one asked. A reply is one of these moving a place on; each move is a lemma about five arbitrary sets (`LineAnswered`, `LineRead`, `LineProcessed`, `LineCopied`, `LineGrows`). What a step may store says nothing of what the buffer may still bring, so the property needs the whole line |
| `SettingsTypeCorrect` (`SettingsFile_proofs`) | `TypeOK`, and only an autosave waits for the drive | inductive as it stands |
| `NothingSecuredIsLost` | `SecuredSurvives` | `IInv`: as long as all was tidy, one save at a time empties the file just while it writes it (`OneSave`), and drive, file, table and values in memory are in the order of their age (`NothingOlder`). `SecuredSurvives` says nothing of the file or the table, through which an old version could come back |
| `SavesKeepTheirValues` | `SaveKeepsItsValues` | from `OneSave`: the file is empty and the buffer is the table when a save closes |
| `StatisticsTypeCorrect` (`Statistics_proofs`) | `TypeOK`: types, what is loaded is still to be stored, no distance is negative | `TypeInv`: each thread has jobs of its own kind (distances, energy and time, zeros and settings), and a backend that does not run holds nothing |
| `EveryAdditionReachesEveryCounter` | `CountersInStep` | `StepInv`: an addition goes to each counter once, what is loaded is what the counter holds unless it was set since, and a counter is raced no longer than it is loaded. A store then ends the only job under way for its counter (`StoreEndsOne`), a count begins the only one (`CountBeginsOne`) |
| `NoDistanceInvented` | `DistanceNotInvented` | `OdometerInv`: odometer, loaded value and saved value, each with what is still coming to it (`Coming`: under way, or still to be counted), are within a setting and what was ridden; the tachometer never shows more than was ridden. What is still to be counted depends on the last reading (`ToCome`): of readings in order the rest of the way rolled, otherwise at most one step (`ComeInOrder`, `ComeAstray`). A start and a reading that goes astray each add less than one big step |
| `BatteryTypeCorrect` (`Battery_proofs`) | `TypeOK` | inductive as it stands |
| `EveryAmpHourCountedOnce` | `AmpHoursCountedOnce` | with `SameRest` (the percentages kept for a rest are of the same rest) and `Counted` (what was counted since the last rest is what is due) |
| `EstimatesMeasureOneRide` | `EstimateMeasuresRide` | with `Measured`, what a ride has used so far |
| `DisplayTypeCorrect` (`Display_proofs`) | `TypeOK`: types, and a batch never holds two polls | `TypeInv`: with `BatchPhase`, what the batch is at each step of the comm thread (a greeting, what is left of one, a batch with one question, nothing); it needs `OrderInv` to know that what a write puts on a connection is a beginning of the batch |
| `OrderKept` | `OrderPerConnection` | `OrderInv`: along every lane, then the batch, then the queue the numbers go up, no command is in two lanes, and behind a cut message there is a greeting or a question. Every step is one of six moves (`Moves`); the work is in what concatenations, beginnings and tails do to the order (`JoinedOrder`, `Beginnings`, `TailKeeps`) |
| `DisplayImplementsChannel` | `ImplementsChannel`: `Display` implements `CommandChannel` | the same invariant: a command that is handled is nowhere else (`TakenOut`), what a cut message swallows is no command (`LeftIs`), a move that changes neither the setting nor the number of commands given can only lose (`Losing`), and an end of the backend loses what was on its connections |

The theorems hold without assumptions on the program: where a property needs one
(no command is lost, no value was overwritten) it is a premise in the property.

The refinement `ImplementsMotorDrive` needs no instance: the modules share
`throttle_info` through `ThrottleInfo`, and `MotorControl` extends both, so the
theorems of `MotorDrive_proofs` apply to it as they stand.

Only model-checked: the liveness properties (`ZeroRequestReleasesMotors`,
`OppositionEnds`, `SwitchAndLeverWin`, `RequestFollowsThrottle`,
`SwitchAndLeverReleaseMotors`, `StopEnds` of server and display, `EveryDisplayServed`,
`EveryQuestionEnds`, `Converges`, `QuestionsAskedAgain`): they rest on fairness and
`ENABLED`, which is out of the provers' reach. Every invariant and every action
property that a passing run checks is a theorem.

## Plan

The order is the order of importance: first what moves the bike, then the wires
it depends on, then what must not be lost, then what a rider sees.

Done, in this order: the core (`MotorDrive`, `Throttle`, `MotorControl`), the
server, the UART link, statistics and settings file, the display's connection and
the dispatch of its commands, the battery, the power profiles; proofs about every
component.

There is one run per question. What is left is worth less than what is there:

1. The log lines in `toSendExtra` of the backend (`main.cpp:1172`, `1286`), which the
   next reply to any display takes along.
2. `messagingUtils.cpp` and `backend/map.hpp` as pure operators against reference
   definitions.

## What is not modelled, and why

- *Sensors* (`ads1115.cpp`, pin and ADC reads): pure I/O, the readings are inputs.
- *Drawing* (`frontend/*.cpp` but for `client.cpp` and the threads of the
  connection): layout, no state the backend depends on.
- *Vendored code*: TOML, CRC, buffers; modelled only as what the program relies on.
  With the generated header of the window system and the tables of `datatypes.h` it
  is three quarters of the repository's lines.
- *Range estimation* and the smoothing of the percentage shown: arithmetic on values
  that a display shows and nothing depends on.
- *The battery's status text*, and whether ten minutes are meant where the comment
  says twenty (`battery.hpp:23`: `600*1000` ms, "20 minutes"): the time to settle is
  a constant of the model.
- *Amp hours of a ride that ends with the switch* and not with ten quiet minutes:
  they reach the lifetime counter only when a rest begins (`battery.cpp:202`). The
  model does the same; nothing in the repository says how much may be lost.
- *Log lines for a display* (`main.cpp:1172`): they go with the next reply to
  whichever display asks; the replies are told apart only by what they report.
- *A number no profile has that is saved* before the backend ends of it
  (`main.cpp:1048`, `328`; the main loop may save in between): each later start would
  end the same way, and nobody could mend it but by editing the file. `Display` lets
  a backend that is started again come up.
- *The second controller of a single-motor profile*: when the settings make it drive
  or brake alone it keeps the limits of an earlier profile (`main.cpp:330-332`).
  The model does what the code does, and `LimitsFollowProfile` names the case; no
  line of the repository says which controllers a profile's limits are for.
- *What a property excepts*: the reset that is lost between a load and a store
  (`main.cpp:754`), the limits replaced before they are sent (`main.cpp:310`), and a
  capacity of zero or infinity (`battery.cpp:204`, `301`) are in the models, but
  nothing says what should happen then; the properties except them.
- *Time and memory*: `ipc_output_mutex` is held over UART questions and file writes
  (`main.cpp:845`), so one display's command delays every other's; `receivers_` keeps
  the thread object of every connection until the backend ends (`server.cpp:59`).
- *Numbers*: the speed, acceleration and range a display shows are formulas of one
  line; rounding is left out except where the wire format truncates.
- In styles ADVANCED_1 and ADVANCED_2 the second motor is driven with the leftover of
  the first (`main.cpp:626`) even when the request has become zero, until the leftover
  itself has decayed. The model does what the code does; no property forbids it,
  since nothing in the repository says how soon it must end;
  `ZeroRequestReleasesMotors` states what holds in style SIMPLE, and
  `NothingDrivesUnpressed` that before the throttle is pressed it is that motor, and
  no other, which may be driven.
- The data races of the program (plain globals written by several threads) are
  modelled as interleavings of whole reads and writes, which is what a 64-bit build
  does with an aligned `double`.
