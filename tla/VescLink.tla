------------------------------ MODULE VescLink ------------------------------
(***************************************************************************)
(* The questions asked of the motor controllers over one UART (VescUart    *)
(* and MyUart): the vesc thread asks for measured values, an IPC thread    *)
(* for the limits of the power profile, of the controller at the UART and, *)
(* through it, of a second one on the CAN bus.  A command is written under *)
(* one mutex, a reply read under another, and nothing in a reply says      *)
(* which question it answers; what arrives after the time limit waits in   *)
(* the buffer of the serial port for the next reader.                      *)
(*                                                                         *)
(* The IPC thread also sends the limits of a newly chosen profile.  They   *)
(* travel through data_mcconf, the member that replies are stored in.      *)
(*                                                                         *)
(* A reply names the question it answers and, if it asked for them, the    *)
(* limits of the controller.  The limits are told apart by the profile     *)
(* they come from and by whether they were halved for two controllers.  A  *)
(* packet is read in one step: the lock is held from its first byte to its *)
(* last.  The commands for currents belong to module MotorDrive.           *)
(***************************************************************************)
EXTENDS Integers, Sequences, SequencesExt, Functions

CONSTANTS
  Askers,       \* the threads that ask: a subset of {"vesc", "ipc"}
  DualVESC,     \* settings.enableDualVESC
  MaxLosses,    \* bound: commands and replies lost or damaged on the wire
  MayBeLate,    \* replies may come after the time limit
  Profiles,     \* the power profiles, one more for each new set of values
  SingleMotor,  \* those with C_FORCE_SINGLE_MOTOR_ACCELERATION
  FirstMotors,  \* the controllers that accelerate or brake alone under those
  SavedProfiles, \* those the settings file may name as the current one
  MaxQuestions, \* bounds: the questions of each thread,
  MaxAsked,     \*   the questions of all threads, and
  MaxChanges    \*   the profiles chosen by a display

ASSUME AskersAssumption == Askers \subseteq {"vesc", "ipc"}
ASSUME LinkAssumption == {DualVESC, MayBeLate} \subseteq BOOLEAN
ASSUME MotorsAssumption == FirstMotors \subseteq {"primary", "secondary"}
ASSUME ProfilesAssumption == SingleMotor \cup SavedProfiles \subseteq Profiles
ASSUME QuestionsAssumption ==
  MaxQuestions \in [Askers -> Nat] /\ {MaxAsked, MaxChanges, MaxLosses} \subseteq Nat

Controllers == {"primary", "secondary"}
Kind == [vesc |-> "COMM_GET_VALUES", ipc |-> "COMM_GET_MCCONF_TEMP"]
Kinds == {"COMM_GET_VALUES", "COMM_GET_MCCONF_TEMP"}

Questions == [kind : Kinds, to : Controllers, n : Nat]
Question(t, c, k) == [kind |-> Kind[t], to |-> c, n |-> k]

(* The limits of a profile, or those that a controller has of its own. *)
Limits == [profile : Profiles, halved : BOOLEAN]
OwnLimits == [profile |-> "own", halved |-> FALSE]
SetLimits(limits) == [kind |-> "COMM_SET_MCCONF_TEMP_SETUP", limits |-> limits]

Reply(question, limits) == [question |-> question, limits |-> limits]

NoReply == Reply(Question("vesc", "primary", 0), OwnLimits)

(* What is in the receive buffer when a reply is damaged, or when its first *)
(* half was thrown away.                                                    *)
BadPacket  == Reply([kind |-> "bad", to |-> "primary", n |-> 0], OwnLimits)
RestPacket == Reply([kind |-> "rest", to |-> "primary", n |-> 0], OwnLimits)

VARIABLES
  pc,          \* the next step of each asking thread
  target,      \* the controller it asks
  count,       \* the questions it has asked
  mtx,         \* the reader's lock: "free" or the thread that holds it
  pending,     \* per controller, the commands it has yet to handle
  rx,          \* the packets in the receive buffer
  got,         \* the packet a thread has read and not yet processed, or NoReply
  data,        \* VescUart::data
  data_mcconf, \* VescUart::data_mcconf, and the reply it comes from
  losses,      \* how many were lost or damaged, bounded
  late,        \* history: a question timed out before its reply came
  stored,      \* what each thread keeps of each controller: VESCPrimary and
               \*   VESCSecondary, _mcconf_vesc1 and _mcconf_vesc2
  profile,     \* the current profile
  changes,     \* how many were chosen, bounded
  limits,      \* per controller, the limits it keeps
  spoiled      \* history: the limits of this profile were overwritten before
               \*   they were sent, or lost on the wire

threadVars == <<pc, target, count>>
linkVars   == <<pending, rx, losses>>
replyVars  == <<got, data, data_mcconf, stored>>
limitVars  == <<profile, changes, limits, spoiled>>
vars == <<threadVars, mtx, linkVars, late, replyVars, limitVars>>

Current(t) == Question(t, target[t], count[t])

-----------------------------------------------------------------------------
(* A thread asks, reads one packet or gives up, and goes on *)

(* packSendPayload writes the whole command under its own lock. *)
Ask(t) ==
  /\ pc[t] = "ask"
  /\ count[t] < MaxQuestions[t] /\ SumFunction(count) < MaxAsked
  /\ count' = [count EXCEPT ![t] = @ + 1]
  /\ pending' = [pending EXCEPT ![target[t]] =
                   Append(@, Question(t, target[t], count[t] + 1))]
  /\ pc' = [pc EXCEPT ![t] = "lock"]
  /\ UNCHANGED <<target, mtx, rx, losses, late, replyVars, limitVars>>

Lock(t) ==
  /\ pc[t] = "lock" /\ mtx = "free"
  /\ mtx' = t
  /\ pc' = [pc EXCEPT ![t] = "read"]
  /\ UNCHANGED <<target, count, linkVars, late, replyVars, limitVars>>

(* The second controller is asked when there is one; the vesc thread skips  *)
(* it after a failure, the IPC thread does not.                             *)
GoOn(t, succeeded) ==
  /\ pc' = [pc EXCEPT ![t] = "ask"]
  /\ target' = [target EXCEPT ![t] =
                  IF @ = "primary" /\ DualVESC /\ (succeeded \/ t = "ipc")
                  THEN "secondary" ELSE "primary"]
  /\ UNCHANGED count

Unlock(t) == pc[t] = "read" /\ mtx = t /\ mtx' = "free"

(* Mutants: the packet stays in the buffer; the last packet is taken. *)
ReadPacket_StaysInBuffer(t) ==
  /\ Unlock(t)
  /\ rx # <<>> /\ Head(rx).question \in Questions
  /\ got' = [got EXCEPT ![t] = Head(rx)]
  /\ pc' = [pc EXCEPT ![t] = "process"]
  /\ UNCHANGED <<target, count, linkVars, late, data, data_mcconf, stored,
                 limitVars>>
ReadPacket_Last(t) ==
  /\ Unlock(t)
  /\ rx # <<>> /\ rx[Len(rx)].question \in Questions
  /\ got' = [got EXCEPT ![t] = rx[Len(rx)]]
  /\ rx' = SubSeq(rx, 1, Len(rx) - 1)
  /\ pc' = [pc EXCEPT ![t] = "process"]
  /\ UNCHANGED <<target, count, pending, losses, late, data, data_mcconf,
                 stored, limitVars>>

ReadPacket(t) ==
  /\ Unlock(t)
  /\ rx # <<>> /\ Head(rx).question \in Questions
  /\ got' = [got EXCEPT ![t] = Head(rx)]
  /\ rx' = Tail(rx)
  /\ pc' = [pc EXCEPT ![t] = "process"]
  /\ UNCHANGED <<target, count, pending, losses, late, data, data_mcconf,
                 stored, limitVars>>

(* Mutant: a damaged packet returns without unlocking. *)
ReadDamaged_KeepsLock(t) ==
  /\ pc[t] = "read" /\ mtx = t
  /\ rx # <<>> /\ Head(rx) = BadPacket
  /\ rx' = Tail(rx)
  /\ GoOn(t, FALSE)
  /\ UNCHANGED <<mtx, pending, losses, late, replyVars, limitVars>>

(* The checksum of unpackPayload does not fit. *)
ReadDamaged(t) ==
  /\ Unlock(t)
  /\ rx # <<>> /\ Head(rx) = BadPacket
  /\ rx' = Tail(rx)
  /\ GoOn(t, FALSE)
  /\ UNCHANGED <<pending, losses, late, replyVars, limitVars>>

(* The start byte is not one: no end is known, all there is gets read.      *)
ReadMisaligned(t) ==
  /\ Unlock(t)
  /\ rx # <<>> /\ Head(rx) = RestPacket
  /\ rx' = <<>>
  /\ GoOn(t, FALSE)
  /\ UNCHANGED <<pending, losses, late, replyVars, limitVars>>

Unanswered(s) == \E m \in ToSet(s) : m \in Questions

Quiet == rx = <<>> /\ (MayBeLate \/ \A c \in Controllers : pending[c] = <<>>)

(* Mutant: the loop waits until a message has been read. *)
Timeout_Never(t) ==
  /\ Unlock(t)
  /\ FALSE
  /\ GoOn(t, FALSE)
  /\ UNCHANGED <<linkVars, late, replyVars, limitVars>>

Timeout(t) ==
  /\ Unlock(t)
  /\ Quiet
  /\ late' = (late \/ \E c \in Controllers : Unanswered(pending[c]))
  /\ GoOn(t, FALSE)
  /\ UNCHANGED <<linkVars, replyVars, limitVars>>

(* The time limit falls into a packet: its first bytes are thrown away. *)
TimeoutInPacket(t) ==
  /\ Unlock(t)
  /\ rx = <<>> /\ MayBeLate
  /\ \E c \in Controllers :
       /\ pending[c] # <<>> /\ Head(pending[c]) \in Questions
       /\ pending' = [pending EXCEPT ![c] = Tail(@)]
  /\ rx' = <<RestPacket>>
  /\ late' = TRUE
  /\ GoOn(t, FALSE)
  /\ UNCHANGED <<losses, replyVars, limitVars>>

(* The IPC thread is between filling data_mcconf and the last command. *)
Sending == \E t \in Askers : pc[t] \in {"setPrimary", "setSecondary"}

(* processReadPacket looks at the kind of the packet, not at the question. *)
ProcessReadPacket(t) ==
  /\ pc[t] = "process"
  /\ IF got[t].question.kind = "COMM_GET_VALUES"
     THEN /\ data' = got[t].question
          /\ UNCHANGED <<data_mcconf, spoiled>>
     ELSE /\ data_mcconf' = got[t]
          /\ spoiled' = (spoiled \/ Sending)
          /\ UNCHANGED data
  /\ got' = [got EXCEPT ![t] = NoReply]
  /\ pc' = [pc EXCEPT ![t] = "copy"]
  /\ UNCHANGED <<target, count, mtx, linkVars, late, stored, profile, changes,
                 limits>>

(* The caller was told "true" and copies the member it asked for. *)
Copy(t) ==
  /\ pc[t] = "copy"
  /\ stored' = [stored EXCEPT ![t][target[t]] =
                  [answer |-> IF t = "vesc" THEN data ELSE data_mcconf.question,
                   asked  |-> Current(t)]]
  /\ GoOn(t, TRUE)
  /\ UNCHANGED <<mtx, linkVars, late, got, data, data_mcconf, limitVars>>

Thread(t) ==
  \/ Ask(t) \/ Lock(t) \/ ReadPacket(t) \/ ReadDamaged(t) \/ ReadMisaligned(t)
  \/ Timeout(t) \/ TimeoutInPacket(t) \/ ProcessReadPacket(t) \/ Copy(t)

-----------------------------------------------------------------------------
(* A display chooses a profile, or gives the current one new values *)

distributeSettingsEvenlyBetweenDrivers(p) == p \notin SingleMotor /\ DualVESC

Share(p) == [profile |-> p,
             halved  |-> distributeSettingsEvenlyBetweenDrivers(p)]

(* setMcconfFromCurrentProfile, field by field; what replaces some of the   *)
(* fields before the others are filled replaces the limits.                 *)
SetProfile(p) ==
  /\ "ipc" \in Askers
  /\ pc["ipc"] = "ask" /\ target["ipc"] = "primary"
  /\ changes < MaxChanges /\ changes' = changes + 1
  /\ profile' = p
  /\ data_mcconf' = [data_mcconf EXCEPT !.limits = Share(p)]
  /\ spoiled' = FALSE
  /\ pc' = [pc EXCEPT !["ipc"] = "setPrimary"]
  /\ UNCHANGED <<target, count, mtx, linkVars, late, got, data, stored,
                 limits>>

setMcconfTempValues(c) ==
  pending' = [pending EXCEPT ![c] = Append(@, SetLimits(data_mcconf.limits))]

(* Mutant: the second controller keeps what it had. *)
SetPrimary_Only ==
  /\ "ipc" \in Askers /\ pc["ipc"] = "setPrimary"
  /\ setMcconfTempValues("primary")
  /\ pc' = [pc EXCEPT !["ipc"] = "ask"]
  /\ UNCHANGED <<target, count, mtx, rx, losses, late, replyVars, limitVars>>

SetPrimary ==
  /\ "ipc" \in Askers /\ pc["ipc"] = "setPrimary"
  /\ setMcconfTempValues("primary")
  /\ pc' = [pc EXCEPT !["ipc"] =
               IF distributeSettingsEvenlyBetweenDrivers(profile)
               THEN "setSecondary" ELSE "ask"]
  /\ UNCHANGED <<target, count, mtx, rx, losses, late, replyVars, limitVars>>

SetSecondary ==
  /\ "ipc" \in Askers /\ pc["ipc"] = "setSecondary"
  /\ setMcconfTempValues("secondary")
  /\ pc' = [pc EXCEPT !["ipc"] = "ask"]
  /\ UNCHANGED <<target, count, mtx, rx, losses, late, replyVars, limitVars>>

ProfileCommand ==
  (\E p \in Profiles : SetProfile(p)) \/ SetPrimary \/ SetSecondary

-----------------------------------------------------------------------------
(* The controllers and the wire: each handles its commands in order, the    *)
(* one behind the CAN bus in its own time.                                  *)

Loss   == losses < MaxLosses /\ losses' = losses + 1
NoLoss == UNCHANGED losses

Asked(c) == pending[c] # <<>> /\ Head(pending[c]) \in Questions

Arrives(c, packets) ==
  /\ pending' = [pending EXCEPT ![c] = Tail(@)]
  /\ rx' = rx \o packets
  /\ UNCHANGED <<threadVars, mtx, late, replyVars, limitVars>>

LimitsIn(c, question) ==
  IF question.kind = "COMM_GET_MCCONF_TEMP" THEN limits[c] ELSE OwnLimits

Answer(c) ==
  /\ Asked(c) /\ NoLoss
  /\ LET question == Head(pending[c])
     IN  Arrives(c, <<Reply(question, LimitsIn(c, question))>>)
Damage(c) == Loss /\ Asked(c) /\ Arrives(c, <<BadPacket>>)
Lose(c)   == Loss /\ Asked(c) /\ Arrives(c, <<>>)

TakeLimits(c) ==
  /\ pending[c] # <<>> /\ ~Asked(c)
  /\ pending' = [pending EXCEPT ![c] = Tail(@)]
  /\ \/ /\ limits' = [limits EXCEPT ![c] = Head(pending[c]).limits]
        /\ UNCHANGED <<spoiled, losses>>
     \/ /\ Loss
        /\ spoiled' = TRUE
        /\ UNCHANGED limits
  /\ UNCHANGED <<threadVars, mtx, rx, late, replyVars, profile, changes>>

-----------------------------------------------------------------------------

Nothing(t, c) == [answer |-> Question(t, c, 0), asked |-> Question(t, c, 0)]

Addressed(c, p) == c = "primary" \/ distributeSettingsEvenlyBetweenDrivers(p)

(* The main thread has set the limits of the saved profile. *)
Init ==
  /\ pc = [t \in Askers |-> "ask"]
  /\ target = [t \in Askers |-> "primary"]
  /\ count = [t \in Askers |-> 0]
  /\ mtx = "free"
  /\ profile \in SavedProfiles /\ changes = 0
  /\ limits = [c \in Controllers |-> OwnLimits]
  /\ spoiled = FALSE
  /\ pending = [c \in Controllers |->
                  IF Addressed(c, profile) THEN <<SetLimits(Share(profile))>>
                  ELSE <<>>]
  /\ rx = <<>> /\ losses = 0
  /\ got = [t \in Askers |-> NoReply]
  /\ data = Question("vesc", "primary", 0)
  /\ data_mcconf = Reply(Question("ipc", "primary", 0), Share(profile))
  /\ late = FALSE
  /\ stored = [t \in Askers |-> [c \in Controllers |-> Nothing(t, c)]]

Next == \/ \E t \in Askers : Thread(t)
        \/ ProfileCommand
        \/ \E c \in Controllers :
             Answer(c) \/ Damage(c) \/ Lose(c) \/ TakeLimits(c)

Spec == Init /\ [][Next]_vars

(* The threads run, and the loop of receiveUartMessage looks at the clock;  *)
(* the lock is taken in turns.  Nothing is assumed of the controllers.      *)
FairSpec == /\ Spec
            /\ \A t \in Askers : WF_vars(Thread(t)) /\ SF_vars(Lock(t))
            /\ WF_vars(SetPrimary \/ SetSecondary)

-----------------------------------------------------------------------------
(* Properties *)

AnyLimits == Limits \cup {OwnLimits}
Commands  == Questions \cup {SetLimits(l) : l \in AnyLimits}
Replies   == [question : Questions, limits : AnyLimits]
Packets   == Replies \cup {BadPacket, RestPacket}

(* Every variable has the type of the variable it stands for, and the       *)
(* reader's lock is held exactly by a thread that reads: a packet is never  *)
(* divided between two readers.                                             *)
TypeOK ==
  /\ pc \in [Askers -> {"ask", "lock", "read", "process", "copy",
                       "setPrimary", "setSecondary"}]
  /\ \A t \in Askers : pc[t] \in {"setPrimary", "setSecondary"} => t = "ipc"
  /\ target \in [Askers -> Controllers]
  /\ \A t \in Askers : count[t] \in 0..MaxQuestions[t]
  /\ mtx \in Askers \cup {"free"}
  /\ \A t \in Askers : pc[t] = "read" <=> mtx = t
  /\ pending \in [Controllers -> Seq(Commands)]
  /\ rx \in Seq(Packets) /\ losses \in 0..MaxLosses
  /\ got \in [Askers -> Replies]
  /\ late \in BOOLEAN
  /\ data \in Questions /\ data_mcconf \in Replies
  /\ profile \in Profiles /\ changes \in 0..MaxChanges
  /\ limits \in [Controllers -> AnyLimits]
  /\ spoiled \in BOOLEAN
  /\ stored \in [Askers -> [Controllers -> [answer : Questions,
                                            asked : Questions]]]

(* "Sends a command to VESC and stores the returned data ... True if        *)
(* successfull" (VescUart.h:126-128, 119-121, 147-157): what a caller       *)
(* stores after "true" answers the question it asked, of the controller it  *)
(* asked, and not an earlier one.                                           *)
AnswersTheQuestion ==
  \A t \in Askers, c \in Controllers : stored[t][c].answer = stored[t][c].asked

Alone == \A t \in Askers \ {"vesc"} : count[t] = 0

(* As long as only the vesc thread asks and no reply is late, that holds,   *)
(* whatever is lost or damaged: a lost reply does not shift the later ones. *)
AnswersWhenAlone == Alone /\ ~late => AnswersTheQuestion

(* Late replies put the vesc thread one or more answers behind, but as long *)
(* as it asks alone what it keeps of a controller never goes back in time:  *)
(* the distance of a trip is a difference of two such values                *)
(* (main.cpp:732-760).                                                      *)
TelemetryMovesForward ==
  [][Alone => \A t \in Askers, c \in Controllers :
       LET old == stored[t][c].answer
           new == stored'[t][c].answer
       IN  new.to = old.to => new.n >= old.n]_vars

(* The limits a controller has once it has handled what was sent to it: the *)
(* last ones under way, or those it has.                                    *)
SetsIn(s) == {i \in DOMAIN s : s[i] \notin Questions}
Leaves(s, own, l) ==
  IF SetsIn(s) = {} THEN own = l
  ELSE \E i \in SetsIn(s) : s[i].limits = l /\ \A j \in SetsIn(s) : j <= i
WillHave(c, l) == Leaves(pending[c], limits[c], l)

(* The controllers that the vesc thread sends currents to under a           *)
(* profile: both, or one alone, which the settings name for accelerating    *)
(* and for braking.  Without a second controller, braking is always the     *)
(* first one's.                                                             *)
Driving(p) ==
  IF p \in SingleMotor THEN FirstMotors \cup (IF DualVESC THEN {} ELSE {"primary"})
  ELSE IF DualVESC THEN Controllers ELSE {"primary"}

(* Under a profile for a single motor the limits go to the first controller *)
(* only, also when the second one is to drive: it keeps those it had.       *)
LeftOut(c, p) == c = "secondary" /\ p \in SingleMotor

(* Through questions, late and crossed replies and changes of profile, the  *)
(* controllers that drive get the limits of the current profile, halved     *)
(* exactly if there are two of them (main.cpp:304-333, 595-688): an answer  *)
(* stored in data_mcconf at any other time than between filling and sending *)
(* does not find its way back to a controller, and nothing that is sent     *)
(* later undoes them.  The one exception: a second controller that drives   *)
(* alone is left out.                                                       *)
LimitsFollowProfile ==
  ~spoiled /\ ~Sending =>
    \A c \in Driving(profile) :
      WillHave(c, Share(profile)) \/ LeftOut(c, profile)

(* Every question ends, answered or not, whatever is lost, damaged, late or *)
(* read by the other thread (VescUart.cpp:22-108).                          *)
EveryQuestionEnds == \A t \in Askers : (pc[t] # "ask") ~> (pc[t] = "ask")

=============================================================================
