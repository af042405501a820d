------------------------------ MODULE Display ------------------------------
(***************************************************************************)
(* The display's connection (frontend/client.cpp, frontend/main.cpp) and   *)
(* the command handler at its other end (TCP_Receive, backend/main.cpp).   *)
(* Three threads of the display share the socket and its flags without a   *)
(* lock: the user interface appends commands to toSendExtra and stops the  *)
(* connection, the comm thread writes batches of messages, the read thread *)
(* takes the replies and reconnects.                                       *)
(*                                                                         *)
(* The data is one setting of the backend that every poll asks for: the    *)
(* power profile, the regenerative braking or the drivetrain backlash.  A  *)
(* command sets it, and the display shows what it was told last.  (Notes   *)
(* and the values of a profile are asked for once in a conversation.)  The *)
(* messages of one poll are one token; so is each reply.  A connection is  *)
(* a lane: what the display wrote into a lane is still read by the backend *)
(* after the display has let go of it.                                     *)
(*                                                                         *)
(* The backend keeps the setting in a file, as SettingsFile models; here   *)
(* the file is the setting a later start reads.                            *)
(***************************************************************************)
EXTENDS Integers, FiniteSets, Sequences, SequencesExt

CONSTANTS
  MaxCommands,   \* bound: the commands given over IPC
  Lanes,         \* bound: connections that hold unread data at one time
  NoLane,        \* no connection: closed, or created and not yet connected
  MaxInFlight,   \* bound: messages the socket buffers hold before send blocks
  MaxReplies,    \* bound: replies they hold before the backend's send blocks
  MaxFailures    \* bound: failures of the network or of the backend

ASSUME BoundsAssumption ==
  /\ {MaxCommands, MaxInFlight, MaxReplies, MaxFailures} \subseteq Nat
  /\ NoLane \notin Lanes

VARIABLES
  mpc,           \* the user interface: running, or a step of its ending
  done,
  toSendExtra,   \* the commands waiting for the next batch
  pressed,       \* how many commands were given; they are numbered
  cpc,           \* the comm thread's next step
  toSend,        \* its batch
  sendOnce,      \* whether it has asked for what it asks once
  rpc,           \* the read thread's next step
  isConnected, isShutdown,
  successfulCommunication,
  shown,         \* the setting as the display shows it
  clientSocket,  \* the lane the display's descriptor stands for
  eof,           \* that lane: the backend closed it, or the display shut it down
  up,            \* the messages of each lane the backend has not handled
  down,          \* the replies the display has not read
  running,       \* the backend runs
  value,         \* the setting in the backend
  saved,         \* the setting in its settings file
  failures       \* how many failures are still to come

uiVars      == <<mpc, done, pressed>>
commVars    == <<cpc, toSend, sendOnce>>
flagVars    == <<isConnected, isShutdown>>
socketVars  == <<clientSocket, eof>>
backendVars == <<running, value, saved>>
vars == <<uiVars, toSendExtra, commVars, rpc, flagVars, shown, socketVars,
          successfulCommunication, up, down, backendVars, failures>>

Commands == 1..MaxCommands
Initial  == 0
Garbage  == MaxCommands + 1     \* what a cut command sets

Message(kind, c) == [kind |-> kind, c |-> c]
Hello == Message("hello", 0)
Command(c) == Message("set", c)
CommandsIn(s) == {m.c : m \in {n \in ToSet(s) : n.kind = "set" \/ n.kind = "cut"}} \ {0}

(* A failure uses up one of those to come; without one, the next step goes  *)
(* as it should.                                                            *)
Failure == failures > 0 /\ failures' = failures - 1
NoFailure == UNCHANGED failures

-----------------------------------------------------------------------------
(* The user interface *)

(* A button or a list: the display shows the choice at once. *)
Press ==
  /\ mpc = "ui" /\ pressed < MaxCommands
  /\ pressed' = pressed + 1
  /\ toSendExtra' = Append(toSendExtra, Command(pressed + 1))
  /\ shown' = pressed + 1
  /\ UNCHANGED <<mpc, done, commVars, rpc, flagVars, socketVars,
                 successfulCommunication, up, down, backendVars, failures>>

(* The end of the program: done = true, then IPC.stop(), which first takes  *)
(* isConnected down and shuts the socket down.                              *)
Stop ==
  /\ mpc = "ui" /\ mpc' = "flag"
  /\ done' = TRUE
  /\ isConnected' = FALSE
  /\ eof' = (clientSocket # NoLane)
  /\ UNCHANGED <<pressed, toSendExtra, commVars, rpc, isShutdown, shown,
                 clientSocket, successfulCommunication, up, down, backendVars, failures>>

(* Mutant: the flag that ends read() is not raised. *)
RaiseShutdown_Forgotten == UNCHANGED isShutdown
RaiseShutdown == isShutdown' = TRUE

(* Then the flag, and close; between the two steps the read thread may have *)
(* connected again.  After them the program joins the comm thread.          *)
StopFlag ==
  /\ mpc = "flag" /\ mpc' = "join"
  /\ RaiseShutdown
  /\ clientSocket' = NoLane /\ eof' = FALSE /\ down' = <<>>
  /\ UNCHANGED <<done, pressed, toSendExtra, commVars, rpc, isConnected,
                 shown, successfulCommunication, up, backendVars, failures>>

-----------------------------------------------------------------------------
(* createClientSocket: connect succeeds, with a backend that listens, or it *)
(* fails, and the caller holds a descriptor that nobody can talk through.   *)

Free == {l \in Lanes : up[l] = <<>>}
ConnectSucceeds ==
  /\ running /\ Free # {}
  /\ clientSocket' = CHOOSE l \in Free : TRUE   \* lanes are interchangeable
  /\ eof' = FALSE /\ down' = <<>>
  /\ isConnected' = TRUE
  /\ UNCHANGED failures

ConnectFails ==
  /\ IF running THEN Failure ELSE NoFailure
  /\ isConnected' = FALSE
  /\ UNCHANGED <<socketVars, down>>

createClientSocket == ConnectSucceeds \/ ConnectFails

-----------------------------------------------------------------------------
(* The comm thread *)

CreateFirst ==
  /\ cpc = "create" /\ cpc' = "loop"
  /\ rpc = "none" /\ rpc' = "recv"
  /\ createClientSocket
  /\ UNCHANGED <<uiVars, toSendExtra, toSend, sendOnce, isShutdown, shown,
                 successfulCommunication, up, backendVars>>

(* Mutant: a new connection does not repeat the questions asked once. *)
AskAgain_Never == UNCHANGED sendOnce
AskAgain == sendOnce' = FALSE

LoopBegins ==
  /\ cpc = "loop"
  /\ IF done THEN cpc' = "join" /\ UNCHANGED <<toSend, sendOnce>>
     ELSE IF successfulCommunication
     THEN cpc' = "check" /\ toSend' = <<>> /\ UNCHANGED sendOnce
     ELSE cpc' = "hello" /\ toSend' = <<Hello>> /\ AskAgain
  /\ UNCHANGED <<uiVars, toSendExtra, rpc, flagVars, shown,
                 socketVars, successfulCommunication, up, down, backendVars, failures>>

(* Mutants: the questions are asked twice; the commands are sent and kept.  *)
Batch_AsksTwice(questions) == toSend \o questions \o questions \o toSendExtra
TakeExtra_Keeps == toSendExtra' = toSendExtra

(* toSend still holds the ARE_YOU_ALIVE that was written before. *)
Batch(questions) == toSend \o questions \o toSendExtra
TakeExtra == toSendExtra' = <<>>

(* The second look at the flag.  With the ping, due every 750 ms, go the    *)
(* questions asked once.                                                    *)
Compose(pingDue) ==
  LET ask == pingDue /\ ~sendOnce
  IN  /\ cpc = "check" /\ successfulCommunication
      /\ cpc' = "poll"
      /\ sendOnce' = (sendOnce \/ ask)
      /\ toSend' = Batch(<<Message(IF ask THEN "names" ELSE "poll", 0)>>)
      /\ TakeExtra
      /\ UNCHANGED <<uiVars, rpc, flagVars, shown, socketVars,
                     successfulCommunication, up, down, backendVars, failures>>

NotYet ==
  /\ cpc = "check" /\ ~successfulCommunication
  /\ cpc' = "loop" /\ toSend' = <<>>
  /\ UNCHANGED <<uiVars, toSendExtra, sendOnce, rpc, flagVars, shown,
                 socketVars, successfulCommunication, up, down, backendVars, failures>>

(* No whole message is left to be handled. *)
Stuck(s) == s = <<>> \/ (Len(s) = 1 /\ s[1].kind = "cut")

AfterWrite == IF cpc = "hello" THEN "check" ELSE "loop"
Written == toSend' = IF cpc = "hello" THEN toSend ELSE <<>>
Usable == clientSocket # NoLane /\ ~eof
Onto(l, s) == up' = [up EXCEPT ![l] = @ \o s]
Fits(s) == \/ Stuck(up[clientSocket])
           \/ Len(up[clientSocket]) + Len(s) <= MaxInFlight

(* The beginning of a batch up to the middle of a message. *)
CutWithin(i) == Append(SubSeq(toSend, 1, i - 1), Message("cut", toSend[i].c))

(* ClientSocket::write: wait, and one send.  It blocks while the buffers    *)
(* are full; when it gives up after 30 seconds, the part it has sent counts *)
(* as all.  On an ended connection the kernel may still take the first one. *)
Sent ==
  \/ /\ Usable /\ Fits(toSend)
     /\ Onto(clientSocket, toSend) /\ NoFailure
  \/ /\ Usable /\ ~Fits(toSend) /\ Failure
     /\ \E i \in 1..Len(toSend) :
          \/ i > 1 /\ Onto(clientSocket, SubSeq(toSend, 1, i - 1))
          \/ Onto(clientSocket, CutWithin(i))
  \/ /\ clientSocket # NoLane /\ eof
     /\ UNCHANGED up /\ NoFailure

Write ==
  /\ cpc \in {"hello", "poll"} /\ (isConnected \/ isShutdown)
  /\ Sent
  /\ cpc' = AfterWrite /\ Written
  /\ UNCHANGED <<uiVars, toSendExtra, sendOnce, rpc, flagVars, shown,
                 socketVars, successfulCommunication, down, backendVars>>

(* Mutant: what was not sent is queued again, behind newer commands. *)
Unsent_Queued == toSendExtra' = toSendExtra \o SelectSeq(toSend, LAMBDA m : m.c > 0)
Unsent == UNCHANGED toSendExtra

WriteFails ==
  /\ cpc \in {"hello", "poll"} /\ (isConnected \/ isShutdown)
  /\ IF Usable THEN Failure ELSE NoFailure
  /\ cpc' = IF cpc = "hello" THEN "failedHello" ELSE "failed"
  /\ Written
  /\ Unsent
  /\ UNCHANGED <<uiVars, sendOnce, rpc, flagVars, shown,
                 socketVars, successfulCommunication, up, down, backendVars>>

(* By now the read thread may have connected again. *)
Disconnected ==
  /\ cpc \in {"failedHello", "failed"}
  /\ cpc' = IF cpc = "failedHello" THEN "check" ELSE "loop"
  /\ isConnected' = FALSE
  /\ UNCHANGED <<uiVars, toSendExtra, toSend, sendOnce, rpc, isShutdown, shown,
                 socketVars, successfulCommunication, up, down, backendVars, failures>>

CommEnds ==
  /\ cpc = "join" /\ rpc = "ended" /\ cpc' = "ended"
  /\ UNCHANGED <<uiVars, toSendExtra, toSend, sendOnce, rpc, flagVars, shown,
                 socketVars, successfulCommunication, up, down, backendVars, failures>>

-----------------------------------------------------------------------------
(* The read thread *)

WhileNotDone == rpc' = IF done THEN "ended" ELSE "recv"

(* processRead: nothing is believed before the backend has said it is alive. *)
Receive ==
  /\ rpc = "recv" /\ clientSocket # NoLane /\ down # <<>>
  /\ down' = Tail(down)
  /\ LET reply == Head(down)
         believed == successfulCommunication \/ reply.kind = "hello"
     IN  /\ successfulCommunication' = believed
         /\ shown' = IF believed /\ reply.kind # "hello" THEN reply.c ELSE shown
  /\ WhileNotDone
  /\ UNCHANGED <<uiVars, toSendExtra, commVars, flagVars, socketVars, up, backendVars, failures>>

(* recv returns 0: isConnected stays as it is. *)
PeerClosed ==
  /\ rpc = "recv" /\ clientSocket # NoLane /\ down = <<>> /\ eof
  /\ clientSocket' = NoLane /\ eof' = FALSE
  /\ successfulCommunication' = FALSE
  /\ WhileNotDone
  /\ UNCHANGED <<uiVars, toSendExtra, commVars, flagVars, shown, up, down,
                 backendVars, failures>>

(* Nothing is under way and nothing will be: only the timeout of recv, 30   *)
(* seconds, ends the wait.  Until then the comm thread is expected to write. *)
Quiet ==
  /\ Usable /\ down = <<>> /\ Stuck(up[clientSocket])
  /\ \/ cpc \in {"hello", "poll"} /\ ~isConnected
     \/ cpc \in {"join", "ended"}

(* The backend closed the connection with something still unread in it.     *)
Reset == clientSocket # NoLane /\ eof /\ down = <<>> /\ ~done

(* Mutant: recv has no timeout. *)
RecvFails_NoTimeout ==
  \/ (clientSocket = NoLane \/ Reset) /\ NoFailure
  \/ clientSocket # NoLane /\ Failure

RecvFails ==
  \/ (clientSocket = NoLane \/ Quiet \/ Reset) /\ NoFailure
  \/ clientSocket # NoLane /\ Failure

Reconnect ==
  /\ rpc = "recv" /\ RecvFails /\ ~isShutdown
  /\ rpc' = "create"
  /\ clientSocket' = NoLane /\ eof' = FALSE /\ down' = <<>>
  /\ UNCHANGED <<uiVars, toSendExtra, commVars, flagVars, shown,
                 successfulCommunication, up, backendVars>>

ReadEnds ==
  /\ rpc = "recv" /\ RecvFails /\ isShutdown
  /\ successfulCommunication' = FALSE
  /\ WhileNotDone
  /\ UNCHANGED <<uiVars, toSendExtra, commVars, flagVars, shown, socketVars,
                 up, down, backendVars>>

CreateAgain ==
  /\ rpc = "create" /\ rpc' = "recv"
  /\ createClientSocket
  /\ UNCHANGED <<uiVars, toSendExtra, commVars, isShutdown, shown,
                 successfulCommunication, up, backendVars>>

-----------------------------------------------------------------------------
(* The backend: one receiver thread per lane, each message under the lock   *)

Answer(l, kind) ==
  IF l = clientSocket /\ ~eof
  THEN /\ Len(down) < MaxReplies
       /\ down' = Append(down, Message(kind, value))
  ELSE UNCHANGED down

IsKind(l, kinds) == up[l] # <<>> /\ Head(up[l]).kind \in kinds
Handled(l, s) == up' = [up EXCEPT ![l] = s]

(* TCP_Receive: a whole command is carried out, ...                         *)
HandleSet(l) ==
  /\ IsKind(l, {"set"}) /\ Handled(l, Tail(up[l]))
  /\ value' = Head(up[l]).c
  /\ UNCHANGED <<down, running, eof>>

(* ... a whole question is answered.                                        *)
HandleQuestion(l) ==
  /\ IsKind(l, {"hello", "poll", "names"}) /\ Handled(l, Tail(up[l]))
  /\ Answer(l, Head(up[l]).kind)
  /\ UNCHANGED <<value, running, eof>>

(* A cut message has no end of its own: it swallows the next one up to its  *)
(* end.  The first message of a poll is not the one that asks for the       *)
(* setting.                                                                 *)
Swallow(s) == IF s[2].kind \in {"poll", "names"} THEN Tail(s) ELSE Tail(Tail(s))

(* Of the two together the number of the command may be none, the value may *)
(* be the one that was pressed or another, and a question may be answered.  *)
HandleCut(l) ==
  /\ IsKind(l, {"cut"}) /\ Len(up[l]) > 1 /\ Handled(l, Swallow(up[l]))
  /\ IF Head(up[l]).c > 0
     THEN value' \in {value, Head(up[l]).c, Garbage} /\ UNCHANGED down
     ELSE /\ UNCHANGED value
          /\ UNCHANGED down \/ \E kind \in {"hello", "poll"} : Answer(l, kind)
  /\ UNCHANGED <<running, eof>>

(* The process is gone, and with it its ends of all connections.            *)
Ends ==
  /\ running' = FALSE
  /\ up' = [l \in Lanes |-> <<>>]
  /\ eof' = (clientSocket # NoLane)
  /\ UNCHANGED <<value, down>>

(* No profile has the number that a cut command and the next message make   *)
(* together, and no one catches what map::at throws.                        *)
CutEndsBackend(l) ==
  /\ IsKind(l, {"cut"}) /\ Len(up[l]) > 1
  /\ Head(up[l]).c > 0
  /\ Ends

Handle(l) ==
  /\ HandleSet(l) \/ HandleQuestion(l) \/ HandleCut(l) \/ CutEndsBackend(l)
  /\ UNCHANGED <<uiVars, toSendExtra, commVars, rpc, flagVars, shown,
                 clientSocket, successfulCommunication, saved, failures>>

(* What is left of a lane is given up: a reset, or the end of a lane that   *)
(* the display has closed and that holds no whole message any more.         *)
LaneEnds(l) ==
  /\ up[l] # <<>>
  /\ l # clientSocket \/ eof
  /\ IF Stuck(up[l]) THEN NoFailure ELSE Failure
  /\ up' = [up EXCEPT ![l] = <<>>]
  /\ UNCHANGED <<uiVars, toSendExtra, commVars, rpc, flagVars, shown,
                 socketVars, successfulCommunication, down, backendVars>>

(* The backend drops the connection.                                        *)
BackendCloses ==
  /\ Usable /\ Failure
  /\ eof' = TRUE
  /\ up' = [up EXCEPT ![clientSocket] = <<>>]
  /\ UNCHANGED <<uiVars, toSendExtra, commVars, rpc, flagVars, shown,
                 clientSocket, successfulCommunication, down, backendVars>>

(* By SAVE_PREFERENCES or by the main loop. *)
TOMLSave ==
  /\ running /\ saved' = value
  /\ UNCHANGED <<uiVars, toSendExtra, commVars, rpc, flagVars, shown, socketVars,
                 successfulCommunication, up, down, running, value, failures>>

BackendEnds ==
  /\ running /\ Failure /\ Ends
  /\ UNCHANGED <<uiVars, toSendExtra, commVars, rpc, flagVars, shown,
                 clientSocket, successfulCommunication, saved>>

(* The backend starts and reads the setting; a missing entry reads as zero: *)
(* the file may have been emptied and not written.                          *)
setupTOML ==
  /\ ~running /\ running' = TRUE
  /\ value' \in {saved, Initial}
  /\ UNCHANGED <<uiVars, toSendExtra, commVars, rpc, flagVars, shown, socketVars,
                 successfulCommunication, up, down, saved, failures>>

-----------------------------------------------------------------------------

Init ==
  /\ mpc = "ui" /\ done = FALSE /\ pressed = 0
  /\ toSendExtra = <<>>
  /\ cpc = "create" /\ toSend = <<>> /\ sendOnce = FALSE
  /\ rpc = "none"
  /\ isConnected = FALSE /\ isShutdown = FALSE
  /\ successfulCommunication = FALSE
  /\ shown = Initial
  /\ clientSocket = NoLane /\ eof = FALSE
  /\ up = [l \in Lanes |-> <<>>] /\ down = <<>>
  /\ running = TRUE /\ value = Initial /\ saved = Initial
  /\ failures = MaxFailures

CommThread == \/ CreateFirst \/ LoopBegins \/ NotYet
              \/ \E pingDue \in BOOLEAN : Compose(pingDue)
              \/ Write \/ WriteFails \/ Disconnected \/ CommEnds
ReadThread == Receive \/ PeerClosed \/ Reconnect \/ ReadEnds \/ CreateAgain
Backend(l) == Handle(l) \/ LaneEnds(l)

Next ==
  \/ Press \/ Stop \/ StopFlag
  \/ CommThread \/ ReadThread
  \/ \E l \in Lanes : Backend(l)
  \/ BackendCloses \/ BackendEnds \/ TOMLSave \/ setupTOML

Spec == Init /\ [][Next]_vars

(* Every thread is scheduled; time passes, so the ping falls due now and    *)
(* then and recv times out.  Nobody has to start the backend again.         *)
FairSpec ==
  /\ Spec
  /\ WF_vars(StopFlag) /\ WF_vars(CommThread) /\ WF_vars(ReadThread)
  /\ SF_vars(Compose(TRUE))
  /\ \A l \in Lanes : WF_vars(Backend(l))

-----------------------------------------------------------------------------
(* Properties *)

Kinds == {"hello", "poll", "names", "set", "cut"}
Messages == [kind : Kinds, c : 0..MaxCommands]

(* Every variable has the type of the variable it stands for; only commands *)
(* wait in toSendExtra, and a batch holds at most one poll.                 *)
TypeOK ==
  /\ mpc \in {"ui", "flag", "join"}
  /\ done <=> mpc # "ui"
  /\ pressed \in 0..MaxCommands
  /\ \A m \in ToSet(toSendExtra) : m \in Messages /\ m.kind = "set"
  /\ cpc \in {"create", "loop", "hello", "failedHello", "check", "poll",
              "failed", "join", "ended"}
  /\ ToSet(toSend) \subseteq Messages
  /\ Cardinality({i \in DOMAIN toSend : toSend[i].kind \in {"poll", "names"}}) <= 1
  /\ {sendOnce, isConnected, isShutdown, successfulCommunication, eof}
       \subseteq BOOLEAN
  /\ rpc \in {"none", "recv", "create", "ended"}
  /\ clientSocket \in Lanes \cup {NoLane}
  /\ running \in BOOLEAN /\ {shown, value, saved} \subseteq 0..Garbage
  /\ \A l \in Lanes : ToSet(up[l]) \subseteq Messages
  /\ Len(down) <= MaxReplies
  /\ failures \in 0..MaxFailures

InFlight == CommandsIn(toSendExtra) \cup CommandsIn(toSend)
              \cup UNION {CommandsIn(up[l]) : l \in Lanes}

Channel == INSTANCE CommandChannel
             WITH pending <- InFlight, settled <- (1..pressed) \ InFlight

(* Over toSendExtra, the batch and the lanes of this connection and the     *)
(* ones before it, each command is carried out at most once, spoiled or     *)
(* lost: TOGGLE_CHARGING_STATE toggles once (main.cpp:720, client.cpp:120). *)
ImplementsChannel == Channel!Spec

(* Two commands that travel over the same connection arrive in the order in *)
(* which they were pressed, and whatever is left in an older connection was *)
(* pressed before everything that still waits (main.cpp:1573-1578).         *)
Pressed(s) == [i \in DOMAIN s |-> s[i].c]
InOrder(s) == \A i, j \in DOMAIN s : i < j /\ s[i] > 0 /\ s[j] > 0 => s[i] < s[j]
OrderPerConnection ==
  \A l \in Lanes : InOrder(Pressed(up[l] \o toSend \o toSendExtra))

(* When the failures end, the display finds the backend again, whatever     *)
(* state its flags were left in, and from some moment on it shows what the  *)
(* backend has, also if a command was lost, or cut, or cut so that the      *)
(* backend ended of it, provided that someone starts it again               *)
(* (client.cpp:95-132).                                                     *)
Converges ==
  []~done /\ []<>running => <>[](successfulCommunication /\ shown = value)

(* Whenever a conversation has broken off, the questions asked once are     *)
(* asked again (whole, or cut on the way), although the flag is looked at   *)
(* twice and set in between: an ARE_YOU_ALIVE left over in toSend can revive *)
(* the conversation on a new connection before the comm thread notices that *)
(* it had ended (frontend/main.cpp:1523-1559).  A reply under way that will *)
(* revive it is set apart: if its connection breaks off behind it, the      *)
(* questions may be lost with what was unread, and the conversation goes on.*)
BrokenOff == ~successfulCommunication /\ \A m \in ToSet(down) : m.kind # "hello"
Asking == \E m \in ToSet(toSend) \cup ToSet(down) \cup UNION {ToSet(up[l]) : l \in Lanes} :
            m.kind \in {"names", "cut"}
QuestionsAskedAgain == []~done /\ []<>running => (BrokenOff ~> Asking)

(* Told to end, the display ends: neither a write that waits for a          *)
(* connection nor a read thread that is just connecting again holds it back *)
(* (frontend/main.cpp:1836-1838, client.cpp:136-141).                       *)
StopEnds == done ~> cpc = "ended"

=============================================================================
