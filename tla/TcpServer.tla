----------------------------- MODULE TcpServer -----------------------------
(***************************************************************************)
(* TcpServer (backend/server.hpp, server.cpp) and the thread that owns it, *)
(* setupIPC (backend/main.cpp): an acceptor thread takes connections of    *)
(* displays, one receiver thread per connection cuts the byte stream into  *)
(* messages and sends back the replies, and when the backend is told to    *)
(* end, the owner stops the server and joins every thread while they run.  *)
(*                                                                         *)
(* A connection stands for its socket, its Client object and its receiver. *)
(* Bytes are told apart as far as the framing does: what a display writes  *)
(* is the numbers 1, 2, 3, ..., the text of a message odd, the last byte   *)
(* of its end mark even.  Where the code uses client->fd the model uses    *)
(* the connection; invariant DescriptorsOwned is what justifies it.        *)
(***************************************************************************)
EXTENDS Integers, Sequences, FiniteSets

CONSTANTS
  Connections,   \* the connections the displays may make
  NoConnection,
  MaxFds,        \* the file descriptors the process has left for them
  MaxMessages    \* bounds on the messages written on each connection

ASSUME NoConnectionAssumption == NoConnection \notin Connections
ASSUME FdsAssumption == MaxFds \in Nat \ {0}
ASSUME MessagesAssumption == MaxMessages \in [Connections -> Nat]

Fds == 1..MaxFds

VARIABLES
  done,             \* the flag of the signal handler
  running,          \* running_
  listening,        \* listener_ >= 0, and the socket behind it open
  owner,            \* the next step of setupIPC
  sender,           \* TCP_Send, the thread that reads the console
  acceptor,         \* the next step of serve
  accepted,         \* serve's local client
  next_id,          \* next_id_
  clients,          \* clients_
  receivers,        \* receivers_, and after the swap those still to be joined
  missed,           \* history: the client stop() came too early for
  id, fd,           \* the fields of each Client
  fdTable,          \* the connection behind each descriptor of the process
  rpc,              \* the next step of each receive_loop
  destination,      \* send_to's local destination, NoConnection outside
  received_buffer,
  handled,          \* history: the bytes given to on_message
  shut, shutWrite,  \* connections after SHUT_RDWR, after SHUT_WR
  peer,             \* what the display does with its end
  wire,             \* written by the display, not yet received
  answered          \* the connections whose requests were answered on each one

serverVars == <<running, listening, next_id, clients, receivers, missed>>
ownerVars  == <<done, owner, sender>>
acceptVars == <<acceptor, accepted>>
clientVars == <<id, fd>>
loopVars   == <<rpc, destination, received_buffer, handled>>
socketVars == <<shut, shutWrite>>
peerVars   == <<peer, wire, answered>>
vars == <<serverVars, ownerVars, acceptVars, clientVars, fdTable, loopVars,
          socketVars, peerVars>>

-----------------------------------------------------------------------------
(* The life of a Client: it is held by shared pointers in clients_, in the *)
(* acceptor, in its receiver and in a send; the last one closes the socket. *)

Receiving == {"recv", "handle", "send", "shutdown", "remove"}

Held(c) == \/ c \in clients
           \/ c = accepted
           \/ rpc[c] \in Receiving
           \/ \E d \in Connections : destination[d] = c

DropClients ==
  fdTable' = [f \in Fds |->
                IF \E c \in Connections : c = fdTable[f] /\ Held(c)'
                THEN fdTable[f] ELSE NoConnection]

FreeFds == {f \in Fds : fdTable[f] = NoConnection}
LowestFd == CHOOSE f \in FreeFds : \A g \in FreeFds : f <= g

ClosedByServer(c) == rpc[c] = "ended" \/ (fd[c] # 0 /\ fdTable[fd[c]] # c)
Gone(c) == peer[c] = "closed" \/ c \in shut \/ ClosedByServer(c)

-----------------------------------------------------------------------------
(* serve *)

TestRunning ==
  /\ acceptor = "test"
  /\ acceptor' = IF running THEN "accept" ELSE "returned"
  /\ UNCHANGED <<serverVars, ownerVars, accepted, clientVars, fdTable, loopVars,
                 socketVars, peerVars>>

(* Mutant: every client gets the same number. *)
Accept_SameId(c) ==
  /\ acceptor = "accept"
  /\ listening
  /\ peer[c] = "backlog" /\ FreeFds # {}
  /\ peer' = [peer EXCEPT ![c] = "open"]
  /\ fd' = [fd EXCEPT ![c] = LowestFd]
  /\ fdTable' = [fdTable EXCEPT ![LowestFd] = c]
  /\ id' = [id EXCEPT ![c] = next_id]
  /\ accepted' = c
  /\ acceptor' = "push"
  /\ UNCHANGED <<serverVars, ownerVars, loopVars, socketVars, wire, answered>>

(* A Client is made of a connection that waited in the backlog. *)
Accept(c) ==
  /\ acceptor = "accept"
  /\ listening
  /\ peer[c] = "backlog" /\ FreeFds # {}
  /\ peer' = [peer EXCEPT ![c] = "open"]
  /\ fd' = [fd EXCEPT ![c] = LowestFd]
  /\ fdTable' = [fdTable EXCEPT ![LowestFd] = c]
  /\ id' = [id EXCEPT ![c] = next_id]
  /\ next_id' = next_id + 1
  /\ accepted' = c
  /\ acceptor' = "push"
  /\ UNCHANGED <<running, listening, clients, receivers, missed, ownerVars,
                 loopVars, socketVars, wire, answered>>

(* The socket cannot be made non-blocking: it is closed again. *)
AcceptInVain(c) ==
  /\ acceptor = "accept"
  /\ listening
  /\ peer[c] = "backlog" /\ FreeFds # {}
  /\ peer' = [peer EXCEPT ![c] = "open"]
  /\ shut' = shut \cup {c}
  /\ acceptor' = "test"
  /\ UNCHANGED <<serverVars, ownerVars, accepted, clientVars, fdTable, loopVars,
                 shutWrite, wire, answered>>

(* accept fails for good: the listener is closed, or no descriptor is left; *)
(* in the second case the server runs on and takes no more connections.     *)
AcceptFails ==
  /\ acceptor = "accept"
  /\ ~listening \/ FreeFds = {}
  /\ acceptor' = "returned"
  /\ UNCHANGED <<serverVars, ownerVars, accepted, clientVars, fdTable, loopVars,
                 socketVars, peerVars>>

PushClient ==
  /\ acceptor = "push"
  /\ clients' = clients \cup {accepted}
  /\ acceptor' = "spawn"
  /\ UNCHANGED <<running, listening, next_id, receivers, missed, ownerVars,
                 accepted, clientVars, fdTable, loopVars, socketVars, peerVars>>

SpawnReceiver ==
  /\ acceptor = "spawn"
  /\ rpc' = [rpc EXCEPT ![accepted] = "recv"]
  /\ receivers' = receivers \cup {accepted}
  /\ acceptor' = "drop"
  /\ UNCHANGED <<running, listening, next_id, clients, missed, ownerVars,
                 accepted, clientVars, fdTable, destination, received_buffer,
                 handled, socketVars, peerVars>>

(* The thread cannot be created: the client is taken out again. *)
SpawnFails ==
  /\ acceptor = "spawn"
  /\ clients' = clients \ {accepted}
  /\ acceptor' = "drop"
  /\ UNCHANGED <<running, listening, next_id, receivers, missed, ownerVars,
                 accepted, clientVars, fdTable, loopVars, socketVars, peerVars>>

(* The end of the loop body, where its shared pointer goes. *)
EndOfIteration ==
  /\ acceptor = "drop"
  /\ accepted' = NoConnection
  /\ acceptor' = "test"
  /\ UNCHANGED <<serverVars, ownerVars, clientVars, loopVars, socketVars, peerVars>>
  /\ DropClients

Acceptor == \/ TestRunning \/ AcceptFails \/ PushClient \/ EndOfIteration
            \/ SpawnReceiver \/ SpawnFails
            \/ \E c \in Connections : Accept(c) \/ AcceptInVain(c)

-----------------------------------------------------------------------------
(* receive_loop, one thread per connection *)

EndMarks(bytes) == {i \in DOMAIN bytes : bytes[i] % 2 = 0}

(* Mutant: an end mark counts only when something follows it. *)
Consumed_NotAtEnd(bytes) ==
  LET marks == EndMarks(bytes) \ {Len(bytes)}
  IN  IF marks = {} THEN 0 ELSE CHOOSE i \in marks : \A j \in marks : j <= i

Consumed(bytes) ==
  IF EndMarks(bytes) = {} THEN 0
  ELSE CHOOSE i \in EndMarks(bytes) : \A j \in EndMarks(bytes) : j <= i

(* Mutant: the start of the next message is thrown away. *)
Recv_ClearsBuffer(c) ==
  /\ rpc[c] = "recv"
  /\ \E n \in 1..Len(wire[c]) :
       LET got  == received_buffer[c] \o SubSeq(wire[c], 1, n)
           used == Consumed(got)
       IN  /\ wire' = [wire EXCEPT ![c] = SubSeq(@, n + 1, Len(@))]
           /\ received_buffer' = [received_buffer EXCEPT ![c] =
                                    IF used > 0 THEN <<>> ELSE got]
           /\ handled' = [handled EXCEPT ![c] = @ \o SubSeq(got, 1, used)]
           /\ rpc' = [rpc EXCEPT ![c] = IF used > 0 THEN "handle" ELSE "recv"]
  /\ UNCHANGED <<serverVars, ownerVars, acceptVars, clientVars, fdTable,
                 destination, socketVars, peer, answered>>

(* recv returns some bytes; up to the last end mark they go to on_message. *)
Recv(c) ==
  /\ rpc[c] = "recv"
  /\ \E n \in 1..Len(wire[c]) :
       LET got  == received_buffer[c] \o SubSeq(wire[c], 1, n)
           used == Consumed(got)
       IN  /\ wire' = [wire EXCEPT ![c] = SubSeq(@, n + 1, Len(@))]
           /\ received_buffer' = [received_buffer EXCEPT ![c] =
                                    SubSeq(got, used + 1, Len(got))]
           /\ handled' = [handled EXCEPT ![c] = @ \o SubSeq(got, 1, used)]
           /\ rpc' = [rpc EXCEPT ![c] = IF used > 0 THEN "handle" ELSE "recv"]
  /\ UNCHANGED <<serverVars, ownerVars, acceptVars, clientVars, fdTable,
                 destination, socketVars, peer, answered>>

(* End of stream, or an error that leaves received data behind. *)
RecvEnds(c) ==
  /\ rpc[c] = "recv"
  /\ peer[c] = "closed" \/ (c \in shut /\ wire[c] = <<>>)
  /\ rpc' = [rpc EXCEPT ![c] = "shutdown"]
  /\ UNCHANGED <<serverVars, ownerVars, acceptVars, clientVars, fdTable,
                 destination, received_buffer, handled, socketVars, peerVars>>

(* TCP_Receive has built the reply; send_to looks for the client by number. *)
SendTo(c) ==
  /\ rpc[c] = "handle"
  /\ IF \E d \in clients : id[d] = id[c]
     THEN /\ \E d \in clients :
               /\ id[d] = id[c]
               /\ destination' = [destination EXCEPT ![c] = d]
          /\ rpc' = [rpc EXCEPT ![c] = "send"]
     ELSE /\ rpc' = [rpc EXCEPT ![c] = "recv"]
          /\ UNCHANGED destination
  /\ UNCHANGED <<serverVars, ownerVars, acceptVars, clientVars, fdTable,
                 received_buffer, handled, socketVars, peerVars>>

(* Mutant: the send does not give its client back. *)
EndSend_KeepsClient(c) ==
  /\ rpc[c] = "send"
  /\ rpc' = [rpc EXCEPT ![c] = "recv"]
  /\ UNCHANGED <<serverVars, ownerVars, acceptVars, clientVars, destination,
                 received_buffer, handled, shutWrite, peer, wire>>

EndSend(c) ==
  /\ rpc[c] = "send"
  /\ rpc' = [rpc EXCEPT ![c] = "recv"]
  /\ destination' = [destination EXCEPT ![c] = NoConnection]
  /\ UNCHANGED <<serverVars, ownerVars, acceptVars, clientVars, received_buffer,
                 handled, shutWrite, peer, wire>>

SendArrives(c) ==
  /\ EndSend(c)
  /\ peer[destination[c]] = "open"
  /\ destination[c] \notin shut \cup shutWrite
  /\ answered' = [answered EXCEPT ![destination[c]] = @ \cup {c}]
  /\ UNCHANGED shut
  /\ DropClients

(* The peer is gone, the socket was shut down, or the display does not read *)
(* and the deadline has passed.                                             *)
SendFails(c) ==
  /\ EndSend(c)
  /\ shut' = shut \cup {destination[c]}
  /\ UNCHANGED answered
  /\ DropClients

(* Mutant: the receiver closes the descriptor before it leaves the list. *)
ShutdownOwn_Closes(c) ==
  /\ rpc[c] = "shutdown"
  /\ fdTable' = [fdTable EXCEPT ![fd[c]] = NoConnection]
  /\ rpc' = [rpc EXCEPT ![c] = "remove"]
  /\ UNCHANGED <<serverVars, ownerVars, acceptVars, clientVars, destination,
                 received_buffer, handled, socketVars, peerVars>>

ShutdownOwn(c) ==
  /\ rpc[c] = "shutdown"
  /\ shut' = shut \cup {c}
  /\ rpc' = [rpc EXCEPT ![c] = "remove"]
  /\ UNCHANGED <<serverVars, ownerVars, acceptVars, clientVars, fdTable,
                 destination, received_buffer, handled, shutWrite, peerVars>>

Remove(c) ==
  /\ rpc[c] = "remove"
  /\ clients' = clients \ {c}
  /\ rpc' = [rpc EXCEPT ![c] = "ended"]
  /\ UNCHANGED <<running, listening, next_id, receivers, missed, ownerVars,
                 acceptVars, clientVars, destination, received_buffer, handled,
                 socketVars, peerVars>>
  /\ DropClients

Receiver(c) == \/ Recv(c) \/ RecvEnds(c) \/ SendTo(c)
               \/ SendArrives(c) \/ SendFails(c)
               \/ ShutdownOwn(c) \/ Remove(c)

-----------------------------------------------------------------------------
(* setupIPC and TCP_Send *)

UnchangedByOwner == UNCHANGED <<next_id, acceptor, accepted, clientVars, loopVars,
                                peerVars>>

StartThreads ==
  /\ owner = "ready"
  /\ IF listening
     THEN /\ owner' = "joinSender"
          /\ sender' = "poll"
          /\ acceptor' = "test"
     ELSE /\ owner' = "returned"
          /\ UNCHANGED <<sender, acceptor>>
  /\ UNCHANGED <<serverVars, done, accepted, clientVars, fdTable, loopVars,
                 socketVars, peerVars>>

(* TCP_Send reads the console until the backend ends: shutdown_writes. *)
SenderEnds ==
  /\ sender = "poll" /\ done
  /\ shutWrite' = shutWrite \cup clients
  /\ sender' = "ended"
  /\ UNCHANGED <<serverVars, done, owner, fdTable, shut>>
  /\ UnchangedByOwner

OwnerMoves(from, to) == owner = from /\ owner' = to /\ UNCHANGED <<done, sender>>

(* stop(), in the order of its three statements *)
StopRunning ==
  /\ OwnerMoves("joinSender", "closeListener")
  /\ sender = "ended"
  /\ running' = FALSE
  /\ UNCHANGED <<listening, clients, receivers, missed, fdTable, socketVars>>
  /\ UnchangedByOwner

CloseListener ==
  /\ OwnerMoves("closeListener", "shutdownClients")
  /\ listening' = FALSE
  /\ UNCHANGED <<running, clients, receivers, missed, fdTable, socketVars>>
  /\ UnchangedByOwner

(* Mutant: stop() leaves the connections alone. *)
ShutdownClients_Forgotten ==
  /\ OwnerMoves("shutdownClients", "joinAcceptor")
  /\ missed' = IF acceptor = "push" THEN {accepted} ELSE {}
  /\ UNCHANGED <<running, listening, clients, receivers, fdTable, socketVars>>
  /\ UnchangedByOwner

ShutdownClients ==
  /\ OwnerMoves("shutdownClients", "joinAcceptor")
  /\ shut' = shut \cup clients
  /\ missed' = IF acceptor = "push" THEN {accepted} ELSE {}
  /\ UNCHANGED <<running, listening, clients, receivers, fdTable, shutWrite>>
  /\ UnchangedByOwner

JoinAcceptor ==
  /\ OwnerMoves("joinAcceptor", "joinReceivers")
  /\ acceptor = "returned"
  /\ UNCHANGED <<running, listening, clients, receivers, missed, fdTable,
                 socketVars>>
  /\ UnchangedByOwner

(* ~TcpServer: wait_for_receivers, then clients_ is destroyed. *)
JoinReceiver(c) ==
  /\ OwnerMoves("joinReceivers", "joinReceivers")
  /\ c \in receivers /\ rpc[c] = "ended"
  /\ receivers' = receivers \ {c}
  /\ UNCHANGED <<running, listening, clients, missed, fdTable, socketVars>>
  /\ UnchangedByOwner

(* Mutant: the destructor does not wait for the receivers. *)
Destroy_WithoutWaiting ==
  /\ OwnerMoves("joinReceivers", "returned")
  /\ clients' = {}
  /\ UNCHANGED <<running, listening, receivers, missed, socketVars>>
  /\ UnchangedByOwner
  /\ DropClients

Destroy ==
  /\ OwnerMoves("joinReceivers", "returned")
  /\ receivers = {}
  /\ clients' = {}
  /\ UNCHANGED <<running, listening, receivers, missed, socketVars>>
  /\ UnchangedByOwner
  /\ DropClients

Owner == \/ StartThreads \/ StopRunning \/ CloseListener \/ ShutdownClients
         \/ JoinAcceptor \/ Destroy
         \/ \E c \in Connections : JoinReceiver(c)

-----------------------------------------------------------------------------
(* The signal handler and the displays *)

UnchangedServer == UNCHANGED <<serverVars, owner, sender, acceptVars, clientVars,
                               fdTable, loopVars, socketVars>>

Interrupt ==
  /\ done' = TRUE
  /\ UnchangedServer /\ UNCHANGED peerVars

Moves(c, from, to) ==
  /\ peer[c] \in from
  /\ peer' = [peer EXCEPT ![c] = to]
  /\ UnchangedServer /\ UNCHANGED <<done, wire, answered>>

Connect(c) == listening /\ Moves(c, {"absent"}, "backlog")
Close(c)   == Moves(c, {"backlog", "open"}, "closed")

Stream(c) == handled[c] \o received_buffer[c] \o wire[c]
Written(c) == Len(Stream(c))

Write(c) ==
  /\ peer[c] \in {"backlog", "open"} /\ c \notin shut
  /\ Written(c) < 2 * MaxMessages[c]
  /\ wire' = [wire EXCEPT ![c] = Append(@, Written(c) + 1)]
  /\ UnchangedServer /\ UNCHANGED <<done, peer, answered>>

Display(c) == Connect(c) \/ Close(c) \/ Write(c)

-----------------------------------------------------------------------------

Init ==
  /\ done = FALSE
  /\ listening \in BOOLEAN /\ running = listening
  /\ owner = "ready" /\ sender = "none" /\ acceptor = "none"
  /\ accepted = NoConnection /\ next_id = 1
  /\ clients = {} /\ receivers = {} /\ missed = {}
  /\ id = [c \in Connections |-> 0] /\ fd = [c \in Connections |-> 0]
  /\ fdTable = [f \in Fds |-> NoConnection]
  /\ rpc = [c \in Connections |-> "none"]
  /\ destination = [c \in Connections |-> NoConnection]
  /\ received_buffer = [c \in Connections |-> <<>>]
  /\ handled = [c \in Connections |-> <<>>]
  /\ shut = {} /\ shutWrite = {}
  /\ peer = [c \in Connections |-> "absent"]
  /\ wire = [c \in Connections |-> <<>>]
  /\ answered = [c \in Connections |-> {}]

Next == \/ Acceptor \/ Owner \/ SenderEnds \/ Interrupt
        \/ \E c \in Connections : Receiver(c) \/ Display(c)

Spec == Init /\ [][Next]_vars

(* The threads run; a send ends at its deadline at the latest; nothing is  *)
(* assumed of the displays, nor that the backend ever ends.                *)
FairSpec ==
  /\ Spec
  /\ WF_vars(Acceptor) /\ WF_vars(Owner) /\ WF_vars(SenderEnds)
  /\ \A c \in Connections : WF_vars(Receiver(c))

-----------------------------------------------------------------------------
(* Properties *)

Endpoints == Connections \cup {NoConnection}

(* Every variable has the type of the variable it stands for, and a send    *)
(* owns a client exactly while it is under way.                             *)
TypeOK ==
  /\ {done, running, listening} \subseteq BOOLEAN
  /\ owner \in {"ready", "joinSender", "closeListener", "shutdownClients",
                "joinAcceptor", "joinReceivers", "returned"}
  /\ sender \in {"none", "poll", "ended"}
  /\ acceptor \in {"none", "test", "accept", "push", "spawn", "drop", "returned"}
  /\ accepted \in Endpoints
  /\ accepted # NoConnection <=> acceptor \in {"push", "spawn", "drop"}
  /\ next_id \in Nat
  /\ clients \subseteq Connections /\ receivers \subseteq Connections
  /\ missed \subseteq Connections
  /\ id \in [Connections -> Nat] /\ fd \in [Connections -> Fds \cup {0}]
  /\ fdTable \in [Fds -> Endpoints]
  /\ rpc \in [Connections -> Receiving \cup {"none", "ended"}]
  /\ destination \in [Connections -> Endpoints]
  /\ \A c \in Connections : destination[c] # NoConnection <=> rpc[c] = "send"
  /\ shut \subseteq Connections /\ shutWrite \subseteq Connections
  /\ peer \in [Connections -> {"absent", "backlog", "open", "closed"}]
  /\ answered \in [Connections -> SUBSET Connections]

(* "Keep the descriptor alive while an in-flight send owns this client"     *)
(* (server.hpp:47): a thread that is about to use a client, and stop() and  *)
(* shutdown_writes(), which use every client of the list, never meet a      *)
(* descriptor that is closed or has become another connection.              *)
DescriptorsOwned ==
  \A c \in Connections : Held(c) => fd[c] \in Fds /\ fdTable[fd[c]] = c

(* A reply goes to the display that asked: descriptors are used again,      *)
(* client numbers are not (server.cpp:49, 68-77).                           *)
RepliesGoToAsker == \A c \in Connections : answered[c] \subseteq {c}

(* However the stream is cut into packets, on_message gets each message     *)
(* once, whole and in order; what is kept back is a message not yet ended.  *)
WholeMessages ==
  \A c \in Connections :
    /\ Stream(c) = [i \in 1..Written(c) |-> i]
    /\ Len(handled[c]) % 2 = 0
    /\ Len(received_buffer[c]) <= 1

(* When setupIPC returns, no thread is left that could touch the destroyed  *)
(* server, and every descriptor has been given back.                        *)
NothingOutlivesServer ==
  owner = "returned" =>
    /\ sender # "poll" /\ acceptor \in {"none", "returned"}
    /\ \A c \in Connections : rpc[c] \notin Receiving
    /\ \A f \in Fds : fdTable[f] = NoConnection

(* Told to end, the server ends, although displays stay connected, write,   *)
(* or do not read their replies.  One thing can hold it back: a display     *)
(* that was accepted but not yet in the list while stop() shut down the     *)
(* list, for as long as that display stays connected.                       *)
LateClientStays == \E c \in missed : rpc[c] \in Receiving /\ ~Gone(c)
StopEnds == <>done => (<>(owner = "returned") \/ <>[]LateClientStays)

(* A message that was written whole reaches on_message, whatever the other  *)
(* displays do, unless its connection ends or the server no longer accepts. *)
EveryDisplayServed ==
  \A c \in Connections :
    (Written(c) >= 2)
      ~> (handled[c] # <<>> \/ Gone(c) \/ done \/ acceptor = "returned")

=============================================================================
