-------------------------- MODULE TcpServer_proofs --------------------------
(***************************************************************************)
(* Proofs about TcpServer: types, descriptors that belong to those who     *)
(* hold them, replies that go to the one that asked, messages that stay    *)
(* whole, and a server that nothing outlives.                              *)
(***************************************************************************)
EXTENDS TcpServer, SequenceTheorems, WellFoundedInduction, TLAPS

-----------------------------------------------------------------------------
(* Which variables the parts of Next leave alone *)

(* The acceptor touches the list, the new client and its descriptor. *)
LEMMA AcceptorLeaves ==
  ASSUME Acceptor
  PROVE  UNCHANGED <<ownerVars, running, listening, missed, received_buffer,
                     handled, destination, shutWrite, wire, answered>>
BY DEF Acceptor, TestRunning, AcceptFails, PushClient, EndOfIteration,
   SpawnReceiver, SpawnFails, Accept, AcceptInVain, serverVars, ownerVars,
   clientVars, loopVars, socketVars, peerVars

(* A receiver leaves the other threads and the numbers of clients alone. *)
LEMMA ReceiverLeaves ==
  ASSUME NEW c \in Connections, Receiver(c)
  PROVE  UNCHANGED <<ownerVars, acceptVars, clientVars, running, listening,
                     next_id, receivers, missed, shutWrite, peer>>
BY DEF Receiver, Recv, RecvEnds, SendTo, SendArrives, SendFails, EndSend,
   ShutdownOwn, Remove, serverVars, socketVars, peerVars, DropClients

(* The owner and the console thread leave receivers and displays alone. *)
LEMMA OwnerLeaves ==
  ASSUME Owner \/ SenderEnds
  PROVE  UNCHANGED <<done, next_id, accepted, clientVars, loopVars, peerVars>>
BY DEF Owner, StartThreads, StopRunning, CloseListener, ShutdownClients,
   JoinAcceptor, JoinReceiver, Destroy, SenderEnds, OwnerMoves,
   UnchangedByOwner, serverVars, ownerVars

(* Signal handler and displays reach the server through the sockets only. *)
LEMMA OutsideLeaves ==
  ASSUME Interrupt \/ \E c \in Connections : Display(c)
  PROVE  UNCHANGED <<serverVars, owner, sender, acceptVars, clientVars, fdTable,
                     loopVars, socketVars, answered>>
BY DEF Interrupt, Display, Connect, Close, Write, Moves, UnchangedServer,
   peerVars

-----------------------------------------------------------------------------
(* Types *)

PhaseTypes ==
  /\ owner \in {"ready", "joinSender", "closeListener", "shutdownClients",
                "joinAcceptor", "joinReceivers", "returned"}
  /\ sender \in {"none", "poll", "ended"}
  /\ acceptor \in {"none", "test", "accept", "push", "spawn", "drop", "returned"}
  /\ accepted \in Endpoints
  /\ accepted # NoConnection <=> acceptor \in {"push", "spawn", "drop"}
PhaseOrder ==
  /\ owner = "ready" => acceptor = "none" /\ sender = "none"
  /\ owner \notin {"ready", "joinSender", "returned"} => sender = "ended"
  /\ owner = "joinReceivers" => acceptor = "returned"
  /\ owner = "returned" => sender # "poll" /\ acceptor \in {"none", "returned"}
FlagTypes ==
  /\ done \in BOOLEAN
  /\ running \in BOOLEAN
  /\ listening \in BOOLEAN
SetTypes ==
  /\ next_id \in Nat
  /\ clients \subseteq Connections /\ receivers \subseteq Connections
  /\ missed \subseteq Connections
  /\ shut \subseteq Connections /\ shutWrite \subseteq Connections
ClientTypes ==
  /\ id \in [Connections -> Nat] /\ fd \in [Connections -> Fds \cup {0}]
  /\ fdTable \in [Fds -> Endpoints]
LoopTypes ==
  /\ rpc \in [Connections -> Receiving \cup {"none", "ended"}]
  /\ destination \in [Connections -> Endpoints]
  /\ \A c \in Connections : destination[c] # NoConnection <=> rpc[c] = "send"
(* A connection is accepted once, and only then gets its receiver. *)
Fresh ==
  /\ \A c \in Connections : peer[c] \in {"absent", "backlog"} => rpc[c] = "none"
  /\ accepted # NoConnection => peer[accepted] \in {"open", "closed"}
  /\ acceptor \in {"push", "spawn"} => rpc[accepted] = "none"
PeerTypes ==
  /\ peer \in [Connections -> {"absent", "backlog", "open", "closed"}]
  /\ answered \in [Connections -> SUBSET Connections]

TypeInv == /\ PhaseTypes /\ PhaseOrder /\ FlagTypes /\ SetTypes
           /\ ClientTypes /\ LoopTypes /\ PeerTypes /\ Fresh

(* The parts of TypeInv give every conjunct of TypeOK. *)
LEMMA TypesAreTypes == TypeInv => TypeOK
<1> SUFFICES ASSUME TypeInv PROVE TypeOK OBVIOUS
<1>1. {done, running, listening} \subseteq BOOLEAN
  BY Zenon DEF TypeInv, FlagTypes
<1>2. PhaseTypes /\ SetTypes /\ ClientTypes /\ LoopTypes /\ PeerTypes
  BY Zenon DEF TypeInv
<1> QED BY <1>1, <1>2, Zenon DEF TypeOK, PhaseTypes, SetTypes, ClientTypes,
           LoopTypes, PeerTypes

(* Before the threads start nothing is held and nobody is connected. *)
LEMMA TypeInit == Init => TypeInv
<1> SUFFICES ASSUME Init PROVE TypeInv OBVIOUS
<1>1. PhaseTypes /\ PhaseOrder
  BY DEF Init, PhaseTypes, PhaseOrder, Endpoints
<1>2. FlagTypes
  BY Zenon DEF Init, FlagTypes
<1>3. SetTypes
  BY DEF Init, SetTypes
<1>4. ClientTypes
  BY FdsAssumption DEF Init, ClientTypes, Endpoints
<1>5. LoopTypes /\ Fresh
  BY DEF Init, LoopTypes, Fresh, Endpoints
<1>6. PeerTypes
  BY DEF Init, PeerTypes
<1> QED BY <1>1, <1>2, <1>3, <1>4, <1>5, <1>6, Zenon DEF TypeInv

(* A set of numbers has a smallest one. *)
LEMMA SmallestExists ==
  ASSUME NEW S \in SUBSET Nat, S # {}
  PROVE  \E n \in S : \A m \in S : n <= m
<1>1. PICK R : IsWellFoundedOn(R, Nat) /\ \A m, n \in Nat : m < n => <<m, n>> \in R
  <2> DEFINE Less == OpToRel(<, Nat)
  <2>1. IsWellFoundedOn(Less, Nat)
    BY NatLessThanWellFounded
  <2>2. \A m, n \in Nat : m < n => <<m, n>> \in Less
    BY DEF OpToRel
  <2> HIDE DEF Less
  <2> QED BY <2>1, <2>2, Zenon
<1>2. PICK n \in S : \A m \in S : ~(<<m, n>> \in R)
  <2>1. IsWellFoundedOn(R, Nat) /\ S \subseteq Nat
    BY <1>1
  <2> QED BY <2>1, WFMin, Zenon
<1>3. ASSUME NEW m \in S PROVE n <= m
  <2>1. m \in Nat /\ n \in Nat
    OBVIOUS
  <2>2. ~(m < n)
    BY <1>1, <1>2, <2>1, Zenon
  <2> QED BY <2>1, <2>2
<1> QED BY <1>3

(* The system gives a descriptor that is free. *)
LEMMA LowestIsFree ==
  ASSUME FreeFds # {} PROVE LowestFd \in FreeFds /\ LowestFd \in Fds
<1>1. FreeFds \in SUBSET Nat /\ FreeFds \subseteq Fds
  BY FdsAssumption DEF FreeFds, Fds
<1>2. \E f \in FreeFds : \A g \in FreeFds : f <= g
  BY <1>1, SmallestExists
<1> QED BY <1>1, <1>2 DEF LowestFd

(* What DropClients does: a descriptor is closed exactly if nobody holds     *)
(* what is behind it.                                                        *)
LEMMA DropDoes ==
  ASSUME ClientTypes, DropClients
  PROVE  /\ fdTable' \in [Fds -> Endpoints]
         /\ \A f \in Fds : fdTable'[f] = fdTable[f] \/ fdTable'[f] = NoConnection
         /\ \A f \in Fds, c \in Connections :
              fdTable[f] = c => (fdTable'[f] = c <=> Held(c)')
<1> DEFINE Kept(f) == \E c \in Connections : c = fdTable[f] /\ Held(c)'
<1>1. fdTable' = [f \in Fds |-> IF Kept(f) THEN fdTable[f] ELSE NoConnection]
  BY DEF DropClients
<1>2. \A f \in Fds, c \in Connections : fdTable[f] = c => (Kept(f) <=> Held(c)')
  OBVIOUS
<1> HIDE DEF Kept
<1> QED BY <1>1, <1>2, NoConnectionAssumption DEF ClientTypes, Endpoints

(* Owner, acceptor and console thread move through their steps in order. *)
LEMMA PhaseNext == TypeInv /\ [Next]_vars => PhaseTypes' /\ PhaseOrder'
<1> SUFFICES ASSUME TypeInv, [Next]_vars PROVE PhaseTypes' /\ PhaseOrder' OBVIOUS
<1>0. PhaseTypes /\ PhaseOrder
  BY DEF TypeInv
<1>1. CASE Acceptor
  <2>1. UNCHANGED <<owner, sender>>
    BY <1>1, AcceptorLeaves DEF ownerVars
  <2>2. ASSUME NEW c \in Connections, Accept(c)
        PROVE  accepted' = c /\ acceptor = "accept" /\ acceptor' = "push"
    BY <2>2 DEF Accept
  <2>3. ASSUME NEW c \in Connections, AcceptInVain(c)
        PROVE  UNCHANGED accepted /\ acceptor = "accept" /\ acceptor' = "test"
    BY <2>3 DEF AcceptInVain
  <2>4. ASSUME TestRunning \/ AcceptFails
        PROVE  /\ UNCHANGED accepted /\ acceptor \in {"test", "accept"}
               /\ acceptor' \in {"accept", "returned"}
    BY <2>4 DEF TestRunning, AcceptFails
  <2>5. ASSUME PushClient \/ SpawnReceiver \/ SpawnFails
        PROVE  /\ UNCHANGED accepted /\ acceptor \in {"push", "spawn"}
               /\ acceptor' \in {"spawn", "drop"}
    BY <2>5 DEF PushClient, SpawnReceiver, SpawnFails
  <2>6. ASSUME EndOfIteration
        PROVE  accepted' = NoConnection /\ acceptor = "drop" /\ acceptor' = "test"
    BY <2>6 DEF EndOfIteration
  <2>7. PhaseTypes'
    BY <1>0, <1>1, <2>1, <2>2, <2>3, <2>4, <2>5, <2>6, NoConnectionAssumption
    DEF Acceptor, PhaseTypes, Endpoints
  <2>8. acceptor \notin {"none", "returned"}
    BY <1>1, <2>2, <2>3, <2>4, <2>5, <2>6 DEF Acceptor
  <2>9. owner \notin {"ready", "joinReceivers", "returned"}
    BY <1>0, <2>8 DEF PhaseOrder
  <2>10. PhaseOrder'
    BY <1>0, <2>1, <2>9 DEF PhaseOrder
  <2> QED BY <2>7, <2>10
<1>2. CASE Owner \/ SenderEnds
  <2>1. UNCHANGED accepted
    BY <1>2, OwnerLeaves
  <2>2. CASE StartThreads
    <3>1. /\ owner = "ready"
          /\ \/ owner' = "joinSender" /\ sender' = "poll" /\ acceptor' = "test"
             \/ owner' = "returned" /\ UNCHANGED <<sender, acceptor>>
      BY <2>2 DEF StartThreads
    <3> QED BY <1>0, <2>1, <3>1 DEF PhaseTypes, PhaseOrder
  <2>3. CASE SenderEnds
    <3>1. /\ sender = "poll" /\ sender' = "ended" /\ UNCHANGED <<owner, acceptor>>
      BY <2>3 DEF SenderEnds, UnchangedByOwner
    <3> QED BY <1>0, <2>1, <3>1 DEF PhaseTypes, PhaseOrder
  <2>4. CASE StopRunning \/ CloseListener \/ ShutdownClients \/ JoinAcceptor
               \/ Destroy \/ \E c \in Connections : JoinReceiver(c)
    <3>1. /\ UNCHANGED <<sender, acceptor>>
          /\ \/ owner = "joinSender" /\ sender = "ended" /\ owner' = "closeListener"
             \/ owner = "closeListener" /\ owner' = "shutdownClients"
             \/ owner = "shutdownClients" /\ owner' = "joinAcceptor"
             \/ /\ owner = "joinAcceptor" /\ acceptor = "returned"
                /\ owner' = "joinReceivers"
             \/ owner = "joinReceivers" /\ owner' \in {"joinReceivers", "returned"}
      BY <2>4 DEF StopRunning, CloseListener, ShutdownClients, JoinAcceptor,
         JoinReceiver, Destroy, OwnerMoves, UnchangedByOwner
    <3> QED BY <1>0, <2>1, <3>1 DEF PhaseTypes, PhaseOrder
  <2> QED BY <1>2, <2>2, <2>3, <2>4 DEF Owner
<1>3. ASSUME NEW c \in Connections, Receiver(c) PROVE PhaseTypes' /\ PhaseOrder'
  BY <1>0, <1>3, ReceiverLeaves DEF PhaseTypes, PhaseOrder, ownerVars, acceptVars
<1>4. CASE Interrupt \/ \E c \in Connections : Display(c)
  BY <1>0, <1>4, OutsideLeaves DEF PhaseTypes, PhaseOrder, acceptVars
<1>5. CASE UNCHANGED vars
  BY <1>0, <1>5 DEF vars, PhaseTypes, PhaseOrder, ownerVars, acceptVars
<1> QED BY <1>1, <1>2, <1>3, <1>4, <1>5 DEF Next

(* The flags stay Boolean. *)
LEMMA FlagNext == TypeInv /\ [Next]_vars => FlagTypes'
<1> SUFFICES ASSUME TypeInv, [Next]_vars PROVE FlagTypes' OBVIOUS
<1>0. FlagTypes
  BY Zenon DEF TypeInv
<1>1. CASE Acceptor
  <2>1. done' = done /\ running' = running /\ listening' = listening
    BY <1>1, AcceptorLeaves DEF ownerVars
  <2> QED BY <1>0, <2>1, Zenon DEF FlagTypes
<1>2. CASE Owner \/ SenderEnds
  <2>1. /\ done' = done
        /\ running' = running \/ running' = FALSE
        /\ listening' = listening \/ listening' = FALSE
    BY <1>2 DEF Owner, StartThreads, StopRunning, CloseListener, ShutdownClients,
       JoinAcceptor, JoinReceiver, Destroy, SenderEnds, OwnerMoves, serverVars
  <2> QED BY <1>0, <2>1, Zenon DEF FlagTypes
<1>3. ASSUME NEW c \in Connections, Receiver(c) PROVE FlagTypes'
  <2>1. done' = done /\ running' = running /\ listening' = listening
    BY <1>3, ReceiverLeaves DEF ownerVars
  <2> QED BY <1>0, <2>1, Zenon DEF FlagTypes
<1>4. CASE Interrupt \/ \E c \in Connections : Display(c)
  <2>1. running' = running /\ listening' = listening
    BY <1>4, OutsideLeaves DEF serverVars
  <2>2. done' = done \/ done' = TRUE
    BY <1>4 DEF Interrupt, Display, Connect, Close, Write, Moves
  <2> QED BY <1>0, <2>1, <2>2, Zenon DEF FlagTypes
<1>5. CASE UNCHANGED vars
  <2>1. done' = done /\ running' = running /\ listening' = listening
    BY <1>5 DEF vars, serverVars, ownerVars
  <2> QED BY <1>0, <2>1, Zenon DEF FlagTypes
<1> QED BY <1>1, <1>2, <1>3, <1>4, <1>5, Zenon DEF Next

(* The sets of clients and sockets hold connections only. *)
LEMMA SetNext == TypeInv /\ [Next]_vars => SetTypes'
<1> SUFFICES ASSUME TypeInv, [Next]_vars PROVE SetTypes' OBVIOUS
<1>0. SetTypes /\ PhaseTypes /\ LoopTypes
  BY DEF TypeInv
<1>1. CASE Acceptor
  <2>1. acceptor \in {"push", "spawn"} => accepted \in Connections
    BY <1>0 DEF PhaseTypes, Endpoints
  <2>2. UNCHANGED <<missed, shutWrite>>
    BY <1>1, AcceptorLeaves
  <2>3. CASE TestRunning \/ AcceptFails \/ EndOfIteration
    BY <1>0, <2>3 DEF TestRunning, AcceptFails, EndOfIteration, SetTypes,
       serverVars, socketVars
  <2>4. CASE PushClient \/ SpawnReceiver \/ SpawnFails
    BY <1>0, <2>1, <2>4 DEF PushClient, SpawnReceiver, SpawnFails, SetTypes, socketVars
  <2>5. CASE \E c \in Connections : Accept(c) \/ AcceptInVain(c)
    BY <1>0, <2>2, <2>5 DEF Accept, AcceptInVain, SetTypes, serverVars, socketVars
  <2> QED BY <1>1, <2>3, <2>4, <2>5 DEF Acceptor
<1>2. CASE Owner \/ SenderEnds
  <2>1. next_id' = next_id
    BY <1>2, OwnerLeaves
  <2>2. /\ clients' \in {clients, {}} /\ receivers' \subseteq receivers
        /\ shut' \in {shut, shut \cup clients}
        /\ shutWrite' \in {shutWrite, shutWrite \cup clients}
    BY <1>2 DEF Owner, StartThreads, StopRunning, CloseListener, ShutdownClients,
       JoinAcceptor, JoinReceiver, Destroy, SenderEnds, serverVars, socketVars
  <2>3. missed' \in {missed, {}, {accepted}} /\ (missed' = {accepted} =>
           missed' = missed \/ acceptor = "push")
    BY <1>2 DEF Owner, StartThreads, StopRunning, CloseListener, ShutdownClients,
       JoinAcceptor, JoinReceiver, Destroy, SenderEnds, serverVars
  <2>4. acceptor = "push" => accepted \in Connections
    BY <1>0 DEF PhaseTypes, Endpoints
  <2> QED BY <1>0, <2>1, <2>2, <2>3, <2>4 DEF SetTypes
<1>3. ASSUME NEW c \in Connections, Receiver(c) PROVE SetTypes'
  <2>1. UNCHANGED <<next_id, receivers, missed, shutWrite>>
    BY <1>3, ReceiverLeaves
  <2>2. CASE Recv(c) \/ RecvEnds(c) \/ SendTo(c) \/ SendArrives(c)
    BY <1>0, <2>1, <2>2 DEF Recv, RecvEnds, SendTo, SendArrives, EndSend, SetTypes,
       serverVars, socketVars
  <2>3. CASE SendFails(c)
    <3>1. /\ rpc[c] = "send" /\ shut' = shut \cup {destination[c]}
          /\ clients' = clients
      BY <2>3 DEF SendFails, EndSend, serverVars
    <3>2. destination[c] \in Connections
      BY <1>0, <3>1 DEF LoopTypes, Endpoints
    <3> QED BY <1>0, <2>1, <3>1, <3>2 DEF SetTypes
  <2>4. CASE ShutdownOwn(c) \/ Remove(c)
    BY <1>0, <2>1, <2>4 DEF ShutdownOwn, Remove, SetTypes, serverVars, socketVars
  <2> QED BY <1>3, <2>2, <2>3, <2>4 DEF Receiver
<1>4. CASE Interrupt \/ \E c \in Connections : Display(c)
  BY <1>0, <1>4, OutsideLeaves DEF SetTypes, serverVars, socketVars
<1>5. CASE UNCHANGED vars
  BY <1>0, <1>5 DEF vars, SetTypes, serverVars, socketVars
<1> QED BY <1>1, <1>2, <1>3, <1>4, <1>5 DEF Next

(* Numbers and descriptors of clients stay in range. *)
LEMMA ClientNext == TypeInv /\ [Next]_vars => ClientTypes'
<1> SUFFICES ASSUME TypeInv, [Next]_vars PROVE ClientTypes' OBVIOUS
<1>0. ClientTypes /\ next_id \in Nat
  BY DEF TypeInv, SetTypes
<1>1. ASSUME UNCHANGED clientVars, fdTable' = fdTable \/ DropClients
      PROVE  ClientTypes'
  BY <1>0, <1>1, DropDoes DEF ClientTypes, clientVars
<1>2. ASSUME NEW c \in Connections, Accept(c) PROVE ClientTypes'
  <2>1. LowestFd \in Fds
    BY <1>2, LowestIsFree DEF Accept
  <2> QED BY <1>0, <1>2, <2>1 DEF Accept, ClientTypes, Endpoints
<1>3. CASE Acceptor
  <2>1. CASE TestRunning \/ AcceptFails \/ PushClient \/ EndOfIteration
               \/ SpawnReceiver \/ SpawnFails
    BY <1>1, <2>1 DEF TestRunning, AcceptFails, PushClient, EndOfIteration,
       SpawnReceiver, SpawnFails
  <2>2. ASSUME NEW c \in Connections, AcceptInVain(c) PROVE ClientTypes'
    BY <1>1, <2>2 DEF AcceptInVain
  <2> QED BY <1>2, <1>3, <2>1, <2>2 DEF Acceptor
<1>4. CASE Owner \/ SenderEnds
  <2>1. UNCHANGED clientVars
    BY <1>4, OwnerLeaves
  <2>2. fdTable' = fdTable \/ DropClients
    BY <1>4 DEF Owner, StartThreads, StopRunning, CloseListener, ShutdownClients,
       JoinAcceptor, JoinReceiver, Destroy, SenderEnds
  <2> QED BY <1>1, <2>1, <2>2
<1>5. ASSUME NEW c \in Connections, Receiver(c) PROVE ClientTypes'
  <2>1. UNCHANGED clientVars
    BY <1>5, ReceiverLeaves
  <2>2. fdTable' = fdTable \/ DropClients
    BY <1>5 DEF Receiver, Recv, RecvEnds, SendTo, SendArrives, SendFails,
       ShutdownOwn, Remove
  <2> QED BY <1>1, <2>1, <2>2
<1>6. CASE Interrupt \/ \E c \in Connections : Display(c)
  BY <1>1, <1>6, OutsideLeaves
<1>7. CASE UNCHANGED vars
  BY <1>1, <1>7 DEF vars
<1> QED BY <1>3, <1>4, <1>5, <1>6, <1>7 DEF Next

(* Every receiver keeps a destination exactly while it sends. *)
LEMMA LoopNext == TypeInv /\ [Next]_vars => LoopTypes'
<1> SUFFICES ASSUME TypeInv, [Next]_vars PROVE LoopTypes' OBVIOUS
<1>0. LoopTypes /\ PhaseTypes /\ SetTypes /\ Fresh
  BY DEF TypeInv
<1>1. ASSUME UNCHANGED <<rpc, destination>> PROVE LoopTypes'
  BY <1>0, <1>1 DEF LoopTypes
<1>2. CASE Acceptor
  <2>1. CASE SpawnReceiver
    <3>1. /\ rpc' = [rpc EXCEPT ![accepted] = "recv"] /\ UNCHANGED destination
          /\ acceptor = "spawn"
      BY <2>1 DEF SpawnReceiver, loopVars
    <3>2. rpc[accepted] = "none" /\ accepted \in Connections
      BY <1>0, <3>1 DEF Fresh, PhaseTypes, Endpoints
    <3> QED BY <1>0, <3>1, <3>2 DEF LoopTypes, Receiving
  <2>2. CASE TestRunning \/ AcceptFails \/ PushClient \/ EndOfIteration \/ SpawnFails
    BY <1>1, <2>2 DEF TestRunning, AcceptFails, PushClient, EndOfIteration,
       SpawnFails, loopVars
  <2>3. CASE \E c \in Connections : Accept(c) \/ AcceptInVain(c)
    BY <1>1, <2>3 DEF Accept, AcceptInVain, loopVars
  <2> QED BY <1>2, <2>1, <2>2, <2>3 DEF Acceptor
<1>3. CASE Owner \/ SenderEnds
  BY <1>1, <1>3, OwnerLeaves DEF loopVars
<1>4. ASSUME NEW c \in Connections, Receiver(c) PROVE LoopTypes'
  <2>1. CASE Recv(c) \/ RecvEnds(c) \/ ShutdownOwn(c) \/ Remove(c)
    <3>1. PICK next \in {"recv", "handle", "shutdown", "remove", "ended"} :
            /\ rpc[c] # "send" /\ rpc' = [rpc EXCEPT ![c] = next]
            /\ UNCHANGED destination
      BY <2>1 DEF Recv, RecvEnds, ShutdownOwn, Remove
    <3> QED BY <1>0, <3>1 DEF LoopTypes, Receiving
  <2>2. CASE SendTo(c)
    <3>1. \/ /\ rpc' = [rpc EXCEPT ![c] = "recv"] /\ UNCHANGED destination
             /\ rpc[c] = "handle"
          \/ /\ rpc' = [rpc EXCEPT ![c] = "send"]
             /\ \E d \in clients : destination' = [destination EXCEPT ![c] = d]
      BY <2>2 DEF SendTo
    <3> QED BY <1>0, <3>1, NoConnectionAssumption
            DEF LoopTypes, SetTypes, Receiving, Endpoints
  <2>3. CASE SendArrives(c) \/ SendFails(c)
    <3>1. /\ rpc' = [rpc EXCEPT ![c] = "recv"]
          /\ destination' = [destination EXCEPT ![c] = NoConnection]
      BY <2>3 DEF SendArrives, SendFails, EndSend
    <3> QED BY <1>0, <3>1 DEF LoopTypes, Receiving, Endpoints
  <2> QED BY <1>4, <2>1, <2>2, <2>3 DEF Receiver
<1>5. CASE Interrupt \/ \E c \in Connections : Display(c)
  BY <1>1, <1>5, OutsideLeaves DEF loopVars
<1>6. CASE UNCHANGED vars
  BY <1>1, <1>6 DEF vars, loopVars
<1> QED BY <1>2, <1>3, <1>4, <1>5, <1>6 DEF Next

(* The ends of the displays keep their types. *)
LEMMA PeerNext == TypeInv /\ [Next]_vars => PeerTypes'
<1> SUFFICES ASSUME TypeInv, [Next]_vars PROVE PeerTypes' OBVIOUS
<1>0. PeerTypes /\ LoopTypes
  BY DEF TypeInv
<1>1. ASSUME UNCHANGED <<peer, answered>> PROVE PeerTypes'
  BY <1>0, <1>1 DEF PeerTypes
<1>2. CASE Acceptor
  <2>1. UNCHANGED answered
    BY <1>2, AcceptorLeaves
  <2>2. UNCHANGED peer \/ \E c \in Connections : peer' = [peer EXCEPT ![c] = "open"]
    BY <1>2 DEF Acceptor, TestRunning, AcceptFails, PushClient, EndOfIteration,
       SpawnReceiver, SpawnFails, Accept, AcceptInVain, peerVars
  <2> QED BY <1>0, <2>1, <2>2 DEF PeerTypes
<1>3. CASE Owner \/ SenderEnds
  BY <1>1, <1>3, OwnerLeaves DEF peerVars
<1>4. ASSUME NEW c \in Connections, Receiver(c) PROVE PeerTypes'
  <2>1. UNCHANGED peer
    BY <1>4, ReceiverLeaves
  <2>2. \/ UNCHANGED answered
        \/ \E d : answered' = [answered EXCEPT ![d] = @ \cup {c}]
    BY <1>4 DEF Receiver, Recv, RecvEnds, SendTo, SendArrives, SendFails, EndSend,
       ShutdownOwn, Remove, peerVars
  <2> QED BY <1>0, <2>1, <2>2 DEF PeerTypes
<1>5. CASE Interrupt \/ \E c \in Connections : Display(c)
  <2>1. UNCHANGED answered
    BY <1>5, OutsideLeaves
  <2>2. \/ UNCHANGED peer
        \/ \E c \in Connections, to \in {"backlog", "closed"} :
               peer' = [peer EXCEPT ![c] = to]
    BY <1>5 DEF Interrupt, Display, Connect, Close, Write, Moves, peerVars
  <2> QED BY <1>0, <2>1, <2>2 DEF PeerTypes
<1>6. CASE UNCHANGED vars
  BY <1>1, <1>6 DEF vars, peerVars
<1> QED BY <1>2, <1>3, <1>4, <1>5, <1>6 DEF Next

(* Each connection is accepted at most once and then gets its receiver. *)
LEMMA FreshNext == TypeInv /\ [Next]_vars => Fresh'
<1> SUFFICES ASSUME TypeInv, [Next]_vars PROVE Fresh' OBVIOUS
<1>0. LoopTypes /\ PhaseTypes /\ PeerTypes /\ Fresh
  BY DEF TypeInv
<1>1. CASE Acceptor
  <2>1. ASSUME NEW c \in Connections, Accept(c) \/ AcceptInVain(c)
        PROVE  /\ acceptor = "accept" /\ peer[c] = "backlog"
               /\ peer' = [peer EXCEPT ![c] = "open"] /\ UNCHANGED rpc
               /\ \/ accepted' = c /\ acceptor' = "push"
                  \/ accepted' = accepted /\ acceptor' = "test"
    BY <2>1 DEF Accept, AcceptInVain, loopVars
  <2>2. CASE \E c \in Connections : Accept(c) \/ AcceptInVain(c)
    BY <1>0, <2>1, <2>2 DEF Fresh, PhaseTypes, PeerTypes, Endpoints
  <2>3. CASE SpawnReceiver
    <3>1. /\ acceptor = "spawn" /\ acceptor' = "drop"
          /\ rpc' = [rpc EXCEPT ![accepted] = "recv"] /\ UNCHANGED <<peer, accepted>>
      BY <2>3 DEF SpawnReceiver, peerVars
    <3>2. peer[accepted] \in {"open", "closed"}
      BY <1>0, <3>1 DEF Fresh, PhaseTypes
    <3> QED BY <1>0, <3>1, <3>2 DEF Fresh, LoopTypes
  <2>4. CASE TestRunning \/ AcceptFails \/ PushClient \/ SpawnFails \/ EndOfIteration
    <3>1. /\ UNCHANGED <<peer, rpc>> /\ accepted' \in {accepted, NoConnection}
          /\ acceptor' \in {"push", "spawn"} =>
               acceptor \in {"push", "spawn"} /\ UNCHANGED accepted
      BY <2>4 DEF TestRunning, AcceptFails, PushClient, SpawnFails, EndOfIteration,
         loopVars, peerVars
    <3> QED BY <1>0, <3>1 DEF Fresh
  <2> QED BY <1>1, <2>2, <2>3, <2>4 DEF Acceptor
<1>2. CASE Owner \/ SenderEnds
  <2>1. UNCHANGED <<peer, rpc, accepted>>
    BY <1>2, OwnerLeaves DEF peerVars, loopVars
  <2>2. acceptor' = acceptor \/ acceptor' = "test"
    BY <1>2 DEF Owner, StartThreads, StopRunning, CloseListener, ShutdownClients,
       JoinAcceptor, JoinReceiver, Destroy, SenderEnds, UnchangedByOwner
  <2> QED BY <1>0, <2>1, <2>2 DEF Fresh
<1>3. ASSUME NEW c \in Connections, Receiver(c) PROVE Fresh'
  <2>1. UNCHANGED <<peer, acceptor, accepted>>
    BY <1>3, ReceiverLeaves DEF acceptVars
  <2>2. rpc[c] # "none" /\ \A d \in Connections : d # c => rpc'[d] = rpc[d]
    BY <1>0, <1>3 DEF LoopTypes, Receiver, Recv, RecvEnds, SendTo, SendArrives,
       SendFails, EndSend, ShutdownOwn, Remove
  <2>3. accepted # NoConnection => accepted \in Connections
    BY <1>0 DEF PhaseTypes, Endpoints
  <2>4. acceptor \in {"push", "spawn"} => accepted # NoConnection
    BY <1>0 DEF PhaseTypes
  <2> QED BY <1>0, <2>1, <2>2, <2>3, <2>4 DEF Fresh
<1>4. CASE Interrupt \/ \E c \in Connections : Display(c)
  <2>1. UNCHANGED <<rpc, acceptor, accepted>>
    BY <1>4, OutsideLeaves DEF acceptVars, loopVars
  <2>2. \/ UNCHANGED peer
        \/ \E c \in Connections :
             \/ peer[c] = "absent" /\ peer' = [peer EXCEPT ![c] = "backlog"]
             \/ peer' = [peer EXCEPT ![c] = "closed"]
    BY <1>4 DEF Interrupt, Display, Connect, Close, Write, Moves, peerVars
  <2>3. accepted # NoConnection => accepted \in Connections
    BY <1>0 DEF PhaseTypes, Endpoints
  <2> QED BY <1>0, <2>1, <2>2, <2>3 DEF Fresh, PeerTypes
<1>5. CASE UNCHANGED vars
  BY <1>0, <1>5 DEF vars, acceptVars, loopVars, peerVars, Fresh
<1> QED BY <1>1, <1>2, <1>3, <1>4, <1>5 DEF Next

(* TypeInv is inductive: one lemma above for each of its parts. *)
LEMMA TypeNext == TypeInv /\ [Next]_vars => TypeInv'
<1> SUFFICES ASSUME TypeInv, [Next]_vars PROVE TypeInv' OBVIOUS
<1> QED BY PhaseNext, FlagNext, SetNext, ClientNext, LoopNext, PeerNext, FreshNext, Zenon
        DEF TypeInv

(* Types, and a send owns a client exactly while it is under way: for any    *)
(* connections, descriptors and messages.                                    *)
THEOREM TcpServerTypeCorrect == Spec => []TypeOK
BY TypeInit, TypeNext, TypesAreTypes, PTL DEF Spec

-----------------------------------------------------------------------------
(* Who holds a connection, and what is behind the descriptors *)

(* Every step but an accept keeps the table of descriptors while the same    *)
(* connections are held, or closes those of which it drops the last pointer. *)
LEMMA HeldOrDropped ==
  ASSUME TypeInv, [Next]_vars, \A c \in Connections : ~Accept(c)
  PROVE  /\ UNCHANGED <<id, fd, next_id>>
         /\ \A c \in Connections : Held(c)' => Held(c)
         /\ \/ DropClients
            \/ fdTable' = fdTable /\ \A c \in Connections : Held(c) => Held(c)'
<1> DEFINE Same  == fdTable' = fdTable /\ \A c \in Connections : Held(c)' <=> Held(c)
           Fewer == DropClients /\ \A c \in Connections : Held(c)' => Held(c)
<1>0. LoopTypes /\ PhaseTypes /\ SetTypes
  BY DEF TypeInv
<1>a. ASSUME UNCHANGED <<clients, accepted, rpc, destination, fdTable>> PROVE Same
  BY <1>a DEF Held
<1>1. ASSUME Acceptor PROVE UNCHANGED <<id, fd, next_id>> /\ (Same \/ Fewer)
  <2>1. CASE TestRunning \/ AcceptFails \/ \E c \in Connections : AcceptInVain(c)
    BY <1>a, <2>1 DEF TestRunning, AcceptFails, AcceptInVain, serverVars,
       clientVars, loopVars
  <2>2. CASE PushClient
    BY <2>2 DEF PushClient, Held, clientVars, loopVars
  <2>3. CASE SpawnReceiver
    <3>1. /\ rpc' = [rpc EXCEPT ![accepted] = "recv"]
          /\ UNCHANGED <<id, fd, next_id, fdTable, accepted, clients, destination>>
      BY <2>3 DEF SpawnReceiver, clientVars
    <3> QED BY <1>0, <3>1 DEF Held, LoopTypes, Receiving
  <2>4. CASE SpawnFails
    BY <2>4 DEF SpawnFails, Held, clientVars, loopVars
  <2>5. CASE EndOfIteration
    <3>1. /\ accepted' = NoConnection /\ DropClients
          /\ UNCHANGED <<id, fd, next_id, clients, rpc, destination>>
      BY <2>5 DEF EndOfIteration, serverVars, clientVars, loopVars
    <3> QED BY <3>1, NoConnectionAssumption DEF Held
  <2> QED BY <1>1, <2>1, <2>2, <2>3, <2>4, <2>5 DEF Acceptor
<1>2. ASSUME Owner \/ SenderEnds PROVE UNCHANGED <<id, fd, next_id>> /\ (Same \/ Fewer)
  <2>1. UNCHANGED <<id, fd, next_id, accepted, rpc, destination>>
    BY <1>2, OwnerLeaves DEF clientVars, loopVars
  <2>2. \/ UNCHANGED <<fdTable, clients>>
        \/ DropClients /\ clients' = {}
    BY <1>2 DEF Owner, StartThreads, StopRunning, CloseListener, ShutdownClients,
       JoinAcceptor, JoinReceiver, Destroy, SenderEnds, serverVars
  <2> QED BY <1>a, <2>1, <2>2 DEF Held
<1>3. ASSUME NEW c \in Connections, Receiver(c)
      PROVE  UNCHANGED <<id, fd, next_id>> /\ (Same \/ Fewer)
  <2>1. UNCHANGED <<id, fd, next_id, accepted>>
    BY <1>3, ReceiverLeaves DEF clientVars, acceptVars
  <2>2. CASE Recv(c) \/ RecvEnds(c) \/ ShutdownOwn(c)
    <3>1. PICK next \in {"recv", "handle", "shutdown", "remove"} :
            /\ rpc[c] \in Receiving /\ rpc' = [rpc EXCEPT ![c] = next]
            /\ UNCHANGED <<fdTable, clients, destination>>
      BY <2>2 DEF Recv, RecvEnds, ShutdownOwn, serverVars, Receiving
    <3> QED BY <1>0, <2>1, <3>1 DEF Held, LoopTypes, Receiving
  <2>3. CASE SendTo(c)
    <3>1. /\ rpc[c] = "handle" /\ UNCHANGED <<fdTable, clients>>
          /\ \/ rpc' = [rpc EXCEPT ![c] = "recv"] /\ UNCHANGED destination
             \/ /\ rpc' = [rpc EXCEPT ![c] = "send"]
                /\ \E d \in clients : destination' = [destination EXCEPT ![c] = d]
      BY <2>3 DEF SendTo, serverVars
    <3>2. destination[c] = NoConnection
      BY <1>0, <3>1 DEF LoopTypes
    <3> QED BY <1>0, <2>1, <3>1, <3>2, NoConnectionAssumption
            DEF Held, LoopTypes, Receiving
  <2>4. CASE SendArrives(c) \/ SendFails(c)
    <3>1. /\ rpc[c] = "send" /\ rpc' = [rpc EXCEPT ![c] = "recv"]
          /\ destination' = [destination EXCEPT ![c] = NoConnection]
          /\ DropClients /\ UNCHANGED clients
      BY <2>4 DEF SendArrives, SendFails, EndSend, serverVars
    <3> QED BY <1>0, <2>1, <3>1, NoConnectionAssumption DEF Held, LoopTypes, Receiving
  <2>5. CASE Remove(c)
    <3>1. /\ rpc' = [rpc EXCEPT ![c] = "ended"] /\ clients' = clients \ {c}
          /\ DropClients /\ UNCHANGED destination
      BY <2>5 DEF Remove
    <3> QED BY <1>0, <2>1, <3>1 DEF Held, LoopTypes, Receiving
  <2> QED BY <1>3, <2>2, <2>3, <2>4, <2>5 DEF Receiver
<1>4. ASSUME Interrupt \/ \E c \in Connections : Display(c)
      PROVE  UNCHANGED <<id, fd, next_id>> /\ Same
  BY <1>4, <1>a, OutsideLeaves DEF serverVars, acceptVars, clientVars, loopVars
<1>5. ASSUME UNCHANGED vars PROVE UNCHANGED <<id, fd, next_id>> /\ Same
  BY <1>5, <1>a DEF vars, serverVars, acceptVars, clientVars, loopVars
<1>6. UNCHANGED <<id, fd, next_id>> /\ (Same \/ Fewer)
  BY <1>1, <1>2, <1>3, <1>4, <1>5, Zenon DEF Next
<1> QED BY <1>6, Zenon

(* An accept gives the connection a descriptor that is free, and a number. *)
LEMMA AcceptDoes ==
  ASSUME TypeInv, NEW c \in Connections, Accept(c)
  PROVE  /\ LowestFd \in Fds /\ fdTable[LowestFd] = NoConnection
         /\ fd' = [fd EXCEPT ![c] = LowestFd]
         /\ fdTable' = [fdTable EXCEPT ![LowestFd] = c]
         /\ id' = [id EXCEPT ![c] = next_id] /\ next_id' = next_id + 1
         /\ \A d \in Connections : Held(d)' <=> Held(d) \/ d = c
<1>1. LowestFd \in Fds /\ fdTable[LowestFd] = NoConnection
  BY LowestIsFree DEF Accept, FreeFds
<1>2. /\ accepted' = c /\ UNCHANGED <<clients, rpc, destination>>
      /\ acceptor = "accept"
  BY DEF Accept, loopVars
<1>3. accepted = NoConnection
  BY <1>2 DEF TypeInv, PhaseTypes
<1>4. \A d \in Connections : Held(d)' <=> Held(d) \/ d = c
  BY <1>2, <1>3, NoConnectionAssumption DEF Held
<1> QED BY <1>1, <1>4 DEF Accept

(* The descriptors that are in use are those of the connections held. *)
DescriptorsUsed ==
  \A f \in Fds, c \in Connections : fdTable[f] = c => Held(c)

(* Nobody holds a client and no descriptor is taken. *)
LEMMA OwnedInit == Init => DescriptorsOwned /\ DescriptorsUsed
<1> SUFFICES ASSUME Init PROVE DescriptorsOwned /\ DescriptorsUsed OBVIOUS
<1>1. \A c \in Connections : ~Held(c)
  BY NoConnectionAssumption DEF Init, Held, Receiving
<1> QED BY <1>1, NoConnectionAssumption DEF Init, DescriptorsOwned, DescriptorsUsed

(* A descriptor is taken when a client is made and freed with its last holder. *)
LEMMA OwnedNext ==
  TypeInv /\ DescriptorsOwned /\ DescriptorsUsed /\ [Next]_vars
    => DescriptorsOwned' /\ DescriptorsUsed'
<1> SUFFICES ASSUME TypeInv, DescriptorsOwned, DescriptorsUsed, [Next]_vars
             PROVE  DescriptorsOwned' /\ DescriptorsUsed'
  OBVIOUS
<1>0. ClientTypes
  BY DEF TypeInv
<1>1. ASSUME NEW c \in Connections, Accept(c)
      PROVE  DescriptorsOwned' /\ DescriptorsUsed'
  <2>1. /\ LowestFd \in Fds /\ fdTable[LowestFd] = NoConnection
        /\ fd' = [fd EXCEPT ![c] = LowestFd]
        /\ fdTable' = [fdTable EXCEPT ![LowestFd] = c]
        /\ \A d \in Connections : Held(d)' <=> Held(d) \/ d = c
    BY <1>1, AcceptDoes
  <2>2. ASSUME NEW d \in Connections, Held(d)'
        PROVE  fd'[d] \in Fds /\ fdTable'[fd'[d]] = d
    BY <1>0, <2>1, <2>2, NoConnectionAssumption DEF ClientTypes, DescriptorsOwned
  <2>3. ASSUME NEW f \in Fds, NEW d \in Connections, fdTable'[f] = d PROVE Held(d)'
    BY <1>0, <2>1, <2>3, NoConnectionAssumption DEF ClientTypes, DescriptorsUsed
  <2> QED BY <2>2, <2>3 DEF DescriptorsOwned, DescriptorsUsed
<1>2. ASSUME \A c \in Connections : ~Accept(c)
      PROVE  DescriptorsOwned' /\ DescriptorsUsed'
  <2>1. /\ UNCHANGED fd /\ \A c \in Connections : Held(c)' => Held(c)
        /\ \/ DropClients
           \/ fdTable' = fdTable /\ \A c \in Connections : Held(c) => Held(c)'
    BY <1>2, HeldOrDropped
  <2>2. \A f \in Fds : fdTable'[f] = fdTable[f] \/ fdTable'[f] = NoConnection
    BY <1>0, <2>1, DropDoes
  <2>3. \A f \in Fds, c \in Connections :
          fdTable[f] = c /\ Held(c) => (fdTable'[f] = c <=> Held(c)')
    BY <1>0, <2>1, DropDoes, NoConnectionAssumption
  <2>4. DescriptorsOwned'
    BY <2>1, <2>3 DEF DescriptorsOwned
  <2>5. ASSUME NEW f \in Fds, NEW d \in Connections, fdTable'[f] = d PROVE Held(d)'
    BY <2>1, <2>2, <2>3, <2>5, NoConnectionAssumption DEF DescriptorsUsed
  <2> QED BY <2>4, <2>5 DEF DescriptorsUsed
<1> QED BY <1>1, <1>2

(* Whoever is about to use a client meets its own descriptor, open: for any  *)
(* connections and descriptors, however often they are given again.          *)
THEOREM OwnDescriptors == Spec => []DescriptorsOwned
BY TypeInit, TypeNext, OwnedInit, OwnedNext, PTL DEF Spec

-----------------------------------------------------------------------------
(* Replies go to the display that asked *)

(* No two connections have the same number, and those that are held have one. *)
OwnNumbers ==
  /\ next_id >= 1
  /\ \A c \in Connections : id[c] < next_id
  /\ \A c, d \in Connections : id[c] = id[d] /\ id[c] # 0 => c = d
  /\ \A c \in Connections : Held(c) => id[c] # 0
(* What a send is about to answer, and what was answered. *)
OwnDestinations ==
  \A c \in Connections : destination[c] \in {c, NoConnection} /\ answered[c] \subseteq {c}
AskerInv == OwnNumbers /\ OwnDestinations

(* There are no clients, so no two of them share a number. *)
LEMMA AskerInit == Init => AskerInv
<1> SUFFICES ASSUME Init PROVE AskerInv OBVIOUS
<1>1. \A c \in Connections : ~Held(c)
  BY NoConnectionAssumption DEF Init, Held, Receiving
<1> QED BY <1>1 DEF Init, AskerInv, OwnNumbers, OwnDestinations

(* A new client gets a number above all that were given. *)
LEMMA NumbersNext == TypeInv /\ OwnNumbers /\ [Next]_vars => OwnNumbers'
<1> SUFFICES ASSUME TypeInv, OwnNumbers, [Next]_vars PROVE OwnNumbers' OBVIOUS
<1>0. id \in [Connections -> Nat] /\ next_id \in Nat
  BY DEF TypeInv, ClientTypes, SetTypes
<1>1. ASSUME NEW c \in Connections, Accept(c) PROVE OwnNumbers'
  <2>1. /\ id' = [id EXCEPT ![c] = next_id] /\ next_id' = next_id + 1
        /\ \A d \in Connections : Held(d)' => Held(d) \/ d = c
    BY <1>1, AcceptDoes
  <2>2. /\ id'[c] = next_id
        /\ \A d \in Connections : d # c => id'[d] = id[d] /\ id[d] < next_id
        /\ next_id >= 1
    BY <1>0, <2>1 DEF OwnNumbers
  <2>3. \A d \in Connections : id'[d] < next_id'
    BY <1>0, <2>1, <2>2
  <2>4. \A d, e \in Connections : id'[d] = id'[e] /\ id'[d] # 0 => d = e
    BY <1>0, <2>2 DEF OwnNumbers
  <2>5. \A d \in Connections : Held(d)' => id'[d] # 0
    BY <1>0, <2>1, <2>2 DEF OwnNumbers
  <2>6. next_id' >= 1
    BY <1>0, <2>1
  <2> QED BY <2>3, <2>4, <2>5, <2>6 DEF OwnNumbers
<1>2. ASSUME \A c \in Connections : ~Accept(c) PROVE OwnNumbers'
  <2>1. UNCHANGED <<id, next_id>> /\ \A c \in Connections : Held(c)' => Held(c)
    BY <1>2, HeldOrDropped
  <2> QED BY <2>1 DEF OwnNumbers
<1> QED BY <1>1, <1>2

(* With numbers of their own, the search by number finds the asker. *)
LEMMA DestinationsNext == TypeInv /\ AskerInv /\ [Next]_vars => OwnDestinations'
<1> SUFFICES ASSUME TypeInv, AskerInv, [Next]_vars PROVE OwnDestinations' OBVIOUS
<1>0. /\ LoopTypes /\ clients \subseteq Connections
      /\ answered \in [Connections -> SUBSET Connections]
      /\ OwnNumbers /\ OwnDestinations
  BY DEF TypeInv, SetTypes, PeerTypes, AskerInv
<1>1. ASSUME UNCHANGED <<destination, answered>> PROVE OwnDestinations'
  BY <1>0, <1>1 DEF OwnDestinations
<1>2. CASE Acceptor
  BY <1>1, <1>2, AcceptorLeaves
<1>3. CASE Owner \/ SenderEnds
  BY <1>1, <1>3, OwnerLeaves DEF loopVars, peerVars
<1>4. ASSUME NEW c \in Connections, Receiver(c) PROVE OwnDestinations'
  <2>1. CASE Recv(c) \/ RecvEnds(c) \/ ShutdownOwn(c) \/ Remove(c)
    BY <1>1, <2>1 DEF Recv, RecvEnds, ShutdownOwn, Remove, peerVars
  <2>2. CASE SendTo(c)
    <3>1. /\ rpc[c] = "handle" /\ UNCHANGED answered
          /\ \/ UNCHANGED destination
             \/ \E d \in clients : /\ id[d] = id[c]
                                   /\ destination' = [destination EXCEPT ![c] = d]
      BY <2>2 DEF SendTo, peerVars
    <3>2. Held(c)
      BY <3>1 DEF Held, Receiving
    <3>3. \A d \in clients : id[d] = id[c] => d = c
      BY <1>0, <3>2 DEF OwnNumbers
    <3> QED BY <1>0, <3>1, <3>3 DEF OwnDestinations, LoopTypes
  <2>3. CASE SendArrives(c) \/ SendFails(c)
    <3>1. /\ rpc[c] = "send"
          /\ destination' = [destination EXCEPT ![c] = NoConnection]
          /\ \/ UNCHANGED answered
             \/ answered' = [answered EXCEPT ![destination[c]] = @ \cup {c}]
      BY <2>3 DEF SendArrives, SendFails, EndSend
    <3>2. destination[c] = c
      BY <1>0, <3>1 DEF LoopTypes, OwnDestinations
    <3> QED BY <1>0, <3>1, <3>2 DEF OwnDestinations, LoopTypes
  <2> QED BY <1>4, <2>1, <2>2, <2>3 DEF Receiver
<1>5. CASE Interrupt \/ \E c \in Connections : Display(c)
  BY <1>1, <1>5, OutsideLeaves DEF loopVars
<1>6. CASE UNCHANGED vars
  BY <1>1, <1>6 DEF vars, loopVars, peerVars
<1> QED BY <1>2, <1>3, <1>4, <1>5, <1>6 DEF Next

(* A display gets replies to its own requests only: for any connections,     *)
(* however they come and go and descriptors are given again.                 *)
THEOREM RepliesReachAsker == Spec => []RepliesGoToAsker
<1>1. TypeInv /\ AskerInv /\ [Next]_vars => AskerInv'
  BY NumbersNext, DestinationsNext DEF AskerInv
<1>2. AskerInv => RepliesGoToAsker
  BY DEF AskerInv, OwnDestinations, RepliesGoToAsker
<1> QED BY <1>1, <1>2, TypeInit, TypeNext, AskerInit, PTL DEF Spec

-----------------------------------------------------------------------------
(* Nothing outlives the server *)

(* A receiver that runs is in the list that the destructor joins; before the *)
(* threads start and after they were joined there is nothing.                *)
Joinable ==
  /\ \A c \in Connections : rpc[c] \in Receiving => c \in receivers
  /\ acceptor = "none" => clients = {} /\ receivers = {}
  /\ owner = "returned" => clients = {} /\ receivers = {}

(* No receiver runs yet. *)
LEMMA JoinableInit == Init => Joinable
BY DEF Init, Joinable, Receiving

(* A receiver is in receivers_ from its start until it has ended. *)
LEMMA JoinableNext == TypeInv /\ Joinable /\ [Next]_vars => Joinable'
<1> SUFFICES ASSUME TypeInv, Joinable, [Next]_vars PROVE Joinable' OBVIOUS
<1>0. PhaseTypes /\ PhaseOrder /\ LoopTypes
  BY DEF TypeInv
<1>1. CASE Acceptor
  <2>1. acceptor \notin {"none", "returned"} /\ acceptor' # "none" /\ owner' = owner
    <3>1. acceptor \in {"test", "accept", "push", "spawn", "drop"} /\ acceptor' # "none"
      BY <1>1 DEF Acceptor, TestRunning, AcceptFails, PushClient, EndOfIteration,
         SpawnReceiver, SpawnFails, Accept, AcceptInVain
    <3> QED BY <1>1, <3>1, AcceptorLeaves DEF ownerVars
  <2>2. owner # "returned"
    BY <1>0, <2>1 DEF PhaseOrder
  <2>3. ASSUME NEW c \in Connections, rpc'[c] \in Receiving PROVE c \in receivers'
    <3>1. CASE SpawnReceiver
      BY <1>0, <2>3, <3>1 DEF SpawnReceiver, Joinable, LoopTypes
    <3>2. CASE ~SpawnReceiver
      <4>1. UNCHANGED <<rpc, receivers>>
        BY <1>1, <3>2 DEF Acceptor, TestRunning, AcceptFails, PushClient,
           EndOfIteration, SpawnFails, Accept, AcceptInVain, loopVars, serverVars
      <4> QED BY <2>3, <4>1 DEF Joinable
    <3> QED BY <3>1, <3>2
  <2> QED BY <2>1, <2>2, <2>3 DEF Joinable
<1>2. CASE Owner \/ SenderEnds
  <2>1. UNCHANGED rpc
    BY <1>2, OwnerLeaves DEF loopVars
  <2>2. CASE StartThreads
    <3>1. UNCHANGED <<clients, receivers>> /\ owner = "ready"
      BY <2>2 DEF StartThreads, serverVars
    <3>2. clients = {} /\ receivers = {}
      BY <1>0, <3>1 DEF PhaseOrder, Joinable
    <3> QED BY <2>1, <3>1, <3>2 DEF Joinable
  <2>3. CASE SenderEnds \/ StopRunning \/ CloseListener \/ ShutdownClients \/ JoinAcceptor
    <3>1. /\ UNCHANGED <<clients, receivers, acceptor>>
          /\ owner' = "returned" => owner = "returned"
      BY <2>3 DEF SenderEnds, StopRunning, CloseListener, ShutdownClients,
         JoinAcceptor, OwnerMoves, UnchangedByOwner, serverVars
    <3> QED BY <2>1, <3>1 DEF Joinable
  <2>4. ASSUME NEW c \in Connections, JoinReceiver(c) PROVE Joinable'
    <3>1. /\ rpc[c] = "ended" /\ receivers' = receivers \ {c}
          /\ UNCHANGED <<clients, acceptor>> /\ owner' = "joinReceivers"
      BY <2>4 DEF JoinReceiver, OwnerMoves, UnchangedByOwner
    <3> QED BY <2>1, <3>1 DEF Joinable, Receiving
  <2>5. CASE Destroy
    BY <2>1, <2>5 DEF Destroy, Joinable
  <2> QED BY <1>2, <2>2, <2>3, <2>4, <2>5 DEF Owner
<1>3. ASSUME NEW c \in Connections, Receiver(c) PROVE Joinable'
  <2>1. UNCHANGED <<owner, acceptor, receivers>>
    BY <1>3, ReceiverLeaves DEF ownerVars, acceptVars
  <2>2. rpc[c] \in Receiving /\ clients' \subseteq clients
    BY <1>3 DEF Receiver, Recv, RecvEnds, SendTo, SendArrives, SendFails, EndSend,
       ShutdownOwn, Remove, Receiving, serverVars
  <2>3. \A d \in Connections : d # c => rpc'[d] = rpc[d]
    BY <1>0, <1>3 DEF Receiver, Recv, RecvEnds, SendTo, SendArrives, SendFails,
       EndSend, ShutdownOwn, Remove, LoopTypes
  <2> QED BY <2>1, <2>2, <2>3 DEF Joinable
<1>4. CASE Interrupt \/ \E c \in Connections : Display(c)
  BY <1>4, OutsideLeaves DEF Joinable, serverVars, acceptVars, loopVars
<1>5. CASE UNCHANGED vars
  BY <1>5 DEF vars, Joinable, serverVars, ownerVars, acceptVars, loopVars
<1> QED BY <1>1, <1>2, <1>3, <1>4, <1>5 DEF Next

(* When setupIPC returns no thread is left and every descriptor was given    *)
(* back: for any number of connections, whatever the displays do.            *)
THEOREM NothingOutlives == Spec => []NothingOutlivesServer
<1>1. ASSUME TypeInv, Joinable, DescriptorsUsed, owner = "returned"
      PROVE  /\ sender # "poll" /\ acceptor \in {"none", "returned"}
             /\ \A c \in Connections : rpc[c] \notin Receiving
             /\ \A f \in Fds : fdTable[f] = NoConnection
  <2>1. sender # "poll" /\ acceptor \in {"none", "returned"} /\ accepted = NoConnection
    BY <1>1 DEF TypeInv, PhaseTypes, PhaseOrder
  <2>2. clients = {} /\ \A c \in Connections : rpc[c] \notin Receiving
    BY <1>1 DEF Joinable
  <2>3. \A c \in Connections : destination[c] = NoConnection
    BY <1>1, <2>2 DEF TypeInv, LoopTypes, Receiving
  <2>4. \A c \in Connections : ~Held(c)
    BY <2>1, <2>2, <2>3, NoConnectionAssumption DEF Held
  <2>5. \A f \in Fds : fdTable[f] = NoConnection
    BY <1>1, <2>4 DEF TypeInv, ClientTypes, Endpoints, DescriptorsUsed
  <2> QED BY <2>1, <2>2, <2>5
<1>2. TypeInv /\ Joinable /\ DescriptorsUsed => NothingOutlivesServer
  BY <1>1 DEF NothingOutlivesServer
<1> QED BY <1>2, TypeInit, TypeNext, OwnedInit, OwnedNext, JoinableInit,
           JoinableNext, PTL DEF Spec

-----------------------------------------------------------------------------
(* Messages stay whole *)

StreamTypes ==
  /\ wire \in [Connections -> Seq(Nat)]
  /\ received_buffer \in [Connections -> Seq(Nat)]
  /\ handled \in [Connections -> Seq(Nat)]
StreamInv == StreamTypes /\ WholeMessages

(* A sequence cut in two is the same sequence. *)
LEMMA CutAgain ==
  ASSUME NEW s \in Seq(Nat), NEW n \in 0..Len(s)
  PROVE  /\ SubSeq(s, 1, n) \in Seq(Nat) /\ SubSeq(s, n + 1, Len(s)) \in Seq(Nat)
         /\ Len(SubSeq(s, 1, n)) = n /\ Len(SubSeq(s, n + 1, Len(s))) = Len(s) - n
         /\ SubSeq(s, 1, n) \o SubSeq(s, n + 1, Len(s)) = s
<1>1. Len(s) \in Nat /\ n \in Nat /\ n <= Len(s)
  OBVIOUS
<1>2. SubSeq(s, 1, n) \in Seq(Nat) /\ Len(SubSeq(s, 1, n)) = n
  BY <1>1, SubSeqProperties
<1>3. /\ SubSeq(s, n + 1, Len(s)) \in Seq(Nat)
      /\ Len(SubSeq(s, n + 1, Len(s))) = Len(s) - n
  BY <1>1, SubSeqProperties
<1>4. SubSeq(s, 1, n) \o SubSeq(s, n + 1, Len(s)) = SubSeq(s, 1, Len(s))
  <2>1. /\ 1 \in 1..(Len(s) + 1) /\ n \in (1 - 1)..Len(s) /\ Len(s) \in n..Len(s)
    BY <1>1
  <2> QED BY <2>1, ConcatAdjacentSubSeq
<1> QED BY <1>2, <1>3, <1>4, SubSeqFull

(* The largest even number up to a length, and sums that start with one. *)
LEMMA EvenBelow ==
  ASSUME NEW len \in Nat
  PROVE  \E m \in 0..len : /\ m % 2 = 0 /\ len - m <= 1
                          /\ \A j \in 1..len : j % 2 = 0 => j <= m
<1>1. CASE len % 2 = 0
  BY <1>1
<1>2. CASE len % 2 # 0
  <2>1. len - 1 \in 0..len /\ (len - 1) % 2 = 0
    BY <1>2
  <2>2. \A j \in 1..len : j % 2 = 0 => j <= len - 1
    BY <1>2
  <2> QED BY <2>1, <2>2
<1> QED BY <1>1, <1>2
(* An even number in front does not change what is left over. *)
LEMMA EvenSum ==
  ASSUME NEW a \in Nat, NEW b \in Nat, a % 2 = 0 PROVE (a + b) % 2 = b % 2
OBVIOUS

(* Behind an even number of bytes, up to the last end mark there is an even  *)
(* number, and at most one byte is left.                                     *)
LEMMA ConsumedIs ==
  ASSUME NEW bytes \in Seq(Nat), NEW k \in Nat, k % 2 = 0,
         \A i \in DOMAIN bytes : bytes[i] = k + i
  PROVE  /\ Consumed(bytes) \in 0..Len(bytes) /\ Consumed(bytes) % 2 = 0
         /\ Len(bytes) - Consumed(bytes) <= 1
<1>1. Len(bytes) \in Nat /\ DOMAIN bytes = 1..Len(bytes)
  OBVIOUS
<1>2. \A i \in 1..Len(bytes) : i \in EndMarks(bytes) <=> i % 2 = 0
  <2>1. \A i \in 1..Len(bytes) : bytes[i] = k + i /\ i \in Nat
    BY <1>1
  <2>2. \A i \in 1..Len(bytes) : bytes[i] % 2 = i % 2
    BY <2>1, EvenSum
  <2> QED BY <1>1, <2>2, Zenon DEF EndMarks
<1>3. EndMarks(bytes) \subseteq 1..Len(bytes)
  BY <1>1 DEF EndMarks
<1>4. PICK m \in 0..Len(bytes) : /\ m % 2 = 0 /\ Len(bytes) - m <= 1
                                 /\ \A j \in 1..Len(bytes) : j % 2 = 0 => j <= m
  BY <1>1, EvenBelow
<1>5. \A j \in EndMarks(bytes) : j <= m /\ j \in Nat /\ j >= 1
  <2> SUFFICES ASSUME NEW j \in EndMarks(bytes) PROVE j <= m /\ j \in Nat /\ j >= 1
    OBVIOUS
  <2>1. j \in 1..Len(bytes) /\ j % 2 = 0
    BY <1>2, <1>3
  <2> QED BY <1>4, <2>1
<1>6. m # 0 => m \in EndMarks(bytes)
  <2>1. m # 0 => m \in 1..Len(bytes)
    BY <1>1
  <2> QED BY <1>2, <1>4, <2>1
<1>7. Consumed(bytes) = m
  <2>1. CASE m = 0
    <3>1. EndMarks(bytes) = {}
      BY <1>5, <2>1
    <3> QED BY <2>1, <3>1 DEF Consumed
  <2>2. CASE m # 0
    <3>1. \A i \in EndMarks(bytes) : (\A j \in EndMarks(bytes) : j <= i) => i = m
      BY <1>1, <1>5, <1>6, <2>2
    <3> QED BY <1>5, <1>6, <2>2, <3>1 DEF Consumed
  <2> QED BY <2>1, <2>2
<1> QED BY <1>4, <1>7

(* What a concatenation holds, and that grouping does not matter. *)
LEMMA Joined ==
  ASSUME NEW s \in Seq(Nat), NEW t \in Seq(Nat)
  PROVE  /\ s \o t \in Seq(Nat) /\ Len(s \o t) = Len(s) + Len(t)
         /\ \A i \in 1..Len(s) : (s \o t)[i] = s[i]
         /\ \A i \in 1..Len(t) : (s \o t)[Len(s) + i] = t[i]
<1>1. Len(s) \in Nat /\ Len(t) \in Nat
  OBVIOUS
<1> QED BY <1>1, ConcatProperties
(* Where a stream was cut does not matter once it is put together. *)
LEMMA Associative ==
  ASSUME NEW s \in Seq(Nat), NEW t \in Seq(Nat), NEW u \in Seq(Nat)
  PROVE  (s \o t) \o u = s \o (t \o u)
<1> DEFINE Byte == Nat
<1>1. s \in Seq(Byte) /\ t \in Seq(Byte) /\ u \in Seq(Byte)
  OBVIOUS
<1> HIDE DEF Byte
<1> QED BY <1>1, ConcatAssociative

(* Appending to the last part of a stream is appending to the stream. *)
LEMMA AppendOutside ==
  ASSUME NEW s \in Seq(Nat), NEW t \in Seq(Nat), NEW e \in Nat
  PROVE  s \o Append(t, e) = Append(s \o t, e)
<1>1. <<e>> \in Seq(Nat) /\ s \o t \in Seq(Nat)
  BY Joined
<1>2. Append(t, e) = t \o <<e>>
  OBVIOUS
<1>3. Append(s \o t, e) = (s \o t) \o <<e>>
  <2> DEFINE st == s \o t
  <2>1. st \in Seq(Nat)
    BY <1>1
  <2> HIDE DEF st
  <2>2. Append(st, e) = st \o <<e>>
    BY <2>1
  <2> QED BY <2>2 DEF st
<1>4. (s \o t) \o <<e>> = s \o (t \o <<e>>)
  BY <1>1, Associative
<1> QED BY <1>2, <1>3, <1>4

(* In the middle of 1, 2, 3, ... the numbers go on from what is before it. *)
LEMMA MiddleCounts ==
  ASSUME NEW s \in Seq(Nat), NEW t \in Seq(Nat), NEW u \in Seq(Nat), NEW n \in Nat,
         (s \o t) \o u = [i \in 1..n |-> i], Len((s \o t) \o u) = n
  PROVE  \A i \in DOMAIN t : t[i] = Len(s) + i
<1>1. Len(s) \in Nat /\ Len(t) \in Nat /\ Len(u) \in Nat /\ DOMAIN t = 1..Len(t)
  OBVIOUS
<1> DEFINE st == s \o t
<1>2. /\ st \in Seq(Nat) /\ Len(st) = Len(s) + Len(t)
      /\ \A i \in 1..Len(t) : st[Len(s) + i] = t[i]
  BY Joined
<1>3. st \o u = [i \in 1..n |-> i] /\ Len(st \o u) = n
  OBVIOUS
<1> HIDE DEF st
<1>4. Len(st \o u) = Len(st) + Len(u) /\ \A i \in 1..Len(st) : (st \o u)[i] = st[i]
  BY <1>2, Joined
<1>5. ASSUME NEW i \in 1..Len(t) PROVE t[i] = Len(s) + i
  <2>1. Len(s) + i \in 1..Len(st) /\ Len(s) + i \in 1..n
    BY <1>1, <1>2, <1>3, <1>4
  <2>2. (st \o u)[Len(s) + i] = t[i]
    BY <1>2, <1>4, <2>1
  <2> QED BY <1>3, <2>1, <2>2
<1> QED BY <1>1, <1>5
(* One more number continues 1, 2, 3, ... *)
LEMMA CountOn ==
  ASSUME NEW n \in Nat
  PROVE  Append([i \in 1..n |-> i], n + 1) = [i \in 1..(n + 1) |-> i]
<1>1. [i \in 1..n |-> i] \in Seq(Nat) /\ Len([i \in 1..n |-> i]) = n
  OBVIOUS
<1>2. /\ [i \in 1..(n + 1) |-> i] \in Seq(Nat)
      /\ Len([i \in 1..(n + 1) |-> i]) = n + 1
  OBVIOUS
<1> DEFINE s == [i \in 1..n |-> i]
<1>3. \A i \in 1..n : s[i] = i
  OBVIOUS
<1> HIDE DEF s
<1>4. /\ Append(s, n + 1) \in Seq(Nat) /\ Len(Append(s, n + 1)) = n + 1
      /\ \A i \in 1..n : Append(s, n + 1)[i] = s[i]
      /\ Append(s, n + 1)[n + 1] = n + 1
  BY <1>1, AppendProperties DEF s
<1>5. \A i \in 1..(n + 1) : Append(s, n + 1)[i] = i
  BY <1>3, <1>4
<1>6. Append(s, n + 1) = [i \in 1..(n + 1) |-> i]
  BY <1>2, <1>4, <1>5, SeqEqual
<1> QED BY <1>6 DEF s

(* Nothing has been written. *)
LEMMA StreamInit == Init => StreamInv
<1> SUFFICES ASSUME Init PROVE StreamInv OBVIOUS
<1>1. StreamTypes
  BY DEF Init, StreamTypes
<1>2. ASSUME NEW c \in Connections
      PROVE  Stream(c) = <<>> /\ Len(handled[c]) % 2 = 0 /\ Len(received_buffer[c]) <= 1
  BY DEF Init, Stream
<1>3. <<>> = [i \in 1..0 |-> i] /\ Len(<<>>) = 0
  OBVIOUS
<1> QED BY <1>1, <1>2, <1>3 DEF StreamInv, WholeMessages, Written

(* recv moves bytes from the wire to the buffer and on to on_message. *)
LEMMA RecvMoves ==
  ASSUME StreamInv, NEW c \in Connections, Recv(c)
  PROVE  /\ StreamTypes' /\ Stream(c)' = Stream(c)
         /\ Len(handled'[c]) % 2 = 0 /\ Len(received_buffer'[c]) <= 1
<1>0. /\ StreamTypes /\ wire[c] \in Seq(Nat) /\ received_buffer[c] \in Seq(Nat)
      /\ handled[c] \in Seq(Nat)
  BY DEF StreamInv, StreamTypes
<1>1. PICK n \in 1..Len(wire[c]) :
        LET got  == received_buffer[c] \o SubSeq(wire[c], 1, n)
            used == Consumed(got)
        IN  /\ wire' = [wire EXCEPT ![c] = SubSeq(@, n + 1, Len(@))]
            /\ received_buffer' = [received_buffer EXCEPT ![c] =
                                     SubSeq(got, used + 1, Len(got))]
            /\ handled' = [handled EXCEPT ![c] = @ \o SubSeq(got, 1, used)]
  BY DEF Recv
<1> DEFINE first == SubSeq(wire[c], 1, n)
           rest  == SubSeq(wire[c], n + 1, Len(wire[c]))
           got   == received_buffer[c] \o first
           used  == Consumed(got)
           given == SubSeq(got, 1, used)
           kept  == SubSeq(got, used + 1, Len(got))
<1>2. first \in Seq(Nat) /\ rest \in Seq(Nat) /\ first \o rest = wire[c]
  BY <1>0, CutAgain
<1>3. /\ wire'[c] = rest /\ received_buffer'[c] = kept
      /\ handled'[c] = handled[c] \o given
      /\ wire' = [wire EXCEPT ![c] = rest]
      /\ received_buffer' = [received_buffer EXCEPT ![c] = kept]
      /\ handled' = [handled EXCEPT ![c] = handled[c] \o given]
  BY <1>0, <1>1 DEF StreamTypes
<1> HIDE DEF first, rest
<1>4. got \in Seq(Nat)
  BY <1>0, <1>2, Joined
<1>5. Stream(c) = (handled[c] \o got) \o rest
  <2> DEFINE h == handled[c]
             r == received_buffer[c]
  <2>1. h \in Seq(Nat) /\ r \in Seq(Nat)
    BY <1>0
  <2>2. Stream(c) = (h \o r) \o (first \o rest)
    BY <1>2 DEF Stream
  <2>3. got = r \o first
    OBVIOUS
  <2> HIDE DEF got, h, r
  <2>4. first \in Seq(Nat) /\ rest \in Seq(Nat)
    BY <1>2
  <2>5. (h \o r) \o (first \o rest) = (h \o (r \o first)) \o rest
    <3>1. h \o r \in Seq(Nat)
      BY <2>1, Joined
    <3>2. (h \o r) \o (first \o rest) = ((h \o r) \o first) \o rest
      BY <2>4, <3>1, Associative
    <3>3. (h \o r) \o first = h \o (r \o first)
      BY <2>1, <2>4, Associative
    <3> QED BY <3>2, <3>3
  <2> QED BY <2>2, <2>3, <2>5 DEF h
<1>6. \A i \in DOMAIN got : got[i] = Len(handled[c]) + i
  <2> DEFINE h == handled[c]
             n0 == Written(c)
  <2> HIDE DEF got
  <2>1. Stream(c) \in Seq(Nat)
    BY <1>0, <1>2, <1>4, <1>5, Joined
  <2>2. Stream(c) = [i \in 1..n0 |-> i]
    BY DEF StreamInv, WholeMessages
  <2>3. Len(Stream(c)) = n0 /\ Len(Stream(c)) \in Nat
    BY <2>1 DEF Written
  <2>4. h \in Seq(Nat) /\ rest \in Seq(Nat) /\ got \in Seq(Nat) /\ n0 \in Nat
    BY <1>0, <1>2, <1>4, <2>3
  <2>5. (h \o got) \o rest = Stream(c)
    BY <1>5
  <2> HIDE DEF h, n0
  <2>6. (h \o got) \o rest = [i \in 1..n0 |-> i] /\ Len((h \o got) \o rest) = n0
    BY <2>2, <2>3, <2>5
  <2>7. \A i \in DOMAIN got : got[i] = Len(h) + i
    BY <2>4, <2>6, MiddleCounts
  <2> QED BY <2>7 DEF h
<1> HIDE DEF got
<1>7. Len(handled[c]) \in Nat /\ Len(handled[c]) % 2 = 0
  <2>1. Len(handled[c]) \in Nat
    BY <1>0
  <2> QED BY <2>1, Zenon DEF StreamInv, WholeMessages
<1>8. used \in 0..Len(got) /\ used % 2 = 0 /\ Len(got) - used <= 1
  BY <1>4, <1>6, <1>7, ConsumedIs
<1> HIDE DEF used
<1>9. /\ given \in Seq(Nat) /\ kept \in Seq(Nat) /\ given \o kept = got
      /\ Len(given) = used /\ Len(kept) = Len(got) - used
  BY <1>4, <1>8, CutAgain
<1> HIDE DEF given, kept
<1>10. StreamTypes'
  <2>1. handled[c] \o given \in Seq(Nat)
    BY <1>0, <1>9, Joined
  <2> QED BY <1>0, <1>2, <1>3, <1>9, <2>1 DEF StreamTypes
<1>11. Stream(c)' = Stream(c)
  <2>1. Stream(c)' = ((handled[c] \o given) \o kept) \o rest
    BY <1>3 DEF Stream
  <2>2. (handled[c] \o given) \o kept = handled[c] \o got
    BY <1>0, <1>9, Associative
  <2> QED BY <1>5, <2>1, <2>2
<1>12. Len(handled'[c]) % 2 = 0
  <2>1. Len(handled'[c]) = Len(handled[c]) + used
    BY <1>0, <1>3, <1>9, Joined
  <2>2. used \in Nat
    BY <1>4, <1>8
  <2>3. (Len(handled[c]) + used) % 2 = used % 2
    BY <1>7, <2>2, EvenSum
  <2> QED BY <1>8, <2>1, <2>3
<1> QED BY <1>3, <1>8, <1>9, <1>10, <1>11, <1>12

(* A display writes the next byte. *)
LEMMA WriteAdds ==
  ASSUME StreamInv, NEW c \in Connections,
         wire' = [wire EXCEPT ![c] = Append(@, Written(c) + 1)],
         UNCHANGED <<handled, received_buffer>>
  PROVE  StreamTypes' /\ Stream(c)' = [i \in 1..Written(c)' |-> i]
<1>0. /\ StreamTypes /\ wire[c] \in Seq(Nat) /\ received_buffer[c] \in Seq(Nat)
      /\ handled[c] \in Seq(Nat)
  BY DEF StreamInv, StreamTypes
<1> DEFINE w == Written(c) + 1
<1> DEFINE before == handled[c] \o received_buffer[c]
<1>1. /\ Stream(c) = before \o wire[c] /\ before \in Seq(Nat)
      /\ Stream(c) \in Seq(Nat) /\ Written(c) = Len(Stream(c))
      /\ Written(c) \in Nat /\ w \in Nat
  <2>1. before \in Seq(Nat)
    BY <1>0
  <2>2. Stream(c) = before \o wire[c]
    BY DEF Stream
  <2> HIDE DEF before
  <2>3. Stream(c) \in Seq(Nat)
    BY <1>0, <2>1, <2>2
  <2>4. Written(c) = Len(Stream(c))
    BY DEF Written
  <2>5. Written(c) \in Nat
    BY <2>3, <2>4
  <2> QED BY <2>1, <2>2, <2>3, <2>4, <2>5
<1>2. wire'[c] = Append(wire[c], w)
  BY <1>0 DEF StreamTypes
<1>3. Stream(c) = [i \in 1..Written(c) |-> i]
  BY DEF StreamInv, WholeMessages
<1> HIDE DEF w
<1>4. Stream(c)' = Append(Stream(c), w)
  <2>1. Stream(c)' = before \o Append(wire[c], w)
    BY <1>2 DEF Stream
  <2> HIDE DEF before
  <2>2. before \o Append(wire[c], w) = Append(before \o wire[c], w)
    BY <1>0, <1>1, AppendOutside
  <2> QED BY <1>1, <2>1, <2>2
<1>5. Append(Stream(c), w) = [i \in 1..(Written(c) + 1) |-> i]
  <2> DEFINE n == Written(c)
  <2>1. n \in Nat
    BY <1>1
  <2>2. Stream(c) = [i \in 1..n |-> i]
    BY <1>3
  <2>3. w = n + 1
    BY DEF w
  <2> HIDE DEF n
  <2>4. Append(Stream(c), w) = [i \in 1..(n + 1) |-> i]
    BY <2>1, <2>2, <2>3, CountOn
  <2> QED BY <2>4 DEF n
<1>6. Written(c)' = Written(c) + 1
  BY <1>1, <1>4 DEF Written
<1>7. StreamTypes'
  BY <1>0, <1>1 DEF StreamTypes, w
<1> QED BY <1>4, <1>5, <1>6, <1>7

(* Only recv and the displays touch the stream: RecvMoves and WriteAdds. *)
LEMMA StreamNext == StreamInv /\ [Next]_vars => StreamInv'
<1> SUFFICES ASSUME StreamInv, [Next]_vars PROVE StreamInv' OBVIOUS
<1>1. ASSUME UNCHANGED <<wire, received_buffer, handled>> PROVE StreamInv'
  BY <1>1 DEF StreamInv, StreamTypes, WholeMessages, Stream, Written
<1>2. ASSUME NEW c \in Connections, StreamTypes',
             Stream(c)' = [i \in 1..Written(c)' |-> i],
             Len(handled'[c]) % 2 = 0, Len(received_buffer'[c]) <= 1,
             \A d \in Connections : d # c =>
                wire'[d] = wire[d] /\ received_buffer'[d] = received_buffer[d]
                  /\ handled'[d] = handled[d]
      PROVE  StreamInv'
  BY <1>2 DEF StreamInv, WholeMessages, Stream, Written
<1>3. CASE Acceptor
  BY <1>1, <1>3, AcceptorLeaves
<1>4. CASE Owner \/ SenderEnds
  BY <1>1, <1>4, OwnerLeaves DEF loopVars, peerVars
<1>5. ASSUME NEW c \in Connections, Receiver(c) PROVE StreamInv'
  <2>1. CASE Recv(c)
    <3>1. /\ StreamTypes' /\ Stream(c)' = Stream(c)
          /\ Len(handled'[c]) % 2 = 0 /\ Len(received_buffer'[c]) <= 1
      BY <2>1, RecvMoves
    <3>2. Stream(c)' = [i \in 1..Written(c)' |-> i]
      BY <3>1 DEF StreamInv, WholeMessages, Written
    <3>3. \A d \in Connections : d # c =>
                wire'[d] = wire[d] /\ received_buffer'[d] = received_buffer[d]
                  /\ handled'[d] = handled[d]
      BY <2>1 DEF Recv, StreamInv, StreamTypes
    <3> QED BY <1>2, <3>1, <3>2, <3>3
  <2>2. CASE RecvEnds(c) \/ SendTo(c) \/ SendArrives(c) \/ SendFails(c)
               \/ ShutdownOwn(c) \/ Remove(c)
    BY <1>1, <2>2 DEF RecvEnds, SendTo, SendArrives, SendFails, EndSend,
       ShutdownOwn, Remove, peerVars
  <2> QED BY <1>5, <2>1, <2>2 DEF Receiver
<1>6. CASE Interrupt
  BY <1>1, <1>6 DEF Interrupt, UnchangedServer, loopVars, peerVars
<1>7. ASSUME NEW c \in Connections, Display(c) PROVE StreamInv'
  <2>1. CASE Connect(c) \/ Close(c)
    BY <1>1, <2>1 DEF Connect, Close, Moves, UnchangedServer, loopVars
  <2>2. CASE Write(c)
    <3>1. /\ wire' = [wire EXCEPT ![c] = Append(@, Written(c) + 1)]
          /\ UNCHANGED <<handled, received_buffer>>
      BY <2>2 DEF Write, UnchangedServer, loopVars
    <3>2. StreamTypes' /\ Stream(c)' = [i \in 1..Written(c)' |-> i]
      BY <3>1, WriteAdds
    <3>3. Len(handled'[c]) % 2 = 0 /\ Len(received_buffer'[c]) <= 1
      BY <3>1 DEF StreamInv, WholeMessages
    <3>4. \A d \in Connections : d # c => wire'[d] = wire[d]
      BY <3>1 DEF StreamInv, StreamTypes
    <3> QED BY <1>2, <3>1, <3>2, <3>3, <3>4
  <2> QED BY <1>7, <2>1, <2>2 DEF Display
<1>8. CASE UNCHANGED vars
  BY <1>1, <1>8 DEF vars, loopVars, peerVars
<1> QED BY <1>3, <1>4, <1>5, <1>6, <1>7, <1>8 DEF Next

(* However the stream is cut into packets, on_message gets every message     *)
(* once, whole and in order: for any number of connections and messages and  *)
(* packets of any size.                                                      *)
THEOREM MessagesStayWhole == Spec => []WholeMessages
<1>1. StreamInv => WholeMessages
  BY DEF StreamInv
<1> QED BY <1>1, StreamInit, StreamNext, PTL DEF Spec

=============================================================================
