--------------------------- MODULE VescLink_proofs ---------------------------
(***************************************************************************)
(* Proofs about VescLink: types, that the controllers get the limits of    *)
(* the profile, and that a thread that asks alone gets its own answers.    *)
(***************************************************************************)
EXTENDS VescLink, SequenceTheorems, TLAPS

(* The parts of TypeOK: a step shows those it changes. *)
ThreadTypes ==
  /\ pc \in [Askers -> {"ask", "lock", "read", "process", "copy",
                       "setPrimary", "setSecondary"}]
  /\ \A t \in Askers : pc[t] \in {"setPrimary", "setSecondary"} => t = "ipc"
  /\ target \in [Askers -> Controllers]
  /\ count \in [Askers -> Nat]
  /\ \A t \in Askers : count[t] <= MaxQuestions[t]
LockTypes ==
  /\ mtx \in Askers \cup {"free"}
  /\ \A t \in Askers : pc[t] = "read" <=> mtx = t
WireTypes ==
  /\ pending \in [Controllers -> Seq(Commands)]
  /\ rx \in Seq(Packets) /\ losses \in 0..MaxLosses
ReplyTypes ==
  /\ got \in [Askers -> Replies]
  /\ data \in Questions /\ data_mcconf \in Replies
  /\ stored \in [Askers -> [Controllers -> [answer : Questions,
                                            asked : Questions]]]
LimitTypes ==
  /\ profile \in Profiles /\ changes \in 0..MaxChanges
  /\ limits \in [Controllers -> AnyLimits]
  /\ spoiled \in BOOLEAN
  /\ late \in BOOLEAN

TypeInv == ThreadTypes /\ LockTypes /\ WireTypes /\ ReplyTypes /\ LimitTypes

-----------------------------------------------------------------------------
(* What the operators return *)

(* The parts of TypeInv give every conjunct of TypeOK. *)
LEMMA TypesAreTypes == TypeInv => TypeOK
<1>1. ASSUME ThreadTypes PROVE \A t \in Askers : count[t] \in 0..MaxQuestions[t]
  BY <1>1, QuestionsAssumption DEF ThreadTypes
<1> QED BY <1>1, Zenon DEF TypeInv, TypeOK, ThreadTypes, LockTypes, WireTypes,
           ReplyTypes, LimitTypes

(* What is asked is one of the questions. *)
LEMMA QuestionType ==
  ASSUME NEW t \in Askers, NEW c \in Controllers, NEW n \in Nat
  PROVE  Question(t, c, n) \in Questions
BY AskersAssumption DEF Question, Questions, Kind, Kinds

(* Every thread is the loop or one that serves a display. *)
LEMMA ThreadsAreTwo ==
  ASSUME NEW t \in Askers PROVE t \in {"vesc", "ipc"} /\ t # "free"
BY AskersAssumption

(* Half of a limit is a limit. *)
LEMMA ShareType ==
  ASSUME NEW p \in Profiles PROVE Share(p) \in Limits /\ Share(p) \in AnyLimits
BY LinkAssumption DEF Share, Limits, AnyLimits, distributeSettingsEvenlyBetweenDrivers

(* A set-command is never taken for a question. *)
LEMMA SetIsNoQuestion ==
  ASSUME NEW l PROVE SetLimits(l) \notin Questions /\ SetLimits(l).limits = l
BY DEF SetLimits, Questions, Kinds

(* A command that is no question carries limits. *)
LEMMA CommandsCarryLimits ==
  ASSUME NEW m \in Commands, m \notin Questions
  PROVE  m.limits \in AnyLimits
BY DEF Commands, SetLimits

(* A packet with a question in it is a reply. *)
LEMMA RepliesAreReplies ==
  ASSUME NEW p \in Packets, p.question \in Questions PROVE p \in Replies
<1>1. BadPacket.question \notin Questions /\ RestPacket.question \notin Questions
  BY DEF BadPacket, RestPacket, Reply, Questions, Kinds
<1> QED BY <1>1 DEF Packets

(* A read that ends without a reply still ends with a value. *)
LEMMA NoReplyType == NoReply \in Replies
BY DEF NoReply, Reply, Replies, Question, Questions, Kind, Kinds, Controllers,
   AnyLimits, OwnLimits

(* The threads are at their first step and no reply is under way. *)
LEMMA TypeInit == Init => TypeInv
<1> SUFFICES ASSUME Init PROVE TypeInv OBVIOUS
<1>1. Question("vesc", "primary", 0) \in Questions /\ Question("ipc", "primary", 0) \in Questions
  BY DEF Question, Questions, Kind, Kinds, Controllers
<1>2. profile \in Profiles /\ Share(profile) \in AnyLimits
  BY ProfilesAssumption, ShareType DEF Init
<1>3. ThreadTypes
  BY QuestionsAssumption DEF Init, ThreadTypes, Controllers
<1>4. LockTypes
  BY ThreadsAreTwo DEF Init, LockTypes
<1>5. WireTypes
  <2>1. SetLimits(Share(profile)) \in Commands
    BY <1>2 DEF Commands
  <2>2. pending \in [Controllers -> Seq(Commands)]
    BY <2>1 DEF Init
  <2> QED BY <2>2, QuestionsAssumption DEF Init, WireTypes
<1>6. ReplyTypes
  <2>1. got \in [Askers -> Replies]
    BY NoReplyType DEF Init
  <2>2. data_mcconf \in Replies
    BY <1>1, <1>2 DEF Init, Reply, Replies
  <2>3. \A t \in Askers, c \in Controllers :
          Nothing(t, c) \in [answer : Questions, asked : Questions]
    BY QuestionType DEF Nothing
  <2>4. stored \in [Askers -> [Controllers -> [answer : Questions, asked : Questions]]]
    <3>1. stored = [t \in Askers |-> [c \in Controllers |-> Nothing(t, c)]]
      BY DEF Init
    <3>2. \A t \in Askers : [c \in Controllers |-> Nothing(t, c)]
            \in [Controllers -> [answer : Questions, asked : Questions]]
      BY <2>3
    <3> QED BY <3>1, <3>2
  <2>5. data \in Questions
    BY <1>1 DEF Init
  <2> QED BY <2>1, <2>2, <2>4, <2>5 DEF ReplyTypes
<1>7. LimitTypes
  <2>1. OwnLimits \in AnyLimits
    BY DEF AnyLimits
  <2>2. limits \in [Controllers -> AnyLimits]
    BY <2>1 DEF Init
  <2>3. changes \in 0..MaxChanges
    BY QuestionsAssumption DEF Init
  <2> QED BY <1>2, <2>2, <2>3 DEF Init, LimitTypes
<1> QED BY <1>3, <1>4, <1>5, <1>6, <1>7 DEF TypeInv

(* A thread that goes on asks next, of one of the controllers. *)
LEMMA GoesOn ==
  ASSUME ThreadTypes, NEW t \in Askers, NEW b \in BOOLEAN, GoOn(t, b)
  PROVE  ThreadTypes' /\ pc'[t] = "ask" /\ \A u \in Askers : u # t => pc'[u] = pc[u]
<1>1. pc' = [pc EXCEPT ![t] = "ask"] /\ count' = count
  BY DEF GoOn
<1>2. target' \in [Askers -> Controllers]
  BY DEF GoOn, ThreadTypes, Controllers
<1> QED BY <1>1, <1>2 DEF ThreadTypes

(* A thread that reads lets the lock go. *)
LEMMA LetsGo ==
  ASSUME ThreadTypes, LockTypes, NEW t \in Askers, Unlock(t), pc'[t] # "read",
         \A u \in Askers : u # t => pc'[u] = pc[u]
  PROVE  LockTypes'
<1>1. mtx = t /\ mtx' = "free" /\ \A u \in Askers : u # "free"
  BY ThreadsAreTwo DEF Unlock
<1>2. \A u \in Askers : pc'[u] # "read"
  BY <1>1 DEF LockTypes
<1> QED BY <1>1, <1>2 DEF LockTypes

(* A thread that neither takes nor has the lock goes from step to step. *)
LEMMA StepsOn ==
  ASSUME ThreadTypes, LockTypes, NEW t \in Askers, pc[t] # "read",
         NEW next \in {"ask", "lock", "process", "copy", "setPrimary", "setSecondary"},
         pc' = [pc EXCEPT ![t] = next],
         next \in {"setPrimary", "setSecondary"} => t = "ipc",
         target' = target, count' = count, mtx' = mtx
  PROVE  ThreadTypes' /\ LockTypes'
BY DEF ThreadTypes, LockTypes

(* Commands that are handled and packets that are read leave the others. *)
LEMMA TailTypes ==
  ASSUME NEW S, NEW s \in Seq(S), s # <<>>
  PROVE  Head(s) \in S /\ Tail(s) \in Seq(S)
OBVIOUS

(* No step leaves the types: what each changes. *)
LEMMA TypeNext == TypeInv /\ [Next]_vars => TypeInv'
<1> SUFFICES ASSUME TypeInv, [Next]_vars PROVE TypeInv'
  OBVIOUS
<1>0. ThreadTypes /\ LockTypes /\ WireTypes /\ ReplyTypes /\ LimitTypes
  BY DEF TypeInv
<1>1. ASSUME NEW t \in Askers, Ask(t) PROVE TypeInv'
  <2>1. /\ pc[t] = "ask" /\ count[t] < MaxQuestions[t]
        /\ count' = [count EXCEPT ![t] = @ + 1] /\ pc' = [pc EXCEPT ![t] = "lock"]
        /\ pending' = [pending EXCEPT ![target[t]] =
                          Append(@, Question(t, target[t], count[t] + 1))]
        /\ UNCHANGED <<target, mtx, rx, losses, late, replyVars, limitVars>>
    BY <1>1 DEF Ask
  <2>2. count[t] \in Nat /\ target[t] \in Controllers
    BY <1>0 DEF ThreadTypes
  <2>3. Question(t, target[t], count[t] + 1) \in Commands
    BY <2>2, QuestionType DEF Commands
  <2>4. ThreadTypes'
    <3>1. count' \in [Askers -> Nat]
      BY <1>0, <2>1, <2>2 DEF ThreadTypes
    <3>2. count'[t] = count[t] + 1 /\ \A u \in Askers : u # t => count'[u] = count[u]
      BY <1>0, <2>1 DEF ThreadTypes
    <3>3. MaxQuestions[t] \in Nat
      BY QuestionsAssumption
    <3>4. count'[t] <= MaxQuestions[t]
      BY <2>1, <2>2, <3>2, <3>3
    <3>5. \A u \in Askers : count'[u] <= MaxQuestions[u]
      BY <1>0, <3>2, <3>4 DEF ThreadTypes
    <3>6. /\ pc' \in [Askers -> {"ask", "lock", "read", "process", "copy",
                                "setPrimary", "setSecondary"}]
          /\ \A u \in Askers : pc'[u] \in {"setPrimary", "setSecondary"} => u = "ipc"
          /\ target' \in [Askers -> Controllers]
      BY <1>0, <2>1 DEF ThreadTypes
    <3> QED BY <3>1, <3>5, <3>6, Zenon DEF ThreadTypes
  <2>5. LockTypes'
    BY <1>0, <2>1 DEF LockTypes, ThreadTypes
  <2>6. pending' \in [Controllers -> Seq(Commands)]
    <3>1. Append(pending[target[t]], Question(t, target[t], count[t] + 1)) \in Seq(Commands)
      BY <1>0, <2>2, <2>3 DEF WireTypes
    <3> QED BY <1>0, <2>1, <2>2, <3>1 DEF WireTypes
  <2> QED BY <1>0, <2>1, <2>4, <2>5, <2>6 DEF TypeInv, WireTypes, ReplyTypes,
             LimitTypes, replyVars, limitVars
<1>2. ASSUME NEW t \in Askers, Lock(t) PROVE TypeInv'
  <2>1. /\ pc[t] = "lock" /\ mtx = "free" /\ mtx' = t /\ pc' = [pc EXCEPT ![t] = "read"]
        /\ UNCHANGED <<target, count, linkVars, late, replyVars, limitVars>>
    BY <1>2 DEF Lock
  <2>2. ThreadTypes'
    BY <1>0, <2>1 DEF ThreadTypes
  <2>3. LockTypes'
    BY <1>0, <2>1, ThreadsAreTwo DEF LockTypes, ThreadTypes
  <2> QED BY <1>0, <2>1, <2>2, <2>3 DEF TypeInv, WireTypes, ReplyTypes,
             LimitTypes, linkVars, replyVars, limitVars
<1>3. ASSUME NEW t \in Askers, ReadPacket(t) PROVE TypeInv'
  <2>1. /\ Unlock(t) /\ rx # <<>> /\ Head(rx).question \in Questions
        /\ got' = [got EXCEPT ![t] = Head(rx)] /\ rx' = Tail(rx)
        /\ pc' = [pc EXCEPT ![t] = "process"]
        /\ UNCHANGED <<target, count, pending, losses, late, data, data_mcconf,
                        stored, limitVars>>
    BY <1>3 DEF ReadPacket
  <2>2. Head(rx) \in Replies /\ rx' \in Seq(Packets)
    BY <1>0, <2>1, TailTypes, RepliesAreReplies DEF WireTypes
  <2>3. ThreadTypes' /\ pc'[t] # "read" /\ \A u \in Askers : u # t => pc'[u] = pc[u]
    BY <1>0, <2>1 DEF ThreadTypes
  <2>4. LockTypes'
    BY <1>0, <2>1, <2>3, LetsGo
  <2>5. WireTypes' /\ ReplyTypes'
    BY <1>0, <2>1, <2>2 DEF WireTypes, ReplyTypes
  <2> QED BY <1>0, <2>1, <2>3, <2>4, <2>5 DEF TypeInv, LimitTypes, limitVars
<1>4. ASSUME NEW t \in Askers, ReadDamaged(t) \/ ReadMisaligned(t) \/ Timeout(t)
                                \/ TimeoutInPacket(t)
      PROVE  TypeInv'
  <2>1. Unlock(t) /\ GoOn(t, FALSE) /\ UNCHANGED <<losses, replyVars, limitVars>>
    BY <1>4 DEF ReadDamaged, ReadMisaligned, Timeout, TimeoutInPacket, linkVars
  <2>2. ThreadTypes' /\ LockTypes'
    BY <1>0, <2>1, GoesOn, LetsGo
  <2>3. rx' \in Seq(Packets)
    <3>1. RestPacket \in Packets
      BY DEF Packets
    <3>2. \/ (rx # <<>> /\ rx' = Tail(rx)) \/ rx' = <<>> \/ rx' = rx \/ rx' = <<RestPacket>>
      BY <1>4 DEF ReadDamaged, ReadMisaligned, Timeout, TimeoutInPacket, linkVars
    <3>3. rx \in Seq(Packets) /\ <<>> \in Seq(Packets) /\ <<RestPacket>> \in Seq(Packets)
      BY <1>0, <3>1 DEF WireTypes
    <3>4. rx # <<>> => Tail(rx) \in Seq(Packets)
      BY <3>3, TailTypes
    <3> QED BY <3>2, <3>3, <3>4, Zenon
  <2>4. pending' \in [Controllers -> Seq(Commands)]
    <3>1. CASE pending' = pending
      BY <1>0, <3>1 DEF WireTypes
    <3>2. CASE \E c \in Controllers :
                 pending[c] # <<>> /\ pending' = [pending EXCEPT ![c] = Tail(@)]
      BY <1>0, <3>2, TailTypes DEF WireTypes
    <3> QED BY <1>4, <3>1, <3>2 DEF ReadDamaged, ReadMisaligned, Timeout,
               TimeoutInPacket, linkVars
  <2>5. late' \in BOOLEAN
    <3>1. late \in BOOLEAN
      BY <1>0 DEF LimitTypes
    <3>2. late' = late \/ late' = TRUE \/ late' = (late \/ \E c \in Controllers : Unanswered(pending[c]))
      BY <1>4, Zenon DEF ReadDamaged, ReadMisaligned, Timeout, TimeoutInPacket
    <3> QED BY <3>1, <3>2, Zenon
  <2> QED BY <1>0, <2>1, <2>2, <2>3, <2>4, <2>5 DEF TypeInv, WireTypes,
             ReplyTypes, LimitTypes, replyVars, limitVars
<1>5. ASSUME NEW t \in Askers, ProcessReadPacket(t) PROVE TypeInv'
  <2>1. /\ pc[t] = "process" /\ pc' = [pc EXCEPT ![t] = "copy"]
        /\ got' = [got EXCEPT ![t] = NoReply]
        /\ UNCHANGED <<target, count, mtx, linkVars, late, stored, profile,
                        changes, limits>>
    BY <1>5 DEF ProcessReadPacket
  <2>2. ThreadTypes' /\ LockTypes'
    BY <1>0, <2>1, StepsOn
  <2>3. got[t] \in Replies /\ got[t].question \in Questions
    BY <1>0 DEF ReplyTypes, Replies
  <2>4. data' \in Questions /\ data_mcconf' \in Replies
    BY <1>0, <1>5, <2>3 DEF ProcessReadPacket, ReplyTypes
  <2>5. spoiled' \in BOOLEAN
    <3>1. spoiled \in BOOLEAN /\ (spoiled' = spoiled \/ spoiled' = (spoiled \/ Sending))
      BY <1>0, <1>5, Zenon DEF ProcessReadPacket, LimitTypes
    <3> QED BY <3>1, Zenon
  <2>6. ReplyTypes'
    BY <1>0, <2>1, <2>4, NoReplyType DEF ReplyTypes
  <2> QED BY <1>0, <2>1, <2>2, <2>5, <2>6 DEF TypeInv, WireTypes, LimitTypes, linkVars
<1>6. ASSUME NEW t \in Askers, Copy(t) PROVE TypeInv'
  <2> DEFINE copied == [answer |-> IF t = "vesc" THEN data ELSE data_mcconf.question,
                        asked  |-> Current(t)]
  <2>1. /\ pc[t] = "copy" /\ stored' = [stored EXCEPT ![t][target[t]] = copied]
        /\ GoOn(t, TRUE)
        /\ UNCHANGED <<mtx, linkVars, late, got, data, data_mcconf, limitVars>>
    BY <1>6 DEF Copy
  <2>2. ThreadTypes' /\ LockTypes'
    BY <1>0, <2>1, GoesOn DEF LockTypes
  <2>3. copied \in [answer : Questions, asked : Questions] /\ target[t] \in Controllers
    <3>1. target[t] \in Controllers /\ count[t] \in Nat
      BY <1>0 DEF ThreadTypes
    <3>2. Current(t) \in Questions
      BY <3>1, QuestionType DEF Current
    <3>3. data \in Questions /\ data_mcconf.question \in Questions
      BY <1>0 DEF ReplyTypes, Replies
    <3> QED BY <3>1, <3>2, <3>3
  <2>4. ReplyTypes'
    <3> HIDE DEF copied
    <3>1. stored' \in [Askers -> [Controllers -> [answer : Questions, asked : Questions]]]
      BY <1>0, <2>1, <2>3 DEF ReplyTypes
    <3> QED BY <1>0, <2>1, <3>1 DEF ReplyTypes
  <2> QED BY <1>0, <2>1, <2>2, <2>4 DEF TypeInv, WireTypes, LimitTypes, linkVars, limitVars
<1>7. ASSUME NEW p \in Profiles, SetProfile(p) PROVE TypeInv'
  <2>1. /\ "ipc" \in Askers /\ pc["ipc"] = "ask" /\ changes < MaxChanges
        /\ changes' = changes + 1 /\ profile' = p /\ spoiled' = FALSE
        /\ data_mcconf' = [data_mcconf EXCEPT !.limits = Share(p)]
        /\ pc' = [pc EXCEPT !["ipc"] = "setPrimary"]
        /\ UNCHANGED <<target, count, mtx, linkVars, late, got, data, stored, limits>>
    BY <1>7 DEF SetProfile
  <2>2. ThreadTypes' /\ LockTypes'
    BY <1>0, <2>1, StepsOn
  <2>3. data_mcconf' \in Replies
    BY <1>0, <2>1, ShareType DEF ReplyTypes, Replies
  <2>4. changes' \in 0..MaxChanges
    BY <1>0, <2>1, QuestionsAssumption DEF LimitTypes
  <2> QED BY <1>0, <2>1, <2>2, <2>3, <2>4 DEF TypeInv, WireTypes, ReplyTypes,
             LimitTypes, linkVars
<1>8. CASE SetPrimary \/ SetSecondary
  <2>1. PICK c \in Controllers, next \in {"ask", "setSecondary"} :
          /\ "ipc" \in Askers /\ pc["ipc"] # "read"
          /\ setMcconfTempValues(c) /\ pc' = [pc EXCEPT !["ipc"] = next]
          /\ UNCHANGED <<target, count, mtx, rx, losses, late, replyVars, limitVars>>
    <3>1. "primary" \in Controllers /\ "secondary" \in Controllers
      BY DEF Controllers
    <3> QED BY <1>8, <3>1 DEF SetPrimary, SetSecondary
  <2>2. ThreadTypes' /\ LockTypes'
    BY <1>0, <2>1, StepsOn
  <2>3. pending' \in [Controllers -> Seq(Commands)]
    <3>1. SetLimits(data_mcconf.limits) \in Commands
      BY <1>0 DEF ReplyTypes, Replies, Commands
    <3>2. Append(pending[c], SetLimits(data_mcconf.limits)) \in Seq(Commands)
      BY <1>0, <3>1 DEF WireTypes
    <3> QED BY <1>0, <2>1, <3>2 DEF WireTypes, setMcconfTempValues
  <2> QED BY <1>0, <2>1, <2>2, <2>3 DEF TypeInv, WireTypes, ReplyTypes,
             LimitTypes, replyVars, limitVars
<1>9. ASSUME NEW c \in Controllers, Answer(c) \/ Damage(c) \/ Lose(c) PROVE TypeInv'
  <2>1. PICK packets \in Seq(Packets) : pending[c] # <<>> /\ Arrives(c, packets)
    <3>1. CASE Answer(c)
      <4>1. Head(pending[c]) \in Questions /\ limits[c] \in AnyLimits
        BY <1>0, <3>1 DEF Answer, Asked, LimitTypes
      <4>2. Reply(Head(pending[c]), LimitsIn(c, Head(pending[c]))) \in Packets
        BY <4>1 DEF Reply, LimitsIn, Packets, Replies, AnyLimits
      <4>3. <<Reply(Head(pending[c]), LimitsIn(c, Head(pending[c])))>> \in Seq(Packets)
        BY <4>2
      <4>4. /\ pending[c] # <<>>
            /\ Arrives(c, <<Reply(Head(pending[c]), LimitsIn(c, Head(pending[c])))>>)
        BY <3>1, Zenon DEF Answer, Asked
      <4> QED BY <4>3, <4>4, Zenon
    <3>2. CASE Damage(c) \/ Lose(c)
      <4>1. <<BadPacket>> \in Seq(Packets) /\ <<>> \in Seq(Packets)
        BY DEF Packets
      <4> QED BY <3>2, <4>1 DEF Damage, Lose, Asked
    <3> QED BY <1>9, <3>1, <3>2
  <2>2. losses' \in 0..MaxLosses
    BY <1>0, <1>9, QuestionsAssumption DEF Answer, Damage, Lose, Loss, NoLoss, WireTypes
  <2>3. /\ pending' = [pending EXCEPT ![c] = Tail(@)] /\ rx' = rx \o packets
        /\ UNCHANGED <<threadVars, mtx, late, replyVars, limitVars>>
    BY <2>1 DEF Arrives
  <2>4. WireTypes'
    BY <1>0, <2>1, <2>2, <2>3, TailTypes DEF WireTypes
  <2> QED BY <1>0, <2>3, <2>4 DEF TypeInv, ThreadTypes, LockTypes, ReplyTypes,
             LimitTypes, threadVars, replyVars, limitVars
<1>10. ASSUME NEW c \in Controllers, TakeLimits(c) PROVE TypeInv'
  <2>1. /\ pending[c] # <<>> /\ Head(pending[c]) \notin Questions
        /\ pending' = [pending EXCEPT ![c] = Tail(@)]
        /\ \/ /\ limits' = [limits EXCEPT ![c] = Head(pending[c]).limits]
              /\ UNCHANGED <<spoiled, losses>>
           \/ /\ Loss /\ spoiled' = TRUE /\ UNCHANGED limits
        /\ UNCHANGED <<threadVars, mtx, rx, late, replyVars, profile, changes>>
    BY <1>10 DEF TakeLimits, Asked
  <2>2. Head(pending[c]).limits \in AnyLimits /\ pending' \in [Controllers -> Seq(Commands)]
    BY <1>0, <2>1, TailTypes, CommandsCarryLimits DEF WireTypes
  <2>3. losses' \in 0..MaxLosses
    BY <1>0, <2>1, QuestionsAssumption DEF Loss, WireTypes
  <2>4. limits' \in [Controllers -> AnyLimits] /\ spoiled' \in BOOLEAN
    BY <1>0, <2>1, <2>2 DEF LimitTypes
  <2> QED BY <1>0, <2>1, <2>2, <2>3, <2>4 DEF TypeInv, ThreadTypes, LockTypes,
             WireTypes, ReplyTypes, LimitTypes, threadVars, replyVars
<1>11. CASE UNCHANGED vars
  BY <1>0, <1>11 DEF vars, threadVars, linkVars, replyVars, limitVars, TypeInv,
     ThreadTypes, LockTypes, WireTypes, ReplyTypes, LimitTypes
<1> QED
  BY <1>1, <1>2, <1>3, <1>4, <1>5, <1>6, <1>7, <1>8, <1>9, <1>10, <1>11, Zenon
  DEF Next, Thread, ProfileCommand

(* Types, and the lock is held exactly by a thread that reads: for any       *)
(* numbers of questions, losses and profiles, with one controller or two.    *)
THEOREM VescLinkTypeCorrect == Spec => []TypeOK
BY TypeInit, TypeNext, TypesAreTypes, PTL DEF Spec

-----------------------------------------------------------------------------
(* The controllers get the limits of the profile *)

(* A question behind the other commands changes no limits. *)
LEMMA QuestionLeaves ==
  ASSUME NEW s \in Seq(Commands), NEW m \in Questions, NEW own, NEW l,
         Leaves(s, own, l)
  PROVE  Leaves(Append(s, m), own, l)
<1>1. SetsIn(Append(s, m)) = SetsIn(s)
  BY DEF SetsIn
<1>2. \A i \in SetsIn(s) : Append(s, m)[i] = s[i]
  BY DEF SetsIn
<1> QED BY <1>1, <1>2 DEF Leaves

(* Limits behind the other commands are those that stay. *)
LEMMA SetLeaves ==
  ASSUME NEW s \in Seq(Commands), NEW own, NEW l \in AnyLimits
  PROVE  Leaves(Append(s, SetLimits(l)), own, l)
<1> DEFINE r == Append(s, SetLimits(l))
<1>1. Len(s) + 1 \in DOMAIN r /\ r[Len(s) + 1] = SetLimits(l)
  OBVIOUS
<1>2. Len(s) + 1 \in SetsIn(r) /\ r[Len(s) + 1].limits = l
  BY <1>1, SetIsNoQuestion DEF SetsIn
<1>3. \A j \in SetsIn(r) : j <= Len(s) + 1
  BY DEF SetsIn
<1> QED BY <1>2, <1>3 DEF Leaves

(* The place of a command moves up when the first one is handled. *)
LEMMA SetsMoveUp ==
  ASSUME NEW s \in Seq(Commands), s # <<>>
  PROVE  /\ SetsIn(s) \subseteq Nat
         /\ \A i \in SetsIn(s) : i > 1 =>
                i - 1 \in SetsIn(Tail(s)) /\ Tail(s)[i - 1] = s[i]
         /\ \A j \in SetsIn(Tail(s)) : j + 1 \in SetsIn(s) /\ j \in Nat /\ j >= 1
BY DEF SetsIn

(* A question that is handled changes no limits. *)
LEMMA TailLeaves ==
  ASSUME NEW s \in Seq(Commands), s # <<>>, Head(s) \in Questions,
         NEW own, NEW l, Leaves(s, own, l)
  PROVE  Leaves(Tail(s), own, l)
<1>1. 1 \notin SetsIn(s) /\ \A i \in SetsIn(s) : i \in Nat /\ i > 1
  <2>1. 1 \notin SetsIn(s) /\ \A i \in SetsIn(s) : i \in 1..Len(s)
    BY DEF SetsIn
  <2> QED BY <2>1
<1>2. CASE SetsIn(s) = {}
  <2>1. SetsIn(Tail(s)) = {}
    BY <1>2, SetsMoveUp
  <2> QED BY <1>2, <2>1 DEF Leaves
<1>3. CASE SetsIn(s) # {}
  <2>1. PICK i \in SetsIn(s) : s[i].limits = l /\ \A j \in SetsIn(s) : j <= i
    BY <1>3 DEF Leaves
  <2>2. i - 1 \in SetsIn(Tail(s)) /\ Tail(s)[i - 1].limits = l
    BY <1>1, <2>1, SetsMoveUp
  <2>3. \A j \in SetsIn(Tail(s)) : j <= i - 1
    BY <1>1, <2>1, SetsMoveUp
  <2> QED BY <2>2, <2>3 DEF Leaves
<1> QED BY <1>2, <1>3

(* Limits that are handled become the controller's own. *)
LEMMA TakenLeaves ==
  ASSUME NEW s \in Seq(Commands), s # <<>>, Head(s) \notin Questions,
         NEW own, NEW l, Leaves(s, own, l)
  PROVE  Leaves(Tail(s), Head(s).limits, l)
<1>1. 1 \in SetsIn(s) /\ s[1] = Head(s)
  BY DEF SetsIn
<1>2. PICK i \in SetsIn(s) : s[i].limits = l /\ \A j \in SetsIn(s) : j <= i
  BY <1>1 DEF Leaves
<1>3. CASE i = 1
  <2>1. ASSUME NEW j \in SetsIn(Tail(s)) PROVE FALSE
    <3>1. j + 1 \in SetsIn(s) /\ j \in Nat /\ j >= 1
      BY SetsMoveUp
    <3>2. j + 1 <= 1
      BY <3>1, <1>2, <1>3
    <3> QED BY <3>1, <3>2
  <2> QED BY <1>1, <1>2, <1>3, <2>1, Zenon DEF Leaves
<1>4. CASE i # 1
  <2>1. i \in Nat /\ i > 1
    <3>1. i \in 1..Len(s)
      BY DEF SetsIn
    <3> QED BY <3>1, <1>4
  <2>2. i - 1 \in SetsIn(Tail(s)) /\ Tail(s)[i - 1].limits = l
    BY <1>2, <2>1, SetsMoveUp
  <2>3. \A j \in SetsIn(Tail(s)) : j <= i - 1
    BY <1>2, <2>1, SetsMoveUp
  <2> QED BY <2>2, <2>3 DEF Leaves
<1> QED BY <1>3, <1>4

(* The IPC thread fills data_mcconf, sends to the first controller and then *)
(* to the second: what holds at each of these steps.                        *)
Filled == Sending => data_mcconf.limits = Share(profile)
FirstSent ==
  \A t \in Askers : pc[t] = "setSecondary" =>
    /\ WillHave("primary", Share(profile))
    /\ distributeSettingsEvenlyBetweenDrivers(profile)
AllSent ==
  ~Sending => \A c \in Controllers :
                Addressed(c, profile) => WillHave(c, Share(profile))
FollowInv == ~spoiled => Filled /\ FirstSent /\ AllSent

(* The limits of the profile are the first thing each controller is sent. *)
LEMMA FollowInit == Init => FollowInv
<1> SUFFICES ASSUME Init PROVE FollowInv OBVIOUS
<1>1. ~Sending
  BY DEF Init, Sending
<1>2. ASSUME NEW c \in Controllers, Addressed(c, profile)
      PROVE  WillHave(c, Share(profile))
  <2>1. profile \in Profiles
    BY ProfilesAssumption DEF Init
  <2>2. Share(profile) \in AnyLimits /\ <<>> \in Seq(Commands)
    BY <2>1, ShareType
  <2>3. pending[c] = Append(<<>>, SetLimits(Share(profile)))
    BY <1>2 DEF Init
  <2> QED BY <2>2, <2>3, SetLeaves DEF WillHave
<1>3. \A t \in Askers : pc[t] # "setSecondary"
  BY DEF Init
<1> QED BY <1>1, <1>2, <1>3 DEF FollowInv, Filled, FirstSent, AllSent

(* Threads that are or are not sending stay so: what a step must keep. *)
LEMMA FollowKept ==
  ASSUME FollowInv, spoiled' = spoiled, profile' = profile,
         \A t \in Askers : \A s \in {"setPrimary", "setSecondary"} : pc'[t] = s <=> pc[t] = s,
         Sending => data_mcconf'.limits = data_mcconf.limits,
         \A c \in Controllers : WillHave(c, Share(profile)) => WillHave(c, Share(profile))'
  PROVE  FollowInv'
<1>1. Sending' <=> Sending
  BY DEF Sending
<1>2. Share(profile)' = Share(profile) /\ "primary" \in Controllers
  BY DEF Share, distributeSettingsEvenlyBetweenDrivers, Controllers
<1>3. ASSUME ~spoiled PROVE Filled' /\ FirstSent' /\ AllSent'
  <2>1. Filled /\ FirstSent /\ AllSent
    BY <1>3 DEF FollowInv
  <2>2. Filled'
    BY <1>1, <1>2, <2>1 DEF Filled
  <2>3. FirstSent'
    BY <1>2, <2>1 DEF FirstSent, distributeSettingsEvenlyBetweenDrivers
  <2>4. AllSent'
    BY <1>1, <1>2, <2>1 DEF AllSent, Addressed, distributeSettingsEvenlyBetweenDrivers
  <2> QED BY <2>2, <2>3, <2>4
<1> QED BY <1>3 DEF FollowInv

(* Every step keeps what was sent, is being sent or is yet to be sent in line. *)
LEMMA FollowNext == TypeInv /\ FollowInv /\ [Next]_vars => FollowInv'
<1> SUFFICES ASSUME TypeInv, FollowInv, [Next]_vars PROVE FollowInv'
  OBVIOUS
<1>0. ThreadTypes /\ LockTypes /\ WireTypes /\ ReplyTypes /\ LimitTypes
  BY DEF TypeInv
<1> DEFINE Same == \A c \in Controllers :
             WillHave(c, Share(profile)) => WillHave(c, Share(profile))'
<1>a. ASSUME profile' = profile, limits' = limits, pending' = pending PROVE Same
  BY <1>a DEF WillHave, Share, distributeSettingsEvenlyBetweenDrivers
<1>b. ASSUME profile' = profile, limits' = limits, NEW k \in Controllers,
             pending[k] # <<>>, Head(pending[k]) \in Questions,
             pending' = [pending EXCEPT ![k] = Tail(@)]
      PROVE  Same
  <2> SUFFICES ASSUME NEW c \in Controllers, WillHave(c, Share(profile))
               PROVE  WillHave(c, Share(profile))'
    OBVIOUS
  <2>1. Share(profile)' = Share(profile)
    BY <1>b DEF Share, distributeSettingsEvenlyBetweenDrivers
  <2>2. pending \in [Controllers -> Seq(Commands)]
    BY <1>0 DEF WireTypes
  <2>3. CASE c = k
    <3>1. pending'[c] = Tail(pending[c]) /\ pending[c] \in Seq(Commands)
      BY <1>b, <2>2, <2>3
    <3>2. Leaves(Tail(pending[c]), limits[c], Share(profile))
      BY <1>b, <2>3, <3>1, TailLeaves DEF WillHave
    <3> QED BY <1>b, <2>1, <3>1, <3>2 DEF WillHave
  <2>4. CASE c # k
    BY <1>b, <2>1, <2>2, <2>4 DEF WillHave
  <2> QED BY <2>3, <2>4
<1> HIDE DEF Same
<1>1. ASSUME NEW t \in Askers, Ask(t) PROVE FollowInv'
  <2>1. /\ pc[t] = "ask" /\ pc' = [pc EXCEPT ![t] = "lock"]
        /\ pending' = [pending EXCEPT ![target[t]] =
                          Append(@, Question(t, target[t], count[t] + 1))]
        /\ UNCHANGED <<replyVars, limitVars>>
    BY <1>1 DEF Ask
  <2>2. Question(t, target[t], count[t] + 1) \in Questions
    <3>1. target[t] \in Controllers /\ count[t] + 1 \in Nat
      BY <1>0 DEF ThreadTypes
    <3> QED BY <3>1, QuestionType
  <2>3. \A c \in Controllers : WillHave(c, Share(profile)) => WillHave(c, Share(profile))'
    <3> SUFFICES ASSUME NEW c \in Controllers, WillHave(c, Share(profile))
                 PROVE  WillHave(c, Share(profile))'
      OBVIOUS
    <3>1. limits' = limits /\ Share(profile)' = Share(profile)
      BY <2>1 DEF limitVars, Share, distributeSettingsEvenlyBetweenDrivers
    <3>2. pending \in [Controllers -> Seq(Commands)]
      BY <1>0 DEF WireTypes
    <3>3. CASE c = target[t]
      <4>1. pending'[c] = Append(pending[c], Question(t, target[t], count[t] + 1))
        BY <2>1, <3>2, <3>3
      <4>2. Leaves(pending'[c], limits[c], Share(profile))
        BY <2>2, <3>2, <4>1, QuestionLeaves DEF WillHave
      <4> QED BY <3>1, <4>2 DEF WillHave
    <3>4. CASE c # target[t]
      BY <2>1, <3>1, <3>2, <3>4 DEF WillHave
    <3> QED BY <3>3, <3>4
  <2>4. \A u \in Askers : \A s \in {"setPrimary", "setSecondary"} : pc'[u] = s <=> pc[u] = s
    BY <1>0, <2>1 DEF ThreadTypes
  <2> QED BY <2>1, <2>3, <2>4, FollowKept DEF replyVars, limitVars
<1>2. ASSUME NEW t \in Askers,
             Lock(t) \/ ReadPacket(t) \/ ReadDamaged(t) \/ ReadMisaligned(t)
               \/ Timeout(t) \/ TimeoutInPacket(t) \/ Copy(t)
      PROVE  FollowInv'
  <2>1. UNCHANGED limitVars /\ data_mcconf' = data_mcconf
    BY <1>2 DEF Lock, ReadPacket, ReadDamaged, ReadMisaligned, Timeout,
       TimeoutInPacket, Copy, replyVars
  <2>2. PICK next \in {"read", "process", "ask"} :
          pc[t] \in {"lock", "read", "copy"} /\ pc' = [pc EXCEPT ![t] = next]
    BY <1>2 DEF Lock, ReadPacket, ReadDamaged, ReadMisaligned, Timeout,
       TimeoutInPacket, Copy, Unlock, GoOn
  <2>3. \A u \in Askers : \A s \in {"setPrimary", "setSecondary"} : pc'[u] = s <=> pc[u] = s
    BY <1>0, <2>2 DEF ThreadTypes
  <2>4. Same
    <3>1. CASE pending' = pending
      BY <1>a, <2>1, <3>1 DEF limitVars
    <3>2. CASE TimeoutInPacket(t)
      BY <1>b, <2>1, <3>2 DEF limitVars, TimeoutInPacket
    <3> QED BY <1>2, <3>1, <3>2 DEF Lock, ReadPacket, ReadDamaged,
               ReadMisaligned, Timeout, Copy, linkVars
  <2> QED BY <2>1, <2>3, <2>4, FollowKept DEF limitVars, Same
<1>3. ASSUME NEW t \in Askers, ProcessReadPacket(t) PROVE FollowInv'
  <2>1. /\ pc[t] = "process" /\ pc' = [pc EXCEPT ![t] = "copy"]
        /\ UNCHANGED <<pending, profile, limits>>
        /\ \/ UNCHANGED <<data_mcconf, spoiled>>
           \/ spoiled' = (spoiled \/ Sending)
    BY <1>3 DEF ProcessReadPacket, linkVars
  <2>2. \A u \in Askers : \A s \in {"setPrimary", "setSecondary"} : pc'[u] = s <=> pc[u] = s
    BY <1>0, <2>1 DEF ThreadTypes
  <2>3. Same
    BY <1>a, <2>1
  <2>4. CASE UNCHANGED <<data_mcconf, spoiled>>
    BY <2>1, <2>2, <2>3, <2>4, FollowKept DEF Same
  <2>5. CASE spoiled' = (spoiled \/ Sending)
    <3>1. CASE Sending
      BY <2>5, <3>1, Zenon DEF FollowInv
    <3>2. CASE ~Sending
      <4>1. spoiled' = spoiled
        <5>1. spoiled \in BOOLEAN
          BY <1>0, Zenon DEF LimitTypes
        <5> QED BY <2>5, <3>2, <5>1, Zenon
      <4> QED BY <2>1, <2>2, <2>3, <3>2, <4>1, FollowKept DEF Same
    <3> QED BY <3>1, <3>2
  <2> QED BY <2>1, <2>4, <2>5
<1>4. ASSUME NEW p \in Profiles, SetProfile(p) PROVE FollowInv'
  <2>1. /\ "ipc" \in Askers /\ pc["ipc"] = "ask" /\ profile' = p
        /\ data_mcconf' = [data_mcconf EXCEPT !.limits = Share(p)]
        /\ pc' = [pc EXCEPT !["ipc"] = "setPrimary"]
    BY <1>4 DEF SetProfile
  <2>2. pc'["ipc"] = "setPrimary" /\ \A t \in Askers : t # "ipc" => pc'[t] = pc[t]
    BY <1>0, <2>1 DEF ThreadTypes
  <2>3. Sending'
    BY <2>1, <2>2 DEF Sending
  <2>4. Filled'
    <3>1. data_mcconf'.limits = Share(p)
      BY <1>0, <2>1 DEF ReplyTypes, Replies
    <3> QED BY <2>1, <3>1 DEF Filled, Share, distributeSettingsEvenlyBetweenDrivers
  <2>5. FirstSent'
    BY <1>0, <2>1, <2>2 DEF ThreadTypes, FirstSent
  <2> QED BY <2>3, <2>4, <2>5 DEF FollowInv, AllSent
<1>5. ASSUME SetPrimary PROVE FollowInv'
  <2>1. /\ "ipc" \in Askers /\ pc["ipc"] = "setPrimary"
        /\ pending' = [pending EXCEPT !["primary"] = Append(@, SetLimits(data_mcconf.limits))]
        /\ pc' = [pc EXCEPT !["ipc"] =
                     IF distributeSettingsEvenlyBetweenDrivers(profile)
                     THEN "setSecondary" ELSE "ask"]
        /\ UNCHANGED <<replyVars, limitVars>>
    BY <1>5 DEF SetPrimary, setMcconfTempValues
  <2> SUFFICES ASSUME ~spoiled PROVE Filled' /\ FirstSent' /\ AllSent'
    BY <2>1, Zenon DEF FollowInv, limitVars
  <2>2. Sending /\ data_mcconf.limits = Share(profile)
    BY <2>1 DEF FollowInv, Filled, Sending
  <2>3. /\ UNCHANGED <<data_mcconf, profile, limits>>
        /\ Share(profile)' = Share(profile)
    BY <2>1 DEF replyVars, limitVars, Share, distributeSettingsEvenlyBetweenDrivers
  <2>4. Filled'
    BY <2>2, <2>3 DEF Filled
  <2>5. WillHave("primary", Share(profile))'
    <3>1. pending["primary"] \in Seq(Commands) /\ "primary" \in DOMAIN pending
      BY <1>0 DEF WireTypes, Controllers
    <3>2. Share(profile) \in AnyLimits
      BY <1>0, ShareType DEF LimitTypes
    <3>3. pending'["primary"] = Append(pending["primary"], SetLimits(Share(profile)))
      BY <2>1, <2>2, <3>1
    <3>4. Leaves(pending'["primary"], limits["primary"], Share(profile))
      BY <3>1, <3>2, <3>3, SetLeaves
    <3> QED BY <2>3, <3>4 DEF WillHave
  <2>6. \A t \in Askers : pc'[t] = "setSecondary" =>
              distributeSettingsEvenlyBetweenDrivers(profile)
    BY <1>0, <2>1 DEF ThreadTypes
  <2>7. FirstSent'
    BY <2>3, <2>5, <2>6 DEF FirstSent, distributeSettingsEvenlyBetweenDrivers
  <2>8. ASSUME ~Sending', NEW c \in Controllers, Addressed(c, profile)'
        PROVE  WillHave(c, Share(profile))'
    <3>1. pc'["ipc"] # "setSecondary"
      BY <2>1, <2>8 DEF Sending
    <3>2. ~distributeSettingsEvenlyBetweenDrivers(profile)
      BY <1>0, <2>1, <3>1 DEF ThreadTypes
    <3>3. c = "primary"
      BY <2>3, <2>8, <3>2 DEF Addressed, distributeSettingsEvenlyBetweenDrivers
    <3> QED BY <2>5, <3>3
  <2> QED BY <2>4, <2>7, <2>8 DEF AllSent
<1>6. ASSUME SetSecondary PROVE FollowInv'
  <2>1. /\ "ipc" \in Askers /\ pc["ipc"] = "setSecondary"
        /\ pending' = [pending EXCEPT !["secondary"] = Append(@, SetLimits(data_mcconf.limits))]
        /\ pc' = [pc EXCEPT !["ipc"] = "ask"]
        /\ UNCHANGED <<replyVars, limitVars>>
    BY <1>6 DEF SetSecondary, setMcconfTempValues
  <2> SUFFICES ASSUME ~spoiled PROVE Filled' /\ FirstSent' /\ AllSent'
    BY <2>1, Zenon DEF FollowInv, limitVars
  <2>2. /\ Sending /\ data_mcconf.limits = Share(profile)
        /\ WillHave("primary", Share(profile))
    BY <2>1 DEF FollowInv, Filled, FirstSent, Sending
  <2>3. /\ UNCHANGED <<data_mcconf, profile, limits>>
        /\ Share(profile)' = Share(profile)
    BY <2>1 DEF replyVars, limitVars, Share, distributeSettingsEvenlyBetweenDrivers
  <2>4. pending \in [Controllers -> Seq(Commands)]
    BY <1>0 DEF WireTypes
  <2>5. WillHave("primary", Share(profile))'
    <3>1. pending'["primary"] = pending["primary"]
      BY <2>1, <2>4
    <3> QED BY <2>2, <2>3, <3>1 DEF WillHave
  <2>6. WillHave("secondary", Share(profile))'
    <3>1. pending["secondary"] \in Seq(Commands) /\ "secondary" \in DOMAIN pending
      BY <2>4 DEF Controllers
    <3>2. Share(profile) \in AnyLimits
      BY <1>0, ShareType DEF LimitTypes
    <3>3. pending'["secondary"] = Append(pending["secondary"], SetLimits(Share(profile)))
      BY <2>1, <2>2, <3>1
    <3>4. Leaves(pending'["secondary"], limits["secondary"], Share(profile))
      BY <3>1, <3>2, <3>3, SetLeaves
    <3> QED BY <2>3, <3>4 DEF WillHave
  <2>7. \A t \in Askers : pc'[t] \notin {"setPrimary", "setSecondary"}
    BY <1>0, <2>1 DEF ThreadTypes
  <2> QED BY <2>2, <2>3, <2>5, <2>6, <2>7 DEF Filled, FirstSent, AllSent, Controllers
<1>7. ASSUME NEW k \in Controllers, Answer(k) \/ Damage(k) \/ Lose(k) PROVE FollowInv'
  <2>1. /\ pending[k] # <<>> /\ Head(pending[k]) \in Questions
        /\ pending' = [pending EXCEPT ![k] = Tail(@)]
        /\ UNCHANGED <<threadVars, replyVars, limitVars>>
    BY <1>7 DEF Answer, Damage, Lose, Asked, Arrives
  <2>2. Same
    BY <1>b, <2>1 DEF limitVars
  <2> QED BY <2>1, <2>2, FollowKept DEF threadVars, replyVars, limitVars, Same
<1>8. ASSUME NEW k \in Controllers, TakeLimits(k) PROVE FollowInv'
  <2>1. /\ pending[k] # <<>> /\ Head(pending[k]) \notin Questions
        /\ pending' = [pending EXCEPT ![k] = Tail(@)]
        /\ UNCHANGED <<threadVars, replyVars, profile>>
        /\ \/ /\ limits' = [limits EXCEPT ![k] = Head(pending[k]).limits]
              /\ UNCHANGED spoiled
           \/ spoiled' = TRUE
    BY <1>8 DEF TakeLimits, Asked
  <2>2. CASE spoiled' = TRUE
    BY <2>2 DEF FollowInv
  <2>3. CASE limits' = [limits EXCEPT ![k] = Head(pending[k]).limits] /\ UNCHANGED spoiled
    <3>1. ASSUME NEW c \in Controllers, WillHave(c, Share(profile))
          PROVE  WillHave(c, Share(profile))'
      <4>1. Share(profile)' = Share(profile)
        BY <2>1 DEF Share, distributeSettingsEvenlyBetweenDrivers
      <4>2. /\ pending \in [Controllers -> Seq(Commands)]
            /\ limits \in [Controllers -> AnyLimits]
        BY <1>0 DEF WireTypes, LimitTypes
      <4>3. CASE c = k
        <5>1. /\ pending'[c] = Tail(pending[c]) /\ limits'[c] = Head(pending[c]).limits
              /\ pending[c] \in Seq(Commands) /\ pending[c] # <<>>
              /\ Head(pending[c]) \notin Questions
          BY <2>1, <2>3, <4>2, <4>3
        <5>2. Leaves(Tail(pending[c]), Head(pending[c]).limits, Share(profile))
          BY <3>1, <5>1, TakenLeaves DEF WillHave
        <5> QED BY <4>1, <5>1, <5>2 DEF WillHave
      <4>4. CASE c # k
        BY <2>1, <2>3, <3>1, <4>1, <4>2, <4>4 DEF WillHave
      <4> QED BY <4>3, <4>4
    <3> QED BY <2>1, <2>3, <3>1, FollowKept DEF threadVars, replyVars
  <2> QED BY <2>1, <2>2, <2>3
<1>9. CASE UNCHANGED vars
  BY <1>9, <1>a, FollowKept DEF vars, threadVars, linkVars, replyVars, limitVars, Same
<1> QED
  BY <1>1, <1>2, <1>3, <1>4, <1>5, <1>6, <1>7, <1>8, <1>9, Zenon
  DEF Next, Thread, ProfileCommand

(* Who drives is sent the limits, the second controller in a profile for a   *)
(* single motor excepted.                                                    *)
LEMMA DrivingAddressed ==
  ASSUME NEW p, NEW c \in Driving(p), ~LeftOut(c, p)
  PROVE  c \in Controllers /\ Addressed(c, p)
BY MotorsAssumption DEF Driving, LeftOut, Addressed, Controllers,
   distributeSettingsEvenlyBetweenDrivers

(* The controllers that the vesc thread drives under the current profile     *)
(* have, or have under way, its limits, unless those were overwritten or     *)
(* lost, and save for a second controller that drives alone: for any number  *)
(* of questions, losses, late replies and changes of profile.                *)
THEOREM LimitsReachControllers == Spec => []LimitsFollowProfile
<1>1. FollowInv => LimitsFollowProfile
  <2>1. FollowInv /\ ~spoiled /\ ~Sending =>
          \A c \in Controllers : Addressed(c, profile) => WillHave(c, Share(profile))
    BY DEF FollowInv, AllSent
  <2> QED BY <2>1, DrivingAddressed DEF LimitsFollowProfile
<1> QED BY <1>1, TypeInit, TypeNext, FollowInit, FollowNext, PTL DEF Spec

-----------------------------------------------------------------------------
(* A thread that asks alone gets the answers to its own questions *)

None(s) == \A i \in DOMAIN s : s[i] \notin Questions
One(s, q) == \E k \in DOMAIN s :
               s[k] = q /\ \A i \in DOMAIN s : s[i] \in Questions => i = k

(* What is written behind the other commands. *)
LEMMA AppendKeepsNone ==
  ASSUME NEW s \in Seq(Commands), NEW m, m \notin Questions, None(s)
  PROVE  None(Append(s, m))
BY DEF None
(* A message that is no reply adds no reply to the line. *)
LEMMA AppendKeepsOne ==
  ASSUME NEW s \in Seq(Commands), NEW m, m \notin Questions, NEW q, One(s, q)
  PROVE  One(Append(s, m), q)
<1>1. PICK k \in DOMAIN s :
        s[k] = q /\ \A i \in DOMAIN s : s[i] \in Questions => i = k
  BY DEF One
<1>2. k \in DOMAIN Append(s, m) /\ Append(s, m)[k] = q
  BY <1>1
<1>3. \A i \in DOMAIN Append(s, m) : Append(s, m)[i] \in Questions => i = k
  BY <1>1
<1> QED BY <1>2, <1>3 DEF One
(* A reply on a line without one is the only one. *)
LEMMA AppendMakesOne ==
  ASSUME NEW s \in Seq(Commands), NEW q \in Questions, None(s)
  PROVE  One(Append(s, q), q)
<1>1. Len(s) + 1 \in DOMAIN Append(s, q) /\ Append(s, q)[Len(s) + 1] = q
  OBVIOUS
<1>2. \A i \in DOMAIN Append(s, q) : Append(s, q)[i] \in Questions => i = Len(s) + 1
  BY DEF None
<1> QED BY <1>1, <1>2 DEF One

(* What is handled first. *)
LEMMA TailKeepsNone ==
  ASSUME NEW s \in Seq(Commands), s # <<>>, None(s)
  PROVE  None(Tail(s)) /\ Head(s) \notin Questions
BY DEF None
(* What is left of a line after its first message. *)
LEMMA TailOfOne ==
  ASSUME NEW s \in Seq(Commands), s # <<>>, NEW q, One(s, q)
  PROVE  IF Head(s) \in Questions THEN Head(s) = q /\ None(Tail(s))
         ELSE One(Tail(s), q) \/ q \notin Questions
<1>1. PICK k \in DOMAIN s :
        s[k] = q /\ \A i \in DOMAIN s : s[i] \in Questions => i = k
  BY DEF One
<1>2. /\ 1 \in DOMAIN s /\ Head(s) = s[1] /\ k \in Nat /\ k >= 1
      /\ \A i \in DOMAIN Tail(s) : i \in Nat /\ i + 1 \in DOMAIN s /\ i + 1 # 1 /\ Tail(s)[i] = s[i + 1]
  OBVIOUS
<1>3. CASE Head(s) \in Questions
  BY <1>1, <1>2, <1>3 DEF None
<1>4. CASE Head(s) \notin Questions /\ q \in Questions
  <2>1. k # 1 /\ k - 1 \in DOMAIN Tail(s) /\ Tail(s)[k - 1] = q
    BY <1>1, <1>2, <1>4
  <2>2. \A i \in DOMAIN Tail(s) : Tail(s)[i] \in Questions => i = k - 1
    BY <1>1, <1>2
  <2> QED BY <1>4, <2>1, <2>2 DEF One
<1> QED BY <1>3, <1>4

(* On the wire: no question, or one. *)
NoneAsked == \A c \in Controllers : None(pending[c])
OneAsked(q) == \A c \in Controllers :
                 IF c = q.to THEN One(pending[c], q) ELSE None(pending[c])
Answered(q) == NoneAsked /\ (rx # <<>> => \E p :
                 rx = <<p>> /\ (p = BadPacket \/ p.question = q))
VescAsks ==
  LET q == Current("vesc")
  IN  CASE pc["vesc"] = "ask" -> NoneAsked /\ rx = <<>>
        [] pc["vesc"] \in {"lock", "read"} ->
             (OneAsked(q) /\ rx = <<>>) \/ Answered(q)
        [] pc["vesc"] = "process" ->
             NoneAsked /\ rx = <<>> /\ got["vesc"].question = q
        [] pc["vesc"] = "copy" -> NoneAsked /\ rx = <<>> /\ data = q
        [] OTHER -> FALSE
OthersOnlySet ==
  \A t \in Askers \ {"vesc"} :
    count[t] = 0 => pc[t] \in {"ask", "setPrimary", "setSecondary"}
AloneInv ==
  /\ OthersOnlySet
  /\ Alone /\ ~late =>
       AnswersTheQuestion /\ ("vesc" \in Askers => VescAsks)

(* Nothing was asked yet. *)
LEMMA AloneInit == Init => AloneInv
<1> SUFFICES ASSUME Init PROVE AloneInv OBVIOUS
<1>1. OthersOnlySet
  BY DEF Init, OthersOnlySet
<1>2. AnswersTheQuestion
  BY DEF Init, AnswersTheQuestion, Nothing
<1>3. NoneAsked
  <2>1. \A c \in Controllers : pending[c] = <<>> \/ pending[c] = <<SetLimits(Share(profile))>>
    BY DEF Init
  <2>2. None(<<>>) /\ None(<<SetLimits(Share(profile))>>)
    BY SetIsNoQuestion DEF None
  <2> QED BY <2>1, <2>2 DEF NoneAsked
<1>4. "vesc" \in Askers => VescAsks
  BY <1>3 DEF Init, VescAsks
<1> QED BY <1>1, <1>2, <1>4 DEF AloneInv

(* Commands that are no questions come and go without changing that. *)
LEMMA AskedKept ==
  ASSUME WireTypes, NEW c \in Controllers, NEW q \in Questions,
         \/ \E l \in AnyLimits : pending' = [pending EXCEPT ![c] = Append(@, SetLimits(l))]
         \/ /\ pending[c] # <<>> /\ Head(pending[c]) \notin Questions
            /\ pending' = [pending EXCEPT ![c] = Tail(@)]
  PROVE  (NoneAsked => NoneAsked') /\ (OneAsked(q) => OneAsked(q)')
<1>1. pending \in [Controllers -> Seq(Commands)]
  BY DEF WireTypes
<1>2. \A k \in Controllers : k # c => pending'[k] = pending[k]
  BY <1>1
<1>3. /\ None(pending[c]) => None(pending'[c])
      /\ One(pending[c], q) => One(pending'[c], q)
  <2>1. ASSUME NEW l \in AnyLimits, pending'[c] = Append(pending[c], SetLimits(l))
        PROVE  /\ None(pending[c]) => None(pending'[c])
               /\ One(pending[c], q) => One(pending'[c], q)
    BY <1>1, <2>1, SetIsNoQuestion, AppendKeepsNone, AppendKeepsOne
  <2>2. CASE /\ pending[c] # <<>> /\ Head(pending[c]) \notin Questions
             /\ pending'[c] = Tail(pending[c])
    BY <1>1, <2>2, TailKeepsNone, TailOfOne
  <2> QED BY <1>1, <2>1, <2>2
<1> QED BY <1>2, <1>3 DEF NoneAsked, OneAsked

(* A step of a thread leaves the other threads where they are. *)
LEMMA OthersStay ==
  ASSUME ThreadTypes, NEW t \in Askers, Thread(t)
  PROVE  /\ \A u \in Askers : u # t =>
              pc'[u] = pc[u] /\ count'[u] = count[u] /\ target'[u] = target[u]
         /\ count'[t] = count[t] \/ (Ask(t) /\ count'[t] = count[t] + 1)
         /\ pc[t] \notin {"setPrimary", "setSecondary"}
         /\ pc[t] = "ask" => Ask(t)
<1>1. CASE Ask(t)
  BY <1>1 DEF Ask, ThreadTypes
<1>2. ASSUME Lock(t) \/ ReadPacket(t) \/ ProcessReadPacket(t)
      PROVE  /\ \E next \in {"read", "process", "copy"} : pc' = [pc EXCEPT ![t] = next]
             /\ target' = target /\ count' = count
             /\ pc[t] \in {"lock", "read", "process"}
  BY <1>2 DEF Lock, ReadPacket, ProcessReadPacket, Unlock
<1>3. ASSUME ReadDamaged(t) \/ ReadMisaligned(t) \/ Timeout(t) \/ TimeoutInPacket(t)
               \/ Copy(t)
      PROVE  /\ \E b \in BOOLEAN : GoOn(t, b)
             /\ pc[t] \in {"read", "copy"}
  BY <1>3 DEF ReadDamaged, ReadMisaligned, Timeout, TimeoutInPacket, Copy, Unlock
<1>4. ASSUME NEW b \in BOOLEAN, GoOn(t, b)
      PROVE  \A u \in Askers : u # t =>
              pc'[u] = pc[u] /\ count'[u] = count[u] /\ target'[u] = target[u]
  BY <1>4 DEF GoOn, ThreadTypes
<1>5. CASE Lock(t) \/ ReadPacket(t) \/ ProcessReadPacket(t)
  BY <1>2, <1>5 DEF ThreadTypes
<1>6. CASE ReadDamaged(t) \/ ReadMisaligned(t) \/ Timeout(t) \/ TimeoutInPacket(t)
               \/ Copy(t)
  <2>1. count' = count
    BY <1>3, <1>6 DEF GoOn
  <2> QED BY <1>3, <1>4, <1>6, <2>1
<1> QED BY <1>1, <1>5, <1>6, Zenon DEF Thread

(* The thread that only sets asks nothing. *)
LEMMA OthersNext == TypeInv /\ OthersOnlySet /\ [Next]_vars => OthersOnlySet'
<1> SUFFICES ASSUME TypeInv, OthersOnlySet, [Next]_vars PROVE OthersOnlySet'
  OBVIOUS
<1>0. ThreadTypes /\ \A u \in Askers : count[u] \in Nat
  BY DEF TypeInv, ThreadTypes
<1>1. ASSUME NEW t \in Askers, Thread(t), NEW u \in Askers \ {"vesc"}, count'[u] = 0
      PROVE  pc'[u] \in {"ask", "setPrimary", "setSecondary"}
  <2>1. CASE u # t
    BY <1>0, <1>1, <2>1, OthersStay DEF OthersOnlySet
  <2>2. CASE u = t
    <3>1. count[u] = 0 /\ ~Ask(u)
      <4>1. count'[u] = count[u] \/ (Ask(u) /\ count'[u] = count[u] + 1)
        BY <1>0, <1>1, <2>2, OthersStay
      <4>2. Ask(u) => count'[u] = count[u] + 1
        BY <1>0 DEF Ask, ThreadTypes
      <4> QED BY <1>0, <1>1, <4>1, <4>2
    <3>2. pc[u] \in {"ask", "setPrimary", "setSecondary"}
      BY <3>1 DEF OthersOnlySet
    <3> QED BY <1>0, <1>1, <2>2, <3>1, <3>2, OthersStay
  <2> QED BY <2>1, <2>2
<1>2. ASSUME ProfileCommand PROVE OthersOnlySet'
  <2>1. PICK next \in {"ask", "setPrimary", "setSecondary"} :
          "ipc" \in Askers /\ pc' = [pc EXCEPT !["ipc"] = next] /\ count' = count
    BY <1>2 DEF ProfileCommand, SetProfile, SetPrimary, SetSecondary
  <2> QED BY <1>0, <2>1 DEF OthersOnlySet, ThreadTypes
<1>3. ASSUME NEW c \in Controllers, Answer(c) \/ Damage(c) \/ Lose(c) \/ TakeLimits(c)
      PROVE  OthersOnlySet'
  <2>1. UNCHANGED threadVars
    BY <1>3 DEF Answer, Damage, Lose, Arrives, TakeLimits
  <2> QED BY <2>1 DEF threadVars, OthersOnlySet
<1>4. CASE UNCHANGED vars
  BY <1>4 DEF vars, threadVars, OthersOnlySet
<1> QED BY <1>1, <1>2, <1>3, <1>4 DEF Next, OthersOnlySet

(* Who asks alone has asked alone, and no answer was late. *)
LEMMA AloneBefore == TypeInv /\ [Next]_vars => (Alone' => Alone) /\ (~late' => ~late)
<1> SUFFICES ASSUME TypeInv, [Next]_vars PROVE (Alone' => Alone) /\ (~late' => ~late)
  OBVIOUS
<1>0. ThreadTypes /\ (\A u \in Askers : count[u] \in Nat) /\ late \in BOOLEAN
  <2>1. ThreadTypes /\ \A u \in Askers : count[u] \in Nat
    BY DEF TypeInv, ThreadTypes
  <2>2. late \in BOOLEAN
    BY Zenon DEF TypeInv, LimitTypes
  <2> QED BY <2>1, <2>2
<1>1. ASSUME NEW t \in Askers, Thread(t) PROVE (Alone' => Alone) /\ (~late' => ~late)
  <2>1. \A u \in Askers : count'[u] = 0 => count[u] = 0
    <3>1. \A u \in Askers : count'[u] = count[u] \/ count'[u] = count[u] + 1
      BY <1>0, <1>1, OthersStay
    <3> QED BY <1>0, <3>1
  <2>2. late => late'
    BY <1>1, Zenon DEF Thread, Ask, Lock, ReadPacket, ReadDamaged, ReadMisaligned,
       Timeout, TimeoutInPacket, ProcessReadPacket, Copy
  <2> QED BY <2>1, <2>2 DEF Alone
<1>2. ASSUME count' = count, late' = late PROVE (Alone' => Alone) /\ (~late' => ~late)
  BY <1>2 DEF Alone
<1>3. CASE ProfileCommand
  BY <1>2, <1>3 DEF ProfileCommand, SetProfile, SetPrimary, SetSecondary
<1>4. ASSUME NEW c \in Controllers, Answer(c) \/ Damage(c) \/ Lose(c) \/ TakeLimits(c)
      PROVE  count' = count /\ late' = late
  BY <1>4 DEF Answer, Damage, Lose, Arrives, TakeLimits, threadVars
<1>5. CASE UNCHANGED vars
  BY <1>2, <1>5 DEF vars, threadVars
<1> QED BY <1>1, <1>2, <1>3, <1>4, <1>5 DEF Next

(* What VescAsks says of each step of the thread. *)
LEMMA AsksMeans ==
  VescAsks =>
    /\ pc["vesc"] = "ask" => NoneAsked /\ rx = <<>>
    /\ pc["vesc"] \in {"lock", "read"} =>
         (OneAsked(Current("vesc")) /\ rx = <<>>) \/ Answered(Current("vesc"))
    /\ pc["vesc"] = "process" =>
         NoneAsked /\ rx = <<>> /\ got["vesc"].question = Current("vesc")
    /\ pc["vesc"] = "copy" => NoneAsked /\ rx = <<>> /\ data = Current("vesc")
    /\ pc["vesc"] \in {"ask", "lock", "read", "process", "copy"}
BY DEF VescAsks

(* The steps of the vesc thread while it asks alone. *)
LEMMA VescSteps ==
  ASSUME TypeInv, "vesc" \in Askers, VescAsks, AnswersTheQuestion, Thread("vesc"),
         ~late, ~late'
  PROVE  AnswersTheQuestion' /\ VescAsks'
<1>0. ThreadTypes /\ WireTypes /\ ReplyTypes
  BY DEF TypeInv
<1> DEFINE q == Current("vesc")
<1>a. q \in Questions /\ q.to \in Controllers /\ q.kind = "COMM_GET_VALUES"
  <2>1. target["vesc"] \in Controllers /\ count["vesc"] \in Nat
    BY <1>0 DEF ThreadTypes
  <2> QED BY <2>1, QuestionType DEF Current, Question, Kind
<1>b. ASSUME UNCHANGED <<target, count>> PROVE Current("vesc")' = q
  BY <1>b DEF Current
<1>c. ASSUME stored' = stored PROVE AnswersTheQuestion'
  BY <1>c DEF AnswersTheQuestion
<1>1. CASE Ask("vesc")
  <2>1. /\ pc["vesc"] = "ask" /\ pc' = [pc EXCEPT !["vesc"] = "lock"]
        /\ count' = [count EXCEPT !["vesc"] = @ + 1]
        /\ pending' = [pending EXCEPT ![target["vesc"]] =
                 Append(@, Question("vesc", target["vesc"], count["vesc"] + 1))]
        /\ UNCHANGED <<target, rx, replyVars>>
    BY <1>1 DEF Ask
  <2>2. NoneAsked /\ rx = <<>>
    BY <2>1, AsksMeans
  <2> DEFINE r == Question("vesc", target["vesc"], count["vesc"] + 1)
  <2>3. r \in Questions /\ r.to = target["vesc"] /\ target["vesc"] \in Controllers
    <3>1. target["vesc"] \in Controllers /\ count["vesc"] + 1 \in Nat
      BY <1>0 DEF ThreadTypes
    <3> QED BY <3>1, QuestionType DEF Question
  <2>4. Current("vesc")' = r
    <3>1. count'["vesc"] = count["vesc"] + 1
      BY <1>0, <2>1 DEF ThreadTypes
    <3> QED BY <2>1, <3>1 DEF Current, Question
  <2>5. /\ \A c \in Controllers : pending[c] \in Seq(Commands) /\ None(pending[c])
        /\ pending'[target["vesc"]] = Append(pending[target["vesc"]], r)
        /\ \A c \in Controllers : c # target["vesc"] => pending'[c] = pending[c]
    BY <1>0, <2>1, <2>2, <2>3 DEF WireTypes, NoneAsked
  <2> HIDE DEF r
  <2>6. \A c \in Controllers : IF c = r.to THEN One(pending'[c], r)
                               ELSE None(pending'[c])
    BY <2>3, <2>5, AppendMakesOne
  <2>7. OneAsked(Current("vesc"))'
    BY <2>4, <2>6 DEF OneAsked
  <2>8. pc'["vesc"] = "lock" /\ rx' = <<>>
    BY <1>0, <2>1, <2>2 DEF ThreadTypes
  <2> QED BY <1>c, <2>1, <2>7, <2>8 DEF VescAsks, replyVars
<1>2. CASE Lock("vesc")
  <2>1. /\ pc["vesc"] = "lock" /\ pc'["vesc"] = "read"
        /\ UNCHANGED <<target, count, pending, rx, stored>>
    BY <1>0, <1>2 DEF Lock, ThreadTypes, linkVars, replyVars
  <2>2. (OneAsked(q) /\ rx = <<>>) \/ Answered(q)
    BY <2>1, AsksMeans
  <2>3. (OneAsked(q)' /\ rx' = <<>>) \/ Answered(q)'
    BY <1>b, <2>1, <2>2 DEF OneAsked, Answered, NoneAsked
  <2> QED BY <1>c, <2>1, <2>3 DEF VescAsks
<1>3. CASE ReadPacket("vesc")
  <2>1. /\ pc["vesc"] = "read" /\ pc'["vesc"] = "process"
        /\ rx # <<>> /\ Head(rx).question \in Questions
        /\ got'["vesc"] = Head(rx) /\ rx' = Tail(rx)
        /\ UNCHANGED <<target, count, pending, stored>>
    BY <1>0, <1>3 DEF ReadPacket, Unlock, ThreadTypes, ReplyTypes
  <2>2. Answered(q)
    BY <2>1, AsksMeans
  <2>3. PICK p : rx = <<p>> /\ (p = BadPacket \/ p.question = q)
    BY <2>1, <2>2 DEF Answered
  <2>4. BadPacket.question \notin Questions
    BY DEF BadPacket, Reply, Questions, Kinds
  <2>5. got'["vesc"].question = q /\ rx' = <<>>
    BY <2>1, <2>3, <2>4
  <2>6. NoneAsked'
    BY <2>1, <2>2 DEF Answered, NoneAsked
  <2> QED BY <1>b, <1>c, <2>1, <2>5, <2>6 DEF VescAsks
<1>4. CASE ReadDamaged("vesc") \/ ReadMisaligned("vesc") \/ Timeout("vesc")
             \/ TimeoutInPacket("vesc")
  <2>1. /\ pc["vesc"] = "read" /\ GoOn("vesc", FALSE) /\ UNCHANGED stored
    BY <1>4 DEF ReadDamaged, ReadMisaligned, Timeout, TimeoutInPacket, Unlock, replyVars
  <2>2. pc'["vesc"] = "ask"
    BY <1>0, <2>1 DEF GoOn, ThreadTypes
  <2>3. (OneAsked(q) /\ rx = <<>>) \/ Answered(q)
    BY <2>1, AsksMeans
  <2>4. NoneAsked' /\ rx' = <<>>
    <3>1. CASE ReadDamaged("vesc") \/ ReadMisaligned("vesc")
      <4>1. rx # <<>> /\ UNCHANGED pending /\ (rx' = Tail(rx) \/ rx' = <<>>)
        BY <3>1 DEF ReadDamaged, ReadMisaligned
      <4>2. NoneAsked /\ \E p : rx = <<p>>
        BY <2>3, <4>1 DEF Answered
      <4> QED BY <4>1, <4>2 DEF NoneAsked
    <3>2. CASE Timeout("vesc")
      <4>1. rx = <<>> /\ UNCHANGED <<pending, rx>>
        BY <3>2 DEF Timeout, Quiet, linkVars
      <4>2. ~ \E c \in Controllers : Unanswered(pending[c])
        BY <3>2, Zenon DEF Timeout
      <4>3. \A c \in Controllers : None(pending[c])
        BY <4>2 DEF Unanswered, ToSet, None
      <4> QED BY <4>1, <4>3 DEF NoneAsked
    <3>3. CASE TimeoutInPacket("vesc")
      BY <3>3 DEF TimeoutInPacket
    <3> QED BY <1>4, <3>1, <3>2, <3>3
  <2> QED BY <1>c, <2>1, <2>2, <2>4 DEF VescAsks
<1>5. CASE ProcessReadPacket("vesc")
  <2>1. /\ pc["vesc"] = "process" /\ pc'["vesc"] = "copy"
        /\ got["vesc"].question.kind = "COMM_GET_VALUES" => data' = got["vesc"].question
        /\ UNCHANGED <<target, count, pending, rx, stored>>
    BY <1>0, <1>5 DEF ProcessReadPacket, ThreadTypes, linkVars
  <2>2. NoneAsked /\ rx = <<>> /\ got["vesc"].question = q
    BY <2>1, AsksMeans
  <2>3. NoneAsked' /\ rx' = <<>> /\ data' = q
    BY <1>a, <2>1, <2>2 DEF NoneAsked
  <2> QED BY <1>b, <1>c, <2>1, <2>3 DEF VescAsks
<1>6. CASE Copy("vesc")
  <2>1. /\ pc["vesc"] = "copy" /\ GoOn("vesc", TRUE)
        /\ stored' = [stored EXCEPT !["vesc"][target["vesc"]] =
                         [answer |-> data, asked |-> q]]
        /\ UNCHANGED <<pending, rx>>
    BY <1>6 DEF Copy, linkVars
  <2>2. NoneAsked /\ rx = <<>> /\ data = q
    BY <2>1, AsksMeans
  <2>3. pc'["vesc"] = "ask"
    BY <1>0, <2>1 DEF GoOn, ThreadTypes
  <2>4. AnswersTheQuestion'
    <3> HIDE DEF q
    <3>1. stored \in [Askers -> [Controllers -> [answer : Questions, asked : Questions]]]
      BY <1>0 DEF ReplyTypes
    <3>2. ASSUME NEW t \in Askers, NEW c \in Controllers
          PROVE  \/ stored'[t][c] = stored[t][c]
                 \/ stored'[t][c] = [answer |-> data, asked |-> q]
      BY <2>1, <3>1
    <3> QED BY <2>2, <3>2 DEF AnswersTheQuestion
  <2>5. NoneAsked' /\ rx' = <<>>
    BY <2>1, <2>2 DEF NoneAsked
  <2> QED BY <2>3, <2>4, <2>5 DEF VescAsks
<1> QED BY <1>1, <1>2, <1>3, <1>4, <1>5, <1>6 DEF Thread

(* The answers of a controller while the vesc thread asks alone. *)
LEMMA VescAnswered ==
  ASSUME TypeInv, "vesc" \in Askers, VescAsks, NEW k \in Controllers,
         Answer(k) \/ Damage(k) \/ Lose(k)
  PROVE  VescAsks'
<1>0. ThreadTypes /\ WireTypes
  BY DEF TypeInv
<1> DEFINE q == Current("vesc")
<1>1. /\ pending[k] # <<>> /\ Head(pending[k]) \in Questions
      /\ pending' = [pending EXCEPT ![k] = Tail(@)]
      /\ UNCHANGED <<pc, target, count>>
      /\ \/ \E l : rx' = rx \o <<Reply(Head(pending[k]), l)>>
         \/ rx' = rx \o <<BadPacket>>
         \/ rx' = rx \o <<>>
  BY DEF Answer, Damage, Lose, Asked, Arrives, threadVars
<1>2. ~None(pending[k]) /\ pending \in [Controllers -> Seq(Commands)]
  BY <1>0, <1>1, TailKeepsNone DEF WireTypes
<1>3. pc["vesc"] \in {"lock", "read"} /\ OneAsked(q) /\ rx = <<>>
  BY <1>2, AsksMeans DEF NoneAsked, Answered
<1>4. k = q.to /\ One(pending[k], q)
  BY <1>2, <1>3 DEF OneAsked
<1>5. Head(pending[k]) = q /\ None(Tail(pending[k]))
  BY <1>1, <1>2, <1>4, TailOfOne
<1>6. \A c \in Controllers : c # k => None(pending[c])
  BY <1>3, <1>4 DEF OneAsked
<1>7. NoneAsked'
  BY <1>1, <1>2, <1>5, <1>6 DEF NoneAsked
<1>8. rx' # <<>> => \E p : rx' = <<p>> /\ (p = BadPacket \/ p.question = q)
  <2>1. CASE rx' = rx \o <<>>
    BY <1>3, <2>1
  <2>2. CASE rx' = rx \o <<BadPacket>>
    BY <1>3, <2>2
  <2>3. ASSUME NEW l, rx' = rx \o <<Reply(Head(pending[k]), l)>>
        PROVE  \E p : rx' = <<p>> /\ (p = BadPacket \/ p.question = q)
    BY <1>3, <1>5, <2>3 DEF Reply
  <2> QED BY <1>1, <2>1, <2>2, <2>3
<1>9. Current("vesc")' = q /\ pc'["vesc"] \in {"lock", "read"}
  BY <1>1, <1>3 DEF Current
<1>10. Answered(Current("vesc"))'
  BY <1>7, <1>8, <1>9 DEF Answered
<1> QED BY <1>9, <1>10 DEF VescAsks

(* While one thread asks, each question finds its own answer. *)
LEMMA AloneNext == TypeInv /\ AloneInv /\ [Next]_vars => AloneInv'
<1> SUFFICES ASSUME TypeInv, AloneInv, [Next]_vars PROVE AloneInv'
  OBVIOUS
<1>0. ThreadTypes /\ WireTypes /\ ReplyTypes
  BY DEF TypeInv
<1>1. OthersOnlySet /\ OthersOnlySet'
  BY OthersNext DEF AloneInv
<1> SUFFICES ASSUME Alone', ~late'
             PROVE  AnswersTheQuestion' /\ ("vesc" \in Askers => VescAsks')
  BY <1>1, Zenon DEF AloneInv
<1>2. Alone /\ ~late /\ AnswersTheQuestion /\ ("vesc" \in Askers => VescAsks)
  BY AloneBefore, Zenon DEF AloneInv
<1>3. ASSUME stored' = stored PROVE AnswersTheQuestion'
  BY <1>2, <1>3 DEF AnswersTheQuestion
<1>4. ASSUME "vesc" \in Askers PROVE Current("vesc") \in Questions
  <2>1. target["vesc"] \in Controllers /\ count["vesc"] \in Nat
    BY <1>0, <1>4 DEF ThreadTypes
  <2> QED BY <1>4, <2>1, QuestionType DEF Current
(* Nothing is sent for, or read by, the thread that asks. *)
<1>5. ASSUME "vesc" \in Askers, UNCHANGED <<target, count, rx, got, data>>,
             pc'["vesc"] = pc["vesc"], NoneAsked => NoneAsked',
             OneAsked(Current("vesc")) => OneAsked(Current("vesc"))'
      PROVE  VescAsks'
  <2>1. Current("vesc")' = Current("vesc") /\ VescAsks
    BY <1>2, <1>5 DEF Current
  <2>2. Answered(Current("vesc")) => Answered(Current("vesc"))'
    BY <1>5, <2>1 DEF Answered
  <2> QED BY <1>5, <2>1, <2>2 DEF VescAsks
<1>6. ASSUME "vesc" \in Askers, UNCHANGED <<target, count>>, NEW c \in Controllers,
             \/ \E l \in AnyLimits : pending' = [pending EXCEPT ![c] = Append(@, SetLimits(l))]
             \/ /\ pending[c] # <<>> /\ Head(pending[c]) \notin Questions
                /\ pending' = [pending EXCEPT ![c] = Tail(@)]
      PROVE  /\ NoneAsked => NoneAsked'
             /\ OneAsked(Current("vesc")) => OneAsked(Current("vesc"))'
  <2>1. Current("vesc")' = Current("vesc")
    BY <1>6 DEF Current
  <2>2. ASSUME NEW q \in Questions
        PROVE  (NoneAsked => NoneAsked') /\ (OneAsked(q) => OneAsked(q)')
    BY <1>0, <1>6, <2>2, AskedKept
  <2> QED BY <1>4, <1>6, <2>1, <2>2 DEF OneAsked
<1>7. ASSUME NEW t \in Askers, Thread(t)
      PROVE  AnswersTheQuestion' /\ ("vesc" \in Askers => VescAsks')
  <2>1. t = "vesc"
    <3> SUFFICES ASSUME t # "vesc" PROVE FALSE
      OBVIOUS
    <3>1. count[t] = 0 /\ count'[t] = 0
      BY <1>2 DEF Alone
    <3>2. pc[t] \in {"ask", "setPrimary", "setSecondary"}
      BY <1>1, <3>1 DEF OthersOnlySet
    <3>3. Ask(t)
      BY <1>0, <1>7, <3>2, OthersStay
    <3>4. count'[t] = 1
      BY <1>0, <3>1, <3>3 DEF Ask, ThreadTypes
    <3> QED BY <3>1, <3>4
  <2> QED BY <1>2, <1>7, <2>1, VescSteps
<1>8. CASE ProfileCommand
  <2>1. /\ "ipc" \in Askers /\ UNCHANGED <<target, count, rx, got, data, stored>>
        /\ \E next \in {"ask", "setPrimary", "setSecondary"} :
               pc' = [pc EXCEPT !["ipc"] = next]
    BY <1>8 DEF ProfileCommand, SetProfile, SetPrimary, SetSecondary, linkVars, replyVars
  <2>2. ASSUME "vesc" \in Askers PROVE VescAsks'
    <3>1. pc'["vesc"] = pc["vesc"]
      BY <1>0, <2>1, <2>2 DEF ThreadTypes
    <3>2. Current("vesc")' = Current("vesc")
      BY <2>1 DEF Current
    <3>3. CASE \E p \in Profiles : SetProfile(p)
      <4>1. pending' = pending
        BY <3>3 DEF SetProfile, linkVars
      <4> QED BY <1>5, <2>1, <2>2, <3>1, <3>2, <4>1 DEF NoneAsked, OneAsked
    <3>4. CASE SetPrimary \/ SetSecondary
      <4>1. data_mcconf.limits \in AnyLimits
        BY <1>0 DEF ReplyTypes, Replies
      <4>2. \E c \in Controllers :
              pending' = [pending EXCEPT ![c] = Append(@, SetLimits(data_mcconf.limits))]
        BY <3>4 DEF SetPrimary, SetSecondary, setMcconfTempValues, Controllers
      <4> QED BY <1>5, <1>6, <2>1, <2>2, <3>1, <4>1, <4>2
    <3> QED BY <1>8, <3>3, <3>4 DEF ProfileCommand
  <2> QED BY <1>3, <2>1, <2>2
<1>9. ASSUME NEW c \in Controllers, Answer(c) \/ Damage(c) \/ Lose(c)
      PROVE  AnswersTheQuestion' /\ ("vesc" \in Askers => VescAsks')
  <2>1. stored' = stored
    BY <1>9 DEF Answer, Damage, Lose, Arrives, replyVars
  <2> QED BY <1>2, <1>3, <1>9, <2>1, VescAnswered
<1>10. ASSUME NEW c \in Controllers, TakeLimits(c)
      PROVE  AnswersTheQuestion' /\ ("vesc" \in Askers => VescAsks')
  <2>1. /\ pending[c] # <<>> /\ Head(pending[c]) \notin Questions
        /\ pending' = [pending EXCEPT ![c] = Tail(@)]
        /\ UNCHANGED <<pc, target, count, rx, got, data, stored>>
    BY <1>10 DEF TakeLimits, Asked, threadVars, replyVars
  <2> QED BY <1>3, <1>5, <1>6, <2>1
<1>11. CASE UNCHANGED vars
  <2>1. UNCHANGED <<pc, target, count, pending, rx, got, data, stored>>
    BY <1>11 DEF vars, threadVars, linkVars, replyVars
  <2>2. Current("vesc")' = Current("vesc")
    BY <2>1 DEF Current
  <2> QED BY <1>3, <1>5, <2>1, <2>2 DEF NoneAsked, OneAsked
<1> QED BY <1>7, <1>8, <1>9, <1>10, <1>11 DEF Next

(* While only the vesc thread asks and no reply is late, it stores answers to *)
(* its own questions: for any number of questions, lost and damaged replies   *)
(* and of profiles sent in between.                                           *)
THEOREM OwnAnswersWhenAlone == Spec => []AnswersWhenAlone
<1>1. AloneInv => AnswersWhenAlone
  BY Zenon DEF AloneInv, AnswersWhenAlone
<1> QED BY <1>1, TypeInit, TypeNext, AloneInit, AloneNext, PTL DEF Spec

-----------------------------------------------------------------------------
(* What the vesc thread keeps never goes back in time *)

(* Of two questions to the same controller, the first was asked no later. *)
Older(q, r) ==
  q \in Questions /\ r \in Questions /\ q.to = r.to => q.n <= r.n
Before(S, T) == \A q \in S, r \in T : Older(q, r)

(* Where the questions of the vesc thread and the replies to them are: kept *)
(* by the thread, in VescUart::data, read, in the receive buffer, and not   *)
(* yet answered.                                                            *)
Kept     == {stored["vesc"][c].answer : c \in Controllers}
Taken    == IF pc["vesc"] = "process" THEN {got["vesc"].question} ELSE {}
Arrived  == {rx[i].question : i \in DOMAIN rx}
UnderWay == UNION {ToSet(pending[c]) : c \in Controllers}

(* They go from the last of these places to the first, in order. *)
Line(K, D, T, A, U) ==
  /\ Before(K, D)
  /\ Before(K \cup D, T)
  /\ Before(K \cup D \cup T, A)
  /\ Before(K \cup D \cup T \cup A, U)
NotAfter(S, n) == \A q \in S : q \in Questions => q.n <= n

BufferInOrder ==
  \A i, j \in DOMAIN rx : i < j => Older(rx[i].question, rx[j].question)
InOrder(s) == \A i, j \in DOMAIN s : i < j => Older(s[i], s[j])
QueuesInOrder ==
  \A c \in Controllers :
    /\ InOrder(pending[c])
    /\ \A i \in DOMAIN pending[c] :
         pending[c][i] \in Questions => pending[c][i].to = c
NothingNewer ==
  NotAfter(Kept \cup {data} \cup Taken \cup Arrived \cup UnderWay, count["vesc"])

Ordered ==
  /\ Line(Kept, {data}, Taken, Arrived, UnderWay)
  /\ BufferInOrder /\ QueuesInOrder /\ NothingNewer

(* The inductive invariant: as long as nobody else asks, all that is asked, *)
(* answered and kept is in the order in which it was asked.                 *)
OrderInv == OthersOnlySet /\ (Alone /\ "vesc" \in Askers => Ordered)

(* Questions are told apart by numbers. *)
LEMMA Numbered == ASSUME NEW q \in Questions PROVE q.n \in Nat /\ Older(q, q)
BY DEF Questions, Older

(* What disappears, and what is no question, disturbs no order. *)
LEMMA LineShrinks ==
  ASSUME NEW K, NEW D, NEW T, NEW A, NEW U, Line(K, D, T, A, U),
         NEW K2, NEW D2, NEW T2, NEW A2, NEW U2,
         K2 \subseteq K, D2 \subseteq D, T2 \subseteq T,
         \A q \in A2 : q \in Questions => q \in A,
         \A q \in U2 : q \in Questions => q \in U
  PROVE  Line(K2, D2, T2, A2, U2)
BY Zenon DEF Line, Before, Older

(* What is copied from the place before disturbs no order. *)
LEMMA LineCopied ==
  ASSUME NEW K, NEW D, NEW T, NEW A, NEW U, Line(K, D, T, A, U),
         Before(D, D), NEW K2, K2 \subseteq K \cup D
  PROVE  Line(K2, D, T, A, U)
BY Zenon DEF Line, Before
(* Nor does what is processed, ... *)
LEMMA LineProcessed ==
  ASSUME NEW K, NEW D, NEW T, NEW A, NEW U, Line(K, D, T, A, U),
         NEW D2, D2 \subseteq D \cup T
  PROVE  Line(K, D2, {}, A, U)
BY Zenon DEF Line, Before
(* ... read if it is the oldest of the replies, ... *)
LEMMA LineRead ==
  ASSUME NEW K, NEW D, NEW T, NEW A, NEW U, Line(K, D, T, A, U),
         NEW A2, NEW q, q \in A, A2 \subseteq A, Before({q}, A2)
  PROVE  Line(K, D, {q}, A2, U)
BY Zenon DEF Line, Before
(* ... or answered if no older question has the same addressee. *)
LEMMA LineAnswered ==
  ASSUME NEW K, NEW D, NEW T, NEW A, NEW U, Line(K, D, T, A, U),
         NEW A2, NEW U2, NEW q, q \in U, U2 \subseteq U, Before({q}, U2),
         \A r \in A2 : r \in A \/ r = q
  PROVE  Line(K, D, T, A2, U2)
BY Zenon DEF Line, Before

(* A question newer than all others comes last. *)
LEMMA LineGrows ==
  ASSUME NEW K, NEW D, NEW T, NEW A, NEW U, Line(K, D, T, A, U),
         NEW n \in Nat, NotAfter(K \cup D \cup T \cup A \cup U, n),
         NEW q \in Questions, q.n = n + 1,
         NEW U2, \A r \in U2 : r \in U \/ r = q
  PROVE  Line(K, D, T, A, U2)
<1>1. \A r \in K \cup D \cup T \cup A : Older(r, q)
  BY Numbered DEF NotAfter, Older
<1> QED BY <1>1, Zenon DEF Line, Before

(* Queues lose their first command and get others behind their last. *)
LEMMA TailInOrder ==
  ASSUME NEW s \in Seq(Commands), s # <<>>, InOrder(s)
  PROVE  InOrder(Tail(s)) /\ \A i \in DOMAIN Tail(s) : Older(Head(s), Tail(s)[i])
<1>1. /\ 1 \in DOMAIN s /\ Head(s) = s[1]
      /\ \A i \in DOMAIN Tail(s) :
           i \in Nat /\ i >= 1 /\ i + 1 \in DOMAIN s /\ Tail(s)[i] = s[i + 1]
  OBVIOUS
<1>2. \A i, j \in DOMAIN Tail(s) : i < j => i + 1 < j + 1
  BY <1>1
<1>3. InOrder(Tail(s))
  BY <1>1, <1>2 DEF InOrder
<1>4. ASSUME NEW i \in DOMAIN Tail(s) PROVE Older(Head(s), Tail(s)[i])
  <2>1. 1 < i + 1 /\ i + 1 \in DOMAIN s
    BY <1>1
  <2> QED BY <1>1, <2>1 DEF InOrder
<1> QED BY <1>3, <1>4
(* A command behind all others is in order if it is newer, or no question. *)
LEMMA AppendInOrder ==
  ASSUME NEW s \in Seq(Commands), InOrder(s), NEW m,
         \A i \in DOMAIN s : Older(s[i], m)
  PROVE  InOrder(Append(s, m))
<1>1. \A i, j \in DOMAIN Append(s, m) :
        i < j => /\ i \in DOMAIN s /\ Append(s, m)[i] = s[i]
                 /\ (j \in DOMAIN s /\ Append(s, m)[j] = s[j]) \/ Append(s, m)[j] = m
  OBVIOUS
<1> QED BY <1>1 DEF InOrder

(* What is under way, told by its place. *)
LEMMA UnderWayMeans ==
  \A m : m \in UnderWay <=> \E c \in Controllers : \E i \in DOMAIN pending[c] : m = pending[c][i]
BY DEF UnderWay, ToSet

(* Nothing is asked at first; all that is kept was never asked. *)
LEMMA OrderInit == Init => OrderInv
<1> SUFFICES ASSUME Init PROVE OrderInv OBVIOUS
<1>1. OthersOnlySet
  BY DEF Init, OthersOnlySet
<1>2. ASSUME "vesc" \in Askers PROVE Ordered
  <2>1. \A q \in Kept \cup {data} : q \in Questions => q.n = 0
    BY <1>2 DEF Init, Kept, Nothing, Question
  <2>2. Taken = {} /\ Arrived = {} /\ rx = <<>>
    BY <1>2 DEF Init, Taken, Arrived
  <2>3. \A c \in Controllers : pending[c] = <<>> \/ pending[c] = <<SetLimits(Share(profile))>>
    BY DEF Init
  <2>4. \A c \in Controllers : \A i \in DOMAIN pending[c] : pending[c][i] \notin Questions
    BY <2>3, SetIsNoQuestion
  <2>5. \A q \in UnderWay : q \notin Questions
    BY <2>4, UnderWayMeans
  <2>6. Line(Kept, {data}, Taken, Arrived, UnderWay)
    <3>1. Before(Kept, {data})
      <4>1. \A q \in Kept : Older(q, data)
        BY <2>1 DEF Older
      <4> QED BY <4>1 DEF Before
    <3> QED BY <2>2, <2>5, <3>1, Zenon DEF Line, Before, Older
  <2>7. BufferInOrder
    BY <2>2 DEF BufferInOrder
  <2>8. QueuesInOrder
    BY <2>4 DEF QueuesInOrder, InOrder, Older
  <2>9. NothingNewer
    <3>1. count["vesc"] = 0
      BY <1>2 DEF Init
    <3>2. \A q \in Kept \cup {data} \cup Taken \cup Arrived \cup UnderWay :
            q \in Questions => q.n = 0
      BY <2>1, <2>2, <2>5, Zenon
    <3> QED BY <3>1, <3>2 DEF NothingNewer, NotAfter
  <2> QED BY <2>6, <2>7, <2>8, <2>9 DEF Ordered
<1> QED BY <1>1, <1>2 DEF OrderInv

(* The queues stay in order when a command is handled, or one comes that is *)
(* no question; neither adds a question to those under way.                 *)
LEMMA QueuesMove ==
  ASSUME WireTypes, QueuesInOrder, NEW k \in Controllers,
         \/ \E m \in Commands : /\ m \notin Questions
                                /\ pending' = [pending EXCEPT ![k] = Append(@, m)]
         \/ pending[k] # <<>> /\ pending' = [pending EXCEPT ![k] = Tail(@)]
  PROVE  QueuesInOrder' /\ \A q \in UnderWay' : q \in Questions => q \in UnderWay
<1>0. pending \in [Controllers -> Seq(Commands)]
  BY DEF WireTypes
<1>1. \A c \in Controllers : c # k => pending'[c] = pending[c]
  BY <1>0
<1> DEFINE QueueFine(s) == /\ InOrder(s)
                           /\ \A i \in DOMAIN s : s[i] \in Questions => s[i].to = k
           Drawn(s) == \A i \in DOMAIN s : s[i] \in Questions =>
                          \E j \in DOMAIN pending[k] : pending[k][j] = s[i]
<1>2. QueueFine(pending[k])
  BY DEF QueuesInOrder
<1>3. QueueFine(pending'[k]) /\ Drawn(pending'[k])
  <2>1. ASSUME NEW m \in Commands, m \notin Questions, pending'[k] = Append(pending[k], m)
        PROVE  QueueFine(pending'[k]) /\ Drawn(pending'[k])
    <3>1. \A i \in DOMAIN pending[k] : Older(pending[k][i], m)
      BY <2>1 DEF Older
    <3>2. InOrder(pending'[k])
      BY <1>0, <1>2, <2>1, <3>1, AppendInOrder
    <3>3. \A i \in DOMAIN pending'[k] :
            pending'[k][i] = m \/ (i \in DOMAIN pending[k] /\ pending'[k][i] = pending[k][i])
      BY <1>0, <2>1
    <3> QED BY <1>2, <2>1, <3>2, <3>3
  <2>2. ASSUME pending[k] # <<>>, pending'[k] = Tail(pending[k])
        PROVE  QueueFine(pending'[k]) /\ Drawn(pending'[k])
    <3>1. InOrder(pending'[k])
      BY <1>0, <1>2, <2>2, TailInOrder
    <3>2. \A i \in DOMAIN pending'[k] :
            i + 1 \in DOMAIN pending[k] /\ pending'[k][i] = pending[k][i + 1]
      BY <1>0, <2>2
    <3> QED BY <1>2, <3>1, <3>2
  <2> QED BY <1>0, <2>1, <2>2
<1>4. QueuesInOrder'
  BY <1>1, <1>3 DEF QueuesInOrder
<1>5. ASSUME NEW q \in UnderWay', q \in Questions PROVE q \in UnderWay
  <2>1. PICK c \in Controllers : \E i \in DOMAIN pending'[c] : q = pending'[c][i]
    BY <1>5 DEF UnderWay, ToSet
  <2>2. \E j \in DOMAIN pending[c] : q = pending[c][j]
    BY <1>1, <1>3, <1>5, <2>1
  <2> QED BY <2>2, UnderWayMeans
<1> QED BY <1>4, <1>5

(* The buffer stays in order when packets are read or thrown away, or one   *)
(* comes that is no reply; neither adds a reply.                            *)
LEMMA BufferMoves ==
  ASSUME WireTypes, BufferInOrder,
         \/ rx' = rx \/ rx' = <<>>
         \/ \E p : p.question \notin Questions /\ rx' = <<p>>
         \/ \E p : p.question \notin Questions /\ rx' = Append(rx, p)
         \/ rx # <<>> /\ rx' = Tail(rx)
  PROVE  BufferInOrder' /\ \A q \in Arrived' : q \in Questions => q \in Arrived
<1>0. rx \in Seq(Packets)
  BY DEF WireTypes
<1>1. CASE rx' = rx \/ rx' = <<>>
  BY <1>1 DEF BufferInOrder, Arrived
<1>2. ASSUME NEW p, p.question \notin Questions, rx' = <<p>>
      PROVE  BufferInOrder' /\ \A q \in Arrived' : q \in Questions => q \in Arrived
  BY <1>2 DEF BufferInOrder, Arrived
<1>3. ASSUME NEW p, p.question \notin Questions, rx' = Append(rx, p)
      PROVE  BufferInOrder' /\ \A q \in Arrived' : q \in Questions => q \in Arrived
  <2>1. \A i, j \in DOMAIN rx' :
          i < j => /\ i \in DOMAIN rx /\ rx'[i] = rx[i]
                   /\ (j \in DOMAIN rx /\ rx'[j] = rx[j]) \/ rx'[j] = p
    BY <1>0, <1>3
  <2>2. \A i \in DOMAIN rx' : (i \in DOMAIN rx /\ rx'[i] = rx[i]) \/ rx'[i] = p
    BY <1>0, <1>3
  <2>3. BufferInOrder'
    BY <1>3, <2>1 DEF BufferInOrder, Older
  <2> QED BY <1>3, <2>2, <2>3 DEF Arrived
<1>4. CASE rx # <<>> /\ rx' = Tail(rx)
  <2>1. \A i \in DOMAIN rx' : i \in Nat /\ i + 1 \in DOMAIN rx /\ rx'[i] = rx[i + 1]
    BY <1>0, <1>4
  <2>2. \A i, j \in DOMAIN rx' : i < j => i + 1 < j + 1
    BY <2>1
  <2>3. BufferInOrder'
    BY <2>1, <2>2 DEF BufferInOrder
  <2> QED BY <2>1, <2>3 DEF Arrived
<1> QED BY <1>1, <1>2, <1>3, <1>4

(* The first reply in the buffer is the oldest. *)
LEMMA HeadIsOldest ==
  ASSUME WireTypes, BufferInOrder, rx # <<>>
  PROVE  /\ Head(rx).question \in Arrived
         /\ \A i \in DOMAIN Tail(rx) : /\ Older(Head(rx).question, Tail(rx)[i].question)
                                       /\ Tail(rx)[i].question \in Arrived
<1>1. /\ rx \in Seq(Packets) /\ 1 \in DOMAIN rx /\ Head(rx) = rx[1]
      /\ \A i \in DOMAIN Tail(rx) : 1 < i + 1 /\ i + 1 \in DOMAIN rx /\ Tail(rx)[i] = rx[i + 1]
  BY DEF WireTypes
<1> QED BY <1>1 DEF BufferInOrder, Arrived

(* A step after which there is less on the line, and no more in it.         *)
LEMMA LineDrained ==
  ASSUME Ordered, stored' = stored, data' = data, count'["vesc"] = count["vesc"],
         Taken' \subseteq Taken, BufferInOrder', QueuesInOrder',
         \A q \in Arrived' : q \in Questions => q \in Arrived,
         \A q \in UnderWay' : q \in Questions => q \in UnderWay
  PROVE  Ordered'
<1>1. Kept' = Kept
  BY DEF Kept
<1>2. Line(Kept', {data'}, Taken', Arrived', UnderWay')
  BY <1>1, LineShrinks DEF Ordered
<1>3. NothingNewer'
  BY <1>1, Zenon DEF Ordered, NothingNewer, NotAfter
<1> QED BY <1>2, <1>3 DEF Ordered

(* A new question is the newest, and comes last. *)
LEMMA AskOrdered ==
  ASSUME TypeInv, "vesc" \in Askers, Ordered, Ask("vesc")
  PROVE  Ordered'
<1>0. ThreadTypes /\ WireTypes
  BY DEF TypeInv
<1> DEFINE c == target["vesc"]
           q == Question("vesc", c, count["vesc"] + 1)
<1>1. /\ pending' = [pending EXCEPT ![c] = Append(@, q)]
      /\ count' = [count EXCEPT !["vesc"] = @ + 1]
      /\ pc["vesc"] = "ask" /\ pc' = [pc EXCEPT !["vesc"] = "lock"]
      /\ UNCHANGED <<rx, got, data, stored>>
  BY DEF Ask, replyVars
<1>2. count["vesc"] \in Nat /\ c \in Controllers /\ count'["vesc"] = count["vesc"] + 1
  BY <1>0, <1>1 DEF ThreadTypes
<1>3. q \in Questions /\ q.n = count["vesc"] + 1 /\ q.to = c
  BY <1>2, QuestionType DEF Question
<1> HIDE DEF c, q
<1>4. /\ pending \in [Controllers -> Seq(Commands)]
      /\ pending'[c] = Append(pending[c], q)
      /\ \A k \in Controllers : k # c => pending'[k] = pending[k]
  BY <1>0, <1>1, <1>2 DEF WireTypes
<1>5. \A r \in UnderWay' : r \in UnderWay \/ r = q
  <2>1. ASSUME NEW r \in UnderWay' PROVE r \in UnderWay \/ r = q
    <3>1. PICK k \in Controllers : \E i \in DOMAIN pending'[k] : r = pending'[k][i]
      BY <2>1 DEF UnderWay, ToSet
    <3>2. \A i \in DOMAIN pending'[c] :
            pending'[c][i] = q \/ \E j \in DOMAIN pending[c] : pending'[c][i] = pending[c][j]
      BY <1>2, <1>4
    <3>3. r = q \/ \E i \in DOMAIN pending[k] : r = pending[k][i]
      BY <1>4, <3>1, <3>2
    <3> QED BY <3>3, UnderWayMeans
  <2> QED BY <2>1
<1>6. Kept' = Kept /\ data' = data /\ Taken' = Taken /\ Arrived' = Arrived
  BY <1>0, <1>1 DEF ThreadTypes, Kept, Taken, Arrived
<1>7. Line(Kept', {data'}, Taken', Arrived', UnderWay')
  <2>1. NotAfter(Kept \cup {data} \cup Taken \cup Arrived \cup UnderWay, count["vesc"])
    BY DEF Ordered, NothingNewer
  <2>2. Line(Kept, {data}, Taken, Arrived, UnderWay')
    BY <1>2, <1>3, <1>5, <2>1, LineGrows DEF Ordered
  <2> QED BY <1>6, <2>2
<1>8. BufferInOrder'
  BY <1>1 DEF Ordered, BufferInOrder
<1>9. QueuesInOrder'
  <2>1. \A i \in DOMAIN pending[c] : Older(pending[c][i], q)
    <3>1. \A i \in DOMAIN pending[c] : pending[c][i] \in UnderWay
      BY <1>2, UnderWayMeans
    <3>2. \A m \in UnderWay : m \in Questions => m.n \in Nat /\ m.n <= count["vesc"]
      BY Numbered DEF Ordered, NothingNewer, NotAfter
    <3> QED BY <1>2, <1>3, <3>1, <3>2 DEF Older
  <2>2. InOrder(pending[c])
    BY <1>2 DEF Ordered, QueuesInOrder
  <2>3. InOrder(pending'[c])
    BY <1>2, <1>4, <2>1, <2>2, AppendInOrder
  <2>4. \A i \in DOMAIN pending'[c] : pending'[c][i] \in Questions => pending'[c][i].to = c
    <3>1. \A i \in DOMAIN pending'[c] :
            pending'[c][i] = q \/ (i \in DOMAIN pending[c] /\ pending'[c][i] = pending[c][i])
      BY <1>2, <1>4
    <3> QED BY <1>2, <1>3, <3>1 DEF Ordered, QueuesInOrder
  <2> QED BY <1>4, <2>3, <2>4 DEF Ordered, QueuesInOrder
<1>10. NothingNewer'
  <2>1. \A m \in Kept' \cup {data'} \cup Taken' \cup Arrived' \cup UnderWay' :
          m = q \/ m \in Kept \cup {data} \cup Taken \cup Arrived \cup UnderWay
    BY <1>5, <1>6, Zenon
  <2>2. \A m \in Kept \cup {data} \cup Taken \cup Arrived \cup UnderWay :
          m \in Questions => m.n \in Nat /\ m.n <= count["vesc"]
    BY Numbered DEF Ordered, NothingNewer, NotAfter
  <2>3. \A m \in Kept' \cup {data'} \cup Taken' \cup Arrived' \cup UnderWay' :
          m \in Questions => m.n <= count'["vesc"]
    BY <1>2, <1>3, <2>1, <2>2
  <2> QED BY <2>3, Zenon DEF NothingNewer, NotAfter
<1> QED BY <1>7, <1>8, <1>9, <1>10 DEF Ordered

(* A thread takes the first packet, which is the oldest reply to come. *)
LEMMA ReadOrdered ==
  ASSUME TypeInv, "vesc" \in Askers, Ordered, ReadPacket("vesc")
  PROVE  Ordered'
<1>0. ThreadTypes /\ WireTypes /\ ReplyTypes
  BY DEF TypeInv
<1>1. /\ pc["vesc"] = "read" /\ rx # <<>> /\ rx' = Tail(rx)
      /\ pc'["vesc"] = "process" /\ got'["vesc"] = Head(rx)
      /\ UNCHANGED <<count, pending, data, stored>>
  BY <1>0 DEF ReadPacket, Unlock, ThreadTypes, ReplyTypes
<1> DEFINE q == Head(rx).question
<1>2. BufferInOrder' /\ q \in Arrived
  BY <1>0, <1>1, BufferMoves, HeadIsOldest DEF Ordered
<1>3. Arrived' \subseteq Arrived /\ Before({q}, Arrived')
  <2>1. \A r \in Arrived' : \E i \in DOMAIN Tail(rx) : r = Tail(rx)[i].question
    BY <1>1 DEF Arrived
  <2> QED BY <1>0, <1>1, <2>1, HeadIsOldest DEF Before, Ordered
<1>4. Kept' = Kept /\ data' = data /\ Taken' = {q} /\ UnderWay' = UnderWay
  BY <1>1 DEF Kept, Taken, UnderWay
<1> HIDE DEF q
<1>5. Line(Kept', {data'}, Taken', Arrived', UnderWay')
  <2>1. Line(Kept, {data}, {q}, Arrived', UnderWay)
    BY <1>2, <1>3, LineRead DEF Ordered
  <2> QED BY <1>4, <2>1
<1>6. QueuesInOrder'
  BY <1>1 DEF Ordered, QueuesInOrder
<1>7. NothingNewer'
  <2>1. \A m \in Kept' \cup {data'} \cup Taken' \cup Arrived' \cup UnderWay' :
          m \in Kept \cup {data} \cup Taken \cup Arrived \cup UnderWay
    BY <1>2, <1>3, <1>4, Zenon
  <2> QED BY <1>1, <2>1, Zenon DEF Ordered, NothingNewer, NotAfter
<1> QED BY <1>2, <1>5, <1>6, <1>7 DEF Ordered

(* What was read goes to VescUart::data, or to the other member. *)
LEMMA ProcessOrdered ==
  ASSUME TypeInv, "vesc" \in Askers, Ordered, ProcessReadPacket("vesc")
  PROVE  Ordered'
<1>0. ThreadTypes
  BY DEF TypeInv
<1>1. /\ pc["vesc"] = "process" /\ pc'["vesc"] = "copy"
      /\ data' = data \/ data' = got["vesc"].question
      /\ UNCHANGED <<count, pending, rx, stored>>
  BY <1>0 DEF ProcessReadPacket, ThreadTypes, linkVars
<1>2. /\ Kept' = Kept /\ {data'} \subseteq {data} \cup Taken /\ Taken' = {}
      /\ Arrived' = Arrived /\ UnderWay' = UnderWay
  BY <1>1 DEF Kept, Taken, Arrived, UnderWay
<1>3. Line(Kept', {data'}, Taken', Arrived', UnderWay')
  <2>1. Line(Kept, {data'}, {}, Arrived, UnderWay)
    BY <1>2, LineProcessed DEF Ordered
  <2> QED BY <1>2, <2>1
<1>4. BufferInOrder' /\ QueuesInOrder'
  BY <1>1 DEF Ordered, BufferInOrder, QueuesInOrder
<1>5. NothingNewer'
  <2>1. \A m \in Kept' \cup {data'} \cup Taken' \cup Arrived' \cup UnderWay' :
          m \in Kept \cup {data} \cup Taken \cup Arrived \cup UnderWay
    BY <1>2, Zenon
  <2> QED BY <1>1, <2>1, Zenon DEF Ordered, NothingNewer, NotAfter
<1> QED BY <1>3, <1>4, <1>5 DEF Ordered

(* Only the vesc thread's own copy changes what it keeps, and only forward. *)
LEMMA CopyOrdered ==
  ASSUME TypeInv, "vesc" \in Askers, Ordered, Copy("vesc")
  PROVE  /\ Ordered'
         /\ \A t \in Askers, c \in Controllers :
              Older(stored[t][c].answer, stored'[t][c].answer)
<1>0. ThreadTypes /\ ReplyTypes
  BY DEF TypeInv
<1> DEFINE copied == [answer |-> data, asked |-> Current("vesc")]
<1>1. /\ pc["vesc"] = "copy" /\ GoOn("vesc", TRUE)
      /\ stored' = [stored EXCEPT !["vesc"][target["vesc"]] = copied]
      /\ UNCHANGED <<pending, rx, data>>
  BY DEF Copy, linkVars
<1>2. pc'["vesc"] = "ask" /\ count' = count
  BY <1>0, <1>1 DEF GoOn, ThreadTypes
<1>3. copied.answer = data
  OBVIOUS
<1> HIDE DEF copied
<1>4. \A t \in Askers, c \in Controllers :
        stored'[t][c] = stored[t][c] \/ (t = "vesc" /\ stored'[t][c] = copied)
  BY <1>0, <1>1 DEF ReplyTypes
<1>5. /\ Kept' \subseteq Kept \cup {data} /\ data' = data /\ Taken' = {}
      /\ Arrived' = Arrived /\ UnderWay' = UnderWay
  <2>1. Kept' \subseteq Kept \cup {data}
    BY <1>3, <1>4 DEF Kept
  <2> QED BY <1>1, <1>2, <2>1 DEF Taken, Arrived, UnderWay
<1>6. Before({data}, {data})
  BY <1>0, Numbered DEF ReplyTypes, Before
<1>7. Line(Kept', {data'}, Taken', Arrived', UnderWay')
  <2>1. Line(Kept', {data}, Taken, Arrived, UnderWay)
    BY <1>5, <1>6, LineCopied DEF Ordered
  <2>2. Taken = {}
    BY <1>1 DEF Taken
  <2> QED BY <1>5, <2>1, <2>2
<1>8. BufferInOrder' /\ QueuesInOrder'
  BY <1>1 DEF Ordered, BufferInOrder, QueuesInOrder
<1>9. NothingNewer'
  <2>1. \A m \in Kept' \cup {data'} \cup Taken' \cup Arrived' \cup UnderWay' :
          m \in Kept \cup {data} \cup Taken \cup Arrived \cup UnderWay
    BY <1>5, Zenon
  <2> QED BY <1>2, <2>1, Zenon DEF Ordered, NothingNewer, NotAfter
<1>10. ASSUME NEW t \in Askers, NEW c \in Controllers
       PROVE  Older(stored[t][c].answer, stored'[t][c].answer)
  <2>1. CASE stored'[t][c] = stored[t][c]
    <3>1. stored[t][c].answer \in Questions
      BY <1>0 DEF ReplyTypes
    <3> QED BY <2>1, <3>1, Numbered
  <2>2. CASE t = "vesc" /\ stored'[t][c] = copied
    <3>1. stored[t][c].answer \in Kept
      BY <2>2 DEF Kept
    <3> QED BY <1>3, <2>2, <3>1 DEF Ordered, Line, Before
  <2> QED BY <1>4, <2>1, <2>2
<1> QED BY <1>7, <1>8, <1>9, <1>10 DEF Ordered

(* The threads' other steps read, throw away, or take the lock.             *)
LEMMA ThreadOrdered ==
  ASSUME TypeInv, "vesc" \in Askers, Ordered, Thread("vesc")
  PROVE  Ordered' /\ \A t \in Askers, c \in Controllers :
                       Older(stored[t][c].answer, stored'[t][c].answer)
<1>0. ThreadTypes /\ WireTypes /\ ReplyTypes
  BY DEF TypeInv
<1>1. ASSUME stored' = stored
      PROVE  \A t \in Askers, c \in Controllers :
               Older(stored[t][c].answer, stored'[t][c].answer)
  <2>1. \A t \in Askers, c \in Controllers : stored[t][c].answer \in Questions
    BY <1>0 DEF ReplyTypes
  <2> QED BY <1>1, <2>1, Numbered
<1>2. CASE Ask("vesc")
  BY <1>1, <1>2, AskOrdered DEF Ask, replyVars
<1>3. CASE ReadPacket("vesc")
  BY <1>1, <1>3, ReadOrdered DEF ReadPacket
<1>4. CASE ProcessReadPacket("vesc")
  BY <1>1, <1>4, ProcessOrdered DEF ProcessReadPacket
<1>5. CASE Copy("vesc")
  BY <1>5, CopyOrdered
<1>6. ASSUME \/ Lock("vesc") \/ ReadDamaged("vesc") \/ ReadMisaligned("vesc")
             \/ Timeout("vesc") \/ TimeoutInPacket("vesc")
      PROVE  Ordered' /\ stored' = stored
  <2>1. pc'["vesc"] # "process" /\ count' = count /\ UNCHANGED <<stored, data>>
    BY <1>0, <1>6 DEF Lock, ReadDamaged, ReadMisaligned, Timeout, TimeoutInPacket,
       GoOn, ThreadTypes, replyVars
  <2>2. Taken' \subseteq Taken
    BY <2>1 DEF Taken
  <2>3. BufferInOrder' /\ \A q \in Arrived' : q \in Questions => q \in Arrived
    <3>1. RestPacket.question \notin Questions
      BY DEF RestPacket, Reply, Questions, Kinds
    <3>2. \/ rx' = rx \/ rx' = <<>> \/ rx' = <<RestPacket>>
          \/ rx # <<>> /\ rx' = Tail(rx)
      BY <1>6 DEF Lock, ReadDamaged, ReadMisaligned, Timeout, TimeoutInPacket, linkVars
    <3> QED BY <1>0, <3>1, <3>2, BufferMoves DEF Ordered
  <2>4. QueuesInOrder' /\ \A q \in UnderWay' : q \in Questions => q \in UnderWay
    <3>1. CASE pending' = pending
      BY <3>1 DEF Ordered, QueuesInOrder, UnderWay
    <3>2. CASE \E c \in Controllers :
                 pending[c] # <<>> /\ pending' = [pending EXCEPT ![c] = Tail(@)]
      BY <1>0, <3>2, QueuesMove DEF Ordered
    <3> QED BY <1>6, <3>1, <3>2 DEF Lock, ReadDamaged, ReadMisaligned, Timeout,
               TimeoutInPacket, linkVars
  <2> QED BY <2>1, <2>2, <2>3, <2>4, LineDrained
<1> QED BY <1>1, <1>2, <1>3, <1>4, <1>5, <1>6 DEF Thread

(* A reply comes behind all that have come; no older question of that       *)
(* controller is left.                                                      *)
LEMMA AnswerOrdered ==
  ASSUME TypeInv, "vesc" \in Askers, Ordered, NEW k \in Controllers, Answer(k)
  PROVE  Ordered'
<1>0. WireTypes
  BY DEF TypeInv
<1> DEFINE q == Head(pending[k])
<1>1. /\ pending[k] # <<>> /\ q \in Questions
      /\ pending' = [pending EXCEPT ![k] = Tail(@)]
      /\ \E l : rx' = rx \o <<Reply(q, l)>>
      /\ UNCHANGED <<pc, count, got, data, stored>>
  BY DEF Answer, Asked, Arrives, threadVars, replyVars
<1>2. /\ pending \in [Controllers -> Seq(Commands)] /\ rx \in Seq(Packets)
      /\ pending'[k] = Tail(pending[k])
      /\ \A c \in Controllers : c # k => pending'[c] = pending[c]
  BY <1>0, <1>1 DEF WireTypes
<1>3. QueuesInOrder' /\ \A r \in UnderWay' : r \in Questions => r \in UnderWay
  BY <1>0, <1>1, QueuesMove DEF Ordered
<1>4. InOrder(pending[k]) /\ q \in UnderWay /\ q.to = k
  <2>1. 1 \in DOMAIN pending[k] /\ q = pending[k][1]
    BY <1>1, <1>2
  <2> QED BY <1>1, <2>1, UnderWayMeans DEF Ordered, QueuesInOrder
(* What is left was asked later, or is not for this controller. *)
<1>5. \A r \in UnderWay' : Older(q, r)
  <2>1. ASSUME NEW r \in UnderWay' PROVE Older(q, r)
    <3>1. PICK c \in Controllers : \E i \in DOMAIN pending'[c] : r = pending'[c][i]
      BY <2>1 DEF UnderWay, ToSet
    <3>2. CASE c = k
      BY <1>1, <1>2, <1>4, <3>1, <3>2, TailInOrder
    <3>3. CASE c # k
      <4>1. r \in Questions => r.to = c
        BY <1>3, <3>1 DEF QueuesInOrder
      <4> QED BY <1>4, <3>3, <4>1 DEF Older
    <3> QED BY <3>2, <3>3
  <2> QED BY <2>1
<1>6. PICK p : rx' = Append(rx, p) /\ p.question = q
  BY <1>1, <1>2 DEF Reply
<1> HIDE DEF q
<1>7. /\ \A i \in DOMAIN rx' : (i \in DOMAIN rx /\ rx'[i] = rx[i]) \/ rx'[i] = p
      /\ \A i, j \in DOMAIN rx' :
           i < j => /\ i \in DOMAIN rx /\ rx'[i] = rx[i]
                    /\ (j \in DOMAIN rx /\ rx'[j] = rx[j]) \/ rx'[j] = p
  BY <1>2, <1>6
<1>8. \A r \in Arrived' : r \in Arrived \/ r = q
  BY <1>6, <1>7 DEF Arrived
<1>9. BufferInOrder'
  <2>1. \A r \in Arrived : Older(r, q)
    BY <1>4, Zenon DEF Ordered, Line, Before
  <2>2. \A i \in DOMAIN rx : rx[i].question \in Arrived
    BY DEF Arrived
  <2> QED BY <1>6, <1>7, <2>1, <2>2 DEF Ordered, BufferInOrder
<1>10. Kept' = Kept /\ data' = data /\ Taken' = Taken
  BY <1>1 DEF Kept, Taken
<1>11. Line(Kept', {data'}, Taken', Arrived', UnderWay')
  <2>1. UnderWay' \subseteq UnderWay
    <3>1. \A s \in Seq(Commands) : s # <<>> =>
            \A i \in DOMAIN Tail(s) : \E j \in DOMAIN s : Tail(s)[i] = s[j]
      <4>1. ASSUME NEW s \in Seq(Commands), s # <<>>, NEW i \in DOMAIN Tail(s)
            PROVE  i + 1 \in DOMAIN s /\ Tail(s)[i] = s[i + 1]
        BY <4>1
      <4> QED BY <4>1
    <3>2. ASSUME NEW r \in UnderWay' PROVE r \in UnderWay
      <4>1. PICK c \in Controllers : \E i \in DOMAIN pending'[c] : r = pending'[c][i]
        BY <3>2 DEF UnderWay, ToSet
      <4>2. \E j \in DOMAIN pending[c] : r = pending[c][j]
        BY <1>1, <1>2, <3>1, <4>1
      <4> QED BY <4>2, UnderWayMeans
    <3> QED BY <3>2
  <2>2. Before({q}, UnderWay')
    BY <1>5 DEF Before
  <2>3. Line(Kept, {data}, Taken, Arrived', UnderWay')
    BY <1>4, <1>8, <2>1, <2>2, LineAnswered DEF Ordered
  <2> QED BY <1>10, <2>3
<1>12. NothingNewer'
  <2>1. \A m \in Kept' \cup {data'} \cup Taken' \cup Arrived' \cup UnderWay' :
          m \in Questions =>
            m \in Kept \cup {data} \cup Taken \cup Arrived \cup UnderWay
    BY <1>3, <1>4, <1>8, <1>10, Zenon
  <2> QED BY <1>1, <2>1, Zenon DEF Ordered, NothingNewer, NotAfter
<1> QED BY <1>3, <1>9, <1>11, <1>12 DEF Ordered

(* The steps of others take questions away or set limits.                   *)
LEMMA SurroundingsOrdered ==
  ASSUME TypeInv, "vesc" \in Askers, Ordered,
         \/ ProfileCommand
         \/ \E c \in Controllers : Damage(c) \/ Lose(c) \/ TakeLimits(c)
         \/ UNCHANGED vars
  PROVE  Ordered'
<1>0. ThreadTypes /\ WireTypes /\ ReplyTypes
  BY DEF TypeInv
<1>1. /\ UNCHANGED <<count, got, data, stored>>
      /\ pc' = pc \/ \E next \in {"ask", "setPrimary", "setSecondary"} :
                        pc' = [pc EXCEPT !["ipc"] = next]
  BY DEF ProfileCommand, SetProfile, SetPrimary, SetSecondary, Damage, Lose, Arrives,
     TakeLimits, vars, threadVars, linkVars, replyVars
<1>2. Taken' \subseteq Taken
  <2>1. pc'["vesc"] = pc["vesc"]
    BY <1>0, <1>1 DEF ThreadTypes
  <2> QED BY <1>1, <2>1 DEF Taken
<1>3. BufferInOrder' /\ \A q \in Arrived' : q \in Questions => q \in Arrived
  <2>1. BadPacket.question \notin Questions
    BY DEF BadPacket, Reply, Questions, Kinds
  <2>2. rx' = rx \/ rx' = rx \o <<BadPacket>> \/ rx' = rx \o <<>>
    BY DEF ProfileCommand, SetProfile, SetPrimary, SetSecondary, Damage, Lose, Arrives,
       TakeLimits, vars, linkVars
  <2>3. rx' = rx \/ rx' = Append(rx, BadPacket)
    BY <1>0, <2>2 DEF WireTypes
  <2> QED BY <1>0, <2>1, <2>3, BufferMoves DEF Ordered
<1>4. QueuesInOrder' /\ \A q \in UnderWay' : q \in Questions => q \in UnderWay
  <2>1. CASE pending' = pending
    BY <2>1 DEF Ordered, QueuesInOrder, UnderWay
  <2>2. CASE SetPrimary \/ SetSecondary
    <3>1. SetLimits(data_mcconf.limits) \in Commands
      BY <1>0 DEF ReplyTypes, Replies, Commands
    <3>2. \E c \in Controllers :
            pending' = [pending EXCEPT ![c] = Append(@, SetLimits(data_mcconf.limits))]
      BY <2>2 DEF SetPrimary, SetSecondary, setMcconfTempValues, Controllers
    <3> QED BY <1>0, <3>1, <3>2, SetIsNoQuestion, QueuesMove DEF Ordered
  <2>3. CASE \E c \in Controllers :
               pending[c] # <<>> /\ pending' = [pending EXCEPT ![c] = Tail(@)]
    BY <1>0, <2>3, QueuesMove DEF Ordered
  <2> QED BY <2>1, <2>2, <2>3 DEF ProfileCommand, SetProfile, Damage, Lose, Asked,
             Arrives, TakeLimits, vars, linkVars
<1> QED BY <1>1, <1>2, <1>3, <1>4, LineDrained

(* The order of the questions is kept, and so is what it means for the      *)
(* answers: whoever asks alone never stores an older one.                   *)
LEMMA OrderNext ==
  TypeInv /\ OrderInv /\ [Next]_vars =>
    /\ OrderInv'
    /\ Alone => \A t \in Askers, c \in Controllers :
                  Older(stored[t][c].answer, stored'[t][c].answer)
<1> SUFFICES ASSUME TypeInv, OrderInv, [Next]_vars
             PROVE  /\ OrderInv'
                    /\ Alone => \A t \in Askers, c \in Controllers :
                         Older(stored[t][c].answer, stored'[t][c].answer)
  OBVIOUS
<1>0. ThreadTypes /\ ReplyTypes
  BY DEF TypeInv
<1>1. OthersOnlySet /\ OthersOnlySet' /\ (Alone' => Alone)
  BY OthersNext, AloneBefore, Zenon DEF OrderInv
<1>2. ASSUME stored' = stored
      PROVE  \A t \in Askers, c \in Controllers :
               Older(stored[t][c].answer, stored'[t][c].answer)
  <2>1. \A t \in Askers, c \in Controllers : stored[t][c].answer \in Questions
    BY <1>0 DEF ReplyTypes
  <2> QED BY <1>2, <2>1, Numbered
(* The other thread may begin to ask; it has nothing to store yet. *)
<1>3. ASSUME NEW t \in Askers, Thread(t), t # "vesc", Alone
      PROVE  ~Alone' /\ stored' = stored
  <2>1. count[t] = 0 /\ pc[t] \in {"ask", "setPrimary", "setSecondary"}
    BY <1>1, <1>3 DEF Alone, OthersOnlySet
  <2>2. Ask(t)
    BY <1>0, <1>3, <2>1, OthersStay
  <2>3. count'[t] = 1 /\ stored' = stored
    BY <1>0, <2>1, <2>2 DEF Ask, ThreadTypes, replyVars
  <2> QED BY <1>3, <2>3 DEF Alone
<1>4. ASSUME Alone
      PROVE  /\ Alone' /\ "vesc" \in Askers => Ordered'
             /\ \A t \in Askers, c \in Controllers :
                  Older(stored[t][c].answer, stored'[t][c].answer)
  <2>1. "vesc" \in Askers => Ordered
    BY <1>4 DEF OrderInv
  <2>2. ASSUME NEW t \in Askers, Thread(t)
        PROVE  /\ Alone' /\ "vesc" \in Askers => Ordered'
               /\ \A u \in Askers, c \in Controllers :
                    Older(stored[u][c].answer, stored'[u][c].answer)
    <3>1. CASE t = "vesc"
      BY <2>1, <2>2, <3>1, ThreadOrdered
    <3>2. CASE t # "vesc"
      BY <1>2, <1>3, <1>4, <2>2, <3>2
    <3> QED BY <3>1, <3>2
  <2>3. ASSUME NEW k \in Controllers, Answer(k)
        PROVE  ("vesc" \in Askers => Ordered') /\ stored' = stored
    BY <2>1, <2>3, AnswerOrdered DEF Answer, Arrives, replyVars
  <2>4. ASSUME \/ ProfileCommand
               \/ \E c \in Controllers : Damage(c) \/ Lose(c) \/ TakeLimits(c)
               \/ UNCHANGED vars
        PROVE  ("vesc" \in Askers => Ordered') /\ stored' = stored
    <3>1. stored' = stored
      BY <2>4 DEF ProfileCommand, SetProfile, SetPrimary, SetSecondary, Damage, Lose,
         Arrives, TakeLimits, vars, replyVars
    <3> QED BY <2>1, <2>4, <3>1, SurroundingsOrdered
  <2> QED BY <1>2, <2>2, <2>3, <2>4 DEF Next
<1> QED BY <1>1, <1>4, Zenon DEF OrderInv

(* However late the replies are, and whatever is lost, damaged or thrown    *)
(* away: as long as the vesc thread asks alone, what it keeps of each       *)
(* controller never goes back to an answer to an older question.            *)
THEOREM TelemetryNeverGoesBack == Spec => TelemetryMovesForward
<1>1. TypeInv /\ OrderInv /\ [Next]_vars =>
        [Alone => \A t \in Askers, c \in Controllers :
           LET old == stored[t][c].answer
               new == stored'[t][c].answer
           IN  new.to = old.to => new.n >= old.n]_vars
  <2> SUFFICES ASSUME TypeInv, OrderInv, [Next]_vars, Alone,
                      NEW t \in Askers, NEW c \in Controllers
               PROVE  LET old == stored[t][c].answer
                          new == stored'[t][c].answer
                      IN  new.to = old.to => new.n >= old.n
    OBVIOUS
  <2>1. Older(stored[t][c].answer, stored'[t][c].answer)
    BY OrderNext
  <2>2. TypeInv'
    BY TypeNext
  <2>3. stored[t][c].answer \in Questions /\ stored'[t][c].answer \in Questions
    BY <2>2 DEF TypeInv, ReplyTypes
  <2>4. stored[t][c].answer.n \in Nat /\ stored'[t][c].answer.n \in Nat
    BY <2>3, Numbered
  <2> QED BY <2>1, <2>3, <2>4 DEF Older
<1> QED BY <1>1, TypeInit, TypeNext, OrderInit, OrderNext, PTL DEF Spec, TelemetryMovesForward

=============================================================================
