--------------------------- MODULE Display_proofs ---------------------------
(***************************************************************************)
(* Proofs about Display: types, commands that keep their order on every    *)
(* connection, and that the path of a command, over the queue, the batch   *)
(* and any number of connections, implements CommandChannel.               *)
(***************************************************************************)
EXTENDS Display, SequenceTheorems, FiniteSetTheorems, TLAPS

-----------------------------------------------------------------------------
(* Messages, and the commands in a sequence of them *)

Orders   == {m \in Messages : m.kind = "set" /\ m.c > 0}
Asks     == {m \in Messages : m.kind \in {"hello", "poll", "names"} /\ m.c = 0}
Whole    == Orders \cup Asks
Proper   == Whole \cup {m \in Messages : m.kind = "cut"}
Answers  == [kind : Kinds, c : 0..Garbage]

(* The numbers of commands in a sequence, what it means that they go up,    *)
(* and that nothing but a poll or a greeting follows a cut message.         *)
Cs(s) == {s[i].c : i \in DOMAIN s} \ {0}
Ordered(s) == \A i, j \in DOMAIN s :
                i < j /\ s[i].c > 0 /\ s[j].c > 0 => s[i].c < s[j].c
Before(s, t) == \A x \in Cs(s), y \in Cs(t) : x < y
AfterCut(s) == \A i \in DOMAIN s : i > 1 /\ s[i - 1].kind = "cut" => s[i].c = 0

(* A message carries a number, and one that is cut or sets is a command.    *)
LEMMA ProperIs ==
  ASSUME NEW m \in Proper
  PROVE  /\ m \in Messages /\ m.c \in Nat /\ m.c <= MaxCommands
         /\ m.c # 0 => m.kind \in {"set", "cut"}
<1>1. m \in Messages
  BY DEF Proper, Whole, Orders, Asks
<1>2. m.c \in Nat /\ m.c <= MaxCommands
  BY <1>1, BoundsAssumption DEF Messages
<1> QED BY <1>1, <1>2 DEF Proper, Whole, Orders, Asks
(* What is queued or batched may also be on a connection. *)
LEMMA WholeIsProper ==
  /\ Orders \subseteq Whole /\ Whole \subseteq Proper
  /\ Seq(Orders) \subseteq Seq(Whole) /\ Seq(Whole) \subseteq Seq(Proper)
<1>1. Orders \subseteq Whole /\ Whole \subseteq Proper
  BY DEF Whole, Proper
<1> HIDE DEF Orders, Whole, Proper
<1> QED BY <1>1, SeqMonotonic
(* The numbers in a sequence of messages are numbers of commands. *)
LEMMA NumbersIn ==
  ASSUME NEW s \in Seq(Proper)
  PROVE  /\ \A i \in DOMAIN s : s[i] \in Proper /\ s[i].c \in Nat
         /\ \A x \in Cs(s) : x \in Nat /\ x > 0 /\ x <= MaxCommands
         /\ DOMAIN s = 1..Len(s) /\ Len(s) \in Nat
<1>1. DOMAIN s = 1..Len(s) /\ Len(s) \in Nat
  OBVIOUS
<1>2. \A i \in DOMAIN s : s[i] \in Proper
  BY <1>1, ElementOfSeq
<1>3. \A i \in DOMAIN s : s[i].c \in Nat /\ s[i].c <= MaxCommands
  BY <1>2, ProperIs
<1> QED BY <1>1, <1>2, <1>3 DEF Cs

(* The commands of the model are these numbers. *)
LEMMA CommandsAre ==
  ASSUME NEW s \in Seq(Proper) PROVE CommandsIn(s) = Cs(s)
<1>1. \A i \in DOMAIN s : s[i].c # 0 => s[i].kind \in {"set", "cut"}
  BY NumbersIn, ProperIs
<1>2. ToSet(s) = {s[i] : i \in DOMAIN s}
  BY DEF ToSet
<1> QED BY <1>1, <1>2 DEF CommandsIn, Cs
(* Ordered is the order of the model, of the numbers alone. *)
LEMMA InOrderMeans ==
  ASSUME NEW s \in Seq(Proper) PROVE Ordered(s) => InOrder(Pressed(s))
<1>1. /\ DOMAIN Pressed(s) = DOMAIN s
      /\ \A i \in DOMAIN s : Pressed(s)[i] = s[i].c
  BY DEF Pressed
<1> QED BY <1>1 DEF Ordered, InOrder

(* What a concatenation holds. *)
LEMMA Joined ==
  ASSUME NEW s \in Seq(Proper), NEW t \in Seq(Proper)
  PROVE  /\ s \o t \in Seq(Proper) /\ DOMAIN (s \o t) = 1..(Len(s) + Len(t))
         /\ \A i \in DOMAIN s : i \in DOMAIN (s \o t) /\ (s \o t)[i] = s[i]
         /\ \A i \in DOMAIN t : /\ Len(s) + i \in DOMAIN (s \o t)
                                /\ (s \o t)[Len(s) + i] = t[i]
         /\ \A i \in DOMAIN (s \o t) :
              i \in DOMAIN s \/ \E j \in DOMAIN t : i = Len(s) + j
<1>1. /\ Len(s) \in Nat /\ Len(t) \in Nat
      /\ DOMAIN s = 1..Len(s) /\ DOMAIN t = 1..Len(t)
  BY NumbersIn
<1>2. /\ s \o t \in Seq(Proper) /\ Len(s \o t) = Len(s) + Len(t)
      /\ \A i \in 1..Len(s) + Len(t) :
           (s \o t)[i] = IF i <= Len(s) THEN s[i] ELSE t[i - Len(s)]
  BY ConcatProperties
<1>3. DOMAIN (s \o t) = 1..(Len(s) + Len(t))
  BY <1>2, NumbersIn
<1>4. ASSUME NEW i \in 1..(Len(s) + Len(t)), i \notin 1..Len(s)
      PROVE  \E j \in 1..Len(t) : i = Len(s) + j
  <2>1. i - Len(s) \in 1..Len(t) /\ i = Len(s) + (i - Len(s))
    BY <1>1, <1>4
  <2> QED BY <2>1
<1>5. \A i \in DOMAIN s : i \in DOMAIN (s \o t) /\ (s \o t)[i] = s[i]
  BY <1>1, <1>2, <1>3
<1>6. \A i \in DOMAIN t : /\ Len(s) + i \in DOMAIN (s \o t)
                          /\ (s \o t)[Len(s) + i] = t[i]
  <2> SUFFICES ASSUME NEW i \in DOMAIN t
               PROVE  /\ Len(s) + i \in DOMAIN (s \o t)
                      /\ (s \o t)[Len(s) + i] = t[i]
    OBVIOUS
  <2>1. /\ Len(s) + i \in 1..(Len(s) + Len(t)) /\ ~(Len(s) + i <= Len(s))
        /\ (Len(s) + i) - Len(s) = i
    BY <1>1
  <2> QED BY <1>2, <1>3, <2>1
<1>7. \A i \in DOMAIN (s \o t) : i \in DOMAIN s \/ \E j \in DOMAIN t : i = Len(s) + j
  BY <1>1, <1>3, <1>4
<1> QED BY <1>2, <1>3, <1>5, <1>6, <1>7, Zenon

(* The commands of a concatenation, and their order. *)
LEMMA JoinedCommands ==
  ASSUME NEW s \in Seq(Proper), NEW t \in Seq(Proper)
  PROVE  Cs(s \o t) = Cs(s) \cup Cs(t)
<1>1. ASSUME NEW x \in Cs(s \o t) PROVE x \in Cs(s) \cup Cs(t)
  <2>1. PICK i \in DOMAIN (s \o t) : x = (s \o t)[i].c /\ x # 0
    BY DEF Cs
  <2>2. CASE i \in DOMAIN s
    BY <2>1, <2>2, Joined DEF Cs
  <2>3. CASE \E j \in DOMAIN t : i = Len(s) + j
    BY <2>1, <2>3, Joined DEF Cs
  <2> QED BY <2>2, <2>3, Joined
<1>2. ASSUME NEW x \in Cs(s) PROVE x \in Cs(s \o t)
  BY Joined DEF Cs
<1>3. ASSUME NEW x \in Cs(t) PROVE x \in Cs(s \o t)
  <2>1. PICK i \in DOMAIN t : x = t[i].c /\ x # 0
    BY DEF Cs
  <2>2. Len(s) + i \in DOMAIN (s \o t) /\ (s \o t)[Len(s) + i].c = x
    BY <2>1, Joined
  <2> QED BY <2>1, <2>2 DEF Cs
<1> QED BY <1>1, <1>2, <1>3
(* It is ordered if the second part comes after the first. *)
LEMMA JoinedOrder ==
  ASSUME NEW s \in Seq(Proper), NEW t \in Seq(Proper),
         Ordered(s), Ordered(t), Before(s, t)
  PROVE  Ordered(s \o t)
<1> DEFINE st == s \o t
<1>0. /\ Len(s) \in Nat /\ DOMAIN s = 1..Len(s) /\ DOMAIN t = 1..Len(t)
      /\ Len(t) \in Nat
  BY NumbersIn
<1>1. /\ \A i \in DOMAIN s : st[i] = s[i]
      /\ \A i \in DOMAIN t : st[Len(s) + i] = t[i]
      /\ \A i \in DOMAIN st : i \in DOMAIN s \/ \E j \in DOMAIN t : i = Len(s) + j
  BY Joined
<1> HIDE DEF st
<1>2. ASSUME NEW i \in DOMAIN st, NEW j \in DOMAIN st, i < j,
             st[i].c > 0, st[j].c > 0
      PROVE  st[i].c < st[j].c
  <2>1. CASE i \in DOMAIN s /\ j \in DOMAIN s
    BY <1>1, <1>2, <2>1 DEF Ordered
  <2>2. CASE i \in DOMAIN s /\ \E k \in DOMAIN t : j = Len(s) + k
    <3>1. PICK k \in DOMAIN t : j = Len(s) + k
      BY <2>2
    <3>2. st[i] = s[i] /\ st[j] = t[k] /\ s[i].c \in Nat /\ t[k].c \in Nat
      BY <1>1, <2>2, <3>1, NumbersIn
    <3>3. s[i].c \in Cs(s) /\ t[k].c \in Cs(t)
      BY <1>2, <2>2, <3>2 DEF Cs
    <3> QED BY <3>2, <3>3 DEF Before
  <2>3. CASE /\ \E k \in DOMAIN t : i = Len(s) + k
             /\ \E k \in DOMAIN t : j = Len(s) + k
    <3>1. PICK k \in DOMAIN t : i = Len(s) + k
      BY <2>3
    <3>2. PICK k2 \in DOMAIN t : j = Len(s) + k2
      BY <2>3
    <3>3. k < k2
      BY <1>0, <1>2, <3>1, <3>2
    <3> QED BY <1>1, <1>2, <3>1, <3>2, <3>3 DEF Ordered
  <2>4. CASE (\E k \in DOMAIN t : i = Len(s) + k) /\ j \in DOMAIN s
    BY <1>0, <1>2, <2>4
  <2> QED BY <1>1, <2>1, <2>2, <2>3, <2>4
<1> QED BY <1>2 DEF Ordered, st
(* Nothing but a greeting or a question follows a cut message in it. *)
LEMMA JoinedAfterCut ==
  ASSUME NEW s \in Seq(Proper), NEW t \in Seq(Proper),
         AfterCut(s), AfterCut(t), t # <<>> => t[1].c = 0
  PROVE  AfterCut(s \o t)
<1> DEFINE st == s \o t
<1>0. /\ Len(s) \in Nat /\ DOMAIN s = 1..Len(s) /\ DOMAIN t = 1..Len(t)
      /\ Len(t) \in Nat
  BY NumbersIn
<1>1. /\ \A i \in DOMAIN s : st[i] = s[i]
      /\ \A i \in DOMAIN t : st[Len(s) + i] = t[i]
      /\ \A i \in DOMAIN st : i \in DOMAIN s \/ \E j \in DOMAIN t : i = Len(s) + j
  BY Joined
<1>2. t # <<>> \/ DOMAIN t = {}
  BY <1>0
<1> HIDE DEF st
<1>3. ASSUME NEW i \in DOMAIN st, i > 1, st[i - 1].kind = "cut" PROVE st[i].c = 0
  <2>1. CASE i \in DOMAIN s
    <3>1. i - 1 \in DOMAIN s
      BY <1>0, <1>3, <2>1
    <3> QED BY <1>1, <1>3, <2>1, <3>1 DEF AfterCut
  <2>2. CASE \E j \in DOMAIN t : i = Len(s) + j
    <3>1. PICK j \in DOMAIN t : i = Len(s) + j
      BY <2>2
    <3>2. CASE j = 1
      BY <1>1, <1>2, <3>1, <3>2
    <3>3. CASE j # 1
      <4>1. j - 1 \in DOMAIN t /\ i - 1 = Len(s) + (j - 1) /\ j > 1
        BY <1>0, <3>1, <3>3
      <4> QED BY <1>1, <1>3, <3>1, <4>1 DEF AfterCut
    <3> QED BY <3>2, <3>3
  <2> QED BY <1>1, <2>1, <2>2
<1> QED BY <1>3 DEF AfterCut, st

(* What is left when the first message has been handled. *)
LEMMA TailIs ==
  ASSUME NEW s \in Seq(Proper), s # <<>>
  PROVE  /\ Tail(s) \in Seq(Proper) /\ Head(s) = s[1] /\ 1 \in DOMAIN s
         /\ \A i \in DOMAIN Tail(s) : i \in Nat /\ i >= 1 /\ i + 1 \in DOMAIN s
                                        /\ Tail(s)[i] = s[i + 1]
         /\ \A i \in DOMAIN s : i = 1 \/ i - 1 \in DOMAIN Tail(s)
<1>1. Len(s) \in Nat /\ Len(s) # 0 /\ DOMAIN s = 1..Len(s)
  OBVIOUS
<1>2. /\ Tail(s) \in Seq(Proper) /\ Len(Tail(s)) = Len(s) - 1
      /\ \A i \in 1..Len(Tail(s)) : Tail(s)[i] = s[i + 1]
  BY HeadTailProperties
<1>3. DOMAIN Tail(s) = 1..(Len(s) - 1)
  BY <1>2
<1> QED BY <1>1, <1>2, <1>3
(* The rest keeps the order, and all numbers but that of the first. *)
LEMMA TailKeeps ==
  ASSUME NEW s \in Seq(Proper), s # <<>>, Ordered(s), AfterCut(s)
  PROVE  /\ Ordered(Tail(s)) /\ AfterCut(Tail(s))
         /\ Cs(Tail(s)) = Cs(s) \ {Head(s).c}
<1> DEFINE r == Tail(s)
<1>0. /\ \A i \in DOMAIN r : i \in Nat /\ i >= 1 /\ i + 1 \in DOMAIN s /\ r[i] = s[i + 1]
      /\ \A i \in DOMAIN s : i = 1 \/ i - 1 \in DOMAIN r
      /\ Head(s) = s[1] /\ 1 \in DOMAIN s /\ r \in Seq(Proper)
  BY TailIs
<1>a. \A i \in DOMAIN s : s[i].c \in Nat /\ i \in Nat
  BY NumbersIn
<1> HIDE DEF r
<1>1. Ordered(r)
  <2> SUFFICES ASSUME NEW i \in DOMAIN r, NEW j \in DOMAIN r, i < j,
                      r[i].c > 0, r[j].c > 0
               PROVE  r[i].c < r[j].c
    BY DEF Ordered
  <2>1. /\ i + 1 \in DOMAIN s /\ j + 1 \in DOMAIN s /\ i + 1 < j + 1
        /\ r[i] = s[i + 1] /\ r[j] = s[j + 1]
    BY <1>0
  <2> QED BY <2>1 DEF Ordered
<1>2. ASSUME NEW i \in DOMAIN r, i > 1, r[i - 1].kind = "cut" PROVE r[i].c = 0
  <2>1. i - 1 \in DOMAIN r
    BY <1>0, <1>2, NumbersIn
  <2>2. r[i - 1] = s[(i - 1) + 1] /\ r[i] = s[i + 1] /\ i + 1 \in DOMAIN s
    BY <1>0, <2>1, Zenon
  <2>3. (i - 1) + 1 = i /\ (i + 1) - 1 = i /\ i + 1 > 1
    BY <1>0, <1>2
  <2> QED BY <1>2, <2>2, <2>3 DEF AfterCut
<1>3. ASSUME NEW x \in Cs(r) PROVE x \in Cs(s) \ {Head(s).c}
  <2>1. PICK i \in DOMAIN r : x = r[i].c /\ x # 0
    BY DEF Cs
  <2>2. i + 1 \in DOMAIN s /\ x = s[i + 1].c /\ 1 < i + 1
    BY <1>0, <2>1
  <2>3. x \in Nat /\ s[1].c \in Nat /\ x > 0
    BY <1>0, <1>a, <2>1, <2>2
  <2>4. s[1].c > 0 => s[1].c < x
    BY <1>0, <2>2, <2>3 DEF Ordered
  <2>5. x # s[1].c
    BY <2>3, <2>4
  <2> QED BY <1>0, <2>1, <2>2, <2>5 DEF Cs
<1>4. ASSUME NEW x \in Cs(s), x # Head(s).c PROVE x \in Cs(r)
  <2>1. PICK i \in DOMAIN s : x = s[i].c /\ x # 0
    BY DEF Cs
  <2>2. i - 1 \in DOMAIN r /\ r[i - 1] = s[(i - 1) + 1] /\ (i - 1) + 1 = i
    BY <1>0, <1>4, <1>a, <2>1
  <2> QED BY <2>1, <2>2 DEF Cs
<1>5. AfterCut(r)
  BY <1>2 DEF AfterCut
<1> QED BY <1>1, <1>3, <1>4, <1>5 DEF r

-----------------------------------------------------------------------------
(* What a write puts on a connection: a batch or its beginning, of which    *)
(* the last message may be cut.                                             *)
ChunkOf(t, s) ==
  /\ t \in Seq(Proper) /\ t # <<>> /\ t[1].c = 0
  /\ Ordered(t) /\ AfterCut(t) /\ Cs(t) \subseteq Cs(s)

(* Whatever has the numbers of the batch and is whole but for its end. *)
LEMMA ChunkIs ==
  ASSUME NEW s \in Seq(Proper), Ordered(s), s # <<>>, s[1].c = 0,
         NEW t \in Seq(Proper), t # <<>>, Len(t) <= Len(s),
         \A i \in DOMAIN t : t[i].c = s[i].c,
         \A i \in DOMAIN t : i < Len(t) => t[i].kind # "cut"
  PROVE  ChunkOf(t, s)
<1>1. /\ Len(s) \in Nat /\ DOMAIN s = 1..Len(s) /\ Len(t) \in Nat
      /\ DOMAIN t = 1..Len(t)
  BY NumbersIn
<1>2. DOMAIN t \subseteq DOMAIN s /\ 1 \in DOMAIN t
  BY <1>1
<1>3. Ordered(t) /\ Cs(t) \subseteq Cs(s) /\ t[1].c = 0
  BY <1>2 DEF Ordered, Cs
<1>4. ASSUME NEW i \in DOMAIN t, i > 1, t[i - 1].kind = "cut" PROVE FALSE
  <2>1. i - 1 \in DOMAIN t /\ i - 1 < Len(t)
    BY <1>1, <1>4
  <2> QED BY <1>4, <2>1
<1> QED BY <1>3, <1>4 DEF ChunkOf, AfterCut
(* A batch, its beginnings and its beginnings up to a cut are such. *)
LEMMA Beginnings ==
  ASSUME NEW s \in Seq(Whole), Ordered(s), s # <<>>, s[1].c = 0
  PROVE  /\ ChunkOf(s, s)
         /\ \A i \in 1..Len(s) :
              /\ i > 1 => ChunkOf(SubSeq(s, 1, i - 1), s)
              /\ ChunkOf(Append(SubSeq(s, 1, i - 1), Message("cut", s[i].c)), s)
<1>0. Len(s) \in Nat /\ DOMAIN s = 1..Len(s) /\ s \in Seq(Proper)
  BY WholeIsProper
<1>1. \A i \in DOMAIN s : s[i] \in Whole /\ s[i] \in Proper /\ s[i] \in Messages
  BY <1>0, ElementOfSeq, NumbersIn, ProperIs
<1>2. \A m \in Whole : m.kind # "cut"
  BY DEF Whole, Orders, Asks
<1>3. ChunkOf(s, s)
  BY <1>0, <1>1, <1>2, ChunkIs
<1>4. ASSUME NEW i \in 1..Len(s), i > 1 PROVE ChunkOf(SubSeq(s, 1, i - 1), s)
  <2> DEFINE t == SubSeq(s, 1, i - 1)
  <2>1. i - 1 \in Nat /\ i - 1 >= 1 /\ i - 1 <= Len(s)
    BY <1>0, <1>4
  <2>2. /\ t \in Seq(Proper) /\ Len(t) = i - 1
        /\ \A j \in 1..(i - 1) : t[j] = s[j]
    BY <1>0, <1>1, <2>1, SubSeqProperties
  <2>3. DOMAIN t = 1..(i - 1) /\ t # <<>>
    BY <2>1, <2>2
  <2> HIDE DEF t
  <2>4. \A j \in DOMAIN t : t[j] = s[j] /\ s[j].kind # "cut"
    BY <1>0, <1>1, <1>2, <2>1, <2>2, <2>3
  <2>5. ChunkOf(t, s)
    BY <1>0, <2>1, <2>2, <2>3, <2>4, ChunkIs
  <2> QED BY <2>5 DEF t
<1>5. ASSUME NEW i \in 1..Len(s)
      PROVE  ChunkOf(Append(SubSeq(s, 1, i - 1), Message("cut", s[i].c)), s)
  <2> DEFINE b == SubSeq(s, 1, i - 1)
             m == Message("cut", s[i].c)
             t == Append(b, m)
  <2>1. i - 1 \in Nat /\ i - 1 <= Len(s) /\ i \in Nat
    BY <1>0
  <2>2. /\ b \in Seq(Proper) /\ Len(b) = i - 1
        /\ \A j \in 1..(i - 1) : b[j] = s[j]
    BY <1>0, <1>1, <2>1, SubSeqProperties
  <2>3. m \in Proper /\ m.c = s[i].c
    BY <1>0, <1>1 DEF Message, Proper, Messages, Kinds
  <2> HIDE DEF b, m
  <2>4. /\ t \in Seq(Proper) /\ t # <<>> /\ Len(t) = i
        /\ \A j \in 1..(i - 1) : t[j] = b[j]
        /\ t[i] = m
    BY <2>1, <2>2, <2>3, AppendProperties
  <2> HIDE DEF t
  <2>5. DOMAIN t = 1..i
    BY <2>4, NumbersIn
  <2>6. \A j \in DOMAIN t : j = i \/ j \in 1..(i - 1)
    BY <2>1, <2>5
  <2>7. \A j \in DOMAIN t : t[j].c = s[j].c
    BY <2>2, <2>3, <2>4, <2>6
  <2>8. \A j \in DOMAIN t : j < Len(t) => t[j].kind # "cut"
    <3> SUFFICES ASSUME NEW j \in DOMAIN t, j < Len(t) PROVE t[j].kind # "cut"
      OBVIOUS
    <3>1. j \in 1..(i - 1) /\ j \in DOMAIN s
      BY <1>0, <2>1, <2>4, <2>5
    <3> QED BY <1>1, <1>2, <2>2, <2>4, <3>1
  <2>9. Len(t) <= Len(s)
    BY <1>0, <2>4
  <2>10. ChunkOf(t, s)
    BY <1>0, <2>4, <2>7, <2>8, <2>9, ChunkIs
  <2> QED BY <2>10 DEF b, m, t
<1> QED BY <1>3, <1>4, <1>5

(* Written behind what a connection holds, it keeps the order of commands. *)
LEMMA OntoKeeps ==
  ASSUME NEW u \in Seq(Proper), NEW s \in Seq(Proper), NEW t, ChunkOf(t, s),
         Ordered(u), AfterCut(u), Before(u, s)
  PROVE  /\ u \o t \in Seq(Proper) /\ Ordered(u \o t) /\ AfterCut(u \o t)
         /\ Cs(u \o t) \subseteq Cs(u) \cup Cs(s)
<1>1. /\ t \in Seq(Proper) /\ t[1].c = 0 /\ Ordered(t) /\ AfterCut(t)
      /\ Cs(t) \subseteq Cs(s)
  BY DEF ChunkOf
<1>2. Before(u, t)
  BY <1>1 DEF Before
<1> QED BY <1>1, <1>2, Joined, JoinedCommands, JoinedOrder, JoinedAfterCut

(* A batch: what was left of the greeting, a question, the commands. *)
AskKinds == {"poll", "names"}
IsBatch(s) == /\ s # <<>> /\ s[1].c = 0
              /\ \E k \in DOMAIN s : \A i \in DOMAIN s : s[i].kind \in AskKinds => i = k
(* The greeting is a question without a number; a batch of it has none. *)
LEMMA HelloIs ==
  /\ Hello \in Whole /\ Hello \in Proper /\ Hello.c = 0 /\ Hello.kind = "hello"
  /\ \A b \in {<<>>, <<Hello>>} : /\ b \in Seq(Whole) /\ b \in Seq(Proper)
                                  /\ Cs(b) = {} /\ Ordered(b)
<1>1. Hello \in Whole /\ Hello.c = 0 /\ Hello.kind = "hello"
  BY BoundsAssumption DEF Hello, Message, Whole, Asks, Messages, Kinds
<1>2. Hello \in Proper
  BY <1>1, WholeIsProper
<1> HIDE DEF Hello, Whole, Proper
<1>3. Cs(<<>>) = {} /\ Ordered(<<>>) /\ <<>> \in Seq(Whole)
  BY DEF Cs, Ordered
<1>4. Cs(<<Hello>>) = {} /\ Ordered(<<Hello>>) /\ <<Hello>> \in Seq(Whole)
  BY <1>1 DEF Cs, Ordered
<1> QED BY <1>1, <1>2, <1>3, <1>4, WholeIsProper
(* The concatenation of two sequences of one element. *)
LEMMA TwoOfThem ==
  ASSUME NEW x, NEW y PROVE <<x>> \o <<y>> = <<x, y>>
<1> DEFINE S == {x, y}
           s == <<x>> \o <<y>>
           t == <<x, y>>
<1>1. <<x>> \in Seq(S) /\ <<y>> \in Seq(S) /\ t \in Seq(S)
  OBVIOUS
<1>2. Len(<<x>>) = 1 /\ Len(<<y>>) = 1 /\ Len(t) = 2
  OBVIOUS
<1>3. <<x>>[1] = x /\ <<y>>[1] = y /\ t[1] = x /\ t[2] = y
  OBVIOUS
<1> HIDE DEF S
<1>4. /\ s \in Seq(S) /\ Len(s) = 2
      /\ \A i \in 1..2 : s[i] = IF i <= 1 THEN <<x>>[i] ELSE <<y>>[i - 1]
  BY <1>1, <1>2, ConcatProperties
<1> HIDE DEF t, s
<1>5. s[1] = x /\ s[2] = y
  BY <1>3, <1>4
<1>6. Len(s) = Len(t) /\ \A i \in 1..Len(s) : s[i] = t[i]
  BY <1>2, <1>3, <1>4, <1>5
<1>7. s = t
  BY <1>1, <1>4, <1>6, SeqEqual
<1> QED BY <1>7 DEF s, t
(* What Compose makes is such a batch, with the commands of the queue. *)
LEMMA BatchIs ==
  ASSUME NEW b \in {<<>>, <<Hello>>}, NEW q \in Asks, q.kind \in AskKinds,
         NEW e \in Seq(Orders)
  PROVE  /\ (b \o <<q>>) \o e \in Seq(Whole) /\ IsBatch((b \o <<q>>) \o e)
         /\ Cs((b \o <<q>>) \o e) = Cs(e)
         /\ Ordered(e) => Ordered((b \o <<q>>) \o e)
<1> DEFINE h == b \o <<q>>
           s == h \o e
<1>1. /\ q \in Whole /\ q.c = 0 /\ q \in Proper
  BY WholeIsProper DEF Whole, Asks
<1>2. /\ e \in Seq(Whole) /\ e \in Seq(Proper)
  BY WholeIsProper
<1>3. ASSUME NEW i \in DOMAIN e PROVE e[i].kind \notin AskKinds
  <2>1. e[i] \in Orders
    BY ElementOfSeq
  <2> QED BY <2>1 DEF Orders, AskKinds
<1>4. h = <<q>> \/ h = <<Hello, q>>
  <2>1. CASE b = <<>>
    <3>1. <<>> \o <<q>> = <<q>>
      OBVIOUS
    <3> QED BY <2>1, <3>1
  <2>2. CASE b = <<Hello>>
    <3> HIDE DEF Hello
    <3>1. <<Hello>> \o <<q>> = <<Hello, q>>
      BY TwoOfThem
    <3> QED BY <2>2, <3>1
  <2> QED BY <2>1, <2>2
<1> HIDE DEF h
<1>5. /\ h \in Seq(Whole) /\ h \in Seq(Proper) /\ h # <<>>
      /\ \A i \in DOMAIN h : h[i].c = 0
      /\ \E k \in DOMAIN h : \A i \in DOMAIN h : h[i].kind \in AskKinds => i = k
  <2> HIDE DEF Hello, Whole, Proper
  <2>1. CASE h = <<q>>
    <3>1. DOMAIN h = {1} /\ h[1] = q /\ h # <<>> /\ h \in Seq(Whole)
      BY <1>1, <2>1
    <3> QED BY <1>1, <3>1, WholeIsProper
  <2>2. CASE h = <<Hello, q>>
    <3>1. DOMAIN h = {1, 2} /\ h[1] = Hello /\ h[2] = q /\ h # <<>>
      BY <2>2
    <3>2. h \in Seq(Whole)
      BY <1>1, <2>2, HelloIs
    <3>3. Hello.c = 0 /\ Hello.kind \notin AskKinds
      BY HelloIs DEF AskKinds
    <3>4. \A i \in DOMAIN h : h[i].c = 0 /\ (h[i].kind \in AskKinds => i = 2)
      BY <1>1, <3>1, <3>3
    <3> QED BY <3>1, <3>2, <3>4, WholeIsProper
  <2> QED BY <1>4, <2>1, <2>2
<1>6. s \in Seq(Whole)
  BY <1>2, <1>5
<1>7. Cs(h) = {} /\ Ordered(h)
  BY <1>5 DEF Cs, Ordered
<1>8. Cs(s) = Cs(e) /\ (Ordered(e) => Ordered(s))
  <2>1. Before(h, e)
    BY <1>7 DEF Before
  <2> QED BY <1>2, <1>5, <1>7, <2>1, JoinedCommands, JoinedOrder
<1>9. IsBatch(s)
  <2>0. /\ Len(h) \in Nat /\ DOMAIN h = 1..Len(h) /\ Len(e) \in Nat
        /\ DOMAIN e = 1..Len(e)
    BY <1>2, <1>5, NumbersIn
  <2>1. /\ \A i \in DOMAIN h : i \in DOMAIN s /\ s[i] = h[i]
        /\ \A i \in DOMAIN e : s[Len(h) + i] = e[i]
        /\ \A i \in DOMAIN s : i \in DOMAIN h \/ \E j \in DOMAIN e : i = Len(h) + j
    BY <1>2, <1>5, Joined
  <2>2. 1 \in DOMAIN h
    BY <1>5, <2>0
  <2> HIDE DEF s
  <2>3. s # <<>> /\ s[1].c = 0
    BY <1>5, <2>1, <2>2
  <2>4. PICK k \in DOMAIN h : \A i \in DOMAIN h : h[i].kind \in AskKinds => i = k
    BY <1>5
  <2>5. \A i \in DOMAIN s : s[i].kind \in AskKinds => i = k
    BY <1>3, <2>1, <2>4
  <2> QED BY <2>1, <2>3, <2>5 DEF IsBatch
<1> QED BY <1>6, <1>8, <1>9 DEF h, s

-----------------------------------------------------------------------------
(* The types *)

UiTypes == /\ mpc \in {"ui", "flag", "join"}
           /\ done \in BOOLEAN
           /\ done <=> mpc # "ui"
           /\ pressed \in 0..MaxCommands
CommSteps == {"create", "loop", "hello", "failedHello", "check", "poll",
              "failed", "join", "ended"}
QueueTypes == /\ toSendExtra \in Seq(Orders)
              /\ toSend \in Seq(Whole)
              /\ up \in [Lanes -> Seq(Proper)]
(* What the batch is at each step of the comm thread. *)
BatchPhase == /\ cpc \in CommSteps
              /\ cpc \in {"hello", "failedHello"} => toSend = <<Hello>>
              /\ cpc = "check" => toSend \in {<<>>, <<Hello>>}
              /\ cpc = "poll" => IsBatch(toSend)
              /\ cpc \in {"create", "loop", "failed", "join", "ended"} => toSend = <<>>
FlagTypes == /\ sendOnce \in BOOLEAN
             /\ isConnected \in BOOLEAN
             /\ isShutdown \in BOOLEAN
             /\ successfulCommunication \in BOOLEAN
             /\ eof \in BOOLEAN
             /\ running \in BOOLEAN
LinkTypes == /\ rpc \in {"none", "recv", "create", "ended"}
             /\ clientSocket \in Lanes \cup {NoLane}
             /\ down \in Seq(Answers)
             /\ Len(down) <= MaxReplies
DataTypes == /\ shown \in 0..Garbage
             /\ value \in 0..Garbage
             /\ saved \in 0..Garbage
             /\ failures \in 0..MaxFailures
TypeInv == UiTypes /\ QueueTypes /\ BatchPhase /\ FlagTypes /\ LinkTypes /\ DataTypes

UiThread == Press \/ Stop \/ StopFlag
Handling == \E l \in Lanes : Handle(l)
Ending   == \E l \in Lanes : LaneEnds(l)
Living   == TOMLSave \/ setupTOML
(* The steps, by the thread that takes them. *)
LEMMA Steps ==
  [Next]_vars => \/ UiThread \/ CommThread \/ ReadThread
                 \/ Handling \/ Ending \/ BackendCloses \/ BackendEnds \/ Living
                 \/ UNCHANGED vars
BY DEF Next, UiThread, Handling, Ending, Living, Backend

(* What the steps of each thread leave alone. *)
LEMMA CommFrame ==
  CommThread => UNCHANGED <<mpc, done, pressed, isShutdown, shown, running, value, saved,
                            successfulCommunication>>
BY DEF CommThread, CreateFirst, LoopBegins, NotYet, Compose, Write, WriteFails,
       Disconnected, CommEnds, uiVars, flagVars, backendVars
(* The read thread leaves the queue, the batch and the lanes alone. *)
LEMMA ReadFrame ==
  ReadThread => UNCHANGED <<mpc, done, pressed, isShutdown, toSendExtra, cpc, toSend,
                            sendOnce, up, running, value, saved>>
BY DEF ReadThread, Receive, PeerClosed, Reconnect, ReadEnds, CreateAgain, uiVars,
       commVars, flagVars, backendVars
(* The user interface leaves the batch, the lanes and the setting alone. *)
LEMMA UiFrame ==
  UiThread => UNCHANGED <<cpc, toSend, sendOnce, rpc, up, running, value, saved, failures,
                          successfulCommunication>>
BY DEF UiThread, Press, Stop, StopFlag, commVars, backendVars
(* A handler changes its lane, the replies and the setting, or ends it all. *)
LEMMA HandleFrame ==
  Handling => UNCHANGED <<mpc, done, pressed, toSendExtra, cpc, toSend, sendOnce, rpc,
                          isConnected, isShutdown, shown, clientSocket,
                          successfulCommunication, saved, failures>>
BY DEF Handling, Handle, uiVars, commVars, flagVars
(* The end of a lane changes the lane, its end and the failures only; that  *)
(* of the backend changes all lanes.                                        *)
LEMMA EndFrame ==
  Ending \/ BackendCloses \/ BackendEnds =>
    UNCHANGED <<mpc, done, pressed, toSendExtra, cpc, toSend, sendOnce, rpc,
                isConnected, isShutdown, shown, clientSocket,
                successfulCommunication, down, value, saved>>
BY DEF Ending, LaneEnds, BackendCloses, BackendEnds, Ends, uiVars, commVars, flagVars,
       socketVars, backendVars
(* A start of the backend, and a save, change the setting and the file.     *)
LEMMA LiveFrame ==
  Living =>
    UNCHANGED <<mpc, done, pressed, toSendExtra, cpc, toSend, sendOnce, rpc,
                isConnected, isShutdown, shown, clientSocket, eof,
                successfulCommunication, up, down, failures>>
BY DEF Living, TOMLSave, setupTOML, uiVars, commVars, flagVars, socketVars
(* A stuttering step leaves everything alone. *)
LEMMA NoFrame ==
  UNCHANGED vars =>
    UNCHANGED <<mpc, done, pressed, toSendExtra, cpc, toSend, sendOnce, rpc,
                isConnected, isShutdown, shown, clientSocket, eof,
                successfulCommunication, up, down, running, value, saved, failures>>
BY DEF vars, uiVars, commVars, flagVars, socketVars, backendVars

(* The types hold at the start. *)
LEMMA TypesInit == Init => TypeInv
<1> SUFFICES ASSUME Init PROVE TypeInv
  OBVIOUS
<1>1. UiTypes
  <2>1. mpc = "ui" /\ done = FALSE /\ pressed = 0
    BY DEF Init
  <2>2. pressed \in 0..MaxCommands
    BY <2>1, BoundsAssumption
  <2> QED BY <2>1, <2>2 DEF UiTypes
<1>2. QueueTypes
  BY DEF Init, QueueTypes
<1>3. BatchPhase
  BY DEF Init, BatchPhase, CommSteps
<1>4. FlagTypes
  BY DEF Init, FlagTypes
<1>5. LinkTypes
  BY BoundsAssumption DEF Init, LinkTypes
<1>6. DataTypes
  BY BoundsAssumption DEF Init, DataTypes, Initial, Garbage
<1> QED BY <1>1, <1>2, <1>3, <1>4, <1>5, <1>6 DEF TypeInv
(* The user interface counts commands only while it runs. *)
LEMMA UiStep == UiTypes /\ [Next]_vars => UiTypes'
<1> SUFFICES ASSUME UiTypes, [Next]_vars PROVE UiTypes'
  OBVIOUS
<1>1. CASE Press
  BY <1>1, BoundsAssumption DEF Press, UiTypes
<1>2. CASE Stop
  BY <1>2 DEF Stop, UiTypes
<1>3. CASE StopFlag
  BY <1>3 DEF StopFlag, UiTypes
<1>4. CASE UNCHANGED <<mpc, done, pressed>>
  BY <1>4 DEF UiTypes
<1> QED
  BY <1>1, <1>2, <1>3, <1>4, Steps, CommFrame, ReadFrame, HandleFrame, EndFrame,
     LiveFrame, NoFrame
     DEF UiThread
(* The flags stay flags. *)
LEMMA FlagStep == FlagTypes /\ [Next]_vars => FlagTypes'
<1> SUFFICES ASSUME FlagTypes, [Next]_vars PROVE FlagTypes'
  OBVIOUS
<1>1. CASE UiThread
  BY <1>1, UiFrame DEF UiThread, Press, Stop, StopFlag, FlagTypes, flagVars, socketVars,
     RaiseShutdown
<1>2. CASE CommThread
  <2>1. sendOnce' \in BOOLEAN
    BY <1>2 DEF CommThread, CreateFirst, LoopBegins, NotYet, Compose, Write, WriteFails,
       Disconnected, CommEnds, AskAgain, FlagTypes
  <2>2. isConnected' \in BOOLEAN /\ eof' \in BOOLEAN
    BY <1>2 DEF CommThread, CreateFirst, LoopBegins, NotYet, Compose, Write, WriteFails,
       Disconnected, CommEnds, createClientSocket, ConnectSucceeds, ConnectFails,
       flagVars, socketVars, FlagTypes
  <2> QED BY <1>2, <2>1, <2>2, CommFrame DEF FlagTypes
<1>3. CASE ReadThread
  <2>1. isConnected' \in BOOLEAN /\ eof' \in BOOLEAN
    BY <1>3 DEF ReadThread, Receive, PeerClosed, Reconnect, ReadEnds, CreateAgain,
       createClientSocket, ConnectSucceeds, ConnectFails, flagVars, socketVars, FlagTypes
  <2>2. successfulCommunication' \in BOOLEAN
    BY <1>3 DEF ReadThread, Receive, PeerClosed, Reconnect, ReadEnds, CreateAgain,
       FlagTypes
  <2> QED BY <1>3, <2>1, <2>2, ReadFrame DEF FlagTypes
<1>4. CASE Ending \/ BackendCloses
  BY <1>4, EndFrame DEF Ending, LaneEnds, BackendCloses, FlagTypes, socketVars, backendVars
<1>5. CASE BackendEnds
  <2>1. eof' \in BOOLEAN /\ running' \in BOOLEAN
    BY <1>5 DEF BackendEnds, Ends
  <2> QED BY <1>5, <2>1, EndFrame DEF FlagTypes
<1>6. CASE Handling
  <2>1. eof' \in BOOLEAN /\ running' \in BOOLEAN
    BY <1>6 DEF Handling, Handle, HandleSet, HandleQuestion, HandleCut, CutEndsBackend,
       Ends, FlagTypes
  <2> QED BY <1>6, <2>1, HandleFrame DEF FlagTypes
<1>7. CASE Living
  <2>1. running' \in BOOLEAN
    BY <1>7 DEF Living, TOMLSave, setupTOML, FlagTypes
  <2> QED BY <1>7, <2>1, LiveFrame DEF FlagTypes
<1> QED BY <1>1, <1>2, <1>3, <1>4, <1>5, <1>6, <1>7, Steps, NoFrame DEF FlagTypes

(* The setting and what is shown of it stay settings; failures run out. *)
LEMMA DataStep ==
  UiTypes /\ LinkTypes /\ DataTypes /\ QueueTypes /\ [Next]_vars => DataTypes'
<1> SUFFICES ASSUME UiTypes, LinkTypes, DataTypes, QueueTypes, [Next]_vars
             PROVE  DataTypes'
  OBVIOUS
<1>0. MaxCommands \in Nat /\ MaxFailures \in Nat
  BY BoundsAssumption
<1>1. CASE UiThread
  <2>1. shown' \in 0..Garbage
    BY <1>0, <1>1 DEF UiThread, Press, Stop, StopFlag, UiTypes, DataTypes, Garbage
  <2> QED BY <1>1, <2>1, UiFrame DEF DataTypes
<1>2. ASSUME Failure \/ NoFailure PROVE failures' \in 0..MaxFailures
  BY <1>0, <1>2 DEF Failure, NoFailure, DataTypes
<1>3. CASE CommThread
  <2>1. Failure \/ NoFailure
    BY <1>3 DEF CommThread, CreateFirst, LoopBegins, NotYet, Compose, Write, WriteFails,
       Disconnected, CommEnds, createClientSocket, ConnectSucceeds, ConnectFails, Sent,
       NoFailure
  <2> QED BY <1>2, <1>3, <2>1, CommFrame DEF DataTypes
<1>4. CASE ReadThread
  <2>1. Failure \/ NoFailure
    BY <1>4 DEF ReadThread, Receive, PeerClosed, Reconnect, ReadEnds, CreateAgain,
       createClientSocket, ConnectSucceeds, ConnectFails, RecvFails, NoFailure
  <2>2. CASE Receive
    <3>1. Head(down).c \in 0..Garbage
      <4>1. Head(down) \in Answers
        BY <2>2 DEF Receive, LinkTypes
      <4> QED BY <4>1 DEF Answers
    <3>2. shown' \in 0..Garbage
      BY <2>2, <3>1 DEF Receive, DataTypes
    <3> QED BY <1>2, <1>4, <2>1, <3>2, ReadFrame DEF DataTypes
  <2>3. CASE UNCHANGED shown
    BY <1>2, <1>4, <2>1, <2>3, ReadFrame DEF DataTypes
  <2> QED BY <1>4, <2>2, <2>3 DEF ReadThread, PeerClosed, Reconnect, ReadEnds, CreateAgain
<1>5. CASE Handling
  <2>1. PICK l \in Lanes : Handle(l)
    BY <1>5 DEF Handling
  <2>2. Head(up[l]) \in Proper
    <3>1. up[l] # <<>> /\ up[l] \in Seq(Proper)
      BY <2>1 DEF Handle, HandleSet, HandleQuestion, HandleCut, CutEndsBackend, IsKind,
         QueueTypes
    <3> QED BY <3>1
  <2>3. Head(up[l]).c \in 0..Garbage /\ Garbage \in 0..Garbage
    BY <1>0, <2>2, ProperIs DEF Garbage
  <2>4. value' \in {Head(up[l]).c, value, Garbage}
    BY <2>1 DEF Handle, HandleSet, HandleQuestion, HandleCut, CutEndsBackend, Ends
  <2>5. value' \in 0..Garbage
    BY <2>3, <2>4 DEF DataTypes
  <2> QED BY <1>5, <2>5, HandleFrame DEF DataTypes
<1>6. CASE Ending \/ BackendCloses \/ BackendEnds
  <2>1. Failure \/ NoFailure
    BY <1>6 DEF Ending, LaneEnds, BackendCloses, BackendEnds
  <2> QED BY <1>2, <1>6, <2>1, EndFrame DEF DataTypes
<1>7. CASE Living
  <2>1. value' \in 0..Garbage /\ saved' \in 0..Garbage
    BY <1>0, <1>7 DEF Living, TOMLSave, setupTOML, DataTypes, Initial, Garbage
  <2> QED BY <1>7, <2>1, LiveFrame DEF DataTypes
<1> QED BY <1>1, <1>3, <1>4, <1>5, <1>6, <1>7, Steps, NoFrame DEF DataTypes
(* The descriptor stands for a lane or none; the replies stay bounded. *)
LEMMA LinkStep == LinkTypes /\ DataTypes /\ QueueTypes /\ [Next]_vars => LinkTypes'
<1> SUFFICES ASSUME LinkTypes, DataTypes, QueueTypes, [Next]_vars PROVE LinkTypes'
  OBVIOUS
<1>0. MaxReplies \in Nat /\ <<>> \in Seq(Answers) /\ Len(<<>>) <= MaxReplies
  BY BoundsAssumption
<1>1. ASSUME createClientSocket
      PROVE  /\ clientSocket' \in Lanes \cup {NoLane} /\ down' \in {<<>>, down}
  <2>1. CASE ConnectSucceeds
    <3>1. clientSocket' \in Free
      BY <2>1 DEF ConnectSucceeds
    <3> QED BY <2>1, <3>1 DEF ConnectSucceeds, Free
  <2>2. CASE ConnectFails
    BY <2>2 DEF ConnectFails, socketVars, LinkTypes
  <2> QED BY <1>1, <2>1, <2>2 DEF createClientSocket
<1>2. CASE UiThread
  <2>1. clientSocket' \in {NoLane, clientSocket} /\ down' \in {<<>>, down} /\ rpc' = rpc
    BY <1>2, UiFrame DEF UiThread, Press, Stop, StopFlag, socketVars
  <2> QED BY <1>0, <2>1 DEF LinkTypes
<1>3. CASE CommThread
  <2>1. CASE CreateFirst
    <3>1. createClientSocket /\ rpc' = "recv"
      BY <2>1 DEF CreateFirst
    <3> QED BY <1>0, <1>1, <3>1 DEF LinkTypes
  <2>2. CASE UNCHANGED <<rpc, clientSocket, down>>
    BY <2>2 DEF LinkTypes
  <2> QED BY <1>3, <2>1, <2>2 DEF CommThread, LoopBegins, NotYet, Compose, Write,
          WriteFails, Disconnected, CommEnds, socketVars
<1>4. CASE ReadThread
  <2>1. rpc' \in {"none", "recv", "create", "ended"}
    BY <1>4 DEF ReadThread, Receive, PeerClosed, Reconnect, ReadEnds, CreateAgain,
       WhileNotDone
  <2>2. CASE Receive
    <3>1. /\ down # <<>> /\ down' = Tail(down) /\ clientSocket' = clientSocket
          /\ down \in Seq(Answers) /\ Len(down) <= MaxReplies
      BY <2>2 DEF Receive, socketVars, LinkTypes
    <3>2. down' \in Seq(Answers) /\ Len(down') <= MaxReplies
      BY <1>0, <3>1
    <3> QED BY <2>1, <3>1, <3>2 DEF LinkTypes
  <2>3. CASE PeerClosed \/ Reconnect \/ ReadEnds
    <3>1. clientSocket' \in {NoLane, clientSocket} /\ down' \in {<<>>, down}
      BY <2>3 DEF PeerClosed, Reconnect, ReadEnds, socketVars
    <3> QED BY <1>0, <2>1, <3>1 DEF LinkTypes
  <2>4. CASE CreateAgain
    <3>1. createClientSocket
      BY <2>4 DEF CreateAgain
    <3> QED BY <1>0, <1>1, <2>1, <3>1 DEF LinkTypes
  <2> QED BY <1>4, <2>2, <2>3, <2>4 DEF ReadThread
<1>5. CASE Handling
  <2>1. PICK l \in Lanes : Handle(l)
    BY <1>5 DEF Handling
  <2>2. CASE UNCHANGED down
    BY <1>5, <2>2, HandleFrame DEF LinkTypes
  <2>3. ASSUME NEW kind \in Kinds, Len(down) < MaxReplies,
               down' = Append(down, Message(kind, value))
        PROVE  LinkTypes'
    <3>1. Message(kind, value) \in Answers
      BY DEF Answers, Message, DataTypes
    <3>2. down \in Seq(Answers)
      BY DEF LinkTypes
    <3>3. down' \in Seq(Answers) /\ Len(down') = Len(down) + 1 /\ Len(down) \in Nat
      BY <2>3, <3>1, <3>2, AppendProperties
    <3>4. Len(down') <= MaxReplies
      BY <1>0, <2>3, <3>3
    <3> QED BY <1>5, <3>3, <3>4, HandleFrame DEF LinkTypes
  <2>4. \/ UNCHANGED down
        \/ \E kind \in Kinds : /\ Len(down) < MaxReplies
                               /\ down' = Append(down, Message(kind, value))
    BY <2>1 DEF Handle, HandleSet, HandleQuestion, HandleCut, CutEndsBackend, Ends,
       IsKind, Answer, Kinds
  <2> QED BY <2>2, <2>3, <2>4
<1>6. CASE Ending \/ BackendCloses \/ BackendEnds
  BY <1>6, EndFrame DEF LinkTypes
<1> QED BY <1>2, <1>3, <1>4, <1>5, <1>6, Steps, LiveFrame, NoFrame DEF LinkTypes

-----------------------------------------------------------------------------
(* What a step does to the path of the commands: the queue, the batch, the  *)
(* lanes and the setting.                                                   *)
Left(s) == IF s[1].kind = "cut" THEN Swallow(s) ELSE Tail(s)

Idling    == /\ UNCHANGED <<toSendExtra, up, pressed, value, saved>>
             /\ toSend' \in {toSend, <<>>, <<Hello>>}
Pressing  == /\ pressed < MaxCommands /\ pressed' = pressed + 1
             /\ toSendExtra' = Append(toSendExtra, Command(pressed + 1))
             /\ UNCHANGED <<toSend, up, value, saved>>
Composing == /\ toSend \in {<<>>, <<Hello>>}
             /\ \E q \in Asks : /\ q.kind \in AskKinds
                                /\ toSend' = (toSend \o <<q>>) \o toSendExtra
             /\ toSendExtra' = <<>>
             /\ UNCHANGED <<up, pressed, value, saved>>
Writing   == /\ \E l \in Lanes, t \in Seq(Proper) :
                   ChunkOf(t, toSend) /\ up' = [up EXCEPT ![l] = @ \o t]
             /\ toSend' \in {<<>>, <<Hello>>}
             /\ UNCHANGED <<toSendExtra, pressed, value, saved>>
Taking(l) == /\ up[l] # <<>> /\ (up[l][1].kind = "cut" => Len(up[l]) > 1)
             /\ up' = [up EXCEPT ![l] = Left(up[l])]
             /\ up[l][1].c = 0 => value' = value
             /\ value' \in {value, up[l][1].c, Garbage}
             /\ UNCHANGED <<toSendExtra, toSend, pressed, saved>>
Dropping  == /\ \E l \in Lanes : up' = [up EXCEPT ![l] = <<>>]
             /\ UNCHANGED <<toSendExtra, toSend, pressed, value, saved>>
Clearing  == /\ up' = [l \in Lanes |-> <<>>]
             /\ UNCHANGED <<toSendExtra, toSend, pressed, value, saved>>
Keeping   == /\ saved' = value
             /\ UNCHANGED <<toSendExtra, toSend, up, pressed, value>>
Starting  == /\ value' \in {saved, Initial}
             /\ UNCHANGED <<toSendExtra, toSend, up, pressed, saved>>

(* A write puts a beginning of the batch onto a lane, or nothing. *)
LEMMA WriteIs ==
  ASSUME QueueTypes, BatchPhase, LinkTypes, Ordered(toSend), Write
  PROVE  Writing \/ Idling
<1>1. /\ toSend # <<>> /\ toSend[1].c = 0 /\ toSend \in Seq(Whole)
      /\ toSend' \in {<<>>, <<Hello>>}
  <2>1. cpc \in {"hello", "poll"} /\ Written
    BY DEF Write
  <2>2. CASE cpc = "hello"
    <3>1. toSend = <<Hello>> /\ toSend' = toSend
      BY <2>1, <2>2 DEF Written, BatchPhase
    <3>2. toSend[1] = Hello /\ toSend # <<>>
      BY <3>1
    <3> QED BY <3>1, <3>2, HelloIs DEF QueueTypes
  <2>3. CASE cpc = "poll"
    BY <2>1, <2>3 DEF Written, BatchPhase, IsBatch, QueueTypes
  <2> QED BY <2>1, <2>2, <2>3
<1>2. UNCHANGED <<toSendExtra, pressed, value, saved>> /\ Sent
  BY DEF Write, uiVars, backendVars
<1>3. /\ ChunkOf(toSend, toSend)
      /\ \A i \in 1..Len(toSend) :
           /\ i > 1 => ChunkOf(SubSeq(toSend, 1, i - 1), toSend)
           /\ ChunkOf(CutWithin(i), toSend)
  BY <1>1, Beginnings DEF CutWithin
<1>4. CASE UNCHANGED up
  BY <1>1, <1>2, <1>4 DEF Idling
<1>5. CASE Usable /\ \E t : ChunkOf(t, toSend) /\ Onto(clientSocket, t)
  <2>1. clientSocket \in Lanes /\ \A t : ChunkOf(t, toSend) => t \in Seq(Proper)
    BY <1>5 DEF Usable, LinkTypes, ChunkOf
  <2> QED BY <1>1, <1>2, <1>5, <2>1 DEF Onto, Writing
<1>6. CASE Usable /\ Onto(clientSocket, toSend)
  BY <1>3, <1>5, <1>6
<1>7. CASE /\ Usable
           /\ \E i \in 1..Len(toSend) :
                \/ i > 1 /\ Onto(clientSocket, SubSeq(toSend, 1, i - 1))
                \/ Onto(clientSocket, CutWithin(i))
  BY <1>3, <1>5, <1>7
<1> QED BY <1>2, <1>4, <1>6, <1>7 DEF Sent
(* A batch that is composed takes the whole queue. *)
LEMMA ComposeIs ==
  ASSUME BatchPhase, NEW pingDue \in BOOLEAN, Compose(pingDue)
  PROVE  Composing
<1> DEFINE q == Message(IF pingDue /\ ~sendOnce THEN "names" ELSE "poll", 0)
<1>1. /\ toSend' = (toSend \o <<q>>) \o toSendExtra /\ toSendExtra' = <<>>
      /\ UNCHANGED <<up, pressed, value, saved>>
  BY DEF Compose, Batch, TakeExtra, uiVars, backendVars
<1>2. q \in Asks /\ q.kind \in AskKinds
  BY BoundsAssumption DEF Message, Asks, Messages, Kinds, AskKinds
<1>3. toSend \in {<<>>, <<Hello>>}
  BY DEF Compose, BatchPhase
<1> QED BY <1>1, <1>2, <1>3 DEF Composing
(* A handler takes a message off its lane, or the backend ends. *)
LEMMA HandleIs ==
  ASSUME QueueTypes, NEW l \in Lanes, Handle(l)
  PROVE  Taking(l) \/ Clearing
<1>0. UNCHANGED <<toSendExtra, toSend, pressed, saved>>
  BY DEF Handle, commVars, uiVars
<1>1. up[l] # <<>> => Head(up[l]) = up[l][1] /\ up[l][1] \in Proper
  <2>1. up[l] \in Seq(Proper)
    BY DEF QueueTypes
  <2> QED BY <2>1, TailIs, NumbersIn
<1>2. CASE HandleSet(l)
  <2>1. /\ up[l] # <<>> /\ up[l][1].kind = "set" /\ value' = up[l][1].c
        /\ up' = [up EXCEPT ![l] = Tail(up[l])]
    BY <1>1, <1>2 DEF HandleSet, IsKind, Handled
  <2>2. up[l][1].c # 0
    BY <1>1, <2>1 DEF Proper, Whole, Orders, Asks
  <2> QED BY <1>0, <2>1, <2>2 DEF Taking, Left
<1>3. CASE HandleQuestion(l)
  BY <1>0, <1>1, <1>3 DEF HandleQuestion, IsKind, Handled, Taking, Left
<1>4. CASE HandleCut(l)
  <2>1. /\ up[l] # <<>> /\ up[l][1].kind = "cut" /\ Len(up[l]) > 1
        /\ up' = [up EXCEPT ![l] = Swallow(up[l])]
    BY <1>1, <1>4 DEF HandleCut, IsKind, Handled
  <2>2. up[l][1].c \in Nat
    BY <1>1, <2>1, ProperIs
  <2>3. /\ up[l][1].c = 0 => value' = value
        /\ value' \in {value, up[l][1].c, Garbage}
    BY <1>1, <1>4, <2>1, <2>2 DEF HandleCut
  <2> QED BY <1>0, <2>1, <2>3 DEF Taking, Left
<1>5. CASE CutEndsBackend(l)
  BY <1>0, <1>5 DEF CutEndsBackend, Ends, Clearing
<1> QED BY <1>2, <1>3, <1>4, <1>5 DEF Handle
(* Every step is one of these moves. *)
LEMMA Moves ==
  QueueTypes /\ BatchPhase /\ LinkTypes /\ Ordered(toSend) /\ [Next]_vars =>
    \/ Idling \/ Pressing \/ Composing \/ Writing \/ Dropping
    \/ Clearing \/ Keeping \/ Starting
    \/ \E l \in Lanes : Taking(l)
<1> SUFFICES ASSUME QueueTypes, BatchPhase, LinkTypes, Ordered(toSend), [Next]_vars
             PROVE  \/ Idling \/ Pressing \/ Composing \/ Writing \/ Dropping
                    \/ Clearing \/ Keeping \/ Starting
                    \/ \E l \in Lanes : Taking(l)
  OBVIOUS
<1>1. CASE UiThread
  <2>1. CASE Press
    BY <2>1, <1>1, UiFrame DEF Press, Pressing
  <2>2. CASE Stop \/ StopFlag
    BY <2>2, <1>1, UiFrame DEF Stop, StopFlag, Idling
  <2> QED BY <1>1, <2>1, <2>2 DEF UiThread
<1>2. CASE CommThread
  <2>1. CASE CreateFirst \/ LoopBegins \/ NotYet \/ WriteFails \/ Disconnected \/ CommEnds
    <3>1. UNCHANGED <<toSendExtra, up>> /\ toSend' \in {toSend, <<>>, <<Hello>>}
      BY <2>1 DEF CreateFirst, LoopBegins, NotYet, WriteFails, Written, Unsent,
         Disconnected, CommEnds
    <3> QED BY <1>2, <3>1, CommFrame DEF Idling
  <2>2. CASE \E pingDue \in BOOLEAN : Compose(pingDue)
    BY <2>2, ComposeIs
  <2>3. CASE Write
    BY <2>3, WriteIs
  <2> QED BY <1>2, <2>1, <2>2, <2>3 DEF CommThread
<1>3. CASE ReadThread
  BY <1>3, ReadFrame DEF Idling
<1>4. CASE Handling
  BY <1>4, HandleIs DEF Handling
<1>5. CASE Ending
  BY <1>5, EndFrame DEF Ending, LaneEnds, Dropping
<1>6. CASE BackendCloses
  <2>1. clientSocket \in Lanes /\ up' = [up EXCEPT ![clientSocket] = <<>>]
    BY <1>6 DEF BackendCloses, Usable, LinkTypes
  <2> QED BY <1>6, <2>1, EndFrame DEF Dropping
<1>7. CASE BackendEnds
  BY <1>7, EndFrame DEF BackendEnds, Ends, Clearing
<1>8. CASE Living
  BY <1>8, LiveFrame DEF Living, TOMLSave, setupTOML, Keeping, Starting
<1>9. CASE UNCHANGED vars
  BY <1>9, NoFrame DEF Idling
<1> QED BY <1>1, <1>2, <1>3, <1>4, <1>5, <1>6, <1>7, <1>8, <1>9, Steps

-----------------------------------------------------------------------------
(* What is left of a lane when a message, and what a cut one swallows, has  *)
(* been handled: the commands of the others.                                *)
LEMMA LeftIs ==
  ASSUME NEW s \in Seq(Proper), s # <<>>, s[1].kind = "cut" => Len(s) > 1
  PROVE  /\ Left(s) \in Seq(Proper)
         /\ Ordered(s) /\ AfterCut(s) =>
              Ordered(Left(s)) /\ AfterCut(Left(s)) /\ Cs(Left(s)) = Cs(s) \ {s[1].c}
<1> DEFINE r == Tail(s)
<1>1. r \in Seq(Proper) /\ Head(s) = s[1]
  BY TailIs
<1>2. Ordered(s) /\ AfterCut(s) =>
        Ordered(r) /\ AfterCut(r) /\ Cs(r) = Cs(s) \ {s[1].c}
  BY <1>1, TailKeeps
<1>3. CASE s[1].kind = "cut" /\ s[2].kind \notin AskKinds
  <2>1. Len(s) \in Nat /\ DOMAIN s = 1..Len(s) /\ Len(s) > 1
    BY <1>3, NumbersIn
  <2>2. r # <<>> /\ 2 \in DOMAIN s /\ r[1] = s[2]
    <3>1. Len(r) = Len(s) - 1 /\ \A i \in 1..Len(r) : r[i] = s[i + 1]
      BY HeadTailProperties
    <3>2. Len(r) # 0 /\ 1 \in 1..Len(r)
      BY <2>1, <3>1
    <3> QED BY <2>1, <3>1, <3>2
  <2> HIDE DEF r
  <2>3. Tail(r) \in Seq(Proper) /\ Head(r) = s[2]
    BY <1>1, <2>2, TailIs
  <2>4. ASSUME Ordered(s), AfterCut(s)
        PROVE  Ordered(Tail(r)) /\ AfterCut(Tail(r)) /\ Cs(Tail(r)) = Cs(s) \ {s[1].c}
    <3>1. s[2].c = 0
      BY <1>3, <2>2, <2>4 DEF AfterCut
    <3>2. Cs(Tail(r)) = Cs(r) \ {0} /\ Ordered(Tail(r)) /\ AfterCut(Tail(r))
      BY <1>1, <1>2, <2>2, <2>3, <2>4, <3>1, TailKeeps
    <3>3. 0 \notin Cs(r)
      BY DEF Cs
    <3> QED BY <1>2, <2>4, <3>2, <3>3
  <2>5. Left(s) = Tail(r)
    BY <1>3 DEF Left, Swallow, AskKinds, r
  <2> QED BY <2>3, <2>4, <2>5
<1>4. CASE ~(s[1].kind = "cut" /\ s[2].kind \notin AskKinds)
  <2>1. Left(s) = r
    BY <1>4 DEF Left, Swallow, AskKinds
  <2> QED BY <1>1, <1>2, <2>1
<1> QED BY <1>3, <1>4

(* A move keeps the types of the queue, the batch and the lanes. *)
LEMMA QueueStep ==
  ASSUME QueueTypes, Ordered(toSend), UiTypes,
         \A l \in Lanes : Ordered(up[l]) /\ AfterCut(up[l]) /\ Before(up[l], toSend),
         \/ Idling \/ Pressing \/ Composing \/ Writing \/ Dropping
         \/ Clearing \/ Keeping \/ Starting
         \/ \E l \in Lanes : Taking(l)
  PROVE  QueueTypes'
<1>0. /\ toSendExtra \in Seq(Orders) /\ toSend \in Seq(Whole)
      /\ up \in [Lanes -> Seq(Proper)] /\ <<>> \in Seq(Orders) /\ <<>> \in Seq(Proper)
      /\ \A b \in {<<>>, <<Hello>>} : b \in Seq(Whole)
  BY HelloIs DEF QueueTypes
<1>1. CASE Idling
  BY <1>0, <1>1 DEF Idling, QueueTypes
<1>2. CASE Pressing
  <2>1. Command(pressed + 1) \in Orders
    <3>1. pressed + 1 \in 0..MaxCommands /\ pressed + 1 > 0
      BY <1>2, BoundsAssumption DEF Pressing, UiTypes
    <3> QED BY <3>1 DEF Command, Message, Orders, Messages, Kinds
  <2>2. toSendExtra' \in Seq(Orders)
    BY <1>0, <1>2, <2>1, AppendProperties DEF Pressing
  <2> QED BY <1>0, <1>2, <2>2 DEF Pressing, QueueTypes
<1>3. CASE Composing
  BY <1>0, <1>3, BatchIs DEF Composing, QueueTypes
<1>4. CASE Writing
  <2>1. PICK l \in Lanes, t \in Seq(Proper) :
            ChunkOf(t, toSend) /\ up' = [up EXCEPT ![l] = @ \o t]
    BY <1>4 DEF Writing
  <2>2. up[l] \in Seq(Proper) /\ t \in Seq(Proper)
    BY <1>0, <2>1 DEF ChunkOf
  <2>3. up[l] \o t \in Seq(Proper)
    BY <2>2, Joined
  <2>4. up' \in [Lanes -> Seq(Proper)]
    BY <1>0, <2>1, <2>3
  <2> QED BY <1>0, <1>4, <2>4 DEF Writing, QueueTypes
<1>5. CASE Dropping
  <2>1. up' \in [Lanes -> Seq(Proper)]
    BY <1>0, <1>5 DEF Dropping
  <2> QED BY <1>0, <1>5, <2>1 DEF Dropping, QueueTypes
<1>6. ASSUME NEW l \in Lanes, Taking(l) PROVE QueueTypes'
  <2>1. Left(up[l]) \in Seq(Proper)
    BY <1>0, <1>6, LeftIs DEF Taking
  <2>2. up' \in [Lanes -> Seq(Proper)]
    BY <1>0, <1>6, <2>1 DEF Taking
  <2> QED BY <1>0, <1>6, <2>2 DEF Taking, QueueTypes
<1>7. CASE Clearing
  BY <1>0, <1>7 DEF Clearing, QueueTypes
<1>8. CASE Keeping \/ Starting
  BY <1>0, <1>8 DEF Keeping, Starting, QueueTypes
<1> QED BY <1>1, <1>2, <1>3, <1>4, <1>5, <1>6, <1>7, <1>8
(* The batch fits the step the comm thread has come to. *)
LEMMA PhaseStep ==
  ASSUME QueueTypes, BatchPhase, [Next]_vars
  PROVE  BatchPhase'
<1>1. CASE UNCHANGED <<cpc, toSend>>
  BY <1>1 DEF BatchPhase, CommSteps
<1>2. CASE CommThread
  <2>1. CASE CreateFirst
    BY <2>1 DEF CreateFirst, BatchPhase, CommSteps
  <2>2. CASE LoopBegins
    BY <2>2 DEF LoopBegins, BatchPhase, CommSteps
  <2>3. CASE NotYet
    BY <2>3 DEF NotYet, BatchPhase, CommSteps
  <2>4. ASSUME NEW pingDue \in BOOLEAN, Compose(pingDue) PROVE BatchPhase'
    <3>1. Composing /\ cpc' = "poll"
      BY <2>4, ComposeIs DEF Compose
    <3>2. IsBatch(toSend')
      BY <3>1, BatchIs DEF Composing, QueueTypes
    <3> QED BY <3>1, <3>2 DEF BatchPhase, CommSteps
  <2>5. CASE Write
    BY <2>5 DEF Write, Written, AfterWrite, BatchPhase, CommSteps
  <2>6. CASE WriteFails
    BY <2>6 DEF WriteFails, Written, BatchPhase, CommSteps
  <2>7. CASE Disconnected
    BY <2>7 DEF Disconnected, BatchPhase, CommSteps
  <2>8. CASE CommEnds
    BY <2>8 DEF CommEnds, BatchPhase, CommSteps
  <2> QED BY <1>2, <2>1, <2>2, <2>3, <2>4, <2>5, <2>6, <2>7, <2>8 DEF CommThread
<1> QED
  BY <1>1, <1>2, Steps, UiFrame, ReadFrame, HandleFrame, EndFrame, LiveFrame, NoFrame

-----------------------------------------------------------------------------
(* The order: along every lane, then the batch, then the queue, the numbers *)
(* go up; no command is in two lanes; none is there before it was given.    *)
Order(e, t, u, n) ==
  /\ Ordered(t) /\ Ordered(e) /\ Before(t, e)
  /\ Cs(e) \subseteq 1..n /\ Cs(t) \subseteq 1..n
  /\ \A l \in Lanes : /\ Ordered(u[l]) /\ AfterCut(u[l])
                      /\ Before(u[l], t) /\ Before(u[l], e)
                      /\ Cs(u[l]) \subseteq 1..n
  /\ \A k, l \in Lanes : k # l => Cs(u[k]) \cap Cs(u[l]) = {}
OrderInv == Order(toSendExtra, toSend, up, pressed)

(* A batch without commands keeps the order. *)
LEMMA EmptyBatch ==
  ASSUME NEW e, NEW t, NEW u, NEW n, Order(e, t, u, n),
         NEW b, Cs(b) = {}, Ordered(b)
  PROVE  Order(e, b, u, n)
<1>1. Before(b, e) /\ \A l \in Lanes : Before(u[l], b)
  BY DEF Before
<1> QED BY <1>1 DEF Order
(* A new command comes after all that are under way. *)
LEMMA Newest ==
  ASSUME NEW e \in Seq(Orders), NEW t, NEW u, NEW n \in Nat, Order(e, t, u, n),
         n < MaxCommands
  PROVE  /\ Order(Append(e, Command(n + 1)), t, u, n + 1)
         /\ Cs(Append(e, Command(n + 1))) = Cs(e) \cup {n + 1}
<1> DEFINE m == Command(n + 1)
           a == Append(e, m)
<1>1. m \in Orders /\ m.c = n + 1
  BY BoundsAssumption DEF Command, Message, Orders, Messages, Kinds
<1> HIDE DEF m
<1>2. e \in Seq(Proper) /\ <<m>> \in Seq(Proper) /\ a = e \o <<m>>
  BY <1>1, WholeIsProper, AppendIsConcat
<1>3. DOMAIN <<m>> = {1} /\ <<m>>[1] = m
  OBVIOUS
<1>4. Cs(<<m>>) = {n + 1} /\ Ordered(<<m>>)
  BY <1>1, <1>3 DEF Cs, Ordered
<1>5. Before(e, <<m>>)
  BY <1>4 DEF Before, Order
<1>6. Ordered(a) /\ Cs(a) = Cs(e) \cup {n + 1}
  <2>1. Ordered(e)
    BY DEF Order
  <2> HIDE DEF a
  <2>2. Ordered(e \o <<m>>)
    BY <1>2, <1>4, <1>5, <2>1, JoinedOrder
  <2>3. Cs(e \o <<m>>) = Cs(e) \cup Cs(<<m>>)
    BY <1>2, JoinedCommands
  <2> QED BY <1>2, <1>4, <2>2, <2>3
<1>7. 1..n \subseteq 1..(n + 1) /\ n + 1 \in 1..(n + 1) /\ \A x \in 1..n : x < n + 1
  OBVIOUS
<1> HIDE DEF a
<1>8. Before(t, a) /\ \A l \in Lanes : Before(u[l], a)
  BY <1>6, <1>7 DEF Before, Order
<1>9. /\ Cs(a) \subseteq 1..(n + 1) /\ Cs(t) \subseteq 1..(n + 1)
      /\ \A l \in Lanes : Cs(u[l]) \subseteq 1..(n + 1)
  BY <1>6, <1>7 DEF Order
<1>10. Order(a, t, u, n + 1)
  BY <1>6, <1>8, <1>9 DEF Order
<1> QED BY <1>6, <1>10 DEF a, m
(* The queue becomes the batch. *)
LEMMA Taken ==
  ASSUME NEW e, NEW t, NEW u, NEW n, Order(e, t, u, n),
         NEW s, Cs(s) = Cs(e), Ordered(s)
  PROVE  Order(<<>>, s, u, n)
<1>1. Cs(<<>>) = {} /\ Ordered(<<>>)
  BY DEF Cs, Ordered
<1>2. \A l \in Lanes : Before(u[l], s) /\ Before(u[l], <<>>)
  BY <1>1 DEF Before, Order
<1>3. Before(s, <<>>)
  BY <1>1 DEF Before
<1> QED BY <1>1, <1>2, <1>3 DEF Order
(* A lane that loses messages, or a part of the batch that moves to a lane. *)
LEMMA OtherLane ==
  ASSUME NEW e, NEW t, NEW u, NEW n, Order(e, t, u, n), NEW l \in Lanes,
         NEW s, Ordered(s), AfterCut(s), Before(s, t), Before(s, e),
         Cs(s) \subseteq 1..n,
         \A k \in Lanes : k # l => Cs(u[k]) \cap Cs(s) = {},
         NEW D, Lanes \subseteq D, D = DOMAIN u
  PROVE  Order(e, t, [u EXCEPT ![l] = s], n)
<1> DEFINE v == [u EXCEPT ![l] = s]
<1>1. v[l] = s /\ \A k \in Lanes : k # l => v[k] = u[k]
  OBVIOUS
<1> HIDE DEF v
<1>2. \A k \in Lanes : /\ Ordered(v[k]) /\ AfterCut(v[k])
                       /\ Before(v[k], t) /\ Before(v[k], e)
                       /\ Cs(v[k]) \subseteq 1..n
  <2> SUFFICES ASSUME NEW k \in Lanes
               PROVE  /\ Ordered(v[k]) /\ AfterCut(v[k])
                      /\ Before(v[k], t) /\ Before(v[k], e)
                      /\ Cs(v[k]) \subseteq 1..n
    OBVIOUS
  <2> QED BY <1>1 DEF Order
<1>3. \A j, k \in Lanes : j # k => Cs(v[j]) \cap Cs(v[k]) = {}
  <2> SUFFICES ASSUME NEW j \in Lanes, NEW k \in Lanes, j # k
               PROVE  Cs(v[j]) \cap Cs(v[k]) = {}
    OBVIOUS
  <2>1. CASE j = l
    BY <1>1, <2>1
  <2>2. CASE k = l
    BY <1>1, <2>2
  <2>3. CASE j # l /\ k # l
    BY <1>1, <2>3 DEF Order
  <2> QED BY <2>1, <2>2, <2>3
<1>4. Order(e, t, v, n)
  BY <1>2, <1>3 DEF Order
<1> QED BY <1>4 DEF v
(* A lane that loses messages keeps the order. *)
LEMMA Fewer ==
  ASSUME NEW e, NEW t, NEW u \in [Lanes -> Seq(Proper)], NEW n, Order(e, t, u, n),
         NEW l \in Lanes, NEW s, Ordered(s), AfterCut(s), Cs(s) \subseteq Cs(u[l])
  PROVE  Order(e, t, [u EXCEPT ![l] = s], n)
<1>1. Before(s, t) /\ Before(s, e) /\ Cs(s) \subseteq 1..n
  BY DEF Before, Order
<1>2. \A k \in Lanes : k # l => Cs(u[k]) \cap Cs(s) = {}
  BY DEF Order
<1> QED BY <1>1, <1>2, OtherLane
(* So does a lane that gets a beginning of the batch. *)
LEMMA MovesUp ==
  ASSUME NEW e \in Seq(Orders), NEW t \in Seq(Whole), NEW u \in [Lanes -> Seq(Proper)],
         NEW n, Order(e, t, u, n), NEW l \in Lanes, NEW c \in Seq(Proper), ChunkOf(c, t),
         NEW b, Cs(b) = {}, Ordered(b), NEW s, s = u[l] \o c
  PROVE  /\ Order(e, b, [u EXCEPT ![l] = s], n)
         /\ Cs(s) \subseteq Cs(u[l]) \cup Cs(t)
<1>1. u[l] \in Seq(Proper) /\ t \in Seq(Proper) /\ e \in Seq(Proper)
  BY WholeIsProper
<1>2. /\ Ordered(s) /\ AfterCut(s) /\ Cs(s) \subseteq Cs(u[l]) \cup Cs(t)
  BY <1>1, OntoKeeps DEF Order
<1>3. Order(e, b, u, n)
  BY EmptyBatch
<1>4. Before(s, b)
  BY DEF Before
<1>5. Before(s, e) /\ Cs(s) \subseteq 1..n
  BY <1>2 DEF Before, Order
<1>6. ASSUME NEW k \in Lanes, k # l PROVE Cs(u[k]) \cap Cs(s) = {}
  <2>1. Cs(u[k]) \cap Cs(u[l]) = {}
    BY <1>6 DEF Order
  <2>2. Cs(u[k]) \cap Cs(t) = {}
    <3>1. \A x \in Cs(t) : x \in Nat
      BY <1>1, NumbersIn
    <3> QED BY <3>1 DEF Order, Before
  <2> QED BY <1>2, <2>1, <2>2
<1>7. Order(e, b, [u EXCEPT ![l] = s], n)
  BY <1>2, <1>3, <1>4, <1>5, <1>6, OtherLane
<1> QED BY <1>2, <1>7

-----------------------------------------------------------------------------
(* The steps keep the order. *)

Inv == TypeInv /\ OrderInv
AMove == \/ Idling \/ Pressing \/ Composing \/ Writing \/ Dropping
         \/ Clearing \/ Keeping \/ Starting
         \/ \E l \in Lanes : Taking(l)

(* What Taking does to its lane, and that the command it handles is nowhere *)
(* else.                                                                    *)
LEMMA TakingIs ==
  ASSUME QueueTypes, OrderInv, NEW l \in Lanes, Taking(l)
  PROVE  /\ OrderInv'
         /\ Cs(up'[l]) = Cs(up[l]) \ {up[l][1].c}
         /\ \A k \in Lanes : k # l => up'[k] = up[k]
         /\ up[l][1] \in Proper /\ (up[l][1].c # 0 => up[l][1].c \in Cs(up[l]))
<1> DEFINE s == Left(up[l])
<1>1. /\ up \in [Lanes -> Seq(Proper)] /\ up[l] \in Seq(Proper) /\ up[l] # <<>>
      /\ up[l][1].kind = "cut" => Len(up[l]) > 1
      /\ up' = [up EXCEPT ![l] = s] /\ UNCHANGED <<toSendExtra, toSend, pressed>>
  BY DEF Taking, QueueTypes
<1>2. Ordered(s) /\ AfterCut(s) /\ Cs(s) = Cs(up[l]) \ {up[l][1].c}
  BY <1>1, LeftIs DEF OrderInv, Order
<1> HIDE DEF s
<1>3. Order(toSendExtra, toSend, [up EXCEPT ![l] = s], pressed)
  BY <1>1, <1>2, Fewer DEF OrderInv
<1>4. OrderInv'
  BY <1>1, <1>3 DEF OrderInv
<1>5. up'[l] = s /\ \A k \in Lanes : k # l => up'[k] = up[k]
  BY <1>1
<1>6. up[l][1] \in Proper /\ 1 \in DOMAIN up[l]
  BY <1>1, TailIs, NumbersIn
<1>7. up[l][1].c # 0 => up[l][1].c \in Cs(up[l])
  BY <1>6 DEF Cs
<1> QED BY <1>2, <1>4, <1>5, <1>6, <1>7
(* A move keeps the order. *)
LEMMA OrderStep ==
  ASSUME UiTypes, QueueTypes, OrderInv, AMove
  PROVE  OrderInv'
<1>0. /\ toSendExtra \in Seq(Orders) /\ toSend \in Seq(Whole)
      /\ up \in [Lanes -> Seq(Proper)] /\ pressed \in Nat
      /\ Order(toSendExtra, toSend, up, pressed)
  BY BoundsAssumption DEF QueueTypes, UiTypes, OrderInv
<1>1. CASE Idling
  <2>1. CASE toSend' = toSend
    BY <1>0, <1>1, <2>1 DEF Idling, OrderInv
  <2>2. CASE toSend' \in {<<>>, <<Hello>>}
    <3>1. Cs(toSend') = {} /\ Ordered(toSend')
      BY <2>2, HelloIs
    <3> QED BY <1>0, <1>1, <3>1, EmptyBatch DEF Idling, OrderInv
  <2> QED BY <1>1, <2>1, <2>2 DEF Idling
<1>2. CASE Pressing
  <2>1. Order(Append(toSendExtra, Command(pressed + 1)), toSend, up, pressed + 1)
    BY <1>0, <1>2, Newest DEF Pressing
  <2> QED BY <1>2, <2>1 DEF Pressing, OrderInv
<1>3. CASE Composing
  <2>1. PICK q \in Asks : /\ q.kind \in AskKinds
                          /\ toSend' = (toSend \o <<q>>) \o toSendExtra
    BY <1>3 DEF Composing
  <2>2. /\ toSend \in {<<>>, <<Hello>>} /\ toSendExtra' = <<>>
        /\ UNCHANGED <<up, pressed>>
    BY <1>3 DEF Composing
  <2>3. Cs(toSend') = Cs(toSendExtra) /\ (Ordered(toSendExtra) => Ordered(toSend'))
    BY <1>0, <2>1, <2>2, BatchIs
  <2>4. Ordered(toSendExtra)
    BY <1>0 DEF Order
  <2>5. Order(<<>>, toSend', up, pressed)
    BY <1>0, <2>3, <2>4, Taken
  <2> QED BY <2>2, <2>5 DEF OrderInv
<1>4. CASE Writing
  <2>1. PICK l \in Lanes, t \in Seq(Proper) :
            ChunkOf(t, toSend) /\ up' = [up EXCEPT ![l] = @ \o t]
    BY <1>4 DEF Writing
  <2>2. toSend' \in {<<>>, <<Hello>>} /\ UNCHANGED <<toSendExtra, pressed>>
    BY <1>4 DEF Writing
  <2> DEFINE b == toSend'
             s == up[l] \o t
  <2>3. b \in {<<>>, <<Hello>>} /\ ChunkOf(t, toSend) /\ s = up[l] \o t
    BY <2>1, <2>2
  <2>4. up' = [up EXCEPT ![l] = s]
    BY <2>1
  <2> HIDE DEF b, Hello, s
  <2>b. Cs(b) = {} /\ Ordered(b)
    BY <2>3, HelloIs
  <2>5. Order(toSendExtra, b, [up EXCEPT ![l] = s], pressed)
    BY <1>0, <2>3, <2>b, MovesUp
  <2>6. Order(toSendExtra, b, up', pressed)
    BY <2>4, <2>5
  <2> QED BY <2>2, <2>6 DEF OrderInv, b
<1>5. CASE Dropping
  <2>1. PICK l \in Lanes : up' = [up EXCEPT ![l] = <<>>]
    BY <1>5 DEF Dropping
  <2>2. Ordered(<<>>) /\ AfterCut(<<>>) /\ Cs(<<>>) \subseteq Cs(up[l])
    BY DEF Ordered, AfterCut, Cs
  <2>3. Order(toSendExtra, toSend, [up EXCEPT ![l] = <<>>], pressed)
    BY <1>0, <2>2, Fewer
  <2> QED BY <1>5, <2>1, <2>3 DEF Dropping, OrderInv
<1>6. ASSUME NEW l \in Lanes, Taking(l) PROVE OrderInv'
  BY <1>6, TakingIs
<1>7. CASE Clearing
  <2>1. \A l \in Lanes : up'[l] = <<>>
    BY <1>7 DEF Clearing
  <2>2. Ordered(<<>>) /\ AfterCut(<<>>) /\ Cs(<<>>) = {}
    BY DEF Ordered, AfterCut, Cs
  <2>3. Order(toSendExtra, toSend, up', pressed)
    BY <1>0, <2>1, <2>2 DEF Order, Before
  <2> QED BY <1>7, <2>3 DEF Clearing, OrderInv
<1>8. CASE Keeping \/ Starting
  BY <1>0, <1>8 DEF Keeping, Starting, OrderInv
<1> QED BY <1>1, <1>2, <1>3, <1>4, <1>5, <1>6, <1>7, <1>8 DEF AMove

(* The types and the order hold at the start, *)
LEMMA InvInit == Init => Inv
<1> SUFFICES ASSUME Init PROVE Inv
  OBVIOUS
<1>1. /\ toSendExtra = <<>> /\ toSend = <<>> /\ up = [l \in Lanes |-> <<>>]
  BY DEF Init
<1>2. Ordered(<<>>) /\ AfterCut(<<>>) /\ Cs(<<>>) = {}
  BY DEF Ordered, AfterCut, Cs
<1>3. \A l \in Lanes : up[l] = <<>>
  BY <1>1
<1>4. OrderInv
  BY <1>1, <1>2, <1>3 DEF OrderInv, Order, Before
<1> QED BY <1>4, TypesInit DEF Inv
(* every step keeps them, *)
LEMMA InvStep == Inv /\ [Next]_vars => Inv' /\ AMove
<1> SUFFICES ASSUME Inv, [Next]_vars PROVE Inv' /\ AMove
  OBVIOUS
<1>1. /\ UiTypes /\ QueueTypes /\ BatchPhase /\ FlagTypes /\ LinkTypes /\ DataTypes
      /\ OrderInv
  BY DEF Inv, TypeInv
<1>2. Ordered(toSend)
  BY <1>1 DEF OrderInv, Order
<1>3. AMove
  BY <1>1, <1>2, Moves DEF AMove
<1>4. QueueTypes'
  <2>1. \A l \in Lanes : Ordered(up[l]) /\ AfterCut(up[l]) /\ Before(up[l], toSend)
    BY <1>1 DEF OrderInv, Order
  <2> QED BY <1>1, <1>2, <1>3, <2>1, QueueStep DEF AMove
<1>5. BatchPhase'
  BY <1>1, PhaseStep
<1>6. OrderInv'
  BY <1>1, <1>3, OrderStep
<1>7. UiTypes' /\ FlagTypes' /\ LinkTypes' /\ DataTypes'
  BY <1>1, UiStep, FlagStep, LinkStep, DataStep
<1> QED BY <1>3, <1>4, <1>5, <1>6, <1>7 DEF Inv, TypeInv
(* so they always hold. *)
LEMMA InvAlways == Spec => []Inv
<1>1. Inv /\ [Next]_vars => Inv'
  BY InvStep
<1> QED BY <1>1, InvInit, PTL DEF Spec

-----------------------------------------------------------------------------
(* The theorems *)

(* The invariant gives the types the model states: one poll a batch, too. *)
LEMMA TypesMean == TypeInv => TypeOK
<1> SUFFICES ASSUME TypeInv PROVE TypeOK
  OBVIOUS
<1>1. UiTypes /\ QueueTypes /\ BatchPhase /\ FlagTypes /\ LinkTypes /\ DataTypes
  BY DEF TypeInv
<1>2. \A m \in ToSet(toSendExtra) : m \in Messages /\ m.kind = "set"
  <2>1. \A i \in DOMAIN toSendExtra : toSendExtra[i] \in Orders
    BY <1>1, ElementOfSeq DEF QueueTypes
  <2> QED BY <2>1 DEF ToSet, Orders
<1>3. ASSUME NEW s \in Seq(Proper) PROVE ToSet(s) \subseteq Messages
  <2>1. \A i \in DOMAIN s : s[i] \in Messages
    BY NumbersIn, ProperIs
  <2> QED BY <2>1 DEF ToSet
<1>4. toSend \in Seq(Proper) /\ \A l \in Lanes : up[l] \in Seq(Proper)
  BY <1>1, WholeIsProper DEF QueueTypes
<1>5. Cardinality({i \in DOMAIN toSend : toSend[i].kind \in {"poll", "names"}}) <= 1
  <2> DEFINE A == {i \in DOMAIN toSend : toSend[i].kind \in {"poll", "names"}}
  <2>1. \E k : A \subseteq {k}
    <3>1. CASE IsBatch(toSend)
      BY <3>1 DEF IsBatch, AskKinds
    <3>2. CASE toSend \in {<<>>, <<Hello>>}
      <4>1. Hello.kind = "hello"
        BY HelloIs
      <4> HIDE DEF Hello
      <4>2. \A i \in DOMAIN toSend : toSend[i] = Hello
        BY <3>2
      <4> QED BY <4>1, <4>2
    <3> QED BY <1>1, <3>1, <3>2 DEF BatchPhase, CommSteps
  <2> HIDE DEF A
  <2>2. PICK k : A \subseteq {k}
    BY <2>1
  <2>3. IsFiniteSet({k}) /\ Cardinality({k}) = 1
    BY FS_Singleton
  <2>4. Cardinality(A) <= 1
    BY <2>2, <2>3, FS_Subset
  <2> QED BY <2>4 DEF A
<1>6. /\ {sendOnce, isConnected, isShutdown, successfulCommunication, eof} \subseteq BOOLEAN
      /\ running \in BOOLEAN
  BY <1>1 DEF FlagTypes
<1>7. {shown, value, saved} \subseteq 0..Garbage
  BY <1>1 DEF DataTypes
<1> QED
  BY <1>1, <1>2, <1>3, <1>4, <1>5, <1>6, <1>7
     DEF TypeOK, UiTypes, BatchPhase, CommSteps, LinkTypes, DataTypes
(* Every variable of the display keeps its type, and a batch of the comm    *)
(* thread (frontend/main.cpp:1523-1578) never holds two polls.              *)
THEOREM DisplayTypeCorrect == Spec => []TypeOK
<1>1. Inv => TypeOK
  BY TypesMean DEF Inv
<1> QED BY <1>1, InvAlways, PTL

(* Along one connection the order is that of the numbers. *)
LEMMA OrderMeans == Inv => OrderPerConnection
<1> SUFFICES ASSUME Inv, NEW l \in Lanes
             PROVE  InOrder(Pressed(up[l] \o toSend \o toSendExtra))
  BY DEF OrderPerConnection
<1> DEFINE h == up[l] \o toSend
           s == h \o toSendExtra
<1>1. up[l] \in Seq(Proper) /\ toSend \in Seq(Proper) /\ toSendExtra \in Seq(Proper)
  BY WholeIsProper DEF Inv, TypeInv, QueueTypes
<1>2. /\ Ordered(up[l]) /\ Ordered(toSend) /\ Ordered(toSendExtra)
      /\ Before(up[l], toSend) /\ Before(up[l], toSendExtra)
      /\ Before(toSend, toSendExtra)
  BY DEF Inv, OrderInv, Order
<1>3. h \in Seq(Proper) /\ Ordered(h) /\ Cs(h) = Cs(up[l]) \cup Cs(toSend)
  BY <1>1, <1>2, Joined, JoinedOrder, JoinedCommands
<1> HIDE DEF h
<1>4. Before(h, toSendExtra)
  BY <1>2, <1>3 DEF Before
<1>5. s \in Seq(Proper) /\ Ordered(s)
  BY <1>1, <1>2, <1>3, <1>4, Joined, JoinedOrder
<1> HIDE DEF s
<1>6. InOrder(Pressed(s))
  BY <1>5, InOrderMeans
<1> QED BY <1>6 DEF s, h
(* Commands that travel over the same connection arrive in the order in     *)
(* which they were pressed, for any number of commands, connections and     *)
(* failures (frontend/main.cpp:1573-1578, client.cpp:120).                  *)
THEOREM OrderKept == Spec => []OrderPerConnection
<1> QED BY OrderMeans, InvAlways, PTL

-----------------------------------------------------------------------------
(* The refinement: what is under way *)

Flight(e, t, u) == Cs(e) \cup Cs(t) \cup UNION {Cs(u[l]) : l \in Lanes}
(* The commands under way are those of the queue, the batch and the lanes, *)
LEMMA FlightIs == QueueTypes => InFlight = Flight(toSendExtra, toSend, up)
<1> SUFFICES ASSUME QueueTypes PROVE InFlight = Flight(toSendExtra, toSend, up)
  OBVIOUS
<1>1. toSend \in Seq(Proper) /\ toSendExtra \in Seq(Proper)
  BY WholeIsProper DEF QueueTypes
<1>2. \A l \in Lanes : CommandsIn(up[l]) = Cs(up[l])
  BY CommandsAre DEF QueueTypes
<1>3. CommandsIn(toSend) = Cs(toSend) /\ CommandsIn(toSendExtra) = Cs(toSendExtra)
  BY <1>1, CommandsAre
<1>4. UNION {CommandsIn(up[l]) : l \in Lanes} = UNION {Cs(up[l]) : l \in Lanes}
  BY <1>2
<1> QED BY <1>3, <1>4 DEF InFlight, Flight
(* after a step as before it. *)
LEMMA FlightThen == QueueTypes' => InFlight' = Flight(toSendExtra, toSend, up)'
<1> SUFFICES ASSUME QueueTypes' PROVE InFlight' = Flight(toSendExtra, toSend, up)'
  OBVIOUS
<1>1. toSend' \in Seq(Proper) /\ toSendExtra' \in Seq(Proper)
  BY WholeIsProper DEF QueueTypes
<1>2. \A l \in Lanes : CommandsIn(up'[l]) = Cs(up'[l])
  BY CommandsAre DEF QueueTypes
<1>3. CommandsIn(toSend') = Cs(toSend') /\ CommandsIn(toSendExtra') = Cs(toSendExtra')
  BY <1>1, CommandsAre
<1>4. UNION {CommandsIn(up'[l]) : l \in Lanes} = UNION {Cs(up'[l]) : l \in Lanes}
  BY <1>2
<1> QED BY <1>3, <1>4 DEF InFlight, Flight
(* They were given before. *)
LEMMA FlightBound == Inv => InFlight \subseteq 1..pressed /\ pressed \in 0..MaxCommands
<1> SUFFICES ASSUME Inv PROVE InFlight \subseteq 1..pressed /\ pressed \in 0..MaxCommands
  OBVIOUS
<1>1. Order(toSendExtra, toSend, up, pressed) /\ QueueTypes /\ pressed \in 0..MaxCommands
  BY DEF Inv, OrderInv, TypeInv, UiTypes
<1>2. Flight(toSendExtra, toSend, up) \subseteq 1..pressed
  BY <1>1 DEF Order, Flight
<1> QED BY <1>1, <1>2, FlightIs

(* How the abstract state changes. *)
LEMMA Losing ==
  ASSUME Inv, UNCHANGED <<pressed, value, saved>>, InFlight' \subseteq InFlight
  PROVE  Channel!Next
<1> DEFINE S == InFlight \ InFlight'
<1>0. InFlight \subseteq 1..pressed /\ pressed \in 0..MaxCommands
  BY FlightBound
<1>1. S \in SUBSET Commands /\ S \subseteq InFlight
  BY <1>0, BoundsAssumption DEF Commands
<1>2. InFlight' = InFlight \ S
  OBVIOUS
<1>3. (1..pressed') \ InFlight' = ((1..pressed) \ InFlight) \cup S
  BY <1>0
<1> HIDE DEF S
<1>4. Channel!Lose(S)
  BY <1>1, <1>2, <1>3 DEF Channel!Lose, Channel!Settle
<1> QED BY <1>1, <1>4 DEF Channel!Next
(* A command that arrives is carried out, spoiled, or lost. *)
LEMMA Arriving ==
  ASSUME Inv, UNCHANGED <<pressed, saved>>, NEW c \in InFlight,
         InFlight' = InFlight \ {c}, value' \in {value, c, Garbage}
  PROVE  Channel!Next
<1>0. InFlight \subseteq 1..pressed /\ pressed \in 0..MaxCommands
  BY FlightBound
<1>1. c \in Commands
  BY <1>0, BoundsAssumption DEF Commands
<1>2. (1..pressed') \ InFlight' = ((1..pressed) \ InFlight) \cup {c}
  BY <1>0
<1>3. Channel!Settle({c})
  BY <1>2 DEF Channel!Settle
<1>4. CASE value' \in {c, Garbage}
  <2>1. Channel!Execute(c) \/ Channel!Spoil(c)
    BY <1>3, <1>4 DEF Channel!Execute, Channel!Spoil
  <2> QED BY <1>1, <2>1 DEF Channel!Next
<1>5. CASE value' = value
  BY <1>5, Losing
<1> QED BY <1>4, <1>5
(* A command that is given was not there before. *)
LEMMA Given ==
  ASSUME Inv, Pressing, InFlight' = InFlight \cup {pressed + 1}
  PROVE  Channel!Next
<1>0. /\ InFlight \subseteq 1..pressed /\ pressed \in 0..MaxCommands
      /\ pressed' = pressed + 1 /\ pressed < MaxCommands
      /\ value' = value /\ saved' = saved
  BY FlightBound DEF Pressing
<1> DEFINE c == pressed + 1
<1>1. c \in Commands /\ c \notin 1..pressed /\ 1..pressed' = (1..pressed) \cup {c}
  BY <1>0, BoundsAssumption DEF Commands
<1> HIDE DEF c
<1>2. (1..pressed') \ InFlight' = (1..pressed) \ InFlight
  BY <1>0, <1>1 DEF c
<1>3. c \notin InFlight \cup ((1..pressed) \ InFlight)
  BY <1>0, <1>1
<1>4. Channel!Press(c)
  BY <1>0, <1>2, <1>3 DEF Channel!Press, c
<1> QED BY <1>1, <1>4 DEF Channel!Next

(* A step of the display or of the backend is a step of the channel.        *)
LEMMA LaneFlight ==
  ASSUME NEW u \in [Lanes -> Seq(Proper)], NEW l \in Lanes, NEW s, NEW e, NEW t
  PROVE  Flight(e, t, [u EXCEPT ![l] = s]) \subseteq Flight(e, t, u) \cup Cs(s)
<1> DEFINE v == [u EXCEPT ![l] = s]
<1>1. \A k \in Lanes : v[k] = IF k = l THEN s ELSE u[k]
  OBVIOUS
<1> HIDE DEF v
<1>2. Flight(e, t, v) \subseteq Flight(e, t, u) \cup Cs(s)
  BY <1>1 DEF Flight
<1> QED BY <1>2 DEF v
(* A command that is handled is not under way any more, anywhere. *)
LEMMA TakenOut ==
  ASSUME QueueTypes, OrderInv, NEW l \in Lanes, Taking(l), up[l][1].c # 0
  PROVE  /\ up[l][1].c \in Flight(toSendExtra, toSend, up)
         /\ Flight(toSendExtra, toSend, up') =
              Flight(toSendExtra, toSend, up) \ {up[l][1].c}
<1> DEFINE c == up[l][1].c
<1>1. /\ Cs(up'[l]) = Cs(up[l]) \ {c} /\ \A k \in Lanes : k # l => up'[k] = up[k]
      /\ c \in Cs(up[l])
  BY TakingIs
<1> HIDE DEF c
<1>2. c \notin Cs(toSend) /\ c \notin Cs(toSendExtra)
  <2>1. c \in Nat
    <3>1. up[l] \in Seq(Proper)
      BY DEF QueueTypes
    <3> QED BY <1>1, <3>1, NumbersIn
  <2> QED BY <1>1, <2>1 DEF OrderInv, Order, Before
<1>3. \A k \in Lanes : k # l => c \notin Cs(up[k])
  BY <1>1 DEF OrderInv, Order
<1>4. UNION {Cs(up'[k]) : k \in Lanes} = (UNION {Cs(up[k]) : k \in Lanes}) \ {c}
  <2>1. ASSUME NEW x, NEW k \in Lanes, x \in Cs(up'[k])
        PROVE  x \in Cs(up[k]) /\ x # c
    BY <1>1, <1>3, <2>1
  <2>2. ASSUME NEW x, NEW k \in Lanes, x \in Cs(up[k]), x # c
        PROVE  x \in Cs(up'[k])
    BY <1>1, <2>2
  <2> QED BY <2>1, <2>2
<1>5. c \in Flight(toSendExtra, toSend, up)
  BY <1>1 DEF Flight
<1>6. Flight(toSendExtra, toSend, up') = Flight(toSendExtra, toSend, up) \ {c}
  BY <1>2, <1>4 DEF Flight
<1> QED BY <1>5, <1>6 DEF c
(* Every move is a step of the channel. *)
LEMMA MoveIs ==
  ASSUME Inv, Inv', AMove
  PROVE  Channel!Next
<1>0. /\ UiTypes /\ QueueTypes /\ QueueTypes' /\ OrderInv
      /\ toSendExtra \in Seq(Orders) /\ toSend \in Seq(Whole)
      /\ up \in [Lanes -> Seq(Proper)] /\ pressed \in Nat
      /\ Order(toSendExtra, toSend, up, pressed)
  BY BoundsAssumption DEF Inv, TypeInv, QueueTypes, UiTypes, OrderInv
<1> DEFINE F == Flight(toSendExtra, toSend, up)
<1>a. InFlight = F /\ InFlight' = F'
  BY <1>0, FlightIs, FlightThen
<1>1. CASE Idling
  <2>1. Cs(toSend') \subseteq Cs(toSend)
    BY <1>1, HelloIs DEF Idling
  <2>2. F' \subseteq F
    BY <1>1, <2>1 DEF Idling, Flight
  <2> QED BY <1>1, <1>a, <2>2, Losing DEF Idling
<1>2. CASE Pressing
  <2>1. Cs(toSendExtra') = Cs(toSendExtra) \cup {pressed + 1}
    BY <1>0, <1>2, Newest DEF Pressing
  <2>2. F' = F \cup {pressed + 1}
    BY <1>2, <2>1 DEF Pressing, Flight
  <2> QED BY <1>2, <1>a, <2>2, Given
<1>3. CASE Composing
  <2>1. PICK q \in Asks : /\ q.kind \in AskKinds
                          /\ toSend' = (toSend \o <<q>>) \o toSendExtra
    BY <1>3 DEF Composing
  <2>2. toSend \in {<<>>, <<Hello>>}
    BY <1>3 DEF Composing
  <2>3. Cs(toSend') = Cs(toSendExtra)
    BY <1>0, <2>1, <2>2, BatchIs
  <2>4. toSendExtra' = <<>> /\ UNCHANGED <<up, pressed, value, saved>> /\ Cs(<<>>) = {}
    BY <1>3 DEF Composing, Cs
  <2>5. F' \subseteq F
    BY <2>3, <2>4 DEF Flight
  <2> QED BY <1>a, <2>4, <2>5, Losing
<1>4. CASE Writing
  <2>1. PICK l \in Lanes, t \in Seq(Proper) :
            ChunkOf(t, toSend) /\ up' = [up EXCEPT ![l] = @ \o t]
    BY <1>4 DEF Writing
  <2>2. UNCHANGED <<toSendExtra, pressed, value, saved>> /\ Cs(toSend') = {}
    BY <1>4, HelloIs DEF Writing
  <2> DEFINE s == up[l] \o t
  <2>3. Cs(s) \subseteq Cs(up[l]) \cup Cs(toSend)
    <3>1. /\ up[l] \in Seq(Proper) /\ toSend \in Seq(Proper)
          /\ Ordered(up[l]) /\ AfterCut(up[l]) /\ Before(up[l], toSend)
      BY <1>0, WholeIsProper DEF Order
    <3> QED BY <2>1, <3>1, OntoKeeps
  <2>4. up' = [up EXCEPT ![l] = s]
    BY <2>1
  <2> HIDE DEF s
  <2>5. Flight(toSendExtra, toSend, up') \subseteq F
    <3>1. Flight(toSendExtra, toSend, up') \subseteq F \cup Cs(s)
      BY <1>0, <2>4, LaneFlight
    <3>2. Cs(s) \subseteq F
      BY <2>3 DEF Flight
    <3> QED BY <3>1, <3>2
  <2>6. F' \subseteq F
    <3>1. F' \subseteq Flight(toSendExtra, toSend, up')
      BY <2>2 DEF Flight
    <3> QED BY <2>5, <3>1
  <2> QED BY <1>a, <2>2, <2>6, Losing
<1>5. CASE Dropping
  <2>1. PICK l \in Lanes : up' = [up EXCEPT ![l] = <<>>]
    BY <1>5 DEF Dropping
  <2>2. Cs(<<>>) = {} /\ UNCHANGED <<toSendExtra, toSend, pressed, value, saved>>
    BY <1>5 DEF Cs, Dropping
  <2>3. Flight(toSendExtra, toSend, [up EXCEPT ![l] = <<>>]) \subseteq F \cup Cs(<<>>)
    BY <1>0, LaneFlight
  <2>4. F' \subseteq F
    BY <2>1, <2>2, <2>3
  <2> QED BY <1>a, <2>2, <2>4, Losing
<1>6. ASSUME NEW l \in Lanes, Taking(l) PROVE Channel!Next
  <2> DEFINE c == up[l][1].c
  <2>1. /\ UNCHANGED <<toSendExtra, toSend, pressed, saved>> /\ up[l][1] \in Proper
        /\ Cs(up'[l]) = Cs(up[l]) \ {c} /\ \A k \in Lanes : k # l => up'[k] = up[k]
    BY <1>0, <1>6, TakingIs DEF Taking
  <2>2. CASE c # 0
    <3>1. c \in F /\ F' = F \ {c}
      BY <1>0, <1>6, <2>1, <2>2, TakenOut
    <3>2. value' \in {value, c, Garbage}
      BY <1>6 DEF Taking
    <3> QED BY <1>a, <2>1, <3>1, <3>2, Arriving
  <2>3. CASE c = 0
    <3>1. value' = value
      BY <1>6, <2>3 DEF Taking
    <3>2. F' \subseteq F
      BY <2>1 DEF Flight
    <3> QED BY <1>a, <2>1, <3>1, <3>2, Losing
  <2> QED BY <2>2, <2>3
<1>7. CASE Clearing
  <2>1. \A l \in Lanes : Cs(up'[l]) = {}
    BY <1>7 DEF Clearing, Cs
  <2>2. F' \subseteq F
    BY <1>7, <2>1 DEF Clearing, Flight
  <2> QED BY <1>7, <1>a, <2>2, Losing DEF Clearing
<1>8. CASE Keeping \/ Starting
  <2>1. F' = F /\ pressed' = pressed
    BY <1>8 DEF Keeping, Starting, Flight
  <2>2. Channel!Save \/ Channel!Restart
    BY <1>8, <1>a, <2>1 DEF Keeping, Starting, Channel!Save, Channel!Restart
  <2> QED BY <2>2 DEF Channel!Next
<1> QED BY <1>1, <1>2, <1>3, <1>4, <1>5, <1>6, <1>7, <1>8 DEF AMove

(* Over the queue, the batch, and any number of connections that break off, *)
(* each command is carried out at most once, as pressed or spoiled by a cut, *)
(* or lost for good: no retry, no buffer and no old connection repeats one  *)
(* (frontend/main.cpp:1573-1578, client.cpp:120, backend/main.cpp:720).     *)
THEOREM DisplayImplementsChannel == Spec => ImplementsChannel
<1>1. Init => Channel!Init
  <2> SUFFICES ASSUME Init PROVE Channel!Init
    OBVIOUS
  <2>1. pressed = 0 /\ value = Initial /\ saved = Initial /\ toSendExtra = <<>> /\ toSend = <<>>
    BY DEF Init
  <2>2. InFlight \subseteq 1..pressed
    BY InvInit, FlightBound
  <2>3. 1..0 = {}
    OBVIOUS
  <2> QED BY <2>1, <2>2, <2>3 DEF Channel!Init
<1>2. Inv /\ [Next]_vars =>
        [Channel!Next]_<<InFlight, (1..pressed) \ InFlight, value, saved>>
  BY InvStep, MoveIs
<1> QED BY <1>1, <1>2, InvAlways, PTL DEF Spec, ImplementsChannel, Channel!Spec

=============================================================================
