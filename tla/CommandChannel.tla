--------------------------- MODULE CommandChannel ---------------------------
(***************************************************************************)
(* What the rider may expect of a button on the display: the command is    *)
(* carried out at most once and as it was pressed, or it is spoiled on the *)
(* way, or it is lost.  A command that was lost does not come back.  When  *)
(* the other side starts again, it has the setting it saved last, or none. *)
(***************************************************************************)
EXTENDS Integers

CONSTANTS Commands,   \* the commands the rider may give
          Initial,    \* the setting they change, before the first of them
          Garbage     \* the setting a spoiled command leaves behind

VARIABLES pending,    \* the commands under way
          settled,    \* the commands that were carried out, spoiled or lost
          value,      \* the setting
          saved       \* the setting that was saved

Init == pending = {} /\ settled = {} /\ value = Initial /\ saved = Initial

Press(c) == /\ c \notin pending \cup settled
            /\ pending' = pending \cup {c}
            /\ UNCHANGED <<settled, value, saved>>

Settle(S) == /\ pending' = pending \ S
             /\ settled' = settled \cup S
             /\ UNCHANGED saved

Execute(c) == c \in pending /\ Settle({c}) /\ value' = c

Spoil(c) == c \in pending /\ Settle({c}) /\ value' = Garbage

Lose(S) == S \subseteq pending /\ Settle(S) /\ UNCHANGED value

Save == saved' = value /\ UNCHANGED <<pending, settled, value>>

Restart == value' \in {saved, Initial} /\ UNCHANGED <<pending, settled, saved>>

Next == \/ Save \/ Restart
        \/ \E c \in Commands : Press(c) \/ Execute(c) \/ Spoil(c)
        \/ \E S \in SUBSET Commands : Lose(S)

Spec == Init /\ [][Next]_<<pending, settled, value, saved>>

=============================================================================
