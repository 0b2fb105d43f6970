------------------------------ MODULE MsgFifo ------------------------------
(***************************************************************************)
(* What the inter-CPU messages promise: every CPU has a bounded mailbox;    *)
(* accepted messages come out once each, in the order in which they were    *)
(* accepted, and a message is refused only when the mailbox is full.        *)
(***************************************************************************)
EXTENDS Naturals, Sequences

CONSTANTS CPU, Msg, NoMsg, Capacity

VARIABLES
    box,    \* box[c]: the messages accepted for c and not yet taken
    taken   \* taken[c]: the message c is handling, NoMsg if none

vars == <<box, taken>>

Init ==
    /\ box = [c \in CPU |-> <<>>]
    /\ taken = [c \in CPU |-> NoMsg]

Accept(c, m) ==
    /\ Len(box[c]) < Capacity
    /\ box' = [box EXCEPT ![c] = Append(@, m)]

(* The handler of a message may itself send one, to any mailbox.            *)
Handled(c) ==
    /\ taken[c] # NoMsg
    /\ taken' = [taken EXCEPT ![c] = NoMsg]
    /\ UNCHANGED box \/ \E d \in CPU, m \in Msg : Accept(d, m)

Take(c) ==
    /\ taken[c] = NoMsg
    /\ box[c] # <<>>
    /\ taken' = [taken EXCEPT ![c] = Head(box[c])]
    /\ box' = [box EXCEPT ![c] = Tail(@)]

Next ==
    \E c \in CPU :
        \/ Take(c)
        \/ Handled(c)
        \/ \E m \in Msg : Accept(c, m) /\ UNCHANGED taken

Spec == Init /\ [][Next]_vars

=============================================================================
