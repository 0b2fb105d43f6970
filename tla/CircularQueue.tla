--------------------------- MODULE CircularQueue ---------------------------
(***************************************************************************)
(* lib/inc/circular_queue.h: the ring buffer behind the per-CPU message     *)
(* queue.  A queue is a record of its two indices and its buffer.  push and *)
(* pop each run under the queue's own spinlock from their first to their    *)
(* last access, so each is one step of the program: an operator on queues   *)
(* here.                                                                    *)
(***************************************************************************)
EXTENDS Integers, Sequences

CONSTANTS
    Capacity,   \* cq->capacity: IPI_MAX_EVENTS for the message queue
    Elem,       \* what is queued
    NoElem      \* content of a slot that was never written

Slot == 0 .. Capacity - 1

Queue == [front : {-1} \cup Slot, rear : {-1} \cup Slot, buf : [Slot -> Elem \cup {NoElem}]]

(* The slot after slot i; i = -1 is the empty queue's index.                *)
After(i) == (i + 1) % Capacity

circular_queue_init ==
    [front |-> -1, rear |-> -1, buf |-> [i \in Slot |-> NoElem]]

circular_queue_is_full(q) == After(q.rear) = q.front

circular_queue_is_empty(q) == q.front = -1

(* The accepting branch of circular_queue_push.                             *)
Push(q, e) ==
    LET r == After(q.rear)
    IN  [front |-> IF q.front = -1 THEN 0 ELSE q.front,
         rear  |-> r,
         buf   |-> [q.buf EXCEPT ![r] = e]]

(* The element circular_queue_pop copies out ...                            *)
Head0(q) == q.buf[q.front]

(* ... and what it leaves behind.                                           *)
Pop(q) ==
    IF q.front = q.rear
    THEN [q EXCEPT !.front = -1, !.rear = -1]
    ELSE [q EXCEPT !.front = After(q.front)]

----------------------------------------------------------------------------
(* How many elements a queue holds, and the elements in the order in which  *)
(* they will come out.                                                      *)
Length(q) ==
    IF q.front = -1 THEN 0
    ELSE IF q.rear >= q.front THEN q.rear - q.front + 1
    ELSE q.rear + Capacity - q.front + 1

Contents(q) == [i \in 1 .. Length(q) |-> q.buf[(q.front + i - 1) % Capacity]]

(* What the code maintains of a queue: both indices are -1 or neither is,   *)
(* and the slots in use hold elements.                                      *)
Valid(q) ==
    /\ q \in Queue
    /\ q.front = -1 <=> q.rear = -1
    /\ \A i \in 1 .. Length(q) : Contents(q)[i] \in Elem

=============================================================================
