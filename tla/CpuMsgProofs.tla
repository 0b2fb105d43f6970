---------------------------- MODULE CpuMsgProofs ----------------------------
(***************************************************************************)
(* The ring buffer is a bounded FIFO for every capacity, the message queues *)
(* implement the mailboxes of module MsgFifo for every number of CPUs, and  *)
(* no message is stranded on the ports that withdraw the IPI before they    *)
(* handle the messages.                                                     *)
(***************************************************************************)
EXTENDS CpuMsg, TLAPS

(* An index modulo the capacity, for the values the indices take.           *)
LEMMA Wrap ==
    \A x \in 0 .. 2 * Capacity - 1 :
        x % Capacity = IF x < Capacity THEN x ELSE x - Capacity
BY CpuMsgAssumption

(* The slot after a slot is a slot.                                         *)
LEMMA AfterSlot ==
    \A i \in {-1} \cup Slot :
        /\ After(i) = IF i = Capacity - 1 THEN 0 ELSE i + 1
        /\ After(i) \in Slot
<1> SUFFICES ASSUME NEW i \in {-1} \cup Slot
             PROVE  After(i) = IF i = Capacity - 1 THEN 0 ELSE i + 1
  BY CpuMsgAssumption DEF Slot
<1>1. i + 1 \in 0 .. 2 * Capacity - 1
  BY CpuMsgAssumption DEF Slot
<1> QED
  BY <1>1, Wrap, CpuMsgAssumption DEF After, Slot

(* The number of elements is between 0 and the capacity; the two tests of   *)
(* the code recognise the two ends.                                         *)
LEMMA Bounds ==
    ASSUME NEW q, Valid(q)
    PROVE  /\ Length(q) \in 0 .. Capacity
           /\ circular_queue_is_empty(q) <=> Length(q) = 0
           /\ circular_queue_is_full(q) <=> Length(q) = Capacity
<1>1. /\ q.front \in {-1} \cup Slot /\ q.rear \in {-1} \cup Slot
      /\ q.front = -1 <=> q.rear = -1
  BY DEF Valid, Queue
<1>2. After(q.rear) = IF q.rear = Capacity - 1 THEN 0 ELSE q.rear + 1
  BY <1>1, AfterSlot
<1>3. Capacity \in Nat /\ Capacity > 0
  BY CpuMsgAssumption
<1>4. CASE q.front = -1
  BY <1>1, <1>2, <1>3, <1>4 DEF Length, circular_queue_is_empty, circular_queue_is_full
<1>5. CASE q.front # -1
  <2>1. q.front \in 0 .. Capacity - 1 /\ q.rear \in 0 .. Capacity - 1
    BY <1>1, <1>5 DEF Slot
  <2> QED
    BY <1>2, <1>3, <1>5, <2>1 DEF Length, circular_queue_is_empty, circular_queue_is_full
<1> QED
  BY <1>4, <1>5

(* Which slot holds the i-th element.                                       *)
LEMMA Position ==
    ASSUME NEW f \in Slot, NEW i \in 1 .. Capacity + 1
    PROVE  (f + i - 1) % Capacity =
               IF f + i - 1 < Capacity THEN f + i - 1 ELSE f + i - 1 - Capacity
<1>1. PICK x \in 0 .. 2 * Capacity - 1 : x = f + i - 1
  BY CpuMsgAssumption DEF Slot
<1>2. x % Capacity = IF x < Capacity THEN x ELSE x - Capacity
  BY Wrap
<1> QED
  BY <1>1, <1>2, CpuMsgAssumption DEF Slot

(* push appends.                                                            *)
LEMMA PushAppends ==
    ASSUME NEW q, Valid(q), ~circular_queue_is_full(q), NEW e \in Msg
    PROVE  /\ Valid(Push(q, e))
           /\ Contents(Push(q, e)) = Append(Contents(q), e)
<1> DEFINE r == After(q.rear)
           w == Push(q, e)
<1>1. /\ q.front \in {-1} \cup Slot /\ q.rear \in {-1} \cup Slot
      /\ q.front = -1 <=> q.rear = -1
      /\ q.buf \in [Slot -> Msg \cup {NoMsg}]
  BY DEF Valid, Queue
<1>2. r = (IF q.rear = Capacity - 1 THEN 0 ELSE q.rear + 1) /\ r \in Slot
  BY <1>1, AfterSlot
<1>3. /\ w.front = IF q.front = -1 THEN 0 ELSE q.front
      /\ w.rear = r
      /\ w.buf = [q.buf EXCEPT ![r] = e]
      /\ w.front \in Slot
  BY <1>1, CpuMsgAssumption DEF Push, Slot
<1>4. w \in Queue /\ w.front # -1 /\ w.rear # -1
  <2>1. w.buf \in [Slot -> Msg \cup {NoMsg}]
    BY <1>1, <1>3
  <2> QED
    BY <1>2, <1>3, <2>1, CpuMsgAssumption DEF Push, Queue, Slot
<1>5. Length(q) \in Nat /\ Length(q) < Capacity
  BY Bounds, CpuMsgAssumption
<1>11. r # q.front
  BY DEF circular_queue_is_full
<1> HIDE DEF r, w
<1>6. Length(w) = Length(q) + 1
  <2>1. CASE q.front = -1
    BY <1>1, <1>2, <1>3, <2>1, CpuMsgAssumption DEF Length, Slot
  <2>2. CASE q.front # -1
    <3>1. Length(w) = IF r >= q.front THEN r - q.front + 1 ELSE r + Capacity - q.front + 1
      BY <1>3, <1>4, <2>2 DEF Length
    <3>2. Length(q) = IF q.rear >= q.front THEN q.rear - q.front + 1
                      ELSE q.rear + Capacity - q.front + 1
      BY <2>2 DEF Length
    <3>3. /\ q.front \in Int /\ 0 <= q.front /\ q.front < Capacity
          /\ q.rear \in Int /\ 0 <= q.rear /\ q.rear < Capacity /\ Capacity \in Int
      BY <1>1, <2>2, CpuMsgAssumption DEF Slot
    <3>4. CASE q.rear = Capacity - 1
      BY <1>2, <1>11, <3>1, <3>2, <3>3, <3>4
    <3>5. CASE q.rear # Capacity - 1
      BY <1>2, <1>11, <3>1, <3>2, <3>3, <3>5
    <3> QED
      BY <3>4, <3>5
  <2> QED
    BY <2>1, <2>2
<1>7. ASSUME NEW i \in 1 .. Length(q)
      PROVE  Contents(w)[i] = Contents(q)[i]
  <2>1. q.front \in Slot /\ w.front = q.front
    BY <1>1, <1>3, <1>7 DEF Length
  <2>2. i \in 1 .. Capacity + 1
    BY <1>5, CpuMsgAssumption
  <2>3. PICK s : s = (q.front + i - 1) % Capacity
    OBVIOUS
  <2>7. s = IF q.front + i - 1 < Capacity THEN q.front + i - 1
            ELSE q.front + i - 1 - Capacity
    BY <2>1, <2>2, <2>3, Position
  <2>4. s # r /\ s \in Slot
    <3>1. Length(q) = IF q.rear >= q.front THEN q.rear - q.front + 1
                      ELSE q.rear + Capacity - q.front + 1
      BY <2>1, CpuMsgAssumption DEF Length, Slot
    <3>2. /\ q.front \in Int /\ 0 <= q.front /\ q.front < Capacity
          /\ q.rear \in Int /\ 0 <= q.rear /\ q.rear < Capacity
          /\ Capacity \in Int /\ i \in Int /\ 1 <= i /\ i <= Length(q) /\ Length(q) < Capacity
      BY <1>1, <1>5, <2>1, CpuMsgAssumption DEF Slot
    <3>3. s \in Int /\ 0 <= s /\ s < Capacity
      BY <2>7, <3>1, <3>2
    <3>4. s # r
      BY <1>2, <1>11, <2>7, <3>1, <3>2
    <3> QED
      BY <3>2, <3>3, <3>4 DEF Slot
  <2>5. w.buf[s] = q.buf[s]
    BY <1>1, <1>3, <2>4
  <2>6. i \in 1 .. Length(w)
    BY <1>5, <1>6
  <2> QED
    BY <2>1, <2>3, <2>5, <2>6 DEF Contents
<1>8. Contents(w)[Length(w)] = e
  <2>1. Length(w) \in 1 .. Capacity + 1 /\ Length(w) \in 1 .. Length(w)
    BY <1>5, <1>6, CpuMsgAssumption
  <2>4. (w.front + Length(w) - 1) % Capacity =
            IF w.front + Length(w) - 1 < Capacity THEN w.front + Length(w) - 1
            ELSE w.front + Length(w) - 1 - Capacity
    BY <1>3, <2>1, Position
  <2>5. Length(w) = IF r >= w.front THEN r - w.front + 1 ELSE r + Capacity - w.front + 1
    BY <1>3, <1>4 DEF Length
  <2>2. (w.front + Length(w) - 1) % Capacity = r
    BY <1>2, <1>3, <2>4, <2>5, CpuMsgAssumption DEF Slot
  <2>3. w.buf[r] = e
    BY <1>1, <1>2, <1>3
  <2> QED
    BY <2>1, <2>2, <2>3 DEF Contents
<1>9. Contents(w) = Append(Contents(q), e)
  <2>1. Contents(q) = [i \in 1 .. Length(q) |-> Contents(q)[i]]
    BY DEF Contents
  <2>2. Contents(w) = [i \in 1 .. Length(q) + 1 |->
                         IF i <= Length(q) THEN Contents(q)[i] ELSE e]
    <3>1. \A i \in 1 .. Length(q) + 1 :
              Contents(w)[i] = IF i <= Length(q) THEN Contents(q)[i] ELSE e
      BY <1>5, <1>6, <1>7, <1>8
    <3>2. Contents(w) = [i \in 1 .. Length(q) + 1 |-> Contents(w)[i]]
      BY <1>6 DEF Contents
    <3> QED
      BY <3>1, <3>2
  <2>3. Len(Contents(q)) = Length(q) /\ Contents(q) \in Seq(Msg)
    BY <1>5, <2>1 DEF Valid
  <2> QED
    BY <1>5, <2>1, <2>2, <2>3
<1>10. \A i \in 1 .. Length(w) : Contents(w)[i] \in Msg
  BY <1>5, <1>6, <1>7, <1>8 DEF Valid
<1> QED
  BY <1>4, <1>9, <1>10 DEF Valid, w

(* A sequence without its first element.                                    *)
LEMMA TailShift ==
    ASSUME NEW S, NEW s \in Seq(S), s # <<>>
    PROVE  Tail(s) = [i \in 1 .. Len(s) - 1 |-> s[i + 1]]
<1>1. Tail(s) \in Seq(S) /\ Len(Tail(s)) = Len(s) - 1
  OBVIOUS
<1>2. \A i \in 1 .. Len(s) - 1 : Tail(s)[i] = s[i + 1]
  OBVIOUS
<1>3. \A t \in Seq(S) : t = [i \in 1 .. Len(t) |-> t[i]]
  OBVIOUS
<1> QED
  BY <1>1, <1>2, <1>3

(* pop returns and removes the head.                                        *)
LEMMA PopRemovesHead ==
    ASSUME NEW q, Valid(q), ~circular_queue_is_empty(q)
    PROVE  /\ Valid(Pop(q))
           /\ Contents(q) \in Seq(Msg)
           /\ Contents(q) # <<>>
           /\ Head0(q) = Head(Contents(q))
           /\ Contents(Pop(q)) = Tail(Contents(q))
<1> DEFINE w == Pop(q)
<1>1. /\ q.front \in Int /\ 0 <= q.front /\ q.front < Capacity
      /\ q.rear \in Int /\ 0 <= q.rear /\ q.rear < Capacity /\ Capacity \in Int
      /\ q.buf \in [Slot -> Msg \cup {NoMsg}]
      /\ q.front \in Slot /\ q.rear \in Slot
  BY CpuMsgAssumption DEF Valid, Queue, Slot, circular_queue_is_empty
<1>2. After(q.front) = (IF q.front = Capacity - 1 THEN 0 ELSE q.front + 1) /\ After(q.front) \in Slot
  BY <1>1, AfterSlot
<1>3. /\ w.front = IF q.front = q.rear THEN -1 ELSE After(q.front)
      /\ w.rear = IF q.front = q.rear THEN -1 ELSE q.rear
      /\ w.buf = q.buf
      /\ w \in Queue
  BY <1>1, <1>2 DEF Pop, Valid, Queue
<1>4. Length(q) = IF q.rear >= q.front THEN q.rear - q.front + 1
                  ELSE q.rear + Capacity - q.front + 1
  BY <1>1 DEF Length
<1>5. Length(q) \in Nat /\ 1 <= Length(q) /\ Length(q) <= Capacity
  BY <1>1, <1>4
<1> HIDE DEF w
<1>6. Length(w) = Length(q) - 1
  <2>1. CASE q.front = q.rear
    BY <1>1, <1>3, <1>4, <2>1 DEF Length
  <2>2. CASE q.front # q.rear
    <3>1. w.front = After(q.front) /\ w.rear = q.rear /\ w.front # -1
      BY <1>2, <1>3, <2>2, CpuMsgAssumption DEF Slot
    <3>2. Length(w) = IF w.rear >= w.front THEN w.rear - w.front + 1
                      ELSE w.rear + Capacity - w.front + 1
      BY <3>1 DEF Length
    <3>3. CASE q.front = Capacity - 1
      BY <1>1, <1>2, <1>4, <2>2, <3>1, <3>2, <3>3
    <3>4. CASE q.front # Capacity - 1
      BY <1>1, <1>2, <1>4, <2>2, <3>1, <3>2, <3>4
    <3> QED
      BY <3>3, <3>4
  <2> QED
    BY <2>1, <2>2
<1>7. Contents(q) = [i \in 1 .. Length(q) |-> Contents(q)[i]]
  BY DEF Contents
<1>8. Contents(q) \in Seq(Msg) /\ Len(Contents(q)) = Length(q)
  BY <1>5, <1>7 DEF Valid
<1>9. Head0(q) = Contents(q)[1]
  <2>1. (q.front + 1 - 1) % Capacity = q.front
    <3>1. 1 \in 1 .. Capacity + 1
      BY <1>1, CpuMsgAssumption
    <3> QED
      BY <1>1, <3>1, Position
  <2> QED
    BY <1>5, <2>1 DEF Head0, Contents
<1>10. ASSUME NEW i \in 1 .. Length(w)
       PROVE  Contents(w)[i] = Contents(q)[i + 1]
  <2>1. /\ w.front = After(q.front) /\ w.front \in Slot /\ i \in Int /\ 1 <= i
        /\ i <= Length(q) - 1 /\ q.front # q.rear
    BY <1>2, <1>3, <1>5, <1>6, <1>1, <1>4
  <2>2. i \in 1 .. Capacity + 1 /\ i + 1 \in 1 .. Capacity + 1 /\ i + 1 \in 1 .. Length(q)
    BY <1>1, <1>5, <2>1
  <2>3. (w.front + i - 1) % Capacity = IF w.front + i - 1 < Capacity THEN w.front + i - 1
                                       ELSE w.front + i - 1 - Capacity
    BY <2>1, <2>2, Position
  <2>4. (q.front + (i + 1) - 1) % Capacity =
            IF q.front + (i + 1) - 1 < Capacity THEN q.front + (i + 1) - 1
            ELSE q.front + (i + 1) - 1 - Capacity
    BY <1>1, <2>2, Position
  <2>5. (w.front + i - 1) % Capacity = (q.front + (i + 1) - 1) % Capacity
    <3>1. CASE q.front = Capacity - 1
      BY <1>1, <1>2, <1>5, <2>1, <2>3, <2>4, <3>1
    <3>2. CASE q.front # Capacity - 1
      BY <1>1, <1>2, <2>1, <2>3, <2>4, <3>2
    <3> QED
      BY <3>1, <3>2
  <2> QED
    BY <1>3, <2>2, <2>5 DEF Contents
<1>11. Contents(w) = [i \in 1 .. Length(q) - 1 |-> Contents(q)[i + 1]]
  <2>1. Contents(w) = [i \in 1 .. Length(q) - 1 |-> Contents(w)[i]]
    BY <1>6 DEF Contents
  <2> QED
    BY <1>6, <1>10, <2>1
<1>12. Contents(w) = Tail(Contents(q))
  <2>1. Contents(q) # <<>>
    BY <1>5, <1>8
  <2> QED
    BY <1>8, <1>11, <2>1, TailShift
<1>13. Valid(w)
  <2>1. w.front = -1 <=> w.rear = -1
    BY <1>1, <1>2, <1>3, CpuMsgAssumption DEF Slot
  <2>2. \A i \in 1 .. Length(w) : Contents(w)[i] \in Msg
    BY <1>5, <1>6, <1>10 DEF Valid
  <2> QED
    BY <1>3, <2>1, <2>2 DEF Valid
<1>14. Contents(q) # <<>> /\ Head0(q) = Head(Contents(q))
  BY <1>5, <1>8, <1>9
<1> QED
  BY <1>8, <1>12, <1>13, <1>14 DEF w

----------------------------------------------------------------------------
(* Sending appends one message to one mailbox, or is refused because that   *)
(* mailbox is full.                                                         *)
LEMMA SendAppends ==
    ASSUME MailOK, NEW c \in CPU, NEW t \in CPU, NEW kind \in Kind,
           cpu_send_msg(c, t, kind)
    PROVE  /\ \A d \in CPU : Valid(msgs'[d])
           /\ msgs' \in [CPU -> Queue]
           /\ target' \in [CPU -> CPU \cup {NoCpu}]
           /\ sent' \in 0 .. MAX_SEND
           /\ \/ msgs' = msgs /\ target' = target
              \/ /\ Len(Contents(msgs[t])) < Capacity
                 /\ target' = [target EXCEPT ![c] = t]
                 /\ \A d \in CPU \ {t} : msgs'[d] = msgs[d]
                 /\ \E m \in Msg : Contents(msgs'[t]) = Append(Contents(msgs[t]), m)
<1> DEFINE m == [kind |-> kind, num |-> sent + 1]
<1>1. m \in Msg /\ sent' \in 0 .. MAX_SEND
  BY CpuMsgAssumption DEF cpu_send_msg, MailOK, Msg
<1>2. CASE circular_queue_is_full(msgs[t])
  BY <1>1, <1>2 DEF cpu_send_msg, MailOK
<1>3. CASE ~circular_queue_is_full(msgs[t])
  <2>1. msgs' = [msgs EXCEPT ![t] = Push(msgs[t], m)] /\ target' = [target EXCEPT ![c] = t]
    BY <1>3 DEF cpu_send_msg
  <2>2. /\ Valid(Push(msgs[t], m))
        /\ Contents(Push(msgs[t], m)) = Append(Contents(msgs[t]), m)
    BY <1>1, <1>3, PushAppends DEF MailOK
  <2>3. Push(msgs[t], m) \in Queue
    BY <2>2 DEF Valid
  <2>4. Len(Contents(msgs[t])) < Capacity
    <3>1. Length(msgs[t]) \in 0 .. Capacity /\ Length(msgs[t]) # Capacity
      BY <1>3, Bounds DEF MailOK
    <3>2. Len(Contents(msgs[t])) = Length(msgs[t])
      BY <3>1, CpuMsgAssumption DEF Contents
    <3> QED
      BY <3>1, <3>2, CpuMsgAssumption
  <2>5. msgs'[t] = Push(msgs[t], m) /\ \A d \in CPU \ {t} : msgs'[d] = msgs[d]
    BY <2>1 DEF MailOK
  <2>6. msgs' \in [CPU -> Queue] /\ target' \in [CPU -> CPU \cup {NoCpu}]
    BY <2>1, <2>3 DEF MailOK
  <2>7. \A d \in CPU : Valid(msgs'[d])
    BY <2>2, <2>5 DEF MailOK
  <2> QED
    BY <1>1, <2>1, <2>2, <2>4, <2>5, <2>6, <2>7
<1> QED
  BY <1>2, <1>3

(* The queues stay valid.                                                   *)
LEMMA MailPreserved == MailOK /\ [Next]_vars => MailOK'
<1> SUFFICES ASSUME MailOK, [Next]_vars PROVE MailOK'
  OBVIOUS
<1>1. ASSUME NEW c \in CPU, NEW t \in CPU, NEW kind \in Kinds, GuestSend(c, t, kind)
      PROVE  MailOK'
  <2>1. kind \in Kind /\ cpu_send_msg(c, t, kind) /\ cur' = cur
    BY <1>1, CpuMsgAssumption DEF GuestSend
  <2> QED
    BY <2>1, SendAppends DEF MailOK
<1>2. ASSUME NEW c \in CPU, Handle(c) PROVE MailOK'
  <2>1. cur' \in [CPU -> Msg \cup {NoMsg}]
    BY <1>2 DEF Handle, MailOK
  <2>2. CASE UNCHANGED <<msgs, target, sent>>
    BY <2>1, <2>2 DEF MailOK
  <2>3. ASSUME NEW t \in CPU, cpu_send_msg(c, t, "note") PROVE MailOK'
    <3>1. "note" \in Kind
      BY DEF Kind
    <3> QED
      BY <2>1, <2>3, <3>1, SendAppends DEF MailOK
  <2> QED
    BY <1>2, <2>2, <2>3 DEF Handle
<1>3. ASSUME NEW c \in CPU, cpu_get_msg(c) PROVE MailOK'
  <2>1. /\ msgs' = [msgs EXCEPT ![c] = Pop(msgs[c])]
        /\ cur' = [cur EXCEPT ![c] = Head0(msgs[c])]
        /\ UNCHANGED <<target, sent>>
        /\ ~circular_queue_is_empty(msgs[c])
    BY <1>3 DEF cpu_get_msg
  <2>2. Valid(Pop(msgs[c])) /\ Head0(msgs[c]) \in Msg
    BY <2>1, PopRemovesHead DEF MailOK
  <2>3. Pop(msgs[c]) \in Queue
    BY <2>2 DEF Valid
  <2> QED
    BY <2>1, <2>2, <2>3 DEF MailOK
<1>4. ASSUME NEW c \in CPU, SendIpi(c) PROVE MailOK'
  BY <1>4 DEF SendIpi, MailOK
<1>5. ASSUME UNCHANGED <<msgs, cur, target, sent>> PROVE MailOK'
  BY <1>5 DEF MailOK
<1> QED
  BY <1>1, <1>2, <1>3, <1>4, <1>5
    DEF Next, Hypervisor, vars, TakeIpi, CheckIpi, ClearIpi, HandlerReturns,
        ClearAfterHandler, Wake, GuestBlocks, GuestOff

(* So do the flags and the program counters.                                *)
LEMMA ControlPreserved == ControlOK /\ [Next]_vars => ControlOK'
<1> SUFFICES ASSUME ControlOK, [Next]_vars PROVE ControlOK'
  OBVIOUS
<1> USE DEF ControlOK, Goto
<1>1. ASSUME NEW c \in CPU, NEW t \in CPU, NEW kind \in Kinds, GuestSend(c, t, kind)
      PROVE  ControlOK'
  BY <1>1 DEF GuestSend
<1>2. ASSUME NEW c \in CPU, SendIpi(c) PROVE ControlOK'
  BY <1>2 DEF SendIpi
<1>3. ASSUME NEW c \in CPU, GuestBlocks(c) \/ GuestOff(c) \/ Wake(c) PROVE ControlOK'
  BY <1>3 DEF GuestBlocks, GuestOff, Wake
<1>4. ASSUME NEW c \in CPU, TakeIpi(c) PROVE ControlOK'
  BY <1>4 DEF TakeIpi
<1>5. ASSUME NEW c \in CPU, CheckIpi(c) \/ HandlerReturns(c) PROVE ControlOK'
  <2>1. RunTarget(c) \in {"guest", "standby", "powerdown"}
    BY DEF RunTarget
  <2> QED
    BY <1>5, <2>1 DEF CheckIpi, HandlerReturns
<1>6. ASSUME NEW c \in CPU, ClearIpi(c) \/ ClearAfterHandler(c) PROVE ControlOK'
  BY <1>6 DEF ClearIpi, ClearAfterHandler
<1>7. ASSUME NEW c \in CPU, cpu_get_msg(c) PROVE ControlOK'
  BY <1>7 DEF cpu_get_msg
<1>8. ASSUME NEW c \in CPU, Handle(c) PROVE ControlOK'
  BY <1>8 DEF Handle
<1>9. CASE UNCHANGED vars
  BY <1>9 DEF vars
<1> QED
  BY <1>1, <1>2, <1>3, <1>4, <1>5, <1>6, <1>7, <1>8, <1>9 DEF Next, Hypervisor

LEMMA InitType == Init => MailOK /\ ControlOK
<1>1. Init => MailOK
  <2> SUFFICES ASSUME Init PROVE MailOK
    OBVIOUS
  <2>1. Valid(circular_queue_init) /\ circular_queue_init \in Queue
    BY CpuMsgAssumption DEF Valid, circular_queue_init, Queue, Length, Contents
  <2> QED
    BY <2>1, CpuMsgAssumption DEF Init, MailOK
<1>2. Init => ControlOK
  BY CpuMsgAssumption DEF Init, ControlOK
<1> QED
  BY <1>1, <1>2

(* Types, and validity of every queue.                                      *)
THEOREM TypeCorrect == Spec => []TypeOK
  BY InitType, MailPreserved, ControlPreserved, PTL DEF Spec, TypeOK

(* The queues implement bounded FIFO mailboxes: nothing is lost once        *)
(* accepted, and the order of acceptance is the order of handling.          *)
THEOREM QueuesAreMailboxes == Spec => ImplementsMailbox
<1> DEFINE B == [c \in CPU |-> Contents(msgs[c])]
<1>1. Init => Mailbox!Init
  <2> SUFFICES ASSUME Init PROVE Mailbox!Init
    OBVIOUS
  <2>1. Contents(circular_queue_init) = <<>>
    BY DEF circular_queue_init, Contents, Length
  <2> QED
    BY <2>1 DEF Init, Mailbox!Init
<1>2. MailOK /\ [Next]_vars => [Mailbox!Next]_Mailbox!vars
  <2> SUFFICES ASSUME MailOK, [Next]_vars PROVE [Mailbox!Next]_Mailbox!vars
    OBVIOUS
  <2>1. ASSUME NEW c \in CPU, NEW t \in CPU, NEW kind \in Kind, cpu_send_msg(c, t, kind)
        PROVE  UNCHANGED msgs \/ \E m \in Msg : Mailbox!Accept(t, m)
    <3>1. CASE UNCHANGED msgs
      BY <3>1
    <3>2. CASE msgs' # msgs
      <4>1. PICK m \in Msg : Contents(msgs'[t]) = Append(Contents(msgs[t]), m)
        BY <2>1, <3>2, SendAppends
      <4>2. /\ Len(Contents(msgs[t])) < Capacity
            /\ \A d \in CPU \ {t} : msgs'[d] = msgs[d]
        BY <2>1, <3>2, SendAppends
      <4>3. B' = [B EXCEPT ![t] = Append(B[t], m)]
        BY <4>1, <4>2
      <4> QED
        BY <4>2, <4>3 DEF Mailbox!Accept
    <3> QED
      BY <3>1, <3>2
  <2>2. ASSUME NEW c \in CPU, NEW t \in CPU, NEW kind \in Kinds, GuestSend(c, t, kind)
        PROVE  [Mailbox!Next]_Mailbox!vars
    <3>1. kind \in Kind /\ cpu_send_msg(c, t, kind) /\ UNCHANGED cur
      BY <2>2, CpuMsgAssumption DEF GuestSend
    <3>2. UNCHANGED msgs \/ \E m \in Msg : Mailbox!Accept(t, m)
      BY <2>1, <3>1
    <3> QED
      BY <3>1, <3>2 DEF Mailbox!Next, Mailbox!vars
  <2>3. ASSUME NEW c \in CPU, Handle(c) PROVE Mailbox!Handled(c)
    <3>1. cur[c] # NoMsg /\ cur' = [cur EXCEPT ![c] = NoMsg]
      BY <2>3 DEF Handle
    <3>2. UNCHANGED msgs \/ \E t \in CPU : cpu_send_msg(c, t, "note")
      BY <2>3 DEF Handle
    <3>3. "note" \in Kind
      BY DEF Kind
    <3>4. UNCHANGED msgs \/ \E t \in CPU : \E m \in Msg : Mailbox!Accept(t, m)
      BY <2>1, <3>2, <3>3
    <3> QED
      BY <3>1, <3>4 DEF Mailbox!Handled
  <2>4. ASSUME NEW c \in CPU, cpu_get_msg(c) PROVE Mailbox!Take(c)
    <3>1. /\ msgs' = [msgs EXCEPT ![c] = Pop(msgs[c])]
          /\ cur' = [cur EXCEPT ![c] = Head0(msgs[c])]
          /\ cur[c] = NoMsg
          /\ ~circular_queue_is_empty(msgs[c])
      BY <2>4 DEF cpu_get_msg
    <3>2. /\ Contents(msgs[c]) # <<>>
          /\ Head0(msgs[c]) = Head(Contents(msgs[c]))
          /\ Contents(Pop(msgs[c])) = Tail(Contents(msgs[c]))
      BY <3>1, PopRemovesHead DEF MailOK
    <3>3. B' = [B EXCEPT ![c] = Tail(B[c])]
      BY <3>1, <3>2 DEF MailOK
    <3> QED
      BY <3>1, <3>2, <3>3 DEF Mailbox!Take
  <2>5. ASSUME UNCHANGED <<msgs, cur>> PROVE UNCHANGED Mailbox!vars
    BY <2>5 DEF Mailbox!vars
  <2> QED
    BY <2>2, <2>3, <2>4, <2>5
      DEF Next, Hypervisor, vars, TakeIpi, CheckIpi, ClearIpi, HandlerReturns, SendIpi,
          ClearAfterHandler, Wake, GuestBlocks, GuestOff, Mailbox!Next
<1> QED
  BY <1>1, <1>2, TypeCorrect, PTL DEF Spec, TypeOK, ImplementsMailbox, Mailbox!Spec

----------------------------------------------------------------------------
(* On a port that withdraws the IPI first, no CPU is ever at "eoi", and the *)
(* handler returns only with the queue empty and every later push followed  *)
(* by an IPI of its own.                                                    *)
AllAttended == \A c \in CPU : Attended(c)

StrandInv == ackFirst => AllAttended /\ \A c \in CPU : pc[c] # "eoi"

(* A step that pushes to one queue at most, with the IPI still to come.     *)
LEMMA PushIsFollowed ==
    ASSUME TypeOK, AllAttended, NEW c \in CPU, NEW t \in CPU, NEW kind \in Kind,
           cpu_send_msg(c, t, kind), target[c] = NoCpu, UNCHANGED <<ipi, pc>>
    PROVE  AllAttended'
<1> SUFFICES ASSUME NEW d \in CPU, ~circular_queue_is_empty(msgs'[d])
             PROVE  \/ ipi[d]
                    \/ pc[d] \in {"irq", "drain", "clear"}
                    \/ \E e \in CPU : target'[e] = d
  BY Zenon DEF AllAttended, Attended
<1>1. target \in [CPU -> CPU \cup {NoCpu}] /\ NoCpu \notin CPU
  BY CpuMsgAssumption, Zenon DEF TypeOK, MailOK
<1>2. \/ msgs' = msgs /\ target' = target
      \/ target' = [target EXCEPT ![c] = t] /\ \A e \in CPU \ {t} : msgs'[e] = msgs[e]
  BY SendAppends, Zenon DEF TypeOK
<1>3. CASE msgs' = msgs /\ target' = target
  BY <1>3, Zenon DEF AllAttended, Attended
<1>4. CASE target' = [target EXCEPT ![c] = t] /\ d = t
  BY <1>1, <1>4, Zenon
<1>5. CASE target' = [target EXCEPT ![c] = t] /\ d # t /\ msgs'[d] = msgs[d]
  <2>1. \A e \in CPU : target[e] = d => target'[e] = d
    BY <1>1, <1>5, Zenon
  <2> QED
    BY <1>5, <2>1, Zenon DEF AllAttended, Attended
<1> QED
  BY <1>2, <1>3, <1>4, <1>5, Zenon

(* cpu_send_msg and cpu_msg_handler: when the port withdraws the IPI before *)
(* the handler runs, no message is ever left in a queue that its CPU is not *)
(* emptying and will not be interrupted for.                                *)
THEOREM NoneStranded == Spec => []NoStrandedMessage
<1>1. Init => StrandInv
  <2> SUFFICES ASSUME Init PROVE StrandInv
    OBVIOUS
  <2>2. \A c \in CPU : circular_queue_is_empty(msgs[c])
    BY DEF Init, circular_queue_init, circular_queue_is_empty
  <2>3. \A c \in CPU : pc[c] # "eoi"
    BY DEF Init
  <2> QED
    BY <2>2, <2>3, Zenon DEF StrandInv, AllAttended, Attended
<1>2. TypeOK /\ StrandInv /\ [Next]_vars => StrandInv'
  <2> SUFFICES ASSUME TypeOK, StrandInv, [Next]_vars, ackFirst
               PROVE  AllAttended' /\ \A c \in CPU : pc'[c] # "eoi"
    <3>1. ASSUME [Next]_vars PROVE ackFirst' = ackFirst
      BY <3>1 DEF Next, Hypervisor, vars, SendIpi, TakeIpi, CheckIpi, ClearIpi, cpu_get_msg, Handle,
         HandlerReturns, ClearAfterHandler, Wake, GuestBlocks, GuestOff, GuestSend
    <3> QED
      BY <3>1, Zenon DEF StrandInv
  <2>0. /\ TypeOK /\ AllAttended
        /\ target \in [CPU -> CPU \cup {NoCpu}] /\ NoCpu \notin CPU
        /\ DOMAIN msgs = CPU
        /\ ipi \in [CPU -> BOOLEAN] /\ DOMAIN pc = CPU /\ DOMAIN ipi = CPU
        /\ \A c \in CPU : pc[c] # "eoi"
    BY CpuMsgAssumption, Zenon DEF StrandInv, TypeOK, MailOK, ControlOK
  <2> USE DEF Goto, At, InHandler
  <2>1. ASSUME NEW c \in CPU, SendIpi(c) PROVE AllAttended'
    <3>1. /\ target[c] \in CPU /\ msgs' = msgs /\ pc' = pc
          /\ ipi' = [ipi EXCEPT ![target[c]] = TRUE]
          /\ target' = [target EXCEPT ![c] = NoCpu]
      BY <2>0, <2>1 DEF SendIpi
    <3>2. /\ ipi'[target[c]]
          /\ \A d \in CPU : ipi[d] => ipi'[d]
          /\ \A e \in CPU : e # c => target'[e] = target[e]
      BY <2>0, <3>1, Zenon
    <3> QED
      BY <2>0, <3>1, <3>2, Zenon DEF AllAttended, Attended
  <2>2. ASSUME NEW c \in CPU, TakeIpi(c) \/ ClearIpi(c) PROVE AllAttended'
    <3>1. /\ msgs' = msgs /\ target' = target
          /\ pc'[c] \in {"irq", "drain"}
          /\ \A d \in CPU : d # c => pc'[d] = pc[d] /\ ipi'[d] = ipi[d]
      BY <2>0, <2>2 DEF TakeIpi, ClearIpi
    <3> QED
      BY <2>0, <3>1, Zenon DEF AllAttended, Attended
  <2>3. ASSUME NEW c \in CPU, Wake(c) \/ CheckIpi(c) \/ GuestBlocks(c) \/ GuestOff(c)
        PROVE  AllAttended'
    <3>1. /\ msgs' = msgs /\ target' = target /\ ipi' = ipi
          /\ pc[c] \notin {"irq", "drain", "clear"}
          /\ \A d \in CPU : d # c => pc'[d] = pc[d]
      BY <2>0, <2>3 DEF Wake, CheckIpi, GuestBlocks, GuestOff
    <3> QED
      BY <2>0, <3>1, Zenon DEF AllAttended, Attended
  <2>4. ASSUME NEW c \in CPU, cpu_get_msg(c) PROVE AllAttended'
    <3>1. /\ pc[c] \in {"irq", "drain", "clear"}
          /\ target' = target /\ ipi' = ipi /\ pc' = pc
          /\ \A d \in CPU : d # c => msgs'[d] = msgs[d]
      BY <2>0, <2>4 DEF cpu_get_msg
    <3> QED
      BY <2>0, <3>1, Zenon DEF AllAttended, Attended
  <2>5. ASSUME NEW c \in CPU, HandlerReturns(c) PROVE AllAttended'
    <3>1. /\ circular_queue_is_empty(msgs[c])
          /\ msgs' = msgs /\ target' = target /\ ipi' = ipi
          /\ \A d \in CPU : d # c => pc'[d] = pc[d]
      BY <2>0, <2>5 DEF HandlerReturns
    <3> QED
      BY <2>0, <3>1, Zenon DEF AllAttended, Attended
  <2>6. ASSUME NEW c \in CPU, NEW t \in CPU, NEW kind \in Kinds, GuestSend(c, t, kind)
        PROVE  AllAttended'
    <3>1. kind \in Kind
      BY CpuMsgAssumption
    <3> QED
      BY <2>0, <2>6, <3>1, PushIsFollowed DEF GuestSend
  <2>7. ASSUME NEW c \in CPU, Handle(c) PROVE AllAttended'
    <3>1. target[c] = NoCpu /\ UNCHANGED <<ipi, pc>>
      BY <2>7 DEF Handle
    <3>2. CASE \E t \in CPU : cpu_send_msg(c, t, "note")
      <4>1. "note" \in Kind
        BY DEF Kind
      <4> QED
        BY <2>0, <3>1, <3>2, <4>1, PushIsFollowed
    <3>3. CASE UNCHANGED <<msgs, target>>
      BY <2>0, <3>1, <3>3, Zenon DEF AllAttended, Attended
    <3> QED
      BY <2>7, <3>2, <3>3, Zenon DEF Handle
  <2>8. ASSUME NEW c \in CPU, ClearAfterHandler(c) PROVE FALSE
    BY <2>0, <2>8, Zenon DEF ClearAfterHandler
  <2>9. ASSUME UNCHANGED vars PROVE AllAttended'
    BY <2>0, <2>9, Zenon DEF vars, AllAttended, Attended
  <2>10. AllAttended'
    BY <2>1, <2>2, <2>3, <2>4, <2>5, <2>6, <2>7, <2>8, <2>9, Zenon DEF Next, Hypervisor
  <2>11. \A c \in CPU : pc'[c] # "eoi"
    BY <2>0, <2>8 DEF Next, Hypervisor, vars, SendIpi, TakeIpi, CheckIpi, ClearIpi, cpu_get_msg,
       Handle, HandlerReturns, Wake, GuestBlocks, GuestOff, GuestSend, RunTarget
  <2> QED
    BY <2>10, <2>11
<1>3. StrandInv => NoStrandedMessage
  BY Zenon DEF StrandInv, AllAttended, NoStrandedMessage
<1> QED
  BY <1>1, <1>2, <1>3, TypeCorrect, PTL DEF Spec

=============================================================================
