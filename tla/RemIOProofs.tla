---------------------------- MODULE RemIOProofs ----------------------------
(***************************************************************************)
(* The Remote I/O protocol for any number of vCPUs, backend CPUs, devices,  *)
(* accesses and notifications, and with messages lost to full queues.       *)
(*                                                                         *)
(* RequestAccounting and OwnAnswer are not inductive: neither says that a   *)
(* completion in a queue fits the request it names, that a pending request  *)
(* is not in anybody's hands, or what value a request will deliver.  IInv   *)
(* says for each of the four places a request may be in what holds of the   *)
(* request there (Listed, WithGuest, Answered, Hands), that it is in one of *)
(* them (Somewhere), whose it is (Owners) and what it carries (Values).     *)
(***************************************************************************)
EXTENDS RemIO, FiniteSetTheorems, TLAPS

Waiting == {c \in Front : pc[c] \in {"push", "notify", "standby"}}

Completions(c) == {k \in 1 .. Len(box[c]) : box[c][k].event \in Op}

(* The four places a request may be in.                                     *)
Idle(id) == \A c \in CPU : cur[c] # id
IsListed(id) == \E d \in Dev : \E k \in 1 .. Len(pending[d]) : pending[d][k] = id
GuestHas(id) == \E d \in Dev : id \in held[d]
IsAnswered(id) == \E c \in Front : \E k \in Completions(c) : box[c][k].request_id = id

(* A request in use belongs to a vCPU that waits, and each to its own.      *)
Owners ==
    /\ \A id \in pool : request[id].cpu_id \in Waiting /\ request[id].bind_key \in Dev
    /\ \A c \in Waiting : \E id \in pool : request[id].cpu_id = c
    /\ \A id, other \in pool : request[id].cpu_id = request[other].cpu_id => id = other

(* Where a request is listed, its state says so and nobody works on it.     *)
Listed ==
    \A d \in Dev : \A k \in 1 .. Len(pending[d]) :
        /\ pending[d][k] \in pool
        /\ request[pending[d][k]].state = "PENDING"
        /\ request[pending[d][k]].bind_key = d
        /\ Idle(pending[d][k])
        /\ \A l \in 1 .. Len(pending[d]) : pending[d][l] = pending[d][k] => l = k

(* Where the backend's guest has a request, the same.                        *)
WithGuest ==
    \A d \in Dev : \A id \in held[d] :
        /\ id \in pool
        /\ request[id].state = "PROCESSING"
        /\ request[id].bind_key = d
        /\ Idle(id)

(* A completion fits the request, and goes to the vCPU that waits for it.   *)
Answered ==
    \A c \in Front : \A k \in Completions(c) :
        /\ box[c][k].request_id \in pool
        /\ request[box[c][k].request_id].state = "COMPLETE"
        /\ request[box[c][k].request_id].bind_key = box[c][k].bind_key
        /\ request[box[c][k].request_id].op = box[c][k].event
        /\ request[box[c][k].request_id].cpu_id = c
        /\ Idle(box[c][k].request_id)
        /\ \A l \in Completions(c) : box[c][l].request_id = box[c][k].request_id => l = k

StateAt(where) == CASE where \in {"push", "asked"} -> "PENDING"
                    [] where = "rw" -> "PROCESSING"
                    [] where = "complete" -> "COMPLETE"

(* What a CPU works on.                                                     *)
Hands ==
    /\ \A c \in Front :
           /\ pc[c] \in {"guest", "push", "notify", "standby"}
           /\ pc[c] \in {"push", "notify"} => dev[c] \in Dev
           /\ cur[c] # None <=> pc[c] = "push"
           /\ pc[c] = "push" => request[cur[c]].cpu_id = c
    /\ \A b \in Back :
           /\ pc[b] \in {"guest", "ask", "asked", "rw", "complete"}
           /\ pc[b] # "guest" => dev[b] \in Dev
           /\ cur[b] # None <=> pc[b] \in {"asked", "rw", "complete"}
    /\ \A c \in CPU :
           cur[c] # None =>
               /\ cur[c] \in pool
               /\ request[cur[c]].state = StateAt(pc[c])
               /\ request[cur[c]].bind_key = dev[c]
               /\ \A e \in CPU : cur[e] = cur[c] => e = c

(* No request is lost, unless its completion met a full queue.              *)
Somewhere ==
    \A id \in pool : dropped \/ IsListed(id) \/ GuestHas(id) \/ ~Idle(id) \/ IsAnswered(id)

(* The answer of a completed request is that of its access; a vCPU that     *)
(* waits will get it if it reads, and keeps its register if it writes.      *)
Values ==
    /\ \A id \in pool :
           /\ request[id].state = "COMPLETE" => request[id].value = request[id].addr
           /\ want[request[id].cpu_id] =
                  IF request[id].op = "read" THEN request[id].addr ELSE reg[request[id].cpu_id]
    /\ OwnAnswer

IInv == TypeOK /\ Owners /\ Listed /\ WithGuest /\ Answered /\ Hands /\ Somewhere /\ Values

----------------------------------------------------------------------------
(* Sequences and bytes.                                                     *)
LEMMA Appended ==
    ASSUME NEW S, NEW s \in Seq(S), NEW e \in S
    PROVE  /\ Append(s, e) \in Seq(S)
           /\ Len(s) \in Nat
           /\ Len(Append(s, e)) = Len(s) + 1
           /\ \A k \in 1 .. Len(s) : Append(s, e)[k] = s[k]
           /\ Append(s, e)[Len(s) + 1] = e
  OBVIOUS

LEMMA Shifted ==
    ASSUME NEW S, NEW s \in Seq(S), s # <<>>
    PROVE  /\ Tail(s) \in Seq(S)
           /\ Len(s) \in Nat /\ Len(s) >= 1
           /\ Len(Tail(s)) = Len(s) - 1
           /\ \A k \in 1 .. Len(Tail(s)) : k + 1 \in 1 .. Len(s) /\ Tail(s)[k] = s[k + 1]
           /\ Head(s) = s[1]
           /\ s[1] \in S
  OBVIOUS

(* The conversion to a byte changes none of the values that are sent.       *)
LEMMA FitsByte ==
    ASSUME NEW n \in 0 .. BYTE - 1
    PROVE  n % BYTE = n
  BY RemIOAssumption

(* bitmap_find_nth finds a free slot when there is one.                     *)
LEMMA LowestFound ==
    ASSUME NEW T, T \subseteq Nat, T # {}
    PROVE  Lowest(T) \in T
<1>1. PICK x \in T : \A y \in T : ~(<<y, x>> \in OpToRel(<, Nat))
  BY NatLessThanWellFounded, WFMin
<1>2. ASSUME NEW y \in T PROVE x <= y
  <2>1. x \in Nat /\ y \in Nat
    OBVIOUS
  <2>2. ~(<<y, x>> \in {ss \in Nat \X Nat : ss[1] < ss[2]})
    BY <1>1 DEF OpToRel
  <2>3. ~(y < x)
    BY <2>1, <2>2
  <2> QED BY <2>1, <2>3
<1> QED BY <1>2 DEF Lowest

(* The identifiers, one for every slot.                                     *)
LEMMA PoolSize == IsFiniteSet(Id) /\ Cardinality(Id) = POOL
<1>1. 0 \in Int /\ POOL - 1 \in Int /\ POOL \in Nat
  BY RemIOAssumption
<1>2. /\ IsFiniteSet(0 .. POOL - 1)
      /\ Cardinality(0 .. POOL - 1) = IF 0 > POOL - 1 THEN 0 ELSE (POOL - 1) - 0 + 1
  BY <1>1, FS_Interval
<1> QED BY <1>1, <1>2 DEF Id

(* What is in use is an identifier, so it is not None; a CPU is of one VM.  *)
LEMMA Facts ==
    ASSUME TypeOK
    PROVE  /\ pool \subseteq Id /\ Id \subseteq Nat /\ None \notin Id /\ None \notin Dev
           /\ Front \subseteq CPU /\ Back \subseteq CPU
           /\ \A c \in Front : c \notin Back
           /\ \A c \in CPU : c \in Front \/ c \in Back
           /\ cur \in [CPU -> Id \cup {None}]
           /\ dev \in [CPU -> Dev \cup {None}]
           /\ pc \in [CPU -> {"guest", "push", "notify", "standby", "ask", "asked", "rw",
                              "complete", "error"}]
           /\ \A d \in Dev : pending[d] \in Seq(Id)
           /\ \A c \in CPU : box[c] \in Seq(Msg)
<1>1. /\ pool \subseteq Id /\ Id \subseteq Nat /\ None \notin Id
      /\ Front \subseteq CPU /\ Back \subseteq CPU
      /\ \A c \in Front : c \notin Back
      /\ \A c \in CPU : c \in Front \/ c \in Back
  BY RemIOAssumption DEF TypeOK, CPU, Id
<1>4. None \notin Dev
  <2>1. None \notin 0 .. BYTE - 1
    BY RemIOAssumption
  <2> QED BY <2>1, RemIOAssumption
<1>2. /\ cur \in [CPU -> Id \cup {None}]
      /\ dev \in [CPU -> Dev \cup {None}]
      /\ pc \in [CPU -> {"guest", "push", "notify", "standby", "ask", "asked", "rw",
                         "complete", "error"}]
  BY DEF TypeOK
<1>3. /\ \A d \in Dev : pending[d] \in Seq(Id)
      /\ \A c \in CPU : box[c] \in Seq(Msg)
  BY DEF TypeOK
<1> QED BY <1>1, <1>2, <1>3, <1>4

(* A step that does not touch a place leaves what is there alone.           *)
LEMMA ListedFrame ==
    ASSUME Listed, UNCHANGED pending,
           \A id \in pool : request[id].state = "PENDING" /\ Idle(id) =>
               id \in pool' /\ request'[id] = request[id] /\ Idle(id)'
    PROVE  Listed' /\ \A id : IsListed(id)' = IsListed(id)
  BY DEF Listed, IsListed

LEMMA WithGuestFrame ==
    ASSUME WithGuest, UNCHANGED held,
           \A id \in pool : request[id].state = "PROCESSING" /\ Idle(id) =>
               id \in pool' /\ request'[id] = request[id] /\ Idle(id)'
    PROVE  WithGuest' /\ \A id : GuestHas(id)' = GuestHas(id)
  BY DEF WithGuest, GuestHas

(* The completions in the queues stay where they are.                       *)
SameAnswers ==
    \A c \in Front : /\ Completions(c)' = Completions(c)
                     /\ \A k \in Completions(c) : box'[c][k] = box[c][k]

LEMMA AnsweredFrame ==
    ASSUME Answered, SameAnswers,
           \A id \in pool : request[id].state = "COMPLETE" /\ Idle(id) =>
               id \in pool' /\ request'[id] = request[id] /\ Idle(id)'
    PROVE  Answered' /\ \A id : IsAnswered(id)' = IsAnswered(id)
<1>1. Answered'
  BY DEF SameAnswers, Answered
<1>2. \A id : IsAnswered(id)' = IsAnswered(id)
  BY DEF SameAnswers, IsAnswered
<1> QED BY <1>1, <1>2

LEMMA QuietBox ==
    ASSUME \A c \in Front : box'[c] = box[c]
    PROVE  SameAnswers
  BY DEF SameAnswers, Completions

(* A CPU takes up x, or nothing.                                            *)
LEMMA TakesUp ==
    ASSUME TypeOK, NEW b \in CPU, NEW x \in Id \cup {None}, cur' = [cur EXCEPT ![b] = x]
    PROVE  /\ \A e \in CPU : cur'[e] = IF e = b THEN x ELSE cur[e]
           /\ \A id \in Id : id # x /\ Idle(id) => Idle(id)'
           /\ \A id \in Id : id # cur[b] /\ ~Idle(id) => ~Idle(id)'
           /\ ~Idle(x)'
<1>1. \A e \in CPU : cur'[e] = IF e = b THEN x ELSE cur[e]
  BY DEF TypeOK
<1> QED BY <1>1 DEF Idle

(* cpu_send_msg: the message is the last of the queue, or it is lost.       *)
LEMMA Sent ==
    ASSUME TypeOK, NEW t \in CPU, NEW m \in Msg, Send(t, m)
    PROVE  /\ box' \in [CPU -> Seq(Msg)]
           /\ \A c \in CPU : Len(box'[c]) <= Capacity
           /\ dropped' \in BOOLEAN
           /\ dropped => dropped'
           /\ \A c \in CPU : c # t => box'[c] = box[c]
           /\ \/ dropped' /\ UNCHANGED box
              \/ /\ Len(box[t]) \in Nat
                 /\ Len(box'[t]) = Len(box[t]) + 1
                 /\ \A k \in 1 .. Len(box[t]) : box'[t][k] = box[t][k]
                 /\ box'[t][Len(box[t]) + 1] = m
<1>1. /\ box \in [CPU -> Seq(Msg)] /\ \A c \in CPU : Len(box[c]) <= Capacity
      /\ dropped \in BOOLEAN /\ Capacity \in Nat
  BY RemIOAssumption DEF TypeOK
<1>2. CASE Len(box[t]) < Capacity
  <2>1. box' = [box EXCEPT ![t] = Append(box[t], m)] /\ UNCHANGED dropped
    BY <1>2 DEF Send
  <2>2. \A c \in CPU : box'[c] = IF c = t THEN Append(box[t], m) ELSE box[c]
    BY <1>1, <2>1
  <2>3. box[t] \in Seq(Msg)
    BY <1>1
  <2>4. /\ Append(box[t], m) \in Seq(Msg)
        /\ Len(box[t]) \in Nat
        /\ Len(Append(box[t], m)) = Len(box[t]) + 1
        /\ \A k \in 1 .. Len(box[t]) : Append(box[t], m)[k] = box[t][k]
        /\ Append(box[t], m)[Len(box[t]) + 1] = m
    BY <2>3, Appended
  <2>5. box' \in [CPU -> Seq(Msg)]
    BY <1>1, <2>1, <2>4
  <2>6. \A c \in CPU : Len(box'[c]) <= Capacity
    <3>1. Len(box'[t]) = Len(box[t]) + 1
      BY <2>2, <2>4
    <3>2. Len(box'[t]) <= Capacity
      BY <1>1, <1>2, <2>4, <3>1
    <3>3. \A c \in CPU : c # t => Len(box'[c]) <= Capacity
      BY <1>1, <2>2
    <3> QED BY <3>2, <3>3
  <2> QED
    BY <1>1, <2>1, <2>2, <2>4, <2>5, <2>6
<1>3. CASE ~(Len(box[t]) < Capacity)
  BY <1>1, <1>3 DEF Send
<1> QED BY <1>2, <1>3

(* A notification is no completion.                                         *)
LEMMA NotifySent ==
    ASSUME TypeOK, NEW t \in CPU, NEW x \in Dev \cup {None}, Send(t, NotifyMsg(x))
    PROVE  NotifyMsg(x) \in Msg /\ SameAnswers
<1>1. NotifyMsg(x) \in Msg /\ NotifyMsg(x).event \notin Op
  BY DEF NotifyMsg, Msg, Op
<1>2. ASSUME NEW c \in Front
      PROVE  /\ Completions(c)' = Completions(c)
             /\ \A k \in Completions(c) : box'[c][k] = box[c][k]
  <2>1. CASE box'[c] = box[c]
    BY <2>1 DEF Completions
  <2>2. CASE box'[c] # box[c]
    <3>1. /\ Len(box[c]) \in Nat
          /\ Len(box'[c]) = Len(box[c]) + 1
          /\ \A k \in 1 .. Len(box[c]) : box'[c][k] = box[c][k]
          /\ box'[c][Len(box[c]) + 1] = NotifyMsg(x)
      BY <1>1, <2>2, Sent, Facts
    <3>2. \A k : k \in 1 .. Len(box'[c]) <=> k \in 1 .. Len(box[c]) \/ k = Len(box[c]) + 1
      BY <3>1
    <3>3. Completions(c)' = Completions(c)
      BY <1>1, <3>1, <3>2 DEF Completions
    <3> QED BY <3>1, <3>3 DEF Completions
  <2> QED BY <2>1, <2>2
<1> QED BY <1>1, <1>2 DEF SameAnswers

(* A write of the state of a request leaves its other fields alone.         *)
LEMMA StateSet ==
    ASSUME TypeOK, NEW r \in Id,
           NEW st \in {"FREE", "PENDING", "PROCESSING", "COMPLETE"},
           request' = [request EXCEPT ![r].state = st]
    PROVE  /\ request' \in [Id -> Request]
           /\ \A id \in Id : id # r => request'[id] = request[id]
           /\ request'[r].state = st
           /\ request'[r].bind_key = request[r].bind_key
           /\ request'[r].addr = request[r].addr
           /\ request'[r].op = request[r].op
           /\ request'[r].value = request[r].value
           /\ request'[r].cpu_id = request[r].cpu_id
<1>1. request \in [Id -> Request]
  BY DEF TypeOK
<1>2. request' = [request EXCEPT ![r] = [@ EXCEPT !.state = st]]
  OBVIOUS
<1>3. request[r] \in Request
  BY <1>1
<1> DEFINE q == [request[r] EXCEPT !.state = st]
<1>4. /\ q \in Request
      /\ q.state = st
      /\ q.bind_key = request[r].bind_key
      /\ q.addr = request[r].addr
      /\ q.op = request[r].op
      /\ q.value = request[r].value
      /\ q.cpu_id = request[r].cpu_id
  BY <1>3 DEF Request
<1>5. request'[r] = q /\ \A id \in Id : id # r => request'[id] = request[id]
  BY <1>1, <1>2
<1>6. request' \in [Id -> Request]
  BY <1>1, <1>2, <1>4
<1> HIDE DEF q
<1> QED BY <1>4, <1>5, <1>6

(* remio_create_request up to list_push.                                    *)
LEMMA PushKeeps ==
    ASSUME IInv, NEW c \in Front, PushRequest(c)
    PROVE  IInv'
<1> USE DEF IInv
<1> PICK r \in Id : r = cur[c] /\ r # None
  BY Facts DEF PushRequest, Hands
<1>1. /\ c \in CPU /\ pc[c] = "push" /\ dev[c] \in Dev /\ cur[c] = r
      /\ r \in pool
      /\ request[r].state = "PENDING" /\ request[r].bind_key = dev[c]
      /\ \A e \in CPU : cur[e] = r => e = c
  BY Facts DEF PushRequest, Hands, StateAt
<1>2. /\ pc' = [pc EXCEPT ![c] = "notify"]
      /\ cur' = [cur EXCEPT ![c] = None]
      /\ pending' = [pending EXCEPT ![dev[c]] = Append(@, r)]
      /\ UNCHANGED <<pool, request, box, dev, reg, irq, held, accesses, want, dropped>>
  BY <1>1 DEF PushRequest, Goto, history
<1>3. /\ \A e \in CPU : cur'[e] = IF e = c THEN None ELSE cur[e]
      /\ \A e \in CPU : pc'[e] = IF e = c THEN "notify" ELSE pc[e]
  BY <1>1, <1>2, Facts
<1>4. /\ \A id \in pool : Idle(id) => Idle(id)'
      /\ \A id \in pool : ~Idle(id) => ~Idle(id)' \/ id = r
      /\ Idle(r)'
  BY <1>1, <1>3, Facts DEF Idle
<1>5. \A d \in Dev : /\ Len(pending[d]) \in Nat
                     /\ \A k \in 1 .. Len(pending[d]) : pending'[d][k] = pending[d][k]
                     /\ Len(pending'[d]) = IF d = dev[c] THEN Len(pending[d]) + 1 ELSE Len(pending[d])
                     /\ d = dev[c] => pending'[d][Len(pending[d]) + 1] = r
  <2> TAKE d \in Dev
  <2>1. pending[d] \in Seq(Id)
    BY Facts
  <2>2. CASE d = dev[c]
    <3>1. pending'[d] = Append(pending[d], r)
      BY <1>2, <2>2 DEF TypeOK
    <3> QED BY <2>1, <2>2, <3>1, Appended
  <2>3. CASE d # dev[c]
    BY <1>2, <2>1, <2>3 DEF TypeOK
  <2> QED BY <2>2, <2>3
<1>6. TypeOK'
  BY <1>1, <1>2, Appended DEF TypeOK
<1>7. Owners'
  <2>1. Waiting' = Waiting
    BY <1>1, <1>3, Facts DEF Waiting
  <2> QED BY <1>2, <2>1 DEF Owners
<1>8. Listed'
  <2>1. \A d \in Dev : \A k \in 1 .. Len(pending[d]) : pending[d][k] # r
    BY <1>1 DEF Listed, Idle
  <2> SUFFICES ASSUME NEW d \in Dev, NEW k \in 1 .. Len(pending'[d])
               PROVE  /\ pending'[d][k] \in pool
                      /\ request[pending'[d][k]].state = "PENDING"
                      /\ request[pending'[d][k]].bind_key = d
                      /\ \A e \in CPU : cur'[e] # pending'[d][k]
                      /\ \A l \in 1 .. Len(pending'[d]) : pending'[d][l] = pending'[d][k] => l = k
    BY <1>2 DEF Listed, Idle
  <2>2. CASE k \in 1 .. Len(pending[d])
    BY SMTT(40), <1>4, <1>5, <2>1, <2>2 DEF Listed, Idle
  <2>3. CASE k \notin 1 .. Len(pending[d])
    <3>1. d = dev[c] /\ k = Len(pending[d]) + 1 /\ pending'[d][k] = r
      BY <1>5, <2>3
    <3>2. \A l \in 1 .. Len(pending'[d]) : l = k \/ pending'[d][l] # r
      BY <1>5, <2>1, <3>1
    <3>3. \A e \in CPU : cur'[e] # r
      BY <1>4 DEF Idle
    <3> QED
      BY <1>1, <3>1, <3>2, <3>3
  <2> QED BY <2>2, <2>3
<1>9. WithGuest' /\ \A id : GuestHas(id)' = GuestHas(id)
  BY <1>2, <1>4, WithGuestFrame
<1>10. Answered' /\ \A id : IsAnswered(id)' = IsAnswered(id)
  BY <1>2, <1>4, QuietBox, AnsweredFrame
<1>11. Hands'
  BY <1>1, <1>2, <1>3, Facts DEF Hands, StateAt
<1>12. Somewhere'
  <2>1. IsListed(r)'
    BY <1>1, <1>5 DEF IsListed
  <2>2. \A id : IsListed(id) => IsListed(id)'
    BY <1>5 DEF IsListed
  <2> QED
    BY <1>2, <1>4, <1>9, <1>10, <2>1, <2>2 DEF Somewhere
<1>13. Values'
  BY <1>2 DEF Values, OwnAnswer, TypeOK
<1> QED
  BY <1>6, <1>7, <1>8, <1>9, <1>10, <1>11, <1>12, <1>13

(* remio_mmio_emul_handler: the backend's CPU is told, the vCPU pauses.     *)
LEMMA PauseKeeps ==
    ASSUME IInv, NEW c \in Front, NotifyAndPause(c)
    PROVE  IInv'
<1> USE DEF IInv
<1>1. /\ c \in CPU /\ BackCpu \in CPU /\ BackCpu \notin Front
      /\ pc[c] = "notify" /\ cur[c] = None /\ dev[c] \in Dev
  BY Facts, RemIOAssumption DEF NotifyAndPause, Hands
<1>2. /\ Send(BackCpu, NotifyMsg(dev[c]))
      /\ pc' = [pc EXCEPT ![c] = "standby"]
      /\ dev' = [dev EXCEPT ![c] = None]
      /\ UNCHANGED <<pool, request, pending, cur, reg, irq, held, accesses, want>>
  BY DEF NotifyAndPause, Goto, history
<1>3. /\ \A e \in CPU : pc'[e] = IF e = c THEN "standby" ELSE pc[e]
      /\ \A e \in CPU : dev'[e] = IF e = c THEN None ELSE dev[e]
      /\ \A id : Idle(id)' = Idle(id)
  BY <1>1, <1>2, Facts DEF Idle
<1>4. NotifyMsg(dev[c]) \in Msg /\ SameAnswers
  BY <1>1, <1>2, NotifySent
<1>5. /\ box' \in [CPU -> Seq(Msg)] /\ \A e \in CPU : Len(box'[e]) <= Capacity
      /\ dropped' \in BOOLEAN /\ (dropped => dropped')
  BY <1>1, <1>2, <1>4, Sent
<1>6. TypeOK'
  BY <1>1, <1>2, <1>5 DEF TypeOK
<1>7. Owners'
  <2>1. Waiting' = Waiting
    BY <1>1, <1>3, Facts DEF Waiting
  <2> QED BY <1>2, <2>1 DEF Owners
<1>8. Listed' /\ \A id : IsListed(id)' = IsListed(id)
  BY <1>2, <1>3, ListedFrame
<1>9. WithGuest' /\ \A id : GuestHas(id)' = GuestHas(id)
  BY <1>2, <1>3, WithGuestFrame
<1>10. Answered' /\ \A id : IsAnswered(id)' = IsAnswered(id)
  BY <1>2, <1>3, <1>4, AnsweredFrame
<1>11. Hands'
  BY <1>1, <1>2, <1>3, Facts DEF Hands, StateAt
<1>12. Somewhere'
  BY <1>2, <1>3, <1>5, <1>8, <1>9, <1>10 DEF Somewhere
<1>13. Values'
  BY <1>1, <1>2, <1>3, Facts DEF Values, OwnAnswer
<1> QED
  BY <1>6, <1>7, <1>8, <1>9, <1>10, <1>11, <1>12, <1>13

(* REMIO_HYP_NOTIFY.                                                        *)
LEMMA NotifyFrontKeeps ==
    ASSUME IInv, NEW b \in Back, NotifyFront(b)
    PROVE  IInv'
<1> USE DEF IInv
<1>1. /\ FrontCpu \in CPU
      /\ Send(FrontCpu, NotifyMsg(None))
      /\ UNCHANGED <<pool, request, pending, pc, dev, cur, reg, irq, held, accesses, want>>
  BY Facts, RemIOAssumption DEF NotifyFront, local, history
<1>2. NotifyMsg(None) \in Msg /\ SameAnswers
  BY <1>1, NotifySent
<1>3. /\ box' \in [CPU -> Seq(Msg)] /\ \A e \in CPU : Len(box'[e]) <= Capacity
      /\ dropped' \in BOOLEAN /\ (dropped => dropped')
  BY <1>1, <1>2, Sent
<1>4. /\ \A id : Idle(id)' = Idle(id)
      /\ Waiting' = Waiting
  BY <1>1 DEF Idle, Waiting
<1>5. TypeOK'
  BY <1>1, <1>3 DEF TypeOK
<1>6. Owners' /\ Hands' /\ Values'
  BY <1>1, <1>4 DEF Owners, Hands, Values, OwnAnswer
<1>7. Listed' /\ \A id : IsListed(id)' = IsListed(id)
  BY <1>1, <1>4, ListedFrame
<1>8. WithGuest' /\ \A id : GuestHas(id)' = GuestHas(id)
  BY <1>1, <1>4, WithGuestFrame
<1>9. Answered' /\ \A id : IsAnswered(id)' = IsAnswered(id)
  BY <1>1, <1>2, <1>4, AnsweredFrame
<1>10. Somewhere'
  BY <1>1, <1>3, <1>4, <1>7, <1>8, <1>9 DEF Somewhere
<1> QED
  BY <1>5, <1>6, <1>7, <1>8, <1>9, <1>10

(* The backend's CPU takes a notification; its guest takes the interrupt.   *)
LEMMA BackIrqKeeps ==
    ASSUME IInv, NEW b \in Back, BackMsg(b) \/ \E d \in Dev : TakeIrq(b, d)
    PROVE  IInv'
<1> USE DEF IInv
<1>1. b \in CPU /\ b \notin Front /\ pc[b] = "guest" /\ cur[b] = None
  BY Facts DEF BackMsg, TakeIrq, Hands
<1>2. UNCHANGED <<pool, request, pending, cur, reg, held, accesses, want, dropped>>
  BY DEF BackMsg, TakeIrq, local, history
<1>3. /\ \A c \in Front : box'[c] = box[c]
      /\ box' \in [CPU -> Seq(Msg)]
      /\ \A c \in CPU : Len(box'[c]) <= Capacity
  <2>1. CASE BackMsg(b)
    <3>1. box[b] \in Seq(Msg) /\ box[b] # <<>> /\ box' = [box EXCEPT ![b] = Tail(@)]
      BY <1>1, <2>1, Facts DEF BackMsg
    <3>2. /\ Tail(box[b]) \in Seq(Msg)
          /\ Len(box[b]) \in Nat
          /\ Len(Tail(box[b])) = Len(box[b]) - 1
      BY <3>1, Shifted
    <3>3. Len(Tail(box[b])) <= Capacity
      BY <1>1, <3>2, RemIOAssumption DEF TypeOK
    <3> QED BY <1>1, <3>1, <3>2, <3>3 DEF TypeOK
  <2>2. CASE \E d \in Dev : TakeIrq(b, d)
    BY <2>2 DEF TakeIrq, TypeOK
  <2> QED BY <2>1, <2>2
<1>4. PICK w \in {"guest", "ask"}, d \in Dev \cup {None} :
          /\ w = "ask" => d \in Dev
          /\ w = "guest" => d = dev[b]
          /\ pc' = [pc EXCEPT ![b] = w]
          /\ dev' = [dev EXCEPT ![b] = d]
          /\ irq' \in [Dev -> BOOLEAN]
  <2>1. CASE BackMsg(b)
    <3>1. UNCHANGED <<pc, dev>> /\ irq' \in [Dev -> BOOLEAN]
      BY <2>1 DEF BackMsg, local, TypeOK
    <3>2. pc' = [pc EXCEPT ![b] = "guest"] /\ dev' = [dev EXCEPT ![b] = dev[b]]
      BY <1>1, <3>1, Facts
    <3> QED BY <1>1, <3>1, <3>2, Facts
  <2>2. CASE \E d \in Dev : TakeIrq(b, d)
    <3>1. PICK d \in Dev : TakeIrq(b, d)
      BY <2>2
    <3>2. /\ pc' = [pc EXCEPT ![b] = "ask"] /\ dev' = [dev EXCEPT ![b] = d]
          /\ irq' \in [Dev -> BOOLEAN]
      BY <3>1 DEF TakeIrq, Goto, TypeOK
    <3> QED BY <3>2
  <2> QED BY <2>1, <2>2
<1>5. /\ \A e \in CPU : pc'[e] = IF e = b THEN w ELSE pc[e]
      /\ \A e \in CPU : dev'[e] = IF e = b THEN d ELSE dev[e]
      /\ \A id : Idle(id)' = Idle(id)
  BY <1>1, <1>2, <1>4, Facts DEF Idle
<1>6. TypeOK'
  BY <1>1, <1>2, <1>3, <1>4 DEF TypeOK
<1>7. Owners'
  <2>1. Waiting' = Waiting
    BY <1>1, <1>5, Facts DEF Waiting
  <2> QED BY <1>2, <2>1 DEF Owners
<1>8. Listed' /\ \A id : IsListed(id)' = IsListed(id)
  BY <1>2, <1>5, ListedFrame
<1>9. WithGuest' /\ \A id : GuestHas(id)' = GuestHas(id)
  BY <1>2, <1>5, WithGuestFrame
<1>10. Answered' /\ \A id : IsAnswered(id)' = IsAnswered(id)
  BY <1>2, <1>3, <1>5, QuietBox, AnsweredFrame
<1>11. Hands'
  BY <1>1, <1>2, <1>4, <1>5, Facts DEF Hands, StateAt
<1>12. Somewhere'
  BY <1>2, <1>5, <1>8, <1>9, <1>10 DEF Somewhere
<1>13. Values'
  BY <1>1, <1>2, <1>5, Facts DEF Values, OwnAnswer
<1> QED
  BY <1>6, <1>7, <1>8, <1>9, <1>10, <1>11, <1>12, <1>13

(* REMIO_HYP_ASK: what is taken from the list is always a pending request   *)
(* of the device.                                                           *)
LEMMA AskKeeps ==
    ASSUME IInv, NEW b \in Back, Ask(b)
    PROVE  IInv'
<1> USE DEF IInv
<1>1. /\ b \in CPU /\ b \notin Front /\ pc[b] = "ask" /\ cur[b] = None /\ dev[b] \in Dev
      /\ UNCHANGED <<pool, request, box, reg, irq, held, accesses, want, dropped>>
  BY Facts DEF Ask, Hands, history
<1>2. CASE pending[dev[b]] = <<>>
  <2>1. /\ UNCHANGED pending
        /\ pc' = [pc EXCEPT ![b] = "guest"]
        /\ dev' = [dev EXCEPT ![b] = None]
        /\ cur' = [cur EXCEPT ![b] = None]
    BY <1>2 DEF Ask, Leave, Goto
  <2>2. /\ \A e \in CPU : pc'[e] = IF e = b THEN "guest" ELSE pc[e]
        /\ \A e \in CPU : dev'[e] = IF e = b THEN None ELSE dev[e]
        /\ UNCHANGED cur
        /\ \A id : Idle(id)' = Idle(id)
    BY <1>1, <2>1, Facts DEF Idle
  <2>3. TypeOK'
    BY <1>1, <2>1 DEF TypeOK
  <2>4. Owners'
    <3>1. Waiting' = Waiting
      BY <1>1, <2>2, Facts DEF Waiting
    <3> QED BY <1>1, <3>1 DEF Owners
  <2>5. Listed' /\ \A id : IsListed(id)' = IsListed(id)
    BY <1>1, <2>1, <2>2, ListedFrame
  <2>6. WithGuest' /\ \A id : GuestHas(id)' = GuestHas(id)
    BY <1>1, <2>2, WithGuestFrame
  <2>7. Answered' /\ \A id : IsAnswered(id)' = IsAnswered(id)
    BY <1>1, <2>2, QuietBox, AnsweredFrame
  <2>8. Hands'
    BY <1>1, <2>2, Facts DEF Hands, StateAt
  <2>9. Somewhere'
    BY <1>1, <2>2, <2>5, <2>6, <2>7 DEF Somewhere
  <2>10. Values'
    BY <1>1, <2>2, Facts DEF Values, OwnAnswer
  <2> QED
    BY <2>3, <2>4, <2>5, <2>6, <2>7, <2>8, <2>9, <2>10
<1>3. CASE pending[dev[b]] # <<>>
  <2> PICK r \in Id : r = Head(pending[dev[b]])
    BY <1>1, <1>3, Facts, Shifted
  <2>1. /\ Len(pending[dev[b]]) \in Nat /\ Len(pending[dev[b]]) >= 1
        /\ Tail(pending[dev[b]]) \in Seq(Id)
        /\ Len(Tail(pending[dev[b]])) = Len(pending[dev[b]]) - 1
        /\ \A k \in 1 .. Len(Tail(pending[dev[b]])) :
               k + 1 \in 1 .. Len(pending[dev[b]])
               /\ Tail(pending[dev[b]])[k] = pending[dev[b]][k + 1]
        /\ r = pending[dev[b]][1]
    BY <1>1, <1>3, Facts, Shifted
  <2>2. /\ r \in pool /\ r # None
        /\ request[r].state = "PENDING" /\ request[r].bind_key = dev[b]
        /\ Idle(r)
        /\ \A l \in 1 .. Len(pending[dev[b]]) : pending[dev[b]][l] = r => l = 1
    BY <1>1, <2>1, Facts DEF Listed
  <2>3. /\ pending' = [pending EXCEPT ![dev[b]] = Tail(@)]
        /\ pc' = [pc EXCEPT ![b] = "asked"]
        /\ cur' = [cur EXCEPT ![b] = r]
        /\ UNCHANGED dev
    BY <1>3, <2>2 DEF Ask, Found, Goto
  <2>4. /\ \A e \in CPU : pc'[e] = IF e = b THEN "asked" ELSE pc[e]
        /\ \A e \in CPU : cur'[e] = IF e = b THEN r ELSE cur[e]
        /\ \A d \in Dev : pending'[d] = IF d = dev[b] THEN Tail(pending[d]) ELSE pending[d]
    BY <2>3 DEF TypeOK
  <2>5. /\ \A id \in Id : id # r /\ Idle(id) => Idle(id)'
        /\ \A id \in Id : ~Idle(id) => ~Idle(id)'
        /\ \E e \in CPU : cur'[e] = r
        /\ \A e \in CPU : cur[e] # r
    BY <1>1, <2>2, <2>4, Facts DEF Idle
  <2>6. TypeOK'
    BY <1>1, <2>1, <2>3 DEF TypeOK
  <2>7. Owners'
    <3>1. Waiting' = Waiting
      BY <1>1, <2>4, Facts DEF Waiting
    <3> QED BY <1>1, <3>1 DEF Owners
  <2>8. \A d \in Dev : \A k \in 1 .. Len(pending'[d]) :
            \E l \in 1 .. Len(pending[d]) :
                /\ l = IF d = dev[b] THEN k + 1 ELSE k
                /\ pending'[d][k] = pending[d][l] /\ pending[d][l] # r
    <3> TAKE d \in Dev
    <3>1. CASE d = dev[b]
      <4> TAKE k \in 1 .. Len(pending'[d])
      <4>1. pending'[d] = Tail(pending[d])
        BY <2>4, <3>1
      <4>2. k + 1 \in 1 .. Len(pending[d]) /\ k + 1 # 1 /\ pending'[d][k] = pending[d][k + 1]
        BY <2>1, <3>1, <4>1
      <4> QED BY <2>2, <3>1, <4>2
    <3>2. CASE d # dev[b]
      BY <1>1, <2>2, <2>4, <3>2 DEF Listed
    <3> QED BY <3>1, <3>2
  <2>9. Listed'
    <3> SUFFICES ASSUME NEW d \in Dev, NEW k \in 1 .. Len(pending'[d])
                 PROVE  /\ pending'[d][k] \in pool
                        /\ request[pending'[d][k]].state = "PENDING"
                        /\ request[pending'[d][k]].bind_key = d
                        /\ \A e \in CPU : cur'[e] # pending'[d][k]
                        /\ \A l \in 1 .. Len(pending'[d]) : pending'[d][l] = pending'[d][k] => l = k
      BY <1>1 DEF Listed, Idle
    <3>1. PICK m \in 1 .. Len(pending[d]) :
              /\ m = IF d = dev[b] THEN k + 1 ELSE k
              /\ pending'[d][k] = pending[d][m] /\ pending[d][m] # r
      BY <2>8
    <3>2. /\ pending'[d][k] \in pool
          /\ request[pending'[d][k]].state = "PENDING"
          /\ request[pending'[d][k]].bind_key = d
          /\ Idle(pending[d][m])
      BY <3>1 DEF Listed
    <3>3. \A e \in CPU : cur'[e] # pending'[d][k]
      BY <2>4, <3>1, <3>2 DEF Idle
    <3>4. ASSUME NEW l \in 1 .. Len(pending'[d]), pending'[d][l] = pending'[d][k]
          PROVE  l = k
      <4>1. PICK n \in 1 .. Len(pending[d]) :
                /\ n = IF d = dev[b] THEN l + 1 ELSE l
                /\ pending'[d][l] = pending[d][n]
        BY <2>8
      <4>2. pending[d][n] = pending[d][m]
        BY <3>1, <3>4, <4>1
      <4>3. n = m
        BY <4>2 DEF Listed
      <4> QED BY <3>1, <4>1, <4>3
    <3> QED BY <3>2, <3>3, <3>4
  <2>10. WithGuest' /\ \A id : GuestHas(id)' = GuestHas(id)
    BY <1>1, <2>2, <2>5, Facts, WithGuestFrame
  <2>11. Answered' /\ \A id : IsAnswered(id)' = IsAnswered(id)
    BY <1>1, <2>2, <2>5, Facts, QuietBox, AnsweredFrame
  <2>12. Hands'
    BY <1>1, <2>2, <2>3, <2>4, <2>5, Facts DEF Hands, StateAt
  <2>13. Somewhere'
    <3>1. \A id \in pool : IsListed(id) => IsListed(id)' \/ id = r
      <4> SUFFICES ASSUME NEW d \in Dev, NEW k \in 1 .. Len(pending[d]), pending[d][k] # r
                   PROVE  \E l \in 1 .. Len(pending'[d]) : pending'[d][l] = pending[d][k]
        BY DEF IsListed
      <4>1. CASE d = dev[b]
        <5>1. k # 1
          BY <2>1, <4>1
        <5>2. pending'[d] = Tail(pending[d])
          BY <2>4, <4>1
        <5>3. k - 1 \in 1 .. Len(pending'[d])
          BY <2>1, <4>1, <5>1, <5>2
        <5>4. pending'[d][k - 1] = pending[d][(k - 1) + 1] /\ (k - 1) + 1 = k
          BY <2>1, <4>1, <5>2, <5>3
        <5> QED BY <5>3, <5>4
      <4>2. CASE d # dev[b]
        BY <2>4, <4>2
      <4> QED BY <4>1, <4>2
    <3>2. ~Idle(r)'
      BY <2>5 DEF Idle
    <3> QED
      BY <1>1, <2>5, <2>10, <2>11, <3>1, <3>2, Facts DEF Somewhere
  <2>14. Values'
    BY <1>1, <2>4, Facts DEF Values, OwnAnswer
  <2> QED
    BY <2>6, <2>7, <2>9, <2>10, <2>11, <2>12, <2>13, <2>14
<1> QED BY <1>2, <1>3

(* The rest of remio_handle_ask.                                            *)
LEMMA AskReturnsKeeps ==
    ASSUME IInv, NEW b \in Back, AskReturns(b)
    PROVE  IInv'
<1> USE DEF IInv
<1> PICK r \in Id, d \in Dev : r = cur[b] /\ r # None /\ d = dev[b]
  BY Facts DEF AskReturns, Hands
<1>1. /\ b \in CPU /\ b \notin Front /\ pc[b] = "asked" /\ cur[b] = r /\ dev[b] = d
      /\ r \in pool
      /\ request[r].state = "PENDING" /\ request[r].bind_key = d
      /\ \A e \in CPU : cur[e] = r => e = b
      /\ ~Idle(r)
      /\ UNCHANGED <<pool, pending, box, reg, irq, accesses, want, dropped>>
  BY Facts DEF AskReturns, Hands, StateAt, history, Idle
<1>2. /\ request' = [request EXCEPT ![r].state = "PROCESSING"]
      /\ held' = [held EXCEPT ![d] = @ \cup {r}]
      /\ cur' = [cur EXCEPT ![b] = None]
  BY <1>1 DEF AskReturns, Leave
<1>3. PICK w \in {"guest", "ask"}, x \in Dev \cup {None} :
          /\ w = "ask" => x \in Dev
          /\ pc' = [pc EXCEPT ![b] = w]
          /\ dev' = [dev EXCEPT ![b] = x]
  <2>1. CASE pending[d] # <<>>
    <3>1. pc' = [pc EXCEPT ![b] = "ask"] /\ dev' = [dev EXCEPT ![b] = d]
      BY <1>1, <2>1, Facts DEF AskReturns, Goto
    <3> QED BY <3>1
  <2>2. CASE pending[d] = <<>>
    <3>1. pc' = [pc EXCEPT ![b] = "guest"] /\ dev' = [dev EXCEPT ![b] = None]
      BY <1>1, <2>2, Facts DEF AskReturns, Leave, Goto
    <3> QED BY <3>1
  <2> QED BY <2>1, <2>2
<1>4. /\ \A e \in CPU : pc'[e] = IF e = b THEN w ELSE pc[e]
      /\ \A e \in CPU : dev'[e] = IF e = b THEN x ELSE dev[e]
      /\ \A e \in CPU : cur'[e] = IF e = b THEN None ELSE cur[e]
      /\ \A e \in Dev : held'[e] = IF e = d THEN held[e] \cup {r} ELSE held[e]
  BY <1>2, <1>3 DEF TypeOK
<1>5. /\ \A id \in pool : Idle(id) => Idle(id)' /\ id # r
      /\ \A id \in pool : ~Idle(id) => ~Idle(id)' \/ id = r
      /\ Idle(r)'
  BY <1>1, <1>4, Facts DEF Idle
<1>6. /\ request' \in [Id -> Request]
      /\ \A id \in Id : id # r => request'[id] = request[id]
      /\ request'[r].state = "PROCESSING"
      /\ request'[r].bind_key = request[r].bind_key
      /\ request'[r].addr = request[r].addr
      /\ request'[r].op = request[r].op
      /\ request'[r].cpu_id = request[r].cpu_id
  BY <1>2, StateSet
<1>7. TypeOK'
  BY <1>1, <1>2, <1>3, <1>6 DEF TypeOK
<1>8. Owners'
  <2>1. Waiting' = Waiting
    BY <1>1, <1>4, Facts DEF Waiting
  <2>2. \A id \in pool : request'[id].cpu_id = request[id].cpu_id
                         /\ request'[id].bind_key = request[id].bind_key
    BY <1>6, Facts
  <2> QED BY <1>1, <2>1, <2>2 DEF Owners
<1>9. Listed' /\ \A id : IsListed(id)' = IsListed(id)
  BY <1>1, <1>5, <1>6, Facts, ListedFrame
<1>10. Answered' /\ \A id : IsAnswered(id)' = IsAnswered(id)
  BY <1>1, <1>5, <1>6, Facts, QuietBox, AnsweredFrame
<1>11. WithGuest'
  <2> SUFFICES ASSUME NEW e \in Dev, NEW id \in held'[e]
               PROVE  /\ id \in pool'
                      /\ request'[id].state = "PROCESSING"
                      /\ request'[id].bind_key = e
                      /\ Idle(id)'
    BY DEF WithGuest
  <2>1. CASE id = r
    <3>1. e = d
      BY <1>1, <1>4, <2>1 DEF WithGuest
    <3> QED BY <1>1, <1>5, <1>6, <2>1, <3>1
  <2>2. CASE id # r
    <3>1. id \in held[e]
      BY <1>4, <2>2
    <3>2. id \in pool /\ request[id].state = "PROCESSING" /\ request[id].bind_key = e /\ Idle(id)
      BY <3>1 DEF WithGuest
    <3> QED BY <1>1, <1>5, <1>6, <2>2, <3>2, Facts
  <2> QED BY <2>1, <2>2
<1>12. GuestHas(r)' /\ \A id : GuestHas(id) => GuestHas(id)'
  BY <1>4 DEF GuestHas
<1>13. Hands'
  BY SMTT(40), <1>1, <1>3, <1>4, <1>6, Facts DEF Hands, StateAt
<1>14. Somewhere'
  BY <1>1, <1>5, <1>9, <1>10, <1>12 DEF Somewhere
<1>15. Values'
  <2>1. OwnAnswer'
    BY <1>1, <1>4, Facts DEF Values, OwnAnswer
  <2>2. \A id \in pool :
           /\ request'[id].state = "COMPLETE" => request'[id].value = request'[id].addr
           /\ want[request'[id].cpu_id] =
                  IF request'[id].op = "read" THEN request'[id].addr ELSE reg[request'[id].cpu_id]
    BY <1>1, <1>6, Facts DEF Values
  <2> QED BY <1>1, <2>1, <2>2 DEF Values
<1> QED
  BY <1>7, <1>8, <1>9, <1>10, <1>11, <1>13, <1>14, <1>15

(* REMIO_HYP_READ and _WRITE up to the test of the state, which succeeds.   *)
LEMMA StartRwKeeps ==
    ASSUME IInv, NEW b \in Back, NEW d \in Dev, NEW r \in Id, StartRw(b, d, r)
    PROVE  IInv'
<1> USE DEF IInv
<1>1. /\ b \in CPU /\ b \notin Front /\ pc[b] = "guest" /\ cur[b] = None
      /\ r \in held[d] /\ r \in pool /\ r # None
      /\ request[r].state = "PROCESSING" /\ request[r].bind_key = d
      /\ Idle(r)
      /\ UNCHANGED <<pool, request, pending, box, reg, irq, accesses, want, dropped>>
  BY Facts DEF StartRw, Hands, WithGuest, history
<1>2. /\ held' = [held EXCEPT ![d] = @ \ {r}]
      /\ cur' = [cur EXCEPT ![b] = r]
      /\ dev' = [dev EXCEPT ![b] = d]
      /\ pc' = [pc EXCEPT ![b] = "rw"]
  BY <1>1 DEF StartRw, Found, Goto
<1>3. /\ \A e \in CPU : pc'[e] = IF e = b THEN "rw" ELSE pc[e]
      /\ \A e \in CPU : dev'[e] = IF e = b THEN d ELSE dev[e]
      /\ \A e \in CPU : cur'[e] = IF e = b THEN r ELSE cur[e]
      /\ \A e \in Dev : held'[e] = IF e = d THEN held[e] \ {r} ELSE held[e]
  BY <1>2 DEF TypeOK
<1>4. /\ \A id \in pool : id # r /\ Idle(id) => Idle(id)'
      /\ \A id \in pool : ~Idle(id) => ~Idle(id)'
      /\ ~Idle(r)'
      /\ \A e \in CPU : cur[e] # r
  BY <1>1, <1>3, Facts DEF Idle
<1>5. TypeOK'
  BY <1>1, <1>2 DEF TypeOK
<1>6. Owners'
  <2>1. Waiting' = Waiting
    BY <1>1, <1>3, Facts DEF Waiting
  <2> QED BY <1>1, <2>1 DEF Owners
<1>7. Listed' /\ \A id : IsListed(id)' = IsListed(id)
  BY <1>1, <1>4, ListedFrame
<1>8. Answered' /\ \A id : IsAnswered(id)' = IsAnswered(id)
  BY <1>1, <1>4, QuietBox, AnsweredFrame
<1>9. WithGuest'
  <2>1. \A e \in Dev : \A id \in held'[e] : id \in held[e] /\ id # r
    <3> TAKE e \in Dev
    <3>1. CASE e = d
      BY <1>3, <3>1
    <3>2. CASE e # d
      BY <1>1, <1>3, <3>2 DEF WithGuest
    <3> QED BY <3>1, <3>2
  <2> QED BY <1>1, <1>4, <2>1 DEF WithGuest
<1>10. \A id : GuestHas(id) /\ id # r => GuestHas(id)'
  BY <1>3 DEF GuestHas
<1>11. Hands'
  BY <1>1, <1>3, <1>4, Facts DEF Hands, StateAt
<1>12. Somewhere'
  BY <1>1, <1>4, <1>7, <1>8, <1>10 DEF Somewhere
<1>13. Values'
  BY <1>1, <1>3, Facts DEF Values, OwnAnswer
<1> QED
  BY <1>5, <1>6, <1>7, <1>8, <1>9, <1>11, <1>12, <1>13

(* The value and the state of the request.                                  *)
LEMMA CompleteKeeps ==
    ASSUME IInv, NEW b \in Back, Complete(b)
    PROVE  IInv'
<1> USE DEF IInv
<1> PICK r \in Id, d \in Dev : r = cur[b] /\ r # None /\ d = dev[b]
  BY Facts DEF Complete, Hands
<1>1. /\ b \in CPU /\ b \notin Front /\ pc[b] = "rw" /\ cur[b] = r /\ dev[b] = d
      /\ r \in pool
      /\ request[r].state = "PROCESSING" /\ request[r].bind_key = d
      /\ \A e \in CPU : cur[e] = r => e = b
      /\ ~Idle(r)
      /\ UNCHANGED <<pool, pending, box, dev, cur, reg, irq, held, accesses, want, dropped>>
  BY Facts DEF Complete, Hands, StateAt, history, Idle
<1>2. /\ request' = [request EXCEPT ![r].value = request[r].addr, ![r].state = "COMPLETE"]
      /\ pc' = [pc EXCEPT ![b] = "complete"]
  BY <1>1 DEF Complete, Goto
<1>3. /\ \A e \in CPU : pc'[e] = IF e = b THEN "complete" ELSE pc[e]
      /\ \A id : Idle(id)' = Idle(id)
  BY <1>1, <1>2 DEF TypeOK, Idle
<1>4. /\ request' \in [Id -> Request]
      /\ \A id \in Id : id # r => request'[id] = request[id]
      /\ request'[r].state = "COMPLETE"
      /\ request'[r].value = request'[r].addr
      /\ request'[r].bind_key = request[r].bind_key
      /\ request'[r].addr = request[r].addr
      /\ request'[r].op = request[r].op
      /\ request'[r].cpu_id = request[r].cpu_id
  <2>1. request \in [Id -> Request] /\ request[r] \in Request
    BY DEF TypeOK
  <2> DEFINE q == [request[r] EXCEPT !.value = request[r].addr, !.state = "COMPLETE"]
  <2>2. request' = [request EXCEPT ![r] = q]
    BY <1>2, <2>1 DEF Request
  <2>3. /\ q \in Request
        /\ q.state = "COMPLETE"
        /\ q.value = q.addr
        /\ q.bind_key = request[r].bind_key
        /\ q.addr = request[r].addr
        /\ q.op = request[r].op
        /\ q.cpu_id = request[r].cpu_id
    BY <2>1 DEF Request
  <2> HIDE DEF q
  <2>4. request'[r] = q /\ \A id \in Id : id # r => request'[id] = request[id]
    BY <2>1, <2>2
  <2>5. request' \in [Id -> Request]
    BY <2>1, <2>2, <2>3
  <2> QED BY <2>3, <2>4, <2>5
<1>5. TypeOK'
  BY <1>1, <1>2, <1>4 DEF TypeOK
<1>6. Owners'
  <2>1. Waiting' = Waiting
    BY <1>1, <1>3, Facts DEF Waiting
  <2>2. \A id \in pool : request'[id].cpu_id = request[id].cpu_id
                         /\ request'[id].bind_key = request[id].bind_key
    BY <1>4, Facts
  <2> QED BY <1>1, <2>1, <2>2 DEF Owners
<1>7. Listed' /\ \A id : IsListed(id)' = IsListed(id)
  BY <1>1, <1>3, <1>4, Facts, ListedFrame
<1>8. WithGuest' /\ \A id : GuestHas(id)' = GuestHas(id)
  BY <1>1, <1>3, <1>4, Facts, WithGuestFrame
<1>9. Answered' /\ \A id : IsAnswered(id)' = IsAnswered(id)
  BY <1>1, <1>3, <1>4, Facts, QuietBox, AnsweredFrame
<1>10. Hands'
  BY <1>1, <1>3, <1>4, Facts DEF Hands, StateAt
<1>11. Somewhere'
  BY <1>1, <1>3, <1>7, <1>8, <1>9 DEF Somewhere
<1>12. Values'
  <2>1. OwnAnswer'
    BY <1>1, <1>3, Facts DEF Values, OwnAnswer
  <2>2. \A id \in pool :
           /\ request'[id].state = "COMPLETE" => request'[id].value = request'[id].addr
           /\ want[request'[id].cpu_id] =
                  IF request'[id].op = "read" THEN request'[id].addr ELSE reg[request'[id].cpu_id]
    BY <1>1, <1>4, Facts DEF Values
  <2> QED BY <1>1, <2>1, <2>2 DEF Values
<1> QED
  BY <1>5, <1>6, <1>7, <1>8, <1>9, <1>10, <1>11, <1>12

(* The completion message, which is lost when the queue is full.            *)
LEMMA SendCompletionKeeps ==
    ASSUME IInv, NEW b \in Back, SendCompletion(b)
    PROVE  IInv'
<1> USE DEF IInv
<1> PICK r \in Id, d \in Dev : r = cur[b] /\ r # None /\ d = dev[b]
  BY Facts DEF SendCompletion, Hands
<1>1. /\ b \in CPU /\ b \notin Front /\ pc[b] = "complete" /\ cur[b] = r /\ dev[b] = d
      /\ r \in pool
      /\ request[r].state = "COMPLETE" /\ request[r].bind_key = d
      /\ \A e \in CPU : cur[e] = r => e = b
      /\ ~Idle(r)
      /\ UNCHANGED <<pool, request, pending, reg, irq, held, accesses, want>>
  BY Facts DEF SendCompletion, Hands, StateAt, history, Idle
<1> PICK c \in Front : c = request[r].cpu_id
  BY <1>1 DEF Owners, Waiting
<1> PICK m \in Msg : /\ m.event = request[r].op /\ m.event \in Op
                     /\ m.bind_key = d /\ m.request_id = r
                     /\ Send(c, m)
  <2>1. d % BYTE = d /\ r % BYTE = r /\ d \in Nat /\ r \in Nat
    BY RemIOAssumption, FitsByte DEF Id
  <2>2. request[r].op \in Op
    BY DEF TypeOK, Request
  <2>3. CompletionMsg(request[r].op, d, r) = [event |-> request[r].op, bind_key |-> d, request_id |-> r]
    BY <2>1 DEF CompletionMsg
  <2>4. CompletionMsg(request[r].op, d, r) \in Msg
    BY <2>1, <2>2, <2>3 DEF Msg
  <2>5. Send(c, CompletionMsg(request[r].op, d, r))
    BY <1>1 DEF SendCompletion
  <2> QED BY <2>2, <2>3, <2>4, <2>5
<1>2. /\ pc' = [pc EXCEPT ![b] = "guest"]
      /\ dev' = [dev EXCEPT ![b] = None]
      /\ cur' = [cur EXCEPT ![b] = None]
  BY DEF SendCompletion, Leave, Goto
<1>3. /\ \A e \in CPU : pc'[e] = IF e = b THEN "guest" ELSE pc[e]
      /\ \A e \in CPU : dev'[e] = IF e = b THEN None ELSE dev[e]
      /\ \A e \in CPU : cur'[e] = IF e = b THEN None ELSE cur[e]
  BY <1>2 DEF TypeOK
<1>4. /\ \A id \in pool : Idle(id) => Idle(id)' /\ id # r
      /\ \A id \in pool : ~Idle(id) => ~Idle(id)' \/ id = r
      /\ Idle(r)'
  BY <1>1, <1>3, Facts DEF Idle
<1>5. /\ box' \in [CPU -> Seq(Msg)] /\ \A e \in CPU : Len(box'[e]) <= Capacity
      /\ dropped' \in BOOLEAN /\ (dropped => dropped')
  BY Sent, Facts
<1>6. TypeOK'
  BY <1>1, <1>2, <1>5 DEF TypeOK
<1>7. Owners'
  <2>1. Waiting' = Waiting
    BY <1>1, <1>3, Facts DEF Waiting
  <2> QED BY <1>1, <2>1 DEF Owners
<1>8. Listed' /\ \A id : IsListed(id)' = IsListed(id)
  BY <1>1, <1>4, ListedFrame
<1>9. WithGuest' /\ \A id : GuestHas(id)' = GuestHas(id)
  BY <1>1, <1>4, WithGuestFrame
<1>10. Hands'
  BY <1>1, <1>3, Facts DEF Hands, StateAt
<1>11. Values'
  BY <1>1, <1>3, Facts DEF Values, OwnAnswer
<1>12. Answered' /\ Somewhere'
  <2>1. CASE UNCHANGED box /\ dropped'
    <3>1. Answered'
      BY <1>1, <1>4, <2>1, QuietBox, AnsweredFrame
    <3> QED BY <2>1, <3>1 DEF Somewhere
  <2>2. CASE ~(UNCHANGED box /\ dropped')
    <3>1. /\ Len(box[c]) \in Nat
          /\ Len(box'[c]) = Len(box[c]) + 1
          /\ \A k \in 1 .. Len(box[c]) : box'[c][k] = box[c][k]
          /\ box'[c][Len(box[c]) + 1] = m
          /\ \A e \in Front : e # c => box'[e] = box[e]
      BY <2>2, Sent, Facts
    <3>2. /\ Completions(c)' = Completions(c) \cup {Len(box[c]) + 1}
          /\ \A e \in Front : e # c => Completions(e)' = Completions(e)
      <4>1. 1 .. Len(box'[c]) = (1 .. Len(box[c])) \cup {Len(box[c]) + 1}
        BY <3>1
      <4> QED BY <3>1, <4>1 DEF Completions
    <3>3. /\ \A e \in Front : \A k \in Completions(e) :
                k \in Completions(e)' /\ box'[e][k] = box[e][k]
          /\ \A e \in Front : \A k \in Completions(e)' :
                k \in Completions(e) \/ (e = c /\ k = Len(box[c]) + 1)
      BY <3>1, <3>2 DEF Completions
    <3>4. \A e \in Front : \A k \in Completions(e) : box[e][k].request_id # r
      BY <1>1 DEF Answered
    <3>5. Answered'
      <4> SUFFICES ASSUME NEW e \in Front, NEW k \in Completions(e)'
                   PROVE  /\ box'[e][k].request_id \in pool
                          /\ request[box'[e][k].request_id].state = "COMPLETE"
                          /\ request[box'[e][k].request_id].bind_key = box'[e][k].bind_key
                          /\ request[box'[e][k].request_id].op = box'[e][k].event
                          /\ request[box'[e][k].request_id].cpu_id = e
                          /\ \A a \in CPU : cur'[a] # box'[e][k].request_id
                          /\ \A l \in Completions(e)' :
                                box'[e][l].request_id = box'[e][k].request_id => l = k
        BY <1>1 DEF Answered, Idle
      <4>1. CASE k \in Completions(e)
        <5>1. box'[e][k] = box[e][k] /\ box[e][k].request_id # r
          BY <3>3, <3>4, <4>1
        <5>2. \A a \in CPU : cur'[a] # box[e][k].request_id
          BY <1>4, <4>1 DEF Answered, Idle
        <5>3. \A l \in Completions(e)' :
                  box'[e][l].request_id = box'[e][k].request_id => l \in Completions(e)
          BY <3>1, <3>3, <5>1
        <5>4. \A l \in Completions(e)' :
                  box'[e][l].request_id = box'[e][k].request_id => l = k
          BY <3>3, <4>1, <5>1, <5>3 DEF Answered
        <5> QED BY <4>1, <5>1, <5>2, <5>4 DEF Answered
      <4>2. CASE e = c /\ k = Len(box[c]) + 1
        <5>1. box'[e][k] = m
          BY <3>1, <4>2
        <5>2. \A l \in Completions(e)' : l = k \/ box'[e][l].request_id # r
          BY <3>3, <3>4, <4>2
        <5>3. \A a \in CPU : cur'[a] # r
          BY <1>4 DEF Idle
        <5> QED BY <1>1, <4>2, <5>1, <5>2, <5>3
      <4> QED BY <3>3, <4>1, <4>2
    <3>6. \A id : IsAnswered(id) => IsAnswered(id)'
      BY <3>3 DEF IsAnswered
    <3>7. IsAnswered(r)'
      <4>1. Len(box[c]) + 1 \in Completions(c)'
        BY <3>2
      <4> QED BY <3>1, <4>1 DEF IsAnswered
    <3>8. Somewhere'
      BY <1>1, <1>4, <1>5, <1>8, <1>9, <3>6, <3>7 DEF Somewhere
    <3> QED BY <3>5, <3>8
  <2> QED BY <2>1, <2>2
<1> QED
  BY <1>6, <1>7, <1>8, <1>9, <1>10, <1>11, <1>12

(* The pool has a slot for every vCPU of the frontend: whoever makes a      *)
(* request waits, so one slot at least is free for a vCPU that runs.        *)
LEMMA SlotFree ==
    ASSUME IInv, NEW c \in Front, pc[c] = "guest"
    PROVE  Id \ pool # {}
<1> SUFFICES ASSUME Id \subseteq pool PROVE FALSE
  OBVIOUS
<1> DEFINE T == Front \ {c}
           f == [id \in Id |-> request[id].cpu_id]
<1>1. \A id \in Id : request[id].cpu_id \in T
  BY DEF IInv, Owners, Waiting
<1>2. f \in [Id -> T]
  BY <1>1
<1>3. \A x, y \in Id : f[x] = f[y] => x = y
  BY DEF IInv, Owners
<1>4. IsFiniteSet(Id) /\ Cardinality(Id) = POOL
  BY PoolSize
<1>5. /\ IsFiniteSet(T) /\ Cardinality(T) = Cardinality(Front) - 1
      /\ Cardinality(Front) \in Nat
  BY RemIOAssumption, FS_RemoveElement, FS_CardinalityType
<1>6. Cardinality(T) < Cardinality(Id)
  BY <1>4, <1>5, RemIOAssumption
<1> HIDE DEF f, T
<1> QED BY <1>2, <1>3, <1>4, <1>5, <1>6, FS_PigeonHole

(* remio_mmio_emul_handler: a request for the access.                       *)
LEMMA CreateKeeps ==
    ASSUME IInv, NEW c \in Front, NEW d \in Dev, NEW op \in Op, remio_create_request(c, d, op)
    PROVE  IInv'
<1> USE DEF IInv
<1> DEFINE addr == <<c, accesses + 1>>
           q == [bind_key |-> d, addr |-> addr, op |-> op, state |-> "PENDING", cpu_id |-> c,
                 value |-> IF op = "write" THEN reg[c] ELSE None]
           goal == IF op = "read" THEN addr ELSE reg[c]
<1>1. /\ c \in CPU /\ c \notin Back /\ pc[c] = "guest" /\ cur[c] = None
      /\ Id \ pool # {}
      /\ accesses < MAX_ACCESS /\ accesses' = accesses + 1
      /\ want' = [want EXCEPT ![c] = goal]
      /\ dev' = [dev EXCEPT ![c] = d]
      /\ UNCHANGED <<pending, box, reg, irq, held, dropped>>
  BY Facts, SlotFree DEF remio_create_request, Hands
<1> PICK r \in Id \ pool :
        /\ pool' = pool \cup {r}
        /\ cur' = [cur EXCEPT ![c] = r]
        /\ request' = [request EXCEPT ![r] = q]
        /\ pc' = [pc EXCEPT ![c] = "push"]
  <2>1. Lowest(Id \ pool) \in Id \ pool
    BY <1>1, Facts, LowestFound
  <2> QED BY <1>1, <2>1 DEF remio_create_request, Goto
<1>2. /\ addr \in Value
      /\ reg[c] \in Value /\ None \in Value /\ goal \in Value
      /\ accesses' \in 0 .. MAX_ACCESS
  BY <1>1, RemIOAssumption DEF TypeOK, Value
<1>3. /\ q \in Request
      /\ q.state = "PENDING" /\ q.bind_key = d /\ q.cpu_id = c /\ q.op = op /\ q.addr = addr
  BY <1>2 DEF Request, Op
<1>4. goal = IF q.op = "read" THEN q.addr ELSE reg[c]
  BY <1>3
<1> HIDE DEF q, addr, goal
<1>5. /\ \A id \in Id : request'[id] = IF id = r THEN q ELSE request[id]
      /\ \A e \in CPU : pc'[e] = IF e = c THEN "push" ELSE pc[e]
      /\ \A e \in CPU : dev'[e] = IF e = c THEN d ELSE dev[e]
      /\ \A e \in CPU : cur'[e] = IF e = c THEN r ELSE cur[e]
      /\ \A e \in Front : want'[e] = IF e = c THEN goal ELSE want[e]
  BY <1>1 DEF TypeOK
<1>6. /\ \A e \in CPU : cur[e] # r
      /\ r # None
      /\ \A id \in pool : id # r /\ request'[id] = request[id]
      /\ \A id \in pool : Idle(id)' = Idle(id)
      /\ \E e \in CPU : cur'[e] = r
  <2>1. \A e \in CPU : cur[e] # r
    BY Facts DEF Hands
  <2>2. \A id \in pool : id # r /\ request'[id] = request[id] /\ id # None
    BY <1>5, Facts
  <2>3. \A id \in pool : Idle(id)' = Idle(id)
    BY <1>1, <1>5, <2>2 DEF Idle
  <2> QED BY <1>1, <1>5, <2>1, <2>2, <2>3, Facts
<1>7. TypeOK'
  BY <1>1, <1>2, <1>3 DEF TypeOK
<1>8. Owners'
  <2>1. Waiting' = Waiting \cup {c}
    BY <1>1, <1>5, Facts DEF Waiting
  <2>2. \A id \in pool : request[id].cpu_id # c
    BY <1>1 DEF Owners, Waiting
  <2>3. request'[r] = q
    BY <1>5
  <2> QED BY <1>3, <1>6, <2>1, <2>2, <2>3 DEF Owners
<1>9. Listed' /\ \A id : IsListed(id)' = IsListed(id)
  BY <1>1, <1>6, ListedFrame
<1>10. WithGuest' /\ \A id : GuestHas(id)' = GuestHas(id)
  BY <1>1, <1>6, WithGuestFrame
<1>11. Answered' /\ \A id : IsAnswered(id)' = IsAnswered(id)
  BY <1>1, <1>6, QuietBox, AnsweredFrame
<1>12. Hands'
  <2> USE <1>1, <1>3, <1>5, <1>6, Facts
  <2>1. \A e \in Front :
           /\ pc'[e] \in {"guest", "push", "notify", "standby"}
           /\ pc'[e] \in {"push", "notify"} => dev'[e] \in Dev
           /\ cur'[e] # None <=> pc'[e] = "push"
           /\ pc'[e] = "push" => request'[cur'[e]].cpu_id = e
    BY DEF Hands
  <2>2. \A b \in Back :
           /\ pc'[b] \in {"guest", "ask", "asked", "rw", "complete"}
           /\ pc'[b] # "guest" => dev'[b] \in Dev
           /\ cur'[b] # None <=> pc'[b] \in {"asked", "rw", "complete"}
    BY DEF Hands
  <2>3. \A e \in CPU :
           cur'[e] # None =>
               /\ cur'[e] \in pool'
               /\ request'[cur'[e]].state = StateAt(pc'[e])
               /\ request'[cur'[e]].bind_key = dev'[e]
               /\ \A a \in CPU : cur'[a] = cur'[e] => a = e
    BY DEF Hands, StateAt
  <2> QED BY <2>1, <2>2, <2>3 DEF Hands
<1>13. Somewhere'
  <2>1. ~Idle(r)'
    BY <1>6 DEF Idle
  <2> QED BY <1>1, <1>6, <1>9, <1>10, <1>11, <2>1 DEF Somewhere
<1>14. Values'
  <2>1. OwnAnswer'
    BY <1>1, <1>5, Facts DEF Values, OwnAnswer
  <2>2. \A id \in pool : /\ request'[id] = request[id]
                         /\ request[id].cpu_id \in Front /\ request[id].cpu_id # c
    BY <1>1, <1>6 DEF Owners, Waiting
  <2>3. \A id \in pool :
           /\ request'[id].state = "COMPLETE" => request'[id].value = request'[id].addr
           /\ want'[request'[id].cpu_id] =
                  IF request'[id].op = "read" THEN request'[id].addr ELSE reg[request'[id].cpu_id]
    BY <1>5, <2>2 DEF Values
  <2>4. /\ request'[r].state = "PENDING"
        /\ want'[request'[r].cpu_id] =
              IF request'[r].op = "read" THEN request'[r].addr ELSE reg[request'[r].cpu_id]
    BY <1>3, <1>4, <1>5
  <2> QED BY <1>1, <2>1, <2>3, <2>4 DEF Values
<1> QED
  BY <1>7, <1>8, <1>9, <1>10, <1>11, <1>12, <1>13, <1>14

(* The queue of a frontend CPU loses its first message: what that means     *)
(* for the completions in it.                                               *)
LEMMA HeadTaken ==
    ASSUME TypeOK, NEW c \in Front, box[c] # <<>>, box' = [box EXCEPT ![c] = Tail(@)]
    PROVE  /\ box' \in [CPU -> Seq(Msg)]
           /\ \A e \in CPU : Len(box'[e]) <= Capacity
           /\ Head(box[c]) = box[c][1] /\ box[c][1] \in Msg
           /\ box[c][1].event \in Op <=> 1 \in Completions(c)
           /\ \A e \in Front : \A k \in Completions(e)' :
                 \E l \in Completions(e) : /\ l = IF e = c THEN k + 1 ELSE k
                                           /\ box'[e][k] = box[e][l]
                                           /\ e = c => l # 1
           /\ \A e \in Front : \A l \in Completions(e) :
                 (e = c => l # 1) => \E k \in Completions(e)' : box'[e][k] = box[e][l]
<1>1. c \in CPU /\ box[c] \in Seq(Msg)
  BY Facts
<1>2. /\ Tail(box[c]) \in Seq(Msg)
      /\ Len(box[c]) \in Nat /\ Len(box[c]) >= 1
      /\ Len(Tail(box[c])) = Len(box[c]) - 1
      /\ \A k \in 1 .. Len(Tail(box[c])) :
             k + 1 \in 1 .. Len(box[c]) /\ Tail(box[c])[k] = box[c][k + 1]
      /\ Head(box[c]) = box[c][1]
      /\ box[c][1] \in Msg
  BY <1>1, Shifted
<1>3. \A e \in CPU : box'[e] = IF e = c THEN Tail(box[c]) ELSE box[e]
  BY <1>1 DEF TypeOK
<1>4. box' \in [CPU -> Seq(Msg)]
  BY <1>1, <1>2 DEF TypeOK
<1>5. \A e \in CPU : Len(box'[e]) <= Capacity
  <2>1. Len(box[c]) <= Capacity /\ \A e \in CPU : Len(box[e]) <= Capacity
    BY <1>1 DEF TypeOK
  <2>2. Len(Tail(box[c])) <= Capacity
    BY <1>2, <2>1, RemIOAssumption
  <2> QED BY <1>3, <2>1, <2>2
<1>6. box[c][1].event \in Op <=> 1 \in Completions(c)
  BY <1>2 DEF Completions
<1>7. ASSUME NEW e \in Front, NEW k \in Completions(e)'
      PROVE  \E l \in Completions(e) : /\ l = IF e = c THEN k + 1 ELSE k
                                       /\ box'[e][k] = box[e][l]
                                       /\ e = c => l # 1
  <2>1. k \in 1 .. Len(box'[e]) /\ box'[e][k].event \in Op
    BY DEF Completions
  <2>2. CASE e = c
    <3>1. box'[e] = Tail(box[c])
      BY <1>1, <1>3, <2>2
    <3>4. k \in 1 .. Len(Tail(box[c]))
      BY <2>1, <3>1
    <3>2. /\ k + 1 \in 1 .. Len(box[c]) /\ k + 1 # 1
          /\ box'[e][k] = box[c][k + 1]
      <4>1. k + 1 \in 1 .. Len(box[c]) /\ Tail(box[c])[k] = box[c][k + 1]
        BY <1>2, <3>4
      <4>2. k + 1 # 1
        BY <3>4
      <4> QED BY <3>1, <4>1, <4>2
    <3>3. k + 1 \in Completions(c)
      BY <2>1, <3>2 DEF Completions
    <3> QED BY <2>2, <3>2, <3>3
  <2>3. CASE e # c
    BY <1>3, <2>1, <2>3, Facts DEF Completions
  <2> QED BY <2>2, <2>3
<1>8. ASSUME NEW e \in Front, NEW l \in Completions(e), e = c => l # 1
      PROVE  \E k \in Completions(e)' : box'[e][k] = box[e][l]
  <2>1. l \in 1 .. Len(box[e]) /\ box[e][l].event \in Op
    BY DEF Completions
  <2>2. CASE e = c
    <3>1. box'[e] = Tail(box[c])
      BY <1>1, <1>3, <2>2
    <3>2. l - 1 \in 1 .. Len(Tail(box[c]))
      BY <1>2, <1>8, <2>1, <2>2
    <3>3. box'[e][l - 1] = box[c][(l - 1) + 1] /\ (l - 1) + 1 = l
      <4>1. Tail(box[c])[l - 1] = box[c][(l - 1) + 1]
        BY <1>2, <3>2
      <4>2. (l - 1) + 1 = l
        BY <2>1
      <4> QED BY <3>1, <4>1, <4>2
    <3>4. l - 1 \in Completions(e)'
      BY <2>1, <2>2, <3>1, <3>2, <3>3 DEF Completions
    <3> QED BY <2>2, <3>3, <3>4
  <2>3. CASE e # c
    BY <1>3, <2>1, <2>3, Facts DEF Completions
  <2> QED BY <2>2, <2>3
<1> QED BY <1>2, <1>4, <1>5, <1>6, <1>7, <1>8

(* remio_cpu_msg_handler in a frontend CPU: a completion always fits the    *)
(* device and the request, and is for the vCPU that waits here.             *)
LEMMA FrontMsgKeeps ==
    ASSUME IInv, NEW c \in Front, FrontMsg(c)
    PROVE  IInv'
<1> USE DEF IInv
<1>1. /\ c \in CPU /\ c \notin Back /\ pc[c] \in {"guest", "standby"} /\ cur[c] = None
      /\ box[c] # <<>>
      /\ box' = [box EXCEPT ![c] = Tail(@)]
      /\ UNCHANGED <<pending, dev, cur, irq, held, accesses, want, dropped>>
  BY Facts DEF FrontMsg, Hands, history
<1>2. /\ box' \in [CPU -> Seq(Msg)]
      /\ \A e \in CPU : Len(box'[e]) <= Capacity
      /\ Head(box[c]) = box[c][1] /\ box[c][1] \in Msg
      /\ box[c][1].event \in Op <=> 1 \in Completions(c)
      /\ \A e \in Front : \A k \in Completions(e)' :
            \E l \in Completions(e) : /\ l = IF e = c THEN k + 1 ELSE k
                                      /\ box'[e][k] = box[e][l]
                                      /\ e = c => l # 1
      /\ \A e \in Front : \A l \in Completions(e) :
            (e = c => l # 1) => \E k \in Completions(e)' : box'[e][k] = box[e][l]
  BY <1>1, HeadTaken
<1>3. /\ \A id : Idle(id)' = Idle(id)
      /\ UNCHANGED cur
  BY <1>1 DEF Idle
<1>4. CASE box[c][1].event = "NOTIFY"
  <2>1. 1 \notin Completions(c)
    BY <1>2, <1>4 DEF Op
  <2>2. UNCHANGED <<pool, request, reg, pc>>
    BY <1>2, <1>4 DEF FrontMsg
  <2>3. Answered'
    <3> SUFFICES ASSUME NEW e \in Front, NEW k \in Completions(e)'
                 PROVE  /\ box'[e][k].request_id \in pool
                        /\ request[box'[e][k].request_id].state = "COMPLETE"
                        /\ request[box'[e][k].request_id].bind_key = box'[e][k].bind_key
                        /\ request[box'[e][k].request_id].op = box'[e][k].event
                        /\ request[box'[e][k].request_id].cpu_id = e
                        /\ \A a \in CPU : cur[a] # box'[e][k].request_id
                        /\ \A l \in Completions(e)' :
                              box'[e][l].request_id = box'[e][k].request_id => l = k
      BY <1>3, <2>2 DEF Answered, Idle
    <3>1. PICK n \in Completions(e) : /\ n = IF e = c THEN k + 1 ELSE k
                                      /\ box'[e][k] = box[e][n]
      BY <1>2
    <3>2. ASSUME NEW l \in Completions(e)', box'[e][l].request_id = box'[e][k].request_id
          PROVE  l = k
      <4>1. PICK j \in Completions(e) : /\ j = IF e = c THEN l + 1 ELSE l
                                        /\ box'[e][l] = box[e][j]
        BY <1>2
      <4>2. j = n
        BY <3>1, <3>2, <4>1 DEF Answered
      <4>3. l \in Nat /\ k \in Nat
        BY DEF Completions
      <4> QED BY <3>1, <4>1, <4>2, <4>3
    <3> QED BY <3>1, <3>2 DEF Answered, Idle
  <2>4. \A id : IsAnswered(id) => IsAnswered(id)'
    BY <1>2, <2>1 DEF IsAnswered
  <2>5. TypeOK'
    BY <1>1, <1>2, <2>2 DEF TypeOK
  <2>6. Owners' /\ Hands' /\ Values'
    <3>1. Waiting' = Waiting
      BY <2>2 DEF Waiting
    <3> QED BY <1>1, <2>2, <3>1 DEF Owners, Hands, Values, OwnAnswer
  <2>7. Listed' /\ \A id : IsListed(id)' = IsListed(id)
    BY <1>1, <1>3, <2>2, ListedFrame
  <2>8. WithGuest' /\ \A id : GuestHas(id)' = GuestHas(id)
    BY <1>1, <1>3, <2>2, WithGuestFrame
  <2>9. Somewhere'
    BY <1>1, <1>3, <2>2, <2>4, <2>7, <2>8 DEF Somewhere
  <2> QED
    BY <2>3, <2>5, <2>6, <2>7, <2>8, <2>9
<1>5. CASE box[c][1].event # "NOTIFY"
  <2>1. box[c][1].event \in Op
    BY <1>2, <1>5 DEF Msg
  <2>2. 1 \in Completions(c)
    BY <1>2, <2>1
  <2> PICK r \in pool : r = box[c][1].request_id
    BY <2>2 DEF Answered
  <2>3. /\ r \in Id
        /\ request[r].state = "COMPLETE"
        /\ request[r].bind_key = box[c][1].bind_key
        /\ request[r].op = box[c][1].event
        /\ request[r].cpu_id = c
        /\ Idle(r)
        /\ \A l \in Completions(c) : box[c][l].request_id = r => l = 1
    BY <2>2, Facts DEF Answered
  <2>4. request[r].bind_key \in Dev /\ c \in Waiting
    BY <2>3 DEF Owners
  <2>5. pc[c] = "standby"
    BY <1>1, <2>4 DEF Waiting
  <2>6. /\ pool' = pool \ {r}
        /\ request' = [request EXCEPT ![r].state = "FREE"]
        /\ reg' = IF request[r].op = "read" THEN [reg EXCEPT ![c] = request[r].value] ELSE reg
        /\ pc' = [pc EXCEPT ![c] = "guest"]
    BY <1>2, <1>5, <2>3, <2>4 DEF FrontMsg, remio_cpu_post_work, Found, Goto
  <2>7. /\ request' \in [Id -> Request]
        /\ \A id \in Id : id # r => request'[id] = request[id]
    BY <2>3, <2>6, StateSet
  <2>8. /\ \A e \in CPU : pc'[e] = IF e = c THEN "guest" ELSE pc[e]
        /\ reg' \in [Front -> Value]
        /\ \A e \in Front : e # c => reg'[e] = reg[e]
        /\ reg'[c] = IF request[r].op = "read" THEN request[r].value ELSE reg[c]
    <3>1. request[r].value \in Value
      BY <2>3 DEF TypeOK, Request
    <3>2. reg \in [Front -> Value] /\ \A e \in CPU : pc'[e] = IF e = c THEN "guest" ELSE pc[e]
      BY <2>6 DEF TypeOK
    <3>3. CASE request[r].op = "read"
      BY <2>6, <3>1, <3>2, <3>3
    <3>4. CASE request[r].op # "read"
      BY <2>6, <3>2, <3>4
    <3> QED BY <3>2, <3>3, <3>4
  <2>9. TypeOK'
    BY <1>1, <1>2, <2>6, <2>7, <2>8 DEF TypeOK
  <2>10. Owners'
    <3>1. Waiting' = Waiting \ {c}
      BY <1>1, <2>8, Facts DEF Waiting
    <3>2. \A id \in pool' : id \in pool /\ id # r /\ request'[id] = request[id] /\ request[id].cpu_id # c
      BY <2>3, <2>6, <2>7, Facts DEF Owners
    <3>3. \A e \in Waiting' : \E id \in pool' : request'[id].cpu_id = e
      BY <2>3, <2>6, <2>7, <3>1, Facts DEF Owners
    <3> QED BY <3>1, <3>2, <3>3 DEF Owners
  <2>11. Listed' /\ \A id : IsListed(id)' = IsListed(id)
    BY <1>1, <1>3, <2>3, <2>6, <2>7, Facts, ListedFrame
  <2>12. WithGuest' /\ \A id : GuestHas(id)' = GuestHas(id)
    BY <1>1, <1>3, <2>3, <2>6, <2>7, Facts, WithGuestFrame
  <2>13. \A e \in Front : \A l \in Completions(e) :
             (e = c => l # 1) => box[e][l].request_id # r
    BY <2>3 DEF Answered
  <2>14. Answered'
    <3> SUFFICES ASSUME NEW e \in Front, NEW k \in Completions(e)'
                 PROVE  /\ box'[e][k].request_id \in pool'
                        /\ request'[box'[e][k].request_id].state = "COMPLETE"
                        /\ request'[box'[e][k].request_id].bind_key = box'[e][k].bind_key
                        /\ request'[box'[e][k].request_id].op = box'[e][k].event
                        /\ request'[box'[e][k].request_id].cpu_id = e
                        /\ \A a \in CPU : cur[a] # box'[e][k].request_id
                        /\ \A l \in Completions(e)' :
                              box'[e][l].request_id = box'[e][k].request_id => l = k
      BY <1>3 DEF Answered, Idle
    <3>1. PICK n \in Completions(e) : /\ n = IF e = c THEN k + 1 ELSE k
                                      /\ box'[e][k] = box[e][n]
                                      /\ e = c => n # 1
      BY <1>2
    <3>2. box[e][n].request_id \in pool /\ box[e][n].request_id # r
      BY <2>13, <3>1 DEF Answered
    <3>3. request'[box'[e][k].request_id] = request[box[e][n].request_id]
      BY <2>7, <3>1, <3>2, Facts
    <3>4. \A a \in CPU : cur[a] # box'[e][k].request_id
      BY <3>1 DEF Answered, Idle
    <3>5. ASSUME NEW l \in Completions(e)', box'[e][l].request_id = box'[e][k].request_id
          PROVE  l = k
      <4>1. PICK j \in Completions(e) : /\ j = IF e = c THEN l + 1 ELSE l
                                        /\ box'[e][l] = box[e][j]
        BY <1>2
      <4>2. j = n
        BY <3>1, <3>5, <4>1 DEF Answered
      <4>3. l \in Nat /\ k \in Nat
        BY DEF Completions
      <4> QED BY <3>1, <4>1, <4>2, <4>3
    <3> QED BY <2>6, <3>1, <3>2, <3>3, <3>4, <3>5 DEF Answered
  <2>15. Hands'
    <3>1. \A e \in CPU : cur[e] # None => cur[e] # r /\ cur[e] \in Id
      BY <2>3, Facts DEF Idle
    <3>2. \A e \in CPU : cur[e] # None => request'[cur[e]] = request[cur[e]] /\ e # c
      BY <1>1, <2>7, <3>1
    <3>3. \A e \in CPU : cur'[e] = cur[e] /\ dev'[e] = dev[e] /\ (e # c => pc'[e] = pc[e])
      BY <1>1, <2>8
    <3>4. pc'[c] = "guest" /\ cur[c] = None
      BY <1>1, <2>8
    <3>5. \A e \in CPU : cur'[e] # None =>
              /\ cur'[e] \in pool'
              /\ request'[cur'[e]].state = StateAt(pc'[e])
              /\ request'[cur'[e]].bind_key = dev'[e]
              /\ \A a \in CPU : cur'[a] = cur'[e] => a = e
      BY <2>6, <3>1, <3>2, <3>3 DEF Hands
    <3>6. \A e \in Front :
              /\ pc'[e] \in {"guest", "push", "notify", "standby"}
              /\ pc'[e] \in {"push", "notify"} => dev'[e] \in Dev
              /\ cur'[e] # None <=> pc'[e] = "push"
              /\ pc'[e] = "push" => request'[cur'[e]].cpu_id = e
      BY <3>2, <3>3, <3>4 DEF Hands, CPU
    <3>7. \A b \in Back : pc'[b] = pc[b]
      BY <1>1, <3>3, RemIOAssumption DEF CPU
    <3> QED BY <3>3, <3>5, <3>6, <3>7 DEF Hands, CPU
  <2>16. Somewhere'
    <3>1. \A id \in pool' : id \in pool /\ id # r
      BY <2>6
    <3>2. \A id : id # r /\ IsAnswered(id) => IsAnswered(id)'
      BY <1>2, <2>3 DEF IsAnswered
    <3> QED BY <1>1, <1>3, <2>11, <2>12, <3>1, <3>2 DEF Somewhere
  <2>17. Values'
    <3>1. reg'[c] = want[c]
      BY <2>3, <2>8 DEF Values
    <3>2. OwnAnswer'
      BY <1>1, <2>8, <3>1, Facts DEF Values, OwnAnswer
    <3>3. \A id \in pool' : /\ id \in pool /\ request'[id] = request[id]
                            /\ request[id].cpu_id \in Front /\ request[id].cpu_id # c
      BY <2>3, <2>6, <2>7, Facts DEF Owners, Waiting
    <3>4. \A id \in pool' :
             /\ request'[id].state = "COMPLETE" => request'[id].value = request'[id].addr
             /\ want[request'[id].cpu_id] =
                    IF request'[id].op = "read" THEN request'[id].addr ELSE reg'[request'[id].cpu_id]
      BY <2>8, <3>3 DEF Values
    <3> QED BY <1>1, <3>2, <3>4 DEF Values
  <2> QED
    BY <2>9, <2>10, <2>11, <2>12, <2>14, <2>15, <2>16, <2>17
<1> QED BY <1>4, <1>5

----------------------------------------------------------------------------
(* Every step keeps the invariant.                                          *)
LEMMA Initially == Init => IInv
<1> SUFFICES ASSUME Init PROVE IInv
  OBVIOUS
<1>1. TypeOK
  <2>1. [bind_key |-> None, addr |-> None, op |-> "write", value |-> None, cpu_id |-> None,
         state |-> "FREE"] \in Request
    BY DEF Request, Value, Op
  <2>2. 0 <= Capacity /\ 0 \in 0 .. MAX_ACCESS
    BY RemIOAssumption
  <2>3. /\ pool \subseteq Id
        /\ request \in [Id -> Request]
        /\ pending \in [Dev -> Seq(Id)]
        /\ box \in [CPU -> Seq(Msg)]
        /\ \A c \in CPU : Len(box[c]) <= Capacity
    BY <2>1, <2>2 DEF Init
  <2>4. /\ pc \in [CPU -> {"guest", "push", "notify", "standby", "ask", "asked", "rw",
                           "complete", "error"}]
        /\ dev \in [CPU -> Dev \cup {None}]
        /\ cur \in [CPU -> Id \cup {None}]
        /\ reg \in [Front -> Value]
    BY DEF Init, Value
  <2>5. /\ irq \in [Dev -> BOOLEAN]
        /\ held \in [Dev -> SUBSET Id]
        /\ accesses \in 0 .. MAX_ACCESS
        /\ want \in [Front -> Value]
        /\ dropped \in BOOLEAN
    BY <2>2 DEF Init, Value
  <2> QED BY <2>3, <2>4, <2>5 DEF TypeOK
<1>2. Owners /\ WithGuest /\ Somewhere
  BY DEF Init, Owners, Waiting, WithGuest, Somewhere, CPU
<1>3. Listed /\ Answered
  <2>1. \A d \in Dev : 1 .. Len(pending[d]) = {}
    BY DEF Init
  <2>2. \A c \in Front : Completions(c) = {}
    BY DEF Init, Completions, CPU
  <2> QED BY <2>1, <2>2 DEF Listed, Answered
<1>4. Hands
  BY Facts DEF Init, Hands, CPU
<1>5. Values
  BY DEF Init, Values, OwnAnswer
<1> QED BY <1>1, <1>2, <1>3, <1>4, <1>5 DEF IInv

LEMMA StepKeeps == IInv /\ [Next]_vars => IInv'
<1> SUFFICES ASSUME IInv, [Next]_vars PROVE IInv'
  OBVIOUS
<1>1. CASE UNCHANGED vars
  <2>1. UNCHANGED <<pool, request, pending, box, pc, dev, cur, reg, irq, held, accesses, want,
                    dropped>>
    BY <1>1 DEF vars, local, history
  <2>2. Waiting' = Waiting /\ \A id : Idle(id)' = Idle(id)
    BY <2>1 DEF Waiting, Idle
  <2>3. Owners' /\ Hands' /\ Values'
    BY <2>1, <2>2 DEF IInv, Owners, Hands, Values, OwnAnswer
  <2>4. Listed' /\ \A id : IsListed(id)' = IsListed(id)
    BY <2>1, <2>2, ListedFrame DEF IInv
  <2>5. WithGuest' /\ \A id : GuestHas(id)' = GuestHas(id)
    BY <2>1, <2>2, WithGuestFrame DEF IInv
  <2>6. Answered' /\ \A id : IsAnswered(id)' = IsAnswered(id)
    BY <2>1, <2>2, QuietBox, AnsweredFrame DEF IInv
  <2>7. TypeOK' /\ Somewhere'
    BY <2>1, <2>2, <2>4, <2>5, <2>6 DEF IInv, TypeOK, Somewhere
  <2> QED BY <2>3, <2>4, <2>5, <2>6, <2>7 DEF IInv
<1>2. ASSUME NEW c \in Front, FrontStep(c) PROVE IInv'
  BY <1>2, PushKeeps, PauseKeeps, FrontMsgKeeps DEF FrontStep
<1>3. ASSUME NEW c \in Front, NEW d \in Dev, NEW op \in Op, remio_create_request(c, d, op)
      PROVE  IInv'
  BY <1>3, CreateKeeps
<1>4. ASSUME NEW b \in Back, BackStep(b) PROVE IInv'
  BY <1>4, BackIrqKeeps, AskKeeps, AskReturnsKeeps, CompleteKeeps, SendCompletionKeeps, StartRwKeeps
     DEF BackStep
<1>5. ASSUME NEW b \in Back, NotifyFront(b) PROVE IInv'
  BY <1>5, NotifyFrontKeeps
<1> QED
  BY <1>1, <1>2, <1>3, <1>4, <1>5 DEF Next

(* The invariant of the Remote I/O protocol.                                *)
THEOREM ProtocolInvariant == Spec => []IInv
<1> QED BY Initially, StepKeeps, PTL DEF Spec

(* A vCPU whose access completed has the answer to that access, for any     *)
(* number of vCPUs, devices and accesses, and with messages lost            *)
(* (remio_cpu_post_work).                                                   *)
THEOREM AnswersAreOwn == Spec => []OwnAnswer
<1>1. IInv => OwnAnswer
  BY DEF IInv, Values
<1> QED BY <1>1, ProtocolInvariant, PTL

(* No access fails for want of a slot and no completion is refused          *)
(* (remio_create_request, remio_cpu_msg_handler).                           *)
THEOREM NothingFails == Spec => [](TypeOK /\ NoFailure)
<1>1. IInv => TypeOK /\ NoFailure
  <2> SUFFICES ASSUME IInv, NEW c \in CPU PROVE pc[c] # "error"
    BY DEF IInv, NoFailure
  <2> QED BY Facts DEF IInv, Hands
<1> QED BY <1>1, ProtocolInvariant, PTL

----------------------------------------------------------------------------
(* Counting the places of a request.                                        *)
LEMMA Sole ==
    ASSUME NEW S, \A x, y \in S : x = y
    PROVE  Cardinality(S) = IF S = {} THEN 0 ELSE 1
<1>1. CASE S = {}
  BY <1>1, FS_EmptySet
<1>2. CASE S # {}
  <2>1. PICK x \in S : S = {x}
    BY <1>2
  <2> QED BY <1>2, <2>1, FS_Singleton
<1> QED BY <1>1, <1>2

(* No list is longer than the pool.                                         *)
LEMMA ListFits ==
    ASSUME IInv, NEW d \in Dev
    PROVE  Len(pending[d]) <= POOL
<1> DEFINE n == Len(pending[d])
           f == [k \in 1 .. n |-> pending[d][k]]
<1>1. n \in Nat
  BY Facts DEF IInv
<1>2. f \in [1 .. n -> Id]
  BY Facts DEF IInv, Listed
<1>3. \A k, l \in 1 .. n : f[k] = f[l] => k = l
  BY DEF IInv, Listed
<1>4. IsFiniteSet(Id) /\ Cardinality(Id) = POOL
  BY PoolSize
<1> HIDE DEF f, n
<1>5. IsFiniteSet(1 .. n) /\ Cardinality(1 .. n) = n
  <2>1. 1 \in Int /\ n \in Int
    BY <1>1
  <2>2. /\ IsFiniteSet(1 .. n)
        /\ Cardinality(1 .. n) = IF 1 > n THEN 0 ELSE n - 1 + 1
    BY <2>1, FS_Interval
  <2> QED BY <1>1, <2>2
<1>6. ASSUME Cardinality(Id) < Cardinality(1 .. n) PROVE FALSE
  <2>1. \E k, l \in 1 .. n : k # l /\ f[k] = f[l]
    BY <1>2, <1>4, <1>5, <1>6, FS_PigeonHole
  <2> QED BY <1>3, <2>1
<1> QED BY <1>1, <1>4, <1>5, <1>6, RemIOAssumption DEF n

(* The places of the property are those of the invariant, each at most once. *)
LEMMA Places ==
    ASSUME IInv, NEW id \in Id
    PROVE  /\ InList(id) # {} <=> IsListed(id)
           /\ InMsgs(id) # {} <=> IsAnswered(id)
           /\ InHands(id) # {} <=> ~Idle(id)
           /\ InGuest(id) # {} <=> GuestHas(id)
           /\ \A x, y \in InList(id) : x = y
           /\ \A x, y \in InMsgs(id) : x = y
           /\ \A x, y \in InHands(id) : x = y
           /\ \A x, y \in InGuest(id) : x = y
           /\ \A x \in InMsgs(id) : x[1] = request[id].cpu_id
<1> USE DEF IInv
<1>1. \A d \in Dev : \A k \in 1 .. Len(pending[d]) : k \in 1 .. POOL
  <2> TAKE d \in Dev
  <2> TAKE k \in 1 .. Len(pending[d])
  <2>1. Len(pending[d]) \in Nat /\ Len(pending[d]) <= POOL
    BY Facts, ListFits
  <2> QED BY <2>1, RemIOAssumption
<1>2. \A c \in Front : \A k \in 1 .. Len(box[c]) : k \in 1 .. Capacity
  <2> TAKE c \in Front
  <2> TAKE k \in 1 .. Len(box[c])
  <2>1. Len(box[c]) \in Nat /\ Len(box[c]) <= Capacity
    BY Facts DEF TypeOK
  <2> QED BY <2>1, RemIOAssumption
<1>3. /\ \A p \in InList(id) : /\ p = <<p[1], p[2]>> /\ p[1] \in Dev
                               /\ p[2] \in 1 .. Len(pending[p[1]])
                               /\ pending[p[1]][p[2]] = id
      /\ \A d \in Dev : \A k \in 1 .. Len(pending[d]) : pending[d][k] = id => <<d, k>> \in InList(id)
  BY <1>1 DEF InList
<1>4. /\ \A p \in InMsgs(id) : /\ p = <<p[1], p[2]>> /\ p[1] \in Front
                               /\ p[2] \in Completions(p[1])
                               /\ box[p[1]][p[2]].request_id = id
      /\ \A c \in Front : \A k \in Completions(c) :
             box[c][k].request_id = id => <<c, k>> \in InMsgs(id)
  BY <1>2 DEF InMsgs, Completions
<1>5. InList(id) # {} <=> IsListed(id)
  BY <1>3 DEF IsListed
<1>6. InMsgs(id) # {} <=> IsAnswered(id)
  BY <1>4 DEF IsAnswered
<1>7. InHands(id) # {} <=> ~Idle(id)
  BY DEF InHands, Idle
<1>8. InGuest(id) # {} <=> GuestHas(id)
  BY DEF InGuest, GuestHas
<1>9. ASSUME NEW x \in InList(id), NEW y \in InList(id) PROVE x = y
  <2>1. x[1] = request[id].bind_key /\ y[1] = request[id].bind_key
    BY <1>3 DEF Listed
  <2>2. x[2] = y[2]
    BY <1>3, <2>1 DEF Listed
  <2> QED BY <1>3, <2>1, <2>2
<1>10. \A x \in InMsgs(id) : x[1] = request[id].cpu_id
  BY <1>4 DEF Answered
<1>11. ASSUME NEW x \in InMsgs(id), NEW y \in InMsgs(id) PROVE x = y
  <2>1. x[2] = y[2]
    BY <1>4, <1>10 DEF Answered
  <2> QED BY <1>4, <1>10, <2>1
<1>12. \A x, y \in InHands(id) : x = y
  BY Facts DEF InHands, Hands
<1>13. \A x, y \in InGuest(id) : x = y
  BY DEF InGuest, WithGuest
<1> QED
  BY <1>5, <1>6, <1>7, <1>8, <1>9, <1>10, <1>11, <1>12, <1>13

(* Every request in use is in exactly one place, unless its completion met  *)
(* a full queue; whoever waits has one request, and nobody else has one.    *)
THEOREM RequestsAccounted == Spec => []RequestAccounting
<1>1. ASSUME IInv PROVE RequestAccounting
  <2> USE <1>1
  <2>1. ASSUME NEW id \in Id
        PROVE  /\ IsListed(id) => id \in pool /\ request[id].state = "PENDING" /\ Idle(id)
               /\ GuestHas(id) => id \in pool /\ request[id].state = "PROCESSING" /\ Idle(id)
               /\ IsAnswered(id) => id \in pool /\ request[id].state = "COMPLETE" /\ Idle(id)
               /\ ~Idle(id) => id \in pool
    <3>1. IsListed(id) => id \in pool /\ request[id].state = "PENDING" /\ Idle(id)
      BY DEF IInv, IsListed, Listed
    <3>2. GuestHas(id) => id \in pool /\ request[id].state = "PROCESSING" /\ Idle(id)
      BY DEF IInv, GuestHas, WithGuest
    <3>3. IsAnswered(id) => id \in pool /\ request[id].state = "COMPLETE" /\ Idle(id)
      BY DEF IInv, IsAnswered, Answered
    <3>4. ~Idle(id) => id \in pool
      BY Facts DEF IInv, Idle, Hands
    <3> QED BY <3>1, <3>2, <3>3, <3>4
  <2>2. ASSUME NEW id \in pool
        PROVE  /\ Cardinality(InList(id)) + Cardinality(InMsgs(id)) + Cardinality(InHands(id))
                      + Cardinality(InGuest(id)) \in (IF dropped THEN {0, 1} ELSE {1})
               /\ InList(id) # {} => request[id].state = "PENDING"
               /\ InGuest(id) # {} => request[id].state = "PROCESSING"
               /\ InMsgs(id) # {} =>
                      request[id].state = "COMPLETE" /\ \A p \in InMsgs(id) : p[1] = request[id].cpu_id
               /\ \A other \in pool : request[other].cpu_id = request[id].cpu_id => other = id
    <3>1. id \in Id
      BY Facts DEF IInv
    <3>2. /\ Cardinality(InList(id)) = IF IsListed(id) THEN 1 ELSE 0
          /\ Cardinality(InMsgs(id)) = IF IsAnswered(id) THEN 1 ELSE 0
          /\ Cardinality(InHands(id)) = IF ~Idle(id) THEN 1 ELSE 0
          /\ Cardinality(InGuest(id)) = IF GuestHas(id) THEN 1 ELSE 0
      BY <3>1, Places, Sole
    <3>3. dropped \/ IsListed(id) \/ GuestHas(id) \/ ~Idle(id) \/ IsAnswered(id)
      BY DEF IInv, Somewhere
    <3>4. Cardinality(InList(id)) + Cardinality(InMsgs(id)) + Cardinality(InHands(id))
              + Cardinality(InGuest(id)) \in (IF dropped THEN {0, 1} ELSE {1})
      BY <2>1, <3>1, <3>2, <3>3
    <3>5. \A other \in pool : request[other].cpu_id = request[id].cpu_id => other = id
      BY DEF IInv, Owners
    <3> QED BY <2>1, <3>1, <3>4, <3>5, Places
  <2>3. \A id \in Id \ pool : InList(id) \cup InMsgs(id) \cup InHands(id) \cup InGuest(id) = {}
    <3> TAKE id \in Id \ pool
    <3>1. InList(id) = {} /\ InMsgs(id) = {} /\ InHands(id) = {} /\ InGuest(id) = {}
      BY <2>1, Places
    <3> QED BY <3>1
  <2>4. Waiting = {request[id].cpu_id : id \in pool}
    BY DEF IInv, Owners
  <2> QED BY <2>2, <2>3, <2>4 DEF RequestAccounting, Waiting
<1> QED BY <1>1, ProtocolInvariant, PTL

=============================================================================
