------------------------------- MODULE RemIO -------------------------------
(***************************************************************************)
(* Remote I/O (core/remio.c): a vCPU of a frontend VM that touches the      *)
(* registers of a Remote I/O device is paused, the access becomes a request *)
(* for the backend VM, and a CPU message from the backend's CPU resumes the *)
(* vCPU with the answer.                                                    *)
(*                                                                          *)
(* The devices are ready (module RemIOBoot).  A frontend CPU runs its       *)
(* handler with interrupts masked and handles messages in the guest or in   *)
(* standby; queues are the mailboxes module CpuMsg shows them to be, which  *)
(* drop a message when they are full.  The request pool and the lists are   *)
(* used under their spinlocks, one step each; the state and the value of a  *)
(* request are read and written without a lock, in steps of their own.      *)
(*                                                                          *)
(* The backend's guest software is external: on an interrupt it asks for    *)
(* requests until it is told that there is none left, and any of its CPUs   *)
(* may answer a request once.  The answer to an access is modelled by the   *)
(* access itself, so that answers can be told apart.                        *)
(***************************************************************************)
EXTENDS Naturals, Sequences, FiniteSets

CONSTANTS
    Front,       \* the CPUs of the frontend VM
    Back,        \* the CPUs of the backend VM
    BackCpu,     \* config.backend.cpu_id, the CPU that takes the interrupts
    FrontCpu,    \* config.frontend.cpu_id
    Dev,         \* the bind keys of the devices
    POOL,        \* REMIO_VCPU_NUM, the size of the request pool
    BYTE,        \* the values of a byte: bind keys and identifiers in messages
    Capacity,    \* IPI_MAX_EVENTS
    None,        \* no value
    MAX_ACCESS,  \* bound: accesses in a behaviour
    MAX_NOTIFY   \* bound: notifications for the frontend in its queue

CPU == Front \cup Back

Id == 0 .. POOL - 1

(* REMIO_VCPU_NUM is PLAT_CPU_NUM; bind keys and identifiers fit the bytes  *)
(* they are sent in.                                                        *)
ASSUME RemIOAssumption ==
    /\ Front \cap Back = {}
    /\ IsFiniteSet(Front)
    /\ BackCpu \in Back /\ FrontCpu \in Front
    /\ POOL \in Nat /\ BYTE \in Nat /\ Capacity \in Nat
    /\ MAX_ACCESS \in Nat /\ MAX_NOTIFY \in Nat
    /\ POOL >= Cardinality(Front) /\ POOL <= BYTE
    /\ Dev \subseteq 0 .. BYTE - 1
    /\ None \notin Nat

VARIABLES
    pool,      \* the identifiers in use in remio_request_pool
    request,   \* request[id]: the slots of the pool
    pending,   \* pending[d]: pending_requests_list of device d
    box,       \* box[c]: the messages queued for c
    pc,        \* where each CPU is
    dev,       \* dev[c]: the device c works on
    cur,       \* cur[c]: the identifier of the request c works on
    reg,       \* reg[c]: the register of c's vCPU that the access names
    irq,       \* irq[d]: the backend's virtual interrupt of d is pending
    held,      \* held[d]: requests of d the backend's guest has to answer
    accesses,  \* how many accesses were made, which numbers them
    want,      \* history: what reg[c] has to be after c's last access
    dropped    \* history: a message met a full queue

local == <<pc, dev, cur>>

history == <<accesses, want>>

vars == <<pool, request, pending, box, local, reg, irq, held, history, dropped>>

Op == {"read", "write"}

Value == (Front \X (1 .. MAX_ACCESS)) \cup {None}

Request == [bind_key : Dev \cup {None}, addr : Value, op : Op, value : Value,
            cpu_id : Front \cup {None},
            state : {"FREE", "PENDING", "PROCESSING", "COMPLETE"}]

Msg == [event : Op, bind_key : Nat, request_id : Nat] \cup
       [event : {"NOTIFY"}, bind_key : {0}, request_id : {0}, interrupt : Dev \cup {None}]

TypeOK ==
    /\ pool \subseteq Id
    /\ request \in [Id -> Request]
    /\ pending \in [Dev -> Seq(Id)]
    /\ box \in [CPU -> Seq(Msg)]
    /\ \A c \in CPU : Len(box[c]) <= Capacity
    /\ pc \in [CPU -> {"guest", "push", "notify", "standby", "ask", "asked", "rw",
                       "complete", "error"}]
    /\ dev \in [CPU -> Dev \cup {None}]
    /\ cur \in [CPU -> Id \cup {None}]
    /\ reg \in [Front -> Value]
    /\ irq \in [Dev -> BOOLEAN]
    /\ held \in [Dev -> SUBSET Id]
    /\ accesses \in 0 .. MAX_ACCESS
    /\ want \in [Front -> Value]
    /\ dropped \in BOOLEAN

(* objpool_init zeroes the pool; zero is REMIO_STATE_FREE.                  *)
Init ==
    /\ pool = {}
    /\ request = [id \in Id |-> [bind_key |-> None, addr |-> None, op |-> "write", value |-> None,
                                 cpu_id |-> None, state |-> "FREE"]]
    /\ pending = [d \in Dev |-> <<>>]
    /\ box = [c \in CPU |-> <<>>]
    /\ pc = [c \in CPU |-> "guest"]
    /\ dev = [c \in CPU |-> None]
    /\ cur = [c \in CPU |-> None]
    /\ reg = [c \in Front |-> None]
    /\ irq = [d \in Dev |-> FALSE]
    /\ held = [d \in Dev |-> {}]
    /\ accesses = 0
    /\ want = [c \in Front |-> None]
    /\ dropped = FALSE

Goto(c, where) == pc' = [pc EXCEPT ![c] = where]

(* cpu_send_msg: a full queue drops the message.                            *)
Send(t, m) ==
    IF Len(box[t]) < Capacity
    THEN box' = [box EXCEPT ![t] = Append(@, m)] /\ UNCHANGED dropped
    ELSE dropped' = TRUE /\ UNCHANGED box

(* remio_cpu_send_msg: the key and the identifier become bytes.             *)
CompletionMsg(op, key, id) ==
    [event |-> op, bind_key |-> key % BYTE, request_id |-> id % BYTE]

NotifyMsg(d) == [event |-> "NOTIFY", bind_key |-> 0, request_id |-> 0, interrupt |-> d]

----------------------------------------------------------------------------
(* The frontend: remio_mmio_emul_handler.                                   *)

Lowest(S) == CHOOSE id \in S : \A other \in S : id <= other

(* remio_create_request up to list_push; without a free slot the access     *)
(* fails and the abort handler stops the CPU.                               *)
remio_create_request(c, d, op) ==
    LET free == Id \ pool
        addr == <<c, accesses + 1>>
        id == Lowest(free)
    IN  /\ pc[c] = "guest"
        /\ accesses < MAX_ACCESS
        /\ accesses' = accesses + 1
        /\ want' = [want EXCEPT ![c] = IF op = "read" THEN addr ELSE reg[c]]
        /\ dev' = [dev EXCEPT ![c] = d]
        /\ IF free = {}
           THEN Goto(c, "error") /\ UNCHANGED <<pool, request, cur>>
           ELSE /\ Goto(c, "push")
                /\ pool' = pool \cup {id}
                /\ cur' = [cur EXCEPT ![c] = id]
                /\ request' = [request EXCEPT ![id] =
                       [bind_key |-> d, addr |-> addr, op |-> op, state |-> "PENDING", cpu_id |-> c,
                        value |-> IF op = "write" THEN reg[c] ELSE None]]
        /\ UNCHANGED <<pending, box, reg, irq, held, dropped>>

(* Mutant: the request is pushed at the head, where the next push loses it. *)
PushLosesTail(c) ==
    /\ pc[c] = "push"
    /\ pending' = [pending EXCEPT ![dev[c]] = <<cur[c]>>]
    /\ Goto(c, "notify")
    /\ cur' = [cur EXCEPT ![c] = None]
    /\ UNCHANGED <<pool, request, box, dev, reg, irq, held, history, dropped>>

(* list_push.                                                               *)
PushRequest(c) ==
    /\ pc[c] = "push"
    /\ pending' = [pending EXCEPT ![dev[c]] = Append(@, cur[c])]
    /\ Goto(c, "notify")
    /\ cur' = [cur EXCEPT ![c] = None]
    /\ UNCHANGED <<pool, request, box, dev, reg, irq, held, history, dropped>>

(* The backend's CPU is told and the vCPU is paused.                        *)
NotifyAndPause(c) ==
    /\ pc[c] = "notify"
    /\ Send(BackCpu, NotifyMsg(dev[c]))
    /\ Goto(c, "standby")
    /\ dev' = [dev EXCEPT ![c] = None]
    /\ UNCHANGED <<pool, request, pending, cur, reg, irq, held, history>>

(* remio_get_request for an identifier: the slot, if it is one and belongs  *)
(* to the device.                                                           *)
Found(d, id) == id \in Id /\ request[id].bind_key = d

(* Mutant: the slot is given back before the answer is read, and zeroed.    *)
PostWorkFreesFirst(c, m) ==
    LET d == m.bind_key
        id == m.request_id
    IN  IF d \in Dev /\ Found(d, id)
        THEN /\ pool' = pool \ {id}
             /\ request' = [request EXCEPT ![id].state = "FREE", ![id].value = None]
             /\ reg' = IF m.event = "read" THEN [reg EXCEPT ![c] = None] ELSE reg
             /\ Goto(c, "guest")
        ELSE Goto(c, "error") /\ UNCHANGED <<pool, request, reg>>

(* remio_cpu_post_work: a read's answer goes to the register, the slot is   *)
(* given back, the vCPU is active again.  A message that fits no device or  *)
(* no request stops the CPU.                                                *)
remio_cpu_post_work(c, m) ==
    LET d == m.bind_key
        id == m.request_id
    IN  IF d \in Dev /\ Found(d, id)
        THEN /\ pool' = pool \ {id}
             /\ request' = [request EXCEPT ![id].state = "FREE"]
             /\ reg' = IF m.event = "read" THEN [reg EXCEPT ![c] = request[id].value] ELSE reg
             /\ Goto(c, "guest")
        ELSE Goto(c, "error") /\ UNCHANGED <<pool, request, reg>>

(* remio_cpu_msg_handler in a frontend CPU; the notification injects an     *)
(* interrupt into the guest.                                                *)
FrontMsg(c) ==
    /\ pc[c] \in {"guest", "standby"}
    /\ box[c] # <<>>
    /\ box' = [box EXCEPT ![c] = Tail(@)]
    /\ IF Head(box[c]).event = "NOTIFY"
       THEN UNCHANGED <<pool, request, reg, pc>>
       ELSE remio_cpu_post_work(c, Head(box[c]))
    /\ UNCHANGED <<pending, dev, cur, irq, held, history, dropped>>

----------------------------------------------------------------------------
(* The backend.                                                             *)

(* remio_cpu_msg_handler in the backend's CPU: vcpu_inject_irq.             *)
BackMsg(b) ==
    /\ pc[b] = "guest"
    /\ box[b] # <<>>
    /\ box' = [box EXCEPT ![b] = Tail(@)]
    /\ irq' = [irq EXCEPT ![Head(box[b]).interrupt] = TRUE]
    /\ UNCHANGED <<pool, request, pending, local, reg, held, history, dropped>>

(* External: the guest takes the interrupt and starts to ask.               *)
TakeIrq(b, d) ==
    /\ b = BackCpu
    /\ pc[b] = "guest"
    /\ irq[d]
    /\ irq' = [irq EXCEPT ![d] = FALSE]
    /\ dev' = [dev EXCEPT ![b] = d]
    /\ Goto(b, "ask")
    /\ UNCHANGED <<pool, request, pending, box, cur, reg, held, history, dropped>>

(* The hypercall returns to the guest.                                      *)
Leave(b) ==
    /\ Goto(b, "guest")
    /\ dev' = [dev EXCEPT ![b] = None]
    /\ cur' = [cur EXCEPT ![b] = None]

(* REMIO_HYP_ASK: remio_get_request takes the first pending request, or the *)
(* hypercall fails and the guest stops asking.                              *)
Ask(b) ==
    LET list == pending[dev[b]]
    IN  /\ pc[b] = "ask"
        /\ \/ /\ list = <<>>
              /\ Leave(b)
              /\ UNCHANGED pending
           \/ /\ list # <<>>
              /\ pending' = [pending EXCEPT ![dev[b]] = Tail(@)]
              /\ IF Found(dev[b], Head(list)) /\ request[Head(list)].state = "PENDING"
                 THEN Goto(b, "asked") /\ cur' = [cur EXCEPT ![b] = Head(list)] /\ UNCHANGED dev
                 ELSE Leave(b)
        /\ UNCHANGED <<pool, request, box, reg, irq, held, history, dropped>>

(* Mutant: the guest is told that nothing is left whenever it got one.      *)
AskReturnsLast(b) ==
    /\ pc[b] = "asked"
    /\ request' = [request EXCEPT ![cur[b]].state = "PROCESSING"]
    /\ held' = [held EXCEPT ![dev[b]] = @ \cup {cur[b]}]
    /\ Leave(b)
    /\ UNCHANGED <<pool, pending, box, reg, irq, history, dropped>>

(* The rest of remio_handle_ask: has another request come, the state, and   *)
(* the request to the guest, which asks again if there is more.             *)
AskReturns(b) ==
    /\ pc[b] = "asked"
    /\ request' = [request EXCEPT ![cur[b]].state = "PROCESSING"]
    /\ held' = [held EXCEPT ![dev[b]] = @ \cup {cur[b]}]
    /\ IF pending[dev[b]] # <<>>
       THEN Goto(b, "ask") /\ cur' = [cur EXCEPT ![b] = None] /\ UNCHANGED dev
       ELSE Leave(b)
    /\ UNCHANGED <<pool, pending, box, reg, irq, history, dropped>>

(* REMIO_HYP_READ or _WRITE: remio_handle_rw up to the test of the state.   *)
StartRw(b, d, id) ==
    /\ pc[b] = "guest"
    /\ id \in held[d]
    /\ held' = [held EXCEPT ![d] = @ \ {id}]
    /\ IF Found(d, id) /\ request[id].state = "PROCESSING"
       THEN /\ Goto(b, "rw")
            /\ dev' = [dev EXCEPT ![b] = d]
            /\ cur' = [cur EXCEPT ![b] = id]
       ELSE UNCHANGED local
    /\ UNCHANGED <<pool, request, pending, box, reg, irq, history, dropped>>

(* The value and the state; the guest answers the access it was given.      *)
Complete(b) ==
    LET id == cur[b]
    IN  /\ pc[b] = "rw"
        /\ request' = [request EXCEPT ![id].value = request[id].addr, ![id].state = "COMPLETE"]
        /\ Goto(b, "complete")
        /\ UNCHANGED <<pool, pending, box, dev, cur, reg, irq, held, history, dropped>>

(* The completion message to the CPU that made the access.                  *)
SendCompletion(b) ==
    LET id == cur[b]
    IN  /\ pc[b] = "complete"
        /\ Send(request[id].cpu_id, CompletionMsg(request[id].op, dev[b], id))
        /\ Leave(b)
        /\ UNCHANGED <<pool, request, pending, reg, irq, held, history>>

Notifications(c) == {k \in 1 .. Len(box[c]) : box[c][k].event = "NOTIFY"}

(* REMIO_HYP_NOTIFY; which interrupt the frontend's guest gets is left out. *)
NotifyFront(b) ==
    /\ pc[b] = "guest"
    /\ Cardinality(Notifications(FrontCpu)) < MAX_NOTIFY
    /\ Send(FrontCpu, NotifyMsg(None))
    /\ UNCHANGED <<pool, request, pending, local, reg, irq, held, history>>

FrontStep(c) == PushRequest(c) \/ NotifyAndPause(c) \/ FrontMsg(c)

BackStep(b) ==
    \/ BackMsg(b) \/ Ask(b) \/ AskReturns(b) \/ Complete(b) \/ SendCompletion(b)
    \/ \E d \in Dev : TakeIrq(b, d)
    \/ \E d \in Dev, id \in Id : StartRw(b, d, id)

Next ==
    \/ \E c \in Front :
          \/ FrontStep(c)
          \/ \E d \in Dev, op \in Op : remio_create_request(c, d, op)
    \/ \E b \in Back :
          \/ BackStep(b)
          \/ NotifyFront(b)

Spec == Init /\ [][Next]_vars

(* The hypervisor keeps running on every CPU, and the backend's guest takes *)
(* its interrupts and answers what it was given.                            *)
FairSpec ==
    /\ Spec
    /\ \A c \in Front : WF_vars(FrontStep(c))
    /\ \A b \in Back :
           /\ WF_vars(BackMsg(b) \/ Ask(b) \/ AskReturns(b) \/ Complete(b) \/ SendCompletion(b))
           /\ \A d \in Dev : WF_vars(TakeIrq(b, d))
    /\ \A d \in Dev, id \in Id : WF_vars(\E b \in Back : StartRw(b, d, id))

----------------------------------------------------------------------------
(* Where a request may be, and in how many places it is.                    *)
InList(id) == {p \in Dev \X (1 .. POOL) :
                   p[2] <= Len(pending[p[1]]) /\ pending[p[1]][p[2]] = id}

InMsgs(id) == {p \in Front \X (1 .. Capacity) :
                   /\ p[2] <= Len(box[p[1]])
                   /\ box[p[1]][p[2]].event \in Op
                   /\ box[p[1]][p[2]].request_id = id}

InHands(id) == {c \in CPU : cur[c] = id}

InGuest(id) == {d \in Dev : id \in held[d]}

(* Every request in use is in exactly one place, the place its state says,  *)
(* and belongs to one vCPU, which waits for it; every vCPU that waits has   *)
(* its request.  A request is nowhere only when its completion met a full   *)
(* queue.                                                                   *)
RequestAccounting ==
    /\ \A id \in pool :
           /\ Cardinality(InList(id)) + Cardinality(InMsgs(id)) + Cardinality(InHands(id))
                  + Cardinality(InGuest(id)) \in (IF dropped THEN {0, 1} ELSE {1})
           /\ InList(id) # {} => request[id].state = "PENDING"
           /\ InGuest(id) # {} => request[id].state = "PROCESSING"
           /\ InMsgs(id) # {} =>
                  request[id].state = "COMPLETE" /\ \A p \in InMsgs(id) : p[1] = request[id].cpu_id
           /\ \A other \in pool : request[other].cpu_id = request[id].cpu_id => other = id
    /\ \A id \in Id \ pool : InList(id) \cup InMsgs(id) \cup InHands(id) \cup InGuest(id) = {}
    /\ {c \in Front : pc[c] \in {"push", "notify", "standby"}} = {request[id].cpu_id : id \in pool}

(* A frontend vCPU that runs has the answer to its own last access in the   *)
(* register it named, whatever the other vCPUs and devices did meanwhile.   *)
OwnAnswer == \A c \in Front : pc[c] = "guest" => reg[c] = want[c]

(* The pool is never exhausted and no completion is refused: no CPU stops   *)
(* in ERROR.                                                                *)
NoFailure == \A c \in CPU : pc[c] # "error"

(* Unless a message met a full queue, a paused vCPU runs again.             *)
AccessesComplete == \A c \in Front : pc[c] = "standby" ~> pc[c] = "guest" \/ dropped

=============================================================================
