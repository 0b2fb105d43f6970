------------------------------- MODULE MCVGic -------------------------------
(* Two vCPUs and three sets of guests.  The interrupts are routed to the    *)
(* vCPUs in turns, or all of them to any vCPU, and the guests enable, pend  *)
(* and route them; or interrupts 1 and 2 are the SGIs of the two vCPUs, the *)
(* others are routed to the first, and the guests send SGIs, set and clear  *)
(* active bits and switch the distributor.                                  *)
EXTENDS VGic

CONSTANTS c1, c2

NoSgi == [c \in VCPU |-> NoInt]

Sgis == [c \in VCPU |-> IF c = c1 THEN 1 ELSE 2]

InTurns == [i \in INT |-> IF i % 2 = 1 THEN c1 ELSE c2]

Shared(route, phys) ==
    [route |-> route, phys |-> phys, sgi |-> NoSgi, ints |-> {1, 2, 3},
     regs |-> {"ispendr", "icpendr", "icenabler", "isenabler"}, routes |-> {c1, c2, ANY},
     ctlr |-> {}, sgis |-> {}, ops |-> MAX_OPS]

Private ==
    [route |-> [i \in INT |-> c1], phys |-> [i \in INT |-> c1], sgi |-> Sgis, ints |-> INT,
     regs |-> {"isactiver", "icactiver"}, routes |-> {c2},
     ctlr |-> BOOLEAN, sgis |-> {VCPU}, ops |-> MAX_OPS]

MCSetups == {Shared(InTurns, InTurns), Shared([i \in INT |-> ANY], [i \in INT |-> c1]), Private}

=============================================================================
