-------------------------- MODULE TicketLockProofs --------------------------
(***************************************************************************)
(* Mutual exclusion of the ticket lock for any number of CPUs and any       *)
(* counter width that exceeds it.  The inductive invariant is TypeOK and    *)
(* TicketWindow: the numbers in circulation form a window of consecutive    *)
(* values whose length is the number of CPUs holding one, so that the       *)
(* window never covers the whole range of the counter.  With the fact that  *)
(* the window has no gaps (NoGap) it determines the line the CPUs stand in, *)
(* and the lock is the first-come first-served one of module FifoLock.      *)
(***************************************************************************)
EXTENDS TicketLock, FiniteSetTheorems, TLAPS

(* Drawing a number makes the set of CPUs that hold one larger by one, and  *)
(* it was smaller than the set of all CPUs.                                 *)
LEMMA HoldingGrows ==
    ASSUME NEW c \in CPU, TypeOK, pc[c] = "idle",
           pc' = [pc EXCEPT ![c] = "wait"]
    PROVE  /\ Holding' = Holding \cup {c}
           /\ Cardinality(Holding') = Cardinality(Holding) + 1
           /\ Cardinality(Holding) + 1 < TICKETS
           /\ Cardinality(Holding) \in Nat
<1>1. Holding' = Holding \cup {c} /\ c \notin Holding
  BY DEF Holding, TypeOK
<1>2. IsFiniteSet(Holding)
  BY TicketAssumption, FS_Subset DEF Holding
<1>3. Cardinality(Holding') = Cardinality(Holding) + 1
  BY <1>1, <1>2, FS_AddElement
<1>4. Cardinality(Holding') <= Cardinality(CPU)
  BY TicketAssumption, FS_Subset DEF Holding
<1>5. Cardinality(Holding) \in Nat /\ Cardinality(CPU) \in Nat
  BY <1>2, TicketAssumption, FS_CardinalityType
<1> QED
  BY <1>1, <1>3, <1>4, <1>5, TicketAssumption

(* Giving the number back makes that set smaller by one.                    *)
LEMMA HoldingShrinks ==
    ASSUME NEW c \in CPU, TypeOK, pc[c] = "release",
           pc' = [pc EXCEPT ![c] = "idle"]
    PROVE  /\ Holding' = Holding \ {c}
           /\ c \in Holding
           /\ Cardinality(Holding') = Cardinality(Holding) - 1
<1>1. Holding' = Holding \ {c} /\ c \in Holding
  BY DEF Holding, TypeOK
<1>2. IsFiniteSet(Holding)
  BY TicketAssumption, FS_Subset DEF Holding
<1> QED
  BY <1>1, <1>2, FS_RemoveElement

(* Every reachable value of the counters and registers is in its range.     *)
THEOREM TypeCorrect == Spec => []TypeOK
<1>1. Init => TypeOK
  BY TicketAssumption, FS_CardinalityType DEF Init, TypeOK, Value
<1>2. TypeOK /\ [Next]_vars => TypeOK'
  <2> SUFFICES ASSUME TypeOK, [Next]_vars PROVE TypeOK'
    OBVIOUS
  <2>0. \A x \in Value : Incr(x) \in Value
    BY TicketAssumption DEF Incr, Value
  <2>1. ASSUME NEW c \in CPU, GetTicket(c) PROVE TypeOK'
    BY <2>0, <2>1 DEF GetTicket, TypeOK
  <2>2. ASSUME NEW c \in CPU, Acquire(c) PROVE TypeOK'
    BY <2>2 DEF Acquire, TypeOK
  <2>3. ASSUME NEW c \in CPU, LoadNext(c) PROVE TypeOK'
    BY <2>0, <2>3 DEF LoadNext, TypeOK
  <2>4. ASSUME NEW c \in CPU, StoreNext(c) PROVE TypeOK'
    BY <2>4 DEF StoreNext, TypeOK
  <2>5. CASE UNCHANGED vars
    BY <2>5 DEF vars, TypeOK
  <2> QED
    BY <2>1, <2>2, <2>3, <2>4, <2>5 DEF Next, Step
<1> QED
  BY <1>1, <1>2, PTL DEF Spec

(* The inductive invariant.                                                 *)
IInv == TypeOK /\ TicketWindow

(* All CPUs are outside the lock initially, and both counters agree.        *)
LEMMA InitWindow == Init => TicketWindow
<1> SUFFICES ASSUME Init PROVE TicketWindow
  OBVIOUS
<1>1. Holding = {}
  BY DEF Init, Holding
<1>2. Cardinality(Holding) = 0
  BY <1>1, FS_EmptySet
<1> QED
  BY <1>1, <1>2 DEF Init, TicketWindow, Ahead

(* A draw extends the window by one number, given to the drawing CPU; the   *)
(* window stays shorter than the range of the counter.                      *)
LEMMA GetTicketWindow ==
    ASSUME IInv, TypeOK', NEW c \in CPU, GetTicket(c)
    PROVE  TicketWindow'
<1> USE DEF IInv, Value
<1>1. /\ Holding' = Holding \cup {c}
      /\ Cardinality(Holding') = Cardinality(Holding) + 1
      /\ Cardinality(Holding) + 1 < TICKETS
      /\ Cardinality(Holding) \in Nat
  BY HoldingGrows DEF GetTicket
<1>2. /\ TICKETS \in Nat /\ ticket \in 0 .. TICKETS - 1 /\ next \in 0 .. TICKETS - 1
      /\ \A d \in CPU : my[d] \in 0 .. TICKETS - 1
  BY TicketAssumption DEF TypeOK
<1>3. Ahead(ticket) + 1 < TICKETS
  BY <1>1 DEF TicketWindow
<1>4. next' = next /\ ticket' = Incr(ticket) /\ my'[c] = ticket
      /\ \A d \in CPU \ {c} : my'[d] = my[d]
  BY DEF GetTicket, TypeOK
<1>5. Ahead(ticket)' = Ahead(ticket) + 1
  BY <1>2, <1>3, <1>4 DEF Ahead, Incr
<1>6. \A d \in Holding : d # c /\ d \in CPU
  BY DEF Holding, GetTicket
<1>7. \A d \in Holding : Ahead(my[d])' = Ahead(my[d])
  BY <1>4, <1>6 DEF Ahead
<1>8. Ahead(my[c])' = Ahead(ticket)
  BY <1>4 DEF Ahead
<1>9. Ahead(ticket) \in Int /\ \A d \in CPU : Ahead(my[d]) \in Int
  BY <1>2 DEF Ahead
<1>10. \A d \in Holding' : Ahead(my[d])' < Ahead(ticket)'
  BY <1>1, <1>5, <1>6, <1>7, <1>8, <1>9 DEF TicketWindow
<1>11. \A d \in Holding : my[d] # ticket
  BY <1>9 DEF TicketWindow
<1>12. \A d, e \in Holding' : my'[d] = my'[e] => d = e
  BY <1>1, <1>4, <1>6, <1>11 DEF TicketWindow
<1>13. Ahead(ticket)' = Cardinality(Holding')
  BY <1>1, <1>5 DEF TicketWindow
<1>14. \A d \in CPU : pc'[d] \in {"critical", "release"} => my'[d] = next'
  BY <1>4 DEF TicketWindow, GetTicket, TypeOK
<1>15. \A d \in CPU : pc'[d] = "release" => temp'[d] = Incr(next')
  BY <1>4 DEF TicketWindow, GetTicket, TypeOK
<1> QED
  BY <1>10, <1>12, <1>13, <1>14, <1>15 DEF TicketWindow, Incr

(* A release takes the first number out of the window: every other number  *)
(* in circulation comes one closer to being served.                         *)
LEMMA StoreNextWindow ==
    ASSUME IInv, TypeOK', NEW c \in CPU, StoreNext(c)
    PROVE  TicketWindow'
<1> USE DEF IInv, Value
<1>1. /\ Holding' = Holding \ {c}
      /\ c \in Holding
      /\ Cardinality(Holding') = Cardinality(Holding) - 1
  BY HoldingShrinks DEF StoreNext
<1>2. /\ TICKETS \in Nat /\ ticket \in 0 .. TICKETS - 1 /\ next \in 0 .. TICKETS - 1
      /\ \A d \in CPU : my[d] \in 0 .. TICKETS - 1
  BY TicketAssumption DEF TypeOK
<1>3. my[c] = next /\ next' = Incr(next) /\ ticket' = ticket /\ my' = my
  BY DEF StoreNext, TicketWindow
<1>4. \A x \in 0 .. TICKETS - 1 : x # next =>
          (IF x >= next' THEN x - next' ELSE x + TICKETS - next') = Ahead(x) - 1
  BY <1>2, <1>3 DEF Ahead, Incr
<1>5. ticket # next
  BY <1>1, <1>2, <1>3 DEF TicketWindow, Ahead
<1>6. Ahead(ticket)' = Ahead(ticket) - 1
  BY <1>2, <1>3, <1>4, <1>5 DEF Ahead
<1>7. \A d \in Holding' : d \in CPU /\ d \in Holding /\ my[d] # next
  BY <1>1, <1>3 DEF TicketWindow, Holding
<1>8. \A d \in Holding' : Ahead(my[d])' = Ahead(my[d]) - 1
  BY <1>2, <1>3, <1>4, <1>7 DEF Ahead
<1>9. Ahead(ticket) \in Int /\ \A d \in CPU : Ahead(my[d]) \in Int
  BY <1>2 DEF Ahead
<1>10. \A d \in Holding' : Ahead(my[d])' < Ahead(ticket)'
  BY <1>6, <1>7, <1>8, <1>9 DEF TicketWindow
<1>11. Ahead(ticket)' = Cardinality(Holding')
  BY <1>1, <1>6 DEF TicketWindow
<1>12. \A d \in CPU : pc'[d] \notin {"critical", "release"}
  BY <1>1, <1>3 DEF TicketWindow, StoreNext, TypeOK, Holding
<1> QED
  BY <1>3, <1>7, <1>10, <1>11, <1>12 DEF TicketWindow

(* Leaving the wait loop and the load of spin_unlock leave the window alone. *)
LEMMA OtherStepsWindow ==
    ASSUME IInv, NEW c \in CPU, Acquire(c) \/ LoadNext(c)
    PROVE  TicketWindow'
<1> USE DEF IInv
<1>1. Holding' = Holding
  BY DEF Holding, Acquire, LoadNext, TypeOK
<1>2. next' = next /\ ticket' = ticket /\ my' = my
  BY DEF Acquire, LoadNext
<1>3. \A d \in CPU : pc'[d] \in {"critical", "release"} => my'[d] = next'
  BY <1>2 DEF Acquire, LoadNext, TicketWindow, TypeOK
<1>4. \A d \in CPU : pc'[d] = "release" => temp'[d] = Incr(next')
  BY <1>2 DEF Acquire, LoadNext, TicketWindow, TypeOK
<1> QED
  BY <1>1, <1>2, <1>3, <1>4 DEF TicketWindow, Ahead, Incr

(* The window of numbers in circulation is an invariant of the lock.        *)
THEOREM WindowInvariant == Spec => []TicketWindow
<1>1. IInv /\ [Next]_vars /\ TypeOK' => IInv'
  <2> SUFFICES ASSUME IInv, [Next]_vars, TypeOK' PROVE TicketWindow'
    BY DEF IInv
  <2>1. CASE UNCHANGED vars
    BY <2>1 DEF vars, IInv, TicketWindow, Holding, Ahead, Incr
  <2> QED
    BY <2>1, GetTicketWindow, StoreNextWindow, OtherStepsWindow DEF Next, Step
<1>2. IInv => TicketWindow
  BY DEF IInv
<1> QED
  BY <1>1, <1>2, TypeCorrect, InitWindow, PTL DEF Spec, IInv

(* Two CPUs are never inside the lock at once: a CPU inside holds the       *)
(* number being served, and no two CPUs hold the same number.               *)
THEOREM Mutex == Spec => []MutualExclusion
<1>1. TicketWindow => MutualExclusion
  BY DEF TicketWindow, MutualExclusion, Holding
<1> QED
  BY <1>1, WindowInvariant, PTL

----------------------------------------------------------------------------
(* The window has no gaps: every number between the one being served and    *)
(* the next to be drawn is some CPU's.                                      *)
NoGap ==
    \A k \in 0 .. Ahead(ticket) - 1 : \E c \in Holding : Ahead(my[c]) = k

(* How a step changes the distances to the number being served.             *)
LEMMA Distances ==
    ASSUME IInv, NEW c \in CPU
    PROVE  /\ Ahead(ticket) \in Nat /\ \A d \in CPU : Ahead(my[d]) \in Nat
           /\ (GetTicket(c) /\ TypeOK' =>
                  /\ Ahead(ticket)' = Ahead(ticket) + 1 /\ Holding' = Holding \cup {c}
                  /\ c \notin Holding /\ Ahead(my[c])' = Ahead(ticket)
                  /\ \A d \in Holding : Ahead(my[d])' = Ahead(my[d]))
           /\ (StoreNext(c) /\ TypeOK' =>
                  /\ Ahead(ticket)' = Ahead(ticket) - 1 /\ Holding' = Holding \ {c}
                  /\ c \in Holding /\ Ahead(my[c]) = 0
                  /\ \A d \in Holding' : Ahead(my[d])' = Ahead(my[d]) - 1)
<1> USE DEF IInv, Value
<1>0. /\ TICKETS \in Nat /\ ticket \in 0 .. TICKETS - 1 /\ next \in 0 .. TICKETS - 1
      /\ \A d \in CPU : my[d] \in 0 .. TICKETS - 1
  BY TicketAssumption DEF TypeOK
<1>1. Ahead(ticket) \in Nat /\ \A d \in CPU : Ahead(my[d]) \in Nat
  BY <1>0 DEF Ahead
<1>2. ASSUME GetTicket(c), TypeOK'
      PROVE  /\ Ahead(ticket)' = Ahead(ticket) + 1 /\ Holding' = Holding \cup {c}
             /\ c \notin Holding /\ Ahead(my[c])' = Ahead(ticket)
             /\ \A d \in Holding : Ahead(my[d])' = Ahead(my[d])
  <2>1. /\ Holding' = Holding \cup {c}
        /\ Cardinality(Holding') = Cardinality(Holding) + 1
        /\ Cardinality(Holding) + 1 < TICKETS
        /\ Cardinality(Holding) \in Nat
    BY <1>2, HoldingGrows DEF GetTicket
  <2>2. Ahead(ticket) + 1 < TICKETS
    BY <2>1 DEF TicketWindow
  <2>3. next' = next /\ ticket' = Incr(ticket) /\ my'[c] = ticket
        /\ \A d \in CPU \ {c} : my'[d] = my[d]
    BY <1>2 DEF GetTicket, TypeOK
  <2>4. Ahead(ticket)' = Ahead(ticket) + 1
    BY <1>0, <2>2, <2>3 DEF Ahead, Incr
  <2>5. c \notin Holding /\ \A d \in Holding : d # c /\ d \in CPU
    BY <1>2 DEF Holding, GetTicket
  <2>6. \A d \in Holding : Ahead(my[d])' = Ahead(my[d])
    BY <2>3, <2>5 DEF Ahead
  <2>7. Ahead(my[c])' = Ahead(ticket)
    BY <2>3 DEF Ahead
  <2> QED BY <2>1, <2>4, <2>5, <2>6, <2>7
<1>3. ASSUME StoreNext(c), TypeOK'
      PROVE  /\ Ahead(ticket)' = Ahead(ticket) - 1 /\ Holding' = Holding \ {c}
             /\ c \in Holding /\ Ahead(my[c]) = 0
             /\ \A d \in Holding' : Ahead(my[d])' = Ahead(my[d]) - 1
  <2>1. Holding' = Holding \ {c} /\ c \in Holding
    BY <1>3, HoldingShrinks DEF StoreNext
  <2>2. my[c] = next /\ next' = Incr(next) /\ ticket' = ticket /\ my' = my
    BY <1>3 DEF StoreNext, TicketWindow
  <2>3. \A x \in 0 .. TICKETS - 1 : x # next =>
            (IF x >= next' THEN x - next' ELSE x + TICKETS - next') = Ahead(x) - 1
    BY <1>0, <2>2 DEF Ahead, Incr
  <2>4. ticket # next
    BY <1>0, <2>1, <2>2 DEF TicketWindow, Ahead
  <2>5. Ahead(ticket)' = Ahead(ticket) - 1
    BY <1>0, <2>2, <2>3, <2>4 DEF Ahead
  <2>6. \A d \in Holding' : d \in CPU /\ my[d] # next
    BY <2>1, <2>2 DEF TicketWindow, Holding
  <2>7. \A d \in Holding' : Ahead(my[d])' = Ahead(my[d]) - 1
    BY <1>0, <2>2, <2>3, <2>6 DEF Ahead
  <2>8. Ahead(my[c]) = 0
    BY <1>0, <2>2 DEF Ahead
  <2> QED BY <2>1, <2>5, <2>7, <2>8
<1> QED BY <1>1, <1>2, <1>3

LEMMA GapsNever ==
    ASSUME IInv, NoGap, [Next]_vars, TypeOK'
    PROVE  NoGap'
<1>0. Ahead(ticket) \in Nat /\ \A d \in CPU : Ahead(my[d]) \in Nat
  <2>1. /\ TICKETS \in Nat /\ ticket \in 0 .. TICKETS - 1 /\ next \in 0 .. TICKETS - 1
        /\ \A d \in CPU : my[d] \in 0 .. TICKETS - 1
    BY TicketAssumption DEF IInv, TypeOK, Value
  <2> QED BY <2>1 DEF Ahead
<1>1. ASSUME NEW c \in CPU, GetTicket(c) PROVE NoGap'
  <2>1. /\ Ahead(ticket)' = Ahead(ticket) + 1 /\ Holding' = Holding \cup {c}
        /\ Ahead(my[c])' = Ahead(ticket)
        /\ \A d \in Holding : Ahead(my[d])' = Ahead(my[d])
    BY <1>1, Distances
  <2> SUFFICES ASSUME NEW k \in 0 .. Ahead(ticket)' - 1
               PROVE  \E d \in Holding' : Ahead(my[d])' = k
    BY DEF NoGap
  <2>2. CASE k = Ahead(ticket)
    BY <2>1, <2>2
  <2>3. CASE k # Ahead(ticket)
    <3>1. k \in 0 .. Ahead(ticket) - 1
      BY <1>0, <2>1, <2>3
    <3>2. PICK d \in Holding : Ahead(my[d]) = k
      BY <3>1 DEF NoGap
    <3> QED BY <2>1, <3>2
  <2> QED BY <2>2, <2>3
<1>2. ASSUME NEW c \in CPU, StoreNext(c) PROVE NoGap'
  <2>1. /\ Ahead(ticket)' = Ahead(ticket) - 1 /\ Holding' = Holding \ {c}
        /\ Ahead(my[c]) = 0
        /\ \A d \in Holding' : Ahead(my[d])' = Ahead(my[d]) - 1
    BY <1>2, Distances
  <2> SUFFICES ASSUME NEW k \in 0 .. Ahead(ticket)' - 1
               PROVE  \E d \in Holding' : Ahead(my[d])' = k
    BY DEF NoGap
  <2>2. k + 1 \in 0 .. Ahead(ticket) - 1
    BY <1>0, <2>1
  <2>3. PICK d \in Holding : Ahead(my[d]) = k + 1
    BY <2>2 DEF NoGap
  <2>4. d \in Holding'
    BY <2>1, <2>3
  <2> QED BY <2>1, <2>3, <2>4
<1>3. ASSUME NEW c \in CPU, Acquire(c) \/ LoadNext(c) PROVE NoGap'
  <2>1. Holding' = Holding
    BY <1>3 DEF Holding, Acquire, LoadNext, IInv, TypeOK
  <2>2. next' = next /\ ticket' = ticket /\ my' = my
    BY <1>3 DEF Acquire, LoadNext
  <2> QED BY <2>1, <2>2 DEF NoGap, Ahead
<1>4. CASE UNCHANGED vars
  BY <1>4 DEF vars, NoGap, Holding, Ahead
<1> QED
  BY <1>1, <1>2, <1>3, <1>4 DEF Next, Step

(* The waiting line has the CPUs that hold a number, each at the place its  *)
(* number says.                                                             *)
InLine ==
    /\ WaitingLine \in Seq(CPU)
    /\ Len(WaitingLine) = Ahead(ticket)
    /\ \A k \in 1 .. Ahead(ticket) :
           WaitingLine[k] \in Holding /\ Ahead(my[WaitingLine[k]]) = k - 1
    /\ \A c \in Holding : /\ Ahead(my[c]) + 1 \in 1 .. Ahead(ticket)
                          /\ WaitingLine[Ahead(my[c]) + 1] = c

LEMMA LineIsExact == IInv /\ NoGap => InLine
<1> SUFFICES ASSUME IInv, NoGap PROVE InLine
  OBVIOUS
<1>0. /\ TICKETS \in Nat /\ ticket \in 0 .. TICKETS - 1 /\ next \in 0 .. TICKETS - 1
      /\ \A d \in CPU : my[d] \in 0 .. TICKETS - 1
  BY TicketAssumption DEF IInv, TypeOK, Value
<1>1. Ahead(ticket) \in Nat /\ \A d \in CPU : Ahead(my[d]) \in Nat
  BY <1>0 DEF Ahead
<1>2. \A c, d \in Holding : Ahead(my[c]) = Ahead(my[d]) => c = d
  <2>1. \A c, d \in Holding : Ahead(my[c]) = Ahead(my[d]) => my[c] = my[d]
    BY <1>0 DEF Ahead, Holding
  <2> QED BY <2>1 DEF IInv, TicketWindow
<1>3. ASSUME NEW k \in 1 .. Ahead(ticket)
      PROVE  WaitingLine[k] \in Holding /\ Ahead(my[WaitingLine[k]]) = k - 1
  <2>1. k - 1 \in 0 .. Ahead(ticket) - 1
    BY <1>1
  <2>2. \E c \in CPU : pc[c] # "idle" /\ Ahead(my[c]) = k - 1
    BY <2>1 DEF NoGap, Holding
  <2>3. WaitingLine[k] = CHOOSE c \in CPU : pc[c] # "idle" /\ Ahead(my[c]) = k - 1
    BY DEF WaitingLine
  <2> QED BY <2>2, <2>3 DEF Holding
<1>4. WaitingLine \in Seq(CPU) /\ Len(WaitingLine) = Ahead(ticket)
  <2>1. DOMAIN WaitingLine = 1 .. Ahead(ticket)
    BY DEF WaitingLine
  <2>2. WaitingLine \in [1 .. Ahead(ticket) -> CPU]
    <3>1. \A k \in 1 .. Ahead(ticket) : WaitingLine[k] \in CPU
      BY <1>3 DEF Holding
    <3>2. WaitingLine = [k \in 1 .. Ahead(ticket) |-> WaitingLine[k]]
      BY DEF WaitingLine
    <3> HIDE DEF WaitingLine
    <3> QED BY <3>1, <3>2
  <2> QED BY <1>1, <2>2
<1>5. ASSUME NEW c \in Holding
      PROVE  Ahead(my[c]) + 1 \in 1 .. Ahead(ticket) /\ WaitingLine[Ahead(my[c]) + 1] = c
  <2>1. Ahead(my[c]) < Ahead(ticket) /\ Ahead(my[c]) \in Nat
    BY <1>1 DEF IInv, TicketWindow, Holding
  <2>2. Ahead(my[c]) + 1 \in 1 .. Ahead(ticket)
    BY <1>1, <2>1
  <2>3. Ahead(my[WaitingLine[Ahead(my[c]) + 1]]) = Ahead(my[c])
    BY <1>3, <2>1, <2>2
  <2> QED BY <1>2, <1>3, <2>2, <2>3
<1> QED BY <1>3, <1>4, <1>5 DEF InLine

(* The line changes only with the numbers and who holds them.               *)
LEMMA SameLine ==
    ASSUME InLine, InLine', UNCHANGED <<ticket, next, my>>, Holding' = Holding
    PROVE  WaitingLine' = WaitingLine
<1>2. Ahead(ticket)' = Ahead(ticket) /\ \A d : Ahead(my[d])' = Ahead(my[d])
  BY DEF Ahead
<1>3. /\ WaitingLine \in Seq(CPU) /\ WaitingLine' \in Seq(CPU)
      /\ Len(WaitingLine') = Len(WaitingLine) /\ Len(WaitingLine) = Ahead(ticket)
  BY <1>2 DEF InLine
<1>4. ASSUME NEW k \in 1 .. Len(WaitingLine) PROVE WaitingLine'[k] = WaitingLine[k]
  <2>1. PICK d \in Holding : d = WaitingLine[k] /\ Ahead(my[d]) = k - 1
    BY <1>3 DEF InLine
  <2>2. d \in Holding' /\ Ahead(my[d])' = k - 1
    BY <1>2, <2>1
  <2>3. WaitingLine'[Ahead(my[d])' + 1] = d
    BY <2>2 DEF InLine
  <2> QED BY <1>3, <2>1, <2>2, <2>3
<1> QED
  <2> HIDE DEF WaitingLine
  <2> QED BY <1>3, <1>4

(* A CPU has the lock.                                                      *)
Inside == \E c \in CPU : pc[c] \in {"critical", "release"}

(* The two counters are a first-come first-served lock, for any number of   *)
(* CPUs and although they wrap: a draw joins the end of the line, the end   *)
(* of the wait loop gives its head the lock, the store of spin_unlock       *)
(* removes the head, and nothing else changes the line.                     *)
THEOREM TicketLockIsFifo == Spec => ImplementsFifo
<1> DEFINE L == WaitingLine
<1>1. Init => Fifo!Init /\ NoGap
  <2> SUFFICES ASSUME Init PROVE Fifo!Init /\ NoGap
    OBVIOUS
  <2>1. Ahead(ticket) = 0
    BY DEF Init, Ahead
  <2>2. WaitingLine = <<>>
    BY <2>1 DEF WaitingLine
  <2>3. ~ \E c \in CPU : pc[c] \in {"critical", "release"}
    BY DEF Init
  <2> QED BY <2>1, <2>2, <2>3 DEF Fifo!Init, NoGap
<1>2. IInv /\ NoGap /\ IInv' /\ NoGap' /\ [Next]_vars => [Fifo!Next]_Fifo!vars
  <2> SUFFICES ASSUME IInv, NoGap, IInv', NoGap', [Next]_vars
               PROVE  [Fifo!Next]_Fifo!vars
    OBVIOUS
  <2>1. InLine
    BY LineIsExact
  <2>2. (IInv /\ NoGap)' => InLine'
    BY LineIsExact, PTL
  <2>3. InLine'
    BY <2>2
  <2>4. TypeOK /\ TypeOK' /\ TicketWindow
    BY DEF IInv
  <2> USE DEF Fifo!vars, Fifo!Next
  <2>5. ASSUME NEW c \in CPU, GetTicket(c) PROVE Fifo!Ask(c)
    <3>1. /\ Ahead(ticket)' = Ahead(ticket) + 1 /\ Holding' = Holding \cup {c}
          /\ c \notin Holding /\ Ahead(my[c])' = Ahead(ticket) /\ Ahead(ticket) \in Nat
          /\ \A d \in Holding : Ahead(my[d])' = Ahead(my[d])
      BY <2>4, <2>5, Distances
    <3>2. \A k \in 1 .. Len(L) : L[k] # c
      BY <2>1, <3>1 DEF InLine
    <3>3. Len(L') = Len(L) + 1 /\ L \in Seq(CPU) /\ L' \in Seq(CPU) /\ Len(L) = Ahead(ticket)
      BY <2>1, <2>3, <3>1 DEF InLine
    <3>4. L'[Len(L) + 1] = c
      BY <2>1, <2>3, <3>1 DEF InLine
    <3>5. ASSUME NEW k \in 1 .. Len(L) PROVE L'[k] = L[k]
      <4>1. PICK d \in Holding : d = L[k] /\ Ahead(my[d]) = k - 1
        BY <2>1 DEF InLine
      <4>2. d \in Holding' /\ Ahead(my[d])' = k - 1
        BY <3>1, <4>1
      <4>3. L'[Ahead(my[d])' + 1] = d
        BY <2>3, <4>2 DEF InLine
      <4>4. k - 1 + 1 = k
        BY <3>3
      <4> QED BY <4>1, <4>2, <4>3, <4>4
    <3>6. L' = Append(L, c)
      <4> HIDE DEF L
      <4> QED BY <3>3, <3>4, <3>5
    <3>7. Inside' <=> Inside
      BY <2>4, <2>5 DEF GetTicket, TypeOK, Inside
    <3>8. Inside' = Inside
      BY <3>7 DEF Inside
    <3> QED BY <3>2, <3>6, <3>8 DEF Fifo!Ask, Inside
  <2>6. ASSUME NEW c \in CPU, Acquire(c) PROVE Fifo!Grant
    <3>1. UNCHANGED <<ticket, next, my>> /\ Holding' = Holding
      BY <2>4, <2>6 DEF Acquire, Holding, TypeOK
    <3>2. L' = L
      BY <2>3, <2>1, <3>1, SameLine
    <3>3. c \in Holding /\ Len(L) \in 1 .. Ahead(ticket)
      BY <2>1, <2>6 DEF Acquire, Holding, InLine
    <3>4. L # <<>>
      BY <2>1, <3>3 DEF InLine
    <3>5. ~Inside
      BY <2>4, <2>6, <3>3 DEF Inside, TicketWindow, Acquire, Holding
    <3>6. Inside'
      BY <2>4, <2>6 DEF Inside, Acquire, TypeOK
    <3> QED BY <3>2, <3>4, <3>5, <3>6 DEF Fifo!Grant, Inside
  <2>7. ASSUME NEW c \in CPU, LoadNext(c) PROVE UNCHANGED Fifo!vars
    <3>1. UNCHANGED <<ticket, next, my>> /\ Holding' = Holding
      BY <2>4, <2>7 DEF LoadNext, Holding, TypeOK
    <3>2. L' = L
      BY <2>3, <2>1, <3>1, SameLine
    <3>3. Inside /\ Inside'
      BY <2>4, <2>7 DEF LoadNext, Inside, TypeOK
    <3> QED BY <3>2, <3>3 DEF Inside
  <2>8. ASSUME NEW c \in CPU, StoreNext(c) PROVE Fifo!Release
    <3>1. /\ Ahead(ticket)' = Ahead(ticket) - 1 /\ Holding' = Holding \ {c}
          /\ c \in Holding /\ Ahead(my[c]) = 0 /\ Ahead(ticket) \in Nat
          /\ \A d \in Holding' : Ahead(my[d])' = Ahead(my[d]) - 1
      BY <2>4, <2>8, Distances
    <3>2. Len(L') = Len(L) - 1 /\ L \in Seq(CPU) /\ L' \in Seq(CPU) /\ Len(L) = Ahead(ticket)
          /\ L # <<>>
      BY <2>1, <2>3, <3>1 DEF InLine
    <3>3. ASSUME NEW k \in 1 .. Len(L') PROVE L'[k] = L[k + 1]
      <4>1. PICK d \in Holding' : d = L'[k] /\ Ahead(my[d])' = k - 1
        BY <2>3, <3>2 DEF InLine
      <4>2. d \in Holding /\ Ahead(my[d]) - 1 = k - 1 /\ Ahead(my[d]) \in Nat
        BY <2>4, <3>1, <4>1, Distances DEF Holding
      <4>3. Ahead(my[d]) = k /\ L[Ahead(my[d]) + 1] = d
        BY <2>1, <3>2, <4>2 DEF InLine
      <4> QED BY <4>1, <4>3
    <3>4. L' = Tail(L)
      <4> HIDE DEF L
      <4> QED BY <3>2, <3>3
    <3>5. Inside
      BY <2>8 DEF Inside, StoreNext
    <3>6. ~Inside'
      BY <2>4, <2>8 DEF Inside, StoreNext, TicketWindow, TypeOK, Holding
    <3> QED BY <3>4, <3>5, <3>6 DEF Fifo!Release, Inside
  <2>9. CASE UNCHANGED vars
    <3>1. UNCHANGED <<ticket, next, my, pc>> /\ Holding' = Holding
      BY <2>9 DEF vars, Holding
    <3>2. L' = L
      BY <2>3, <2>1, <3>1, SameLine
    <3> QED BY <3>1, <3>2
  <2> QED BY <2>5, <2>6, <2>7, <2>8, <2>9 DEF Next, Step
<1> QED
  BY <1>1, <1>2, GapsNever, TypeCorrect, WindowInvariant, PTL DEF Spec, ImplementsFifo, Fifo!Spec, IInv

=============================================================================
