--------------------------- MODULE CpuSyncProofs ---------------------------
(***************************************************************************)
(* The synchronisation token implements the reusable barrier of module      *)
(* Barrier, for any number of CPUs and any sequence of synchronisations.    *)
(* The inductive invariant TokenConsistent says which round the counter is  *)
(* in; its two arithmetic facts are in the first two lemmas.                *)
(*                                                                          *)
(* From there to the messages: how far a CPU is in its program determines   *)
(* how many rounds it entered (PositionOK), so no CPU sends for a place of  *)
(* the program that another still has to clear, and a box that was cleared  *)
(* of the messages of a place stays clear of them (ClearInv).               *)
(***************************************************************************)
EXTENDS CpuSync, FiniteSetTheorems, TLAPS

(* ALIGN rounds up to the end of the round, whatever the number of CPUs.    *)
LEMMA AlignRound ==
    ASSUME NEW m \in Nat, m > 0, NEW p \in Nat, NEW k \in 1 .. m
    PROVE  ALIGN(m * p + k, m) = m * p + m
<1>1. m * p \in Nat
  BY SMT
<1>2. m * p + k + m - 1 = m * (p + 1) + (k - 1)
  BY SMT
<1>3. (m * (p + 1) + (k - 1)) \div m = p + 1
  BY SMT
<1>4. (p + 1) * m = m * p + m
  BY SMT
<1> QED
  BY <1>1, <1>2, <1>3, <1>4 DEF ALIGN

(* There is a CPU, and a set of CPUs that misses one is smaller than n.     *)
LEMMA CpuCount ==
    /\ n \in Nat
    /\ n > 0
    /\ \A S \in SUBSET CPU :
           /\ IsFiniteSet(S)
           /\ Cardinality(S) \in Nat
           /\ S # CPU => Cardinality(S) < n
<1>1. n \in Nat /\ n # 0
  BY SyncAssumption, FS_CardinalityType, FS_EmptySet DEF n
<1>2. ASSUME NEW S \in SUBSET CPU
      PROVE  /\ IsFiniteSet(S)
             /\ Cardinality(S) \in Nat
             /\ S # CPU => Cardinality(S) < n
  BY <1>1, SyncAssumption, FS_Subset, FS_CardinalityType DEF n
<1> QED
  BY <1>1, <1>2

(* Every variable keeps its type.                                           *)
THEOREM TypeCorrect == Spec => []TypeOK
<1>1. Init => TypeOK
  <2> SUFFICES ASSUME Init PROVE TypeOK
    OBVIOUS
  <2>1. CountersOK
    BY SyncAssumption DEF Init, CountersOK
  <2>2. ControlOK
    BY Zenon DEF Init, ControlOK
  <2>3. MailOK
    BY DEF Init, MailOK
  <2> QED
    BY <2>1, <2>2, <2>3 DEF TypeOK
<1>2. TypeOK /\ [Next]_vars => TypeOK'
  <2> SUFFICES ASSUME CountersOK, ControlOK, MailOK, [Next]_vars PROVE TypeOK'
    BY DEF TypeOK
  <2> USE DEF Goto, token, mail, rounds
  <2>1. CASE cpu_sync_init
    <3>1. CountersOK'
      BY <2>1 DEF cpu_sync_init, CountersOK
    <3>2. ControlOK' /\ MailOK'
      BY <2>1, Zenon DEF cpu_sync_init, ControlOK, MailOK
    <3> QED
      BY <3>1, <3>2 DEF TypeOK
  <2>2. ASSUME NEW c \in CPU, NEW t \in CPU, Send(c, t) PROVE TypeOK'
    <3>1. CountersOK'
      BY <2>2, SyncAssumption DEF Send, CountersOK
    <3>2. ControlOK'
      BY <2>2, Zenon DEF Send, ControlOK
    <3>3. MailOK'
      BY <2>2 DEF Send, CountersOK, MailOK
    <3> QED
      BY <3>1, <3>2, <3>3 DEF TypeOK
  <2>3. ASSUME NEW c \in CPU, Enter(c) \/ EnterAgain(c) PROVE TypeOK'
    <3>1. ALIGN(count + 1, n) \in Nat
      BY CpuCount DEF ALIGN, CountersOK
    <3>2. CountersOK'
      BY <2>3, <3>1 DEF Enter, EnterAgain, Arrive, CountersOK
    <3>3. ControlOK' /\ MailOK'
      BY <2>3 DEF Enter, EnterAgain, Arrive, ControlOK, MailOK
    <3> QED
      BY <3>2, <3>3 DEF TypeOK
  <2>4. ASSUME NEW c \in CPU, Leave(c) \/ SpinOn(c) \/ SpinOver(c) \/ HandlerReturns(c)
        PROVE  TypeOK'
    <3>1. CountersOK'
      <4>1. CASE Leave(c)
        BY <4>1 DEF Leave, CountersOK
      <4>2. CASE SpinOn(c) \/ HandlerReturns(c)
        BY <4>2 DEF SpinOn, HandlerReturns, CountersOK
      <4>3. CASE SpinOver(c)
        <5>1. UNCHANGED <<count, next_count, at, sent, entered>>
              /\ left' = [left EXCEPT ![c] = @ + 1]
          BY <4>3 DEF SpinOver
        <5> QED
          BY <5>1 DEF CountersOK
      <4> QED
        BY <2>4, <4>1, <4>2, <4>3
    <3>2. ControlOK' /\ MailOK'
      BY <2>4 DEF Leave, SpinOn, SpinOver, HandlerReturns, ControlOK, MailOK
    <3> QED
      BY <3>1, <3>2 DEF TypeOK
  <2>5. ASSUME NEW c \in CPU, HandleMsg(c) PROVE TypeOK'
    <3>1. CountersOK'
      BY <2>5 DEF HandleMsg, CountersOK
    <3>2. ControlOK'
      BY <2>5, Zenon DEF HandleMsg, ControlOK
    <3>3. MailOK'
      BY <2>5 DEF HandleMsg, MailOK
    <3> QED
      BY <3>1, <3>2, <3>3 DEF TypeOK
  <2>6. CASE UNCHANGED vars
    BY <2>6 DEF vars, TypeOK, CountersOK, ControlOK, MailOK
  <2> QED
    BY <2>1, <2>2, <2>3, <2>4, <2>5, <2>6 DEF Next, Step
<1> QED
  BY <1>1, <1>2, PTL DEF Spec

----------------------------------------------------------------------------
(* The inductive invariant.                                                 *)
IInv == TypeOK /\ TokenConsistent

(* Where a CPU waits for its round.                                         *)
Waiting == {"wait", "spin", "spin handler"}

(* No CPU has entered a round initially.                                    *)
LEMMA InitConsistent == Init => TokenConsistent
<1> SUFFICES ASSUME Init PROVE TokenConsistent
  OBVIOUS
<1>1. Late(0) = {}
  BY DEF Init, Late
<1>2. {} # CPU
  BY SyncAssumption
<1>3. RoundInProgress(0)
  BY <1>1, <1>2, FS_EmptySet, CpuCount DEF Init, RoundInProgress
<1> QED
  BY <1>3 DEF Init, TokenConsistent

(* An arriving CPU enters the round in progress.  If it is the last one the *)
(* round is complete and the next one starts, with nobody in it.            *)
LEMMA ArriveConsistent ==
    ASSUME IInv, NEW c \in CPU, Arrive(c), pc[c] \notin Waiting
    PROVE  /\ entered[c] = left[c]
           /\ \E p \in 0 .. count' : RoundInProgress(p)'
           /\ ready'
           /\ next_count'[c] = n * entered'[c]
           /\ entered'[c] = left'[c] + 1
<1> USE DEF IInv, TypeOK
<1>1. PICK p \in 0 .. count : RoundInProgress(p)
  BY DEF TokenConsistent
<1>2. p \in Nat /\ count \in Nat /\ n \in Nat /\ n > 0
  BY <1>1, CpuCount DEF CountersOK
<1>3. entered[c] = left[c]
  BY DEF TokenConsistent, Waiting
<1>4. entered[c] = p /\ c \notin Late(p)
  BY <1>1, <1>2, <1>3 DEF RoundInProgress, Late, CountersOK
<1>5. Late(p) \in SUBSET CPU
  BY DEF Late
<1>6. /\ entered' = [entered EXCEPT ![c] = p + 1]
      /\ left' = left
      /\ count' = count + 1
  BY <1>4 DEF Arrive, CountersOK
<1>7. Late(p)' = Late(p) \cup {c}
  BY <1>2, <1>6 DEF Late, CountersOK
<1>8. Cardinality(Late(p)') = Cardinality(Late(p)) + 1
  BY <1>4, <1>5, <1>7, CpuCount, FS_AddElement
<1>9. Cardinality(Late(p)) \in Nat /\ Cardinality(Late(p)) < n
  BY <1>1, <1>5, CpuCount DEF RoundInProgress
<1>10. n * p \in Nat /\ count' = n * p + Cardinality(Late(p)')
  BY <1>1, <1>2, <1>6, <1>8, <1>9 DEF RoundInProgress
<1>11. next_count'[c] = n * (p + 1)
  <2>1. Cardinality(Late(p)) + 1 \in 1 .. n
    BY <1>2, <1>9
  <2>0. ALIGN(n * p + (Cardinality(Late(p)) + 1), n) = n * p + n
    BY <1>2, <2>1, AlignRound
  <2>2. count + 1 = n * p + (Cardinality(Late(p)) + 1)
    BY <1>6, <1>8, <1>9, <1>10, <1>2
  <2>3. next_count'[c] = ALIGN(count + 1, n)
    BY DEF Arrive, CountersOK
  <2>4. n * (p + 1) = n * p + n
    BY <1>2
  <2> QED
    BY <2>0, <2>2, <2>3, <2>4
<1>12. \A d \in Late(p)' : left'[d] = p
  BY <1>1, <1>3, <1>4, <1>6, <1>7 DEF RoundInProgress
<1>13. \A d \in CPU : entered'[d] \in {p, p + 1}
  BY <1>1, <1>6 DEF RoundInProgress, CountersOK
<1>14. CASE Late(p)' # CPU
  <2>1. RoundInProgress(p)'
    BY <1>10, <1>12, <1>13, <1>14 DEF RoundInProgress, n
  <2>2. p \in 0 .. count'
    BY <1>1, <1>2, <1>6
  <2> QED
    BY <1>3, <1>4, <1>6, <1>11, <2>1, <2>2 DEF Arrive, CountersOK
<1>15. CASE Late(p)' = CPU
  <2>1. \A d \in CPU : entered'[d] = p + 1
    BY <1>15 DEF Late
  <2>2. Late(p + 1)' = {}
    BY <1>2, <2>1 DEF Late
  <2>3. count' = n * (p + 1) + 0
    BY <1>2, <1>10, <1>15 DEF n
  <2>4. Cardinality(Late(p + 1)') = 0 /\ {} # CPU
    BY <2>2, FS_EmptySet, SyncAssumption
  <2>5. RoundInProgress(p + 1)'
    BY <2>1, <2>2, <2>3, <2>4 DEF RoundInProgress, n
  <2>6. p + 1 \in 0 .. count'
    BY <1>2, <2>3
  <2> QED
    BY <1>3, <1>4, <1>6, <1>11, <2>5, <2>6 DEF Arrive, CountersOK
<1> QED
  BY <1>14, <1>15

(* A CPU whose round is complete is not among those of the round in         *)
(* progress, so every CPU has entered its round.                            *)
LEMMA RoundComplete ==
    ASSUME IInv, NEW c \in CPU, pc[c] \in Waiting, count >= next_count[c],
           NEW p \in 0 .. count, RoundInProgress(p)
    PROVE  /\ c \notin Late(p)
           /\ entered[c] = p
           /\ entered[c] = left[c] + 1
           /\ \A d \in CPU : entered[d] >= entered[c]
<1> USE DEF IInv, TypeOK
<1>1. count \in Nat /\ n \in Nat /\ n > 0 /\ p \in Nat
  BY CpuCount DEF CountersOK
<1>2. entered[c] = left[c] + 1 /\ next_count[c] = n * entered[c]
  BY DEF TokenConsistent, Waiting
<1>3. Late(p) \in SUBSET CPU
  BY DEF Late
<1>4. Cardinality(Late(p)) \in Nat /\ Cardinality(Late(p)) < n
  BY <1>3, CpuCount DEF RoundInProgress
<1>5. n * p \in Nat /\ n * (p + 1) = n * p + n /\ count = n * p + Cardinality(Late(p))
  BY <1>1 DEF RoundInProgress
<1>6. ~(count >= n * (p + 1))
  BY <1>1, <1>4, <1>5
<1>7. entered[c] # p + 1
  BY <1>2, <1>6
<1>8. entered[c] = p
  BY <1>7 DEF RoundInProgress
<1> QED
  BY <1>1, <1>2, <1>7, <1>8 DEF RoundInProgress, Late

(* Leaving a round does not touch the CPUs of the next one.                 *)
LEMMA LeftConsistent ==
    ASSUME IInv, NEW c \in CPU, pc[c] \in Waiting, count >= next_count[c],
           left' = [left EXCEPT ![c] = @ + 1], entered' = entered, count' = count
    PROVE  \E p \in 0 .. count' : RoundInProgress(p)'
<1>1. PICK p \in 0 .. count : RoundInProgress(p)
  BY DEF IInv, TokenConsistent
<1>2. c \notin Late(p)
  BY <1>1, RoundComplete
<1>3. Late(p)' = Late(p)
  BY DEF Late
<1>4. \A d \in Late(p) : d \in CPU /\ left'[d] = left[d]
  BY <1>2 DEF IInv, TypeOK, CountersOK, Late
<1>5. RoundInProgress(p)'
  BY <1>1, <1>3, <1>4 DEF RoundInProgress, n
<1> QED
  BY <1>1, <1>5

(* The counter, the waiting CPUs and the rounds stay consistent.            *)
LEMMA NextConsistent == IInv /\ [Next]_vars => TokenConsistent'
<1> SUFFICES ASSUME IInv, [Next]_vars PROVE TokenConsistent'
  OBVIOUS
<1> USE DEF Goto, token, mail, rounds
<1>0. CountersOK /\ TokenConsistent /\ pc \in [CPU -> {"work", "spin", "spin handler",
                                                 "last handler", "again", "wait"}]
  BY DEF IInv, TypeOK, ControlOK
<1>1. ASSUME UNCHANGED <<ready, count, next_count, entered, left, pc>>
      PROVE  TokenConsistent'
  BY <1>0, <1>1 DEF TokenConsistent, RoundInProgress, Late, n
<1>2. CASE cpu_sync_init
  <2>1. count' = count
    BY <1>0, <1>2 DEF cpu_sync_init, TokenConsistent
  <2>2. ready' /\ UNCHANGED <<next_count, entered, left, pc>>
    BY <1>2 DEF cpu_sync_init
  <2> QED
    BY <1>0, <2>1, <2>2 DEF TokenConsistent, RoundInProgress, Late, n
<1>3. ASSUME NEW c \in CPU, Enter(c) \/ EnterAgain(c) PROVE TokenConsistent'
  <2>1. Arrive(c) /\ pc[c] \notin Waiting /\ pc' = [pc EXCEPT ![c] = pc'[c]] /\ pc'[c] \in {"wait", "spin"}
    BY <1>0, <1>3 DEF Enter, EnterAgain, Waiting
  <2>2. /\ \E p \in 0 .. count' : RoundInProgress(p)'
        /\ ready'
        /\ next_count'[c] = n * entered'[c]
        /\ entered'[c] = left'[c] + 1
    BY <2>1, ArriveConsistent
  <2>3. \A d \in CPU \ {c} : /\ next_count'[d] = next_count[d]
                            /\ entered'[d] = entered[d]
                            /\ left'[d] = left[d]
                            /\ pc'[d] = pc[d]
    BY <1>0, <2>1 DEF Arrive, CountersOK
  <2> QED
    BY <1>0, <2>1, <2>2, <2>3 DEF TokenConsistent, n
<1>4. ASSUME NEW c \in CPU, Leave(c) \/ SpinOver(c) PROVE TokenConsistent'
  <2>1. /\ pc[c] \in Waiting /\ count >= next_count[c]
        /\ left' = [left EXCEPT ![c] = @ + 1]
        /\ UNCHANGED <<ready, count, next_count, entered>>
        /\ pc' = [pc EXCEPT ![c] = pc'[c]] /\ pc'[c] \in {"work", "last handler"}
    BY <1>0, <1>4 DEF Leave, SpinOver, Waiting
  <2>2. \E p \in 0 .. count' : RoundInProgress(p)'
    BY <2>1, LeftConsistent
  <2>3. entered[c] = left[c] + 1
    BY <1>0, <2>1 DEF TokenConsistent, Waiting
  <2>4. entered'[c] = left'[c]
    BY <1>0, <2>1, <2>3 DEF CountersOK
  <2>5. \A d \in CPU \ {c} : left'[d] = left[d] /\ pc'[d] = pc[d]
    BY <1>0, <2>1 DEF CountersOK
  <2>6. ~ready' => count' = 0
    BY <1>0, <2>1 DEF TokenConsistent
  <2>7. ASSUME NEW d \in CPU
        PROVE  IF pc'[d] \in {"wait", "spin", "spin handler"}
               THEN entered'[d] = left'[d] + 1 /\ next_count'[d] = n * entered'[d]
               ELSE entered'[d] = left'[d]
    <3>1. CASE d = c
      BY <2>1, <2>4, <3>1
    <3>2. CASE d # c
      BY <1>0, <2>1, <2>5, <3>2 DEF TokenConsistent
    <3> QED
      BY <3>1, <3>2
  <2> QED
    BY <2>2, <2>6, <2>7, Zenon DEF TokenConsistent
<1>5. ASSUME NEW c \in CPU, SpinOn(c) \/ HandlerReturns(c) PROVE TokenConsistent'
  <2>1. /\ UNCHANGED <<ready, count, next_count, entered, left>>
        /\ \A d \in CPU : pc'[d] \in Waiting <=> pc[d] \in Waiting
    BY <1>0, <1>5 DEF SpinOn, HandlerReturns, InHandler, Waiting
  <2>2. \E p \in 0 .. count' : RoundInProgress(p)'
    BY <1>0, <2>1 DEF TokenConsistent, RoundInProgress, Late, n
  <2>3. ASSUME NEW d \in CPU
        PROVE  IF pc'[d] \in {"wait", "spin", "spin handler"}
               THEN entered'[d] = left'[d] + 1 /\ next_count'[d] = n * entered'[d]
               ELSE entered'[d] = left'[d]
    BY <1>0, <2>1 DEF TokenConsistent, Waiting
  <2>4. ~ready' => count' = 0
    BY <1>0, <2>1 DEF TokenConsistent
  <2> QED
    BY <2>2, <2>3, <2>4, Zenon DEF TokenConsistent
<1>6. ASSUME NEW c \in CPU, HandleMsg(c) PROVE TokenConsistent'
  BY <1>1, <1>6 DEF HandleMsg
<1>7. ASSUME NEW c \in CPU, NEW t \in CPU, Send(c, t) PROVE TokenConsistent'
  BY <1>1, <1>7 DEF Send
<1>8. CASE UNCHANGED vars
  BY <1>1, <1>8 DEF vars
<1> QED
  BY <1>2, <1>3, <1>4, <1>5, <1>6, <1>7, <1>8 DEF Next, Step

(* TokenConsistent is an invariant of the token.                            *)
THEOREM TokenInvariant == Spec => []TokenConsistent
BY TypeCorrect, InitConsistent, NextConsistent, PTL DEF Spec, IInv

(* Every step on the token is a step of the reusable barrier, or none: the  *)
(* CPUs enter and leave rounds, and nobody leaves a round that some CPU has *)
(* not entered.                                                             *)
THEOREM TokenIsABarrier == Spec => ImplementsBarrier
<1>1. Init => Rounds!Init
  BY DEF Init, Rounds!Init
<1>2. IInv /\ [Next]_vars => [Rounds!Next]_Rounds!vars
  <2> SUFFICES ASSUME IInv, [Next]_vars PROVE [Rounds!Next]_Rounds!vars
    OBVIOUS
  <2> USE DEF token, mail, rounds, Rounds!vars
  <2>0. CountersOK /\ TokenConsistent
    BY DEF IInv, TypeOK
  <2>1. ASSUME NEW c \in CPU, Enter(c) \/ EnterAgain(c) PROVE Rounds!Enter(c)
    <3>1. Arrive(c) /\ pc[c] \notin Waiting
      BY <2>1 DEF Enter, EnterAgain, Waiting
    <3>2. entered[c] = left[c]
      BY <3>1, ArriveConsistent
    <3> QED
      BY <3>1, <3>2 DEF Arrive, Rounds!Enter
  <2>2. ASSUME NEW c \in CPU, Leave(c) \/ SpinOver(c) PROVE Rounds!Leave(c)
    <3>1. /\ pc[c] \in Waiting /\ count >= next_count[c]
          /\ left' = [left EXCEPT ![c] = @ + 1]
          /\ entered' = entered
      BY <2>2 DEF Leave, SpinOver, Waiting
    <3>2. PICK p \in 0 .. count : RoundInProgress(p)
      BY <2>0 DEF TokenConsistent
    <3>3. /\ entered[c] = left[c] + 1
          /\ \A d \in CPU : entered[d] >= entered[c]
      BY <3>1, <3>2, RoundComplete
    <3>4. left[c] < entered[c]
      BY <2>0, <3>3 DEF CountersOK
    <3> QED
      BY <3>1, <3>3, <3>4 DEF Rounds!Leave
  <2>3. CASE cpu_sync_init
    BY <2>3 DEF cpu_sync_init
  <2>4. ASSUME NEW c \in CPU, SpinOn(c) \/ HandleMsg(c) \/ HandlerReturns(c)
        PROVE  UNCHANGED Rounds!vars
    BY <2>4 DEF SpinOn, HandleMsg, HandlerReturns
  <2>5. ASSUME NEW c \in CPU, NEW t \in CPU, Send(c, t) PROVE UNCHANGED Rounds!vars
    BY <2>5 DEF Send
  <2>6. CASE UNCHANGED vars
    BY <2>6 DEF vars
  <2> QED
    BY <2>1, <2>2, <2>3, <2>4, <2>5, <2>6 DEF Next, Step, Rounds!Next
<1> QED
  BY <1>1, <1>2, TypeCorrect, TokenInvariant, PTL
    DEF Spec, IInv, ImplementsBarrier, Rounds!Spec

----------------------------------------------------------------------------
(* The rounds of the token before position k of the program: one for every  *)
(* synchronisation, and one more for those that clear messages.             *)
Clears(k) == {j \in 1 .. k - 1 : Program[j] = "clear"}

Before(k) == k - 1 + Cardinality(Clears(k))

(* Where a CPU is in the program says which rounds it entered and left.     *)
PositionOK(c) ==
    /\ at[c] \in 1 .. Len(Program) + 1
    /\ pc[c] # "work" => at[c] <= Len(Program)
    /\ pc[c] \notin {"work", "wait"} => Program[at[c]] = "clear"
    /\ pc[c] = "work" => entered[c] = Before(at[c])
    /\ pc[c] \notin {"work", "wait"} => entered[c] = Before(at[c]) + 1
    /\ pc[c] = "wait" /\ Program[at[c]] = "clear" => entered[c] = Before(at[c]) + 2
    /\ pc[c] = "wait" /\ Program[at[c]] # "clear" => entered[c] = Before(at[c]) + 1

(* c has handled its messages in the synchronisation at position k.         *)
HasCleared(c, k) ==
    /\ Program[k] = "clear"
    /\ at[c] > k \/ (at[c] = k /\ pc[c] \in {"again", "wait"})

BoxesClear ==
    \A c \in CPU : \A k \in 1 .. Len(Program) :
        HasCleared(c, k) => \A i \in 1 .. Len(box[c]) : box[c][i] > k

ClearInv == IInv /\ (\A c \in CPU : PositionOK(c)) /\ BoxesClear

(* The program is a finite sequence.                                        *)
LEMMA ProgramLength == Len(Program) \in Nat
  BY SyncAssumption

(* Later positions come after more rounds.                                  *)
LEMMA BeforeGrows ==
    /\ \A k \in 1 .. Len(Program) + 1 : Before(k) \in Nat
    /\ \A k \in 1 .. Len(Program) :
           Before(k + 1) = IF Program[k] = "clear" THEN Before(k) + 2 ELSE Before(k) + 1
    /\ \A j, k \in 1 .. Len(Program) + 1 : j <= k => Before(j) <= Before(k)
<1>0. Len(Program) \in Nat
  BY SyncAssumption
<1>1. ASSUME NEW k \in 1 .. Len(Program) + 1
      PROVE  IsFiniteSet(Clears(k)) /\ Cardinality(Clears(k)) \in Nat
  <2>1. 1 \in Int /\ k - 1 \in Int
    BY <1>0
  <2>2. IsFiniteSet(1 .. k - 1)
    BY <2>1, FS_Interval
  <2>3. Clears(k) \in SUBSET (1 .. k - 1)
    BY DEF Clears
  <2>4. IsFiniteSet(Clears(k))
    BY <2>2, <2>3, FS_Subset
  <2> QED BY <2>4, FS_CardinalityType
<1>2. \A k \in 1 .. Len(Program) + 1 : Before(k) \in Nat
  BY <1>0, <1>1 DEF Before
<1>3. ASSUME NEW k \in 1 .. Len(Program)
      PROVE  Before(k + 1) = IF Program[k] = "clear" THEN Before(k) + 2 ELSE Before(k) + 1
  <2>1. k \in 1 .. Len(Program) + 1 /\ k + 1 - 1 = k
    BY <1>0
  <2>2. \A j : j \in 1 .. k <=> j \in 1 .. k - 1 \/ j = k
    BY <1>0
  <2>3. CASE Program[k] = "clear"
    <3>1. Clears(k + 1) = Clears(k) \cup {k} /\ k \notin Clears(k)
      BY <2>1, <2>2, <2>3 DEF Clears
    <3>2. Cardinality(Clears(k + 1)) = Cardinality(Clears(k)) + 1
      BY <1>1, <2>1, <3>1, FS_AddElement
    <3> QED BY <1>1, <2>1, <2>3, <3>2 DEF Before
  <2>4. CASE Program[k] # "clear"
    <3>1. Clears(k + 1) = Clears(k)
      BY <2>1, <2>2, <2>4 DEF Clears
    <3> QED BY <1>1, <2>1, <2>4, <3>1 DEF Before
  <2> QED BY <2>3, <2>4
<1>4. ASSUME NEW j \in 1 .. Len(Program) + 1, NEW k \in 1 .. Len(Program) + 1, j <= k
      PROVE  Before(j) <= Before(k)
  <2>1. Clears(j) \in SUBSET Clears(k)
    BY <1>0, <1>4 DEF Clears
  <2>2. Cardinality(Clears(j)) <= Cardinality(Clears(k))
    BY <1>1, <2>1, FS_Subset
  <2> QED BY <1>0, <1>1, <1>4, <2>2 DEF Before
<1> QED BY <1>2, <1>3, <1>4

(* Nobody has left a round that somebody has not entered.                   *)
LEMMA NobodyAhead ==
    ASSUME IInv, NEW c \in CPU, NEW d \in CPU
    PROVE  left[c] <= entered[d]
<1>1. PICK p \in 0 .. count : RoundInProgress(p)
  BY DEF IInv, TokenConsistent
<1>2. /\ p \in Nat /\ count \in Nat
      /\ left[c] \in Nat /\ entered[c] \in Nat /\ entered[d] \in Nat
  BY <1>1 DEF IInv, TypeOK, CountersOK
<1>3. left[c] <= p
  <2>1. CASE c \in Late(p)
    BY <1>1, <1>2, <2>1 DEF RoundInProgress
  <2>2. CASE c \notin Late(p)
    <3>1. entered[c] = p
      BY <1>1, <2>2 DEF RoundInProgress, Late
    <3>3. entered[c] = left[c] \/ entered[c] = left[c] + 1
      BY DEF IInv, TokenConsistent
    <3>2. left[c] <= entered[c]
      BY <1>2, <3>3
    <3> QED BY <3>1, <3>2
  <2> QED BY <2>1, <2>2
<1>4. entered[d] = p \/ entered[d] = p + 1
  BY <1>1 DEF RoundInProgress
<1> QED BY <1>2, <1>3, <1>4

(* A CPU has left every round that comes before its place in the program.   *)
LEMMA LeftWhere ==
    ASSUME ClearInv, NEW c \in CPU
    PROVE  Before(at[c]) \in Nat /\ left[c] >= Before(at[c])
<1>1. /\ at[c] \in 1 .. Len(Program) + 1
      /\ Before(at[c]) \in Nat /\ left[c] \in Nat
  BY BeforeGrows DEF ClearInv, IInv, TypeOK, CountersOK, PositionOK
<1>2. pc[c] \in {"work", "spin", "spin handler", "last handler", "again", "wait"}
  BY DEF ClearInv, IInv, TypeOK, ControlOK
<1>3. CASE pc[c] = "work"
  <2>1. entered[c] = Before(at[c]) /\ entered[c] = left[c]
    BY <1>3 DEF ClearInv, IInv, PositionOK, TokenConsistent
  <2> QED BY <1>1, <2>1
<1>4. CASE pc[c] \in {"last handler", "again"}
  <2>1. entered[c] = Before(at[c]) + 1 /\ entered[c] = left[c]
    BY <1>4 DEF ClearInv, IInv, PositionOK, TokenConsistent
  <2> QED BY <1>1, <2>1
<1>5. CASE pc[c] \in {"spin", "spin handler", "wait"}
  <2>1. entered[c] \in {Before(at[c]) + 1, Before(at[c]) + 2}
    BY <1>5 DEF ClearInv, PositionOK
  <2>2. entered[c] = left[c] + 1
    BY <1>5 DEF ClearInv, IInv, TokenConsistent
  <2> QED BY <1>1, <2>1, <2>2
<1> QED BY <1>2, <1>3, <1>4, <1>5

(* A CPU handles its messages only after every CPU has entered the round,   *)
(* after which nobody sends from this position or an earlier one.           *)
LEMMA SenderIsPast ==
    ASSUME ClearInv, NEW c \in CPU, NEW d \in CPU, NEW k \in 1 .. Len(Program),
           HasCleared(d, k), pc[c] = "work"
    PROVE  at[c] > k
<1>1. /\ Len(Program) \in Nat /\ at[c] \in 1 .. Len(Program) + 1 /\ at[d] \in 1 .. Len(Program) + 1
      /\ k \in 1 .. Len(Program) + 1 /\ k + 1 \in 1 .. Len(Program) + 1
  <2>1. Len(Program) \in Nat
    BY SyncAssumption
  <2>2. at[c] \in 1 .. Len(Program) + 1 /\ at[d] \in 1 .. Len(Program) + 1
    BY DEF ClearInv, PositionOK
  <2> QED BY <2>1, <2>2
<1>2. Before(k) \in Nat /\ Before(at[c]) \in Nat /\ Before(at[d]) \in Nat /\ left[d] \in Nat
  BY <1>1, BeforeGrows DEF ClearInv, IInv, TypeOK, CountersOK
<1>3. left[d] >= Before(k) + 1
  <2>1. CASE at[d] > k
    <3>1. Before(k + 1) = Before(k) + 2 /\ Before(k + 1) <= Before(at[d])
      BY <1>1, <2>1, BeforeGrows DEF HasCleared
    <3>2. left[d] >= Before(at[d])
      BY LeftWhere
    <3> QED BY <1>2, <3>1, <3>2
  <2>2. CASE at[d] = k /\ pc[d] \in {"again", "wait"}
    <3>1. CASE pc[d] = "again"
      <4>1. entered[d] = Before(k) + 1
        BY <2>2, <3>1 DEF ClearInv, PositionOK
      <4>2. entered[d] = left[d]
        BY <3>1 DEF ClearInv, IInv, TokenConsistent
      <4> QED BY <1>2, <4>1, <4>2
    <3>2. CASE pc[d] = "wait"
      <4>1. entered[d] = Before(k) + 2
        BY <2>2, <3>2 DEF ClearInv, PositionOK, HasCleared
      <4>2. entered[d] = left[d] + 1
        BY <3>2 DEF ClearInv, IInv, TokenConsistent
      <4> QED BY <1>2, <4>1, <4>2
    <3> QED BY <2>2, <3>1, <3>2
  <2> QED BY <2>1, <2>2 DEF HasCleared
<1>4. entered[c] = Before(at[c]) /\ left[d] <= entered[c]
  BY NobodyAhead DEF ClearInv, PositionOK
<1>5. ~(Before(at[c]) <= Before(k))
  BY <1>2, <1>3, <1>4
<1>6. ~(at[c] <= k)
  BY <1>1, <1>5, BeforeGrows
<1> QED BY <1>1, <1>6

(* Nothing is entered, left or sent at first.                               *)
LEMMA InitClear == Init => ClearInv
<1> SUFFICES ASSUME Init PROVE ClearInv
  OBVIOUS
<1>1. IInv
  <2>1. CountersOK
    BY SyncAssumption DEF Init, CountersOK
  <2>2. ControlOK
    BY Zenon DEF Init, ControlOK
  <2>3. MailOK
    BY DEF Init, MailOK
  <2> QED BY <2>1, <2>2, <2>3, InitConsistent DEF IInv, TypeOK
<1>2. Before(1) = 0
  <2>1. Clears(1) = {}
    BY DEF Clears
  <2> QED BY <2>1, FS_EmptySet DEF Before
<1>3. \A c \in CPU : PositionOK(c)
  BY <1>2, SyncAssumption DEF Init, PositionOK
<1>4. BoxesClear
  BY DEF Init, BoxesClear
<1> QED BY <1>1, <1>3, <1>4 DEF ClearInv

(* One CPU moves: its place in the program changes with its rounds.         *)
LEMMA PositionsKept ==
    ASSUME ClearInv, [Next]_vars
    PROVE  \A c \in CPU : PositionOK(c)'
<1> USE DEF Goto, token, mail, rounds
<1>0. /\ \A c \in CPU : PositionOK(c)
      /\ CountersOK
      /\ Len(Program) \in Nat
  BY ProgramLength DEF ClearInv, IInv, TypeOK
<1>p. pc \in [CPU -> {"work", "spin", "spin handler", "last handler", "again", "wait"}]
  BY DEF ClearInv, IInv, TypeOK, ControlOK
<1>1. ASSUME UNCHANGED <<at, pc, entered>> PROVE \A c \in CPU : PositionOK(c)'
  BY <1>0, <1>1 DEF PositionOK
<1>2. ASSUME NEW c \in CPU, \A d \in CPU \ {c} : at'[d] = at[d] /\ pc'[d] = pc[d] /\ entered'[d] = entered[d],
             PositionOK(c)'
      PROVE  \A d \in CPU : PositionOK(d)'
  <2> TAKE d \in CPU
  <2>1. CASE d = c
    BY <1>2, <2>1
  <2>2. CASE d # c
    BY <1>0, <1>2, <2>2 DEF PositionOK, Before, Clears
  <2> QED BY <2>1, <2>2
<1>3. ASSUME NEW c \in CPU, Enter(c) \/ EnterAgain(c) PROVE \A d \in CPU : PositionOK(d)'
  <2>1. /\ at' = at /\ entered'[c] = entered[c] + 1
        /\ \A d \in CPU \ {c} : at'[d] = at[d] /\ pc'[d] = pc[d] /\ entered'[d] = entered[d]
    BY <1>0, <1>p, <1>3 DEF Enter, EnterAgain, Arrive, CountersOK
  <2>2. at[c] \in 1 .. Len(Program) /\ Before(at[c]) \in Nat
    <3>1. at[c] \in 1 .. Len(Program) + 1 /\ at[c] <= Len(Program)
      BY <1>0, <1>3 DEF Enter, EnterAgain, PositionOK
    <3> QED BY <1>0, <3>1, BeforeGrows
  <2>3. Program[at[c]] \in {"barrier", "clear"}
    BY <2>2, SyncAssumption
  <2>4. CASE Enter(c)
    <3>1. /\ entered[c] = Before(at[c])
          /\ pc'[c] = IF Program[at[c]] = "barrier" THEN "wait" ELSE "spin"
      BY <1>0, <1>p, <2>4 DEF Enter, PositionOK
    <3>2. PositionOK(c)'
      BY <1>0, <2>1, <2>2, <2>3, <3>1 DEF PositionOK, Before, Clears
    <3> QED BY <1>2, <2>1, <3>2
  <2>5. CASE EnterAgain(c)
    <3>1. /\ entered[c] = Before(at[c]) + 1 /\ Program[at[c]] = "clear"
          /\ pc'[c] = "wait"
      BY <1>0, <1>p, <2>5 DEF EnterAgain, PositionOK
    <3>2. PositionOK(c)'
      BY <1>0, <2>1, <2>2, <3>1 DEF PositionOK, Before, Clears
    <3> QED BY <1>2, <2>1, <3>2
  <2> QED BY <1>3, <2>4, <2>5
<1>4. ASSUME NEW c \in CPU, Leave(c) PROVE \A d \in CPU : PositionOK(d)'
  <2>1. /\ at'[c] = at[c] + 1 /\ pc[c] = "wait" /\ pc'[c] = "work" /\ entered' = entered
        /\ \A d \in CPU \ {c} : at'[d] = at[d] /\ pc'[d] = pc[d] /\ entered'[d] = entered[d]
    BY <1>0, <1>p, <1>4 DEF Leave, CountersOK
  <2>2. at[c] \in 1 .. Len(Program)
    BY <1>0, <2>1 DEF PositionOK
  <2>3. entered[c] = Before(at[c] + 1)
    BY <1>0, <2>1, <2>2, BeforeGrows DEF PositionOK
  <2>4. Before(at[c])' = Before(at[c] + 1)
    BY <2>1 DEF Before, Clears
  <2>5. PositionOK(c)'
    BY <1>0, <2>1, <2>2, <2>3, <2>4 DEF PositionOK
  <2> QED BY <1>2, <2>1, <2>5
<1>5. ASSUME NEW c \in CPU, SpinOn(c) \/ SpinOver(c) \/ HandlerReturns(c)
      PROVE  \A d \in CPU : PositionOK(d)'
  <2>1. /\ at' = at /\ entered' = entered
        /\ pc[c] \in {"spin", "spin handler", "last handler"}
        /\ pc'[c] \in {"spin", "spin handler", "last handler", "again"}
        /\ \A d \in CPU \ {c} : at'[d] = at[d] /\ pc'[d] = pc[d] /\ entered'[d] = entered[d]
    BY <1>0, <1>p, <1>5 DEF SpinOn, SpinOver, HandlerReturns, InHandler
  <2>2. PositionOK(c)'
    BY <1>0, <2>1 DEF PositionOK, Before, Clears
  <2> QED BY <1>2, <2>1, <2>2
<1>6. ASSUME NEW c \in CPU, HandleMsg(c) PROVE \A d \in CPU : PositionOK(d)'
  BY <1>1, <1>6 DEF HandleMsg
<1>7. ASSUME NEW c \in CPU, NEW t \in CPU, Send(c, t) PROVE \A d \in CPU : PositionOK(d)'
  BY <1>1, <1>7 DEF Send
<1>8. CASE UNCHANGED vars \/ cpu_sync_init
  BY <1>1, <1>8 DEF vars, cpu_sync_init
<1> QED
  BY <1>3, <1>4, <1>5, <1>6, <1>7, <1>8 DEF Next, Step

(* A message taken leaves the others; what a box loses is no harm.          *)
LEMMA BoxesKept ==
    ASSUME ClearInv, [Next]_vars
    PROVE  BoxesClear'
<1> USE DEF Goto, token, mail, rounds
<1>0. /\ \A c \in CPU : PositionOK(c)
      /\ at \in [CPU -> Nat] /\ box \in [CPU -> Seq(Nat)]
      /\ Len(Program) \in Nat
      /\ BoxesClear
  BY ProgramLength DEF ClearInv, IInv, TypeOK, CountersOK, MailOK
<1>p. pc \in [CPU -> {"work", "spin", "spin handler", "last handler", "again", "wait"}]
  BY DEF ClearInv, IInv, TypeOK, ControlOK
<1>1. ASSUME UNCHANGED box,
             \A c \in CPU, k \in 1 .. Len(Program) : HasCleared(c, k)' => HasCleared(c, k)
      PROVE  BoxesClear'
  BY <1>0, <1>1 DEF BoxesClear
<1>2. ASSUME UNCHANGED at, UNCHANGED pc
      PROVE  \A c \in CPU, k \in 1 .. Len(Program) : HasCleared(c, k)' <=> HasCleared(c, k)
  BY <1>2 DEF HasCleared
<1>3. ASSUME NEW c \in CPU, Leave(c) PROVE BoxesClear'
  <2>1. /\ at'[c] = at[c] + 1 /\ pc[c] = "wait" /\ pc'[c] = "work" /\ box' = box
        /\ \A d \in CPU \ {c} : at'[d] = at[d] /\ pc'[d] = pc[d]
    BY <1>0, <1>p, <1>3 DEF Leave
  <2>2. \A k \in 1 .. Len(Program) : HasCleared(c, k)' => HasCleared(c, k)
    BY <1>0, <2>1 DEF HasCleared
  <2>3. \A d \in CPU \ {c}, k \in 1 .. Len(Program) : HasCleared(d, k)' => HasCleared(d, k)
    BY <2>1 DEF HasCleared
  <2> QED BY <1>1, <2>1, <2>2, <2>3
<1>4. ASSUME NEW c \in CPU, Enter(c) \/ EnterAgain(c) \/ SpinOn(c) \/ SpinOver(c)
      PROVE  BoxesClear'
  <2>1. /\ at' = at /\ box' = box
        /\ \A d \in CPU \ {c} : pc'[d] = pc[d]
    BY <1>0, <1>p, <1>4 DEF Enter, EnterAgain, SpinOn, SpinOver, Arrive
  <2>2. \/ pc'[c] \in {"spin", "spin handler", "last handler"}
        \/ pc'[c] = "wait" /\ Program[at[c]] = "barrier"
        \/ pc'[c] = "wait" /\ pc[c] = "again"
    BY <1>0, <1>p, <1>4 DEF Enter, EnterAgain, SpinOn, SpinOver
  <2>3. \A k \in 1 .. Len(Program) : HasCleared(c, k)' => HasCleared(c, k)
    BY <2>1, <2>2 DEF HasCleared
  <2>4. \A d \in CPU \ {c}, k \in 1 .. Len(Program) : HasCleared(d, k)' => HasCleared(d, k)
    BY <2>1 DEF HasCleared
  <2> QED BY <1>1, <2>1, <2>3, <2>4
<1>5. ASSUME NEW c \in CPU, HandlerReturns(c) PROVE BoxesClear'
  <2>1. /\ at' = at /\ box' = box /\ box[c] = <<>>
        /\ \A d \in CPU \ {c} : pc'[d] = pc[d]
    BY <1>0, <1>p, <1>5 DEF HandlerReturns
  <2>2. \A d \in CPU \ {c}, k \in 1 .. Len(Program) : HasCleared(d, k)' => HasCleared(d, k)
    BY <2>1 DEF HasCleared
  <2> QED BY SMTT(40), <1>0, <2>1, <2>2 DEF BoxesClear
<1>6. ASSUME NEW c \in CPU, HandleMsg(c) PROVE BoxesClear'
  <2>1. UNCHANGED at /\ UNCHANGED pc
    BY <1>6 DEF HandleMsg
  <2>2. /\ \A d \in CPU \ {c} : box'[d] = box[d]
        /\ box'[c] = Tail(box[c]) /\ box[c] \in Seq(Nat) /\ box[c] # <<>>
    BY <1>0, <1>6 DEF HandleMsg
  <2>3. \A i \in 1 .. Len(Tail(box[c])) :
            i + 1 \in 1 .. Len(box[c]) /\ Tail(box[c])[i] = box[c][i + 1]
    BY <2>2
  <2>4. \A d \in CPU : \A i \in 1 .. Len(box'[d]) : \E j \in 1 .. Len(box[d]) : box'[d][i] = box[d][j]
    BY <2>2, <2>3
  <2> QED BY <1>0, <1>2, <2>1, <2>4 DEF BoxesClear
<1>7. ASSUME NEW c \in CPU, NEW t \in CPU, Send(c, t) PROVE BoxesClear'
  <2>1. UNCHANGED at /\ UNCHANGED pc /\ pc[c] = "work"
    BY <1>7 DEF Send
  <2>2. /\ \A d \in CPU \ {t} : box'[d] = box[d]
        /\ box'[t] = Append(box[t], at[c]) /\ box[t] \in Seq(Nat) /\ at[c] \in Nat
    BY <1>0, <1>7 DEF Send
  <2>3. \A i \in 1 .. Len(box'[t]) :
            box'[t][i] = at[c] \/ \E j \in 1 .. Len(box[t]) : box'[t][i] = box[t][j]
    BY <2>2
  <2>4. \A k \in 1 .. Len(Program) : HasCleared(t, k) => at[c] > k
    BY <2>1, SenderIsPast
  <2>5. ASSUME NEW d \in CPU, NEW k \in 1 .. Len(Program), HasCleared(d, k)',
               NEW i \in 1 .. Len(box'[d])
        PROVE  box'[d][i] > k
    <3>1. HasCleared(d, k)
      BY <1>2, <2>1, <2>5
    <3>2. CASE d = t
      BY <1>0, <2>3, <2>4, <3>1, <3>2 DEF BoxesClear
    <3>3. CASE d # t
      BY <1>0, <2>2, <3>1, <3>3 DEF BoxesClear
    <3> QED BY <3>2, <3>3
  <2> QED BY <2>5 DEF BoxesClear
<1>8. CASE UNCHANGED vars \/ cpu_sync_init
  <2>1. UNCHANGED <<at, pc, box>>
    BY <1>8 DEF vars, cpu_sync_init
  <2> QED BY <1>1, <1>2, <2>1
<1> QED
  BY <1>3, <1>4, <1>5, <1>6, <1>7, <1>8 DEF Next, Step

(* Past a cpu_sync_and_clear_msgs nothing is left of what any CPU sent      *)
(* before its own call of it, for any number of CPUs and any program.       *)
THEOREM NothingLeftOver == Spec => []MessagesCleared
<1>1. TypeOK' /\ TokenConsistent' /\ ClearInv /\ [Next]_vars => ClearInv'
  BY PositionsKept, BoxesKept DEF ClearInv, IInv
<1>2. ClearInv => MessagesCleared
  <2> SUFFICES ASSUME ClearInv, NEW c \in CPU, NEW d \in CPU, NEW i \in 1 .. Len(box[d]),
                      NEW k \in 1 .. Len(Program), Program[k] = "clear", at[c] > k
               PROVE  box[d][i] > k
    BY DEF MessagesCleared
  <2>1. /\ Len(Program) \in Nat /\ at[c] \in 1 .. Len(Program) + 1
        /\ at[d] \in 1 .. Len(Program) + 1
    <3>1. Len(Program) \in Nat
      BY SyncAssumption
    <3> QED BY <3>1 DEF ClearInv, PositionOK
  <2>2. k \in 1 .. Len(Program) + 1 /\ k + 1 \in 1 .. Len(Program) + 1
    BY <2>1
  <2>3. Before(k + 1) = Before(k) + 2 /\ Before(k + 1) <= Before(at[c]) /\ Before(k) \in Nat
    <3>1. Before(k + 1) = Before(k) + 2 /\ Before(k) \in Nat
      BY <2>2, BeforeGrows
    <3>2. k + 1 <= at[c]
      BY <2>1
    <3> QED BY <2>1, <2>2, <3>1, <3>2, BeforeGrows
  <2>4. left[c] >= Before(at[c]) /\ Before(at[c]) \in Nat
    BY LeftWhere
  <2>5. left[c] <= entered[d] /\ left[c] \in Nat /\ entered[d] \in Nat
    BY NobodyAhead DEF ClearInv, IInv, TypeOK, CountersOK
  <2>6. entered[d] >= Before(k) + 2
    BY <2>3, <2>4, <2>5
  <2>7. CASE at[d] > k
    BY <2>7 DEF ClearInv, BoxesClear, HasCleared
  <2>8. CASE at[d] = k
    <3>1. PositionOK(d)
      BY DEF ClearInv
    <3>2. pc[d] # "work" /\ (pc[d] \notin {"work", "wait"} => FALSE)
      BY <2>3, <2>6, <2>8, <3>1 DEF PositionOK
    <3>3. pc[d] = "wait"
      BY <3>2
    <3> QED BY <2>8, <3>3 DEF ClearInv, BoxesClear, HasCleared
  <2>9. CASE at[d] < k
    <3>1. at[d] \in 1 .. Len(Program) /\ at[d] + 1 \in 1 .. Len(Program) + 1 /\ at[d] + 1 <= k
      BY <2>1, <2>9
    <3>2. Before(at[d] + 1) <= Before(k) /\ Before(at[d]) \in Nat
      BY <2>1, <2>2, <3>1, BeforeGrows
    <3>3. PositionOK(d)
      BY DEF ClearInv
    <3>4. Before(at[d] + 1) = IF Program[at[d]] = "clear" THEN Before(at[d]) + 2
                                                          ELSE Before(at[d]) + 1
      BY <3>1, BeforeGrows
    <3>5. entered[d] <= Before(at[d] + 1)
      BY <3>2, <3>3, <3>4 DEF PositionOK
    <3>6. Before(k) \in Nat /\ Before(at[d] + 1) \in Nat
      BY <2>1, <2>2, <3>1, BeforeGrows
    <3> QED BY <2>5, <2>6, <3>2, <3>5, <3>6
  <2> QED BY <2>1, <2>7, <2>8, <2>9
<1> QED
  BY <1>1, <1>2, InitClear, TypeCorrect, TokenInvariant, PTL DEF Spec

=============================================================================
