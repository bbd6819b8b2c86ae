--------------------------- MODULE SpscRingProofs ----------------------------
(***************************************************************************)
(* Proofs about SpscRing, for every capacity, word size and item set.      *)
(***************************************************************************)
EXTENDS SpscRing, SequenceTheorems, TLAPS

-----------------------------------------------------------------------------
(* Arithmetic of cells *)

\* No multiple of CAP lies strictly between 0 and CAP.
LEMMA NoMultipleBetween ==
  ASSUME NEW x \in Int
  PROVE  ~ (0 < CAP * x /\ CAP * x < CAP)
<1>1. CASE x <= 0
  BY <1>1, CapAssumption
<1>2. CASE x >= 1
  BY <1>2, CapAssumption
<1>3. QED
  BY <1>1, <1>2

\* A word is CAP times its quotient plus its cell.
LEMMA CellDivision ==
  ASSUME NEW n \in Nat
  PROVE  /\ n \div CAP \in Int
         /\ n = CAP * (n \div CAP) + Cell(n)
         /\ Cell(n) \in 0 .. CAP - 1
BY CapAssumption DEF Cell

\* Fewer than CAP places past n, around the end of the word too, the ring is
\* in another cell.
LEMMA CellDistinct ==
  ASSUME NEW n \in Words, NEW d \in 1 .. CAP - 1
  PROVE  Cell(WrappingAdd(n, d)) # Cell(n)
<1> DEFINE m == WrappingAdd(n, d)
           qn == n \div CAP
           qm == m \div CAP
<1>1. n \in Nat /\ m \in Nat /\ d \in Nat /\ 0 < d /\ d < CAP
  BY CapAssumption, WordAssumption DEF Words, WrappingAdd
<1>2. PICK k \in 1 .. WORD : WORD = k * CAP
  BY WordAssumption
<1>4. SUFFICES ASSUME Cell(m) = Cell(n) PROVE FALSE
  OBVIOUS
<1> HIDE DEF m
<1>a. qn \in Int /\ n = CAP * qn + Cell(n) /\ Cell(n) \in 0 .. CAP - 1
  BY <1>1, CellDivision
<1>b. qm \in Int /\ m = CAP * qm + Cell(m) /\ Cell(m) \in 0 .. CAP - 1
  BY <1>1, CellDivision
<1>3. /\ qn \in Int /\ n = CAP * qn + Cell(n) /\ Cell(n) \in Int
      /\ qm \in Int /\ m = CAP * qm + Cell(m) /\ Cell(m) \in Int
  <2> HIDE DEF qn, qm
  <2> QED BY <1>a, <1>b, CapAssumption
<1> HIDE DEF qn, qm
<1>5. CASE n + d < WORD
  <2>1. m = n + d
    BY <1>5 DEF m, WrappingAdd
  <2>2. d = CAP * qm - CAP * qn
    BY <2>1, <1>1, <1>3, <1>4, CapAssumption
  <2>3. d = CAP * (qm - qn)
    BY <2>2, <1>3, CapAssumption
  <2>4. QED
    BY <2>3, <1>1, <1>3, NoMultipleBetween
<1>6. CASE ~ (n + d < WORD)
  <2>1. m = n + d - WORD
    BY <1>6 DEF m, WrappingAdd
  <2>2. d = CAP * qm - CAP * qn + k * CAP
    BY <2>1, <1>1, <1>2, <1>3, <1>4, CapAssumption
  <2>3. d = CAP * (qm - qn + k)
    BY <2>2, <1>2, <1>3, CapAssumption
  <2>4. QED
    BY <2>3, <1>1, <1>2, <1>3, NoMultipleBetween
<1>7. QED
  BY <1>5, <1>6

\* head is Occupancy places past tail.
LEMMA HeadFromTail ==
  ASSUME NEW h \in Words, NEW t \in Words
  PROVE  /\ WrappingSub(h, t) \in Words
         /\ h = WrappingAdd(t, WrappingSub(h, t))
BY CapAssumption, WordAssumption DEF Words, WrappingSub, WrappingAdd

\* In a ring that is neither empty nor full the cell push fills is not the
\* cell pop empties.
LEMMA HeadTailCells ==
  ASSUME NEW h \in Words, NEW t \in Words,
         WrappingSub(h, t) > 0, WrappingSub(h, t) < CAP
  PROVE  Cell(h) # Cell(t)
<1>1. WrappingSub(h, t) \in 1 .. CAP - 1
  BY CapAssumption, WordAssumption DEF Words, WrappingSub
<1>2. QED
  BY <1>1, HeadFromTail, CellDistinct

-----------------------------------------------------------------------------
(* Types of the results *)

LEMMA ResultTypes ==
  /\ Pending \in Results /\ Ok \in Results
  /\ Full \in Results /\ Empty \in Results
  /\ \A i \in Items : Got(i) \in Results
  /\ \A n \in 0 .. CAP : Depth(n) \in Results
  /\ Ok # Pending /\ Full # Pending /\ Empty # Pending
  /\ \A i \in Items : Got(i) # Pending
  /\ \A n \in 0 .. CAP : Depth(n) # Pending
BY DEF Results, Pending, Ok, Full, Empty, Got, Depth

-----------------------------------------------------------------------------
(* The initial state *)

LEMMA InitInv == Init => RingInv
<1> SUFFICES ASSUME Init PROVE RingInv
  OBVIOUS
<1>1. 0 \in Words
  BY WordAssumption, CapAssumption DEF Words
<1>2. TypeOK
  BY <1>1, DefaultAssumption, CapAssumption, ResultTypes DEF Init, TypeOK, PCs
<1>3. Occupancy = 0
  BY WordAssumption DEF Init, Occupancy, WrappingSub
<1>4. OccupancyBounded
  BY <1>3, CapAssumption DEF OccupancyBounded
<1>5. RolesInv /\ ProducerInv /\ ConsumerInv
  BY ResultTypes DEF Init, RolesInv, ProducerInv, ConsumerInv, PushPCs, PopPCs
<1>6. QED
  BY <1>2, <1>4, <1>5 DEF RingInv

-----------------------------------------------------------------------------
(* Every step *)

\* A push adds one to the occupancy of a ring that is not full, a pop takes
\* one from the occupancy of a ring that is not empty.
LEMMA OccupancySteps ==
  ASSUME NEW h \in Words, NEW t \in Words
  PROVE  /\ WrappingInc(h) \in Words
         /\ WrappingSub(h, t) < CAP
              => WrappingSub(WrappingInc(h), t) = WrappingSub(h, t) + 1
         /\ WrappingSub(h, t) > 0
              => WrappingSub(h, WrappingInc(t)) = WrappingSub(h, t) - 1
BY CapAssumption, WordAssumption DEF Words, WrappingInc, WrappingSub

LEMMA ClampedLenType ==
  ASSUME NEW h \in Words, NEW t \in Words
  PROVE  ClampedLen(h, t) \in 0 .. CAP
BY CapAssumption, WordAssumption DEF Words, ClampedLen

LEMMA StepInv ==
  ASSUME SingleRoles, RingInv, [Next]_vars
  PROVE  RingInv'
<1> USE DEF RingInv
<1>0. head \in Words /\ tail \in Words /\ CAP \in Int
  BY CapAssumption DEF TypeOK
<1>01. Occupancy \in Int
  BY <1>0, HeadFromTail, WordAssumption DEF Occupancy, Words
<1>1. ASSUME NEW p \in Producers, NEW i \in Items, PushLoadHead(p, i)
      PROVE  RingInv'
  <2> p \in Procs
    BY DEF Procs
  <2> USE <1>1 DEF PushLoadHead, Goto
  <2>1. TypeOK'
    BY ResultTypes DEF TypeOK, PCs
  <2>2. Occupancy' = Occupancy
    BY DEF Occupancy
  <2>3. OccupancyBounded'
    BY <2>2 DEF OccupancyBounded
  <2>4. RolesInv'
    BY DEF RolesInv, TypeOK, PushPCs, PopPCs
  <2>5. ProducerInv'
    BY <2>2 DEF ProducerInv, TypeOK, PushPCs
  <2>6. ConsumerInv'
    BY <2>2 DEF ConsumerInv, TypeOK, PopPCs
  <2>7. QED
    BY <2>1, <2>3, <2>4, <2>5, <2>6
<1>2. ASSUME NEW p \in Producers, PushLoadTail(p)
      PROVE  RingInv'
  <2> p \in Procs
    BY DEF Procs
  <2> USE <1>2 DEF PushLoadTail, Goto
  <2>1. TypeOK'
    BY ResultTypes DEF TypeOK, PCs
  <2>2. Occupancy' = Occupancy
    BY DEF Occupancy
  <2>3. OccupancyBounded'
    BY <2>2 DEF OccupancyBounded
  <2>4. RolesInv'
    BY ResultTypes DEF RolesInv, TypeOK, PushPCs, PopPCs
  <2>5. lhead[p] = head
    BY DEF ProducerInv, PushPCs
  <2>6. pc'[p] = "push_write" => Occupancy < CAP
    BY <2>5, <1>0, <1>01 DEF PushIsFull, Occupancy, TypeOK
  <2>7. ProducerInv'
    BY <2>2, <2>6 DEF ProducerInv, TypeOK, PushPCs
  <2>8. ConsumerInv'
    BY <2>2 DEF ConsumerInv, TypeOK, PopPCs
  <2>9. QED
    BY <2>1, <2>3, <2>4, <2>7, <2>8
<1>3. ASSUME NEW p \in Producers, PushWrite(p)
      PROVE  RingInv'
  <2> p \in Procs
    BY DEF Procs
  <2> USE <1>3 DEF PushWrite, Goto
  <2>1. lhead[p] = head /\ Occupancy < CAP
    BY DEF ProducerInv, PushPCs
  <2>2. Cell(head) \in 0 .. CAP - 1 /\ Cell(tail) \in 0 .. CAP - 1
    BY <1>0, CellDivision DEF Words
  <2>3. TypeOK'
    BY <2>1, <2>2 DEF TypeOK, PCs
  <2>4. Occupancy' = Occupancy
    BY DEF Occupancy
  <2>5. OccupancyBounded'
    BY <2>4 DEF OccupancyBounded
  <2>6. RolesInv'
    BY DEF RolesInv, TypeOK, PushPCs, PopPCs
  <2>7. \A q \in Procs : pc[q] \in PushPCs => q = p
    BY DEF RolesInv, SingleRoles
  <2>8. buffer'[Cell(head)] = litem[p]
    BY <2>1, <2>2 DEF TypeOK
  <2>9. ProducerInv'
    BY <2>1, <2>4, <2>7, <2>8 DEF ProducerInv, TypeOK, PushPCs
  <2>10. Occupancy > 0 => buffer'[Cell(tail)] = buffer[Cell(tail)]
    BY <2>1, <2>2, <1>0, HeadTailCells DEF TypeOK, Occupancy
  <2>11. ConsumerInv'
    BY <2>4, <2>10 DEF ConsumerInv, TypeOK, PopPCs
  <2>12. QED
    BY <2>3, <2>5, <2>6, <2>9, <2>11
<1>4. ASSUME NEW p \in Producers, PushStoreHead(p)
      PROVE  RingInv'
  <2> p \in Procs
    BY DEF Procs
  <2> USE <1>4 DEF PushStoreHead, Goto
  <2>1. lhead[p] = head /\ Occupancy < CAP
    BY DEF ProducerInv, PushPCs
  <2>2. TypeOK'
    BY <2>1, <1>0, OccupancySteps, ResultTypes DEF TypeOK, PCs
  <2>3. Occupancy' = Occupancy + 1
    BY <2>1, <1>0, OccupancySteps DEF Occupancy
  <2>4. OccupancyBounded'
    BY <2>1, <2>3, <1>0, <1>01 DEF OccupancyBounded
  <2>5. RolesInv'
    BY ResultTypes DEF RolesInv, TypeOK, PushPCs, PopPCs
  <2>6. \A q \in Procs : pc[q] \in PushPCs => q = p
    BY DEF RolesInv, SingleRoles
  <2>7. ProducerInv'
    BY <2>6 DEF ProducerInv, TypeOK, PushPCs
  <2>8. ConsumerInv'
    BY <2>3, <1>01 DEF ConsumerInv, TypeOK, PopPCs
  <2>9. QED
    BY <2>2, <2>4, <2>5, <2>7, <2>8
<1>5. ASSUME NEW p \in Consumers, PopLoadTail(p)
      PROVE  RingInv'
  <2> p \in Procs
    BY DEF Procs
  <2> USE <1>5 DEF PopLoadTail, Goto
  <2>1. TypeOK'
    BY ResultTypes DEF TypeOK, PCs
  <2>2. Occupancy' = Occupancy
    BY DEF Occupancy
  <2>3. OccupancyBounded'
    BY <2>2 DEF OccupancyBounded
  <2>4. RolesInv'
    BY DEF RolesInv, TypeOK, PushPCs, PopPCs
  <2>5. ProducerInv'
    BY <2>2 DEF ProducerInv, TypeOK, PushPCs
  <2>6. ConsumerInv'
    BY <2>2 DEF ConsumerInv, TypeOK, PopPCs
  <2>7. QED
    BY <2>1, <2>3, <2>4, <2>5, <2>6
<1>6. ASSUME NEW p \in Consumers, PopLoadHead(p)
      PROVE  RingInv'
  <2> p \in Procs
    BY DEF Procs
  <2> USE <1>6 DEF PopLoadHead, Goto
  <2>1. TypeOK'
    BY ResultTypes DEF TypeOK, PCs
  <2>2. Occupancy' = Occupancy
    BY DEF Occupancy
  <2>3. OccupancyBounded'
    BY <2>2 DEF OccupancyBounded
  <2>4. RolesInv'
    BY ResultTypes DEF RolesInv, TypeOK, PushPCs, PopPCs
  <2>5. ltail[p] = tail
    BY DEF ConsumerInv, PopPCs
  <2>6. pc'[p] = "pop_read" => Occupancy > 0
    BY <2>5, <1>0, WordAssumption
       DEF PopIsEmpty, Occupancy, WrappingSub, Words, TypeOK
  <2>7. ProducerInv'
    BY <2>2 DEF ProducerInv, TypeOK, PushPCs
  <2>8. ConsumerInv'
    BY <2>2, <2>6 DEF ConsumerInv, TypeOK, PopPCs
  <2>9. QED
    BY <2>1, <2>3, <2>4, <2>7, <2>8
<1>7. ASSUME NEW p \in Consumers, PopRead(p)
      PROVE  RingInv'
  <2> p \in Procs
    BY DEF Procs
  <2> USE <1>7 DEF PopRead, Goto
  <2>1. ltail[p] = tail /\ Occupancy > 0
    BY DEF ConsumerInv, PopPCs
  <2>2. Cell(tail) \in 0 .. CAP - 1
    BY <1>0, CellDivision DEF Words
  <2>3. TypeOK'
    BY <2>1, <2>2 DEF TypeOK, PCs
  <2>4. Occupancy' = Occupancy
    BY DEF Occupancy
  <2>5. OccupancyBounded'
    BY <2>4 DEF OccupancyBounded
  <2>6. RolesInv'
    BY DEF RolesInv, TypeOK, PushPCs, PopPCs
  <2>7. ProducerInv'
    BY <2>4 DEF ProducerInv, TypeOK, PushPCs
  <2>8. ConsumerInv'
    BY <2>1, <2>4 DEF ConsumerInv, TypeOK, PopPCs
  <2>9. QED
    BY <2>3, <2>5, <2>6, <2>7, <2>8
<1>8. ASSUME NEW p \in Consumers, PopStoreTail(p)
      PROVE  RingInv'
  <2> p \in Procs
    BY DEF Procs
  <2> USE <1>8 DEF PopStoreTail, Goto
  <2>1. ltail[p] = tail /\ Occupancy > 0
    BY DEF ConsumerInv, PopPCs
  <2>2. TypeOK'
    BY <2>1, <1>0, OccupancySteps, ResultTypes DEF TypeOK, PCs
  <2>3. Occupancy' = Occupancy - 1
    BY <2>1, <1>0, OccupancySteps DEF Occupancy
  <2>4. OccupancyBounded'
    BY <2>3, <1>0, <1>01 DEF OccupancyBounded
  <2>5. RolesInv'
    BY ResultTypes DEF RolesInv, TypeOK, PushPCs, PopPCs
  <2>6. \A q \in Procs : pc[q] \in PopPCs => q = p
    BY DEF RolesInv, SingleRoles
  <2>7. ProducerInv'
    BY <2>3, <1>0, <1>01 DEF ProducerInv, TypeOK, PushPCs
  <2>8. ConsumerInv'
    BY <2>6 DEF ConsumerInv, TypeOK, PopPCs
  <2>9. QED
    BY <2>2, <2>4, <2>5, <2>7, <2>8
<1>9. ASSUME NEW p \in Observers, LenLoadHead(p)
      PROVE  RingInv'
  <2> p \in Procs
    BY DEF Procs
  <2> USE <1>9 DEF LenLoadHead, Goto
  <2>1. TypeOK'
    BY ResultTypes DEF TypeOK, PCs
  <2>2. Occupancy' = Occupancy
    BY DEF Occupancy
  <2>3. OccupancyBounded'
    BY <2>2 DEF OccupancyBounded
  <2>4. RolesInv'
    BY DEF RolesInv, TypeOK, PushPCs, PopPCs
  <2>5. ProducerInv'
    BY <2>2 DEF ProducerInv, TypeOK, PushPCs
  <2>6. ConsumerInv'
    BY <2>2 DEF ConsumerInv, TypeOK, PopPCs
  <2>7. QED
    BY <2>1, <2>3, <2>4, <2>5, <2>6
<1>10. ASSUME NEW p \in Observers, LenLoadTail(p)
       PROVE  RingInv'
  <2> p \in Procs
    BY DEF Procs
  <2> USE <1>10 DEF LenLoadTail, Goto
  <2>1. ClampedLen(lhead[p], tail) \in 0 .. CAP
    BY <1>0, ClampedLenType DEF TypeOK
  <2>2. TypeOK'
    BY <2>1, ResultTypes DEF TypeOK, PCs
  <2>3. Occupancy' = Occupancy
    BY DEF Occupancy
  <2>4. OccupancyBounded'
    BY <2>3 DEF OccupancyBounded
  <2>5. RolesInv'
    BY <2>1, ResultTypes DEF RolesInv, TypeOK, PushPCs, PopPCs
  <2>6. ProducerInv'
    BY <2>3 DEF ProducerInv, TypeOK, PushPCs
  <2>7. ConsumerInv'
    BY <2>3 DEF ConsumerInv, TypeOK, PopPCs
  <2>8. QED
    BY <2>2, <2>4, <2>5, <2>6, <2>7
<1>11. CASE UNCHANGED vars
  <2>1. Occupancy' = Occupancy
    BY <1>11 DEF vars, Occupancy
  <2>2. QED
    BY <1>11, <2>1
       DEF vars, TypeOK, OccupancyBounded, RolesInv, ProducerInv, ConsumerInv
<1>12. QED
  BY <1>1, <1>2, <1>3, <1>4, <1>5, <1>6, <1>7, <1>8, <1>9, <1>10, <1>11
     DEF Next, Push, Pop, Length

-----------------------------------------------------------------------------
(* The invariants of the ring *)

\* The strengthened invariant of the ring holds in every reachable state,
\* when push is called by one core and pop by one other core.
THEOREM RingInvariant ==
  ASSUME SingleRoles
  PROVE  Spec => []RingInv
<1>1. Init => RingInv
  BY InitInv
<1>2. RingInv /\ [Next]_vars => RingInv'
  BY StepInv
<1>3. QED
  BY <1>1, <1>2, PTL DEF Spec

\* Type correctness of ring_buffer.rs.
THEOREM TypeCorrect ==
  ASSUME SingleRoles
  PROVE  Spec => []TypeOK
<1>1. RingInv => TypeOK
  BY DEF RingInv
<1>2. QED
  BY <1>1, RingInvariant, PTL

\* head and tail never overtake each other, whatever the capacity and also
\* across the wrap of the machine word.
THEOREM OccupancySafe ==
  ASSUME SingleRoles
  PROVE  Spec => []OccupancyBounded
<1>1. RingInv => OccupancyBounded
  BY DEF RingInv
<1>2. QED
  BY <1>1, RingInvariant, PTL

\* The unsafe write of push and the unsafe read of pop never touch the same
\* cell at the same time.
THEOREM RaceFree ==
  ASSUME SingleRoles
  PROVE  Spec => []NoDataRace
<1>1. RingInv => NoDataRace
  <2> SUFFICES ASSUME RingInv,
                      NEW p \in Procs, NEW q \in Procs, p # q,
                      NEW c \in 0 .. CAP - 1, Writing(p, c)
               PROVE  ~ Writing(q, c) /\ ~ Reading(q, c)
    BY DEF NoDataRace
  <2>0. head \in Words /\ tail \in Words
    BY DEF RingInv, TypeOK
  <2>1. p \in Producers /\ lhead[p] = head /\ Occupancy < CAP
    BY DEF RingInv, RolesInv, ProducerInv, Writing, PushPCs
  <2>2. ~ Writing(q, c)
    BY <2>1 DEF RingInv, RolesInv, SingleRoles, Writing, PushPCs
  <2>3. ASSUME Reading(q, c) PROVE FALSE
    <3>1. ltail[q] = tail /\ Occupancy > 0
      BY <2>3 DEF RingInv, ConsumerInv, Reading, PopPCs
    <3>2. Cell(head) = Cell(tail)
      BY <2>1, <2>3, <3>1 DEF Writing, Reading
    <3>3. QED
      BY <2>0, <2>1, <3>1, <3>2, HeadTailCells DEF Occupancy
  <2>4. QED
    BY <2>2, <2>3
<1>2. QED
  BY <1>1, RingInvariant, PTL

\* A len that raced pushes and pops reports at most what the ring holds.
THEOREM LenSafe ==
  ASSUME SingleRoles
  PROVE  Spec => LenNeverOver
<1> DEFINE Step == \A p \in Procs :
             pc[p] = "len_load_tail" /\ pc'[p] = "idle" /\ lhead[p] <= head
               => result'[p].n <= Occupancy
<1>1. RingInv /\ [Next]_vars => [Step]_vars
  <2> SUFFICES ASSUME RingInv, Next, NEW p \in Procs,
                      pc[p] = "len_load_tail", pc'[p] = "idle",
                      lhead[p] <= head
               PROVE  result'[p].n <= Occupancy
    OBVIOUS
  <2>1. LenLoadTail(p)
    BY DEF Next, Push, Pop, Length, PushLoadHead, PushLoadTail, PushWrite,
           PushStoreHead, PopLoadTail, PopLoadHead, PopRead, PopStoreTail,
           LenLoadHead, LenLoadTail, Goto, RingInv, TypeOK
  <2>2. result'[p] = Depth(ClampedLen(lhead[p], tail))
    BY <2>1 DEF LenLoadTail, RingInv, TypeOK
  <2>3. result'[p].n = ClampedLen(lhead[p], tail)
    BY <2>2 DEF Depth
  <2>4. lhead[p] \in Words /\ head \in Words /\ tail \in Words
    BY DEF RingInv, TypeOK
  <2>5. ClampedLen(lhead[p], tail) <= WrappingSub(head, tail)
    BY <2>4, CapAssumption, WordAssumption
       DEF ClampedLen, WrappingSub, Words
  <2>6. QED
    BY <2>3, <2>5 DEF Occupancy
<1>2. QED
  BY <1>1, RingInvariant, PTL DEF Spec, LenNeverOver

-----------------------------------------------------------------------------
(* The ring implements the bounded FIFO *)

\* The queue the ring stands for has the items of its occupied cells.
LEMMA ContentsType ==
  ASSUME TypeOK, OccupancyBounded
  PROVE  /\ Occupancy \in 0 .. CAP
         /\ Contents \in Seq(Items)
         /\ Len(Contents) = Occupancy
         /\ \A k \in 1 .. Occupancy :
              /\ Cell(WrappingAdd(tail, k - 1)) \in 0 .. CAP - 1
              /\ Contents[k] = buffer[Cell(WrappingAdd(tail, k - 1))]
<1>1. Occupancy \in 0 .. CAP
  BY HeadFromTail, CapAssumption, WordAssumption
     DEF TypeOK, OccupancyBounded, Occupancy, WrappingSub, Words
<1>2. ASSUME NEW k \in 1 .. Occupancy
      PROVE  Cell(WrappingAdd(tail, k - 1)) \in 0 .. CAP - 1
  <2>1. WrappingAdd(tail, k - 1) \in Nat
    BY <1>1, WordAssumption, CapAssumption DEF WrappingAdd, TypeOK, Words
  <2>2. QED
    BY <2>1, CellDivision
<1>3. Contents \in [1 .. Occupancy -> Items]
  BY <1>2 DEF Contents, TypeOK
<1>4. Contents \in Seq(Items) /\ Len(Contents) = Occupancy
  <2> DEFINE q == Contents
             n == Occupancy
  <2>1. n \in Nat /\ q \in [1 .. n -> Items]
    BY <1>1, <1>3, CapAssumption
  <2> HIDE DEF q, n
  <2>2. q \in Seq(Items) /\ Len(q) = n
    BY <2>1
  <2>3. QED
    BY <2>2 DEF q, n
<1>5. QED
  BY <1>1, <1>2, <1>4 DEF Contents

\* The cell that push writes is not the cell of a queued item.
LEMMA FreeCell ==
  ASSUME TypeOK, Occupancy \in 0 .. CAP - 1, NEW k \in 1 .. Occupancy
  PROVE  Cell(WrappingAdd(tail, k - 1)) # Cell(head)
<1> DEFINE n == WrappingAdd(tail, k - 1)
           d == Occupancy - (k - 1)
<1>1. /\ CAP \in Nat /\ WORD \in Nat /\ CAP < WORD
      /\ tail \in 0 .. WORD - 1 /\ head \in 0 .. WORD - 1
      /\ Occupancy \in Nat /\ Occupancy < CAP
      /\ k \in Nat /\ 1 <= k /\ k <= Occupancy
  BY WordAssumption, CapAssumption DEF TypeOK, Words
<1>2. n \in Words /\ d \in 1 .. CAP - 1
  BY <1>1 DEF Words, WrappingAdd
<1>3. WrappingAdd(n, d) = head
  BY <1>1 DEF WrappingAdd, Occupancy, WrappingSub
<1> HIDE DEF n, d
<1>4. Cell(WrappingAdd(n, d)) # Cell(n)
  BY <1>2, CellDistinct
<1>5. QED
  BY <1>3, <1>4 DEF n

\* What a step does to the queue and to the callers' results.
LEMMA ContentsFrame ==
  ASSUME UNCHANGED <<buffer, head, tail>>
  PROVE  Contents' = Contents
BY DEF Contents, Occupancy

LEMMA CallerFrame ==
  ASSUME TypeOK, NEW p \in Procs, NEW r,
         result' = [result EXCEPT ![p] = r]
  PROVE  /\ p \in Callers => CallerResult' = [CallerResult EXCEPT ![p] = r]
         /\ p \notin Callers => CallerResult' = CallerResult
BY DEF TypeOK, CallerResult, Callers, Procs

LEMMA WriteFrame ==
  ASSUME RingInv, NEW p \in Procs, PushWrite(p)
  PROVE  Contents' = Contents
<1>1. lhead[p] = head /\ Occupancy < CAP
  BY DEF RingInv, ProducerInv, PushPCs, PushWrite, Goto
<1>2. Occupancy \in 0 .. CAP - 1
  BY <1>1, ContentsType, CapAssumption DEF RingInv
<1>3. Occupancy' = Occupancy
  BY DEF PushWrite, Occupancy
<1>4. ASSUME NEW k \in 1 .. Occupancy
      PROVE  buffer'[Cell(WrappingAdd(tail, k - 1))]
               = buffer[Cell(WrappingAdd(tail, k - 1))]
  BY <1>1, <1>2, FreeCell, ContentsType DEF RingInv, TypeOK, PushWrite
<1>5. QED
  BY <1>3, <1>4 DEF Contents, PushWrite

LEMMA AppendStep ==
  ASSUME RingInv, NEW p \in Procs, PushStoreHead(p), RingInv'
  PROVE  Len(Contents) < CAP /\ Contents' = Append(Contents, litem[p])
<1>1. /\ lhead[p] = head /\ Occupancy < CAP
      /\ buffer[Cell(head)] = litem[p]
  BY DEF RingInv, ProducerInv, PushPCs, PushStoreHead, Goto
<1>2. /\ Contents \in Seq(Items) /\ Len(Contents) = Occupancy
      /\ Occupancy \in Nat
  BY ContentsType, CapAssumption DEF RingInv
<1>3. Occupancy' = Occupancy + 1
  BY <1>1, OccupancySteps DEF Occupancy, RingInv, TypeOK, PushStoreHead
<1>4. head = WrappingAdd(tail, Occupancy)
  BY HeadFromTail DEF RingInv, TypeOK, Occupancy
<1>5. Contents' = [k \in 1 .. Occupancy + 1 |->
                     buffer[Cell(WrappingAdd(tail, k - 1))]]
  BY <1>3 DEF Contents, PushStoreHead
<1>6. Contents' = [k \in 1 .. Occupancy + 1 |->
                     IF k = Occupancy + 1 THEN litem[p] ELSE Contents[k]]
  <2>1. ASSUME NEW k \in 1 .. Occupancy + 1
        PROVE  buffer[Cell(WrappingAdd(tail, k - 1))]
                 = IF k = Occupancy + 1 THEN litem[p] ELSE Contents[k]
    <3>1. CASE k = Occupancy + 1
      <4>1. k - 1 = Occupancy
        BY <1>2, <3>1
      <4>2. QED
        BY <1>1, <1>4, <3>1, <4>1
    <3>2. CASE k # Occupancy + 1
      <4>1. k \in 1 .. Occupancy
        BY <1>2, <3>2
      <4>2. QED
        BY <3>2, <4>1 DEF Contents
    <3>3. QED
      BY <3>1, <3>2
  <2>2. QED
    BY <1>5, <2>1
<1>7. Contents' = Append(Contents, litem[p])
  BY <1>2, <1>6
<1>8. QED
  BY <1>1, <1>2, <1>7

LEMMA TailStep ==
  ASSUME RingInv, NEW p \in Procs, PopStoreTail(p), RingInv'
  PROVE  /\ Contents # << >>
         /\ Contents' = Tail(Contents)
         /\ litem[p] = Head(Contents)
<1>1. /\ ltail[p] = tail /\ Occupancy > 0
      /\ buffer[Cell(tail)] = litem[p]
  BY DEF RingInv, ConsumerInv, PopPCs, PopStoreTail, Goto
<1>2. /\ Contents \in Seq(Items) /\ Len(Contents) = Occupancy
      /\ Occupancy \in Nat /\ Occupancy < WORD
  BY ContentsType, CapAssumption, WordAssumption DEF RingInv
<1>3. Occupancy' = Occupancy - 1
  BY <1>1, OccupancySteps DEF Occupancy, RingInv, TypeOK, PopStoreTail
<1>4. tail \in 0 .. WORD - 1 /\ WORD \in Nat
  BY WordAssumption DEF RingInv, TypeOK, Words
<1>5. \A k \in 1 .. Occupancy - 1 :
        WrappingAdd(WrappingInc(tail), k - 1) = WrappingAdd(tail, k)
  BY <1>2, <1>4 DEF WrappingAdd, WrappingInc
<1>6. Contents' = [k \in 1 .. Occupancy - 1 |->
                     buffer[Cell(WrappingAdd(WrappingInc(tail), k - 1))]]
  BY <1>1, <1>3 DEF Contents, PopStoreTail
<1>7. Contents' = [k \in 1 .. Occupancy - 1 |-> Contents[k + 1]]
  <2>1. ASSUME NEW k \in 1 .. Occupancy - 1
        PROVE  buffer[Cell(WrappingAdd(WrappingInc(tail), k - 1))]
                 = Contents[k + 1]
    <3>1. k + 1 \in 1 .. Occupancy /\ (k + 1) - 1 = k
      BY <1>2
    <3>2. Contents[k + 1] = buffer[Cell(WrappingAdd(tail, (k + 1) - 1))]
      BY <3>1 DEF Contents
    <3>3. QED
      BY <1>5, <3>1, <3>2
  <2>2. QED
    BY <1>6, <2>1
<1>8. Contents # << >> /\ Contents' = Tail(Contents)
  <2> DEFINE q == Contents
             n == Occupancy
             r == [k \in 1 .. n - 1 |-> q[k + 1]]
  <2>1. q \in Seq(Items) /\ Len(q) = n /\ n \in Nat /\ n > 0
    BY <1>1, <1>2
  <2> HIDE DEF q, n
  <2>2. q # << >>
    BY <2>1
  <2>3. /\ Tail(q) \in Seq(Items) /\ Len(Tail(q)) = n - 1
        /\ \A k \in 1 .. n - 1 : Tail(q)[k] = q[k + 1]
    BY <2>1, <2>2, HeadTailProperties
  <2>4. r \in Seq(Items) /\ Len(r) = n - 1
    <3>1. \A k \in 1 .. n - 1 : q[k + 1] \in Items
      BY <2>1
    <3>2. r \in [1 .. n - 1 -> Items] /\ n - 1 \in Nat
      BY <2>1, <3>1
    <3>3. QED
      BY <3>2
  <2>5. r = Tail(q)
    <3> HIDE DEF r
    <3>1. \A k \in 1 .. Len(r) : r[k] = Tail(q)[k]
      BY <2>3, <2>4 DEF r
    <3>2. QED
      BY <2>3, <2>4, <3>1, SeqEqual
  <2>6. QED
    BY <1>7, <2>2, <2>5 DEF q, n
<1>9. WrappingAdd(tail, 0) = tail
  BY <1>4 DEF WrappingAdd
<1>10. Contents[1] = litem[p]
  BY <1>1, <1>2, <1>9 DEF Contents
<1>11. QED
  BY <1>2, <1>8, <1>10

LEMMA RefineInit == Init => Fifo!FifoInit
<1> SUFFICES ASSUME Init PROVE Fifo!FifoInit
  OBVIOUS
<1>1. Occupancy = 0
  BY WordAssumption DEF Init, Occupancy, WrappingSub
<1>2. Contents = << >>
  BY <1>1 DEF Contents
<1>3. CallerResult = [p \in Callers |-> Fifo!Empty]
  BY DEF Init, CallerResult, Callers, Procs, Empty, Fifo!Empty
<1>4. QED
  BY <1>2, <1>3 DEF Fifo!FifoInit

LEMMA RefineStep ==
  ASSUME SingleRoles, RingInv, RingInv', [Next]_vars
  PROVE  [Fifo!FifoNext]_(Fifo!fvars)
<1>0. TypeOK
  BY DEF RingInv
<1>01. /\ \A p \in Producers \cup Consumers : p \in Procs /\ p \in Callers
       /\ \A p \in Observers : p \in Procs /\ p \notin Callers
  BY DEF Procs, Callers, SingleRoles
<1>02. \A p \in Callers :
         /\ pc[p] = "idle" => CallerResult[p] # Fifo!Pending
         /\ pc[p] # "idle" => CallerResult[p] = Fifo!Pending
  BY DEF RingInv, RolesInv, CallerResult, Callers, Procs, Pending, Fifo!Pending
<1>1. ASSUME NEW p \in Producers, NEW i \in Items, PushLoadHead(p, i)
      PROVE  Fifo!FifoNext
  <2>1. Contents' = Contents
    BY <1>1, ContentsFrame DEF PushLoadHead
  <2>2. CallerResult' = [CallerResult EXCEPT ![p] = Fifo!Pending]
    BY <1>0, <1>01, <1>1, CallerFrame DEF PushLoadHead, Pending, Fifo!Pending
  <2>3. Fifo!Invoke(p)
    BY <1>01, <1>02, <1>1, <2>1, <2>2 DEF Fifo!Invoke, PushLoadHead, Goto
  <2>4. QED
    BY <1>01, <2>3 DEF Fifo!FifoNext
<1>2. ASSUME NEW p \in Producers, PushLoadTail(p)
      PROVE  Fifo!FifoNext \/ UNCHANGED Fifo!fvars
  <2>1. Contents' = Contents
    BY <1>2, ContentsFrame DEF PushLoadTail
  <2>2. CASE PushIsFull(p)
    <3>1. lhead[p] = head
      BY <1>01, <1>2, <2>2 DEF RingInv, ProducerInv, PushLoadTail, Goto, PushPCs
    <3>2. Len(Contents) = CAP
      BY <1>0, <2>2, <3>1, ContentsType, CapAssumption
         DEF RingInv, PushIsFull, Occupancy
    <3>3. CallerResult' = [CallerResult EXCEPT ![p] = Fifo!Full]
      BY <1>0, <1>01, <1>2, <2>2, CallerFrame DEF PushLoadTail, Full, Fifo!Full
    <3>4. Fifo!EnqueueFull(p)
      BY <1>01, <1>02, <1>2, <2>1, <2>2, <3>2, <3>3
         DEF Fifo!EnqueueFull, Fifo!Return, PushLoadTail, Goto
    <3>5. QED
      BY <1>01, <3>4 DEF Fifo!FifoNext
  <2>3. CASE ~ PushIsFull(p)
    BY <1>2, <2>1, <2>3 DEF PushLoadTail, Fifo!fvars, CallerResult
  <2>4. QED
    BY <2>2, <2>3
<1>3. ASSUME NEW p \in Producers, PushWrite(p)
      PROVE  UNCHANGED Fifo!fvars
  BY <1>01, <1>3, WriteFrame DEF PushWrite, Fifo!fvars, CallerResult
<1>4. ASSUME NEW p \in Producers, PushStoreHead(p)
      PROVE  Fifo!FifoNext
  <2>1. Len(Contents) < CAP /\ Contents' = Append(Contents, litem[p])
    BY <1>01, <1>4, AppendStep
  <2>2. litem[p] \in Items
    BY <1>0, <1>01 DEF TypeOK
  <2>3. CallerResult' = [CallerResult EXCEPT ![p] = Fifo!Ok]
    BY <1>0, <1>01, <1>4, CallerFrame DEF PushStoreHead, Ok, Fifo!Ok
  <2>4. Fifo!Enqueue(p, litem[p])
    BY <1>01, <1>02, <1>4, <2>1, <2>3
       DEF Fifo!Enqueue, Fifo!Return, PushStoreHead, Goto
  <2>5. QED
    BY <1>01, <2>2, <2>4 DEF Fifo!FifoNext
<1>5. ASSUME NEW p \in Consumers, PopLoadTail(p)
      PROVE  Fifo!FifoNext
  <2>1. Contents' = Contents
    BY <1>5, ContentsFrame DEF PopLoadTail
  <2>2. CallerResult' = [CallerResult EXCEPT ![p] = Fifo!Pending]
    BY <1>0, <1>01, <1>5, CallerFrame DEF PopLoadTail, Pending, Fifo!Pending
  <2>3. Fifo!Invoke(p)
    BY <1>01, <1>02, <1>5, <2>1, <2>2 DEF Fifo!Invoke, PopLoadTail, Goto
  <2>4. QED
    BY <1>01, <2>3 DEF Fifo!FifoNext
<1>6. ASSUME NEW p \in Consumers, PopLoadHead(p)
      PROVE  Fifo!FifoNext \/ UNCHANGED Fifo!fvars
  <2>1. Contents' = Contents
    BY <1>6, ContentsFrame DEF PopLoadHead
  <2>2. CASE PopIsEmpty(p)
    <3>1. ltail[p] = tail
      BY <1>01, <1>6, <2>2 DEF RingInv, ConsumerInv, PopLoadHead, Goto, PopPCs
    <3>2. Occupancy = 0
      BY <1>0, <2>2, <3>1, WordAssumption
         DEF PopIsEmpty, Occupancy, WrappingSub, TypeOK, Words
    <3>3. Contents = << >>
      BY <3>2 DEF Contents
    <3>4. CallerResult' = [CallerResult EXCEPT ![p] = Fifo!Empty]
      BY <1>0, <1>01, <1>6, <2>2, CallerFrame DEF PopLoadHead, Empty, Fifo!Empty
    <3>5. Fifo!DequeueEmpty(p)
      BY <1>01, <1>02, <1>6, <2>1, <2>2, <3>3, <3>4
         DEF Fifo!DequeueEmpty, Fifo!Return, PopLoadHead, Goto
    <3>6. QED
      BY <1>01, <3>5 DEF Fifo!FifoNext
  <2>3. CASE ~ PopIsEmpty(p)
    BY <1>6, <2>1, <2>3 DEF PopLoadHead, Fifo!fvars, CallerResult
  <2>4. QED
    BY <2>2, <2>3
<1>7. ASSUME NEW p \in Consumers, PopRead(p)
      PROVE  UNCHANGED Fifo!fvars
  BY <1>7, ContentsFrame DEF PopRead, Fifo!fvars, CallerResult
<1>8. ASSUME NEW p \in Consumers, PopStoreTail(p)
      PROVE  Fifo!FifoNext
  <2>1. /\ Contents # << >> /\ Contents' = Tail(Contents)
        /\ litem[p] = Head(Contents)
    BY <1>01, <1>8, TailStep
  <2>2. CallerResult' = [CallerResult EXCEPT ![p] = Fifo!Got(Head(Contents))]
    BY <1>0, <1>01, <1>8, <2>1, CallerFrame DEF PopStoreTail, Got, Fifo!Got
  <2>3. Fifo!Dequeue(p)
    BY <1>01, <1>02, <1>8, <2>1, <2>2
       DEF Fifo!Dequeue, Fifo!Return, PopStoreTail, Goto
  <2>4. QED
    BY <1>01, <2>3 DEF Fifo!FifoNext
<1>9. ASSUME NEW p \in Observers, Length(p)
      PROVE  UNCHANGED Fifo!fvars
  <2>1. Contents' = Contents
    BY <1>9, ContentsFrame DEF Length, LenLoadHead, LenLoadTail
  <2>2. CallerResult' = CallerResult
    BY <1>0, <1>01, <1>9, CallerFrame DEF Length, LenLoadHead, LenLoadTail
  <2>3. QED
    BY <2>1, <2>2 DEF Fifo!fvars
<1>10. CASE UNCHANGED vars
  BY <1>10, ContentsFrame DEF vars, Fifo!fvars, CallerResult
<1>11. QED
  BY <1>1, <1>2, <1>3, <1>4, <1>5, <1>6, <1>7, <1>8, <1>9, <1>10
     DEF Next, Push, Pop

\* The lock-free ring is a linearizable FIFO queue of capacity CAP when it has
\* one producer core and one consumer core.
THEOREM RingImplementsFifo ==
  ASSUME SingleRoles
  PROVE  Spec => FifoRefined
<1>1. Init => Fifo!FifoInit
  BY RefineInit
<1>2. RingInv /\ RingInv' /\ [Next]_vars => [Fifo!FifoNext]_(Fifo!fvars)
  BY RefineStep
<1>3. QED
  BY <1>1, <1>2, RingInvariant, PTL DEF Spec, FifoRefined, Fifo!FifoSpec
=============================================================================
