------------------------------ MODULE SpscRing -------------------------------
(***************************************************************************)
(* The lock-free ring of kernel/src/ring_buffer.rs, one step per access to *)
(* shared memory.  head and tail are free-running machine words that wrap  *)
(* at WORD (2^64 in the build) and are reduced modulo CAP only to address  *)
(* the buffer.                                                             *)
(*                                                                         *)
(* The module does not assume who calls it: Producers and Consumers are    *)
(* the cores that call push and pop.  On CAPTURE_TO_ENCODE_RING they are   *)
(* {core 1} and {core 2} while the pipeline runs; the shell command        *)
(* `benchmark` adds core 0 to both.                                        *)
(*                                                                         *)
(* The Release stores of one index and the Acquire loads of it by the      *)
(* other side order the buffer accesses, so interleaving of the steps      *)
(* below is the memory model; the Relaxed loads are loads of an index      *)
(* only the caller's side stores.                                          *)
(***************************************************************************)
EXTENDS Integers, Sequences

CONSTANTS CAP,         \* const CAP: usize
          WORD,        \* number of values of a usize
          Items,       \* T
          Default,     \* default_val of new()
          Producers,   \* cores that call push
          Consumers,   \* cores that call pop
          Observers    \* cores that call len

ASSUME CapAssumption == CAP \in Nat \ {0}

\* CAP divides WORD and a full ring is told from an empty one.
ASSUME WordAssumption ==
  /\ WORD \in Nat
  /\ WORD > CAP
  /\ \E k \in 1 .. WORD : WORD = k * CAP

ASSUME DefaultAssumption == Default \in Items

Procs == Producers \cup Consumers \cup Observers

VARIABLES buffer,      \* [UnsafeCell<T>; CAP]
          head,        \* AtomicUsize: next cell to write
          tail,        \* AtomicUsize: next cell to read
          pc,          \* where each core is in its call
          lhead,       \* the `head` a push or a len loaded first
          ltail,       \* the `tail` a pop loaded first
          litem,       \* the local `item` of the call
          result       \* what the last call of the core returned

vars == <<buffer, head, tail, pc, lhead, ltail, litem, result>>

-----------------------------------------------------------------------------
(* usize arithmetic *)

\* Mutant: head + 1 without the wrap.
WrappingIncUnwrapped(n) == n + 1

WrappingInc(n) == IF n + 1 = WORD THEN 0 ELSE n + 1
WrappingSub(a, b) == IF a >= b THEN a - b ELSE a - b + WORD

Cell(n) == n % CAP

Pending == [kind |-> "pending"]
Ok      == [kind |-> "ok"]
Full    == [kind |-> "full"]
Empty   == [kind |-> "empty"]
Got(i)  == [kind |-> "got", item |-> i]
Depth(n) == [kind |-> "depth", n |-> n]

-----------------------------------------------------------------------------
Init ==
  /\ buffer = [i \in 0 .. CAP - 1 |-> Default]
  /\ head = 0
  /\ tail = 0
  /\ pc = [p \in Procs |-> "idle"]
  /\ lhead = [p \in Procs |-> 0]
  /\ ltail = [p \in Procs |-> 0]
  /\ litem = [p \in Procs |-> Default]
  /\ result = [p \in Procs |-> Empty]

Goto(p, from, to) ==
  /\ pc[p] = from
  /\ pc' = [pc EXCEPT ![p] = to]

\* push: let head = self.head.load(Relaxed)
PushLoadHead(p, i) ==
  /\ Goto(p, "idle", "push_load_tail")
  /\ lhead' = [lhead EXCEPT ![p] = head]
  /\ litem' = [litem EXCEPT ![p] = i]
  /\ result' = [result EXCEPT ![p] = Pending]
  /\ UNCHANGED <<buffer, head, tail, ltail>>

\* Mutant: `>` for `>=`.
PushIsFullOffByOne(p) == WrappingSub(lhead[p], tail) > CAP

\* push: let tail = self.tail.load(Acquire); if full, return Err(())
PushIsFull(p) == WrappingSub(lhead[p], tail) >= CAP

PushLoadTail(p) ==
  /\ IF PushIsFull(p)
       THEN /\ Goto(p, "push_load_tail", "idle")
            /\ result' = [result EXCEPT ![p] = Full]
       ELSE /\ Goto(p, "push_load_tail", "push_write")
            /\ UNCHANGED result
  /\ UNCHANGED <<buffer, head, tail, lhead, ltail, litem>>

\* Mutant: the cell of the incremented head.
PushWriteNextCell(p) ==
  /\ Goto(p, "push_write", "push_store_head")
  /\ buffer' = [buffer EXCEPT ![Cell(WrappingInc(lhead[p]))] = litem[p]]
  /\ UNCHANGED <<head, tail, lhead, ltail, litem, result>>

\* push: *self.buffer[head % CAP].get() = item
PushWrite(p) ==
  /\ Goto(p, "push_write", "push_store_head")
  /\ buffer' = [buffer EXCEPT ![Cell(lhead[p])] = litem[p]]
  /\ UNCHANGED <<head, tail, lhead, ltail, litem, result>>

\* push: self.head.store(head.wrapping_add(1), Release); Ok(())
PushStoreHead(p) ==
  /\ Goto(p, "push_store_head", "idle")
  /\ head' = WrappingInc(lhead[p])
  /\ result' = [result EXCEPT ![p] = Ok]
  /\ UNCHANGED <<buffer, tail, lhead, ltail, litem>>

\* pop: let tail = self.tail.load(Relaxed)
PopLoadTail(p) ==
  /\ Goto(p, "idle", "pop_load_head")
  /\ ltail' = [ltail EXCEPT ![p] = tail]
  /\ result' = [result EXCEPT ![p] = Pending]
  /\ UNCHANGED <<buffer, head, tail, lhead, litem>>

\* Mutant: pop does not test for an empty ring.
PopIsEmptyNever(p) == FALSE

\* pop: let head = self.head.load(Acquire); if empty, return None
PopIsEmpty(p) == ltail[p] = head

PopLoadHead(p) ==
  /\ IF PopIsEmpty(p)
       THEN /\ Goto(p, "pop_load_head", "idle")
            /\ result' = [result EXCEPT ![p] = Empty]
       ELSE /\ Goto(p, "pop_load_head", "pop_read")
            /\ UNCHANGED result
  /\ UNCHANGED <<buffer, head, tail, lhead, ltail, litem>>

\* pop: let item = *self.buffer[tail % CAP].get()
PopRead(p) ==
  /\ Goto(p, "pop_read", "pop_store_tail")
  /\ litem' = [litem EXCEPT ![p] = buffer[Cell(ltail[p])]]
  /\ UNCHANGED <<buffer, head, tail, lhead, ltail, result>>

\* pop: self.tail.store(tail.wrapping_add(1), Release); Some(item)
PopStoreTail(p) ==
  /\ Goto(p, "pop_store_tail", "idle")
  /\ tail' = WrappingInc(ltail[p])
  /\ result' = [result EXCEPT ![p] = Got(litem[p])]
  /\ UNCHANGED <<buffer, head, lhead, ltail, litem>>

\* len: let head = self.head.load(Acquire)
LenLoadHead(p) ==
  /\ Goto(p, "idle", "len_load_tail")
  /\ lhead' = [lhead EXCEPT ![p] = head]
  /\ result' = [result EXCEPT ![p] = Pending]
  /\ UNCHANGED <<buffer, head, tail, ltail, litem>>

\* Mutant: a negative difference taken for a full ring.
ClampedLenNegativeFull(h, t) ==
  IF h >= t THEN (IF h - t <= CAP THEN h - t ELSE CAP) ELSE CAP

\* len: the clamp of the difference of two words loaded at two moments
ClampedLen(h, t) ==
  IF h >= t THEN (IF h - t <= CAP THEN h - t ELSE CAP) ELSE 0

\* len: let tail = self.tail.load(Acquire); the clamped difference
LenLoadTail(p) ==
  /\ Goto(p, "len_load_tail", "idle")
  /\ result' = [result EXCEPT ![p] = Depth(ClampedLen(lhead[p], tail))]
  /\ UNCHANGED <<buffer, head, tail, lhead, ltail, litem>>

\* `benchmark`, the only code that calls both, pushes a frame and then pops one.
MayPush(p) == p \in Consumers => result[p].kind \in {"got", "empty"}
MayPop(p)  == p \in Producers => result[p].kind \in {"ok", "full"}

Push(p) ==
  \/ MayPush(p) /\ \E i \in Items : PushLoadHead(p, i)
  \/ PushLoadTail(p)
  \/ PushWrite(p)
  \/ PushStoreHead(p)

Pop(p) ==
  \/ MayPop(p) /\ PopLoadTail(p)
  \/ PopLoadHead(p)
  \/ PopRead(p)
  \/ PopStoreTail(p)

Length(p) ==
  \/ LenLoadHead(p)
  \/ LenLoadTail(p)

Next ==
  \/ \E p \in Producers : Push(p)
  \/ \E p \in Consumers : Pop(p)
  \/ \E p \in Observers : Length(p)

Spec == Init /\ [][Next]_vars

-----------------------------------------------------------------------------
(* Correctness *)

PCs == {"idle", "push_load_tail", "push_write", "push_store_head",
        "pop_load_head", "pop_read", "pop_store_tail", "len_load_tail"}

Words == 0 .. WORD - 1

Results == {Pending, Ok, Full, Empty}
             \cup {Got(i) : i \in Items}
             \cup {Depth(n) : n \in 0 .. CAP}

\* The shared words, the buffer and every core's registers have the types
\* ring_buffer.rs declares.
TypeOK ==
  /\ buffer \in [0 .. CAP - 1 -> Items]
  /\ head \in Words
  /\ tail \in Words
  /\ pc \in [Procs -> PCs]
  /\ lhead \in [Procs -> Words]
  /\ ltail \in [Procs -> Words]
  /\ litem \in [Procs -> Items]
  /\ result \in [Procs -> Results]

\* head.wrapping_sub(tail): how many items the ring holds.
Occupancy == WrappingSub(head, tail)

\* Neither index overtakes the other: head - tail, taken modulo the word
\* size, stays between 0 and CAP.  If it ever exceeds CAP, push fails until
\* 2^64 pops have happened and pop returns cells nobody filled.
OccupancyBounded == Occupancy <= CAP

\* A core inside the unsafe buffer access of push or of pop.
Writing(p, c) == pc[p] = "push_write" /\ Cell(lhead[p]) = c
Reading(p, c) == pc[p] = "pop_read" /\ Cell(ltail[p]) = c

\* The two unsafe accesses through UnsafeCell never race: while one core
\* writes a cell in push, no other core reads or writes that cell.
NoDataRace ==
  \A p, q \in Procs : \A c \in 0 .. CAP - 1 :
    p # q /\ Writing(p, c) => ~ Writing(q, c) /\ ~ Reading(q, c)

\* len, which loads the two indices at two moments, never reports more items
\* than the ring holds when it returns, unless head wrapped past 2^64 during
\* the call (the observer's head is then numerically above the current one).
LenNeverOver ==
  [][\A p \in Procs :
       pc[p] = "len_load_tail" /\ pc'[p] = "idle" /\ lhead[p] <= head
         => result'[p].n <= Occupancy]_vars

-----------------------------------------------------------------------------
(* The inductive invariant.  The reason a ring is safe: only the producer    *)
(* stores head and only the consumer stores tail, so what each side loaded   *)
(* of its own index stays exact, and what it concluded from the other's      *)
(* index (not full, not empty) can only become more true.                    *)

PushPCs == {"push_load_tail", "push_write", "push_store_head"}
PopPCs  == {"pop_load_head", "pop_read", "pop_store_tail"}

\* One producer core, one consumer core, and len is called by neither.
SingleRoles ==
  /\ \A p, q \in Producers : p = q
  /\ \A p, q \in Consumers : p = q
  /\ Producers \cap Consumers = {}
  /\ Observers \cap (Producers \cup Consumers) = {}

RolesInv ==
  \A p \in Procs :
    /\ pc[p] \in PushPCs => p \in Producers
    /\ pc[p] \in PopPCs => p \in Consumers
    /\ pc[p] = "len_load_tail" => p \in Observers
    /\ pc[p] = "idle" <=> result[p] # Pending

ProducerInv ==
  \A p \in Procs :
    /\ pc[p] \in PushPCs => lhead[p] = head
    /\ pc[p] \in {"push_write", "push_store_head"} => Occupancy < CAP
    /\ pc[p] = "push_store_head" => buffer[Cell(head)] = litem[p]

ConsumerInv ==
  \A p \in Procs :
    /\ pc[p] \in PopPCs => ltail[p] = tail
    /\ pc[p] \in {"pop_read", "pop_store_tail"} => Occupancy > 0
    /\ pc[p] = "pop_store_tail" => buffer[Cell(tail)] = litem[p]

RingInv ==
  TypeOK /\ OccupancyBounded /\ RolesInv /\ ProducerInv /\ ConsumerInv

-----------------------------------------------------------------------------
(* The ring implements the bounded FIFO *)

\* The k-th queued item, k = 0 the oldest, is k cells after tail.
WrappingAdd(n, k) == IF n + k < WORD THEN n + k ELSE n + k - WORD

Contents ==
  [k \in 1 .. Occupancy |-> buffer[Cell(WrappingAdd(tail, k - 1))]]

\* The callers of push and pop; a call of len leaves the queue alone.
Callers == Producers \cup Consumers

CallerResult == [p \in Callers |-> result[p]]

Fifo == INSTANCE BoundedFifo
          WITH Procs <- Callers, queue <- Contents, result <- CallerResult

\* Every call to push and pop takes effect atomically on a FIFO queue of at
\* most CAP items: no item is lost, duplicated or reordered, push fails only
\* when the queue is full and pop only when it is empty.
FifoRefined == Fifo!FifoSpec
=============================================================================
