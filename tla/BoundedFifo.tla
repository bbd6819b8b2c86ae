----------------------------- MODULE BoundedFifo -----------------------------
(***************************************************************************)
(* What a LatencyOS inter-core ring promises its callers: a FIFO queue of  *)
(* at most CAP items on which every call to push or pop takes effect       *)
(* atomically at some moment between its invocation and its return.  A     *)
(* push fails only at a moment when the queue is full, a pop returns       *)
(* nothing only at a moment when it is empty.                              *)
(*                                                                         *)
(* SpscRing, the algorithm of kernel/src/ring_buffer.rs, implements this   *)
(* specification when it has one producer and one consumer.                *)
(***************************************************************************)
EXTENDS Naturals, Sequences

CONSTANTS CAP,        \* capacity of the queue
          Procs,      \* the cores that call push or pop
          Items       \* what is queued

VARIABLES queue,      \* the items pushed and not yet popped, oldest first
          result      \* the outcome of the last call of each core

fvars == <<queue, result>>

Pending == [kind |-> "pending"]
Ok      == [kind |-> "ok"]
Full    == [kind |-> "full"]
Empty   == [kind |-> "empty"]
Got(i)  == [kind |-> "got", item |-> i]

FifoInit ==
  /\ queue = << >>
  /\ result = [p \in Procs |-> Empty]

Return(p, r) ==
  /\ result[p] = Pending
  /\ result' = [result EXCEPT ![p] = r]

Invoke(p) ==
  /\ result[p] # Pending
  /\ result' = [result EXCEPT ![p] = Pending]
  /\ UNCHANGED queue

Enqueue(p, i) ==
  /\ Len(queue) < CAP
  /\ queue' = Append(queue, i)
  /\ Return(p, Ok)

EnqueueFull(p) ==
  /\ Len(queue) = CAP
  /\ Return(p, Full)
  /\ UNCHANGED queue

Dequeue(p) ==
  /\ queue # << >>
  /\ queue' = Tail(queue)
  /\ Return(p, Got(Head(queue)))

DequeueEmpty(p) ==
  /\ queue = << >>
  /\ Return(p, Empty)
  /\ UNCHANGED queue

FifoNext ==
  \E p \in Procs :
    \/ Invoke(p)
    \/ \E i \in Items : Enqueue(p, i)
    \/ EnqueueFull(p)
    \/ Dequeue(p)
    \/ DequeueEmpty(p)

FifoSpec == FifoInit /\ [][FifoNext]_fvars
=============================================================================
