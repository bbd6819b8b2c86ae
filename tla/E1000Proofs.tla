----------------------------- MODULE E1000Proofs -----------------------------
(***************************************************************************)
(* For every ring size and sequence space: the driver's registers and      *)
(* indices stay in their rings, and while no two cores have been in        *)
(* send_packet at once, every accepted packet stays intact until the NIC   *)
(* has transmitted it.                                                     *)
(***************************************************************************)
EXTENDS E1000, TLAPS

\* Stored packets have numbers from 1 on; 0 is the initial fill of a buffer.
RxStored ==
  /\ \A d \in RxDescs : rxDescs[d].dd => rxDescs[d].packet # 0
  /\ copying => out # 0

TypeInv == TypeOK /\ RxStored

\* No core but s is in send_packet.
OnlySender(s) == \A t \in Senders \ {s} : pc[t] = "idle"

\* The tail index is ahead of TDT only between the store of E1000_TX_TAIL and
\* the write of TDT, and a claimed descriptor is the one at TDT.
TailInv(s) ==
  /\ tdt = (tdh + Len(pending)) % NumTx
  /\ txTail = IF pc[s] = "ring" THEN NextTail(tdt) ELSE tdt
  /\ pc[s] # "idle" => idx[s] = tdt /\ Len(pending) < NumTx

\* Descriptor d holds packet p and is the NIC's: DD is clear and cmd is set.
Queued(d, p) == txBuffers[d] = p /\ ~ txDescs[d].dd /\ txDescs[d].cmd

\* The descriptors from TDH on hold the accepted packets, the one after them the
\* packet of the sender that has filled it and not yet returned.
QueuedInv(s) ==
  /\ Len(pending) <= NumTx
  /\ \A k \in 1 .. Len(pending) : Queued((tdh + k - 1) % NumTx, pending[k])
  /\ pc[s] \in {"tail", "ring"} => Queued(tdt, Packet(s))

TxInv(s) == TailInv(s) /\ QueuedInv(s)

\* While calls have not overlapped, some core is the only one in send_packet, and
\* the ring is as that core left it.
AloneInv == ~ overlapped => \E s \in Senders : OnlySender(s) /\ TxInv(s)

\* How far descriptor d is ahead of the one that poll_rx_packet looks at.
Ahead(d) == IF d >= PollIdx THEN d - PollIdx ELSE d + NumRx - PollIdx

\* Descriptor d holds a packet for the driver, other than the first one, which
\* the driver steps over.
Waiting(d) == rxDescs[d].dd /\ rxDescs[d].packet # 1

\* The waiting packets lie between the driver and the NIC's head, in the order
\* they arrived, and are newer than all that were returned.
WaitingInOrder ==
  /\ \A d \in RxDescs : Waiting(d) => Ahead(d) < Ahead(rdh)
  /\ \A d, e \in RxDescs : Waiting(d) /\ Waiting(e) /\ Ahead(d) < Ahead(e) =>
                            rxDescs[d].packet < rxDescs[e].packet
  /\ \A d \in RxDescs : Waiting(d) => \A q \in delivered : q < rxDescs[d].packet

\* Packet 1 is in descriptor 0 or gone, and what poll_rx_packet has copied is in
\* the descriptor it looks at still, unless it is packet 1.
FirstPacket ==
  /\ \A d \in RxDescs : rxDescs[d].dd /\ rxDescs[d].packet = 1 => d = 0 /\ 1 \notin delivered
  /\ copying => IF out = 1 THEN PollIdx = 0 /\ 1 \notin delivered
                ELSE Waiting(PollIdx) /\ rxDescs[PollIdx].packet = out

\* Packet numbers come from the arrivals.
Numbers ==
  /\ \A d \in RxDescs : rxDescs[d].packet <= arrived
  /\ \A q \in delivered : q <= arrived
  /\ copying => out <= arrived

\* RDT is the driver's tail, except before the first return: then the NIC owns
\* all descriptors but the last, and has left descriptor 0 once a packet came.
Registers ==
  \/ rdt = rxTail /\ arrived > 0
  \/ rdt = NumRx - 1 /\ rxTail = 0 /\ (rdh = 0 <=> arrived = 0)

RxInv == WaitingInOrder /\ FirstPacket /\ Numbers /\ Registers

-----------------------------------------------------------------------------
(* Arithmetic of the descriptor rings *)

\* The index k places after d, for at most one lap.
LEMMA Around ==
  ASSUME NEW n \in Nat \ {0}, NEW d \in 0 .. n - 1, NEW k \in 0 .. n
  PROVE  (d + k) % n = IF d + k < n THEN d + k ELSE d + k - n
<1>1. CASE d + k < n
  BY <1>1
<1>2. CASE d + k >= n
  <2>1. d + k - n \in 0 .. n - 1
    BY <1>2
  <2>2. ((d + k - n) + n) % n = d + k - n
    BY <2>1
  <2>3. QED
    BY <1>2, <2>2
<1>3. QED
  BY <1>1, <1>2

LEMMA NextInRing ==
  /\ \A d \in TxDescs : NextTail(d) \in TxDescs
  /\ \A d \in RxDescs : After(d) \in RxDescs
BY E1000Assumption DEF NextTail, After, TxDescs, RxDescs

\* Places in the transmit ring, counted from descriptor d: a lap leads back to
\* d, places of one lap differ, and counting may start one descriptor later.
LEMMA Places ==
  ASSUME NEW d \in TxDescs
  PROVE  /\ (d + 0) % NumTx = d /\ (d + NumTx) % NumTx = d
         /\ \A k \in 0 .. NumTx : (d + k) % NumTx \in TxDescs
         /\ \A j, k \in 0 .. NumTx - 1 : j # k => (d + j) % NumTx # (d + k) % NumTx
         /\ \A k \in 0 .. NumTx - 1 : NextTail((d + k) % NumTx) = (d + (k + 1)) % NumTx
         /\ \A k \in 0 .. NumTx - 1 : (NextTail(d) + k) % NumTx = (d + (k + 1)) % NumTx
<1> DEFINE at(e, k) == IF e + k < NumTx THEN e + k ELSE e + k - NumTx
<1>0. NumTx \in Nat \ {0} /\ d \in 0 .. NumTx - 1 /\ TxDescs = 0 .. NumTx - 1
  BY E1000Assumption DEF TxDescs
<1>1. \A e \in 0 .. NumTx - 1, k \in 0 .. NumTx : (e + k) % NumTx = at(e, k)
  BY <1>0, Around
<1>2. \A e \in 0 .. NumTx - 1 : NextTail(e) = at(e, 1)
  BY <1>0, <1>1 DEF NextTail
<1>3. \A k \in 0 .. NumTx : (d + k) % NumTx = at(d, k) /\ at(d, k) \in 0 .. NumTx - 1
  <2>1. \A k \in 0 .. NumTx : at(d, k) \in 0 .. NumTx - 1
    BY <1>0
  <2> HIDE DEF at
  <2>2. QED
    BY <1>0, <1>1, <2>1
<1>4. (d + 0) % NumTx = d /\ (d + NumTx) % NumTx = d
  BY <1>0, <1>3
<1>5. \A j, k \in 0 .. NumTx - 1 : j # k => (d + j) % NumTx # (d + k) % NumTx
  <2> SUFFICES ASSUME NEW j \in 0 .. NumTx - 1, NEW k \in 0 .. NumTx - 1, j # k
               PROVE  (d + j) % NumTx # (d + k) % NumTx
    OBVIOUS
  <2>1. (d + j) % NumTx = at(d, j) /\ (d + k) % NumTx = at(d, k)
    BY <1>0, <1>3
  <2>2. at(d, j) # at(d, k)
    BY <1>0
  <2>3. QED
    BY <2>1, <2>2
<1>6. ASSUME NEW k \in 0 .. NumTx - 1
      PROVE  /\ NextTail((d + k) % NumTx) = (d + (k + 1)) % NumTx
             /\ (NextTail(d) + k) % NumTx = (d + (k + 1)) % NumTx
  <2>1. /\ k \in 0 .. NumTx /\ k + 1 \in 0 .. NumTx
        /\ at(d, k) \in 0 .. NumTx - 1 /\ at(d, 1) \in 0 .. NumTx - 1
    BY <1>0
  <2>2. (d + k) % NumTx = at(d, k) /\ (d + (k + 1)) % NumTx = at(d, k + 1)
    BY <1>3, <2>1
  <2>3. NextTail(at(d, k)) = at(at(d, k), 1) /\ NextTail(d) = at(d, 1)
    BY <1>0, <1>2, <2>1
  <2>4. (at(d, 1) + k) % NumTx = at(at(d, 1), k)
    BY <1>1, <2>1
  <2>5. at(at(d, k), 1) = at(d, k + 1) /\ at(at(d, 1), k) = at(d, k + 1)
    BY <1>0
  <2> HIDE DEF at
  <2>6. QED
    BY <2>2, <2>3, <2>4, <2>5
<1>7. QED
  BY <1>0, <1>3, <1>4, <1>5, <1>6

-----------------------------------------------------------------------------
(* Types *)

LEMMA TxTypeStep ==
  ASSUME TypeInv, NEW s \in Senders, SendPacket(s)
  PROVE  TypeInv'
<1> USE DEF TypeInv, TypeOK
<1>1. seq[s] \in 0 .. SeqSpace - 1 /\ (seq[s] + 1) % SeqSpace \in 0 .. SeqSpace - 1
  BY E1000Assumption
<1>2. Packet(s) \in Packets
  BY <1>1 DEF Packet, Packets
<1>3. idx[s] \in TxDescs /\ NextTail(idx[s]) \in TxDescs
  BY NextInRing
<1>4. RxStored'
  BY DEF SendPacket, rxVars, RxStored
<1>5. CASE SendRefused(s)
  BY <1>1, <1>4, <1>5 DEF SendPacket, SendRefused, Take, rxVars
<1>6. CASE SendClaim(s)
  BY <1>4, <1>6 DEF SendPacket, SendClaim, rxVars
<1>7. CASE SendFill(s)
  BY <1>2, <1>3, <1>4, <1>7 DEF SendPacket, SendFill, rxVars
<1>8. CASE SendStoreTail(s)
  BY <1>3, <1>4, <1>8 DEF SendPacket, SendStoreTail, rxVars
<1>9. CASE SendRing(s)
  BY <1>1, <1>2, <1>3, <1>4, <1>9 DEF SendPacket, SendRing, Take, rxVars
<1>10. QED
  BY <1>5, <1>6, <1>7, <1>8, <1>9 DEF SendPacket

LEMMA TypeStep == TypeInv /\ [Next]_vars => TypeInv'
<1> SUFFICES ASSUME TypeInv, [Next]_vars PROVE TypeInv'
  OBVIOUS
<1> USE DEF TypeInv, TypeOK
<1>1. ASSUME NEW s \in Senders, SendPacket(s) PROVE TypeInv'
  BY <1>1, TxTypeStep
<1>2. CASE NicTransmit
  <2>1. tdh \in TxDescs /\ (tdh + 1) % NumTx \in TxDescs
    BY NextInRing DEF NextTail
  <2>2. pending' \in Seq(Packets)
    BY <1>2 DEF NicTransmit
  <2>3. QED
    BY <1>2, <2>1, <2>2 DEF NicTransmit, rxVars, RxStored
<1>3. CASE NicReceive
  <2>1. rdh \in RxDescs /\ After(rdh) \in RxDescs
    BY NextInRing
  <2>2. arrived' \in 1 .. MaxPackets
    BY <1>3, E1000Assumption DEF NicReceive
  <2>3. /\ rxDescs' \in [RxDescs -> [dd : BOOLEAN, packet : 0 .. MaxPackets]]
        /\ rdh' \in RxDescs
    <3>1. [dd |-> TRUE, packet |-> arrived'] \in [dd : BOOLEAN, packet : 0 .. MaxPackets]
      BY <2>2
    <3>2. QED
      BY <1>3, <2>1, <3>1 DEF NicReceive
  <2>4. RxStored'
    <3>1. ASSUME NEW d \in RxDescs, rxDescs'[d].dd PROVE rxDescs'[d].packet # 0
      <4>1. CASE NicOwnsHead /\ d = rdh
        BY <1>3, <2>2, <4>1 DEF NicReceive
      <4>2. CASE ~ (NicOwnsHead /\ d = rdh)
        <5>1. rxDescs'[d] = rxDescs[d]
          BY <1>3, <2>1, <4>2 DEF NicReceive
        <5>2. QED
          BY <3>1, <5>1 DEF RxStored
      <4>3. QED
        BY <4>1, <4>2
    <3>2. QED
      BY <1>3, <3>1 DEF NicReceive, RxStored
  <2>5. arrived' \in 0 .. MaxPackets
    BY <2>2
  <2>6. QED
    BY <1>3, <2>3, <2>4, <2>5 DEF NicReceive, txVars
<1>4. CASE PollRxPacket
  <2>1. PollIdx \in RxDescs
    BY NextInRing DEF PollIdx
  <2>2. CASE PollNone
    BY <1>4, <2>2 DEF PollRxPacket, PollNone, txVars, rxVars, RxStored
  <2>3. CASE PollCopy
    BY <1>4, <2>1, <2>3 DEF PollRxPacket, PollCopy, txVars, RxStored
  <2>4. CASE PollReturn
    <3>1. /\ rxDescs' \in [RxDescs -> [dd : BOOLEAN, packet : 0 .. MaxPackets]]
          /\ RxStored'
      BY <2>1, <2>4 DEF PollReturn, ResetStatus, RxStored
    <3>2. out \in 1 .. MaxPackets
      BY <2>4 DEF PollReturn, RxStored
    <3>3. delivered' \subseteq 1 .. MaxPackets
      BY <2>4, <3>2 DEF PollReturn
    <3>4. QED
      BY <1>4, <2>1, <2>4, <3>1, <3>3 DEF PollRxPacket, PollReturn, txVars
  <2>5. QED
    BY <1>4, <2>2, <2>3, <2>4 DEF PollRxPacket
<1>5. CASE UNCHANGED vars
  BY <1>5 DEF vars, txVars, rxVars, RxStored
<1>6. QED
  BY <1>1, <1>2, <1>3, <1>4, <1>5 DEF Next

LEMMA TypeInvariance == Spec => []TypeInv
<1>1. Init => TypeInv
  <2> SUFFICES ASSUME Init PROVE TypeInv
    OBVIOUS
  <2>1. 0 \in TxDescs /\ 0 \in RxDescs /\ NumRx - 1 \in RxDescs
    BY E1000Assumption DEF TxDescs, RxDescs
  <2>2. /\ 1 \in 0 .. SeqSpace - 1
        /\ 0 \in 0 .. MaxPackets
        /\ NoPacket \in Packets
    BY E1000Assumption DEF Packets
  <2>3. /\ txDescs \in [TxDescs -> [dd : BOOLEAN, cmd : BOOLEAN]]
        /\ rxDescs \in [RxDescs -> [dd : BOOLEAN, packet : 0 .. MaxPackets]]
        /\ txBuffers \in [TxDescs -> Packets]
    BY <2>2 DEF Init
  <2>4. /\ {txTail, tdt, tdh} \subseteq TxDescs
        /\ {rxTail, rdh, rdt} \subseteq RxDescs
    BY <2>1 DEF Init
  <2>5. RxStored
    BY DEF Init, RxStored
  <2>6. /\ pc \in [Senders -> {"idle", "fill", "tail", "ring"}]
        /\ idx \in [Senders -> TxDescs]
        /\ seq \in [Senders -> 0 .. SeqSpace - 1]
    BY <2>1, <2>2 DEF Init
  <2>7. initialized \in BOOLEAN /\ copying \in BOOLEAN /\ overlapped \in BOOLEAN
    BY DEF Init
  <2>8. /\ pending \in Seq(Packets)
        /\ out \in 0 .. MaxPackets /\ arrived \in 0 .. MaxPackets
        /\ delivered \subseteq 1 .. MaxPackets
    BY <2>2 DEF Init
  <2>9. QED
    BY <2>3, <2>4, <2>5, <2>6, <2>7, <2>8 DEF TypeInv, TypeOK
<1>2. QED
  BY <1>1, TypeStep, PTL DEF Spec

\* Type correctness, for any number of senders: no index leaves its ring and
\* packet_seq stays in its word.
THEOREM TypeCorrect == Spec => []TypeOK
<1>1. TypeInv => TypeOK
  BY DEF TypeInv
<1>2. QED
  BY <1>1, TypeInvariance, PTL

-----------------------------------------------------------------------------
(* Transmit *)

\* Steps of the receive side and of nobody leave the transmit side alone.
LEMMA TxStutter ==
  ASSUME NEW s, TxInv(s), UNCHANGED txVars
  PROVE  TxInv(s)'
BY DEF TxInv, TailInv, QueuedInv, Queued, Packet, NextTail, txVars

LEMMA SendStep ==
  ASSUME NEW s \in Senders, TypeInv, TxInv(s), SendPacket(s), ~ overlapped
  PROVE  TxInv(s)'
<1> DEFINE n == Len(pending)
<1>0. /\ s \in Senders
      /\ n \in 0 .. NumTx /\ n \in Nat /\ NumTx \in Nat \ {0}
      /\ tdh \in TxDescs /\ tdt \in TxDescs /\ idx[s] \in TxDescs
      /\ pending \in Seq(Packets)
  BY E1000Assumption DEF TypeInv, TypeOK, TxInv, QueuedInv
<1>1. TailInv(s) /\ QueuedInv(s) /\ tdt = (tdh + n) % NumTx
  BY DEF TxInv, TailInv
<1>2. CASE SendRefused(s)
  BY <1>1, <1>2 DEF SendRefused, Enters, TxInv, TailInv, QueuedInv, Queued
<1>3. CASE SendClaim(s)
  <2>1. txTail = tdt
    BY <1>1, <1>3 DEF SendClaim, Enters, TailInv
  <2>2. n < NumTx
    <3> SUFFICES ASSUME n = NumTx PROVE FALSE
      BY <1>0
    <3>1. tdt = tdh /\ (tdh + 0) % NumTx = tdh
      BY <1>0, <1>1, Places
    <3>2. 1 \in 1 .. n
      BY <1>0
    <3>3. (tdh + 1 - 1) % NumTx = tdh
      <4>1. tdh + 1 - 1 = tdh + 0
        BY <1>0, E1000Assumption DEF TxDescs
      <4>2. QED
        BY <3>1, <4>1
    <3>4. Queued(tdt, pending[1])
      BY <1>1, <3>1, <3>2, <3>3 DEF QueuedInv
    <3>5. QED
      BY <1>3, <2>1, <3>4 DEF SendClaim, Queued, Busy
  <2>3. /\ pc'[s] = "fill" /\ idx'[s] = tdt
        /\ UNCHANGED <<txDescs, txBuffers, txTail, tdt, tdh, seq, pending>>
    BY <1>0, <1>3, <2>1 DEF SendClaim, TypeInv, TypeOK
  <2>4. TailInv(s)'
    BY <1>1, <2>1, <2>2, <2>3 DEF TailInv, NextTail
  <2>5. QueuedInv(s)'
    BY <1>1, <2>3 DEF QueuedInv, Queued
  <2>6. QED
    BY <2>4, <2>5 DEF TxInv
<1>4. CASE SendFill(s)
  <2>1. idx[s] = tdt /\ n < NumTx /\ txTail = tdt
    BY <1>1, <1>4 DEF SendFill, TailInv
  <2>2. /\ pc'[s] = "tail"
        /\ UNCHANGED <<txTail, tdt, tdh, idx, seq, pending>>
    BY <1>0, <1>4 DEF SendFill, TypeInv, TypeOK
  <2>3. /\ txBuffers'[tdt] = Packet(s)
        /\ txDescs'[tdt] = [dd |-> FALSE, cmd |-> TRUE]
        /\ \A d \in TxDescs \ {tdt} : txBuffers'[d] = txBuffers[d] /\ txDescs'[d] = txDescs[d]
    BY <1>0, <1>4, <2>1 DEF SendFill, TypeInv, TypeOK
  <2>4. Packet(s)' = Packet(s)
    BY <2>2 DEF Packet
  <2>5. ASSUME NEW k \in 1 .. n PROVE Queued((tdh + k - 1) % NumTx, pending[k])'
    <3>1. k - 1 \in 0 .. NumTx - 1 /\ n \in 0 .. NumTx - 1 /\ k - 1 # n
          /\ k - 1 \in 0 .. NumTx /\ tdh + k - 1 = tdh + (k - 1)
      BY <1>0, <2>1, E1000Assumption DEF TxDescs
    <3>2. (tdh + (k - 1)) % NumTx \in TxDescs \ {tdt}
      <4>1. (tdh + (k - 1)) % NumTx # (tdh + n) % NumTx
        BY <1>0, <3>1, Places
      <4>2. (tdh + (k - 1)) % NumTx \in TxDescs
        BY <1>0, <3>1, Places
      <4>3. QED
        BY <1>1, <4>1, <4>2
    <3>3. Queued((tdh + k - 1) % NumTx, pending[k])
      BY <1>1 DEF QueuedInv
    <3>4. QED
      BY <2>2, <2>3, <3>1, <3>2, <3>3 DEF Queued
  <2>6. TailInv(s)'
    BY <1>1, <2>1, <2>2 DEF TailInv, NextTail
  <2>7. Queued(tdt, Packet(s))'
    BY <2>2, <2>3, <2>4 DEF Queued
  <2>8. QueuedInv(s)'
    BY <1>1, <2>2, <2>5, <2>7 DEF QueuedInv
  <2>9. QED
    BY <2>6, <2>8 DEF TxInv
<1>5. CASE SendStoreTail(s)
  <2>1. idx[s] = tdt /\ n < NumTx
    BY <1>1, <1>5 DEF SendStoreTail, TailInv
  <2>2. /\ pc[s] = "tail" /\ pc'[s] = "ring" /\ txTail' = NextTail(tdt)
        /\ UNCHANGED <<txDescs, txBuffers, tdt, tdh, idx, seq, pending>>
    BY <1>0, <1>5, <2>1 DEF SendStoreTail, TypeInv, TypeOK
  <2>3. TailInv(s)'
    BY <1>1, <2>1, <2>2 DEF TailInv, NextTail
  <2>4. QueuedInv(s)'
    BY <1>1, <2>2 DEF QueuedInv, Queued, Packet
  <2>5. QED
    BY <2>3, <2>4 DEF TxInv
<1>6. CASE SendRing(s)
  <2>1. idx[s] = tdt /\ n < NumTx /\ txTail = NextTail(tdt)
    BY <1>1, <1>6 DEF SendRing, TailInv
  <2>2. /\ pc[s] = "ring" /\ pc'[s] = "idle" /\ tdt' = NextTail(tdt)
        /\ pending' = Append(pending, Packet(s))
        /\ UNCHANGED <<txDescs, txBuffers, txTail, tdh, idx>>
    BY <1>0, <1>6, <2>1 DEF SendRing, TypeInv, TypeOK
  <2>3. /\ Len(pending') = n + 1
        /\ \A k \in 1 .. n : pending'[k] = pending[k]
        /\ pending'[n + 1] = Packet(s)
    BY <1>0, <2>2
  <2>4. tdt' = (tdh + (n + 1)) % NumTx
    <3>1. n \in 0 .. NumTx - 1
      BY <1>0, <2>1
    <3>2. NextTail((tdh + n) % NumTx) = (tdh + (n + 1)) % NumTx
      BY <1>0, <3>1, Places
    <3>3. QED
      BY <1>1, <2>2, <3>2
  <2>5. TailInv(s)'
    BY <2>1, <2>2, <2>3, <2>4 DEF TailInv
  <2>6. Queued(tdt, Packet(s))
    BY <1>1, <2>2 DEF QueuedInv
  <2>7. ASSUME NEW k \in 1 .. n + 1 PROVE Queued((tdh + k - 1) % NumTx, pending'[k])
    <3>1. CASE k = n + 1
      <4>1. tdh + k - 1 = tdh + n
        BY <1>0, <3>1, E1000Assumption DEF TxDescs
      <4>2. QED
        BY <1>1, <2>3, <2>6, <3>1, <4>1
    <3>2. CASE k # n + 1
      <4>1. k \in 1 .. n
        BY <1>0, <3>2
      <4>2. QED
        BY <1>1, <2>3, <4>1 DEF QueuedInv
    <3>3. QED
      BY <3>1, <3>2
  <2>8. QueuedInv(s)'
    BY <1>0, <2>1, <2>2, <2>3, <2>7 DEF QueuedInv, Queued
  <2>9. QED
    BY <2>5, <2>8 DEF TxInv
<1>7. QED
  BY <1>2, <1>3, <1>4, <1>5, <1>6 DEF SendPacket

LEMMA TransmitStep ==
  ASSUME NEW s \in Senders, TypeInv, TxInv(s), NicTransmit
  PROVE  TxInv(s)'
<1> DEFINE n == Len(pending)
<1>0. /\ n \in 0 .. NumTx /\ n \in Nat /\ NumTx \in Nat \ {0}
      /\ tdh \in TxDescs /\ tdt \in TxDescs
      /\ pending \in Seq(Packets)
      /\ tdh # tdt
  BY E1000Assumption DEF TypeInv, TypeOK, TxInv, QueuedInv, NicTransmit
<1>1. TailInv(s) /\ QueuedInv(s) /\ tdt = (tdh + n) % NumTx
  BY DEF TxInv, TailInv
<1>2. n # 0 /\ n # NumTx
  BY <1>0, <1>1, Places
<1>3. /\ n \in 1 .. NumTx - 1 /\ n - 1 \in 0 .. NumTx - 1
      /\ pending # << >>
  BY <1>0, <1>2
<1>4. /\ pending' = Tail(pending) /\ tdh' = NextTail(tdh)
      /\ UNCHANGED <<txBuffers, txTail, tdt, pc, idx, seq>>
  BY <1>3 DEF NicTransmit, NextTail
<1>5. Len(pending') = n - 1 /\ \A k \in 1 .. n - 1 : pending'[k] = pending[k + 1]
  BY <1>0, <1>3, <1>4
<1>6. \A d \in TxDescs \ {tdh} : txDescs'[d] = txDescs[d]
  BY DEF NicTransmit, TypeInv, TypeOK
<1>7. tdt' = (tdh' + (n - 1)) % NumTx
  <2>1. (NextTail(tdh) + (n - 1)) % NumTx = (tdh + ((n - 1) + 1)) % NumTx
    BY <1>0, <1>3, Places
  <2>2. (n - 1) + 1 = n
    BY <1>0
  <2>3. QED
    BY <1>1, <1>4, <2>1, <2>2
<1>8. TailInv(s)'
  <2>1. tdt' = (tdh' + Len(pending')) % NumTx
    BY <1>5, <1>7
  <2>2. Len(pending') < NumTx
    BY <1>0, <1>5
  <2>3. QED
    BY <1>1, <1>4, <2>1, <2>2 DEF TailInv, NextTail
<1>9. ASSUME NEW k \in 1 .. n - 1
      PROVE  Queued((tdh + k - 1) % NumTx, pending[k])'
  <2>1. /\ k \in Nat /\ k \in 0 .. NumTx - 1 /\ k - 1 \in 0 .. NumTx - 1 /\ k + 1 \in 1 .. n
        /\ 0 \in 0 .. NumTx - 1 /\ k # 0 /\ k \in 0 .. NumTx
    BY <1>0
  <2>2. tdh' + k - 1 = tdh' + (k - 1) /\ tdh + (k + 1) - 1 = tdh + k /\ (k - 1) + 1 = k
    <3>1. tdh \in Nat /\ tdh' \in Nat
      BY <1>0, <1>4, NextInRing, E1000Assumption DEF TxDescs
    <3>2. QED
      BY <2>1, <3>1
  <2>3. (tdh' + (k - 1)) % NumTx = (tdh + k) % NumTx
    BY <1>0, <1>4, <2>1, <2>2, Places
  <2>4. (tdh + k) % NumTx \in TxDescs \ {tdh}
    <3>1. (tdh + k) % NumTx # (tdh + 0) % NumTx
      BY <1>0, <2>1, Places
    <3>2. (tdh + 0) % NumTx = tdh /\ (tdh + k) % NumTx \in TxDescs
      BY <1>0, <2>1, Places
    <3>3. QED
      BY <3>1, <3>2
  <2>5. Queued((tdh + k) % NumTx, pending[k + 1])
    BY <1>1, <2>1, <2>2 DEF QueuedInv
  <2>6. QED
    BY <1>4, <1>5, <1>6, <2>2, <2>3, <2>4, <2>5 DEF Queued
<1>10. Queued(tdt, Packet(s)) => Queued(tdt, Packet(s))'
  BY <1>0, <1>4, <1>6 DEF Queued, Packet
<1>11. QueuedInv(s)'
  BY <1>0, <1>1, <1>4, <1>5, <1>9, <1>10 DEF QueuedInv
<1>12. QED
  BY <1>8, <1>11 DEF TxInv

\* A core that finds another one in send_packet is refused or makes the calls
\* overlap.
LEMMA OverlapOrRefused ==
  ASSUME TypeInv, NEW s \in Senders, NEW t \in Senders, s # t, OnlySender(s),
         pc[s] # "idle", TxInv(s), SendPacket(t), ~ overlapped'
  PROVE  OnlySender(s)' /\ TxInv(s)'
<1>1. pc[t] = "idle"
  BY DEF OnlySender
<1>2. ~ SendClaim(t)
  BY DEF SendClaim
<1>3. SendRefused(t)
  BY <1>1, <1>2 DEF SendPacket, SendFill, SendStoreTail, SendRing
<1>4. /\ UNCHANGED <<txDescs, txBuffers, txTail, tdt, tdh, pc, idx, pending>>
      /\ seq'[s] = seq[s]
  BY <1>3 DEF SendRefused, Take, TypeInv, TypeOK
<1>5. QED
  BY <1>4 DEF OnlySender, TxInv, TailInv, QueuedInv, Queued, Packet, NextTail

\* When nobody is in send_packet, every core may be the next.
LEMMA IdleSwap ==
  ASSUME NEW s \in Senders, NEW t \in Senders, OnlySender(s), pc[s] = "idle", TxInv(s)
  PROVE  OnlySender(t) /\ TxInv(t)
<1>1. pc[t] = "idle" /\ OnlySender(t)
  BY DEF OnlySender
<1>2. QED
  BY <1>1 DEF TxInv, TailInv, QueuedInv

\* The sender's own steps leave the other cores where they are.
LEMMA OnlySenderStep ==
  ASSUME TypeInv, NEW s \in Senders, OnlySender(s), SendPacket(s)
  PROVE  OnlySender(s)'
<1>1. \A t \in Senders \ {s} : pc'[t] = pc[t]
  BY DEF SendPacket, SendRefused, SendClaim, SendFill, SendStoreTail, SendRing,
         TypeInv, TypeOK
<1>2. QED
  BY <1>1 DEF OnlySender

LEMMA TxStep == TypeInv /\ AloneInv /\ [Next]_vars => AloneInv'
<1> SUFFICES ASSUME TypeInv, AloneInv, [Next]_vars, ~ overlapped'
             PROVE  \E s \in Senders : OnlySender(s)' /\ TxInv(s)'
  BY DEF AloneInv
<1>1. ~ overlapped
  BY DEF Next, SendPacket, SendRefused, SendClaim, SendFill, SendStoreTail, SendRing,
         Enters, NicTransmit, NicReceive, PollRxPacket, vars, txVars
<1>2. PICK s \in Senders : OnlySender(s) /\ TxInv(s)
  BY <1>1 DEF AloneInv
<1>3. ASSUME NEW t \in Senders, SendPacket(t)
      PROVE  \E u \in Senders : OnlySender(u)' /\ TxInv(u)'
  <2>1. CASE t = s \/ pc[s] = "idle"
    <3>1. OnlySender(t) /\ TxInv(t)
      BY <1>2, <2>1, IdleSwap
    <3>2. OnlySender(t)' /\ TxInv(t)'
      BY <1>1, <1>3, <3>1, OnlySenderStep, SendStep
    <3>3. QED
      BY <3>2
  <2>2. CASE t # s /\ pc[s] # "idle"
    <3>1. OnlySender(s)' /\ TxInv(s)'
      BY <1>2, <1>3, <2>2, OverlapOrRefused
    <3>2. QED
      BY <3>1
  <2>3. QED
    BY <2>1, <2>2
<1>4. CASE NicTransmit
  <2>1. OnlySender(s)' /\ TxInv(s)'
    BY <1>2, <1>4, TransmitStep DEF OnlySender, NicTransmit
  <2>2. QED
    BY <2>1
<1>5. CASE UNCHANGED txVars
  <2>1. OnlySender(s)'
    BY <1>2, <1>5 DEF OnlySender, txVars
  <2>2. TxInv(s)'
    BY <1>2, <1>5, TxStutter
  <2>3. QED
    BY <2>1, <2>2
<1>6. QED
  BY <1>3, <1>4, <1>5 DEF Next, NicReceive, PollRxPacket, vars

LEMMA TxInvariance == Spec => [](TypeInv /\ AloneInv)
<1>1. Init => AloneInv
  <2> SUFFICES ASSUME Init PROVE AloneInv
    OBVIOUS
  <2>0. PICK s : s \in Senders
    BY E1000Assumption
  <2>1. (0 + 0) % NumTx = 0
    BY E1000Assumption
  <2>2. Len(pending) = 0 /\ tdt = 0 /\ tdh = 0 /\ txTail = 0
    BY DEF Init
  <2>3. \A t \in Senders : pc[t] = "idle"
    BY DEF Init
  <2>4. TxInv(s)
    BY <2>0, <2>1, <2>2, <2>3, E1000Assumption DEF TxInv, TailInv, QueuedInv
  <2>5. OnlySender(s)
    BY <2>3 DEF OnlySender
  <2>6. QED
    BY <2>0, <2>4, <2>5 DEF AloneInv
<1>2. QED
  BY <1>1, TxStep, TypeInvariance, PTL DEF Spec

\* For any set of cores that send, and until two of their calls overlap: every
\* packet whose send returned Ok stays unmodified in its descriptor, in order,
\* until the NIC has transmitted it.  The DD test, the two copies of the tail and
\* the NIC's head never let the driver overwrite, lose or reorder one.
THEOREM AcceptedStaysIntact == Spec => []PendingIntact
<1>1. TypeInv /\ AloneInv => PendingIntact
  <2> SUFFICES ASSUME AloneInv, ~ overlapped PROVE PendingIntact
    BY DEF PendingIntact
  <2>1. PICK s \in Senders : TxInv(s)
    BY DEF AloneInv
  <2>2. QED
    BY <2>1 DEF TxInv, QueuedInv, Queued, PendingIntact
<1>2. QED
  BY <1>1, TxInvariance, PTL

\* For any set of cores that send, and until two of their calls overlap: the NIC
\* stops with accepted packets in the ring only when all descriptors are taken.
\* TDT = TDH is full to the driver, which tests DD, and empty to the NIC.
THEOREM WedgeNeedsFullRing == Spec => []WedgedOnlyWhenFull
<1>1. TypeInv /\ AloneInv => WedgedOnlyWhenFull
  <2> SUFFICES ASSUME TypeInv, AloneInv, ~ overlapped, pending # << >>, tdh = tdt
               PROVE  Len(pending) = NumTx
    BY DEF WedgedOnlyWhenFull
  <2>0. PICK s \in Senders : TxInv(s)
    BY DEF AloneInv
  <2>1. /\ tdh \in TxDescs /\ NumTx \in Nat \ {0}
        /\ Len(pending) \in 0 .. NumTx
        /\ tdt = (tdh + Len(pending)) % NumTx
    BY <2>0, E1000Assumption DEF TypeInv, TypeOK, TxInv, TailInv, QueuedInv
  <2>2. Len(pending) # 0
    BY DEF TypeInv, TypeOK
  <2>3. ASSUME Len(pending) \in 1 .. NumTx - 1 PROVE FALSE
    <3>1. (tdh + Len(pending)) % NumTx # (tdh + 0) % NumTx
      <4>1. Len(pending) \in 0 .. NumTx - 1 /\ 0 \in 0 .. NumTx - 1
        BY <2>1, <2>3
      <4>2. QED
        BY <2>1, <2>2, <4>1, Places
    <3>2. (tdh + 0) % NumTx = tdh
      BY <2>1, Places
    <3>3. QED
      BY <2>1, <3>1, <3>2
  <2>4. QED
    BY <2>1, <2>2, <2>3
<1>2. QED
  BY <1>1, TxInvariance, PTL

-----------------------------------------------------------------------------
(* Receive *)

\* The descriptors, their packets and the indices are what arithmetic needs.
LEMMA RxTypes ==
  ASSUME TypeInv
  PROVE  /\ NumRx \in Nat /\ NumRx > 2 /\ RxDescs = 0 .. NumRx - 1
         /\ rdh \in RxDescs /\ rdt \in RxDescs /\ rxTail \in RxDescs
         /\ PollIdx \in RxDescs
         /\ PollIdx = IF rxTail = NumRx - 1 THEN 0 ELSE rxTail + 1
         /\ \A d \in RxDescs : After(d) = IF d = NumRx - 1 THEN 0 ELSE d + 1
         /\ \A d \in RxDescs : rxDescs[d].packet \in Nat
         /\ arrived \in Nat /\ out \in Nat /\ delivered \subseteq Nat
<1>1. NumRx \in Nat /\ NumRx > 2 /\ RxDescs = 0 .. NumRx - 1
  BY E1000Assumption DEF RxDescs
<1>2. rdh \in RxDescs /\ rdt \in RxDescs /\ rxTail \in RxDescs
  BY DEF TypeInv, TypeOK
<1>3. \A d \in RxDescs : After(d) = IF d = NumRx - 1 THEN 0 ELSE d + 1
  BY <1>1 DEF After
<1>4. /\ PollIdx \in RxDescs
      /\ PollIdx = IF rxTail = NumRx - 1 THEN 0 ELSE rxTail + 1
  BY <1>1, <1>2, <1>3 DEF PollIdx
<1>5. \A d \in RxDescs : rxDescs[d].packet \in 0 .. MaxPackets
  BY DEF TypeInv, TypeOK
<1>6. arrived \in Nat /\ out \in Nat /\ delivered \subseteq Nat
  BY E1000Assumption DEF TypeInv, TypeOK
<1>7. QED
  BY <1>1, <1>2, <1>3, <1>4, <1>5, <1>6, E1000Assumption

LEMMA RxStutter ==
  ASSUME RxInv, UNCHANGED rxVars
  PROVE  RxInv'
BY DEF RxInv, WaitingInOrder, FirstPacket, Numbers, Registers, Waiting, Ahead, PollIdx,
       After, rxVars

\* The NIC stores a packet, or loses it for want of a descriptor.
LEMMA ReceiveStep ==
  ASSUME TypeInv, RxInv, NicReceive
  PROVE  RxInv'
<1>0. WaitingInOrder /\ FirstPacket /\ Numbers /\ Registers
  BY DEF RxInv
<1>1. /\ arrived' = arrived + 1
      /\ UNCHANGED <<rxTail, rdt, copying, out, delivered>>
      /\ PollIdx' = PollIdx
      /\ \A d : Ahead(d)' = Ahead(d)
  BY DEF NicReceive, PollIdx, After, Ahead
<1>2. CASE ~ NicOwnsHead
  <2>1. rxDescs' = rxDescs /\ rdh' = rdh
    BY <1>2 DEF NicReceive
  <2>2. WaitingInOrder'
    BY <1>0, <1>1, <2>1 DEF WaitingInOrder, Waiting, Ahead
  <2>3. FirstPacket'
    BY <1>0, <1>1, <2>1 DEF FirstPacket, Waiting
  <2>4. Numbers'
    BY <1>0, <1>1, <2>1, RxTypes DEF Numbers
  <2>5. Registers'
    BY <1>0, <1>1, <1>2, <2>1, RxTypes DEF Registers, NicOwnsHead
  <2>6. QED
    BY <2>2, <2>3, <2>4, <2>5 DEF RxInv
<1>3. CASE NicOwnsHead
  <2>0. PICK h \in RxDescs : h = rdh
    BY RxTypes
  <2>1. h # rdt /\ rdh' = After(h)
    BY <1>3, <2>0 DEF NicReceive, NicOwnsHead
  <2>2. /\ rxDescs'[h] = [dd |-> TRUE, packet |-> arrived + 1]
        /\ \A d \in RxDescs \ {h} : rxDescs'[d] = rxDescs[d]
    BY <1>1, <1>3, <2>0, RxTypes DEF NicReceive, TypeInv, TypeOK
  <2>3. \A d \in RxDescs : Ahead(d) \in 0 .. NumRx - 1
    <3>1. NumRx \in Nat /\ RxDescs = 0 .. NumRx - 1 /\ PollIdx \in 0 .. NumRx - 1
      BY RxTypes
    <3>2. QED
      BY <3>1 DEF Ahead
  <2>5. arrived > 0 => Ahead(rdh') = Ahead(h) + 1
    <3>1. arrived > 0 => h # rxTail
      BY <1>0, <2>0, <2>1, RxTypes DEF Registers
    <3>2. /\ NumRx \in Nat /\ h \in 0 .. NumRx - 1 /\ rxTail \in 0 .. NumRx - 1
          /\ PollIdx = IF rxTail = NumRx - 1 THEN 0 ELSE rxTail + 1
          /\ rdh' = IF h = NumRx - 1 THEN 0 ELSE h + 1
      BY <2>0, <2>1, RxTypes
    <3>3. QED
      BY <3>1, <3>2 DEF Ahead
  <2>6. arrived = 0 => h = 0
    BY <1>0, <2>0, RxTypes DEF Registers
  <2>7. \A d \in RxDescs \ {h} : Waiting(d)' <=> Waiting(d)
    BY <2>2 DEF Waiting
  <2>8. Waiting(h)' <=> arrived > 0
    BY <2>2, RxTypes DEF Waiting
  <2>9. \A d \in RxDescs : Waiting(d) => d # h /\ rxDescs[d].packet <= arrived
                                       /\ arrived > 0
    <3> SUFFICES ASSUME NEW d \in RxDescs, Waiting(d)
                 PROVE  d # h /\ rxDescs[d].packet <= arrived /\ arrived > 0
      OBVIOUS
    <3>1. Ahead(d) < Ahead(h)
      BY <1>0, <2>0 DEF WaitingInOrder
    <3>2. d # h
      BY <2>3, <3>1
    <3>3. rxDescs[d].packet <= arrived /\ rxDescs[d].packet # 0
      BY <1>0 DEF Numbers, Waiting, TypeInv, RxStored
    <3>4. QED
      BY <3>2, <3>3, RxTypes
  <2>10. WaitingInOrder'
    <3>1. ASSUME NEW d \in RxDescs, Waiting(d)' PROVE Ahead(d) < Ahead(rdh')
      <4>1. CASE d = h
        BY <2>3, <2>5, <2>8, <3>1, <4>1, RxTypes
      <4>2. CASE d # h
        <5>1. Waiting(d) /\ Ahead(d) < Ahead(h)
          BY <1>0, <2>0, <2>7, <3>1, <4>2 DEF WaitingInOrder
        <5>2. QED
          BY <2>3, <2>5, <2>9, <5>1, RxTypes
      <4>3. QED
        BY <4>1, <4>2
    <3>2. ASSUME NEW d \in RxDescs, NEW e \in RxDescs, Waiting(d)', Waiting(e)',
                 Ahead(d) < Ahead(e)
          PROVE  rxDescs'[d].packet < rxDescs'[e].packet
      <4>1. CASE d # h /\ e # h
        BY <1>0, <2>2, <2>7, <3>2, <4>1 DEF WaitingInOrder
      <4>2. CASE d # h /\ e = h
        <5>1. rxDescs'[d] = rxDescs[d] /\ rxDescs'[e].packet = arrived + 1 /\ Waiting(d)
          BY <2>2, <2>7, <3>2, <4>2
        <5>2. rxDescs[d].packet <= arrived /\ rxDescs[d].packet \in Nat /\ arrived \in Nat
          BY <2>9, <5>1, RxTypes
        <5>3. QED
          BY <5>1, <5>2
      <4>3. CASE d = h
        <5>1. e # h
          BY <2>3, <3>2, <4>3, RxTypes
        <5>2. Ahead(e) < Ahead(h)
          BY <1>0, <2>0, <2>7, <3>2, <5>1 DEF WaitingInOrder
        <5>3. QED
          BY <2>3, <3>2, <4>3, <5>2, RxTypes
      <4>4. QED
        BY <4>1, <4>2, <4>3
    <3>3. ASSUME NEW d \in RxDescs, Waiting(d)', NEW q \in delivered
          PROVE  q < rxDescs'[d].packet
      <4>1. CASE d = h
        BY <1>0, <2>2, <4>1, RxTypes DEF Numbers
      <4>2. CASE d # h
        BY <1>0, <2>2, <2>7, <3>3, <4>2 DEF WaitingInOrder
      <4>3. QED
        BY <4>1, <4>2
    <3>4. QED
      BY <1>1, <3>1, <3>2, <3>3 DEF WaitingInOrder, Ahead
  <2>11. FirstPacket'
    <3>1. ASSUME NEW d \in RxDescs, rxDescs'[d].dd, rxDescs'[d].packet = 1
          PROVE  d = 0 /\ 1 \notin delivered
      <4>1. CASE d = h
        <5>1. arrived = 0
          BY <2>2, <3>1, <4>1, RxTypes
        <5>2. QED
          BY <1>0, <2>6, <4>1, <5>1, RxTypes DEF Numbers
      <4>2. CASE d # h
        BY <1>0, <2>2, <3>1, <4>2 DEF FirstPacket
      <4>3. QED
        BY <4>1, <4>2
    <3>2. ASSUME copying, out # 1
          PROVE  Waiting(PollIdx)' /\ rxDescs'[PollIdx].packet = out
      <4>1. PollIdx \in RxDescs /\ Waiting(PollIdx) /\ rxDescs[PollIdx].packet = out
        BY <1>0, <3>2, RxTypes DEF FirstPacket
      <4>2. PollIdx # h
        BY <2>9, <4>1
      <4>3. QED
        BY <1>1, <2>2, <4>1, <4>2 DEF Waiting
    <3>3. QED
      BY <1>0, <1>1, <3>1, <3>2 DEF FirstPacket, Waiting
  <2>12. Numbers'
    <3>1. ASSUME NEW d \in RxDescs PROVE rxDescs'[d].packet <= arrived'
      <4>0. arrived \in Nat /\ arrived' = arrived + 1
        BY <1>1, RxTypes
      <4>1. CASE d = h
        BY <2>2, <4>0, <4>1
      <4>2. CASE d # h
        <5>1. rxDescs'[d] = rxDescs[d] /\ rxDescs[d].packet \in Nat
          BY <2>2, <4>2, RxTypes
        <5>2. rxDescs[d].packet <= arrived
          BY <1>0 DEF Numbers
        <5>3. QED
          BY <4>0, <5>1, <5>2
      <4>3. QED
        BY <4>1, <4>2
    <3>2. QED
      BY <1>0, <1>1, <3>1, RxTypes DEF Numbers
  <2>13. Registers'
    BY <1>0, <1>1, <2>0, <2>1, RxTypes DEF Registers
  <2>14. QED
    BY <2>10, <2>11, <2>12, <2>13 DEF RxInv
<1>4. QED
  BY <1>2, <1>3

LEMMA CopyStep ==
  ASSUME TypeInv, RxInv, PollCopy
  PROVE  RxInv'
<1>0. WaitingInOrder /\ FirstPacket /\ Numbers /\ Registers
  BY DEF RxInv
<1>1. /\ UNCHANGED <<rxDescs, rxTail, rdh, rdt, arrived, delivered, PollIdx>>
      /\ \A d : Ahead(d)' = Ahead(d)
  BY DEF PollCopy, PollIdx, After, Ahead
<1>2. WaitingInOrder'
  BY <1>0, <1>1 DEF WaitingInOrder, Waiting, Ahead
<1>3. out' = rxDescs[PollIdx].packet /\ rxDescs[PollIdx].dd /\ PollIdx \in RxDescs
  BY RxTypes DEF PollCopy
<1>4. FirstPacket'
  BY <1>0, <1>1, <1>3 DEF FirstPacket, Waiting
<1>5. Numbers'
  BY <1>0, <1>1, <1>3 DEF Numbers
<1>6. Registers'
  BY <1>0, <1>1 DEF Registers
<1>7. QED
  BY <1>2, <1>4, <1>5, <1>6 DEF RxInv

LEMMA ReturnStep ==
  ASSUME TypeInv, TypeInv', RxInv, PollReturn
  PROVE  RxInv'
<1>0. WaitingInOrder /\ FirstPacket /\ Numbers /\ Registers
  BY DEF RxInv
<1>1. /\ copying /\ ~ copying'
      /\ rxTail' = PollIdx /\ rdt' = PollIdx /\ delivered' = delivered \cup {out}
      /\ UNCHANGED <<rdh, out, arrived>>
  BY DEF PollReturn
<1>2. /\ ~ rxDescs'[PollIdx].dd /\ rxDescs'[PollIdx].packet = rxDescs[PollIdx].packet
      /\ \A d \in RxDescs \ {PollIdx} : rxDescs'[d] = rxDescs[d]
  BY RxTypes DEF PollReturn, ResetStatus, TypeInv, TypeOK
<1>3. \A d \in RxDescs : Ahead(d)' = IF d = PollIdx THEN NumRx - 1 ELSE Ahead(d) - 1
  <2>1. PollIdx' = IF PollIdx = NumRx - 1 THEN 0 ELSE PollIdx + 1
    BY <1>1, RxTypes DEF PollIdx
  <2>2. NumRx \in Nat /\ RxDescs = 0 .. NumRx - 1 /\ PollIdx \in 0 .. NumRx - 1
    BY RxTypes
  <2>3. QED
    BY <2>1, <2>2 DEF Ahead
<1>4. \A d \in RxDescs : Ahead(d) \in 0 .. NumRx - 1 /\ (Ahead(d) = 0 <=> d = PollIdx)
  <2>1. NumRx \in Nat /\ RxDescs = 0 .. NumRx - 1 /\ PollIdx \in 0 .. NumRx - 1
    BY RxTypes
  <2>2. QED
    BY <2>1 DEF Ahead
<1>5. \A d \in RxDescs : Waiting(d)' => Waiting(d) /\ d # PollIdx
                                      /\ rxDescs'[d] = rxDescs[d]
  BY <1>2 DEF Waiting
<1>6. ASSUME NEW d \in RxDescs, Waiting(d), d # PollIdx PROVE out < rxDescs[d].packet
  <2>1. CASE out = 1
    BY <1>6, <2>1, RxTypes DEF Waiting, TypeInv, RxStored
  <2>2. CASE out # 1
    <3>1. Waiting(PollIdx) /\ rxDescs[PollIdx].packet = out
      BY <1>0, <1>1, <2>2 DEF FirstPacket
    <3>2. Ahead(PollIdx) < Ahead(d)
      BY <1>4, <1>6, RxTypes
    <3>3. QED
      BY <1>0, <1>6, <3>1, <3>2, RxTypes DEF WaitingInOrder
  <2>3. QED
    BY <2>1, <2>2
<1>7. WaitingInOrder'
  <2>1. ASSUME NEW d \in RxDescs, Waiting(d)' PROVE Ahead(d)' < Ahead(rdh)'
    <3>1. d # PollIdx /\ Ahead(d) < Ahead(rdh)
      BY <1>0, <1>5, <2>1 DEF WaitingInOrder
    <3>2. rdh \in RxDescs /\ rdh # PollIdx
      BY <1>4, <3>1, RxTypes
    <3>3. Ahead(d)' = Ahead(d) - 1 /\ Ahead(rdh)' = Ahead(rdh) - 1
      BY <1>1, <1>3, <3>1, <3>2 DEF Ahead
    <3>4. QED
      BY <1>4, <3>1, <3>2, <3>3, RxTypes
  <2>2. ASSUME NEW d \in RxDescs, NEW e \in RxDescs, Waiting(d)', Waiting(e)',
               Ahead(d)' < Ahead(e)'
        PROVE  rxDescs'[d].packet < rxDescs'[e].packet
    <3>1. /\ Waiting(d) /\ Waiting(e) /\ d # PollIdx /\ e # PollIdx
          /\ rxDescs'[d] = rxDescs[d] /\ rxDescs'[e] = rxDescs[e]
      BY <1>5, <2>2
    <3>2. Ahead(d)' = Ahead(d) - 1 /\ Ahead(e)' = Ahead(e) - 1
      BY <1>3, <3>1
    <3>3. Ahead(d) < Ahead(e)
      BY <1>4, <2>2, <3>2, RxTypes
    <3>4. QED
      BY <1>0, <3>1, <3>3 DEF WaitingInOrder
  <2>3. ASSUME NEW d \in RxDescs, Waiting(d)', NEW q \in delivered'
        PROVE  q < rxDescs'[d].packet
    <3>1. Waiting(d) /\ d # PollIdx /\ rxDescs'[d] = rxDescs[d]
      BY <1>5, <2>3
    <3>2. out < rxDescs[d].packet
      BY <1>6, <3>1
    <3>3. QED
      BY <1>0, <1>1, <3>1, <3>2 DEF WaitingInOrder
  <2>4. QED
    BY <2>1, <2>2, <2>3 DEF WaitingInOrder
<1>8. FirstPacket'
  <2>1. ASSUME NEW d \in RxDescs, rxDescs'[d].dd, rxDescs'[d].packet = 1
        PROVE  d = 0 /\ 1 \notin delivered'
    <3>1. d # PollIdx /\ rxDescs'[d] = rxDescs[d]
      BY <1>2, <2>1
    <3>2. d = 0 /\ 1 \notin delivered
      BY <1>0, <2>1, <3>1 DEF FirstPacket
    <3>3. out # 1
      BY <1>0, <1>1, <3>1, <3>2 DEF FirstPacket
    <3>4. QED
      BY <1>1, <3>2, <3>3
  <2>2. QED
    BY <1>1, <2>1 DEF FirstPacket
<1>9. Numbers'
  <2>1. \A d \in RxDescs : rxDescs'[d].packet = rxDescs[d].packet
    BY <1>2
  <2>2. QED
    BY <1>0, <1>1, <2>1 DEF Numbers
<1>10. Registers'
  <2>1. out # 0 /\ out <= arrived
    BY <1>0, <1>1 DEF Numbers, TypeInv, RxStored
  <2>2. QED
    BY <1>1, <2>1, RxTypes DEF Registers
<1>11. QED
  BY <1>7, <1>8, <1>9, <1>10 DEF RxInv

LEMMA RxStep == TypeInv /\ TypeInv' /\ RxInv /\ [Next]_vars => RxInv'
<1> SUFFICES ASSUME TypeInv, TypeInv', RxInv, [Next]_vars PROVE RxInv'
  OBVIOUS
<1>1. CASE NicReceive
  BY <1>1, ReceiveStep
<1>2. CASE PollCopy
  BY <1>2, CopyStep
<1>3. CASE PollReturn
  BY <1>3, ReturnStep
<1>4. CASE UNCHANGED rxVars
  BY <1>4, RxStutter
<1>5. QED
  BY <1>1, <1>2, <1>3, <1>4
     DEF Next, SendPacket, NicTransmit, PollRxPacket, PollNone, vars

\* What a return of poll_rx_packet gives: packet 1 for the first time, or a
\* packet newer than all that came before it.
InOrderStep ==
  copying /\ ~ copying' =>
    IF out = 1 THEN 1 \notin delivered ELSE \A q \in delivered : q < out

LEMMA ReturnsInOrder == TypeInv /\ RxInv /\ [Next]_vars => InOrderStep
<1> SUFFICES ASSUME TypeInv, RxInv, copying
             PROVE  IF out = 1 THEN 1 \notin delivered
                    ELSE \A q \in delivered : q < out
  BY DEF InOrderStep
<1>1. CASE out = 1
  BY <1>1 DEF RxInv, FirstPacket
<1>2. CASE out # 1
  <2>1. Waiting(PollIdx) /\ rxDescs[PollIdx].packet = out /\ PollIdx \in RxDescs
    BY <1>2, RxTypes DEF RxInv, FirstPacket
  <2>2. QED
    BY <1>2, <2>1 DEF RxInv, WaitingInOrder
<1>3. QED
  BY <1>1, <1>2

\* poll_rx_packet returns no packet twice, and every packet but the very first
\* in the order of arrival, although the driver starts to look one descriptor
\* after the NIC and the NIC may fill the ring to the last descriptor.
THEOREM ReceiveInOrder == Spec => OnceAndInOrder
<1>1. Init => RxInv
  <2> SUFFICES ASSUME Init PROVE RxInv
    OBVIOUS
  <2>1. \A d \in RxDescs : ~ rxDescs[d].dd /\ rxDescs[d].packet = 0
    BY DEF Init
  <2>2. arrived = 0 /\ delivered = {} /\ ~ copying
        /\ rdt = NumRx - 1 /\ rxTail = 0 /\ rdh = 0
    BY DEF Init
  <2>3. QED
    BY <2>1, <2>2 DEF RxInv, WaitingInOrder, FirstPacket, Numbers, Registers, Waiting
<1>2. TypeInv /\ RxInv /\ [Next]_vars => [InOrderStep]_vars
  BY ReturnsInOrder
<1>3. QED
  BY <1>1, <1>2, RxStep, TypeInvariance, PTL DEF Spec, OnceAndInOrder, InOrderStep
=============================================================================
