-------------------------------- MODULE E1000 --------------------------------
(***************************************************************************)
(* The poll-mode driver kernel/src/e1000.rs and the part of the NIC that   *)
(* it drives, one step per access to shared state.                         *)
(*                                                                         *)
(* Transmit: send_packet is called by core 3 (through stream_send_frame)   *)
(* and, for `benchmark` and the script intrinsic @send, by core 0:         *)
(* Senders.  The NIC transmits the descriptors from TDH up to, not         *)
(* including, TDT.                                                         *)
(*                                                                         *)
(* Receive: the NIC owns the descriptors from RDH up to, not including,    *)
(* RDT; poll_rx_packet, called by core 3 only, looks at the descriptor     *)
(* after E1000_RX_TAIL and gives it back by writing RDT.                   *)
(***************************************************************************)
EXTENDS Naturals, Sequences

CONSTANTS NumTx,       \* NUM_TX_DESCS (64)
          NumRx,       \* NUM_RX_DESCS (64)
          Senders,     \* the cores that call send_packet
          SeqSpace,    \* number of values of packet_seq (2^16)
          MaxPackets   \* bound: packets 1 .. MaxPackets arrive, in that order

ASSUME E1000Assumption ==
  /\ NumTx \in Nat \ {0}
  /\ NumRx \in Nat /\ NumRx > 2
  /\ SeqSpace \in Nat /\ SeqSpace > NumTx
  /\ MaxPackets \in Nat
  /\ Senders # {}

VARIABLES initialized, \* E1000_INITIALIZED: a NIC was found on the PCI bus
          txDescs,     \* TX_DESCS: the DD bit and whether cmd # 0
          txBuffers,   \* TX_BUFFERS: the packet in each buffer
          txTail,      \* E1000_TX_TAIL
          tdt, tdh,    \* the NIC's tail and head registers
          pc, idx,     \* where each core is in send_packet, and its idx
          seq,         \* *packet_seq of each core's stream
          pending,     \* history: packets whose send returned Ok and that the
                       \* NIC has not transmitted, oldest first
          overlapped,  \* history: a core has entered send_packet while another
                       \* was in it
          rxDescs,     \* RX_DESCS and RX_BUFFERS: DD and the packet
          rxTail,      \* E1000_RX_TAIL
          rdh, rdt,    \* the NIC's head and tail registers
          copying,     \* poll_rx_packet is between its DD test and its RDT write
          out,         \* the packet it has copied
          arrived,     \* packets that reached the NIC
          delivered    \* history: packets poll_rx_packet returned

txVars == <<txDescs, txBuffers, txTail, tdt, tdh, pc, idx, seq, pending,
            overlapped>>
rxVars == <<rxDescs, rxTail, rdh, rdt, copying, out, arrived, delivered>>
vars == <<initialized, txVars, rxVars>>

TxDescs == 0 .. NumTx - 1
RxDescs == 0 .. NumRx - 1
NoPacket == [core |-> "none", seq |-> 0]
Packet(s) == [core |-> s, seq |-> seq[s]]

\* init_e1000: every transmit descriptor is done and has no command, no receive
\* descriptor is done, TDH = TDT = RDH = 0, RDT = 63 and E1000_RX_TAIL = 0.
Init ==
  /\ initialized \in BOOLEAN
  /\ txDescs = [d \in TxDescs |-> [dd |-> TRUE, cmd |-> FALSE]]
  /\ txBuffers = [d \in TxDescs |-> NoPacket]
  /\ txTail = 0 /\ tdt = 0 /\ tdh = 0
  /\ pc = [s \in Senders |-> "idle"]
  /\ idx = [s \in Senders |-> 0]
  /\ seq = [s \in Senders |-> 1]
  /\ pending = << >>
  /\ overlapped = FALSE
  /\ rxDescs = [d \in RxDescs |-> [dd |-> FALSE, packet |-> 0]]
  /\ rxTail = 0 /\ rdh = 0 /\ rdt = NumRx - 1
  /\ copying = FALSE /\ out = 0
  /\ arrived = 0 /\ delivered = {}

-----------------------------------------------------------------------------
(* send_packet *)

\* Mutant: the descriptor's DD bit is not looked at.
BusyNever(d) == FALSE

\* (desc.status & 1) == 0 && desc.cmd != 0
Busy(d) == ~ txDescs[d].dd /\ txDescs[d].cmd

\* stream_send_frame takes a sequence number before it calls send_packet, also
\* for a packet that is then refused.
Take(s) == seq' = [seq EXCEPT ![s] = (@ + 1) % SeqSpace]

\* Bound: once two calls have overlapped, only the calls under way are followed.
Enters(s) == pc[s] = "idle" /\ ~ overlapped

\* Without a NIC, or if the descriptor at the tail is busy, Err.
SendRefused(s) ==
  /\ Enters(s)
  /\ ~ initialized \/ Busy(txTail)
  /\ Take(s)
  /\ UNCHANGED <<txDescs, txBuffers, txTail, tdt, tdh, pc, idx, pending, overlapped>>

SendClaim(s) ==
  /\ Enters(s)
  /\ initialized /\ ~ Busy(txTail)
  /\ idx' = [idx EXCEPT ![s] = txTail]
  /\ pc' = [pc EXCEPT ![s] = "fill"]
  /\ overlapped' = \E t \in Senders \ {s} : pc[t] # "idle"
  /\ UNCHANGED <<txDescs, txBuffers, txTail, tdt, tdh, seq, pending>>

\* Copy the packet, then set cmd and clear DD.
SendFill(s) ==
  /\ pc[s] = "fill"
  /\ txBuffers' = [txBuffers EXCEPT ![idx[s]] = Packet(s)]
  /\ txDescs' = [txDescs EXCEPT ![idx[s]] = [dd |-> FALSE, cmd |-> TRUE]]
  /\ pc' = [pc EXCEPT ![s] = "tail"]
  /\ UNCHANGED <<txTail, tdt, tdh, idx, seq, pending, overlapped>>

\* Mutant: a tail that stays at the last descriptor.
NextTailClamped(d) == IF d + 1 < NumTx THEN d + 1 ELSE d

NextTail(d) == (d + 1) % NumTx

\* E1000_TX_TAIL.store(next_tail)
SendStoreTail(s) ==
  /\ pc[s] = "tail"
  /\ txTail' = NextTail(idx[s])
  /\ pc' = [pc EXCEPT ![s] = "ring"]
  /\ UNCHANGED <<txDescs, txBuffers, tdt, tdh, idx, seq, pending, overlapped>>

\* mmio_write32(bar0, E1000_TDT, next_tail); Ok(())
SendRing(s) ==
  /\ pc[s] = "ring"
  /\ tdt' = NextTail(idx[s])
  /\ pc' = [pc EXCEPT ![s] = "idle"]
  /\ pending' = Append(pending, Packet(s))
  /\ Take(s)
  /\ UNCHANGED <<txDescs, txBuffers, txTail, tdh, idx, overlapped>>

SendPacket(s) ==
  /\ SendRefused(s) \/ SendClaim(s) \/ SendFill(s) \/ SendStoreTail(s) \/ SendRing(s)
  /\ UNCHANGED <<initialized, rxVars>>

\* The NIC: it transmits the descriptor at TDH while TDH # TDT and reports it
\* done (RS is set in every cmd).
NicTransmit ==
  /\ tdh # tdt
  /\ txDescs' = [txDescs EXCEPT ![tdh].dd = TRUE]
  /\ tdh' = (tdh + 1) % NumTx
  /\ pending' = IF pending = << >> THEN << >> ELSE Tail(pending)
  /\ UNCHANGED <<initialized, txBuffers, txTail, tdt, pc, idx, seq, overlapped,
                 rxVars>>

-----------------------------------------------------------------------------
(* poll_rx_packet *)

After(d) == (d + 1) % NumRx

\* The NIC: RDH = RDT means that it has no descriptor, and the packet is lost.
NicOwnsHead == rdh # rdt

NicReceive ==
  /\ initialized
  /\ arrived < MaxPackets
  /\ arrived' = arrived + 1
  /\ IF NicOwnsHead
       THEN /\ rxDescs' = [rxDescs EXCEPT ![rdh] = [dd |-> TRUE, packet |-> arrived']]
            /\ rdh' = After(rdh)
       ELSE UNCHANGED <<rxDescs, rdh>>
  /\ UNCHANGED <<initialized, txVars, rxTail, rdt, copying, out, delivered>>

\* Mutant: the descriptor at the tail.
PollIdxAtTail == rxTail

\* The descriptor that poll_rx_packet looks at.
PollIdx == After(rxTail)

\* No NIC, or DD is clear: return None.
PollNone ==
  /\ ~ copying
  /\ ~ initialized \/ ~ rxDescs[PollIdx].dd
  /\ UNCHANGED rxVars

\* DD is set, copy the packet.
PollCopy ==
  /\ initialized /\ ~ copying
  /\ rxDescs[PollIdx].dd
  /\ out' = rxDescs[PollIdx].packet
  /\ copying' = TRUE
  /\ UNCHANGED <<rxDescs, rxTail, rdh, rdt, arrived, delivered>>

\* Mutant: the status is not reset.
ResetStatusNever(d) == rxDescs

\* desc.status = 0
ResetStatus(d) == [rxDescs EXCEPT ![d].dd = FALSE]

\* Clear the status, advance the tail, give the descriptor back.
PollReturn ==
  /\ copying
  /\ copying' = FALSE
  /\ rxDescs' = ResetStatus(PollIdx)
  /\ rxTail' = PollIdx
  /\ rdt' = PollIdx
  /\ delivered' = delivered \cup {out}
  /\ UNCHANGED <<rdh, out, arrived>>

PollRxPacket ==
  /\ PollNone \/ PollCopy \/ PollReturn
  /\ UNCHANGED <<initialized, txVars>>

Next ==
  \/ \E s \in Senders : SendPacket(s)
  \/ NicTransmit
  \/ NicReceive
  \/ PollRxPacket

\* Core 3 polls in every turn of its loop.
Spec == Init /\ [][Next]_vars /\ WF_vars(PollRxPacket)

-----------------------------------------------------------------------------
Packets == [core : Senders, seq : 0 .. SeqSpace - 1] \cup {NoPacket}

\* Registers and indices stay inside the descriptor rings, and packet_seq inside
\* its word.
TypeOK ==
  /\ initialized \in BOOLEAN
  /\ txDescs \in [TxDescs -> [dd : BOOLEAN, cmd : BOOLEAN]]
  /\ txBuffers \in [TxDescs -> Packets]
  /\ {txTail, tdt, tdh} \subseteq TxDescs
  /\ pc \in [Senders -> {"idle", "fill", "tail", "ring"}]
  /\ idx \in [Senders -> TxDescs]
  /\ seq \in [Senders -> 0 .. SeqSpace - 1]
  /\ pending \in Seq(Packets)
  /\ overlapped \in BOOLEAN
  /\ rxDescs \in [RxDescs -> [dd : BOOLEAN, packet : 0 .. MaxPackets]]
  /\ {rxTail, rdh, rdt} \subseteq RxDescs
  /\ copying \in BOOLEAN
  /\ out \in 0 .. MaxPackets
  /\ arrived \in 0 .. MaxPackets
  /\ delivered \subseteq 1 .. MaxPackets

\* Every packet for which send_packet returned Ok sits unmodified in its
\* descriptor, in order from TDH on, until the NIC has transmitted it, whichever
\* core sent it: no accepted packet is overwritten, dropped, duplicated or
\* reordered as long as calls of two cores do not overlap.  Nothing in the code
\* keeps them apart, and two cores in send_packet claim the same descriptor.
PendingIntact ==
  ~ overlapped =>
    /\ Len(pending) <= NumTx
    /\ \A k \in 1 .. Len(pending) :
         LET d == (tdh + k - 1) % NumTx
         IN  txBuffers[d] = pending[k] /\ ~ txDescs[d].dd

\* Without overlapping calls, the transmit ring wedges (packets accepted, NIC idle)
\* in one way only: the driver filled every descriptor, so that TDT = TDH means
\* empty to the NIC.
WedgedOnlyWhenFull ==
  ~ overlapped /\ pending # << >> /\ tdh = tdt => Len(pending) = NumTx

\* No packet is returned twice, and apart from the very first one, which lands
\* in descriptor 0 while the driver starts to look at descriptor 1, packets are
\* returned in the order they arrived.
OnceAndInOrder ==
  [][copying /\ ~ copying' =>
       IF out = 1 THEN 1 \notin delivered
                  ELSE \A q \in delivered : q < out]_vars

\* A packet that the NIC stored in any descriptor but 0 is returned by
\* poll_rx_packet.  In descriptor 0, which the driver steps over at first, a
\* packet can be overwritten, or cleared unread, by the next lap.
StoredIsReturned ==
  \A p \in 1 .. MaxPackets :
    (\E d \in RxDescs \ {0} : rxDescs[d].dd /\ rxDescs[d].packet = p)
      ~> p \in delivered

\* Giving descriptors back keeps the receiver alive: when the driver has nothing
\* to poll, the NIC owns a descriptor for the next packet.
ReceiverAlive ==
  ~ copying /\ ~ rxDescs[PollIdx].dd => NicOwnsHead
=============================================================================
