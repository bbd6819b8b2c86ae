------------------------------ MODULE NetProofs ------------------------------
(***************************************************************************)
(* The two sides of kernel/src/net.rs.  Sending, for every packet size,    *)
(* set of frame sizes, deadline and sequence space: the packets on the     *)
(* wire are a prefix of the frame in consecutive numbers, at most the last *)
(* of them is late, and the counters say what became of every frame.       *)
(* Congestion control, for every set of round-trip times and of rates that *)
(* scripts store, every threshold, floor and step: the atomics keep their  *)
(* types, and the controller does not carry the rate out of the range its  *)
(* bounds and the stored rates span.                                       *)
(***************************************************************************)
EXTENDS StreamSend, Congestion, TLAPS

-----------------------------------------------------------------------------
(* stream_send_frame *)

PacketSet == [from : Nat, len : Nat, seq : 0 .. SeqSpace - 1, at : Nat]

\* The types, with what the program counter says about the frame: the packet
\* loop runs on a frame whose result is open, and builds a packet only for bytes
\* that are left.
TypeInv ==
  /\ TypeOK
  /\ wire \in Seq(PacketSet)
  /\ pc \in {"start", "loop", "send"} => result = "none"
  /\ pc = "start" => wire = << >>
  /\ pc = "send" => offset < size
  /\ Refused => wire = << >> /\ pc \notin {"loop", "send"}

\* The packets are adjacent, and the offset is where the last of them ends.
Contiguous ==
  /\ \A k \in 1 .. Len(wire) :
       /\ wire[k].from = IF k = 1 THEN 0 ELSE wire[k - 1].from + wire[k - 1].len
       /\ wire[k].len \in 1 .. Chunk
  /\ offset = IF wire = << >> THEN 0
              ELSE wire[Len(wire)].from + wire[Len(wire)].len
  /\ result = "Ok" /\ ~ Refused => offset = size

\* The packets have consecutive numbers.  The number of a packet is taken before
\* the NIC is asked, so packet_seq is one ahead of the wire in the loop and two
\* ahead while a packet is being sent.
Numbered ==
  /\ \A k \in 2 .. Len(wire) : wire[k].seq = (wire[k - 1].seq + 1) % SeqSpace
  /\ wire # << >> /\ pc = "loop" =>
       packet_seq = (wire[Len(wire)].seq + 1) % SeqSpace
  /\ wire # << >> /\ pc = "send" =>
       LastSeq = (wire[Len(wire)].seq + 1) % SeqSpace

\* Packets carry the time they were sent.  While one is being sent, the deadline
\* test that admitted it has cleared all before it.
Timely ==
  /\ \A k \in 1 .. Len(wire) : wire[k].at <= now
  /\ \A k \in 1 .. Len(wire) - 1 : wire[k].at <= deadline
  /\ pc = "send" => \A k \in 1 .. Len(wire) : wire[k].at <= deadline

-----------------------------------------------------------------------------
(* Arithmetic *)

\* The number a packet carries is the value of packet_seq before it was taken.
LEMMA LastSeqOfNext ==
  ASSUME NEW p \in 0 .. SeqSpace - 1
  PROVE  /\ (p + 1) % SeqSpace \in 0 .. SeqSpace - 1
         /\ (((p + 1) % SeqSpace) + SeqSpace - 1) % SeqSpace = p
<1>1. (p + 1) % SeqSpace = IF p = SeqSpace - 1 THEN 0 ELSE p + 1
  BY StreamAssumption
<1>2. CASE p = SeqSpace - 1
  BY <1>1, <1>2, StreamAssumption
<1>3. CASE p # SeqSpace - 1
  <2>1. (p + 1) % SeqSpace = p + 1 /\ p + 1 \in 0 .. SeqSpace - 1
    BY <1>1, <1>3, StreamAssumption
  <2>2. (p + SeqSpace) % SeqSpace = p
    BY StreamAssumption
  <2>3. QED
    BY <2>1, <2>2, StreamAssumption
<1>4. QED
  BY <1>2, <1>3

\* packet_seq is one past the number of the packet that is being sent.
LEMMA NextOfLastSeq ==
  ASSUME packet_seq \in 0 .. SeqSpace - 1
  PROVE  LastSeq \in 0 .. SeqSpace - 1 /\ packet_seq = (LastSeq + 1) % SeqSpace
<1>1. CASE packet_seq = 0
  <2>1. LastSeq = SeqSpace - 1
    BY <1>1, StreamAssumption DEF LastSeq
  <2>2. QED
    BY <1>1, <2>1, StreamAssumption
<1>2. CASE packet_seq # 0
  <2>1. (packet_seq - 1 + SeqSpace) % SeqSpace = packet_seq - 1
    BY <1>2, StreamAssumption
  <2>2. packet_seq + SeqSpace - 1 = packet_seq - 1 + SeqSpace
    BY StreamAssumption
  <2>3. LastSeq = packet_seq - 1
    BY <2>1, <2>2 DEF LastSeq
  <2>4. QED
    BY <1>2, <2>3, StreamAssumption
<1>3. QED
  BY <1>1, <1>2

\* A packet takes at least one byte and at most what is left of the frame.
LEMMA ChunkFits ==
  ASSUME size \in Nat, offset \in Nat, offset < size
  PROVE  /\ ChunkLen \in 1 .. Chunk
         /\ NextOffset \in offset + 1 .. size
BY StreamAssumption DEF ChunkLen, NextOffset

-----------------------------------------------------------------------------
\* What a return does to the history of results.
LEMMA ReturnCounts ==
  ASSUME returned \in [Results -> Nat], NEW r \in Results, Return(r)
  PROVE  /\ returned' \in [Results -> Nat]
         /\ returned'[r] = returned[r] + 1
         /\ \A q \in Results \ {r} : returned'[q] = returned[q]
BY DEF Return

LEMMA TypeStep == TypeInv /\ [Next]_vars => TypeInv'
<1> SUFFICES ASSUME TypeInv, [Next]_vars PROVE TypeInv'
  OBVIOUS
<1> USE DEF TypeInv, TypeOK
<1>0. size \in Nat /\ offset \in Nat
  BY StreamAssumption
<1>1. ASSUME NEW n \in Sizes, NEW low \in BOOLEAN, PopFrame(n, low) PROVE TypeInv'
  <2>1. deadline' \in Nat /\ frames' \in Nat
    BY <1>1, StreamAssumption DEF PopFrame
  <2>2. QED
    BY <1>1, <2>1, StreamAssumption DEF PopFrame, counters, Refused
<1>r. ASSUME NEW r \in Results, Return(r) PROVE returned' \in [Results -> Nat]
  BY <1>r, ReturnCounts
<1>res. {"Ok", "DeadlineExceeded", "NicQueueFull"} = Results
  BY DEF Results
<1>2. CASE DropLate
  <2>1. returned' \in [Results -> Nat]
    BY <1>2, <1>r, <1>res DEF DropLate
  <2>2. QED
    BY <1>2, <1>res, <2>1 DEF DropLate, Return, frameVars, Refused
<1>3. CASE Begin
  <2>1. returned' \in [Results -> Nat]
    BY <1>3, <1>r, <1>res DEF Begin
  <2>2. QED
    BY <1>3, <1>res, <2>1 DEF Begin, Return, frameVars, counters, Refused
<1>4. CASE BuildPacket
  BY <1>4, LastSeqOfNext DEF BuildPacket, frameVars, counters, Refused
<1>5. CASE SendOk
  <2>1. [from |-> offset, len |-> ChunkLen, seq |-> LastSeq, at |-> now] \in PacketSet
    BY <1>0, <1>5, ChunkFits, NextOfLastSeq DEF SendOk, PacketSet
  <2>2. NextOffset \in 0 .. size
    BY <1>0, <1>5, ChunkFits DEF SendOk
  <2>3. QED
    BY <1>5, <2>1, <2>2 DEF SendOk, counters, Refused
<1>6. CASE SendFull
  <2>1. returned' \in [Results -> Nat]
    BY <1>6, <1>r, <1>res DEF SendFull
  <2>2. QED
    BY <1>6, <1>res, <2>1 DEF SendFull, Return, frameVars, counters, Refused
<1>7. CASE Done
  <2>1. returned' \in [Results -> Nat]
    BY <1>7, <1>r, <1>res DEF Done
  <2>2. QED
    BY <1>7, <1>res, <2>1 DEF Done, Return, frameVars, counters, Refused
<1>8. CASE CountFrame
  BY <1>8 DEF CountFrame, frameVars, Refused
<1>9. CASE Tick
  BY <1>9 DEF Tick, frameVars, counters, Refused
<1>10. CASE UNCHANGED vars
  BY <1>10 DEF vars, frameVars, counters, Refused
<1>11. CASE Core0Drop
  BY <1>11 DEF Core0Drop, frameVars, Refused
<1>12. QED
  BY <1>1, <1>2, <1>3, <1>4, <1>5, <1>6, <1>7, <1>8, <1>9, <1>10, <1>11 DEF Next, Core3

LEMMA TypeInvariance == Spec => []TypeInv
<1>1. Init => TypeInv
  <2> SUFFICES ASSUME Init PROVE TypeInv
    OBVIOUS
  <2>1. returned \in [Results -> Nat]
    BY DEF Init
  <2>2. others \in Nat /\ framesDropped \in Nat
    BY DEF Init
  <2>3. packet_seq \in 0 .. SeqSpace - 1
    BY StreamAssumption DEF Init
  <2>4. TypeOK
    <3>1. result \in {"none"} \cup Results /\ lowAddr \in BOOLEAN
      BY DEF Init
    <3>2. /\ now \in Nat /\ deadline \in Nat /\ framesSent \in Nat
          /\ size \in Sizes \cup {0} /\ offset \in 0 .. size
      BY DEF Init
    <3>3. frames \in 0 .. MaxFrames
      BY StreamAssumption DEF Init
    <3>4. pc \in {"pop", "start", "loop", "send", "returned"}
      BY DEF Init
    <3>5. QED
      BY <2>1, <2>2, <2>3, <3>1, <3>2, <3>3, <3>4 DEF TypeOK
  <2>5. QED
    BY <2>4 DEF Init, TypeInv
<1>2. QED
  BY <1>1, TypeStep, PTL DEF Spec

\* Type correctness: the offset never leaves the frame and packet_seq never
\* leaves its word.
THEOREM TypeCorrect == Spec => []TypeOK
<1>1. TypeInv => TypeOK
  BY DEF TypeInv
<1>2. QED
  BY <1>1, TypeInvariance, PTL

-----------------------------------------------------------------------------
(* The packets on the wire *)

\* What a send does to the wire: one packet more, the earlier ones in place.
LEMMA SendOkWire ==
  ASSUME TypeInv, SendOk
  PROVE  /\ Len(wire) \in Nat /\ Len(wire') = Len(wire) + 1
         /\ wire' # << >>
         /\ \A k \in 1 .. Len(wire) : wire'[k] = wire[k]
         /\ wire'[Len(wire) + 1] = [from |-> offset, len |-> ChunkLen,
                                   seq |-> LastSeq, at |-> now]
BY DEF TypeInv, SendOk

\* Every other step keeps the wire or starts a new frame with an empty one.
Quiet == UNCHANGED <<wire, size, lowAddr, offset, deadline>>

LEMMA StepSplits ==
  ASSUME TypeInv, [Next]_vars
  PROVE  \/ \E n \in Sizes, low \in BOOLEAN : PopFrame(n, low)
         \/ SendOk
         \/ Quiet
BY DEF Next, Core3, DropLate, Begin, BuildPacket, SendFull, Done, CountFrame,
       Core0Drop, Tick, Return, vars, frameVars, counters, Quiet

LEMMA ContiguousStep == TypeInv /\ Contiguous /\ [Next]_vars => Contiguous'
<1> SUFFICES ASSUME TypeInv, Contiguous, [Next]_vars PROVE Contiguous'
  OBVIOUS
<1>1. ASSUME NEW n \in Sizes, NEW low \in BOOLEAN, PopFrame(n, low) PROVE Contiguous'
  BY <1>1 DEF PopFrame, Contiguous
<1>2. CASE SendOk
  <2>1. size \in Nat /\ offset \in Nat /\ offset < size /\ result = "none"
    <3>1. size \in Nat
      BY StreamAssumption DEF TypeInv, TypeOK
    <3>2. offset \in 0 .. size /\ offset < size /\ result = "none"
      BY <1>2 DEF SendOk, TypeInv, TypeOK
    <3>3. QED
      BY <3>1, <3>2
  <2>2. ChunkLen \in 1 .. Chunk
    BY <2>1, ChunkFits
  <2> DEFINE n == Len(wire)
  <2>3. /\ n \in Nat /\ Len(wire') = n + 1 /\ wire' # << >>
        /\ \A k \in 1 .. n : wire'[k] = wire[k]
        /\ wire'[n + 1].from = offset /\ wire'[n + 1].len = ChunkLen
    BY <1>2, SendOkWire
  <2>4. n = 0 <=> wire = << >>
    BY DEF TypeInv
  <2> HIDE DEF n
  <2>5. offset = IF n = 0 THEN 0 ELSE wire[n].from + wire[n].len
    BY <2>4 DEF Contiguous, n
  <2>6. ASSUME NEW k \in 1 .. Len(wire')
        PROVE  /\ wire'[k].from = IF k = 1 THEN 0
                                  ELSE wire'[k - 1].from + wire'[k - 1].len
               /\ wire'[k].len \in 1 .. Chunk
    <3>1. CASE k = n + 1
      BY <2>2, <2>3, <2>5, <3>1
    <3>2. CASE k # n + 1
      <4>1. k \in 1 .. n /\ (k # 1 => k - 1 \in 1 .. n)
        BY <2>3, <3>2
      <4>2. wire[k].len \in 1 .. Chunk
        BY <4>1 DEF Contiguous, n
      <4>3. wire[k].from = IF k = 1 THEN 0 ELSE wire[k - 1].from + wire[k - 1].len
        BY <4>1 DEF Contiguous, n
      <4>4. wire'[k] = wire[k] /\ (k # 1 => wire'[k - 1] = wire[k - 1])
        BY <2>3, <4>1
      <4>5. QED
        BY <4>2, <4>3, <4>4
    <3>3. QED
      BY <3>1, <3>2
  <2>7. offset' = wire'[Len(wire')].from + wire'[Len(wire')].len
    BY <1>2, <2>3 DEF SendOk, NextOffset
  <2>8. result' # "Ok"
    BY <1>2, <2>1 DEF SendOk
  <2>9. QED
    BY <1>2, <2>3, <2>6, <2>7, <2>8 DEF Contiguous, SendOk
<1>3. CASE Quiet
  <2>1. result' = "Ok" /\ ~ Refused' => offset' = size'
    <3>0. Refused' = Refused
      BY <1>3 DEF Quiet, Refused
    <3>1. CASE result' = result
      BY <1>3, <3>0, <3>1 DEF Quiet, Contiguous
    <3>2. CASE Done
      BY <1>3, <3>2, StreamAssumption DEF Done, Quiet, TypeInv, TypeOK
    <3>3. CASE result' # result /\ ~ Done
      BY <1>3, <3>0, <3>3 DEF Next, Core3, PopFrame, DropLate, Begin, BuildPacket, SendOk, SendFull,
           CountFrame, Core0Drop, Tick, Return, vars, Quiet, TypeInv, TypeOK
    <3>4. QED
      BY <3>1, <3>2, <3>3
  <2>2. QED
    BY <1>3, <2>1 DEF Contiguous, Quiet
<1>4. QED
  BY <1>1, <1>2, <1>3, StepSplits

LEMMA NumberedStep == TypeInv /\ Numbered /\ [Next]_vars => Numbered'
<1> SUFFICES ASSUME TypeInv, Numbered, [Next]_vars PROVE Numbered'
  OBVIOUS
<1>1. ASSUME NEW n \in Sizes, NEW low \in BOOLEAN, PopFrame(n, low) PROVE Numbered'
  BY <1>1 DEF PopFrame, Numbered
<1>2. CASE SendOk
  <2>1. packet_seq \in 0 .. SeqSpace - 1
    BY DEF TypeInv, TypeOK
  <2>2. packet_seq = (LastSeq + 1) % SeqSpace
    BY <2>1, NextOfLastSeq
  <2> DEFINE n == Len(wire)
  <2>3. /\ n \in Nat /\ Len(wire') = n + 1 /\ wire' # << >>
        /\ \A k \in 1 .. n : wire'[k] = wire[k]
        /\ wire'[n + 1].seq = LastSeq
    BY <1>2, SendOkWire
  <2>4. n = 0 <=> wire = << >>
    BY DEF TypeInv
  <2>5. n # 0 => LastSeq = (wire[n].seq + 1) % SeqSpace
    BY <1>2, <2>4 DEF Numbered, SendOk
  <2> HIDE DEF n
  <2>6. ASSUME NEW k \in 2 .. Len(wire')
        PROVE  wire'[k].seq = (wire'[k - 1].seq + 1) % SeqSpace
    <3>1. CASE k = n + 1
      BY <2>3, <2>5, <3>1
    <3>2. CASE k # n + 1
      <4>1. k \in 2 .. n /\ k \in 1 .. n /\ k - 1 \in 1 .. n
        BY <2>3, <3>2
      <4>2. wire[k].seq = (wire[k - 1].seq + 1) % SeqSpace
        BY <4>1 DEF Numbered, n
      <4>3. QED
        BY <2>3, <4>1, <4>2
    <3>3. QED
      BY <3>1, <3>2
  <2>7. packet_seq' = (wire'[Len(wire')].seq + 1) % SeqSpace
    BY <1>2, <2>2, <2>3 DEF SendOk
  <2>8. pc' = "loop"
    BY <1>2 DEF SendOk
  <2>9. QED
    BY <2>6, <2>7, <2>8 DEF Numbered
<1>3. CASE Quiet
  <2>1. CASE BuildPacket
    <3>1. packet_seq \in 0 .. SeqSpace - 1 /\ packet_seq' = (packet_seq + 1) % SeqSpace
      BY <2>1 DEF BuildPacket, TypeInv, TypeOK
    <3>2. LastSeq' = packet_seq
      BY <3>1, LastSeqOfNext DEF LastSeq
    <3>3. QED
      BY <2>1, <3>2 DEF BuildPacket, Numbered
  <2>2. CASE pc' \notin {"loop", "send"}
    BY <1>3, <2>2 DEF Numbered, Quiet
  <2>3. CASE pc' \in {"loop", "send"} /\ ~ BuildPacket
    <3>1. packet_seq' = packet_seq /\ (pc' = pc \/ wire = << >>)
      BY <1>3, <2>3 DEF Next, Core3, PopFrame, DropLate, Begin, SendOk, SendFull, Done,
           CountFrame, Core0Drop, Tick, Return, vars, Quiet, TypeInv
    <3>2. QED
      BY <1>3, <3>1 DEF Numbered, Quiet, LastSeq
  <2>4. QED
    BY <2>1, <2>2, <2>3
<1>4. QED
  BY <1>1, <1>2, <1>3, StepSplits

\* The packets of a frame on the wire cover a prefix of it, each byte once and in
\* order, with consecutive sequence numbers across the wrap of the u16, and a
\* call that returned Ok has sent the whole frame.
THEOREM WireIsPrefix == Spec => []PrefixOnWire
<1>1. Init => Contiguous /\ Numbered
  BY DEF Init, Contiguous, Numbered
<1>2. TypeInv /\ Contiguous /\ Numbered => PrefixOnWire
  <2> SUFFICES ASSUME TypeInv, Contiguous, Numbered PROVE PrefixOnWire
    OBVIOUS
  <2>1. Len(wire) \in Nat
    BY DEF TypeInv
  <2>2. result = "Ok" =>
          IF Refused THEN wire = << >>
          ELSE wire # << >> /\ wire[Len(wire)].from + wire[Len(wire)].len = size
    BY DEF TypeInv, Contiguous, Refused
  <2>3. QED
    BY <2>1, <2>2 DEF PrefixOnWire, Contiguous, Numbered
<1>3. QED
  BY <1>1, <1>2, TypeInvariance, ContiguousStep, NumberedStep, PTL DEF Spec

-----------------------------------------------------------------------------
(* The deadline *)

LEMMA TimesTyped ==
  ASSUME TypeInv
  PROVE  /\ now \in Nat /\ deadline \in Nat /\ Len(wire) \in Nat
         /\ \A k \in 1 .. Len(wire) : wire[k].at \in Nat
<1>1. now \in Nat /\ deadline \in Nat
  BY DEF TypeInv, TypeOK
<1>2. Len(wire) \in Nat /\ \A k \in 1 .. Len(wire) : wire[k] \in PacketSet
  BY DEF TypeInv
<1>3. QED
  BY <1>1, <1>2 DEF PacketSet

LEMMA TimelyStep == TypeInv /\ Timely /\ [Next]_vars => Timely'
<1> SUFFICES ASSUME TypeInv, Timely, [Next]_vars PROVE Timely'
  OBVIOUS
<1>0. now \in Nat /\ deadline \in Nat /\ Len(wire) \in Nat
      /\ \A k \in 1 .. Len(wire) : wire[k].at \in Nat
  BY TimesTyped
<1>1. ASSUME NEW n \in Sizes, NEW low \in BOOLEAN, PopFrame(n, low) PROVE Timely'
  BY <1>1 DEF PopFrame, Timely
<1>2. CASE SendOk
  <2>1. /\ Len(wire') = Len(wire) + 1
        /\ \A k \in 1 .. Len(wire) : wire'[k] = wire[k]
        /\ wire'[Len(wire) + 1].at = now
    BY <1>2, SendOkWire
  <2>2. \A k \in 1 .. Len(wire) : wire[k].at <= now /\ wire[k].at <= deadline
    BY <1>2 DEF SendOk, Timely
  <2>3. pc' = "loop" /\ now' = now /\ deadline' = deadline
    BY <1>2 DEF SendOk
  <2>4. \A k \in 1 .. Len(wire) + 1 : k \in 1 .. Len(wire) \/ k = Len(wire) + 1
    BY <1>0
  <2>5. \A k \in 1 .. Len(wire') : wire'[k].at <= now'
    BY <1>0, <2>1, <2>2, <2>3, <2>4
  <2>6. \A k \in 1 .. Len(wire') - 1 : wire'[k].at <= deadline'
    BY <1>0, <2>1, <2>2, <2>3
  <2>7. QED
    BY <2>3, <2>5, <2>6 DEF Timely
<1>3. CASE Quiet
  <2>1. CASE BuildPacket
    <3>1. now <= deadline /\ now' = now
      BY <1>0, <2>1 DEF BuildPacket, Expired
    <3>2. QED
      BY <1>0, <1>3, <3>1 DEF Timely, Quiet
  <2>2. CASE ~ BuildPacket
    <3>1. now' \in Nat /\ now <= now' /\ (pc' = "send" => pc = "send")
      BY <1>0, <1>3, <2>2 DEF Next, Core3, PopFrame, DropLate, Begin, SendOk, SendFull, Done,
           CountFrame, Core0Drop, Tick, Return, vars, Quiet
    <3>2. QED
      BY <1>0, <1>3, <3>1 DEF Timely, Quiet
  <2>3. QED
    BY <2>1, <2>2
<1>4. QED
  BY <1>1, <1>2, <1>3, StepSplits

\* The deadline is tested before a packet is built and not again when it is sent:
\* still, at most the last packet of a frame goes out late.
THEOREM LateIsLast == Spec => []AtMostOneLate
<1>1. Init => Timely
  BY DEF Init, Timely
<1>2. TypeInv /\ Timely => AtMostOneLate
  <2> SUFFICES ASSUME TypeInv, Timely,
                      NEW k \in 1 .. Len(wire), wire[k].at > deadline, k # Len(wire)
               PROVE  FALSE
    BY DEF AtMostOneLate
  <2>1. Len(wire) \in Nat /\ wire[k].at \in Nat /\ deadline \in Nat
    BY TimesTyped
  <2>2. wire[k].at <= deadline
    BY <2>1 DEF Timely
  <2>3. QED
    BY <2>1, <2>2
<1>3. QED
  BY <1>1, <1>2, TypeInvariance, TimelyStep, PTL DEF Spec

-----------------------------------------------------------------------------
(* The counters *)

\* FramesAccounted is inductive once the result is known to be open while the
\* frame is in hand.
LEMMA AccountedStep == TypeInv /\ FramesAccounted /\ [Next]_vars => FramesAccounted'
<1> SUFFICES ASSUME TypeInv, FramesAccounted, [Next]_vars PROVE FramesAccounted'
  OBVIOUS
<1> USE DEF FramesAccounted
<1>0. /\ frames \in Nat /\ framesSent \in Nat /\ framesDropped \in Nat /\ others \in Nat
      /\ returned \in [Results -> Nat]
      /\ pc \in {"start", "loop", "send"} => result = "none"
  BY StreamAssumption DEF TypeInv, TypeOK
<1>r. /\ returned["Ok"] \in Nat /\ returned["DeadlineExceeded"] \in Nat
      /\ returned["NicQueueFull"] \in Nat
  BY <1>0 DEF Results
<1>e. ASSUME NEW r \in Results, Return(r)
      PROVE  \A q \in Results : returned'[q] = IF q = r THEN returned[q] + 1 ELSE returned[q]
  BY <1>0, <1>e, ReturnCounts
<1>1. ASSUME NEW n \in Sizes, NEW low \in BOOLEAN, PopFrame(n, low) PROVE FramesAccounted'
  <2>1. /\ pc = "pop" /\ pc' = "start" /\ frames' = frames + 1
        /\ UNCHANGED <<framesSent, framesDropped, returned, others>>
    BY <1>1 DEF PopFrame, counters
  <2>2. QED
    BY <1>0, <1>r, <2>1
<1>2. CASE DropLate
  <2>1. Return("DeadlineExceeded")
    BY <1>2 DEF DropLate
  <2>2. /\ returned'["DeadlineExceeded"] = returned["DeadlineExceeded"] + 1
        /\ returned'["Ok"] = returned["Ok"]
        /\ returned'["NicQueueFull"] = returned["NicQueueFull"]
    BY <1>e, <2>1 DEF Results
  <2>3. QED
    BY <1>0, <1>r, <1>2, <2>1, <2>2 DEF DropLate, Return, frameVars
<1>3. CASE Begin
  <2>1. CASE Return("Ok")
    <3>1. /\ returned'["DeadlineExceeded"] = returned["DeadlineExceeded"]
          /\ returned'["Ok"] = returned["Ok"] + 1
          /\ returned'["NicQueueFull"] = returned["NicQueueFull"]
      BY <1>e, <2>1 DEF Results
    <3>2. QED
      BY <1>0, <1>r, <1>3, <2>1, <3>1 DEF Begin, Return, frameVars, counters
  <2>2. CASE pc' = "loop" /\ UNCHANGED <<result, returned>>
    BY <1>0, <1>r, <1>3, <2>2 DEF Begin, frameVars, counters
  <2>3. QED
    BY <1>3, <2>1, <2>2 DEF Begin
<1>4. CASE BuildPacket
  BY <1>0, <1>r, <1>4 DEF BuildPacket, frameVars, counters
<1>5. CASE SendOk
  BY <1>0, <1>r, <1>5 DEF SendOk, counters
<1>6. CASE SendFull
  <2>1. Return("NicQueueFull")
    BY <1>6 DEF SendFull
  <2>2. /\ returned'["DeadlineExceeded"] = returned["DeadlineExceeded"]
        /\ returned'["Ok"] = returned["Ok"]
        /\ returned'["NicQueueFull"] = returned["NicQueueFull"] + 1
    BY <1>e, <2>1 DEF Results
  <2>3. QED
    BY <1>0, <1>r, <1>6, <2>1, <2>2 DEF SendFull, Return, frameVars, counters
<1>7. CASE Done
  <2>1. Return("Ok")
    BY <1>7 DEF Done
  <2>2. /\ returned'["DeadlineExceeded"] = returned["DeadlineExceeded"]
        /\ returned'["Ok"] = returned["Ok"] + 1
        /\ returned'["NicQueueFull"] = returned["NicQueueFull"]
    BY <1>e, <2>1 DEF Results
  <2>3. QED
    BY <1>0, <1>r, <1>7, <2>1, <2>2 DEF Done, Return, frameVars, counters
<1>8. CASE CountFrame
  BY <1>0, <1>r, <1>8 DEF CountFrame, Counted, frameVars
<1>9. CASE Tick
  BY <1>9 DEF Tick, frameVars, counters
<1>10. CASE UNCHANGED vars
  BY <1>10 DEF vars, frameVars, counters
<1>11. CASE Core0Drop
  BY <1>0, <1>r, <1>11 DEF Core0Drop, frameVars
<1>12. QED
  BY <1>1, <1>2, <1>3, <1>4, <1>5, <1>6, <1>7, <1>8, <1>9, <1>10, <1>11 DEF Next, Core3

\* NETWORK_FRAMES_SENT and TOTAL_FRAMES_DROPPED account for every frame exactly,
\* although one is bumped inside stream_send_frame and the other after it, and
\* core 0's own calls bump the first of them too.
THEOREM EveryFrameAccounted == Spec => []FramesAccounted
<1>1. Init => FramesAccounted
  <2> SUFFICES ASSUME Init PROVE FramesAccounted
    OBVIOUS
  <2>1. \A r \in Results : returned[r] = 0
    BY DEF Init
  <2>2. /\ returned["Ok"] = 0 /\ returned["DeadlineExceeded"] = 0
        /\ returned["NicQueueFull"] = 0
    BY <2>1 DEF Results
  <2>3. QED
    BY <2>2 DEF Init, FramesAccounted
<1>2. QED
  BY <1>1, TypeInvariance, AccountedStep, PTL DEF Spec

-----------------------------------------------------------------------------
(* on_ack_received *)

\* Between the bounds of the controller, widened by the rates in set.
Within(r, set) == \E low \in set \cup {Floor}, high \in set \cup {100} : r \in low .. high

\* What a register of the rate can hold.
U8 == 0 .. 255

\* good reaches 4 only between the fetch_add that finds the fourth good frame
\* and the store that resets it.
GoodCounts == good = 4 => ackPc = "increase"

\* A loaded rate waits in a register while scripts go on storing: the bound has
\* to hold for the register too.
LoadedBounded == ackPc \in {"decrease", "increase"} => Within(curr, asked)

CcTypeInv == CcTypeOK /\ GoodCounts
RateInv == RateBounded /\ LoadedBounded

-----------------------------------------------------------------------------
(* Arithmetic of the two adjustments *)

LEMMA WithinBy ==
  ASSUME NEW set, NEW low \in set \cup {Floor}, NEW high \in set \cup {100},
         NEW r \in low .. high
  PROVE  Within(r, set)
BY DEF Within

\* A decrease stays a u8, and within any range it started in.
LEMMA DecreasedIn ==
  ASSUME NEW r \in U8
  PROVE  /\ Decreased(r) = Floor \/ Decreased(r) \in Floor .. r
         /\ Decreased(r) \in Floor .. 255
<1>0. r \in 0 .. 255
  BY DEF U8
<1>1. (r * 80) \div 100 \in 0 .. r
  BY <1>0
<1>2. Decreased(r) = Floor \/ Decreased(r) \in Floor .. r
  BY <1>0, <1>1, CongestionAssumption DEF Decreased, Most
<1>3. QED
  BY <1>0, <1>2, CongestionAssumption

LEMMA DecreasedWithin ==
  ASSUME NEW r \in U8, NEW set \in SUBSET U8, Within(r, set)
  PROVE  Within(Decreased(r), set)
<1>0. Decreased(r) = Floor \/ Decreased(r) \in Floor .. r
  BY DecreasedIn
<1>1. PICK low \in set \cup {Floor}, high \in set \cup {100} : r \in low .. high
  BY DEF Within
<1>2. low \in Nat /\ high \in Nat /\ Floor \in 1 .. 100
  BY <1>1, CongestionAssumption DEF U8
<1>3. CASE Decreased(r) = Floor
  BY <1>2, <1>3 DEF Within
<1>4. CASE Decreased(r) \in Floor .. r
  <2>1. Decreased(r) \in Floor .. high
    BY <1>1, <1>2, <1>4 DEF U8
  <2>2. Floor \in set \cup {Floor} /\ high \in set \cup {100}
    BY <1>1
  <2>3. QED
    BY <2>1, <2>2, WithinBy
<1>5. QED
  BY <1>0, <1>3, <1>4

\* An increase stays a u8, and within any range it started in.
LEMMA IncreasedIn ==
  ASSUME NEW r \in U8
  PROVE  Increased(r) \in 0 .. 100 /\ (Increased(r) = 100 \/ Increased(r) \in r .. 100)
BY CongestionAssumption DEF U8, Increased, Least

LEMMA IncreasedWithin ==
  ASSUME NEW r \in U8, NEW set \in SUBSET U8, Within(r, set)
  PROVE  Within(Increased(r), set)
<1>0. Increased(r) = 100 \/ Increased(r) \in r .. 100
  BY IncreasedIn
<1>1. PICK low \in set \cup {Floor}, high \in set \cup {100} : r \in low .. high
  BY DEF Within
<1>2. low \in Nat /\ high \in Nat /\ Floor \in 1 .. 100
  BY <1>1, CongestionAssumption DEF U8
<1>3. CASE Increased(r) = 100
  BY <1>2, <1>3 DEF Within
<1>4. CASE Increased(r) \in r .. 100
  <2>1. Increased(r) \in low .. 100
    BY <1>1, <1>2, <1>4 DEF U8
  <2>2. low \in set \cup {Floor} /\ 100 \in set \cup {100}
    BY <1>1
  <2>3. QED
    BY <2>1, <2>2, WithinBy
<1>5. QED
  BY <1>0, <1>3, <1>4

\* A stored rate is in the range, and more stored rates only widen it.
LEMMA WithinStored ==
  ASSUME NEW set, NEW v \in 0 .. 255
  PROVE  Within(v, set \cup {v})
<1>1. v \in v .. v /\ v \in (set \cup {v}) \cup {Floor} /\ v \in (set \cup {v}) \cup {100}
  OBVIOUS
<1>2. QED
  BY <1>1 DEF Within

LEMMA WithinGrows ==
  ASSUME NEW set, NEW v, NEW r, Within(r, set)
  PROVE  Within(r, set \cup {v})
<1>1. PICK low \in set \cup {Floor}, high \in set \cup {100} : r \in low .. high
  BY DEF Within
<1>2. low \in (set \cup {v}) \cup {Floor} /\ high \in (set \cup {v}) \cup {100}
  BY <1>1
<1>3. QED
  BY <1>1, <1>2 DEF Within

\* What @rate stores of an argument is a u8.
LEMMA LowByte ==
  ASSUME NEW v \in ScriptRates
  PROVE  v % 256 \in 0 .. 255
BY CongestionAssumption

\* The measured round trip is never below the baseline it leaves behind.
LEMMA BaselineBelow ==
  ASSUME minRtt \in Nat, NEW rtt \in Nat
  PROVE  Baseline(rtt) \in Nat /\ rtt - Baseline(rtt) \in Nat
BY DEF Baseline

-----------------------------------------------------------------------------
LEMMA CcTypeStep == CcTypeInv /\ [CcNext]_ccVars => CcTypeInv'
<1> SUFFICES ASSUME CcTypeInv, [CcNext]_ccVars PROVE CcTypeInv'
  OBVIOUS
<1> USE DEF CcTypeInv, CcTypeOK, GoodCounts
<1>0. curr \in 0 .. 255 /\ rate \in 0 .. 255
  OBVIOUS
<1>u. curr \in U8
  BY <1>0 DEF U8
<1>1. ASSUME NEW rtt \in Rtts, Measure(rtt) PROVE CcTypeInv'
  <2>1. rtt \in Nat
    BY CongestionAssumption
  <2>2. QED
    BY <1>1, <2>1, BaselineBelow DEF Measure
<1>2. CASE NoMeasure
  BY <1>2 DEF NoMeasure, ccVars
<1>3. CASE LoadRateToDecrease
  BY <1>3 DEF LoadRateToDecrease
<1>4. CASE StoreDecrease
  <2>1. Decreased(curr) \in Floor .. 255
    BY <1>u, DecreasedIn
  <2>2. QED
    BY <1>4, <2>1, CongestionAssumption DEF StoreDecrease
<1>5. CASE CountGood
  BY <1>5 DEF CountGood, FourGood
<1>6. CASE StoreIncrease
  <2>1. Increased(curr) \in 0 .. 100
    BY <1>u, IncreasedIn
  <2>2. QED
    BY <1>6, <2>1 DEF StoreIncrease
<1>7. ASSUME NEW v \in ScriptRates, SetRate(v) PROVE CcTypeInv'
  <2>1. v % 256 \in 0 .. 255
    BY LowByte
  <2>2. rate' = v % 256 /\ asked' = asked \cup {v % 256}
    BY <1>7 DEF SetRate
  <2>3. v % 256 \in U8 /\ asked \subseteq U8
    BY <2>1 DEF U8
  <2>4. rate' \in U8 /\ asked' \subseteq U8
    BY <2>2, <2>3, Zenon
  <2>5. rate' \in 0 .. 255 /\ asked' \subseteq 0 .. 255
    BY <2>4 DEF U8
  <2>6. QED
    BY <1>7, <2>5 DEF SetRate
<1>8. CASE ScriptsEnd
  BY <1>8 DEF ScriptsEnd
<1>9. CASE UNCHANGED ccVars
  BY <1>9 DEF ccVars
<1>10. QED
  BY <1>1, <1>2, <1>3, <1>4, <1>5, <1>6, <1>7, <1>8, <1>9
     DEF CcNext, OnAckReceived

LEMMA CcTypeInvariance == CcSpec => []CcTypeInv
<1>1. CcInit => CcTypeInv
  <2> SUFFICES ASSUME CcInit PROVE CcTypeInv
    OBVIOUS
  <2>1. Decreased(100) \in 0 .. 255
    <3>1. 100 \in U8
      BY DEF U8
    <3>2. Decreased(100) \in Floor .. 255
      BY <3>1, DecreasedIn
    <3>3. QED
      BY <3>2, CongestionAssumption
  <2>2. /\ rate \in 0 .. 255 /\ good \in 0 .. 1
        /\ ackPc = "poll" /\ curr = 100 /\ scripting = TRUE /\ asked = {}
    BY <2>1 DEF CcInit
  <2>3. {minRtt, lastRtt, delta} \subseteq Nat
    BY CongestionAssumption DEF CcInit, Least
  <2>4. QED
    BY <2>2, <2>3 DEF CcTypeInv, CcTypeOK, GoodCounts
<1>2. QED
  BY <1>1, CcTypeStep, PTL DEF CcSpec

\* Type correctness, for every set of script rates: the rate stays a u8, the
\* count of good frames does not pass 4 and the delay is never negative, whatever
\* @rate stores meanwhile.
THEOREM CcTypeCorrect == CcSpec => []CcTypeOK
<1>1. CcTypeInv => CcTypeOK
  BY DEF CcTypeInv
<1>2. QED
  BY <1>1, CcTypeInvariance, PTL

-----------------------------------------------------------------------------
LEMMA RateStep == CcTypeInv /\ RateInv /\ [CcNext]_ccVars => RateInv'
<1> SUFFICES ASSUME CcTypeInv, RateInv, [CcNext]_ccVars PROVE RateInv'
  OBVIOUS
<1> USE DEF RateInv, LoadedBounded
<1>0. curr \in 0 .. 255 /\ rate \in 0 .. 255 /\ asked \in SUBSET (0 .. 255)
  BY DEF CcTypeInv, CcTypeOK
<1>u. curr \in U8 /\ asked \in SUBSET U8
  BY <1>0 DEF U8
<1>r. RateBounded = Within(rate, asked) /\ RateBounded' = Within(rate', asked')
  BY DEF RateBounded, Within
<1>1. ASSUME NEW rtt \in Rtts, Measure(rtt) PROVE RateInv'
  BY <1>1, <1>r DEF Measure
<1>2. CASE NoMeasure
  BY <1>2, <1>r DEF NoMeasure, ccVars
<1>3. CASE LoadRateToDecrease
  BY <1>3, <1>r DEF LoadRateToDecrease
<1>4. CASE StoreDecrease
  <2>1. Within(Decreased(curr), asked)
    BY <1>u, <1>4, DecreasedWithin DEF StoreDecrease
  <2>2. QED
    BY <1>4, <1>r, <2>1 DEF StoreDecrease
<1>5. CASE CountGood
  BY <1>5, <1>r DEF CountGood, FourGood
<1>6. CASE StoreIncrease
  <2>1. Within(Increased(curr), asked)
    BY <1>u, <1>6, IncreasedWithin DEF StoreIncrease
  <2>2. QED
    BY <1>6, <1>r, <2>1 DEF StoreIncrease
<1>7. ASSUME NEW v \in ScriptRates, SetRate(v) PROVE RateInv'
  <2>1. v % 256 \in 0 .. 255
    BY LowByte
  <2>2. /\ rate' = v % 256 /\ asked' = asked \cup {v % 256}
        /\ UNCHANGED <<ackPc, curr>>
    BY <1>7 DEF SetRate
  <2>3. Within(rate', asked')
    BY <2>1, <2>2, WithinStored
  <2>4. Within(curr, asked) => Within(curr, asked')
    BY <2>2, WithinGrows
  <2>5. QED
    BY <1>r, <2>2, <2>3, <2>4
<1>8. CASE ScriptsEnd
  BY <1>8, <1>r DEF ScriptsEnd
<1>9. CASE UNCHANGED ccVars
  BY <1>9, <1>r DEF ccVars
<1>10. QED
  BY <1>1, <1>2, <1>3, <1>4, <1>5, <1>6, <1>7, <1>8, <1>9
     DEF CcNext, OnAckReceived

\* Whatever scripts store with @rate, the controller keeps the rate in the range
\* that 20 .. 100 and the stored rates span, although on_ack_received loads the
\* rate in one step and stores what it made of it in another, with scripts storing
\* in between.
THEOREM RateStaysBounded == CcSpec => []RateBounded
<1>1. CcInit => RateInv
  <2> SUFFICES ASSUME CcInit PROVE RateInv
    OBVIOUS
  <2>1. rate = 100 \/ rate = Decreased(100)
    BY DEF CcInit
  <2>2. Within(100, {}) /\ Within(Decreased(100), {})
    <3>1. Within(100, {})
      BY CongestionAssumption DEF Within
    <3>2. Within(Decreased(100), {})
      <4>1. 100 \in U8 /\ {} \in SUBSET U8
        BY DEF U8
      <4>2. QED
        BY <3>1, <4>1, DecreasedWithin
    <3>3. QED
      BY <3>1, <3>2
  <2>3. ackPc = "poll" /\ asked = {}
    BY DEF CcInit
  <2>4. QED
    BY <2>1, <2>2, <2>3 DEF RateInv, RateBounded, LoadedBounded, Within
<1>2. RateInv => RateBounded
  BY DEF RateInv
<1>3. QED
  BY <1>1, <1>2, CcTypeInvariance, RateStep, PTL DEF CcSpec
=============================================================================
