----------------------------- MODULE StreamSend ------------------------------
(***************************************************************************)
(* stream_send_frame of kernel/src/net.rs as core 3 calls it for one frame *)
(* after the other: a frame is cut into packets of at most Chunk bytes,    *)
(* the deadline is tested before each of them, and the NIC may refuse one  *)
(* (E1000).  Time passes between any two steps.  Core 0 calls the same     *)
(* function, in the boot self-test and for scripts and the benchmark, and  *)
(* shares the counter of dropped frames; the other sides of its calls are  *)
(* its own.                                                                *)
(***************************************************************************)
EXTENDS Naturals, Sequences

CONSTANTS Chunk,       \* MAX_SRTP_PAYLOAD_CHUNK (1380)
          Sizes,       \* sizes of the frames in the ring
          MaxSize,     \* 16 MB: a larger frame is refused
          Allowance,   \* 20 ms, in ticks
          SeqSpace,    \* values of packet_seq (2^16)
          MaxTime,     \* bound: the clock stops here
          MaxFrames,   \* bound: frames core 3 takes
          MaxOthers    \* bound: frames core 0 drops

ASSUME StreamAssumption ==
  /\ Chunk \in Nat \ {0}
  /\ Sizes \subseteq Nat
  /\ {MaxSize, Allowance, MaxTime, MaxFrames, MaxOthers} \subseteq Nat
  /\ SeqSpace \in Nat /\ SeqSpace > 1

VARIABLES now,         \* the TSC
          pc,          \* core 3 in its loop and in stream_send_frame
          size,        \* frame.size
          lowAddr,     \* frame.phys_addr < 0x1000
          offset,      \* bytes of the frame handed to the NIC so far
          deadline,    \* deadline_tsc
          packet_seq,
          wire,        \* history: packets of the current frame the NIC took
          frames,      \* frames taken from the ring
          framesSent,  \* NETWORK_FRAMES_SENT
          framesDropped, \* TOTAL_FRAMES_DROPPED
          result,      \* what the last call of core 3 returned
          returned,    \* history: how often it returned each result
          others       \* history: frames core 0's calls have dropped

frameVars == <<size, lowAddr, offset, deadline, frames>>
counters  == <<framesSent, framesDropped>>
vars == <<now, pc, frameVars, packet_seq, wire, counters, result, returned, others>>

Results == {"Ok", "DeadlineExceeded", "NicQueueFull"}

\* The boot self-test has dropped a frame on purpose, and perhaps the one before
\* it that it meant to send.
Init ==
  /\ now = 0
  /\ pc = "pop"
  /\ size = 0 /\ lowAddr = FALSE /\ offset = 0 /\ deadline = 0 /\ frames = 0
  /\ packet_seq = 1
  /\ wire = << >>
  /\ framesSent = 0
  /\ others \in {1, 2}
  /\ framesDropped = others
  /\ result = "none"
  /\ returned = [r \in Results |-> 0]

\* Core 3 takes a frame from ENCODE_TO_NET_RING and sets its deadline.
PopFrame(n, low) ==
  /\ pc = "pop"
  /\ frames < MaxFrames
  /\ size' = n
  /\ lowAddr' = low
  /\ offset' = 0
  /\ deadline' = now + Allowance
  /\ frames' = frames + 1
  /\ wire' = << >>
  /\ result' = "none"
  /\ pc' = "start"
  /\ UNCHANGED <<now, packet_seq, counters, returned, others>>

\* Mutant: a frame past its deadline is sent anyway.
ExpiredNever == FALSE

\* read_tsc_serialized() > deadline_tsc
Expired == now > deadline

Return(r) ==
  /\ result' = r
  /\ returned' = [returned EXCEPT ![r] = @ + 1]
  /\ pc' = "returned"

\* Mutant: between two packets, an expired deadline makes the loop wait.
DropLateOnEntryOnly ==
  /\ pc = "start"
  /\ Expired
  /\ framesDropped' = framesDropped + 1
  /\ Return("DeadlineExceeded")
  /\ UNCHANGED <<now, frameVars, packet_seq, wire, framesSent, others>>

\* Drop the frame: on entry, or between two packets.
DropLate ==
  /\ pc \in {"start", "loop"}
  /\ pc = "loop" => offset < size
  /\ Expired
  /\ framesDropped' = framesDropped + 1
  /\ Return("DeadlineExceeded")
  /\ UNCHANGED <<now, frameVars, packet_seq, wire, framesSent, others>>

\* The handle is not of a frame: frame.phys_addr < 0x1000, or a size of nothing
\* or of more than 16 MB.
Refused == lowAddr \/ size = 0 \/ size > MaxSize

\* On entry: a handle that is refused is Ok(0), any other enters the packet loop.
Begin ==
  /\ pc = "start"
  /\ ~ Expired
  /\ IF Refused THEN Return("Ok") ELSE pc' = "loop" /\ UNCHANGED <<result, returned>>
  /\ UNCHANGED <<now, frameVars, packet_seq, wire, counters, others>>

\* The deadline test of the loop has passed; the packet takes a number and is
\* built and encrypted.
BuildPacket ==
  /\ pc = "loop"
  /\ offset < size
  /\ ~ Expired
  /\ packet_seq' = (packet_seq + 1) % SeqSpace
  /\ pc' = "send"
  /\ UNCHANGED <<now, frameVars, wire, counters, result, returned, others>>

\* min(MAX_SRTP_PAYLOAD_CHUNK, frame_slice.len() - offset)
ChunkLen == IF size - offset < Chunk THEN size - offset ELSE Chunk

\* Mutant: the offset of a packet starts at the last byte of the one before.
NextOffsetOverlapping == IF ChunkLen > 1 THEN offset + ChunkLen - 1 ELSE offset + ChunkLen

\* offset += chunk_len
NextOffset == offset + ChunkLen

LastSeq == (packet_seq + SeqSpace - 1) % SeqSpace

\* send_packet took the packet.
SendOk ==
  /\ pc = "send"
  /\ wire' = Append(wire, [from |-> offset, len |-> ChunkLen, seq |-> LastSeq,
                           at |-> now])
  /\ offset' = NextOffset
  /\ pc' = "loop"
  /\ UNCHANGED <<now, size, lowAddr, deadline, frames, packet_seq, counters,
                 result, returned, others>>

\* send_packet returned Err: the rest of the frame is given up, uncounted.
SendFull ==
  /\ pc = "send"
  /\ Return("NicQueueFull")
  /\ UNCHANGED <<now, frameVars, packet_seq, wire, counters, others>>

Done ==
  /\ pc = "loop"
  /\ offset >= size
  /\ Return("Ok")
  /\ UNCHANGED <<now, frameVars, packet_seq, wire, counters, others>>

\* Mutant: every call counts as a frame sent.
CountedAlways == TRUE

\* if let Ok(bytes) = stream_send_frame(..)
Counted == result = "Ok"

\* Back in core 3's loop.
CountFrame ==
  /\ pc = "returned"
  /\ framesSent' = IF Counted THEN framesSent + 1 ELSE framesSent
  /\ pc' = "pop"
  /\ UNCHANGED <<now, frameVars, packet_seq, wire, framesDropped, result, returned,
                 others>>

\* A call of core 0, for a script's @send or in the benchmark, meets its deadline.
Core0Drop ==
  /\ others < MaxOthers
  /\ others' = others + 1
  /\ framesDropped' = framesDropped + 1
  /\ UNCHANGED <<now, pc, frameVars, packet_seq, wire, framesSent, result, returned>>

Tick ==
  /\ now < MaxTime
  /\ now' = now + 1
  /\ UNCHANGED <<pc, frameVars, packet_seq, wire, counters, result, returned, others>>

Core3 ==
  \/ \E n \in Sizes, low \in BOOLEAN : PopFrame(n, low)
  \/ DropLate \/ Begin \/ BuildPacket \/ SendOk \/ SendFull \/ Done \/ CountFrame

Next == Core3 \/ Core0Drop \/ Tick

\* Core 3 never stops: weak fairness of its steps.
Spec == Init /\ [][Next]_vars /\ WF_vars(Core3)

-----------------------------------------------------------------------------
\* Offsets stay inside the frame and sequence numbers inside their word.
TypeOK ==
  /\ now \in Nat /\ deadline \in Nat
  /\ pc \in {"pop", "start", "loop", "send", "returned"}
  /\ size \in Sizes \cup {0}
  /\ lowAddr \in BOOLEAN
  /\ offset \in 0 .. size
  /\ packet_seq \in 0 .. SeqSpace - 1
  /\ frames \in 0 .. MaxFrames
  /\ {framesSent, framesDropped, others} \subseteq Nat
  /\ result \in {"none"} \cup Results
  /\ returned \in [Results -> Nat]

\* The packets of a frame cover a prefix of it, each byte once and in order, with
\* consecutive sequence numbers; a call that returns Ok has sent all of it, or
\* nothing of a handle that it refuses.
PrefixOnWire ==
  /\ \A k \in 1 .. Len(wire) :
       /\ wire[k].from = IF k = 1 THEN 0 ELSE wire[k - 1].from + wire[k - 1].len
       /\ wire[k].len \in 1 .. Chunk
       /\ k > 1 => wire[k].seq = (wire[k - 1].seq + 1) % SeqSpace
  /\ result = "Ok" =>
       IF Refused THEN wire = << >>
       ELSE wire # << >> /\ wire[Len(wire)].from + wire[Len(wire)].len = size

\* The deadline is tested before a packet is built, not when it is sent: a frame
\* puts at most one packet on the wire after its deadline, the last one.
AtMostOneLate ==
  \A k \in 1 .. Len(wire) : wire[k].at > deadline => k = Len(wire)

\* The counters say what became of every frame: those sent are the calls that
\* returned Ok and are back in core 3's loop, those dropped the calls of either
\* core that met a deadline, and the frames in neither counter are the ones a full
\* NIC ring cut short and the one in hand.
FramesAccounted ==
  LET inHand   == IF pc \in {"start", "loop", "send"} THEN 1 ELSE 0
      uncounted == IF pc = "returned" /\ result = "Ok" THEN 1 ELSE 0
  IN  /\ framesSent + uncounted = returned["Ok"]
      /\ framesDropped = returned["DeadlineExceeded"] + others
      /\ frames = framesSent + uncounted + (framesDropped - others)
                   + returned["NicQueueFull"] + inHand

\* stream_send_frame returns: core 3 gets back to its loop, whatever the NIC and
\* the clock do.
CallReturns == pc # "pop" ~> pc = "pop"
=============================================================================
