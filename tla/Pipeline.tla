------------------------------ MODULE Pipeline -------------------------------
(***************************************************************************)
(* The streaming pipeline of kernel/src/smp.rs: core 1 captures frames     *)
(* into the static slots of gpu.rs and queues their handles, core 2        *)
(* forwards the handles, core 3 sends the frame a handle points to.  Each  *)
(* core runs its own polling loop; nothing else synchronises them.         *)
(*                                                                         *)
(* push and pop are one atomic step each: SpscRingProofs shows that the    *)
(* ring is linearizable.  A frame's pixels are represented by the frame    *)
(* number stamped into the slot, and its CRC-32 by that number too.        *)
(***************************************************************************)
EXTENDS Naturals, Sequences

CONSTANTS CAP,        \* capacity of each ring (16)
          NumSlots,   \* NUM_FRAME_SLOTS (4)
          MaxFrame    \* bound: frames numbered 0 .. MaxFrame - 1 are captured

ASSUME PipelineAssumption ==
  CAP \in Nat \ {0} /\ NumSlots \in Nat \ {0} /\ MaxFrame \in Nat \ {0}

VARIABLES slots,      \* FRAME_POOL: the frame stamped into each slot
          captureRing, netRing,            \* the two rings, oldest first
          capture,    \* core 1: pc, frame_seq, slot_id, handle
          encode,     \* core 2: pc, frame_handle
          network,    \* core 3: pc, frame
          captured, consumed, sent         \* the three frame counters

vars == <<slots, captureRing, netRing, capture, encode, network,
          captured, consumed, sent>>

\* FrameHandle: where the frame is, its number and the CRC computed when it
\* was captured.  `boot` tells the sanity-check frame of rust_main, which core
\* 0 pushed before the loops started, from the frames of core 1.
Handle(s, f, boot) == [slot_id |-> s, frame_id |-> f, crc32 |-> f, boot |-> boot]

Idle(p) == [pc |-> p, handle |-> Handle(0, 0, TRUE)]

-----------------------------------------------------------------------------
\* rust_main has captured frame 1 into slot 0 and pushed it; START_SIGNAL is
\* set.  The other slots hold their initial fill, which is no frame.
NoFrame == MaxFrame

Init ==
  /\ slots = [s \in 0 .. NumSlots - 1 |-> IF s = 0 THEN 1 ELSE NoFrame]
  /\ captureRing = << Handle(0, 1, TRUE) >>
  /\ netRing = << >>
  /\ capture = [pc |-> "capture", frame_seq |-> 0, slot_id |-> 0,
                handle |-> Handle(0, 0, FALSE)]
  /\ encode = Idle("pop")
  /\ network = Idle("pop")
  /\ captured = 0
  /\ consumed = 0
  /\ sent = 0

-----------------------------------------------------------------------------
(* Core 1 *)

\* capture_frame_zero_copy: stamp the slot, compute the CRC, build the handle.
CaptureFrame ==
  /\ capture.pc = "capture"
  /\ capture.frame_seq < MaxFrame
  /\ slots' = [slots EXCEPT ![capture.slot_id] = capture.frame_seq]
  /\ capture' = [capture EXCEPT
                   !.pc = "push",
                   !.handle = Handle(capture.slot_id, capture.frame_seq, FALSE)]
  /\ UNCHANGED <<captureRing, netRing, encode, network, captured, consumed, sent>>

\* Mutant: the slot advances although the push failed.
AdvanceAlways(ok) ==
  [capture EXCEPT
     !.pc = IF ok THEN "count" ELSE "capture",
     !.frame_seq = IF ok THEN @ + 1 ELSE @,
     !.slot_id = (@ + 1) % NumSlots]

\* Only a successful push moves on to the next frame number and slot; the
\* loop that failed captures the same frame into the same slot again.
Advance(ok) ==
  IF ok THEN [capture EXCEPT !.pc = "count",
                             !.frame_seq = @ + 1,
                             !.slot_id = (@ + 1) % NumSlots]
        ELSE [capture EXCEPT !.pc = "capture"]

CapturePush ==
  /\ capture.pc = "push"
  /\ LET ok == Len(captureRing) < CAP
     IN  /\ captureRing' = IF ok THEN Append(captureRing, capture.handle)
                                 ELSE captureRing
         /\ capture' = Advance(ok)
  /\ UNCHANGED <<slots, netRing, encode, network, captured, consumed, sent>>

\* CAPTURED_FRAMES.fetch_add, after the handle is already visible to core 2.
CaptureCount ==
  /\ capture.pc = "count"
  /\ captured' = captured + 1
  /\ capture' = [capture EXCEPT !.pc = "capture"]
  /\ UNCHANGED <<slots, captureRing, netRing, encode, network, consumed, sent>>

-----------------------------------------------------------------------------
(* Core 2 *)

\* Mutant: a single queued frame is left alone.
EncodeReadyTwo == Len(captureRing) > 1

\* if let Some(frame_handle) = CAPTURE_TO_ENCODE_RING.pop()
EncodeReady == captureRing # << >>

EncodePop ==
  /\ encode.pc = "pop"
  /\ EncodeReady
  /\ captureRing' = Tail(captureRing)
  /\ encode' = [pc |-> "count", handle |-> Head(captureRing)]
  /\ UNCHANGED <<slots, netRing, capture, network, captured, consumed, sent>>

\* Mutant: the frame is forwarded before it is counted.
EncodeCountSkipped ==
  /\ encode.pc = "count"
  /\ encode' = [encode EXCEPT !.pc = "forward"]
  /\ UNCHANGED <<slots, captureRing, netRing, capture, network, captured,
                 consumed, sent>>

\* CONSUMED_FRAMES.fetch_add
EncodeCount ==
  /\ encode.pc = "count"
  /\ consumed' = consumed + 1
  /\ encode' = [encode EXCEPT !.pc = "forward"]
  /\ UNCHANGED <<slots, captureRing, netRing, capture, network, captured, sent>>

\* Mutant: the handle that finds no room overwrites the oldest queued one.
ForwardReplacingOldest ==
  IF Len(netRing) < CAP THEN Append(netRing, encode.handle)
  ELSE [netRing EXCEPT ![1] = encode.handle]

\* let _ = ENCODE_TO_NET_RING.push(frame_handle): a full ring drops the frame.
Forwarded ==
  IF Len(netRing) < CAP THEN Append(netRing, encode.handle) ELSE netRing

EncodeForward ==
  /\ encode.pc = "forward"
  /\ netRing' = Forwarded
  /\ encode' = Idle("pop")
  /\ UNCHANGED <<slots, captureRing, capture, network, captured, consumed, sent>>

-----------------------------------------------------------------------------
(* Core 3 *)

NetworkPop ==
  /\ network.pc = "pop"
  /\ netRing # << >>
  /\ netRing' = Tail(netRing)
  /\ network' = [pc |-> "send", handle |-> Head(netRing)]
  /\ UNCHANGED <<slots, captureRing, capture, encode, captured, consumed, sent>>

\* stream_send_frame reads the slot and either sends the frame or gives it up
\* (DeadlineExceeded, NicQueueFull); only a sent frame is counted.
NetworkSend ==
  /\ network.pc = "send"
  /\ sent' \in {sent, sent + 1}
  /\ network' = Idle("pop")
  /\ UNCHANGED <<slots, captureRing, netRing, capture, encode, captured, consumed>>

(* Core 0 stores into the slots without regard to core 1. *)

\* Bytes of core 0 in a slot: the frame stamped there is no longer the one that was
\* captured, until core 1 stamps the slot and takes the checksum anew.
ScriptData == MaxFrame + 1

Core0Stores(s) ==
  /\ slots' = [slots EXCEPT ![s] = ScriptData]
  /\ UNCHANGED <<captureRing, netRing, capture, encode, network, captured, consumed, sent>>

\* A script's @capture: capture_frame_zero_copy(0, 1, ..)
ScriptCapture == Core0Stores(0)

\* A script's @vram_write(slot, ..)
VramWrite(s) == Core0Stores(s)

\* A write to /vram/slot<s>
VfsWrite(s) == Core0Stores(s)

\* The benchmark command: capture_frame_zero_copy(sample_idx % 4, ..)
BenchmarkCapture(s) == Core0Stores(s)

Core0 ==
  \/ ScriptCapture
  \/ \E s \in 0 .. NumSlots - 1 : VramWrite(s) \/ VfsWrite(s) \/ BenchmarkCapture(s)

\* All three loops spin when there is nothing to do.
Spin ==
  /\ network.pc = "pop" /\ netRing = << >>
  /\ UNCHANGED vars

-----------------------------------------------------------------------------
CaptureCore == CaptureFrame \/ CapturePush \/ CaptureCount
EncodeCore  == EncodePop \/ EncodeCount \/ EncodeForward
NetworkCore == NetworkPop \/ NetworkSend

Next == CaptureCore \/ EncodeCore \/ NetworkCore \/ Core0 \/ Spin

\* Each core executes its loop forever and never blocks: weak fairness of each
\* core's steps.
Fairness == WF_vars(CaptureCore) /\ WF_vars(EncodeCore) /\ WF_vars(NetworkCore)

Spec == Init /\ [][Next]_vars /\ Fairness

-----------------------------------------------------------------------------
Handles == [slot_id : 0 .. NumSlots - 1, frame_id : 0 .. MaxFrame,
            crc32 : 0 .. MaxFrame, boot : BOOLEAN]

\* The slots, rings, registers and counters hold what smp.rs and gpu.rs declare,
\* and no ring holds more than its capacity.
TypeOK ==
  /\ slots \in [0 .. NumSlots - 1 -> 0 .. MaxFrame + 1]
  /\ captureRing \in Seq(Handles) /\ Len(captureRing) <= CAP
  /\ netRing \in Seq(Handles) /\ Len(netRing) <= CAP
  /\ capture \in [pc : {"capture", "push", "count"}, frame_seq : 0 .. MaxFrame,
                  slot_id : 0 .. NumSlots - 1, handle : Handles]
  /\ encode \in [pc : {"pop", "count", "forward"}, handle : Handles]
  /\ network \in [pc : {"pop", "send"}, handle : Handles]
  /\ captured \in Nat /\ consumed \in Nat /\ sent \in Nat

Holding(core, pcs) == IF core.pc \in pcs THEN << core.handle >> ELSE << >>

\* Every handle on its way from core 1 to the wire, oldest first.
InFlight ==
  Holding(network, {"send"}) \o netRing \o Holding(encode, {"count", "forward"})
    \o captureRing \o Holding(capture, {"push"})

\* The frames of core 1 reach the wire in the order of their numbers, each at
\* most once, through two rings, a lossy forward and repeated captures.
InOrder ==
  \A i, j \in 1 .. Len(InFlight) :
    i < j /\ ~ InFlight[i].boot /\ ~ InFlight[j].boot =>
      InFlight[i].frame_id < InFlight[j].frame_id

\* What core 3 may rely on: as long as core 1 is fewer than NumSlots frames ahead
\* of a handle, core 1 has not touched its slot again: the slot holds the captured
\* frame (its CRC matches) or what core 0 has stored there since.  The capture of a
\* frame whose push fails destroys the frame NumSlots before it too.  Nothing in the
\* kernel keeps the backlog within that window.
IntactInWindow ==
  \A i \in 1 .. Len(InFlight) :
    LET h == InFlight[i]
    IN  ~ h.boot /\ capture.frame_seq - h.frame_id < NumSlots =>
          slots[h.slot_id] \in {h.crc32, ScriptData}

\* The telemetry counters, each bumped after the ring operation it counts, can
\* disagree by the frame in between and the boot frame, and by no more.
CountersAgree ==
  /\ sent <= consumed
  /\ consumed <= captured + 2

\* No handle stays in the pipeline for ever: every frame is sent or dropped.
EveryFrameLeaves ==
  \A f \in 0 .. MaxFrame - 1 :
    (\E i \in 1 .. Len(InFlight) : InFlight[i].frame_id = f)
      ~> ~ (\E i \in 1 .. Len(InFlight) : InFlight[i].frame_id = f)

\* Quad buffering and the CRC in the handle are there to send the frame that was
\* captured: when core 3 sends a frame of core 1, the slot holds that frame, or
\* what core 0 has stored in it since.
SentFrameIntact ==
  LET h == network.handle
  IN  network.pc = "send" /\ ~ h.boot =>
        slots[h.slot_id] \in {h.crc32, ScriptData}
=============================================================================
