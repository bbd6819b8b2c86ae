--------------------------- MODULE PipelineProofs ----------------------------
(***************************************************************************)
(* For every ring capacity, number of frame slots and number of frames:    *)
(* frames keep their order through the pipeline, a handle within the       *)
(* window of its slot points to the frame it was made for, and the three   *)
(* frame counters agree up to the frames in between.                       *)
(***************************************************************************)
EXTENDS Pipeline, SequenceTheorems, TLAPS

\* Core 1 goes round the slots in step with the frame numbers, and the handle it
\* is about to push is the one of its current frame.
CaptureInv ==
  /\ capture.slot_id = capture.frame_seq % NumSlots
  /\ capture.frame_seq = MaxFrame => capture.pc # "push"
  /\ capture.pc = "push" => capture.handle = Handle(capture.slot_id, capture.frame_seq, FALSE)

\* What is known of one handle on its way.
Sound(h) ==
  ~ h.boot =>
    /\ h.slot_id = h.frame_id % NumSlots
    /\ h.crc32 = h.frame_id
    /\ h.frame_id <= capture.frame_seq
    /\ capture.frame_seq - h.frame_id < NumSlots =>
         slots[h.slot_id] \in {h.crc32, ScriptData}

\* The frames of core 1 in s are in order, those among the handles A are older
\* than those among B, and than frame n.
Ordered(s) ==
  \A i, j \in 1 .. Len(s) :
    i < j /\ ~ s[i].boot /\ ~ s[j].boot => s[i].frame_id < s[j].frame_id
Before(A, B) ==
  \A g \in A, h \in B : ~ g.boot /\ ~ h.boot => g.frame_id < h.frame_id
Older(A, n) == \A h \in A : ~ h.boot => h.frame_id < n

\* The handles that core 1 has let go of.
Pushed ==
  Holding(network, {"send"}) \o netRing \o Holding(encode, {"count", "forward"})
    \o captureRing

FlightInv ==
  /\ Ordered(InFlight)
  /\ Older(Range(Pushed), capture.frame_seq)
  /\ \A h \in Range(InFlight) : Sound(h)

One(b) == IF b THEN 1 ELSE 0

\* Conservation of handles: what core 1 and the boot code pushed is counted by
\* core 2, in its hands or in the ring; what core 2 counted bounds the rest.
CountInv ==
  /\ captured + One(capture.pc = "count") = capture.frame_seq
  /\ consumed + One(encode.pc = "count") + Len(captureRing) = capture.frame_seq + 1
  /\ sent + One(network.pc = "send") + Len(netRing) + One(encode.pc = "forward") <= consumed

-----------------------------------------------------------------------------
(* Arithmetic of slots *)

\* No multiple of n lies strictly between -n and n, except 0.
LEMMA SmallMultiple ==
  ASSUME NEW n \in Nat \ {0}, NEW x \in Int, -n < n * x, n * x < n
  PROVE  x = 0
<1>1. CASE x >= 1
  BY <1>1
<1>2. CASE x <= -1
  BY <1>2
<1>3. QED
  BY <1>1, <1>2

LEMMA DivMod ==
  ASSUME NEW n \in Nat \ {0}, NEW f \in Nat
  PROVE  /\ f \div n \in Int /\ f % n \in 0 .. n - 1
         /\ f = n * (f \div n) + (f % n)
OBVIOUS

\* Frames fewer than n apart are in different slots.
LEMMA SlotsDiffer ==
  ASSUME NEW n \in Nat \ {0}, NEW f \in Nat, NEW g \in Nat, f < g, g - f < n
  PROVE  f % n # g % n
<1> SUFFICES ASSUME f % n = g % n PROVE FALSE
  OBVIOUS
<1> DEFINE qf == f \div n
           qg == g \div n
           r == g % n
<1>1. qf \in Int /\ qg \in Int /\ r \in Int /\ f = n * qf + r /\ g = n * qg + r
  BY DivMod
<1> HIDE DEF qf, qg, r
<1>2. g - f = n * (qg - qf)
  BY <1>1
<1>3. qg - qf \in Int /\ -n < n * (qg - qf) /\ n * (qg - qf) < n
  BY <1>1, <1>2
<1>4. qg - qf = 0
  BY <1>3, SmallMultiple
<1>5. QED
  BY <1>1, <1>4

\* The slot after the slot of frame f is the slot of frame f + 1.
LEMMA NextSlot ==
  ASSUME NEW n \in Nat \ {0}, NEW f \in Nat
  PROVE  ((f % n) + 1) % n = (f + 1) % n
<1> DEFINE q == f \div n
           r == f % n
           p == (f + 1) \div n
           t == (f + 1) % n
<1>1. /\ q \in Int /\ r \in 0 .. n - 1 /\ f = n * q + r
      /\ p \in Int /\ t \in 0 .. n - 1 /\ f + 1 = n * p + t
  BY DivMod
<1>2. (r + 1) % n = IF r = n - 1 THEN 0 ELSE r + 1
  BY <1>1
<1> HIDE DEF q, r, p, t
<1>3. CASE r = n - 1
  <2>1. n * (p - q - 1) = -t
    BY <1>1, <1>3
  <2>2. p - q - 1 \in Int /\ -n < n * (p - q - 1) /\ n * (p - q - 1) < n
    BY <1>1, <2>1
  <2>3. p - q - 1 = 0
    BY <2>2, SmallMultiple
  <2>4. t = 0
    BY <1>1, <2>1, <2>3
  <2>5. QED
    BY <1>2, <1>3, <2>4 DEF r, t
<1>4. CASE r # n - 1
  <2>1. n * (p - q) = r + 1 - t
    BY <1>1
  <2>2. p - q \in Int /\ -n < n * (p - q) /\ n * (p - q) < n
    BY <1>1, <1>4, <2>1
  <2>3. p - q = 0
    BY <2>2, SmallMultiple
  <2>4. t = r + 1
    BY <1>1, <2>1, <2>3
  <2>5. QED
    BY <1>2, <1>4, <2>4 DEF r, t
<1>5. QED
  BY <1>3, <1>4

-----------------------------------------------------------------------------
(* Handles in sequences *)

LEMMA OrderedConcat ==
  ASSUME NEW a \in Seq(Handles), NEW b \in Seq(Handles)
  PROVE  /\ a \o b \in Seq(Handles)
         /\ Range(a \o b) = Range(a) \cup Range(b)
         /\ Ordered(a \o b) <=> Ordered(a) /\ Ordered(b) /\ Before(Range(a), Range(b))
<1> DEFINE c == a \o b
<1>1. /\ c \in Seq(Handles)
      /\ Len(a) \in Nat /\ Len(b) \in Nat /\ Len(c) = Len(a) + Len(b)
      /\ \A i \in 1 .. Len(a) : c[i] = a[i]
      /\ \A i \in 1 .. Len(b) : c[Len(a) + i] = b[i]
  BY ConcatProperties
<1>2. Range(c) = Range(a) \cup Range(b)
  BY RangeConcatenation
<1>3. /\ Range(a) = {a[i] : i \in 1 .. Len(a)}
      /\ Range(b) = {b[i] : i \in 1 .. Len(b)}
  BY DEF Range
<1> HIDE DEF c
<1>4. ASSUME Ordered(c) PROVE Ordered(a) /\ Ordered(b) /\ Before(Range(a), Range(b))
  <2>1. Ordered(a)
    BY <1>1, <1>4 DEF Ordered
  <2>2. ASSUME NEW i \in 1 .. Len(b), NEW j \in 1 .. Len(b), i < j, ~ b[i].boot, ~ b[j].boot
        PROVE  b[i].frame_id < b[j].frame_id
    <3>1. /\ Len(a) + i \in 1 .. Len(c) /\ Len(a) + j \in 1 .. Len(c)
          /\ Len(a) + i < Len(a) + j
      BY <1>1, <2>2
    <3>2. c[Len(a) + i] = b[i] /\ c[Len(a) + j] = b[j]
      BY <1>1
    <3>3. QED
      BY <1>4, <2>2, <3>1, <3>2 DEF Ordered
  <2>3. ASSUME NEW i \in 1 .. Len(a), NEW j \in 1 .. Len(b), ~ a[i].boot, ~ b[j].boot
        PROVE  a[i].frame_id < b[j].frame_id
    <3>1. i \in 1 .. Len(c) /\ Len(a) + j \in 1 .. Len(c) /\ i < Len(a) + j
      BY <1>1, <2>3
    <3>2. c[i] = a[i] /\ c[Len(a) + j] = b[j]
      BY <1>1
    <3>3. QED
      BY <1>4, <2>3, <3>1, <3>2 DEF Ordered
  <2>4. QED
    BY <1>3, <2>1, <2>2, <2>3 DEF Ordered, Before
<1>5. ASSUME Ordered(a), Ordered(b), Before(Range(a), Range(b)) PROVE Ordered(c)
  <2> SUFFICES ASSUME NEW i \in 1 .. Len(c), NEW j \in 1 .. Len(c), i < j,
                      ~ c[i].boot, ~ c[j].boot
               PROVE  c[i].frame_id < c[j].frame_id
    BY DEF Ordered
  <2>1. CASE j <= Len(a)
    BY <1>1, <1>5, <2>1 DEF Ordered
  <2>2. CASE i > Len(a)
    <3>1. /\ i - Len(a) \in 1 .. Len(b) /\ j - Len(a) \in 1 .. Len(b)
          /\ i - Len(a) < j - Len(a)
          /\ Len(a) + (i - Len(a)) = i /\ Len(a) + (j - Len(a)) = j
      BY <1>1, <2>2
    <3>2. c[i] = b[i - Len(a)] /\ c[j] = b[j - Len(a)]
      BY <1>1, <3>1
    <3>3. QED
      BY <1>5, <3>1, <3>2 DEF Ordered
  <2>3. CASE i <= Len(a) /\ j > Len(a)
    <3>1. i \in 1 .. Len(a) /\ j - Len(a) \in 1 .. Len(b) /\ Len(a) + (j - Len(a)) = j
      BY <1>1, <2>3
    <3>2. c[i] = a[i] /\ c[j] = b[j - Len(a)]
      BY <1>1, <3>1
    <3>3. c[i] \in Range(a) /\ c[j] \in Range(b)
      BY <1>3, <3>1, <3>2
    <3>4. QED
      BY <1>5, <3>3 DEF Before
  <2>4. QED
    BY <1>1, <2>1, <2>2, <2>3
<1>6. QED
  BY <1>1, <1>2, <1>4, <1>5 DEF c

\* Sequences of at most one handle.
LEMMA OrderedShort ==
  /\ << >> \in Seq(Handles) /\ Ordered(<< >>) /\ Range(<< >>) = {}
  /\ \A h \in Handles : << h >> \in Seq(Handles) /\ Ordered(<< h >>) /\ Range(<< h >>) = {h}
BY DEF Ordered, Range

-----------------------------------------------------------------------------
(* Types *)

LEMMA HandleType ==
  ASSUME NEW s \in 0 .. NumSlots - 1, NEW f \in 0 .. MaxFrame, NEW b \in BOOLEAN
  PROVE  Handle(s, f, b) \in Handles
BY DEF Handle, Handles

LEMMA IdleHandle ==
  /\ Handle(0, 0, TRUE) \in Handles
  /\ Handle(0, 0, FALSE) \in Handles
  /\ Handle(0, 1, TRUE) \in Handles
<1>1. 0 \in 0 .. NumSlots - 1 /\ 0 \in 0 .. MaxFrame /\ 1 \in 0 .. MaxFrame
  BY PipelineAssumption
<1>2. QED
  BY <1>1, HandleType

\* What the proofs use of TypeOK about the numbers.
LEMMA Numbers ==
  ASSUME TypeOK
  PROVE  /\ NumSlots \in Nat \ {0} /\ MaxFrame \in Nat \ {0} /\ CAP \in Nat \ {0}
         /\ Len(captureRing) \in Nat /\ Len(netRing) \in Nat
         /\ capture.frame_seq \in Nat /\ capture.frame_seq \in 0 .. MaxFrame
         /\ capture.slot_id \in 0 .. NumSlots - 1
<1>1. NumSlots \in Nat \ {0} /\ MaxFrame \in Nat \ {0} /\ CAP \in Nat \ {0}
  BY PipelineAssumption
<1>2. capture.frame_seq \in 0 .. MaxFrame /\ capture.slot_id \in 0 .. NumSlots - 1
  BY DEF TypeOK
<1>3. Len(captureRing) \in Nat /\ Len(netRing) \in Nat
  BY DEF TypeOK
<1>4. QED
  BY <1>1, <1>2, <1>3

TypeInv == TypeOK /\ CaptureInv

\* Whatever core 0 does, it stores into one slot.
LEMMA Core0Is ==
  ASSUME Core0
  PROVE  /\ \E s \in 0 .. NumSlots - 1 : Core0Stores(s)
         /\ UNCHANGED <<captureRing, netRing, capture, encode, network, captured, consumed, sent>>
<1>1. \E s \in 0 .. NumSlots - 1 : Core0Stores(s)
  <2>1. 0 \in 0 .. NumSlots - 1
    BY PipelineAssumption
  <2>2. QED
    BY <2>1 DEF Core0, ScriptCapture, VramWrite, VfsWrite, BenchmarkCapture
<1>2. QED
  BY <1>1 DEF Core0Stores

LEMMA CaptureStep == TypeInv /\ [Next]_vars => CaptureInv'
<1> SUFFICES ASSUME TypeInv, [Next]_vars PROVE CaptureInv'
  OBVIOUS
<1>0. TypeOK /\ CaptureInv
  BY DEF TypeInv
<1> DEFINE f == capture.frame_seq
           s == capture.slot_id
<1>1. CASE CaptureFrame
  <2>1. /\ capture'.pc = "push" /\ capture'.frame_seq = f /\ capture'.slot_id = s
        /\ capture'.handle = Handle(s, f, FALSE)
        /\ f # MaxFrame
    BY <1>0, <1>1, Numbers DEF CaptureFrame, TypeOK
  <2>2. QED
    BY <1>0, <2>1 DEF CaptureInv
<1>2. CASE CapturePush
  <2>1. CASE Len(captureRing) < CAP
    <3>1. capture'.pc = "count" /\ capture'.frame_seq = f + 1 /\ capture'.slot_id = (s + 1) % NumSlots
      BY <1>0, <1>2, <2>1 DEF CapturePush, Advance, TypeOK
    <3>2. s = f % NumSlots
      BY <1>0 DEF CaptureInv
    <3>3. (s + 1) % NumSlots = (f + 1) % NumSlots
      BY <1>0, <3>2, Numbers, NextSlot
    <3>4. QED
      BY <3>1, <3>3 DEF CaptureInv
  <2>2. CASE ~ (Len(captureRing) < CAP)
    <3>1. capture'.pc = "capture" /\ capture'.frame_seq = f /\ capture'.slot_id = s
      BY <1>0, <1>2, <2>2 DEF CapturePush, Advance, TypeOK
    <3>2. QED
      BY <1>0, <3>1 DEF CaptureInv
  <2>3. QED
    BY <2>1, <2>2
<1>3. CASE CaptureCount
  <2>1. capture'.pc = "capture" /\ capture'.frame_seq = f /\ capture'.slot_id = s
    BY <1>0, <1>3 DEF CaptureCount, TypeOK
  <2>2. QED
    BY <1>0, <2>1 DEF CaptureInv
<1>4. CASE UNCHANGED capture
  BY <1>0, <1>4 DEF CaptureInv
<1>5. CASE Core0
  BY <1>4, <1>5, Core0Is
<1>6. QED
  BY <1>1, <1>2, <1>3, <1>4, <1>5
     DEF Next, CaptureCore, EncodeCore, NetworkCore, Spin, EncodePop, EncodeCount,
         EncodeForward, NetworkPop, NetworkSend, vars

LEMMA TypeStep == TypeInv /\ [Next]_vars => TypeOK'
<1> SUFFICES ASSUME TypeInv, [Next]_vars PROVE TypeOK'
  OBVIOUS
<1> USE DEF TypeOK
<1>0. TypeOK
  BY DEF TypeInv
<1>1. CASE CaptureFrame
  <2>1. Handle(capture.slot_id, capture.frame_seq, FALSE) \in Handles
    BY <1>0, HandleType, Numbers
  <2>2. slots' \in [0 .. NumSlots - 1 -> 0 .. MaxFrame + 1]
    BY <1>0, <1>1, Numbers DEF CaptureFrame
  <2>3. QED
    BY <1>0, <1>1, <2>1, <2>2 DEF CaptureFrame
<1>2. CASE CapturePush
  <2>1. captureRing' \in Seq(Handles) /\ Len(captureRing') <= CAP
    BY <1>0, <1>2, Numbers DEF CapturePush
  <2>2. CASE Len(captureRing) < CAP
    <3>1. capture.frame_seq + 1 \in 0 .. MaxFrame
      <4>1. capture.frame_seq # MaxFrame
        BY <1>2 DEF CapturePush, TypeInv, CaptureInv
      <4>2. capture.frame_seq \in 0 .. MaxFrame /\ MaxFrame \in Nat
        BY <1>0, Numbers
      <4>3. QED
        BY <4>1, <4>2
    <3>2. (capture.slot_id + 1) % NumSlots \in 0 .. NumSlots - 1
      BY <1>0, Numbers
    <3>3. QED
      BY <1>0, <1>2, <2>1, <2>2, <3>1, <3>2 DEF CapturePush, Advance
  <2>3. CASE ~ (Len(captureRing) < CAP)
    BY <1>0, <1>2, <2>1, <2>3 DEF CapturePush, Advance
  <2>4. QED
    BY <2>2, <2>3
<1>3. CASE CaptureCount
  <2>1. captured' \in Nat
    BY <1>0, <1>3 DEF CaptureCount
  <2>2. capture' = [capture EXCEPT !.pc = "capture"]
        /\ UNCHANGED <<slots, captureRing, netRing, encode, network, consumed, sent>>
    BY <1>3 DEF CaptureCount
  <2>3. capture' \in [pc : {"capture", "push", "count"}, frame_seq : 0 .. MaxFrame,
                      slot_id : 0 .. NumSlots - 1, handle : Handles]
    BY <1>0, <2>2
  <2>4. QED
    BY <1>0, <2>1, <2>2, <2>3
<1>4. CASE EncodePop
  BY <1>0, <1>4, Numbers DEF EncodePop, EncodeReady
<1>5. CASE EncodeCount
  <2>1. consumed' \in Nat
    BY <1>0, <1>5 DEF EncodeCount
  <2>2. QED
    BY <1>0, <1>5, <2>1 DEF EncodeCount
<1>6. CASE EncodeForward
  <2>1. netRing' \in Seq(Handles) /\ Len(netRing') <= CAP
    BY <1>0, <1>6, Numbers DEF EncodeForward, Forwarded
  <2>2. QED
    BY <1>0, <1>6, <2>1, IdleHandle DEF EncodeForward, Idle
<1>7. CASE NetworkPop
  BY <1>0, <1>7, Numbers DEF NetworkPop
<1>8. CASE NetworkSend
  <2>1. sent' \in Nat
    BY <1>0, <1>8 DEF NetworkSend
  <2>2. QED
    BY <1>0, <1>8, <2>1, IdleHandle DEF NetworkSend, Idle
<1>9. CASE Core0
  <2>1. PICK s \in 0 .. NumSlots - 1 : Core0Stores(s)
    BY <1>9, Core0Is
  <2>2. QED
    BY <1>0, <2>1, Numbers DEF Core0Stores, ScriptData
<1>10. CASE UNCHANGED vars
  BY <1>0, <1>10 DEF vars
<1>11. QED
  BY <1>1, <1>2, <1>3, <1>4, <1>5, <1>6, <1>7, <1>8, <1>9, <1>10
     DEF Next, CaptureCore, EncodeCore, NetworkCore, Spin

LEMMA TypeInvariance == Spec => []TypeInv
<1>1. Init => TypeInv
  <2> SUFFICES ASSUME Init PROVE TypeInv
    OBVIOUS
  <2>1. slots \in [0 .. NumSlots - 1 -> 0 .. MaxFrame + 1]
    BY PipelineAssumption DEF Init, NoFrame
  <2>2. captureRing \in Seq(Handles) /\ Len(captureRing) = 1
    <3> DEFINE h == Handle(0, 1, TRUE)
    <3>1. captureRing = << h >> /\ h \in Handles
      BY IdleHandle DEF Init
    <3> HIDE DEF h
    <3>2. QED
      BY <3>1
  <2>3. netRing \in Seq(Handles) /\ Len(netRing) = 0
    BY DEF Init
  <2>4. capture \in [pc : {"capture", "push", "count"}, frame_seq : 0 .. MaxFrame,
                     slot_id : 0 .. NumSlots - 1, handle : Handles]
    <3> DEFINE h == Handle(0, 0, FALSE)
    <3>1. capture = [pc |-> "capture", frame_seq |-> 0, slot_id |-> 0, handle |-> h]
      BY DEF Init
    <3>2. h \in Handles
      BY IdleHandle
    <3> HIDE DEF h
    <3>3. QED
      BY <3>1, <3>2, PipelineAssumption
  <2>5. encode \in [pc : {"pop", "count", "forward"}, handle : Handles]
    BY IdleHandle DEF Init, Idle
  <2>6. network \in [pc : {"pop", "send"}, handle : Handles]
    BY IdleHandle DEF Init, Idle
  <2>7. captured \in Nat /\ consumed \in Nat /\ sent \in Nat
    BY DEF Init
  <2>8. CaptureInv
    <3>1. 0 % NumSlots = 0
      BY PipelineAssumption
    <3>2. QED
      BY <3>1, PipelineAssumption DEF Init, CaptureInv
  <2>9. TypeOK
    BY <2>1, <2>2, <2>3, <2>4, <2>5, <2>6, <2>7, PipelineAssumption DEF TypeOK
  <2>10. QED
    BY <2>8, <2>9 DEF TypeInv
<1>2. TypeInv /\ [Next]_vars => TypeInv'
  BY TypeStep, CaptureStep DEF TypeInv
<1>3. QED
  BY <1>1, <1>2, PTL DEF Spec

\* Type correctness: the cores' registers and the slots keep their types, and no
\* ring holds more than its capacity.
THEOREM TypeCorrect == Spec => []TypeOK
<1>1. TypeInv => TypeOK
  BY DEF TypeInv
<1>2. QED
  BY <1>1, TypeInvariance, PTL

-----------------------------------------------------------------------------
(* The counters *)

LEMMA CountStep == TypeInv /\ CountInv /\ [Next]_vars => CountInv'
<1> SUFFICES ASSUME TypeInv, CountInv, [Next]_vars PROVE CountInv'
  OBVIOUS
<1>0. TypeOK
  BY DEF TypeInv
<1> USE DEF CountInv, One
<1>1. CASE CaptureFrame
  BY <1>0, <1>1, Numbers DEF CaptureFrame, TypeOK
<1>2. CASE CapturePush
  <2>1. /\ capture.pc = "push"
        /\ UNCHANGED <<netRing, encode, network, captured, consumed, sent>>
    BY <1>2 DEF CapturePush
  <2>2. captured \in Nat /\ consumed \in Nat /\ Len(captureRing) \in Nat
        /\ capture.frame_seq \in Nat
    BY <1>0, Numbers DEF TypeOK
  <2>3. CASE Len(captureRing) < CAP
    <3>1. capture'.pc = "count" /\ capture'.frame_seq = capture.frame_seq + 1
      BY <1>0, <1>2, <2>3 DEF CapturePush, Advance, TypeOK
    <3>2. Len(captureRing') = Len(captureRing) + 1
      BY <1>0, <1>2, <2>3 DEF CapturePush, TypeOK
    <3>3. QED
      BY <2>1, <2>2, <3>1, <3>2
  <2>4. CASE ~ (Len(captureRing) < CAP)
    <3>1. capture'.pc = "capture" /\ capture'.frame_seq = capture.frame_seq
      BY <1>0, <1>2, <2>4 DEF CapturePush, Advance, TypeOK
    <3>2. captureRing' = captureRing
      BY <1>2, <2>4 DEF CapturePush
    <3>3. QED
      BY <2>1, <2>2, <3>1, <3>2
  <2>5. QED
    BY <2>3, <2>4
<1>3. CASE CaptureCount
  BY <1>0, <1>3, Numbers DEF CaptureCount, TypeOK
<1>4. CASE EncodePop
  BY <1>0, <1>4, Numbers DEF EncodePop, EncodeReady, TypeOK
<1>5. CASE EncodeCount
  <2>1. /\ encode.pc = "count" /\ encode'.pc = "forward" /\ consumed' = consumed + 1
        /\ UNCHANGED <<captureRing, netRing, capture, network, captured, sent>>
    BY <1>0, <1>5 DEF EncodeCount, TypeOK
  <2>2. /\ consumed \in Nat /\ captured \in Nat /\ sent \in Nat /\ capture.frame_seq \in Nat
        /\ Len(captureRing) \in Nat /\ Len(netRing) \in Nat
    BY <1>0, Numbers DEF TypeOK
  <2>3. QED
    BY <2>1, <2>2
<1>6. CASE EncodeForward
  <2>1. /\ encode.pc = "forward" /\ encode'.pc = "pop"
        /\ UNCHANGED <<captureRing, capture, network, captured, consumed, sent>>
    BY <1>6 DEF EncodeForward, Idle
  <2>2. Len(netRing') = Len(netRing) \/ Len(netRing') = Len(netRing) + 1
    BY <1>0, <1>6 DEF EncodeForward, Forwarded, TypeOK
  <2>3. sent \in Nat /\ consumed \in Nat /\ Len(netRing) \in Nat
    BY <1>0, Numbers DEF TypeOK
  <2>4. QED
    BY <2>1, <2>2, <2>3
<1>7. CASE NetworkPop
  BY <1>0, <1>7, Numbers DEF NetworkPop, TypeOK
<1>8. CASE NetworkSend
  BY <1>0, <1>8, Numbers DEF NetworkSend, Idle, TypeOK
<1>9. CASE Core0
  BY <1>9, Core0Is
<1>10. CASE UNCHANGED vars
  BY <1>10 DEF vars
<1>11. QED
  BY <1>1, <1>2, <1>3, <1>4, <1>5, <1>6, <1>7, <1>8, <1>9, <1>10
     DEF Next, CaptureCore, EncodeCore, NetworkCore, Spin

\* CAPTURED_FRAMES, CONSUMED_FRAMES and NETWORK_FRAMES_SENT, each bumped after
\* the ring operation that it counts, are never further apart than the boot
\* frame and the one frame between the operation and its count.
THEOREM TelemetryAgrees == Spec => []CountersAgree
<1>1. Init => CountInv
  BY DEF Init, Idle, CountInv, One
<1>2. TypeInv /\ CountInv => CountersAgree
  <2> SUFFICES ASSUME TypeInv, CountInv PROVE CountersAgree
    OBVIOUS
  <2>1. TypeOK /\ captured \in Nat /\ consumed \in Nat /\ sent \in Nat
    BY DEF TypeInv, TypeOK
  <2>2. /\ capture.frame_seq \in Nat /\ Len(captureRing) \in Nat /\ Len(netRing) \in Nat
    BY <2>1, Numbers
  <2>3. QED
    <3>1. \E a \in {0, 1} : captured + a = capture.frame_seq
      BY DEF CountInv, One
    <3>2. \E b \in {0, 1} : consumed + b + Len(captureRing) = capture.frame_seq + 1
      BY DEF CountInv, One
    <3>3. \E c \in {0, 1}, d \in {0, 1} : sent + c + Len(netRing) + d <= consumed
      BY DEF CountInv, One
    <3>4. QED
      BY <2>1, <2>2, <3>1, <3>2, <3>3 DEF CountersAgree
<1>3. QED
  BY <1>1, <1>2, TypeInvariance, CountStep, PTL DEF Spec

-----------------------------------------------------------------------------
(* The handles in flight *)

\* The five parts of InFlight, and what is between core 1 and the wire.
NetPart == Holding(network, {"send"})
EncPart == Holding(encode, {"count", "forward"})
CapPart == Holding(capture, {"push"})

PartsTyped ==
  /\ NetPart \in Seq(Handles) /\ EncPart \in Seq(Handles) /\ CapPart \in Seq(Handles)
  /\ netRing \in Seq(Handles) /\ captureRing \in Seq(Handles)
  /\ Pushed = NetPart \o netRing \o EncPart \o captureRing
  /\ InFlight = NetPart \o netRing \o EncPart \o captureRing \o CapPart

LEMMA PartTypes == TypeOK => PartsTyped
<1> SUFFICES ASSUME TypeOK PROVE PartsTyped
  OBVIOUS
<1>1. /\ network.handle \in Handles /\ encode.handle \in Handles /\ capture.handle \in Handles
      /\ netRing \in Seq(Handles) /\ captureRing \in Seq(Handles)
  BY DEF TypeOK
<1>2. NetPart \in Seq(Handles) /\ EncPart \in Seq(Handles) /\ CapPart \in Seq(Handles)
  BY <1>1 DEF NetPart, EncPart, CapPart, Holding
<1>3. QED
  BY <1>1, <1>2 DEF PartsTyped, Pushed, InFlight, NetPart, EncPart, CapPart

LEMMA PartTypesNext == TypeOK' => PartsTyped'
BY PartTypes, PTL

\* The flight taken apart.
FlightApart ==
  /\ Range(Pushed) =
       Range(NetPart) \cup Range(netRing) \cup Range(EncPart) \cup Range(captureRing)
  /\ Range(InFlight) = Range(Pushed) \cup Range(CapPart)
  /\ Ordered(InFlight) <=>
       /\ Ordered(NetPart) /\ Ordered(netRing) /\ Ordered(EncPart)
       /\ Ordered(captureRing) /\ Ordered(CapPart)
       /\ Before(Range(NetPart), Range(netRing))
       /\ Before(Range(NetPart) \cup Range(netRing), Range(EncPart))
       /\ Before(Range(NetPart) \cup Range(netRing) \cup Range(EncPart), Range(captureRing))
       /\ Before(Range(Pushed), Range(CapPart))

LEMMA TakeApart == PartsTyped => FlightApart
<1> SUFFICES ASSUME PartsTyped PROVE FlightApart
  OBVIOUS
<1> DEFINE n == NetPart
           e == EncPart
           p == CapPart
           nr == n \o netRing
           nre == nr \o e
           nrec == nre \o captureRing
<1>1. /\ n \in Seq(Handles) /\ netRing \in Seq(Handles) /\ e \in Seq(Handles)
      /\ captureRing \in Seq(Handles) /\ p \in Seq(Handles)
      /\ Pushed = nrec /\ InFlight = nrec \o p
  BY DEF PartsTyped
<1> HIDE DEF n, e, p
<1>2. /\ nr \in Seq(Handles) /\ Range(nr) = Range(n) \cup Range(netRing)
      /\ Ordered(nr) <=> Ordered(n) /\ Ordered(netRing) /\ Before(Range(n), Range(netRing))
  BY <1>1, OrderedConcat
<1> HIDE DEF nr
<1>3. /\ nre \in Seq(Handles) /\ Range(nre) = Range(nr) \cup Range(e)
      /\ Ordered(nre) <=> Ordered(nr) /\ Ordered(e) /\ Before(Range(nr), Range(e))
  BY <1>1, <1>2, OrderedConcat
<1> HIDE DEF nre
<1>4. /\ nrec \in Seq(Handles) /\ Range(nrec) = Range(nre) \cup Range(captureRing)
      /\ Ordered(nrec) <=> Ordered(nre) /\ Ordered(captureRing)
                           /\ Before(Range(nre), Range(captureRing))
  BY <1>1, <1>3, OrderedConcat
<1> HIDE DEF nrec
<1>5. /\ Range(nrec \o p) = Range(nrec) \cup Range(p)
      /\ Ordered(nrec \o p) <=> Ordered(nrec) /\ Ordered(p) /\ Before(Range(nrec), Range(p))
  BY <1>1, <1>4, OrderedConcat
<1>6. QED
  BY <1>1, <1>2, <1>3, <1>4, <1>5, Zenon DEF FlightApart, n, e, p

LEMMA TakeApartNext == PartsTyped' => FlightApart'
BY TakeApart, PTL

\* A step that lets handles go, and neither captures nor touches a slot.
LEMMA FlightShrinks ==
  ASSUME FlightInv, Ordered(InFlight'),
         Range(InFlight') \subseteq Range(InFlight),
         Range(Pushed') \subseteq Range(Pushed),
         slots' = slots, capture'.frame_seq = capture.frame_seq
  PROVE  FlightInv'
<1>1. \A h : Sound(h)' <=> Sound(h)
  BY DEF Sound
<1>2. \A h \in Range(InFlight') : Sound(h)'
  BY <1>1 DEF FlightInv
<1>3. Older(Range(Pushed'), capture'.frame_seq)
  BY DEF FlightInv, Older
<1>4. QED
  BY <1>2, <1>3 DEF FlightInv

\* How the parts of the flight are grouped does not matter.
LEMMA Regroup ==
  \A a, b, c \in Seq(Handles) : (a \o b) \o c = a \o (b \o c)
BY ConcatAssociative

\* Moving a handle from one part to the next leaves the flight as it is.
LEMMA MoveHandle ==
  ASSUME NEW a \in Seq(Handles), a # << >>
  PROVE  << Head(a) >> \o Tail(a) = a
BY HeadTailProperties

LEMMA EncodePopStep ==
  ASSUME TypeInv, TypeOK', FlightInv, EncodePop
  PROVE  FlightInv'
<1>0. TypeOK /\ PartsTyped /\ PartsTyped'
  BY PartTypes, PartTypesNext DEF TypeInv
<1> USE DEF PartsTyped
<1>1. EncPart = << >> /\ captureRing # << >>
  BY DEF EncodePop, EncodeReady, EncPart, Holding
<1>2. EncPart' = << Head(captureRing) >> /\ captureRing' = Tail(captureRing)
  BY DEF EncodePop, EncPart, Holding
<1>3. NetPart' = NetPart /\ netRing' = netRing /\ CapPart' = CapPart
      /\ slots' = slots /\ capture' = capture
  BY DEF EncodePop, NetPart, CapPart
<1>4. EncPart' \o captureRing' = captureRing
  BY <1>0, <1>1, <1>2, MoveHandle
<1>5. NetPart \o netRing \in Seq(Handles)
  BY <1>0, ConcatProperties
<1>6. (NetPart \o netRing \o EncPart) \o captureRing = (NetPart \o netRing) \o captureRing
  BY <1>1, <1>5, ConcatEmptySeq
<1>7. (NetPart \o netRing \o EncPart') \o captureRing' = (NetPart \o netRing) \o captureRing
  <2>1. EncPart' \in Seq(Handles) /\ captureRing' \in Seq(Handles)
    BY <1>0
  <2>2. ((NetPart \o netRing) \o EncPart') \o captureRing'
          = (NetPart \o netRing) \o (EncPart' \o captureRing')
    BY <1>5, <2>1, Regroup
  <2>3. QED
    BY <1>4, <2>2
<1>8. Pushed' = Pushed /\ InFlight' = InFlight
  BY <1>0, <1>3, <1>6, <1>7
<1>9. QED
  BY <1>3, <1>8, FlightShrinks DEF FlightInv

LEMMA NetworkPopStep ==
  ASSUME TypeInv, TypeOK', FlightInv, NetworkPop
  PROVE  FlightInv'
<1>0. TypeOK /\ PartsTyped /\ PartsTyped'
  BY PartTypes, PartTypesNext DEF TypeInv
<1> USE DEF PartsTyped
<1>1. NetPart = << >> /\ netRing # << >>
  BY DEF NetworkPop, NetPart, Holding
<1>2. NetPart' = << Head(netRing) >> /\ netRing' = Tail(netRing)
  BY DEF NetworkPop, NetPart, Holding
<1>3. EncPart' = EncPart /\ captureRing' = captureRing /\ CapPart' = CapPart
      /\ slots' = slots /\ capture' = capture
  BY DEF NetworkPop, EncPart, CapPart
<1>4. NetPart' \o netRing' = netRing
  BY <1>0, <1>1, <1>2, MoveHandle
<1>5. NetPart \o netRing = netRing
  BY <1>0, <1>1, ConcatEmptySeq
<1>6. Pushed' = Pushed /\ InFlight' = InFlight
  BY <1>0, <1>3, <1>4, <1>5
<1>7. QED
  BY <1>3, <1>6, FlightShrinks DEF FlightInv

LEMMA EncodeForwardStep ==
  ASSUME TypeInv, TypeOK', FlightInv, EncodeForward
  PROVE  FlightInv'
<1>0. TypeOK /\ PartsTyped /\ PartsTyped'
  BY PartTypes, PartTypesNext DEF TypeInv
<1> USE DEF PartsTyped
<1>1. EncPart = << encode.handle >> /\ EncPart' = << >> /\ encode.handle \in Handles
  BY <1>0 DEF EncodeForward, EncPart, Holding, Idle, TypeOK
<1>2. NetPart' = NetPart /\ captureRing' = captureRing /\ CapPart' = CapPart
      /\ slots' = slots /\ capture' = capture
  BY DEF EncodeForward, NetPart, CapPart
<1>3. CASE Len(netRing) < CAP
  <2>1. netRing' = netRing \o EncPart
    BY <1>0, <1>1, <1>3, AppendIsConcat DEF EncodeForward, Forwarded
  <2>2. NetPart \o netRing' = (NetPart \o netRing) \o EncPart
    <3>1. NetPart \in Seq(Handles) /\ netRing \in Seq(Handles) /\ EncPart \in Seq(Handles)
      BY <1>0
    <3>2. (NetPart \o netRing) \o EncPart = NetPart \o (netRing \o EncPart)
      BY <3>1, Regroup
    <3>3. QED
      BY <2>1, <3>2
  <2>3. (NetPart \o netRing') \o EncPart' = NetPart \o netRing'
    <3>1. NetPart \o netRing' \in Seq(Handles)
      BY <1>0, <1>2, ConcatProperties
    <3>2. QED
      BY <1>1, <3>1, ConcatEmptySeq
  <2>4. Pushed' = Pushed /\ InFlight' = InFlight
    BY <1>0, <1>2, <2>2, <2>3
  <2>5. QED
    BY <1>2, <2>4, FlightShrinks DEF FlightInv
<1>a. FlightApart /\ FlightApart'
  BY <1>0, TakeApart, TakeApartNext
<1>4. CASE ~ (Len(netRing) < CAP)
  <2>1. netRing' = netRing
    BY <1>4 DEF EncodeForward, Forwarded
  <2>2. Ordered(EncPart') /\ Range(EncPart') = {}
    BY <1>1, OrderedShort
  <2>3. /\ Range(Pushed') \subseteq Range(Pushed)
        /\ Range(InFlight') \subseteq Range(InFlight)
    BY <1>2, <1>a, <2>1, <2>2 DEF FlightApart
  <2>4. Ordered(InFlight)
    BY DEF FlightInv
  <2>5. Ordered(InFlight')
    BY <1>2, <1>a, <2>1, <2>2, <2>4 DEF FlightApart, Before
  <2>6. QED
    BY <1>2, <2>3, <2>5, FlightShrinks
<1>5. QED
  BY <1>3, <1>4

LEMMA NetworkSendStep ==
  ASSUME TypeInv, TypeOK', FlightInv, NetworkSend
  PROVE  FlightInv'
<1>0. TypeOK /\ PartsTyped /\ PartsTyped'
  BY PartTypes, PartTypesNext DEF TypeInv
<1> USE DEF PartsTyped
<1>1. EncPart' = EncPart /\ captureRing' = captureRing /\ CapPart' = CapPart
      /\ netRing' = netRing /\ slots' = slots /\ capture' = capture
  BY DEF NetworkSend, EncPart, CapPart
<1>2. Ordered(NetPart') /\ Range(NetPart') = {}
  <2>1. NetPart' = << >>
    BY DEF NetworkSend, NetPart, Holding, Idle
  <2>2. QED
    BY <2>1, OrderedShort
<1>a. FlightApart /\ FlightApart'
  BY <1>0, TakeApart, TakeApartNext
<1>3. /\ Range(Pushed') \subseteq Range(Pushed)
      /\ Range(InFlight') \subseteq Range(InFlight)
  BY <1>1, <1>2, <1>a DEF FlightApart
<1>4. Ordered(InFlight)
  BY DEF FlightInv
<1>5. Ordered(InFlight')
  BY <1>1, <1>2, <1>4, <1>a DEF FlightApart, Before
<1>6. QED
  BY <1>1, <1>3, <1>5, FlightShrinks

\* The handles in flight are handles, with numbers that compare.
LEMMA InFlightHandles ==
  ASSUME TypeOK
  PROVE  /\ Range(InFlight) \subseteq Handles
         /\ Range(Pushed) \subseteq Range(InFlight)
         /\ \A h \in Handles : h.frame_id \in Nat /\ h.boot \in BOOLEAN
                              /\ h.slot_id \in 0 .. NumSlots - 1
<1>1. PartsTyped /\ FlightApart
  BY PartTypes, TakeApart
<1>2. /\ Range(NetPart) \subseteq Handles /\ Range(netRing) \subseteq Handles
      /\ Range(EncPart) \subseteq Handles /\ Range(captureRing) \subseteq Handles
      /\ Range(CapPart) \subseteq Handles
  BY <1>1, RangeOfSeq DEF PartsTyped
<1>3. \A h \in Handles : h.frame_id \in Nat /\ h.boot \in BOOLEAN
                         /\ h.slot_id \in 0 .. NumSlots - 1
  BY PipelineAssumption DEF Handles
<1>4. QED
  BY <1>1, <1>2, <1>3 DEF FlightApart

LEMMA CaptureFrameStep ==
  ASSUME TypeInv, TypeOK', FlightInv, CaptureFrame
  PROVE  FlightInv'
<1> DEFINE f == capture.frame_seq
           d == capture.slot_id
<1>a. PICK hd : hd = Handle(d, f, FALSE)
  OBVIOUS
<1>0. TypeOK /\ CaptureInv /\ FlightApart /\ FlightApart'
  BY PartTypes, PartTypesNext, TakeApart, TakeApartNext DEF TypeInv
<1>1. /\ NumSlots \in Nat \ {0} /\ f \in Nat /\ d \in 0 .. NumSlots - 1
      /\ d = f % NumSlots /\ hd \in Handles
  BY <1>0, <1>a, Numbers, HandleType DEF CaptureInv
<1>2. /\ CapPart = << >> /\ CapPart' = << hd >>
      /\ capture'.frame_seq = f
  BY <1>0, <1>a DEF CaptureFrame, CapPart, Holding, TypeOK
<1>3. /\ NetPart' = NetPart /\ netRing' = netRing /\ EncPart' = EncPart
      /\ captureRing' = captureRing /\ Pushed' = Pushed
  BY DEF CaptureFrame, NetPart, EncPart, Pushed
<1>4. slots'[d] = f /\ \A s \in 0 .. NumSlots - 1 : s # d => slots'[s] = slots[s]
  BY <1>0, <1>1 DEF CaptureFrame, TypeOK
<1>5. ~ hd.boot /\ hd.frame_id = f /\ hd.slot_id = d /\ hd.crc32 = f
  BY <1>a DEF Handle
<1>6. Ordered(CapPart') /\ Range(CapPart') = {hd} /\ Range(CapPart) = {}
  BY <1>1, <1>2, OrderedShort
<1>7. /\ Range(InFlight') = Range(Pushed) \cup {hd}
      /\ Range(InFlight) = Range(Pushed)
  BY <1>0, <1>3, <1>6 DEF FlightApart
<1>8. Older(Range(Pushed), f) /\ Ordered(InFlight)
  BY DEF FlightInv
<1>9. Before(Range(Pushed'), Range(CapPart'))
  BY <1>3, <1>5, <1>6, <1>8 DEF Before, Older
<1>10. Ordered(InFlight')
  BY <1>0, <1>3, <1>6, <1>8, <1>9 DEF FlightApart
<1>11. Sound(hd)'
  BY <1>1, <1>2, <1>4, <1>5 DEF Sound
<1>12. ASSUME NEW h \in Range(Pushed) PROVE Sound(h)'
  <2>1. /\ Sound(h) /\ h \in Handles
        /\ h.frame_id \in Nat /\ h.slot_id \in 0 .. NumSlots - 1
    BY <1>0, <1>7, InFlightHandles DEF FlightInv
  <2>2. ~ h.boot => h.frame_id < f
    BY <1>8 DEF Older
  <2>3. ASSUME ~ h.boot, f - h.frame_id < NumSlots PROVE h.slot_id # d
    BY <1>1, <2>1, <2>2, <2>3, SlotsDiffer DEF Sound
  <2>4. QED
    BY <1>2, <1>4, <2>1, <2>3 DEF Sound
<1>13. QED
  BY <1>2, <1>3, <1>7, <1>8, <1>10, <1>11, <1>12 DEF FlightInv

LEMMA CapturePushStep ==
  ASSUME TypeInv, TypeOK', FlightInv, CapturePush
  PROVE  FlightInv'
<1> DEFINE f == capture.frame_seq
<1>0. TypeOK /\ PartsTyped /\ PartsTyped' /\ FlightApart /\ FlightApart'
  BY PartTypes, PartTypesNext, TakeApart, TakeApartNext DEF TypeInv
<1>1. CapPart = << capture.handle >> /\ CapPart' = << >> /\ capture.handle \in Handles
  BY <1>0 DEF CapturePush, Advance, CapPart, Holding, TypeOK
<1>2. /\ NetPart' = NetPart /\ netRing' = netRing /\ EncPart' = EncPart
      /\ slots' = slots
  BY DEF CapturePush, NetPart, EncPart
<1>3. CASE Len(captureRing) < CAP
  <2>1. captureRing' = captureRing \o CapPart
    BY <1>0, <1>1, <1>3, AppendIsConcat DEF CapturePush, PartsTyped
  <2>2. capture'.frame_seq = f + 1
    BY <1>0, <1>3 DEF CapturePush, Advance, TypeOK
  <2>3. Pushed' = InFlight
    <3> DEFINE a == NetPart \o netRing \o EncPart
    <3>1. a \in Seq(Handles) /\ captureRing \in Seq(Handles) /\ CapPart \in Seq(Handles)
      BY <1>0, ConcatProperties DEF PartsTyped
    <3>2. Pushed' = a \o captureRing' /\ InFlight = (a \o captureRing) \o CapPart
      BY <1>0, <1>2 DEF PartsTyped
    <3> HIDE DEF a
    <3>3. (a \o captureRing) \o CapPart = a \o (captureRing \o CapPart)
      BY <3>1, Regroup
    <3>4. QED
      BY <2>1, <3>2, <3>3
  <2>4. InFlight' = InFlight
    <3>1. Pushed' \in Seq(Handles)
      BY <1>0, ConcatProperties DEF PartsTyped
    <3>2. InFlight' = Pushed' \o << >>
      BY <1>0, <1>1 DEF PartsTyped
    <3>3. QED
      BY <2>3, <3>1, <3>2, ConcatEmptySeq
  <2>5. ASSUME NEW h \in Range(InFlight)
        PROVE  Sound(h)' /\ (~ h.boot => h.frame_id < f + 1)
    <3>1. Sound(h) /\ h.frame_id \in Nat /\ f \in Nat /\ NumSlots \in Nat
      BY <1>0, Numbers, InFlightHandles DEF FlightInv
    <3>2. QED
      BY <1>2, <2>2, <3>1 DEF Sound
  <2>6. QED
    BY <2>2, <2>3, <2>4, <2>5 DEF FlightInv, Older
<1>4. CASE ~ (Len(captureRing) < CAP)
  <2>1. captureRing' = captureRing /\ capture'.frame_seq = f
    BY <1>0, <1>4 DEF CapturePush, Advance, TypeOK
  <2>2. Ordered(CapPart') /\ Range(CapPart') = {}
    BY <1>1, OrderedShort
  <2>3. Pushed' = Pushed
    BY <1>0, <1>2, <2>1 DEF PartsTyped
  <2>4. Range(InFlight') \subseteq Range(InFlight)
    BY <1>0, <2>2, <2>3 DEF FlightApart
  <2>5. Ordered(InFlight)
    BY DEF FlightInv
  <2>6. Ordered(InFlight')
    BY <1>0, <1>2, <2>1, <2>2, <2>3, <2>5 DEF FlightApart, Before
  <2>7. QED
    BY <1>2, <2>1, <2>3, <2>4, <2>6, FlightShrinks
<1>5. QED
  BY <1>3, <1>4

\* The steps that leave the flight and the slots alone.
LEMMA FlightStutter ==
  ASSUME FlightInv, InFlight' = InFlight, Pushed' = Pushed, slots' = slots,
         capture'.frame_seq = capture.frame_seq
  PROVE  FlightInv'
BY FlightShrinks DEF FlightInv

LEMMA Core0Step ==
  ASSUME TypeInv, FlightInv, Core0
  PROVE  FlightInv'
<1>0. TypeOK
  BY DEF TypeInv
<1>1. InFlight' = InFlight /\ Pushed' = Pushed /\ capture' = capture
  BY Core0Is DEF InFlight, Pushed
<1>2. PICK s \in 0 .. NumSlots - 1 : Core0Stores(s)
  BY Core0Is
<1>3. /\ slots'[s] = ScriptData
      /\ \A t \in 0 .. NumSlots - 1 : t # s => slots'[t] = slots[t]
  BY <1>0, <1>2 DEF Core0Stores, TypeOK
<1>4. ASSUME NEW h \in Range(InFlight) PROVE Sound(h)'
  <2>1. Sound(h) /\ h.slot_id \in 0 .. NumSlots - 1
    BY <1>0, InFlightHandles DEF FlightInv
  <2>2. QED
    BY <1>1, <1>3, <2>1 DEF Sound, ScriptData
<1>5. QED
  BY <1>1, <1>4 DEF FlightInv

LEMMA FlightStep == TypeInv /\ TypeInv' /\ FlightInv /\ [Next]_vars => FlightInv'
<1> SUFFICES ASSUME TypeInv, TypeInv', FlightInv, [Next]_vars PROVE FlightInv'
  OBVIOUS
<1>0. TypeOK /\ TypeOK'
  BY DEF TypeInv
<1>1. CASE CaptureFrame
  BY <1>0, <1>1, CaptureFrameStep
<1>2. CASE CapturePush
  BY <1>0, <1>2, CapturePushStep
<1>3. CASE CaptureCount
  <2>1. /\ UNCHANGED <<network, netRing, encode, captureRing, slots>>
        /\ CapPart = << >> /\ CapPart' = << >>
        /\ capture'.frame_seq = capture.frame_seq
    BY <1>0, <1>3 DEF CaptureCount, CapPart, Holding, TypeOK
  <2>2. InFlight' = InFlight /\ Pushed' = Pushed
    BY <2>1 DEF InFlight, Pushed, CapPart
  <2>3. QED
    BY <2>1, <2>2, FlightStutter
<1>4. CASE EncodePop
  BY <1>0, <1>4, EncodePopStep
<1>5. CASE EncodeCount
  <2>1. /\ UNCHANGED <<network, netRing, capture, captureRing, slots>>
        /\ EncPart' = EncPart
    BY <1>0, <1>5 DEF EncodeCount, EncPart, Holding, TypeOK
  <2>2. InFlight' = InFlight /\ Pushed' = Pushed
    BY <2>1 DEF InFlight, Pushed, EncPart
  <2>3. QED
    BY <2>1, <2>2, FlightStutter
<1>6. CASE EncodeForward
  BY <1>0, <1>6, EncodeForwardStep
<1>7. CASE NetworkPop
  BY <1>0, <1>7, NetworkPopStep
<1>8. CASE NetworkSend
  BY <1>0, <1>8, NetworkSendStep
<1>9. CASE Core0
  BY <1>9, Core0Step
<1>10. CASE UNCHANGED vars
  <2>1. InFlight' = InFlight /\ Pushed' = Pushed /\ slots' = slots /\ capture' = capture
    BY <1>10 DEF vars, InFlight, Pushed
  <2>2. QED
    BY <2>1, FlightStutter
<1>11. QED
  BY <1>1, <1>2, <1>3, <1>4, <1>5, <1>6, <1>7, <1>8, <1>9, <1>10
     DEF Next, CaptureCore, EncodeCore, NetworkCore, Spin

LEMMA FlightInvariance == Spec => [](TypeInv /\ FlightInv)
<1>1. Init /\ TypeInv => FlightInv
  <2> SUFFICES ASSUME Init, TypeInv PROVE FlightInv
    OBVIOUS
  <2> DEFINE h == Handle(0, 1, TRUE)
  <2>1. TypeOK /\ FlightApart
    BY PartTypes, TakeApart DEF TypeInv
  <2>2. h \in Handles /\ h.boot
    BY IdleHandle DEF Handle
  <2>3. captureRing = << h >> /\ netRing = << >>
        /\ NetPart = << >> /\ EncPart = << >> /\ CapPart = << >>
    BY DEF Init, NetPart, EncPart, CapPart, Holding, Idle
  <2> HIDE DEF h
  <2>4. /\ Range(captureRing) = {h} /\ Range(netRing) = {} /\ Range(NetPart) = {}
        /\ Range(EncPart) = {} /\ Range(CapPart) = {}
        /\ Ordered(captureRing) /\ Ordered(netRing) /\ Ordered(NetPart)
        /\ Ordered(EncPart) /\ Ordered(CapPart)
    BY <2>2, <2>3, OrderedShort
  <2>5. Range(Pushed) = {h} /\ Range(InFlight) = {h}
    BY <2>1, <2>4 DEF FlightApart
  <2>6. Ordered(InFlight)
    BY <2>1, <2>4 DEF FlightApart, Before
  <2>7. QED
    BY <2>2, <2>5, <2>6 DEF FlightInv, Older, Sound
<1>2. QED
  BY <1>1, FlightStep, TypeInvariance, PTL DEF Spec

\* The frames of core 1 reach the wire in the order of their numbers, each at
\* most once, through rings of any capacity, a forward that drops frames and
\* captures that are repeated when the first ring is full.
THEOREM FramesInOrder == Spec => []InOrder
<1>1. FlightInv => InOrder
  BY DEF FlightInv, Ordered, InOrder
<1>2. QED
  BY <1>1, FlightInvariance, PTL

\* A handle points to the frame it was made for, or to what core 0 has stored in the
\* slot since, as long as core 1 is fewer than NumSlots frames ahead of it: core 1 does
\* not destroy a frame in that window, whatever core 0 does to the slots meanwhile.
THEOREM FramesIntactInWindow == Spec => []IntactInWindow
<1>1. TypeInv /\ FlightInv => IntactInWindow
  <2> SUFFICES ASSUME TypeInv, FlightInv, NEW i \in 1 .. Len(InFlight)
               PROVE  LET h == InFlight[i]
                      IN  ~ h.boot /\ capture.frame_seq - h.frame_id < NumSlots =>
                            slots[h.slot_id] \in {h.crc32, ScriptData}
    BY DEF IntactInWindow
  <2>1. InFlight \in Seq(Handles)
    <3> DEFINE a == NetPart \o netRing
               b == a \o EncPart
               c == b \o captureRing
    <3>1. PartsTyped
      BY PartTypes DEF TypeInv
    <3>2. a \in Seq(Handles)
      BY <3>1, ConcatProperties DEF PartsTyped
    <3>3. b \in Seq(Handles)
      BY <3>1, <3>2, ConcatProperties DEF PartsTyped
    <3>4. c \in Seq(Handles)
      BY <3>1, <3>3, ConcatProperties DEF PartsTyped
    <3>5. QED
      BY <3>1, <3>4, ConcatProperties DEF PartsTyped
  <2>2. InFlight[i] \in Range(InFlight)
    BY <2>1, RangeEquality
  <2>3. QED
    BY <2>2 DEF FlightInv, Sound
<1>2. QED
  BY <1>1, FlightInvariance, PTL
=============================================================================
