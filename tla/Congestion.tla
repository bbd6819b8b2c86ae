----------------------------- MODULE Congestion ------------------------------
(***************************************************************************)
(* The delay-based congestion controller of kernel/src/net.rs: core 3 runs *)
(* on_ack_received for every ACK it polls, one atomic access per step,     *)
(* while scripts on core 0 store any rate they like with @rate.            *)
(* Round-trip times are in units of the initial baseline, 50 us.  The      *)
(* model starts when the boot self-test has fed the controller one ACK.    *)
(***************************************************************************)
EXTENDS Integers

CONSTANTS Rtts,          \* round-trip times the ACKs measure
          ScriptRates,   \* arguments of @rate in the scripts
          Threshold,     \* CONGESTION_THRESHOLD_NS, 200 us
          Floor,         \* 20: lowest rate of the controller
          Step           \* 5: additive increase

ASSUME CongestionAssumption ==
  /\ Rtts \subseteq Nat
  /\ ScriptRates \subseteq Int
  /\ Threshold \in Nat
  /\ Floor \in 1 .. 100
  /\ Step \in 1 .. 100

VARIABLES minRtt,    \* MIN_RTT_NS
          lastRtt,   \* LAST_RTT_NS
          delta,     \* DELTA_DELAY_NS
          rate,      \* CONGESTION_RATE_PCT, an AtomicU8
          good,      \* CONSECUTIVE_GOOD_FRAMES
          ackPc, curr, \* core 3 in on_ack_received, and the rate it loaded
          scripting, \* core 0 may still run scripts that call @rate
          asked      \* history: the rates scripts have stored

ccVars == <<minRtt, lastRtt, delta, rate, good, ackPc, curr, scripting, asked>>

Least(a, b) == IF a <= b THEN a ELSE b
Most(a, b)  == IF a >= b THEN a ELSE b

\* rtt_ns < min_rtt || min_rtt == 0
Baseline(rtt) == IF rtt < minRtt \/ minRtt = 0 THEN rtt ELSE minRtt

\* poll_rx_ack finds an ACK and on_ack_received measures it.  rtt >= min_rtt
\* after the update, so the saturating subtraction does not saturate.
Measure(rtt) ==
  /\ ackPc = "poll"
  /\ lastRtt' = rtt
  /\ minRtt' = Baseline(rtt)
  /\ delta' = rtt - minRtt'
  /\ ackPc' = "judge"
  /\ UNCHANGED <<rate, good, curr, scripting, asked>>

\* poll_rx_ack finds no packet, a packet that is no ACK, or an ACK stamped
\* later than now.
NoMeasure ==
  /\ ackPc = "poll"
  /\ UNCHANGED ccVars

Congested == delta > Threshold

LoadRateToDecrease ==
  /\ ackPc = "judge" /\ Congested
  /\ curr' = rate
  /\ ackPc' = "decrease"
  /\ UNCHANGED <<minRtt, lastRtt, delta, rate, good, scripting, asked>>

\* Mutant: no floor.
DecreasedNoFloor(r) == (r * 80) \div 100

\* 80 % of the rate, at least the floor.
Decreased(r) == Most(Floor, (r * 80) \div 100)

\* The statics, and what on_ack_received makes of them in the boot self-test.
CcInit ==
  /\ \E rtt \in Rtts :
       /\ lastRtt = rtt
       /\ minRtt = Least(1, rtt)
       /\ delta = rtt - minRtt
  /\ IF Congested THEN rate = Decreased(100) /\ good = 0
                  ELSE rate = 100 /\ good = 1
  /\ ackPc = "poll"
  /\ curr = 100
  /\ scripting = TRUE
  /\ asked = {}

StoreDecrease ==
  /\ ackPc = "decrease"
  /\ rate' = Decreased(curr)
  /\ good' = 0
  /\ ackPc' = "poll"
  /\ UNCHANGED <<minRtt, lastRtt, delta, curr, scripting, asked>>

\* good >= 4, good being the counter after fetch_add(1)
FourGood == good + 1 >= 4

CountGood ==
  /\ ackPc = "judge" /\ ~ Congested
  /\ good' = good + 1
  /\ IF FourGood THEN curr' = rate /\ ackPc' = "increase"
                 ELSE ackPc' = "poll" /\ UNCHANGED curr
  /\ UNCHANGED <<minRtt, lastRtt, delta, rate, scripting, asked>>

\* Mutant: a step that would pass 100 is not taken at all.
IncreasedWhileRoom(r) == IF r + Step > 100 THEN r ELSE r + Step

\* min(100, curr.saturating_add(5)) on a u8
Increased(r) == Least(100, Least(255, r + Step))

StoreIncrease ==
  /\ ackPc = "increase"
  /\ rate' = Increased(curr)
  /\ good' = 0
  /\ ackPc' = "poll"
  /\ UNCHANGED <<minRtt, lastRtt, delta, curr, scripting, asked>>

\* A script's @rate(v) on core 0 stores v as u8, unchecked and at any time.
SetRate(v) ==
  /\ scripting
  /\ rate' = v % 256
  /\ asked' = asked \cup {v % 256}
  /\ UNCHANGED <<minRtt, lastRtt, delta, good, ackPc, curr, scripting>>

ScriptsEnd ==
  /\ scripting
  /\ scripting' = FALSE
  /\ UNCHANGED <<minRtt, lastRtt, delta, rate, good, ackPc, curr, asked>>

OnAckReceived ==
  \/ \E rtt \in Rtts : Measure(rtt)
  \/ LoadRateToDecrease \/ StoreDecrease
  \/ CountGood \/ StoreIncrease

CcNext == OnAckReceived \/ NoMeasure \/ ScriptsEnd \/ \E v \in ScriptRates : SetRate(v)

\* ACKs keep arriving and core 3 keeps polling them.
CcSpec == CcInit /\ [][CcNext]_ccVars /\ WF_ccVars(OnAckReceived)

-----------------------------------------------------------------------------
\* The atomics hold values of their types; the rate is an AtomicU8.
CcTypeOK ==
  /\ {minRtt, lastRtt, delta} \subseteq Nat
  /\ {rate, curr} \subseteq 0 .. 255
  /\ good \in 0 .. 4
  /\ ackPc \in {"poll", "judge", "decrease", "increase"}
  /\ scripting \in BOOLEAN
  /\ asked \subseteq 0 .. 255

\* The controller never carries the rate out of the range that its own bounds and
\* the rates stored so far span, whatever ACKs and scripts interleave and however
\* stale the rate is that it adjusts: until a script stores one outside 20 .. 100,
\* the rate stays there.
RateBounded ==
  \E low \in asked \cup {Floor}, high \in asked \cup {100} : rate \in low .. high

\* Once the delay stays below the threshold and scripts leave the rate alone,
\* the controller works its way back to 100 %.
RateRecovers == <>[](~ Congested /\ ~ scripting) => <>[](rate = 100)
=============================================================================
