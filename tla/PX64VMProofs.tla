----------------------------- MODULE PX64VMProofs -----------------------------
(***************************************************************************)
(* For every set of programs, register file, call depth, pool and set of   *)
(* instruction times: calls return where they were made with the caller's  *)
(* registers, the watchdog bounds the time a script computes, registers,   *)
(* stacks and slots are typed, arrays do not share slots, and the machine  *)
(* panics at a pool only if the script outgrew it or disordered it.        *)
(***************************************************************************)
EXTENDS PX64VM, WellFoundedInduction, TLAPS

\* Below the stack pointer, every saved frame is the state at its call.
FramesMatch ==
  /\ sp \in 0 .. MaxCallDepth
  /\ DOMAIN frames = 0 .. MaxCallDepth - 1
  /\ DOMAIN callers = 0 .. MaxCallDepth - 1
  /\ \A d \in 0 .. sp - 1 :
       /\ frames[d].ip = callers[d].ip + 1
       /\ \A r \in Saved : frames[d].regs[r] = callers[d].regs[r]

\* The watchdog is ahead of the limit by exactly the time of blocking natives,
\* and no success was late.
TimeKept ==
  /\ now \in Nat /\ io \in Nat
  /\ timeout = TimeLimit + io
  /\ status = "ok" => now <= timeout

\* All instructions but calls and returns leave the call stack alone.
QuietStack == UNCHANGED stacks

\* All steps but natives and the last one keep the watchdog, the clock only goes
\* on and the script has not succeeded.
QuietTime == now' \in Nat /\ UNCHANGED <<timeout, io>> /\ status' # "ok"

LEMMA StopIsQuiet ==
  ASSUME NEW result, result # "ok", now \in Nat, Stop(result)
  PROVE  QuietStack /\ QuietTime
BY VMAssumption DEF Stop, Elapse, QuietStack, QuietTime, stacks, timing

LEMMA ContinueIsQuiet ==
  ASSUME now \in Nat, Fetch, Continue, UNCHANGED <<timeout, io>>
  PROVE  QuietTime
BY VMAssumption DEF Fetch, Continue, Elapse, QuietTime

\* The actions that neither call nor return nor call a native nor finish.
Plain ==
  \/ Watchdog
  \/ Nop \/ Halt \/ MovImm \/ Ldc \/ OperateImm \/ Operate \/ Divide \/ Assert
  \/ SpillStore \/ SpillLoad \/ Jump
  \/ \E k \in Kinds : Define(k) \/ PoolLoad(k) \/ PoolStore(k)
  \/ TableDef \/ TableLoad
  \/ WithinStart \/ WithinEnd \/ Drop
  \/ InvalidOpcode

LEMMA NextSplits == Next => Plain \/ Finish \/ Call \/ Ret \/ CallNative
BY DEF Next, Plain

LEMMA PlainIsQuiet ==
  ASSUME now \in Nat, Plain
  PROVE  QuietStack /\ QuietTime
<1>1. CASE Watchdog
  BY <1>1 DEF Watchdog, QuietStack, QuietTime, stacks, timing
<1>2. CASE Nop \/ MovImm \/ OperateImm \/ Operate \/ SpillLoad \/ Drop
  <2>1. Fetch /\ Continue /\ OnlyRegs
    BY <1>2 DEF Nop, MovImm, OperateImm, Operate, SpillLoad, Drop, Fetched
  <2> QED
    BY <2>1, ContinueIsQuiet DEF OnlyRegs, QuietStack, stacks, timing
<1>3. CASE Halt
  BY <1>3, StopIsQuiet DEF Halt
<1>4. CASE Ldc
  <2>1. Stop("ERR_PX64_CONST_OUT_OF_BOUNDS") \/ (Fetch /\ Continue /\ OnlyRegs)
    BY <1>4 DEF Ldc, Fetched
  <2> QED
    BY <2>1, StopIsQuiet, ContinueIsQuiet DEF OnlyRegs, QuietStack, stacks, timing
<1>5. CASE Divide
  <2>1. Stop("ERR_PX64_DIV_BY_ZERO") \/ (Fetch /\ Continue /\ OnlyRegs)
    BY <1>5 DEF Divide
  <2> QED
    BY <2>1, StopIsQuiet, ContinueIsQuiet DEF OnlyRegs, QuietStack, stacks, timing
<1>6. CASE Assert
  <2>1. Stop("ERR_PX64_ASSERTION_FAILED") \/ (Fetch /\ Continue /\ OnlyRegs)
    BY <1>6 DEF Assert, Fetched
  <2> QED
    BY <2>1, StopIsQuiet, ContinueIsQuiet DEF OnlyRegs, QuietStack, stacks, timing
<1>7. CASE SpillStore \/ TableDef \/ WithinStart \/ WithinEnd
  <2>1. Fetch /\ Continue /\ UNCHANGED <<stacks, timeout, io>>
    BY <1>7 DEF SpillStore, TableDef, WithinStart, WithinEnd, Fetched, timing
  <2> QED
    BY <2>1, ContinueIsQuiet DEF QuietStack
<1>8. CASE Jump
  BY <1>8, VMAssumption
  DEF Jump, Fetch, Elapse, OnlyRegs, QuietStack, QuietTime, stacks, timing
<1>9. CASE \E k \in Kinds : Define(k) \/ PoolLoad(k) \/ PoolStore(k)
  <2>1. PICK k \in Kinds : Define(k) \/ PoolLoad(k) \/ PoolStore(k)
    BY <1>9
  <2>2. CASE Define(k)
    <3>1. Fetch /\ Continue /\ UNCHANGED <<stacks, timeout, io>>
      BY <2>2 DEF Define, Fetched, timing
    <3> QED
      BY <3>1, ContinueIsQuiet DEF QuietStack
  <2>3. CASE PoolLoad(k)
    <3>1. \/ Stop("ERR_PX64_OUT_OF_BOUNDS") \/ Stop(PoolPanic(k))
          \/ (Fetch /\ Continue /\ OnlyRegs)
      BY <2>3 DEF PoolLoad, Fetched
    <3> QED
      BY <3>1, StopIsQuiet, ContinueIsQuiet DEF OnlyRegs, QuietStack, stacks, timing, PoolPanic
  <2>4. CASE PoolStore(k)
    <3>1. \/ Stop("ERR_PX64_OUT_OF_BOUNDS") \/ Stop(PoolPanic(k))
          \/ (Fetch /\ Continue /\ UNCHANGED <<stacks, timeout, io>>)
      BY <2>4 DEF PoolStore, Fetched, timing
    <3> QED
      BY <3>1, StopIsQuiet, ContinueIsQuiet DEF QuietStack, PoolPanic
  <2> QED
    BY <2>1, <2>2, <2>3, <2>4
<1>10. CASE TableLoad
  <2>1. \/ Stop("ERR_PX64_OUT_OF_BOUNDS") \/ Stop("panic_table")
        \/ (Fetch /\ Continue /\ OnlyRegs)
    BY <1>10 DEF TableLoad, Fetched
  <2> QED
    BY <2>1, StopIsQuiet, ContinueIsQuiet DEF OnlyRegs, QuietStack, stacks, timing
<1>11. CASE InvalidOpcode
  BY <1>11, StopIsQuiet DEF InvalidOpcode
<1> QED
  BY <1>1, <1>2, <1>3, <1>4, <1>5, <1>6, <1>7, <1>8, <1>9, <1>10, <1>11 DEF Plain

-----------------------------------------------------------------------------
(* Time *)

LEMMA NativeKeepsTime ==
  ASSUME TimeKept, CallNative
  PROVE  TimeKept' /\ QuietStack
<1>1. now \in Nat /\ io \in Nat /\ timeout = TimeLimit + io /\ TimeLimit \in Nat
  BY VMAssumption DEF TimeKept
<1>2. status = "running"
  BY DEF CallNative, Fetched, Fetch
<1>3. CASE NativeFails(I.nat, Reg(I.rs2, 0)) # "no"
  <2>1. Stop(NativeFails(I.nat, Reg(I.rs2, 0)))
    BY <1>3 DEF CallNative
  <2>2. NativeFails(I.nat, Reg(I.rs2, 0)) # "ok"
    BY DEF NativeFails
  <2> QED
    BY <1>1, <2>1, <2>2, StopIsQuiet DEF TimeKept, QuietTime
<1>4. CASE ~ (NativeFails(I.nat, Reg(I.rs2, 0)) # "no")
  <2>1. PICK d \in NativeTime(I.nat, Reg(I.rs2, 0)) :
          /\ now' = now + d
          /\ timeout' = IF IsBlockingIo(I.nat) THEN timeout + d ELSE timeout
          /\ io' = IF I.nat \in IoNatives THEN io + d ELSE io
    BY <1>4 DEF CallNative
  <2>2. d \in Nat
    BY VMAssumption DEF NativeTime
  <2>3. status' = status /\ UNCHANGED stacks
    BY <1>4 DEF CallNative
  <2> QED
    BY <1>1, <1>2, <2>1, <2>2, <2>3 DEF TimeKept, IsBlockingIo, QuietStack
<1> QED
  BY <1>3, <1>4

LEMMA TimeStep ==
  ASSUME TimeKept, [Next]_vars
  PROVE  TimeKept'
<1>1. now \in Nat /\ io \in Nat /\ timeout = TimeLimit + io /\ TimeLimit \in Nat
  BY VMAssumption DEF TimeKept
<1>2. CASE Plain
  BY <1>1, <1>2, PlainIsQuiet DEF TimeKept, QuietTime
<1>3. CASE Finish
  BY <1>1, <1>3 DEF Finish, Result, TimeKept, timing
<1>4. CASE Call
  <2>1. QuietTime
    <3>1. CASE Stop("ERR_PX64_STACK_OVERFLOW")
      BY <1>1, <3>1, StopIsQuiet
    <3>2. CASE ~ Stop("ERR_PX64_STACK_OVERFLOW")
      BY <1>1, <1>4, <3>2, VMAssumption
      DEF Call, Fetched, Fetch, Elapse, QuietTime, timing
    <3> QED
      BY <3>1, <3>2
  <2> QED
    BY <1>1, <2>1 DEF TimeKept, QuietTime
<1>5. CASE Ret
  <2>1. QuietTime
    <3>1. CASE Stop("leaving")
      BY <1>1, <3>1, StopIsQuiet
    <3>2. CASE ~ Stop("leaving")
      BY <1>1, <1>5, <3>2, VMAssumption
      DEF Ret, Fetched, Fetch, Elapse, QuietTime, timing
    <3> QED
      BY <3>1, <3>2
  <2> QED
    BY <1>1, <2>1 DEF TimeKept, QuietTime
<1>6. CASE CallNative
  BY <1>6, NativeKeepsTime
<1>7. CASE UNCHANGED vars
  BY <1>7 DEF vars, timing, TimeKept
<1> QED
  BY <1>2, <1>3, <1>4, <1>5, <1>6, <1>7, NextSplits

\* A script that succeeds has computed for at most MAX_SCRIPT_TIMEOUT_NS, for
\* every program and every duration of its instructions and natives (lang.rs,
\* PX64VM::run: the deduction of blocking I/O from the watchdog).
THEOREM ComputeTimeSafe == Spec => []ComputeBounded
<1>1. Init => TimeKept
  BY VMAssumption DEF Init, TimeKept
<1>2. TimeKept /\ [Next]_vars => TimeKept'
  BY TimeStep
<1>3. TimeKept => ComputeBounded
  BY VMAssumption DEF TimeKept, ComputeBounded
<1> QED
  BY <1>1, <1>2, <1>3, PTL DEF Spec

-----------------------------------------------------------------------------
(* Calls *)

LEMMA StackMoves ==
  ASSUME TimeKept, [Next]_vars
  PROVE  \/ UNCHANGED stacks
         \/ Call /\ ~ CallOverflows
         \/ Ret /\ sp > 0
<1>1. now \in Nat
  BY DEF TimeKept
<1>2. CASE Plain
  BY <1>1, <1>2, PlainIsQuiet DEF QuietStack
<1>3. CASE Finish
  BY <1>3 DEF Finish
<1>4. CASE Call
  <2>1. CASE CallOverflows
    BY <1>4, <2>1 DEF Call, Stop
  <2> QED
    BY <1>4, <2>1
<1>5. CASE Ret
  <2>1. CASE Stop("leaving")
    BY <2>1 DEF Stop
  <2> QED
    BY <1>5, <2>1 DEF Ret
<1>6. CASE CallNative
  BY <1>6, NativeKeepsTime DEF QuietStack
<1>7. CASE UNCHANGED vars
  BY <1>7 DEF vars
<1> QED
  BY <1>2, <1>3, <1>4, <1>5, <1>6, <1>7, NextSplits

LEMMA CallStep ==
  ASSUME FramesMatch, Call, ~ CallOverflows
  PROVE  FramesMatch' /\ sp' = sp + 1
<1>1. /\ MaxCallDepth \in Nat
      /\ sp \in 0 .. MaxCallDepth /\ sp < MaxCallDepth
  BY VMAssumption DEF FramesMatch, CallOverflows
<1>2. /\ frames' = [frames EXCEPT ![sp] = [ip   |-> ip + 1,
                                          regs |-> [r \in Saved |-> regs[r]]]]
      /\ callers' = [callers EXCEPT ![sp] = [ip |-> ip, regs |-> regs]]
      /\ sp' = sp + 1
  BY DEF Call
<1>3. DOMAIN frames' = 0 .. MaxCallDepth - 1 /\ DOMAIN callers' = 0 .. MaxCallDepth - 1
  BY <1>2 DEF FramesMatch
<1>4. ASSUME NEW d \in 0 .. sp' - 1
      PROVE  /\ frames'[d].ip = callers'[d].ip + 1
             /\ \A r \in Saved : frames'[d].regs[r] = callers'[d].regs[r]
  <2>0. d \in DOMAIN frames /\ d \in DOMAIN callers
    BY <1>1, <1>2 DEF FramesMatch
  <2>1. CASE d = sp
    <3>1. /\ frames'[d] = [ip |-> ip + 1, regs |-> [r \in Saved |-> regs[r]]]
          /\ callers'[d] = [ip |-> ip, regs |-> regs]
      BY <1>2, <2>0, <2>1
    <3> QED
      BY <3>1
  <2>2. CASE d # sp
    <3>1. frames'[d] = frames[d] /\ callers'[d] = callers[d]
      BY <1>2, <2>0, <2>2
    <3>2. d \in 0 .. sp - 1
      BY <1>1, <1>2, <2>2
    <3> QED
      BY <3>1, <3>2 DEF FramesMatch
  <2> QED
    BY <2>1, <2>2
<1>5. sp' \in 0 .. MaxCallDepth
  BY <1>1, <1>2
<1>6. Saved' = Saved
  BY DEF Saved
<1> QED
  BY <1>2, <1>3, <1>4, <1>5, <1>6 DEF FramesMatch

LEMMA RetStep ==
  ASSUME FramesMatch, Ret, sp > 0
  PROVE  /\ FramesMatch' /\ sp' = sp - 1
         /\ ip' = callers[sp'].ip + 1
         /\ regs'[0] = regs[0]
         /\ \A r \in Saved \ {0} : regs'[r] = callers[sp'].regs[r]
<1>1. MaxCallDepth \in Nat /\ sp \in 0 .. MaxCallDepth
  BY VMAssumption DEF FramesMatch
<1>2. /\ sp' = sp - 1
      /\ ip' = frames[sp - 1].ip
      /\ regs' = [r \in Regs |-> IF r \in Saved \ {0} THEN frames[sp - 1].regs[r] ELSE regs[r]]
      /\ UNCHANGED <<frames, callers>>
  BY <1>1 DEF Ret, TopFrame, Stop
<1>3. sp - 1 \in 0 .. sp - 1
  BY <1>1
<1>4. /\ frames[sp - 1].ip = callers[sp - 1].ip + 1
      /\ \A r \in Saved : frames[sp - 1].regs[r] = callers[sp - 1].regs[r]
  BY <1>3 DEF FramesMatch
<1>5. Saved \subseteq Regs /\ 0 \in Regs
  BY VMAssumption DEF Saved, Regs
<1>6. FramesMatch'
  BY <1>1, <1>2 DEF FramesMatch, Saved
<1> QED
  BY <1>2, <1>4, <1>5, <1>6

LEMMA FramesStep ==
  ASSUME TimeKept, FramesMatch, [Next]_vars
  PROVE  FramesMatch'
<1>1. CASE UNCHANGED stacks
  BY <1>1 DEF stacks, FramesMatch, Saved
<1> QED
  BY <1>1, StackMoves, CallStep, RetStep

\* Calls return behind themselves with the caller's registers, for every program
\* and any call depth (lang.rs, PX64_OP_CALL and PX64_OP_RET).
THEOREM CallsReturnCorrect == Spec => CallsReturn
<1> DEFINE Inv == TimeKept /\ FramesMatch
           Restored == /\ ip' = callers[sp'].ip + 1
                       /\ regs'[0] = regs[0]
                       /\ \A r \in Saved \ {0} : regs'[r] = callers[sp'].regs[r]
<1>1. Init => Inv
  BY VMAssumption DEF Init, TimeKept, FramesMatch
<1>2. Inv /\ [Next]_vars => Inv'
  BY TimeStep, FramesStep
<1>3. Inv /\ [Next]_vars => [sp' < sp => Restored]_vars
  <2> SUFFICES ASSUME Inv, [Next]_vars, sp' < sp
               PROVE  Restored
    OBVIOUS
  <2>1. sp \in Int
    BY DEF FramesMatch
  <2>2. CASE UNCHANGED stacks
    BY <2>1, <2>2 DEF stacks
  <2>3. CASE Call /\ ~ CallOverflows
    BY <2>1, <2>3, CallStep
  <2>4. CASE Ret /\ sp > 0
    BY <2>4, RetStep
  <2> QED
    BY <2>2, <2>3, <2>4, StackMoves
<1> QED
  BY <1>1, <1>2, <1>3, PTL DEF Spec, CallsReturn

-----------------------------------------------------------------------------
(* Type correctness *)

LEMMA VMNumbers ==
  /\ NumSaved \in Nat \ {0} /\ NumRegs \in Nat /\ NumSaved <= NumRegs
  /\ MaxCallDepth \in Nat /\ MaxDeadlines \in Nat /\ MaxSteps \in Nat /\ TimeLimit \in Nat
  /\ NumIds \in Nat /\ PoolSize \in Nat /\ NumSpills \in Nat
  /\ BaseWord \in Nat \ {0} /\ PoolSize <= BaseWord
BY VMAssumption

LEMMA VMWords ==
  /\ Durations \subseteq Nat /\ Values \subseteq Int /\ 0 \in Values
  /\ \A op \in AluOps \cup ImmOps \cup DivOps, a \in Values, b \in Values : Alu(op, a, b) \in Values
BY VMAssumption

LEMMA ConstWords == ConstPool \in Seq(Values)
BY VMAssumption

LEMMA SavedAreRegs == Saved \subseteq Regs
BY VMNumbers DEF Saved, Regs

\* The operands of the instruction that was fetched
LEMMA Operands ==
  ASSUME TypeOK, InCode
  PROVE  /\ I.rd \in Nat /\ I.rs1 \in Nat /\ I.rs2 \in Nat /\ I.imm \in Nat
         /\ I.op \in ImmOps \cup {"mov_imm"} => I.imm \in Values
<1>1. code \in Programs /\ ip \in DOMAIN code
  BY CodeAssumption DEF TypeOK, InCode
<1>2. QED
  BY <1>1, CodeAssumption DEF I

LEMMA FetchCounts ==
  ASSUME TypeOK, Fetch
  PROVE  steps' \in 0 .. MaxSteps /\ code' = code /\ InCode /\ status = "running"
<1>1. steps \in 0 .. MaxSteps /\ steps < MaxSteps /\ steps' = steps + 1 /\ code' = code
  BY DEF TypeOK, Fetch, CountStep
<1>2. QED
  BY <1>1, VMNumbers DEF Fetch

LEMMA ElapseNat ==
  ASSUME TypeOK, Elapse(Durations)
  PROVE  now' \in Nat
BY VMWords DEF TypeOK, Elapse

LEMMA StopType ==
  ASSUME TypeOK, Fetch, NEW result \in {"leaving"} \cup Errors \cup Panics, Stop(result)
  PROVE  TypeOK'
<1>1. steps' \in 0 .. MaxSteps /\ code' = code /\ now' \in Nat
  BY FetchCounts, ElapseNat DEF Stop
<1>2. /\ status' = result
      /\ UNCHANGED <<ip, regs, frames, sp, callers, dlSp, timeout, io, lens, bases, slots, inOrder,
                     tables, spills>>
  BY DEF Stop, stacks, timing, pools
<1>3. QED
  BY <1>1, <1>2 DEF TypeOK

\* An instruction that changes registers only, or jumps
LEMMA RegsType ==
  ASSUME TypeOK, Fetch, regs' \in [Regs -> Values], ip' \in Nat, status' = status,
         Elapse(Durations), OnlyRegs
  PROVE  TypeOK'
<1>1. steps' \in 0 .. MaxSteps /\ code' = code /\ now' \in Nat
  BY FetchCounts, ElapseNat
<1>2. UNCHANGED <<frames, sp, callers, dlSp, timeout, io, lens, bases, slots, inOrder, tables, spills>>
  BY DEF OnlyRegs, stacks, timing, pools
<1>3. QED
  BY <1>1, <1>2 DEF TypeOK

LEMMA ContinueType ==
  ASSUME TypeOK, Fetch, regs' \in [Regs -> Values], Continue, OnlyRegs
  PROVE  TypeOK'
<1>1. ip' \in Nat /\ status' = status /\ Elapse(Durations)
  BY DEF TypeOK, Continue
<1>2. QED
  BY <1>1, RegsType

LEMMA SetRegType ==
  ASSUME TypeOK, NEW r, NEW v \in Values, SetReg(r, v)
  PROVE  regs' \in [Regs -> Values]
BY DEF TypeOK, SetReg

LEMMA RegType ==
  ASSUME TypeOK, NEW r
  PROVE  Reg(r, 0) \in Values /\ Reg(r, -1) \in Int
<1>1. 0 \in Values /\ Values \subseteq Int /\ regs \in [Regs -> Values]
  BY VMWords DEF TypeOK
<1>2. CASE r \in Regs
  <2>1. regs[r] \in Values /\ regs[r] \in Int
    BY <1>1, <1>2
  <2>2. Reg(r, 0) = regs[r] /\ Reg(r, -1) = regs[r]
    BY <1>2 DEF Reg
  <2>3. QED
    BY <2>1, <2>2
<1>3. CASE r \notin Regs
  <2>1. Reg(r, 0) = 0 /\ Reg(r, -1) = -1
    BY <1>3 DEF Reg
  <2>2. QED
    BY <1>1, <2>1
<1>4. QED
  BY <1>2, <1>3

LEMMA InitType == Init => TypeOK
<1> SUFFICES ASSUME Init PROVE TypeOK
  OBVIOUS
<1>1. code \in Programs /\ ip \in Nat /\ regs \in [Regs -> Values] /\ steps \in 0 .. MaxSteps
  BY VMNumbers, VMWords DEF Init
<1>2. frames \in [0 .. MaxCallDepth - 1 -> [ip : Nat, regs : [Saved -> Values]]]
  BY VMWords DEF Init, NoFrame
<1>3. callers \in [0 .. MaxCallDepth - 1 -> [ip : Nat, regs : [Regs -> Values]]]
  BY <1>1 DEF Init
<1>4. sp \in 0 .. MaxCallDepth /\ dlSp \in 0 .. MaxDeadlines
  BY VMNumbers DEF Init
<1>5. lens \in [Kinds -> [Ids -> Nat]] /\ bases \in [Kinds -> [Ids -> 0 .. BaseWord - 1]]
  <2>1. 0 \in 0 .. BaseWord - 1
    BY VMNumbers
  <2>2. QED
    BY <2>1 DEF Init
<1>6. slots \in [Kinds -> [0 .. PoolSize - 1 -> Values]] /\ spills \in [0 .. NumSpills - 1 -> Values]
  BY VMWords DEF Init
<1>7. tables \in [Ids -> [base : Nat, len : Nat]]
  BY DEF Init
<1>8. now \in Nat /\ timeout \in Nat /\ io \in Nat
  BY VMNumbers DEF Init
<1>9. status = "running" /\ inOrder \in [Kinds -> BOOLEAN]
  BY DEF Init
<1>10. QED
  BY <1>1, <1>2, <1>3, <1>4, <1>5, <1>6, <1>7, <1>8, <1>9 DEF TypeOK

LEMMA SimpleType ==
  ASSUME TypeOK, Nop \/ Halt \/ MovImm \/ Ldc \/ Drop \/ InvalidOpcode
  PROVE  TypeOK'
<1>1. CASE Nop \/ Drop
  BY <1>1, ContinueType DEF Nop, Drop, Fetched, TypeOK
<1>2. CASE Halt
  BY <1>2, StopType DEF Halt, Fetched
<1>3. CASE MovImm
  <2>1. I.imm \in Values
    BY <1>3, Operands DEF MovImm, Fetched, Fetch
  <2>2. regs' \in [Regs -> Values]
    BY <1>3, <2>1, SetRegType DEF MovImm
  <2>3. QED
    BY <1>3, <2>2, ContinueType DEF MovImm, Fetched
<1>4. CASE Ldc
  <2>1. I.imm \in Nat /\ Fetch
    BY <1>4, Operands DEF Ldc, Fetched, Fetch
  <2>2. CASE I.imm >= Len(ConstPool) /\ Stop("ERR_PX64_CONST_OUT_OF_BOUNDS")
    BY <2>1, <2>2, StopType DEF Errors
  <2>3. CASE I.imm < Len(ConstPool) /\ SetReg(I.rd, ConstPool[I.imm + 1]) /\ Continue /\ OnlyRegs
    <3>1. I.imm + 1 \in 1 .. Len(ConstPool)
      BY <2>1, <2>3, ConstWords
    <3>2. ConstPool[I.imm + 1] \in Values
      BY <3>1, ConstWords
    <3>3. regs' \in [Regs -> Values]
      BY <2>3, <3>2, SetRegType
    <3>4. QED
      BY <2>1, <2>3, <3>3, ContinueType
  <2>4. QED
    BY <1>4, <2>2, <2>3 DEF Ldc
<1>5. CASE InvalidOpcode
  BY <1>5, StopType DEF InvalidOpcode, Errors
<1>6. QED
  BY <1>1, <1>2, <1>3, <1>4, <1>5

LEMMA ArithmeticType ==
  ASSUME TypeOK, OperateImm \/ Operate \/ Divide \/ Assert
  PROVE  TypeOK'
<1>0. Fetch /\ regs \in [Regs -> Values]
  BY DEF OperateImm, Operate, Divide, Assert, Fetched, TypeOK
<1>1. ASSUME NEW r, NEW v \in Values, SetReg(r, v), Continue, OnlyRegs PROVE TypeOK'
  <2>1. regs' \in [Regs -> Values]
    BY <1>1, SetRegType
  <2>2. QED
    BY <1>0, <1>1, <2>1, ContinueType
<1>2. ASSUME UNCHANGED regs, Continue, OnlyRegs PROVE TypeOK'
  BY <1>0, <1>2, ContinueType
<1>3. CASE OperateImm
  <2>1. I.imm \in Values /\ I.op \in ImmOps
    BY <1>3, Operands DEF OperateImm, Fetch
  <2>2. {I.rd, I.rs1} \subseteq Regs => Alu(I.op, regs[I.rs1], I.imm) \in Values
    BY <1>0, <2>1, VMWords
  <2>3. QED
    BY <1>1, <1>2, <1>3, <2>2 DEF OperateImm
<1>4. CASE Operate
  <2>1. I.op \in AluOps
    BY <1>4 DEF Operate
  <2>2. Three => Alu(I.op, regs[I.rs1], regs[I.rs2]) \in Values
    BY <1>0, <2>1, VMWords DEF Three
  <2>3. QED
    BY <1>1, <1>2, <1>4, <2>2 DEF Operate
<1>5. CASE Divide
  <2>1. I.op \in DivOps
    BY <1>5 DEF Divide
  <2>2. Three => Alu(I.op, regs[I.rs1], regs[I.rs2]) \in Values
    BY <1>0, <2>1, VMWords DEF Three
  <2>3. Stop("ERR_PX64_DIV_BY_ZERO") => TypeOK'
    BY <1>0, StopType DEF Errors
  <2>4. QED
    BY <1>1, <1>2, <1>5, <2>2, <2>3 DEF Divide
<1>6. CASE Assert
  <2>1. Stop("ERR_PX64_ASSERTION_FAILED") => TypeOK'
    BY <1>0, StopType DEF Errors
  <2>2. QED
    BY <1>2, <1>6, <2>1 DEF Assert
<1>7. QED
  BY <1>3, <1>4, <1>5, <1>6

LEMMA SpillType ==
  ASSUME TypeOK, SpillStore \/ SpillLoad
  PROVE  TypeOK'
<1>1. CASE SpillStore
  <2>1. /\ Fetch /\ Continue
        /\ spills' = IF I.rd < NumSpills THEN [spills EXCEPT ![I.rd] = Reg(I.rs1, 0)] ELSE spills
    BY <1>1 DEF SpillStore, Fetched
  <2>2. Reg(I.rs1, 0) \in Values
    BY RegType
  <2>3. spills' \in [0 .. NumSpills - 1 -> Values]
    BY <2>1, <2>2 DEF TypeOK
  <2>4. steps' \in 0 .. MaxSteps /\ code' = code /\ now' \in Nat /\ ip' \in Nat /\ status' = status
    BY <2>1, FetchCounts, ElapseNat DEF Continue, TypeOK
  <2>5. UNCHANGED <<regs, frames, sp, callers, dlSp, timeout, io, lens, bases, slots, inOrder, tables>>
    BY <1>1 DEF SpillStore, stacks, timing, pools
  <2>6. QED
    BY <2>3, <2>4, <2>5 DEF TypeOK
<1>2. CASE SpillLoad
  <2>1. Fetch /\ I.rs1 \in Nat
    BY <1>2, Operands DEF SpillLoad, Fetched, Fetch
  <2>2. (IF I.rs1 < NumSpills THEN spills[I.rs1] ELSE 0) \in Values
    <3>1. CASE I.rs1 < NumSpills
      <4>1. I.rs1 \in 0 .. NumSpills - 1
        BY <2>1, <3>1, VMNumbers
      <4>2. QED
        BY <3>1, <4>1 DEF TypeOK
    <3>2. CASE ~ (I.rs1 < NumSpills)
      BY <3>2, VMWords
    <3>3. QED
      BY <3>1, <3>2
  <2>3. regs' \in [Regs -> Values]
    BY <1>2, <2>2, SetRegType DEF SpillLoad
  <2>4. QED
    BY <1>2, <2>1, <2>3, ContinueType DEF SpillLoad
<1>3. QED
  BY <1>1, <1>2

LEMMA JumpType ==
  ASSUME TypeOK, Jump
  PROVE  TypeOK'
<1>1. I.imm \in Nat /\ Fetch
  BY Operands DEF Jump, Fetch
<1>2. ip' \in Nat /\ regs' \in [Regs -> Values]
  BY <1>1 DEF Jump, TypeOK
<1>3. QED
  BY <1>1, <1>2, RegsType DEF Jump

LEMMA CallType ==
  ASSUME TypeOK, Call
  PROVE  TypeOK'
<1>1. I.imm \in Nat /\ Fetch
  BY Operands DEF Call, Fetched, Fetch
<1>2. CASE Stop("ERR_PX64_STACK_OVERFLOW")
  BY <1>1, <1>2, StopType DEF Errors
<1>3. CASE ~ Stop("ERR_PX64_STACK_OVERFLOW")
  <2>1. /\ ~ CallOverflows
        /\ frames' = [frames EXCEPT ![sp] = [ip |-> ip + 1, regs |-> [r \in Saved |-> regs[r]]]]
        /\ sp' = sp + 1
        /\ callers' = [callers EXCEPT ![sp] = [ip |-> ip, regs |-> regs]]
        /\ ip' = I.imm /\ status' = status /\ Elapse(Durations)
        /\ UNCHANGED <<regs, dlSp, timeout, io, lens, bases, slots, inOrder, tables, spills>>
    BY <1>3 DEF Call, timing, pools
  <2>2. sp' \in 0 .. MaxCallDepth
    BY <2>1, VMNumbers DEF CallOverflows, TypeOK
  <2>3. [r \in Saved |-> regs[r]] \in [Saved -> Values] /\ ip + 1 \in Nat
    BY SavedAreRegs DEF TypeOK
  <2>4. frames' \in [0 .. MaxCallDepth - 1 -> [ip : Nat, regs : [Saved -> Values]]]
    BY <2>1, <2>3 DEF TypeOK
  <2>5. callers' \in [0 .. MaxCallDepth - 1 -> [ip : Nat, regs : [Regs -> Values]]]
    BY <2>1 DEF TypeOK
  <2>6. steps' \in 0 .. MaxSteps /\ code' = code /\ now' \in Nat
    BY <1>1, <2>1, FetchCounts, ElapseNat
  <2>7. QED
    BY <1>1, <2>1, <2>2, <2>4, <2>5, <2>6 DEF TypeOK
<1>4. QED
  BY <1>2, <1>3

LEMMA RetType ==
  ASSUME TypeOK, Ret
  PROVE  TypeOK'
<1>1. Fetch
  BY DEF Ret, Fetched
<1>2. CASE Stop("leaving")
  BY <1>1, <1>2, StopType
<1>3. CASE ~ Stop("leaving")
  <2>1. /\ sp > 0 /\ sp' = sp - 1 /\ ip' = TopFrame.ip /\ status' = status /\ Elapse(Durations)
        /\ regs' = [r \in Regs |-> IF r \in Saved \ {0} THEN TopFrame.regs[r] ELSE regs[r]]
        /\ UNCHANGED <<frames, callers, dlSp, timeout, io, lens, bases, slots, inOrder, tables, spills>>
    BY <1>3 DEF Ret, timing, pools
  <2>2. sp - 1 \in 0 .. MaxCallDepth - 1
    BY <2>1, VMNumbers DEF TypeOK
  <2>3. TopFrame \in [ip : Nat, regs : [Saved -> Values]]
    BY <2>2 DEF TypeOK, TopFrame
  <2>4. regs' \in [Regs -> Values] /\ ip' \in Nat
    BY <2>1, <2>3 DEF TypeOK
  <2>5. steps' \in 0 .. MaxSteps /\ code' = code /\ now' \in Nat /\ sp' \in 0 .. MaxCallDepth
    BY <1>1, <2>1, <2>2, FetchCounts, ElapseNat, VMNumbers
  <2>6. QED
    BY <2>1, <2>4, <2>5 DEF TypeOK
<1>4. QED
  BY <1>2, <1>3

-----------------------------------------------------------------------------
(* Sums of lengths, by induction from the well-foundedness of < *)

Less == {p \in Nat \X Nat : p[1] < p[2]}

LEMMA LessIsWellFounded == IsWellFoundedOn(Less, Nat)
BY NatLessThanWellFounded DEF OpToRel, Less

LEMMA LeastExists ==
  ASSUME NEW S, S \subseteq Nat, S # {}
  PROVE  \E x \in S : \A y \in S : x <= y
<1>1. PICK x \in S : \A y \in S : ~ (<<y, x>> \in Less)
  BY LessIsWellFounded, WFMin
<1>2. ASSUME NEW y \in S
      PROVE  x <= y
  <2>1. x \in Nat /\ y \in Nat /\ ~ (<<y, x>> \in Less)
    BY <1>1
  <2>2. ~ (y < x)
    BY <2>1 DEF Less
  <2>3. QED
    BY <2>1, <2>2
<1>3. QED
  BY <1>2

\* Induction: a set with 0 that is closed under successor holds every number.
LEMMA Induction ==
  ASSUME NEW S, 0 \in S, \A k \in Nat : k \in S => k + 1 \in S
  PROVE  Nat \subseteq S
<1> SUFFICES ASSUME Nat \ S # {} PROVE FALSE
  OBVIOUS
<1> DEFINE T == Nat \ S
<1>1. T \subseteq Nat /\ T # {}
  OBVIOUS
<1>2. PICK x \in T : \A y \in T : x <= y
  <2> HIDE DEF T
  <2>1. QED
    BY <1>1, LeastExists
<1>3. x \in Nat /\ x # 0 /\ x \notin S
  OBVIOUS
<1>4. x - 1 \in Nat /\ ~ (x <= x - 1) /\ (x - 1) + 1 = x
  BY <1>3
<1>5. x - 1 \in S
  BY <1>2, <1>4
<1>6. QED
  BY <1>3, <1>4, <1>5

\* The sums of the lengths f of the lower ids
SumsOf(f) ==
  LET sum[n \in 0 .. NumIds] == IF n = 0 THEN 0 ELSE sum[n - 1] + f[n - 1]
  IN  sum

LEMMA SumsByLens == \A k : Sums(k) = SumsOf(lens[k])
BY DEF Sums, SumsOf

\* t holds the sums up to m.
Summing(f, t, m) == t[0] = 0 /\ \A n \in 1 .. m : t[n] = t[n - 1] + f[n - 1]

LEMMA SumExists ==
  ASSUME NEW f \in [Ids -> Nat]
  PROVE  \E t \in [0 .. NumIds -> Nat] : Summing(f, t, NumIds)
<1> DEFINE S == {m \in Nat : m <= NumIds => \E t \in [0 .. m -> Nat] : Summing(f, t, m)}
<1>0. NumIds \in Nat
  BY VMNumbers
<1>1. 0 \in S
  <2>1. [n \in 0 .. 0 |-> 0] \in [0 .. 0 -> Nat] /\ Summing(f, [n \in 0 .. 0 |-> 0], 0)
    BY DEF Summing
  <2>2. QED
    BY <2>1
<1>2. ASSUME NEW m \in Nat, m \in S PROVE m + 1 \in S
  <2> SUFFICES ASSUME m + 1 <= NumIds PROVE \E t \in [0 .. m + 1 -> Nat] : Summing(f, t, m + 1)
    OBVIOUS
  <2>1. m <= NumIds /\ m \in Ids
    BY <1>0 DEF Ids
  <2>2. PICK t \in [0 .. m -> Nat] : Summing(f, t, m)
    BY <1>2, <2>1
  <2>3. t[m] \in Nat /\ f[m] \in Nat
    BY <2>1
  <2> DEFINE h == [n \in 0 .. m + 1 |-> IF n = m + 1 THEN t[m] + f[m] ELSE t[n]]
  <2>4. h \in [0 .. m + 1 -> Nat]
    BY <2>3
  <2>5. h[0] = 0
    BY <2>2 DEF Summing
  <2>6. ASSUME NEW n \in 1 .. m + 1 PROVE h[n] = h[n - 1] + f[n - 1]
    <3>1. CASE n = m + 1
      BY <3>1
    <3>2. CASE n # m + 1
      <4>1. n \in 1 .. m /\ n - 1 # m + 1 /\ n \in 0 .. m + 1 /\ n - 1 \in 0 .. m + 1
        BY <3>2
      <4>2. h[n] = t[n] /\ h[n - 1] = t[n - 1]
        BY <3>2, <4>1
      <4>3. QED
        BY <2>2, <4>1, <4>2 DEF Summing
    <3>3. QED
      BY <3>1, <3>2
  <2> HIDE DEF h
  <2>7. QED
    BY <2>4, <2>5, <2>6 DEF Summing
<1>3. Nat \subseteq S
  <2> HIDE DEF S
  <2>1. QED
    BY <1>1, <1>2, Induction
<1>4. QED
  BY <1>0, <1>3

LEMMA SumsUnfold ==
  ASSUME NEW f \in [Ids -> Nat]
  PROVE  /\ SumsOf(f) \in [0 .. NumIds -> Nat] /\ SumsOf(f)[0] = 0
         /\ \A n \in Ids : SumsOf(f)[n + 1] = SumsOf(f)[n] + f[n]
<1> DEFINE IsSum(s) == s = [n \in 0 .. NumIds |-> IF n = 0 THEN 0 ELSE s[n - 1] + f[n - 1]]
           w == CHOOSE s : IsSum(s)
           S == {n \in Nat : n <= NumIds => w[n] \in Nat}
<1>0. NumIds \in Nat
  BY VMNumbers
<1>1. PICK t \in [0 .. NumIds -> Nat] : Summing(f, t, NumIds)
  BY SumExists
<1>2. IsSum(t)
  <2>1. ASSUME NEW n \in 0 .. NumIds PROVE t[n] = IF n = 0 THEN 0 ELSE t[n - 1] + f[n - 1]
    <3>1. CASE n = 0
      BY <1>1, <3>1 DEF Summing
    <3>2. CASE n # 0
      <4>1. n \in 1 .. NumIds
        BY <3>2
      <4>2. QED
        BY <1>1, <3>2, <4>1 DEF Summing
    <3>3. QED
      BY <3>1, <3>2
  <2>2. QED
    BY <2>1
<1>3. IsSum(w)
  <2> HIDE DEF IsSum
  <2>1. QED
    BY <1>2
<1>4. SumsOf(f) = w
  BY DEF SumsOf
<1> HIDE DEF w
<1>5. w[0] = 0
  BY <1>0, <1>3
<1>6. ASSUME NEW n \in Ids PROVE w[n + 1] = w[n] + f[n]
  <2>1. n + 1 \in 0 .. NumIds /\ n + 1 # 0 /\ (n + 1) - 1 = n
    BY <1>0 DEF Ids
  <2>2. w[n + 1] = IF n + 1 = 0 THEN 0 ELSE w[(n + 1) - 1] + f[(n + 1) - 1]
    BY <1>3, <2>1
  <2>3. QED
    BY <2>1, <2>2
<1>7. 0 \in S
  BY <1>5
<1>8. ASSUME NEW n \in Nat, n \in S PROVE n + 1 \in S
  <2> SUFFICES ASSUME n + 1 <= NumIds PROVE w[n + 1] \in Nat
    OBVIOUS
  <2>1. n <= NumIds /\ n \in Ids
    BY <1>0 DEF Ids
  <2>2. w[n] \in Nat /\ f[n] \in Nat
    BY <1>8, <2>1
  <2>3. QED
    BY <1>6, <2>1, <2>2
<1>9. Nat \subseteq S
  <2> HIDE DEF S
  <2>1. QED
    BY <1>7, <1>8, Induction
<1>10. \A n \in 0 .. NumIds : w[n] \in Nat
  <2>1. \A n \in 0 .. NumIds : n \in Nat /\ n <= NumIds
    BY <1>0
  <2>2. QED
    BY <1>9, <2>1
<1>11. DOMAIN w = 0 .. NumIds /\ w = [n \in 0 .. NumIds |-> w[n]]
  BY <1>3
<1>12. QED
  BY <1>4, <1>5, <1>6, <1>10, <1>11

LEMMA SumsMonotone ==
  ASSUME NEW f \in [Ids -> Nat], NEW m \in 0 .. NumIds, NEW n \in 0 .. NumIds, m <= n
  PROVE  SumsOf(f)[m] <= SumsOf(f)[n]
<1> DEFINE S == {d \in Nat : m + d <= NumIds => SumsOf(f)[m] <= SumsOf(f)[m + d]}
<1>0. /\ NumIds \in Nat /\ SumsOf(f) \in [0 .. NumIds -> Nat]
      /\ \A j \in Ids : SumsOf(f)[j + 1] = SumsOf(f)[j] + f[j]
  BY VMNumbers, SumsUnfold
<1>1. 0 \in S
  <2>1. m + 0 = m /\ SumsOf(f)[m] \in Nat
    BY <1>0
  <2>2. QED
    BY <2>1
<1>2. ASSUME NEW d \in Nat, d \in S PROVE d + 1 \in S
  <2> SUFFICES ASSUME m + (d + 1) <= NumIds PROVE SumsOf(f)[m] <= SumsOf(f)[m + (d + 1)]
    OBVIOUS
  <2>1. m + d <= NumIds /\ m + d \in Ids /\ m + (d + 1) = (m + d) + 1 /\ m + d \in 0 .. NumIds
    BY <1>0 DEF Ids
  <2>2. SumsOf(f)[m] <= SumsOf(f)[m + d]
    BY <1>2, <2>1
  <2>3. SumsOf(f)[m + (d + 1)] = SumsOf(f)[m + d] + f[m + d] /\ f[m + d] \in Nat
    BY <1>0, <2>1
  <2>4. SumsOf(f)[m] \in Nat /\ SumsOf(f)[m + d] \in Nat
    BY <1>0, <2>1
  <2>5. QED
    BY <2>2, <2>3, <2>4
<1>3. Nat \subseteq S
  <2> HIDE DEF S
  <2>1. QED
    BY <1>1, <1>2, Induction
<1>4. n - m \in Nat /\ m + (n - m) = n /\ n <= NumIds
  BY <1>0
<1>5. n - m \in S
  BY <1>3, <1>4
<1>6. QED
  BY <1>4, <1>5

\* The sums up to m depend only on the lengths below m.
LEMMA SumsPrefix ==
  ASSUME NEW f \in [Ids -> Nat], NEW g \in [Ids -> Nat], NEW m \in 0 .. NumIds,
         \A j \in Ids : j < m => f[j] = g[j], NEW n \in 0 .. m
  PROVE  SumsOf(f)[n] = SumsOf(g)[n]
<1> DEFINE S == {d \in Nat : d <= m => SumsOf(f)[d] = SumsOf(g)[d]}
<1>0. /\ NumIds \in Nat /\ SumsOf(f)[0] = 0 /\ SumsOf(g)[0] = 0
      /\ \A j \in Ids : SumsOf(f)[j + 1] = SumsOf(f)[j] + f[j]
      /\ \A j \in Ids : SumsOf(g)[j + 1] = SumsOf(g)[j] + g[j]
  BY VMNumbers, SumsUnfold
<1>1. 0 \in S
  BY <1>0
<1>2. ASSUME NEW d \in Nat, d \in S PROVE d + 1 \in S
  <2> SUFFICES ASSUME d + 1 <= m PROVE SumsOf(f)[d + 1] = SumsOf(g)[d + 1]
    OBVIOUS
  <2>1. d \in Ids /\ d < m /\ d <= m
    BY <1>0 DEF Ids
  <2>2. SumsOf(f)[d] = SumsOf(g)[d] /\ f[d] = g[d]
    BY <1>2, <2>1
  <2>3. QED
    BY <1>0, <2>1, <2>2
<1>3. Nat \subseteq S
  <2> HIDE DEF S
  <2>1. QED
    BY <1>1, <1>2, Induction
<1>4. n \in S /\ n <= m
  BY <1>3
<1>5. QED
  BY <1>4

-----------------------------------------------------------------------------
(* Type correctness of the instructions on memory, and of natives *)

LEMMA LensOf ==
  ASSUME TypeOK, NEW k \in Kinds
  PROVE  lens[k] \in [Ids -> Nat] /\ bases[k] \in [Ids -> 0 .. BaseWord - 1]
         /\ slots[k] \in [0 .. PoolSize - 1 -> Values]
BY DEF TypeOK

LEMMA BaseNat ==
  ASSUME TypeOK, NEW k \in Kinds, NEW id \in Ids
  PROVE  Base(k, id) \in Nat
<1>1. SumsOf(lens[k]) \in [0 .. NumIds -> Nat]
  BY LensOf, SumsUnfold
<1>2. id \in 0 .. NumIds
  BY VMNumbers DEF Ids
<1>3. QED
  BY <1>1, <1>2, SumsByLens DEF Base

LEMMA DefineType ==
  ASSUME TypeOK, NEW k \in Kinds, Define(k)
  PROVE  TypeOK'
<1>1. Fetch /\ Continue /\ UNCHANGED <<regs, frames, sp, callers, dlSp, timeout, io, tables, spills>>
  BY DEF Define, Fetched, stacks, timing
<1>2. steps' \in 0 .. MaxSteps /\ code' = code /\ now' \in Nat /\ ip' \in Nat /\ status' = status
  BY <1>1, FetchCounts, ElapseNat DEF Continue, TypeOK
<1>3. PICK n \in Nat : n = Declared(k)
  BY <1>1, Operands DEF Fetch, Declared
<1>4. CASE I.rd \notin Ids
  <2>1. UNCHANGED <<lens, bases, slots, inOrder>>
    BY <1>4 DEF Define, pools
  <2>2. QED
    BY <1>1, <1>2, <2>1 DEF TypeOK
<1>5. CASE I.rd \in Ids
  <2>1. PICK id \in Ids : id = I.rd
    BY <1>5
  <2>2. PICK b : b = Base(k, id)
    OBVIOUS
  <2>3. /\ lens' = [lens EXCEPT ![k][id] = n]
        /\ bases' = [bases EXCEPT ![k][id] = b % BaseWord]
        /\ slots' = IF k = "array" /\ b + n <= PoolSize
                      THEN [slots EXCEPT ![k] = [s \in DOMAIN @ |->
                              IF s \in b .. b + n - 1 THEN 0 ELSE @[s]]]
                      ELSE slots
        /\ inOrder' = [inOrder EXCEPT ![k] = @ /\ \A j \in Ids : j >= id => lens[k][j] = 0]
    BY <1>3, <1>5, <2>1, <2>2 DEF Define
  <2>4. b \in Nat
    BY <2>2, BaseNat
  <2>5. b % BaseWord \in 0 .. BaseWord - 1
    BY <2>4, VMNumbers
  <2>6. lens' \in [Kinds -> [Ids -> Nat]]
    BY <1>3, <2>3 DEF TypeOK
  <2>7. bases' \in [Kinds -> [Ids -> 0 .. BaseWord - 1]]
    BY <2>3, <2>5 DEF TypeOK
  <2>8. slots' \in [Kinds -> [0 .. PoolSize - 1 -> Values]]
    <3>1. [s \in DOMAIN slots[k] |-> IF s \in b .. b + n - 1 THEN 0 ELSE slots[k][s]]
            \in [0 .. PoolSize - 1 -> Values]
      BY LensOf, VMWords
    <3>2. QED
      BY <2>3, <3>1 DEF TypeOK
  <2>9. inOrder' \in [Kinds -> BOOLEAN]
    <3>1. PICK o \in BOOLEAN : o = (inOrder[k] /\ \A j \in Ids : j >= id => lens[k][j] = 0)
      BY DEF TypeOK
    <3>2. inOrder' = [inOrder EXCEPT ![k] = o]
      BY <2>3, <3>1
    <3>3. QED
      BY <3>2 DEF TypeOK
  <2>10. QED
    BY <1>1, <1>2, <2>6, <2>7, <2>8, <2>9 DEF TypeOK
<1>6. QED
  BY <1>4, <1>5

\* An access that passes the index test and is below the end of the pool hits a slot.
LEMMA SlotInPool ==
  ASSUME TypeOK, NEW k \in Kinds, NEW id, NEW idx \in Int, ~ BadAccess(k, id, idx),
         ~ (Slot(k, id, idx) >= PoolSize)
  PROVE  Slot(k, id, idx) \in 0 .. PoolSize - 1
<1>1. id \in Ids /\ idx >= 0
  BY DEF BadAccess
<1>2. bases[k][id] \in 0 .. BaseWord - 1
  BY <1>1, LensOf
<1>3. QED
  BY <1>1, <1>2, VMNumbers DEF Slot

LEMMA IndexInt ==
  ASSUME TypeOK, NEW k, NEW r \in Nat
  PROVE  Index(k, r) \in Int
BY RegType DEF Index

LEMMA PoolLoadType ==
  ASSUME TypeOK, NEW k \in Kinds, PoolLoad(k)
  PROVE  TypeOK'
<1>0. Fetch
  BY DEF PoolLoad, Fetched
<1>1. I.rs2 \in Nat
  BY <1>0, Operands DEF Fetch
<1>2. PICK idx \in Int : idx = Index(k, I.rs2)
  BY <1>1, IndexInt
<1>3. \/ Stop("ERR_PX64_OUT_OF_BOUNDS") \/ Stop(PoolPanic(k))
      \/ UNCHANGED regs /\ Continue /\ OnlyRegs
      \/ /\ ~ BadAccess(k, I.rs1, idx) /\ ~ (Slot(k, I.rs1, idx) >= PoolSize)
         /\ SetReg(I.rd, slots[k][Slot(k, I.rs1, idx)]) /\ Continue /\ OnlyRegs
  BY <1>2 DEF PoolLoad
<1>4. CASE Stop("ERR_PX64_OUT_OF_BOUNDS")
  BY <1>0, <1>4, StopType DEF Errors
<1>5. CASE Stop(PoolPanic(k))
  BY <1>0, <1>5, StopType DEF Panics, PoolPanic
<1>6. CASE UNCHANGED regs /\ Continue /\ OnlyRegs
  BY <1>0, <1>6, ContinueType DEF TypeOK
<1>7. CASE /\ ~ BadAccess(k, I.rs1, idx) /\ ~ (Slot(k, I.rs1, idx) >= PoolSize)
           /\ SetReg(I.rd, slots[k][Slot(k, I.rs1, idx)]) /\ Continue /\ OnlyRegs
  <2>1. Slot(k, I.rs1, idx) \in 0 .. PoolSize - 1
    BY <1>7, SlotInPool
  <2>2. slots[k][Slot(k, I.rs1, idx)] \in Values
    BY <2>1, LensOf
  <2>3. regs' \in [Regs -> Values]
    BY <1>7, <2>2, SetRegType
  <2>4. QED
    BY <1>0, <1>7, <2>3, ContinueType
<1>8. QED
  BY <1>3, <1>4, <1>5, <1>6, <1>7

LEMMA PoolStoreType ==
  ASSUME TypeOK, NEW k \in Kinds, PoolStore(k)
  PROVE  TypeOK'
<1>0. Fetch
  BY DEF PoolStore, Fetched
<1>1. PICK s : s = Slot(k, I.rd, Index(k, I.rs1))
  OBVIOUS
<1>2. \/ Stop("ERR_PX64_OUT_OF_BOUNDS") \/ Stop(PoolPanic(k))
      \/ /\ slots' = [slots EXCEPT ![k][s] = Reg(I.rs2, 0)] /\ Continue
         /\ UNCHANGED <<regs, stacks, timing, lens, bases, inOrder, tables, spills>>
  BY <1>1 DEF PoolStore
<1>3. CASE Stop("ERR_PX64_OUT_OF_BOUNDS")
  BY <1>0, <1>3, StopType DEF Errors
<1>4. CASE Stop(PoolPanic(k))
  BY <1>0, <1>4, StopType DEF Panics, PoolPanic
<1>5. CASE /\ slots' = [slots EXCEPT ![k][s] = Reg(I.rs2, 0)] /\ Continue
           /\ UNCHANGED <<regs, stacks, timing, lens, bases, inOrder, tables, spills>>
  <2>1. Reg(I.rs2, 0) \in Values
    BY RegType
  <2>2. slots' \in [Kinds -> [0 .. PoolSize - 1 -> Values]]
    BY <1>5, <2>1 DEF TypeOK
  <2>3. steps' \in 0 .. MaxSteps /\ code' = code /\ now' \in Nat /\ ip' \in Nat /\ status' = status
    BY <1>0, <1>5, FetchCounts, ElapseNat DEF Continue, TypeOK
  <2>4. UNCHANGED <<regs, frames, sp, callers, dlSp, timeout, io, lens, bases, inOrder, tables, spills>>
    BY <1>5 DEF stacks, timing
  <2>5. QED
    BY <2>2, <2>3, <2>4 DEF TypeOK
<1>6. QED
  BY <1>2, <1>3, <1>4, <1>5

LEMMA TableType ==
  ASSUME TypeOK, TableDef \/ TableLoad
  PROVE  TypeOK'
<1>0. Fetch /\ I.rs1 \in Nat /\ I.rs2 \in Nat /\ I.rd \in Nat
  <2>1. Fetch
    BY DEF TableDef, TableLoad, Fetched
  <2>2. QED
    BY <2>1, Operands DEF Fetch
<1>1. CASE TableDef
  <2>1. tables' \in [Ids -> [base : Nat, len : Nat]]
    BY <1>0, <1>1 DEF TableDef, TypeOK
  <2>2. Continue
    BY <1>1 DEF TableDef
  <2>3. steps' \in 0 .. MaxSteps /\ code' = code /\ now' \in Nat /\ ip' \in Nat /\ status' = status
    BY <1>0, <2>2, FetchCounts, ElapseNat DEF Continue, TypeOK
  <2>4. UNCHANGED <<regs, frames, sp, callers, dlSp, timeout, io, lens, bases, slots, inOrder, spills>>
    BY <1>1 DEF TableDef, stacks, timing, pools
  <2>5. QED
    BY <2>1, <2>3, <2>4 DEF TypeOK
<1>2. CASE TableLoad
  <2>1. PICK idx \in Int : idx = Reg(I.rs2, -1)
    BY RegType
  <2>2. PICK at : at = tables[I.rs1].base + idx
    OBVIOUS
  <2>3. \/ Stop("ERR_PX64_OUT_OF_BOUNDS") \/ Stop("panic_table")
        \/ /\ I.rs1 \in Ids /\ ~ (idx < 0) /\ at < Len(ConstPool)
           /\ SetReg(I.rd, ConstPool[at + 1]) /\ Continue /\ OnlyRegs
    BY <1>2, <2>1, <2>2 DEF TableLoad
  <2>4. CASE Stop("ERR_PX64_OUT_OF_BOUNDS")
    BY <1>0, <2>4, StopType DEF Errors
  <2>5. CASE Stop("panic_table")
    BY <1>0, <2>5, StopType DEF Panics
  <2>6. CASE /\ I.rs1 \in Ids /\ ~ (idx < 0) /\ at < Len(ConstPool)
             /\ SetReg(I.rd, ConstPool[at + 1]) /\ Continue /\ OnlyRegs
    <3>1. tables[I.rs1].base \in Nat
      BY <2>6 DEF TypeOK
    <3>2. at + 1 \in 1 .. Len(ConstPool)
      BY <2>1, <2>2, <2>6, <3>1, ConstWords
    <3>3. ConstPool[at + 1] \in Values
      BY <3>2, ConstWords
    <3>4. regs' \in [Regs -> Values]
      BY <2>6, <3>3, SetRegType
    <3>5. QED
      BY <1>0, <2>6, <3>4, ContinueType
  <2>7. QED
    BY <2>3, <2>4, <2>5, <2>6
<1>3. QED
  BY <1>1, <1>2

LEMMA WithinType ==
  ASSUME TypeOK, WithinStart \/ WithinEnd
  PROVE  TypeOK'
<1>1. Fetch /\ Continue
  BY DEF WithinStart, WithinEnd, Fetched
<1>2. dlSp' \in 0 .. MaxDeadlines
  BY VMNumbers DEF WithinStart, WithinEnd, TypeOK
<1>3. steps' \in 0 .. MaxSteps /\ code' = code /\ now' \in Nat /\ ip' \in Nat /\ status' = status
  BY <1>1, FetchCounts, ElapseNat DEF Continue, TypeOK
<1>4. UNCHANGED <<regs, frames, sp, callers, timeout, io, lens, bases, slots, inOrder, tables, spills>>
  BY DEF WithinStart, WithinEnd, stacks, pools
<1>5. QED
  BY <1>2, <1>3, <1>4 DEF TypeOK

LEMMA NativeType ==
  ASSUME TypeOK, CallNative
  PROVE  TypeOK'
<1>0. Fetch
  BY DEF CallNative, Fetched
<1>1. PICK fails : fails = NativeFails(I.nat, Reg(I.rs2, 0))
  OBVIOUS
<1>2. CASE fails # "no"
  <2>1. fails \in {"leaving"} \cup Errors \cup Panics
    BY <1>1, <1>2 DEF NativeFails, Errors, Panics
  <2>2. Stop(fails)
    BY <1>1, <1>2 DEF CallNative
  <2>3. QED
    BY <1>0, <2>1, <2>2, StopType
<1>3. CASE fails = "no"
  <2>1. PICK d \in NativeTime(I.nat, Reg(I.rs2, 0)) :
          /\ now' = now + d
          /\ timeout' = IF IsBlockingIo(I.nat) THEN timeout + d ELSE timeout
          /\ io' = IF I.nat \in IoNatives THEN io + d ELSE io
    BY <1>1, <1>3 DEF CallNative
  <2>2. PICK v \in Values : SetReg(I.rd, v)
    BY <1>1, <1>3 DEF CallNative
  <2>3. d \in Nat
    BY VMWords DEF NativeTime
  <2>4. now' \in Nat /\ timeout' \in Nat /\ io' \in Nat
    BY <2>1, <2>3 DEF TypeOK
  <2>5. regs' \in [Regs -> Values]
    BY <2>2, SetRegType
  <2>6. /\ ip' = ip + 1 /\ status' = status
        /\ UNCHANGED <<frames, sp, callers, dlSp, lens, bases, slots, inOrder, tables, spills>>
    BY <1>1, <1>3 DEF CallNative, stacks, pools
  <2>7. steps' \in 0 .. MaxSteps /\ code' = code /\ ip' \in Nat
    BY <1>0, <2>6, FetchCounts DEF TypeOK
  <2>8. QED
    BY <2>4, <2>5, <2>6, <2>7 DEF TypeOK
<1>4. QED
  BY <1>2, <1>3

LEMMA EndType ==
  ASSUME TypeOK, Watchdog \/ Finish \/ UNCHANGED vars
  PROVE  TypeOK'
<1>1. UNCHANGED <<code, ip, regs, steps, frames, sp, callers, dlSp, timeout, io, lens, bases, slots,
                  inOrder, tables, spills, now>>
  BY DEF Watchdog, Finish, vars, stacks, timing, pools
<1>2. status' \in {"running", "leaving", "ok"} \cup Errors \cup Panics
  BY DEF Watchdog, Finish, Result, vars, Errors, TypeOK
<1>3. QED
  BY <1>1, <1>2 DEF TypeOK

LEMMA NextTypeOK == TypeOK /\ [Next]_vars => TypeOK'
BY SimpleType, ArithmeticType, SpillType, JumpType, CallType, RetType, DefineType, PoolLoadType,
   PoolStoreType, TableType, WithinType, NativeType, EndType DEF Next

\* For every binary whose operands are what the encoding allows: the stacks, the
\* step counter, the spill slots, the pools and the register file are never left
\* except through a panic of Rust's own check, and registers hold words.
THEOREM MachineTypeCorrect == Spec => []TypeOK
BY InitType, NextTypeOK, PTL DEF Spec

-----------------------------------------------------------------------------
(* Arrays and structs in their pools *)

\* Everything defined so far was defined in the order of ids, and what has a
\* length begins where those below it end, as a u16.
PoolInv ==
  \A k \in Kinds : inOrder[k] =>
    \A i \in Ids : lens[k][i] > 0 => bases[k][i] = SumsOf(lens[k])[i] % BaseWord

\* The pool of arrays (structs) was defined out of order, or outgrown.
Outgrown(k) == ~ inOrder[k] \/ SumsOf(lens[k])[NumIds] > PoolSize

PoolPanicked == status \in {"panic_array", "panic_struct"}

LEMMA TotalByLens ==
  ASSUME NEW k \in Kinds
  PROVE  Total(k) = SumsOf(lens[k])[NumIds]
BY SumsByLens DEF Total

LEMMA SmallMod ==
  ASSUME NEW b \in Nat, NEW w \in Nat \ {0}, b < w
  PROVE  b % w = b
OBVIOUS

\* In a pool that was neither, what has a length lies where the sums say.
LEMMA ExactBase ==
  ASSUME TypeOK, PoolInv, NEW k \in Kinds, inOrder[k], SumsOf(lens[k])[NumIds] <= PoolSize,
         NEW i \in Ids, lens[k][i] > 0
  PROVE  /\ bases[k][i] = SumsOf(lens[k])[i]
         /\ SumsOf(lens[k])[i] \in Nat
         /\ SumsOf(lens[k])[i] + lens[k][i] = SumsOf(lens[k])[i + 1]
         /\ SumsOf(lens[k])[i + 1] <= PoolSize
<1>1. lens[k] \in [Ids -> Nat]
  BY LensOf
<1>2. i \in 0 .. NumIds /\ i + 1 \in 0 .. NumIds /\ NumIds \in 0 .. NumIds /\ i + 1 <= NumIds
  BY VMNumbers DEF Ids
<1>3. /\ SumsOf(lens[k])[i] \in Nat /\ SumsOf(lens[k])[i + 1] \in Nat
      /\ SumsOf(lens[k])[NumIds] \in Nat
      /\ SumsOf(lens[k])[i + 1] = SumsOf(lens[k])[i] + lens[k][i]
  BY <1>1, <1>2, SumsUnfold
<1>4. SumsOf(lens[k])[i + 1] <= SumsOf(lens[k])[NumIds]
  BY <1>1, <1>2, SumsMonotone
<1>5. lens[k][i] \in Nat
  BY <1>1
<1>6. SumsOf(lens[k])[i] < BaseWord
  BY <1>3, <1>4, <1>5, VMNumbers
<1>7. SumsOf(lens[k])[i] % BaseWord = SumsOf(lens[k])[i]
  BY <1>3, <1>6, VMNumbers, SmallMod
<1>8. bases[k][i] = SumsOf(lens[k])[i] % BaseWord
  BY DEF PoolInv
<1>9. QED
  BY <1>3, <1>4, <1>7, <1>8, VMNumbers

LEMMA DefineKeepsPools ==
  ASSUME TypeOK, PoolInv, NEW k \in Kinds, Define(k)
  PROVE  PoolInv' /\ ~ PoolPanicked'
<1>0. ~ PoolPanicked'
  BY DEF Define, Fetched, Fetch, Continue, PoolPanicked, PoolPanic
<1>1. CASE I.rd \notin Ids
  <2>1. UNCHANGED <<lens, bases, inOrder>>
    BY <1>1 DEF Define, pools
  <2>2. QED
    BY <1>0, <2>1 DEF PoolInv
<1>2. CASE I.rd \in Ids
  <2>1. PICK id \in Ids : id = I.rd
    BY <1>2
  <2>2. PICK n : n = Declared(k)
    OBVIOUS
  <2>3. PICK b : b = SumsOf(lens[k])[id]
    OBVIOUS
  <2>4. /\ lens' = [lens EXCEPT ![k][id] = n]
        /\ bases' = [bases EXCEPT ![k][id] = b % BaseWord]
        /\ inOrder' = [inOrder EXCEPT ![k] = @ /\ \A j \in Ids : j >= id => lens[k][j] = 0]
    BY <1>2, <2>1, <2>2, <2>3, SumsByLens DEF Define, Base
  <2>5. n \in Nat
    <3>1. Fetch
      BY DEF Define, Fetched
    <3>2. QED
      BY <2>2, <3>1, Operands DEF Fetch, Declared
  <2>6. ASSUME NEW m \in Kinds, inOrder'[m], NEW i \in Ids, lens'[m][i] > 0
        PROVE  bases'[m][i] = SumsOf(lens'[m])[i] % BaseWord
    <3>1. CASE m # k
      <4>1. lens'[m] = lens[m] /\ bases'[m] = bases[m] /\ inOrder'[m] = inOrder[m]
        BY <2>4, <3>1 DEF TypeOK
      <4>2. QED
        BY <2>6, <4>1 DEF PoolInv
    <3>2. CASE m = k
      <4>1. inOrder[k] /\ \A j \in Ids : j >= id => lens[k][j] = 0
        BY <2>4, <2>6, <3>2 DEF TypeOK
      <4>2. /\ lens'[k] = [lens[k] EXCEPT ![id] = n]
            /\ bases'[k] = [bases[k] EXCEPT ![id] = b % BaseWord]
        BY <2>4 DEF TypeOK
      <4>3. lens[k] \in [Ids -> Nat] /\ lens'[k] \in [Ids -> Nat] /\ bases[k] \in [Ids -> 0 .. BaseWord - 1]
        BY <2>5, <4>2, LensOf
      <4>4. i <= id
        <5>1. CASE i > id
          <6>1. lens'[k][i] = lens[k][i] /\ i >= id
            BY <4>2, <4>3, <5>1 DEF Ids
          <6>2. lens[k][i] = 0
            BY <4>1, <6>1
          <6>3. QED
            BY <2>6, <3>2, <6>1, <6>2
        <5>2. i \in Int /\ id \in Int
          BY DEF Ids
        <5>3. QED
          BY <5>1, <5>2
      <4>5. SumsOf(lens'[k])[i] = SumsOf(lens[k])[i]
        <5>1. id \in 0 .. NumIds /\ i \in 0 .. id
          BY <4>4, VMNumbers DEF Ids
        <5>2. \A j \in Ids : j < id => lens'[k][j] = lens[k][j]
          BY <4>2, <4>3 DEF Ids
        <5>3. QED
          BY <4>3, <5>1, <5>2, SumsPrefix
      <4>6. CASE i = id
        BY <2>3, <3>2, <4>2, <4>3, <4>5, <4>6
      <4>7. CASE i # id
        <5>1. lens'[k][i] = lens[k][i] /\ bases'[k][i] = bases[k][i]
          BY <4>2, <4>3, <4>7
        <5>2. QED
          BY <2>6, <3>2, <4>1, <4>5, <5>1 DEF PoolInv
      <4>8. QED
        BY <4>6, <4>7
    <3>3. QED
      BY <3>1, <3>2
  <2>7. Kinds' = Kinds /\ Ids' = Ids
    BY DEF Kinds, Ids
  <2>8. QED
    BY <1>0, <2>6, <2>7 DEF PoolInv
<1>3. QED
  BY <1>1, <1>2

\* An access past the index test leaves the pool only if it is outgrown.
LEMMA InPoolUnlessOutgrown ==
  ASSUME TypeOK, PoolInv, NEW k \in Kinds, NEW id, NEW idx \in Int,
         ~ BadAccess(k, id, idx), Slot(k, id, idx) >= PoolSize
  PROVE  Outgrown(k)
<1> SUFFICES ASSUME ~ Outgrown(k) PROVE FALSE
  OBVIOUS
<1>1. id \in Ids /\ idx >= 0 /\ ~ (idx >= lens[k][id])
  BY DEF BadAccess
<1>2. lens[k][id] \in Nat /\ SumsOf(lens[k])[NumIds] \in Nat
  <2>1. lens[k] \in [Ids -> Nat] /\ NumIds \in 0 .. NumIds
    BY LensOf, VMNumbers
  <2>2. QED
    BY <1>1, <2>1, SumsUnfold
<1>3. inOrder[k] /\ SumsOf(lens[k])[NumIds] <= PoolSize
  BY <1>2, VMNumbers DEF Outgrown
<1>4. lens[k][id] > 0
  BY <1>1, <1>2
<1>5. /\ bases[k][id] = SumsOf(lens[k])[id] /\ SumsOf(lens[k])[id] \in Nat
      /\ SumsOf(lens[k])[id] + lens[k][id] <= PoolSize
  BY <1>1, <1>3, <1>4, ExactBase
<1>6. QED
  BY <1>1, <1>2, <1>5, VMNumbers DEF Slot

LEMMA AccessKeepsPools ==
  ASSUME TypeOK, PoolInv, NEW k \in Kinds, PoolLoad(k) \/ PoolStore(k)
  PROVE  UNCHANGED <<lens, bases, inOrder>> /\ \A m \in Kinds : status' = PoolPanic(m) => Outgrown(m)
<1>0. Fetch
  BY DEF PoolLoad, PoolStore, Fetched
<1>1. status = "running" /\ I.rs1 \in Nat /\ I.rs2 \in Nat
  BY <1>0, Operands DEF Fetch
<1>2. Index(k, I.rs1) \in Int /\ Index(k, I.rs2) \in Int
  BY <1>1, IndexInt
<1>3. CASE PoolLoad(k)
  <2>1. PICK idx \in Int : idx = Index(k, I.rs2)
    BY <1>2
  <2>2. \/ Stop("ERR_PX64_OUT_OF_BOUNDS")
        \/ ~ BadAccess(k, I.rs1, idx) /\ Slot(k, I.rs1, idx) >= PoolSize /\ Stop(PoolPanic(k))
        \/ Continue /\ OnlyRegs
    BY <1>3, <2>1 DEF PoolLoad
  <2>3. UNCHANGED <<lens, bases, inOrder>>
    BY <2>2 DEF Stop, OnlyRegs, pools
  <2>4. status' = PoolPanic(k) => Outgrown(k)
    BY <1>1, <2>2, InPoolUnlessOutgrown DEF Stop, Continue, PoolPanic
  <2>5. \A m \in Kinds \ {k} : status' # PoolPanic(m)
    BY <1>1, <2>2 DEF Stop, Continue, PoolPanic, Kinds
  <2>6. QED
    BY <2>3, <2>4, <2>5
<1>4. CASE PoolStore(k)
  <2>1. PICK idx \in Int : idx = Index(k, I.rs1)
    BY <1>2
  <2>2. \/ Stop("ERR_PX64_OUT_OF_BOUNDS")
        \/ ~ BadAccess(k, I.rd, idx) /\ Slot(k, I.rd, idx) >= PoolSize /\ Stop(PoolPanic(k))
        \/ Continue /\ UNCHANGED <<lens, bases, inOrder>>
    BY <1>4, <2>1 DEF PoolStore
  <2>3. UNCHANGED <<lens, bases, inOrder>>
    BY <2>2 DEF Stop, pools
  <2>4. status' = PoolPanic(k) => Outgrown(k)
    BY <1>1, <2>2, InPoolUnlessOutgrown DEF Stop, Continue, PoolPanic
  <2>5. \A m \in Kinds \ {k} : status' # PoolPanic(m)
    BY <1>1, <2>2 DEF Stop, Continue, PoolPanic, Kinds
  <2>6. QED
    BY <2>3, <2>4, <2>5
<1>5. QED
  BY <1>3, <1>4

\* The instructions that touch a pool
PoolStep == \E k \in Kinds : Define(k) \/ PoolLoad(k) \/ PoolStore(k)

LEMMA OtherKeepPools ==
  ASSUME TypeOK, Next, ~ PoolStep
  PROVE  UNCHANGED <<lens, bases, slots, inOrder>> /\ ~ PoolPanicked'
<1>1. CASE Watchdog \/ Finish
  BY <1>1 DEF Watchdog, Finish, Result, pools, PoolPanicked
<1>2. CASE Nop \/ Halt \/ MovImm \/ Ldc \/ OperateImm \/ Operate \/ Divide \/ Assert
  BY <1>2 DEF Nop, Halt, MovImm, Ldc, OperateImm, Operate, Divide, Assert, Fetched, Fetch, Stop,
              Continue, OnlyRegs, pools, PoolPanicked
<1>3. CASE SpillStore \/ SpillLoad \/ Jump \/ TableDef \/ WithinStart \/ WithinEnd \/ Drop
  BY <1>3 DEF SpillStore, SpillLoad, Jump, TableDef, WithinStart, WithinEnd, Drop, Fetched, Fetch,
              Continue, OnlyRegs, pools, PoolPanicked
<1>4. CASE Call \/ Ret
  BY <1>4 DEF Call, Ret, Fetched, Fetch, Stop, pools, PoolPanicked
<1>5. CASE TableLoad \/ InvalidOpcode
  BY <1>5 DEF TableLoad, InvalidOpcode, Fetched, Fetch, Stop, Continue, OnlyRegs, pools, PoolPanicked
<1>6. CASE CallNative
  <2>1. PICK fails : fails = NativeFails(I.nat, Reg(I.rs2, 0))
    OBVIOUS
  <2>2. fails \notin {"panic_array", "panic_struct"}
    BY <2>1 DEF NativeFails
  <2>3. Stop(fails) \/ (status' = status /\ UNCHANGED pools)
    BY <1>6, <2>1 DEF CallNative
  <2>4. status = "running"
    BY <1>6 DEF CallNative, Fetched, Fetch
  <2>5. QED
    BY <2>2, <2>3, <2>4 DEF Stop, pools, PoolPanicked
<1>7. QED
  BY <1>1, <1>2, <1>3, <1>4, <1>5, <1>6 DEF Next, PoolStep

PanicInv == \A k \in Kinds : status = PoolPanic(k) => Outgrown(k)

LEMMA PoolsStep == TypeOK /\ PoolInv /\ PanicInv /\ [Next]_vars => PoolInv' /\ PanicInv'
<1> SUFFICES ASSUME TypeOK, PoolInv, PanicInv, [Next]_vars PROVE PoolInv' /\ PanicInv'
  OBVIOUS
<1>1. CASE UNCHANGED vars
  BY <1>1 DEF vars, pools, PoolInv, PanicInv, Outgrown
<1>2. CASE Next /\ ~ PoolStep
  <2>1. UNCHANGED <<lens, bases, slots, inOrder>> /\ ~ PoolPanicked'
    BY <1>2, OtherKeepPools
  <2>2. QED
    BY <2>1 DEF PoolInv, PanicInv, PoolPanicked, PoolPanic
<1>3. CASE PoolStep
  <2>1. PICK k \in Kinds : Define(k) \/ PoolLoad(k) \/ PoolStore(k)
    BY <1>3 DEF PoolStep
  <2>2. CASE Define(k)
    BY <2>2, DefineKeepsPools DEF PanicInv, PoolPanicked, PoolPanic
  <2>3. CASE PoolLoad(k) \/ PoolStore(k)
    <3>1. UNCHANGED <<lens, bases, inOrder>> /\ \A m \in Kinds : status' = PoolPanic(m) => Outgrown(m)
      BY <2>3, AccessKeepsPools
    <3>2. PoolInv'
      BY <3>1 DEF PoolInv
    <3>3. \A m \in Kinds : Outgrown(m) => Outgrown(m)'
      BY <3>1 DEF Outgrown
    <3>4. QED
      BY <3>1, <3>2, <3>3 DEF PanicInv
  <2>4. QED
    BY <2>1, <2>2, <2>3
<1>4. QED
  BY <1>1, <1>2, <1>3

LEMMA PoolsInit == Init => PoolInv /\ PanicInv
<1> SUFFICES ASSUME Init PROVE PoolInv /\ PanicInv
  OBVIOUS
<1>1. \A k \in Kinds : \A i \in Ids : lens[k][i] = 0
  BY DEF Init
<1>2. \A k \in Kinds : status # PoolPanic(k)
  BY DEF Init, PoolPanic
<1>3. QED
  BY <1>1, <1>2 DEF PoolInv, PanicInv

\* For every binary, number of arrays and pool size: the machine's own index test
\* is enough unless the script defined its arrays (structs) out of order or more
\* than the pool holds (lang.rs, ARR_LOAD to STRUCT_STORE).
THEOREM PanicOnlyWhenOutgrown == Spec => []PanicOnlyOutOfPool
<1>1. Init => TypeOK /\ PoolInv /\ PanicInv
  BY InitType, PoolsInit
<1>2. TypeOK /\ PoolInv /\ PanicInv /\ [Next]_vars => (TypeOK /\ PoolInv /\ PanicInv)'
  BY NextTypeOK, PoolsStep
<1>3. PanicInv => PanicOnlyOutOfPool
  BY TotalByLens DEF PanicInv, PanicOnlyOutOfPool, Outgrown
<1>4. QED
  BY <1>1, <1>2, <1>3, PTL DEF Spec

-----------------------------------------------------------------------------
(* Stores *)

\* The slots of two arrays that lie where the sums say do not meet.
LEMMA CellsApart ==
  ASSUME TypeOK, PoolInv, NEW k \in Kinds, inOrder[k], SumsOf(lens[k])[NumIds] <= PoolSize,
         NEW i \in Ids, NEW j \in Ids, i < j,
         NEW s \in Int, s - bases[k][i] \in 0 .. lens[k][i] - 1,
         NEW t \in Int, t - bases[k][j] \in 0 .. lens[k][j] - 1
  PROVE  s < t
<1>1. lens[k] \in [Ids -> Nat] /\ bases[k][i] \in Int /\ bases[k][j] \in Int
  BY LensOf
<1>2. lens[k][i] \in Nat /\ lens[k][j] \in Nat /\ lens[k][i] > 0 /\ lens[k][j] > 0
  BY <1>1
<1>3. /\ bases[k][i] = SumsOf(lens[k])[i] /\ bases[k][j] = SumsOf(lens[k])[j]
      /\ SumsOf(lens[k])[i] + lens[k][i] = SumsOf(lens[k])[i + 1]
  BY <1>2, ExactBase
<1>4. i + 1 \in 0 .. NumIds /\ j \in 0 .. NumIds /\ i + 1 <= j
  BY VMNumbers DEF Ids
<1>5. SumsOf(lens[k])[i + 1] <= SumsOf(lens[k])[j]
  BY <1>1, <1>4, SumsMonotone
<1>6. QED
  BY <1>1, <1>2, <1>3, <1>5

StoreOp(k) == IF k = "array" THEN "arr_store" ELSE "struct_store"

LEMMA StoreIsolated ==
  ASSUME TypeOK, PoolInv, NEW k \in Kinds, PoolStore(k), inOrder[k],
         SumsOf(lens[k])[NumIds] <= PoolSize, NEW i \in Ids \ {I.rd}, NEW s \in Cells(k, i)
  PROVE  slots'[k][s] = slots[k][s]
<1>1. Fetch
  BY DEF PoolStore, Fetched
<1>2. I.rs1 \in Nat
  BY <1>1, Operands DEF Fetch
<1>3. PICK idx \in Int : idx = Index(k, I.rs1)
  BY <1>2, IndexInt
<1>4. PICK id : id = I.rd
  OBVIOUS
<1>5. PICK t : t = Slot(k, id, idx)
  OBVIOUS
<1>6. PICK v : v = Reg(I.rs2, 0)
  OBVIOUS
<1>7. \/ UNCHANGED slots
      \/ ~ BadAccess(k, id, idx) /\ slots' = [slots EXCEPT ![k][t] = v]
  BY <1>3, <1>4, <1>5, <1>6 DEF PoolStore, Stop, pools
<1>8. CASE ~ BadAccess(k, id, idx) /\ slots' = [slots EXCEPT ![k][t] = v]
  <2>1. id \in Ids /\ idx >= 0 /\ ~ (idx >= lens[k][id])
    BY <1>8 DEF BadAccess
  <2>2. /\ lens[k][id] \in Nat /\ lens[k][i] \in Nat
        /\ bases[k][id] \in Int /\ bases[k][i] \in Int
    BY <2>1, LensOf
  <2>3. t \in Int /\ t - bases[k][id] \in 0 .. lens[k][id] - 1
    BY <1>5, <2>1, <2>2 DEF Slot
  <2>4. s \in Int /\ s - bases[k][i] \in 0 .. lens[k][i] - 1
    BY VMNumbers DEF Cells
  <2>5. i # id /\ i \in Int /\ id \in Int
    BY <1>4, <2>1 DEF Ids
  <2>6. s # t
    <3>1. CASE i < id
      BY <2>1, <2>3, <2>4, <3>1, CellsApart
    <3>2. CASE id < i
      BY <2>1, <2>3, <2>4, <3>2, CellsApart
    <3>3. QED
      BY <2>5, <3>1, <3>2
  <2>7. QED
    BY <1>8, <2>6 DEF TypeOK
<1>9. QED
  BY <1>7, <1>8

LEMMA ForeignStepKeepsSlots ==
  ASSUME TypeOK, [Next]_vars, NEW k \in Kinds, Fetched(StoreOp(k)), ~ PoolStore(k)
  PROVE  UNCHANGED slots
<1>1. I.op = StoreOp(k)
  BY DEF Fetched
<1>2. CASE UNCHANGED vars
  BY <1>2 DEF vars, pools
<1>3. CASE Next /\ ~ PoolStep
  BY <1>3, OtherKeepPools
<1>4. CASE PoolStep
  <2>1. PICK m \in Kinds : Define(m) \/ PoolLoad(m) \/ PoolStore(m)
    BY <1>4 DEF PoolStep
  <2>2. ~ Define(m)
    BY <1>1 DEF Define, Fetched, StoreOp
  <2>3. ~ PoolLoad(m)
    BY <1>1 DEF PoolLoad, Fetched, StoreOp
  <2>4. ~ PoolStore(m)
    <3>1. PoolStore(m) => m = k
      BY <1>1 DEF PoolStore, Fetched, StoreOp, Kinds
    <3>2. QED
      BY <3>1
  <2>5. QED
    BY <2>1, <2>2, <2>3, <2>4
<1>5. QED
  BY <1>2, <1>3, <1>4

\* For every binary, number of arrays and pool size: a store into an array (struct)
\* of a pool that was defined in order and is not outgrown changes no element of
\* another (lang.rs, ARR_STORE and STRUCT_STORE).
THEOREM StoresStayInside == Spec => StoresIsolated
<1> DEFINE Inv == TypeOK /\ PoolInv /\ PanicInv
           Isolated ==
             \A k \in Kinds :
               /\ Fetched(IF k = "array" THEN "arr_store" ELSE "struct_store")
               /\ inOrder[k] /\ Total(k) <= PoolSize
               => \A i \in Ids \ {I.rd} : \A s \in Cells(k, i) : slots'[k][s] = slots[k][s]
<1>1. Init => Inv
  BY InitType, PoolsInit
<1>2. Inv /\ [Next]_vars => Inv'
  BY NextTypeOK, PoolsStep
<1>3. Inv /\ [Next]_vars => [Isolated]_vars
  <2> SUFFICES ASSUME Inv, [Next]_vars, NEW k \in Kinds,
                      Fetched(StoreOp(k)), inOrder[k], Total(k) <= PoolSize,
                      NEW i \in Ids \ {I.rd}, NEW s \in Cells(k, i)
               PROVE  slots'[k][s] = slots[k][s]
    BY DEF StoreOp
  <2>1. SumsOf(lens[k])[NumIds] <= PoolSize
    BY TotalByLens
  <2>2. CASE PoolStore(k)
    BY <2>1, <2>2, StoreIsolated
  <2>3. CASE ~ PoolStore(k)
    BY <2>3, ForeignStepKeepsSlots
  <2>4. QED
    BY <2>2, <2>3
<1>4. QED
  BY <1>1, <1>2, <1>3, PTL DEF Spec, StoresIsolated
=============================================================================
