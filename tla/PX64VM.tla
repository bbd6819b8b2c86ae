------------------------------- MODULE PX64VM --------------------------------
(***************************************************************************)
(* The px64 register machine that runs PulseLang scripts on core 0:        *)
(* PX64VM::run of kernel/src/lang.rs, one step per instruction.            *)
(*                                                                         *)
(* An instruction is a record [op, rd, rs1, rs2, imm, nat]; imm is the     *)
(* 16-bit operand in the bytes of rs1 and rs2; ip and the targets of jumps *)
(* count instructions, from 1; nat names the native that rs1 numbers.      *)
(* The three-register operations (arithmetic, logic, comparison, string    *)
(* equality) are the constant operator Alu; the natives are told apart by  *)
(* what they do to the machine, and what they return is any value.         *)
(* A Rust panic (an index outside a fixed array, or one that overflows) is *)
(* a status of its own.                                                    *)
(***************************************************************************)
EXTENDS Integers, Sequences

CONSTANTS Programs,      \* the binaries that are run
          Values,        \* i64
          ErrValues,     \* values with ERR_TAG
          Alu(_, _, _),  \* the three-register operations
          NumRegs,       \* PX64_NUM_REGISTERS (20)
          NumSaved,      \* registers kept in a frame (16)
          MaxCallDepth,  \* MAX_CALL_DEPTH (8)
          MaxDeadlines,  \* length of deadline_stack (8)
          MaxSteps,      \* MAX_VM_STEPS (10_000)
          TimeLimit,     \* MAX_SCRIPT_TIMEOUT_NS
          Durations,     \* time that one instruction can take
          NumIds,        \* arrays, structs and tables (8 of each)
          PoolSize,      \* slots of array_slots and struct_slots (256)
          BaseWord,      \* bases are reduced to u16 (65536)
          NumSpills,     \* spill_slots (32)
          VramBytes,     \* bytes that @vram_read and @vram_write move (8)
          ConstPool      \* const_pool, a sequence of values

Regs  == 0 .. NumRegs - 1
Saved == 0 .. NumSaved - 1
Ids   == 0 .. NumIds - 1
Kinds == {"array", "struct"}

\* The operations that Alu stands for, and the natives.
AluOps    == {"add", "cmp"}
ImmOps    == {"mov_reg", "addi"}
DivOps    == {"div", "mod"}
IoNatives == {"print", "capture"}
Natives   == IoNatives \cup {"busy_wait", "unwrap", "fix_div", "pair", "vram", "other"}

ASSUME VMAssumption ==
  /\ NumSaved \in Nat \ {0} /\ NumRegs \in Nat /\ NumSaved <= NumRegs
  /\ MaxCallDepth \in Nat /\ MaxDeadlines \in Nat /\ MaxSteps \in Nat
  /\ TimeLimit \in Nat /\ Durations \subseteq Nat
  /\ NumIds \in Nat /\ PoolSize \in Nat /\ NumSpills \in Nat /\ VramBytes \in Nat
  /\ BaseWord \in Nat \ {0} /\ PoolSize <= BaseWord
  /\ Values \subseteq Int /\ 0 \in Values
  /\ \A op \in AluOps \cup ImmOps \cup DivOps, a \in Values, b \in Values : Alu(op, a, b) \in Values
  /\ \A v \in Values : \E d \in Durations : d >= v
  /\ ConstPool \in Seq(Values)

\* Operands are unsigned bytes, or two of them; an immediate operand is a word.
ASSUME CodeAssumption ==
  \A p \in Programs :
    /\ DOMAIN p = 1 .. Len(p)
    /\ \A i \in DOMAIN p :
         /\ p[i].rd \in Nat /\ p[i].rs1 \in Nat /\ p[i].rs2 \in Nat /\ p[i].imm \in Nat
         /\ p[i].op \in ImmOps \cup {"mov_imm"} => p[i].imm \in Values

VARIABLES code, ip, regs,
          steps,           \* instructions executed
          frames, sp,      \* call_stack with frame_stack, call_sp
          dlSp,            \* dl_sp; a deadline only decides about a log line
          lens, bases,     \* array_lens, array_bases; struct_field_counts, struct_bases
          slots,           \* array_slots, struct_slots
          tables,          \* table_bases and table_lens
          spills,          \* spill_slots
          now, timeout,    \* the TSC, timeout_tsc
          status,          \* "running", "leaving" (after the loop) or the result
          callers,         \* history: ip and registers at the call of each depth
          io,              \* history: time spent in blocking natives
          inOrder          \* history: arrays (structs) defined in the order of ids

stacks  == <<frames, sp, callers>>
timing  == <<dlSp, timeout, io>>
pools   == <<lens, bases, slots, inOrder>>
vars == <<code, ip, regs, steps, stacks, timing, pools, tables, spills, now, status>>

NoFrame == [ip |-> 1, regs |-> [r \in Saved |-> 0]]

\* PX64VM::new, and the first lines of run
Init ==
  /\ code \in Programs
  /\ ip = 1 /\ regs = [r \in Regs |-> 0] /\ steps = 0
  /\ frames = [d \in 0 .. MaxCallDepth - 1 |-> NoFrame] /\ sp = 0
  /\ dlSp = 0
  /\ lens = [k \in Kinds |-> [i \in Ids |-> 0]]
  /\ bases = [k \in Kinds |-> [i \in Ids |-> 0]]
  /\ slots = [k \in Kinds |-> [s \in 0 .. PoolSize - 1 |-> 0]]
  /\ tables = [i \in Ids |-> [base |-> 0, len |-> 0]]
  /\ spills = [s \in 0 .. NumSpills - 1 |-> 0]
  /\ now = 0 /\ timeout = TimeLimit
  /\ status = "running"
  /\ callers = [d \in 0 .. MaxCallDepth - 1 |-> [ip |-> 1, regs |-> regs]] /\ io = 0
  /\ inOrder = [k \in Kinds |-> TRUE]

-----------------------------------------------------------------------------
(* The loop *)

InCode == ip \in 1 .. Len(code)
I == code[ip]

\* A register operand outside the register file reads as the given default.
Reg(r, default) == IF r \in Regs THEN regs[r] ELSE default

\* ... and a write to it is ignored.
SetReg(r, v) == regs' = IF r \in Regs THEN [regs EXCEPT ![r] = v] ELSE regs

Elapse(ds) == \E d \in ds : now' = now + d

\* Mutant: a step is not counted if it jumps back (a reset as in the host's VM).
CountStepForward == steps' = IF I.op = "jmp" THEN 0 ELSE steps + 1

CountStep == steps' = steps + 1

\* The watchdog and the step limit are tested before every instruction.
Fetch ==
  /\ status = "running" /\ InCode
  /\ now <= timeout /\ steps < MaxSteps
  /\ CountStep
  /\ UNCHANGED code

Fetched(op) == Fetch /\ I.op = op

\* The instruction ends in a Rust panic, an error, or leaves the loop.
Stop(result) ==
  /\ status' = result
  /\ Elapse(Durations)
  /\ UNCHANGED <<ip, regs, stacks, timing, pools, tables, spills>>

Continue == status' = status /\ ip' = ip + 1 /\ Elapse(Durations)

Watchdog ==
  /\ status = "running" /\ InCode
  /\ \/ now > timeout /\ status' = "ERR_PX64_TIMEOUT_EXCEEDED"
     \/ now <= timeout /\ steps >= MaxSteps /\ status' = "ERR_PX64_WCET_EXCEEDED"
  /\ UNCHANGED <<code, ip, regs, steps, stacks, timing, pools, tables, spills, now>>

\* After the loop both limits are tested once more: a script that needs exactly
\* MaxSteps instructions is an error too.
Result ==
  IF now > timeout THEN "ERR_PX64_TIMEOUT_EXCEEDED"
  ELSE IF steps >= MaxSteps THEN "ERR_PX64_WCET_EXCEEDED" ELSE "ok"

Finish ==
  /\ status = "leaving" \/ (status = "running" /\ ~ InCode)
  /\ status' = Result
  /\ UNCHANGED <<code, ip, regs, steps, stacks, timing, pools, tables, spills, now>>

-----------------------------------------------------------------------------
(* Instructions on registers *)

OnlyRegs == UNCHANGED <<stacks, timing, pools, tables, spills>>

Nop == Fetched("nop") /\ Continue /\ UNCHANGED regs /\ OnlyRegs

Halt == Fetched("halt") /\ Stop("leaving")

\* MOV_IMM and MOV_STR
MovImm == Fetched("mov_imm") /\ SetReg(I.rd, I.imm) /\ Continue /\ OnlyRegs

\* LDC: the constant pool is checked before the register.
Ldc ==
  /\ Fetched("ldc")
  /\ \/ I.imm >= Len(ConstPool) /\ Stop("ERR_PX64_CONST_OUT_OF_BOUNDS")
     \/ I.imm < Len(ConstPool) /\ SetReg(I.rd, ConstPool[I.imm + 1]) /\ Continue /\ OnlyRegs

\* MOV_REG, ADDI and SUBI
OperateImm ==
  /\ Fetch /\ I.op \in ImmOps
  /\ \/ {I.rd, I.rs1} \subseteq Regs /\ SetReg(I.rd, Alu(I.op, regs[I.rs1], I.imm))
     \/ ~ ({I.rd, I.rs1} \subseteq Regs) /\ UNCHANGED regs
  /\ Continue /\ OnlyRegs

Three == {I.rd, I.rs1, I.rs2} \subseteq Regs

\* A three-register operation with an operand outside the register file is a NOP.
Operate ==
  /\ Fetch /\ I.op \in AluOps
  /\ \/ Three /\ SetReg(I.rd, Alu(I.op, regs[I.rs1], regs[I.rs2]))
     \/ ~ Three /\ UNCHANGED regs
  /\ Continue /\ OnlyRegs

Divide ==
  /\ Fetch /\ I.op \in DivOps
  /\ \/ Three /\ regs[I.rs2] = 0 /\ Stop("ERR_PX64_DIV_BY_ZERO")
     \/ /\ Three /\ regs[I.rs2] # 0
        /\ SetReg(I.rd, Alu(I.op, regs[I.rs1], regs[I.rs2])) /\ Continue /\ OnlyRegs
     \/ ~ Three /\ UNCHANGED regs /\ Continue /\ OnlyRegs

Assert ==
  /\ Fetched("assert")
  /\ \/ Reg(I.rd, 0) = 0 /\ Stop("ERR_PX64_ASSERTION_FAILED")
     \/ Reg(I.rd, 0) # 0 /\ UNCHANGED regs /\ Continue /\ OnlyRegs

SpillStore ==
  /\ Fetched("spill_store")
  /\ spills' = IF I.rd < NumSpills THEN [spills EXCEPT ![I.rd] = Reg(I.rs1, 0)] ELSE spills
  /\ Continue
  /\ UNCHANGED <<regs, stacks, timing, pools, tables>>

SpillLoad ==
  /\ Fetched("spill_load")
  /\ SetReg(I.rd, IF I.rs1 < NumSpills THEN spills[I.rs1] ELSE 0)
  /\ Continue /\ OnlyRegs

\* JMP, JZ and JNZ
Taken ==
  \/ I.op = "jmp"
  \/ I.op = "jz"  /\ I.rd \in Regs /\ regs[I.rd] = 0
  \/ I.op = "jnz" /\ I.rd \in Regs /\ regs[I.rd] # 0

Jump ==
  /\ Fetch /\ I.op \in {"jmp", "jz", "jnz"}
  /\ ip' = IF Taken THEN I.imm ELSE ip + 1
  /\ status' = status /\ Elapse(Durations)
  /\ UNCHANGED regs /\ OnlyRegs

-----------------------------------------------------------------------------
(* Calls *)

\* Mutant: one frame too many.
CallOverflowsLate == sp > MaxCallDepth

CallOverflows == sp >= MaxCallDepth

Call ==
  /\ Fetched("call")
  /\ \/ CallOverflows /\ Stop("ERR_PX64_STACK_OVERFLOW")
     \/ /\ ~ CallOverflows
        /\ frames' = [frames EXCEPT ![sp] = [ip   |-> ip + 1,
                                             regs |-> [r \in Saved |-> regs[r]]]]
        /\ sp' = sp + 1
        /\ callers' = [callers EXCEPT ![sp] = [ip |-> ip, regs |-> regs]]
        /\ ip' = I.imm
        /\ status' = status /\ Elapse(Durations)
        /\ UNCHANGED <<regs, timing, pools, tables, spills>>

\* Mutant: the frame is read before call_sp is decremented.
TopFrameEarly == frames[sp % MaxCallDepth]

TopFrame == frames[sp - 1]

\* RET in the main program leaves the loop; otherwise all saved registers but
\* $rax are restored.
Ret ==
  /\ Fetched("ret")
  /\ \/ sp = 0 /\ Stop("leaving")
     \/ /\ sp > 0
        /\ regs' = [r \in Regs |-> IF r \in Saved \ {0} THEN TopFrame.regs[r] ELSE regs[r]]
        /\ ip' = TopFrame.ip
        /\ sp' = sp - 1
        /\ status' = status /\ Elapse(Durations)
        /\ UNCHANGED <<frames, callers, timing, pools, tables, spills>>

-----------------------------------------------------------------------------
(* Arrays, structs and constant tables *)

\* The sums of the lengths that the ids below n have at this moment
Sums(k) ==
  LET sum[n \in 0 .. NumIds] == IF n = 0 THEN 0 ELSE sum[n - 1] + lens[k][n - 1]
  IN  sum

Total(k) == Sums(k)[NumIds]

\* Mutant: the array (struct) just below is not counted.
BaseOneShort(k, id) == IF id = 0 THEN 0 ELSE Sums(k)[id - 1]

\* Mutant: bases count from one.
BaseOneHigh(k, id) == Sums(k)[id] + 1

Base(k, id) == Sums(k)[id]

\* The length of an array is a word, the number of fields a byte.
Declared(k) == IF k = "array" THEN I.imm ELSE I.rs1

\* ARR_DEF and STRUCT_DEF.  Only an array that fits is cleared.
Define(k) ==
  /\ Fetched(IF k = "array" THEN "arr_def" ELSE "struct_def")
  /\ IF I.rd \notin Ids THEN UNCHANGED pools ELSE
       /\ lens' = [lens EXCEPT ![k][I.rd] = Declared(k)]
       /\ bases' = [bases EXCEPT ![k][I.rd] = Base(k, I.rd) % BaseWord]
       /\ slots' = IF k = "array" /\ Base(k, I.rd) + Declared(k) <= PoolSize
                     THEN [slots EXCEPT ![k] = [s \in DOMAIN @ |->
                             IF s \in Base(k, I.rd) .. Base(k, I.rd) + Declared(k) - 1 THEN 0 ELSE @[s]]]
                     ELSE slots
       /\ inOrder' = [inOrder EXCEPT ![k] = @ /\ \A j \in Ids : j >= I.rd => lens[k][j] = 0]
  /\ Continue
  /\ UNCHANGED <<regs, stacks, timing, tables, spills>>

\* An array is indexed by a register, a struct by the instruction.
Index(k, operand) == IF k = "array" THEN Reg(operand, -1) ELSE operand

BadAccess(k, id, idx) == id \notin Ids \/ idx < 0 \/ idx >= lens[k][id]

\* The index is tested against the length alone: a base that is too high runs
\* into the bounds check of the Rust array, which panics.
Slot(k, id, idx) == bases[k][id] + idx

PoolPanic(k) == IF k = "array" THEN "panic_array" ELSE "panic_struct"

PoolLoad(k) ==
  LET idx == Index(k, I.rs2)
  IN  /\ Fetched(IF k = "array" THEN "arr_load" ELSE "struct_load")
      /\ \/ BadAccess(k, I.rs1, idx) /\ Stop("ERR_PX64_OUT_OF_BOUNDS")
         \/ /\ ~ BadAccess(k, I.rs1, idx)
            /\ IF k = "array" /\ I.rd \notin Regs THEN UNCHANGED regs /\ Continue /\ OnlyRegs
               ELSE IF Slot(k, I.rs1, idx) >= PoolSize THEN Stop(PoolPanic(k))
               ELSE SetReg(I.rd, slots[k][Slot(k, I.rs1, idx)]) /\ Continue /\ OnlyRegs

PoolStore(k) ==
  LET idx == Index(k, I.rs1)
  IN  /\ Fetched(IF k = "array" THEN "arr_store" ELSE "struct_store")
      /\ \/ BadAccess(k, I.rd, idx) /\ Stop("ERR_PX64_OUT_OF_BOUNDS")
         \/ ~ BadAccess(k, I.rd, idx) /\ Slot(k, I.rd, idx) >= PoolSize /\ Stop(PoolPanic(k))
         \/ /\ ~ BadAccess(k, I.rd, idx) /\ Slot(k, I.rd, idx) < PoolSize
            /\ slots' = [slots EXCEPT ![k][Slot(k, I.rd, idx)] = Reg(I.rs2, 0)]
            /\ Continue
            /\ UNCHANGED <<regs, stacks, timing, lens, bases, inOrder, tables, spills>>

TableDef ==
  /\ Fetched("tbl_def")
  /\ tables' = IF I.rd \in Ids THEN [tables EXCEPT ![I.rd] = [base |-> I.rs1, len |-> I.rs2]]
                               ELSE tables
  /\ Continue
  /\ UNCHANGED <<regs, stacks, timing, pools, spills>>

\* The table is a window on the constant pool, whose end only Rust checks.
TableLoad ==
  LET idx == Reg(I.rs2, -1)
      bad == I.rs1 \notin Ids \/ idx < 0 \/ idx >= tables[I.rs1].len
      at  == tables[I.rs1].base + idx
  IN  /\ Fetched("tbl_load")
      /\ \/ bad /\ Stop("ERR_PX64_OUT_OF_BOUNDS")
         \/ ~ bad /\ at >= Len(ConstPool) /\ Stop("panic_table")
         \/ ~ bad /\ at < Len(ConstPool) /\ SetReg(I.rd, ConstPool[at + 1]) /\ Continue /\ OnlyRegs

-----------------------------------------------------------------------------
(* Natives and deadlines *)

\* Mutant: every native is deducted from the watchdog's time.
IsBlockingIoAll(nat) == TRUE

IsBlockingIo(nat) == nat \in IoNatives

\* CALL_NAT: I.rs2 is the register of the native's argument.  "pair"
\* stands for the natives that read the register below the argument's, which is
\* outside the register file if the operand is more than one beyond it.  "vram"
\* takes that register for the offset of its access as an unsigned word: a small
\* negative one overflows in the bounds test.
NativeFails(nat, arg) ==
  CASE nat = "unwrap" /\ arg \in ErrValues -> "ERR_PX64_UNWRAP_FAILED"
    [] nat = "fix_div" /\ (I.rs2 = 0 \/ (I.rs2 <= NumRegs /\ regs[I.rs2 - 1] = 0)) -> "ERR_PX64_DIV_BY_ZERO"
    [] nat \in {"pair", "fix_div", "vram"} /\ I.rs2 > NumRegs -> "panic_operand"
    [] nat = "vram" /\ I.rs2 \in 1 .. NumRegs /\ regs[I.rs2 - 1] \in (- VramBytes) .. -1 -> "panic_vram"
    [] OTHER -> "no"

\* @busy_wait spins for as long as its argument says.
NativeTime(nat, arg) ==
  IF nat = "busy_wait" THEN {d \in Durations : d >= arg} ELSE Durations

CallNative ==
  LET nat == I.nat
      arg == Reg(I.rs2, 0)
  IN  /\ Fetched("call_nat")
      /\ IF NativeFails(nat, arg) # "no" THEN Stop(NativeFails(nat, arg)) ELSE
           /\ \E d \in NativeTime(nat, arg) :
                /\ now' = now + d
                /\ timeout' = IF IsBlockingIo(nat) THEN timeout + d ELSE timeout
                /\ io' = IF nat \in IoNatives THEN io + d ELSE io
           /\ \E v \in Values : SetReg(I.rd, v)
           /\ ip' = ip + 1 /\ status' = status
           /\ UNCHANGED <<stacks, dlSp, pools, tables, spills>>

\* A ninth nested @within is not recorded, but its end pops the eighth.
WithinStart ==
  /\ Fetched("within_start")
  /\ dlSp' = IF dlSp < MaxDeadlines THEN dlSp + 1 ELSE dlSp
  /\ Continue
  /\ UNCHANGED <<regs, stacks, timeout, io, pools, tables, spills>>

WithinEnd ==
  /\ Fetched("within_end")
  /\ dlSp' = IF dlSp > 0 THEN dlSp - 1 ELSE dlSp
  /\ Continue
  /\ UNCHANGED <<regs, stacks, timeout, io, pools, tables, spills>>

\* DROP only writes a line to the serial port when the deadline has passed.
Drop == Fetched("drop") /\ Continue /\ UNCHANGED regs /\ OnlyRegs

Known == {"nop", "halt", "mov_imm", "ldc", "assert", "spill_store", "spill_load",
          "jmp", "jz", "jnz", "call", "ret", "arr_def", "arr_load", "arr_store",
          "struct_def", "struct_load", "struct_store", "tbl_def", "tbl_load",
          "call_nat", "within_start", "within_end", "drop"} \cup AluOps \cup ImmOps \cup DivOps

InvalidOpcode == Fetch /\ I.op \notin Known /\ Stop("ERR_PX64_INVALID_OPCODE")

Next ==
  \/ Watchdog \/ Finish
  \/ Nop \/ Halt \/ MovImm \/ Ldc \/ OperateImm \/ Operate \/ Divide \/ Assert
  \/ SpillStore \/ SpillLoad \/ Jump
  \/ Call \/ Ret
  \/ \E k \in Kinds : Define(k) \/ PoolLoad(k) \/ PoolStore(k)
  \/ TableDef \/ TableLoad
  \/ CallNative \/ WithinStart \/ WithinEnd \/ Drop
  \/ InvalidOpcode

Spec == Init /\ [][Next]_vars /\ WF_vars(Next)

-----------------------------------------------------------------------------
Errors == {"ERR_PX64_TIMEOUT_EXCEEDED", "ERR_PX64_WCET_EXCEEDED",
           "ERR_PX64_CONST_OUT_OF_BOUNDS", "ERR_PX64_DIV_BY_ZERO",
           "ERR_PX64_ASSERTION_FAILED", "ERR_PX64_STACK_OVERFLOW",
           "ERR_PX64_OUT_OF_BOUNDS", "ERR_PX64_UNWRAP_FAILED", "ERR_PX64_INVALID_OPCODE"}
Panics == {"panic_array", "panic_struct", "panic_table", "panic_operand", "panic_vram"}

\* The stack pointers stay inside their arrays, the step counter inside its
\* limit, and registers and slots hold words.
TypeOK ==
  /\ code \in Programs /\ ip \in Nat
  /\ regs \in [Regs -> Values]
  /\ steps \in 0 .. MaxSteps
  /\ frames \in [0 .. MaxCallDepth - 1 -> [ip : Nat, regs : [Saved -> Values]]]
  /\ sp \in 0 .. MaxCallDepth
  /\ dlSp \in 0 .. MaxDeadlines
  /\ lens \in [Kinds -> [Ids -> Nat]]
  /\ bases \in [Kinds -> [Ids -> 0 .. BaseWord - 1]]
  /\ slots \in [Kinds -> [0 .. PoolSize - 1 -> Values]]
  /\ tables \in [Ids -> [base : Nat, len : Nat]]
  /\ spills \in [0 .. NumSpills - 1 -> Values]
  /\ now \in Nat /\ timeout \in Nat /\ io \in Nat
  /\ status \in {"running", "leaving", "ok"} \cup Errors \cup Panics
  /\ callers \in [0 .. MaxCallDepth - 1 -> [ip : Nat, regs : [Regs -> Values]]]
  /\ inOrder \in [Kinds -> BOOLEAN]

\* A function returns behind its call, with its result in $rax and the caller's
\* other general registers as they were, through any nesting of calls and any
\* code in between.
CallsReturn ==
  [][sp' < sp =>
       /\ ip' = callers[sp'].ip + 1
       /\ regs'[0] = regs[0]
       /\ \A r \in Saved \ {0} : regs'[r] = callers[sp'].regs[r]]_vars

\* The watchdog bounds the time a script computes, whatever the time its output
\* takes: a script that succeeds has spent at most the limit outside of natives
\* that wait for the serial port or the display, @busy_wait included.
ComputeBounded == status = "ok" => now - io <= TimeLimit

\* The slots of an array (struct).
Cells(k, i) == {s \in 0 .. PoolSize - 1 : s - bases[k][i] \in 0 .. lens[k][i] - 1}

\* Arrays (structs) that were defined in the order of their ids and fit into the
\* pool do not share slots: a store changes no element of another one.
StoresIsolated ==
  [][\A k \in Kinds :
       /\ Fetched(IF k = "array" THEN "arr_store" ELSE "struct_store")
       /\ inOrder[k] /\ Total(k) <= PoolSize
       => \A i \in Ids \ {I.rd} : \A s \in Cells(k, i) : slots'[k][s] = slots[k][s]]_vars

\* The index test of the machine is enough: an access to an array (struct) runs into
\* Rust's own bounds check only if the script declared more arrays (structs) than the
\* pool holds, or declared them out of order.
PanicOnlyOutOfPool ==
  \A k \in Kinds : status = PoolPanic(k) => ~ inOrder[k] \/ Total(k) > PoolSize

\* Every script ends, with a result or an error, also one that loops for ever.
Terminates == <>(status \in {"ok"} \cup Errors \cup Panics)
=============================================================================
