------------------------------- MODULE HostVM --------------------------------
(***************************************************************************)
(* The px64 machine of the host tools: PX64VM::run_with_output of          *)
(* pulselang-core/src/vm.rs, one step per instruction.  Instructions are   *)
(* the records of Compiler.  It differs from the kernel's machine          *)
(* (PX64VM): it has no watchdog, more and larger pools, no Rust panic at   *)
(* the end of the constant pool, and @term_read_key starts its step limit  *)
(* anew.  Strings, script arguments and files are not modelled, nor what   *)
(* @print makes of its argument.                                           *)
(***************************************************************************)
EXTENDS Px64Words, Sequences

CONSTANTS Crc(_, _),      \* NATIVE_CRC32 of a seed and a value
          Replay,         \* replay_config is enabled
          HostRegs,       \* PX64_NUM_REGISTERS (20)
          HostDepth,      \* MAX_CALL_DEPTH (8)
          HostSteps,      \* max_steps
          HostIds,        \* arrays, structs and tables (16 of each)
          HostSlots,      \* slots of each pool (1024)
          HostSpills,     \* spill_slots (32)
          HostVram        \* values in a VRAM slot (4096 bytes)

GPRs     == 0 .. 15
RegFile  == 0 .. HostRegs - 1
HostKinds == {"array", "struct"}

VARIABLES binary,   \* code and const_pool
          pc, regs, steps,
          stack,    \* call_stack and frame_stack up to call_sp
          dlSp,     \* dl_sp; a deadline only decides about a line of output
          pool,     \* lengths, bases and slots of arrays and structs
          tbl,      \* table_bases, table_lens
          spill,    \* spill_slots
          vram,     \* vram, in values
          out,      \* the natives called that act on the outside, with their arguments
          result    \* "running", "ok", or the error

memory == <<pool, tbl, spill, vram>>
hostVars == <<binary, pc, regs, steps, stack, dlSp, memory, out, result>>

\* The bytes 0x5A, 0xA5, 0x00 and 0xFF, repeated
VramFill == <<Modulus \div 3, -(Modulus \div 3) - 1, 0, -1>>

\* run_binary_with_output and PX64VM::new
Load(bin) ==
  /\ binary = bin
  /\ pc = 1 /\ regs = [r \in RegFile |-> 0] /\ steps = 0
  /\ stack = <<>> /\ dlSp = 0
  /\ pool = [k \in HostKinds |-> [lens  |-> [i \in 0 .. HostIds - 1 |-> 0],
                                  bases |-> [i \in 0 .. HostIds - 1 |-> 0],
                                  slots |-> [s \in 0 .. HostSlots - 1 |-> 0]]]
  /\ tbl = [i \in 0 .. HostIds - 1 |-> [base |-> 0, len |-> 0]]
  /\ spill = [s \in 0 .. HostSpills - 1 |-> 0]
  /\ vram = [s \in 0 .. 3 |-> [i \in 0 .. HostVram - 1 |-> VramFill[s + 1]]]
  /\ out = <<>> /\ result = "running"

-----------------------------------------------------------------------------
InBinary == pc \in 1 .. Len(binary.code)
Inst == binary.code[pc]

\* Registers outside the file read as a default and are not written.
Get(r, default) == IF r \in RegFile THEN regs[r] ELSE default
Set(r, v) == regs' = IF r \in RegFile THEN [regs EXCEPT ![r] = v] ELSE regs

\* The head of the loop: the step limit, then the count.
HostFetch(ops) ==
  /\ result = "running" /\ InBinary /\ steps < HostSteps
  /\ Inst.op \in ops
  /\ UNCHANGED binary

Counted == steps' = steps + 1

Advance == pc' = pc + 1 /\ Counted /\ UNCHANGED result

\* return Err(...) or break
Leave(r) == result' = r /\ Counted /\ UNCHANGED <<pc, regs, stack, dlSp, memory, out>>

KeepRest == UNCHANGED <<stack, dlSp, memory, out>>

\* The loop ends at the end of the code, or at the step limit before it.
Exhausted ==
  /\ result = "running"
  /\ \/ ~ InBinary /\ result' = "ok"
     \/ InBinary /\ steps >= HostSteps /\ result' = "ERR_PX64_WCET_EXCEEDED"
  /\ UNCHANGED <<binary, pc, regs, steps, stack, dlSp, memory, out>>

Stops == HostFetch({"halt"}) /\ Leave("ok")

HostNop == HostFetch({"nop"}) /\ UNCHANGED regs /\ Advance /\ KeepRest

\* MOV_IMM, LDC
LoadImm == HostFetch({"mov_imm"}) /\ Set(Inst.rd, Inst.imm) /\ Advance /\ KeepRest

LoadConst ==
  /\ HostFetch({"ldc"})
  /\ \/ Inst.imm >= Len(binary.consts) /\ Leave("ERR_PX64_CONST_OUT_OF_BOUNDS")
     \/ Inst.imm < Len(binary.consts) /\ Set(Inst.rd, binary.consts[Inst.imm + 1]) /\ Advance /\ KeepRest

\* MOV_REG, ADDI, SUBI
TwoRegResult(op, v, imm) ==
  CASE op = "mov_reg" -> v [] op = "addi" -> Alu("add", v, imm) [] op = "subi" -> Alu("sub", v, imm)
WithImm ==
  /\ HostFetch({"mov_reg", "addi", "subi"})
  /\ IF {Inst.rd, Inst.rs1} \subseteq RegFile
       THEN Set(Inst.rd, TwoRegResult(Inst.op, regs[Inst.rs1], Inst.rs2)) ELSE UNCHANGED regs
  /\ Advance /\ KeepRest

ThreeRegOps == {"add", "sub", "mul", "and", "or", "xor", "shl", "shr",
                "cmp_eq", "cmp_ne", "cmp_lt", "cmp_le", "cmp_gt", "cmp_ge", "streq"}
Operands == {Inst.rd, Inst.rs1, Inst.rs2} \subseteq RegFile
Arithmetic ==
  /\ HostFetch(ThreeRegOps)
  /\ IF Operands THEN Set(Inst.rd, Alu(Inst.op, regs[Inst.rs1], regs[Inst.rs2])) ELSE UNCHANGED regs
  /\ Advance /\ KeepRest

DivMod ==
  /\ HostFetch({"div", "mod"})
  /\ IF Operands /\ regs[Inst.rs2] = 0 THEN Leave("ERR_PX64_DIV_BY_ZERO")
     ELSE /\ IF Operands THEN Set(Inst.rd, Alu(Inst.op, regs[Inst.rs1], regs[Inst.rs2])) ELSE UNCHANGED regs
          /\ Advance /\ KeepRest

HostAssert ==
  /\ HostFetch({"assert"})
  /\ IF Get(Inst.rd, 0) = 0 THEN Leave("ERR_PX64_ASSERTION_FAILED")
     ELSE UNCHANGED regs /\ Advance /\ KeepRest

Goto ==
  /\ HostFetch({"jmp", "jz", "jnz"})
  /\ pc' = IF \/ Inst.op = "jmp"
              \/ Inst.op = "jz"  /\ Get(Inst.rd, 1) = 0
              \/ Inst.op = "jnz" /\ Get(Inst.rd, 0) # 0
             THEN Inst.imm ELSE pc + 1
  /\ Counted /\ UNCHANGED <<regs, result>> /\ KeepRest

\* CALL saves $rax .. $r15, RET restores all of them but $rax.
HostCall ==
  /\ HostFetch({"call"})
  /\ IF Len(stack) >= HostDepth THEN Leave("ERR_PX64_STACK_OVERFLOW")
     ELSE /\ stack' = Append(stack, [pc |-> pc + 1, regs |-> [r \in GPRs |-> regs[r]]])
          /\ pc' = Inst.imm
          /\ Counted /\ UNCHANGED <<regs, dlSp, memory, out, result>>

HostRet ==
  /\ HostFetch({"ret"})
  /\ IF stack = <<>> THEN Leave("ok")
     ELSE LET top == stack[Len(stack)]
          IN  /\ regs' = [r \in RegFile |-> IF r \in GPRs \ {0} THEN top.regs[r] ELSE regs[r]]
              /\ pc' = top.pc
              /\ stack' = SubSeq(stack, 1, Len(stack) - 1)
              /\ Counted /\ UNCHANGED <<dlSp, memory, out, result>>

-----------------------------------------------------------------------------
(* Memory *)

\* spill_slots
SpillSave ==
  /\ HostFetch({"spill_store"})
  /\ spill' = IF Inst.rd < HostSpills THEN [spill EXCEPT ![Inst.rd] = Get(Inst.rs1, 0)] ELSE spill
  /\ Advance /\ UNCHANGED <<regs, stack, dlSp, pool, tbl, vram, out>>

SpillRestore ==
  /\ HostFetch({"spill_load"})
  /\ Set(Inst.rd, IF Inst.rs1 < HostSpills THEN spill[Inst.rs1] ELSE 0)
  /\ Advance /\ KeepRest

\* The sum of the lengths below id
RECURSIVE Below(_, _)
Below(lens, id) == IF id = 0 THEN 0 ELSE lens[id - 1] + Below(lens, id - 1)

\* ARR_DEF clears what it reserves, STRUCT_DEF does not.
Reserve(k, n) ==
  LET base == Below(pool[k].lens, Inst.rd)
  IN  /\ pool' = IF Inst.rd >= HostIds THEN pool
                 ELSE [pool EXCEPT ![k].lens[Inst.rd] = n, ![k].bases[Inst.rd] = base,
                         ![k].slots = [s \in DOMAIN @ |->
                            IF k = "array" /\ base + n <= HostSlots /\ s \in base .. base + n - 1 THEN 0 ELSE @[s]]]
      /\ Advance /\ UNCHANGED <<regs, stack, dlSp, tbl, spill, vram, out>>

DefineArray  == HostFetch({"arr_def"}) /\ Reserve("array", Inst.imm)
DefineStruct == HostFetch({"struct_def"}) /\ Reserve("struct", Inst.rs1)

InPool(k, id, idx) == id < HostIds /\ idx \in 0 .. pool[k].lens[id] - 1

\* ARR_LOAD and ARR_STORE index with a register, STRUCT_LOAD and STRUCT_STORE
\* with their operand.
Fetches(k) ==
  LET idx == IF k = "array" THEN Get(Inst.rs2, -1) ELSE Inst.rs2
  IN  /\ HostFetch({IF k = "array" THEN "arr_load" ELSE "struct_load"})
      /\ IF ~ InPool(k, Inst.rs1, idx) THEN Leave("ERR_PX64_OUT_OF_BOUNDS")
         ELSE Set(Inst.rd, pool[k].slots[pool[k].bases[Inst.rs1] + idx]) /\ Advance /\ KeepRest

Stores(k) ==
  LET idx == IF k = "array" THEN Get(Inst.rs1, -1) ELSE Inst.rs1
  IN  /\ HostFetch({IF k = "array" THEN "arr_store" ELSE "struct_store"})
      /\ IF ~ InPool(k, Inst.rd, idx) THEN Leave("ERR_PX64_OUT_OF_BOUNDS")
         ELSE /\ pool' = [pool EXCEPT ![k].slots[pool[k].bases[Inst.rd] + idx] = Get(Inst.rs2, 0)]
              /\ Advance /\ UNCHANGED <<regs, stack, dlSp, tbl, spill, vram, out>>

DefineTable ==
  /\ HostFetch({"tbl_def"})
  /\ tbl' = IF Inst.rd < HostIds THEN [tbl EXCEPT ![Inst.rd] = [base |-> Inst.rs1, len |-> Inst.rs2]] ELSE tbl
  /\ Advance /\ UNCHANGED <<regs, stack, dlSp, pool, spill, vram, out>>

LookUp ==
  LET idx == Get(Inst.rs2, -1)
      at  == tbl[Inst.rs1].base + idx + 1
  IN  /\ HostFetch({"tbl_load"})
      /\ IF Inst.rs1 >= HostIds \/ idx \notin 0 .. tbl[Inst.rs1].len - 1 \/ at > Len(binary.consts)
           THEN Leave("ERR_PX64_TABLE_OUT_OF_BOUNDS")
           ELSE Set(Inst.rd, binary.consts[at]) /\ Advance /\ KeepRest

-----------------------------------------------------------------------------
(* Natives *)

\* Further arguments are in the registers below the first one's.
Arg(n, default) == IF Inst.rs2 >= n THEN regs[Inst.rs2 - n] ELSE default

\* The natives that act on the outside: their calls are the script's output.
Visible == {"print", "println", "send", "drop", "capture", "rate"}

\* Fixed answers of the host; without strings, files and arguments the natives on
\* them answer that there is none.
Answers == [send |-> 1, rtt |-> Wrap(100), tsc_freq |-> Wrap(3 * Wrap(1000000000)),
            char_at |-> -1, file_write |-> -1]
Answer(nat) == IF nat \in DOMAIN Answers THEN Answers[nat] ELSE 0

SmallerOf(a, b) == IF a < b THEN a ELSE b
LargerOf(a, b)  == IF a > b THEN a ELSE b

\* The bits of a word
Ones(v) == LET bits[n \in Nat] == IF n = 0 THEN 0 ELSE (n % 2) + bits[n \div 2] IN bits[Unsigned(v)]
Width(v) == LET w[n \in Nat] == IF n = 0 THEN 0 ELSE 1 + w[n \div 2] IN w[Unsigned(v)]

\* saturating_abs, @min, @max, @clamp, @popcnt, @lzcnt, @crc32
Maths(nat, a, b, c) ==
  CASE nat = "min" -> SmallerOf(a, b)
    [] nat = "max" -> LargerOf(a, b)
    [] nat = "abs" -> SmallerOf(Abs(a), Modulus \div 2 - 1)
    [] nat = "clamp" -> SmallerOf(LargerOf(a, b), c)
    [] nat = "popcnt" -> Ones(a)
    [] nat = "lzcnt" -> WordBits - Width(a)
    [] nat = "crc32" -> Crc(a, b)

\* Results: a word with the bit ERR_TAG is an error.
Tagged(nat, a) ==
  CASE nat = "tag_ok"  -> Untag(a)
    [] nat = "tag_err" -> Wrap(Unsigned(Untag(a)) + ErrTag)
    [] nat = "is_ok"   -> Bool(~ IsErr(a))
    [] nat = "is_err"  -> Bool(IsErr(a))
    [] nat = "unwrap"  -> a

\* Fixed-point: unlike SHR, the shift to the right keeps the sign.
ShiftDown(a, q) == a \div 2 ^ Amount(q)
Fixed(nat, a, b, c) ==
  CASE nat = "to_fix"  -> ShiftUp(a, b)
    [] nat = "to_i64"  -> ShiftDown(a, b)
    [] nat = "fix_mul" -> ShiftDown(Wrap(a * b), c)
    [] nat = "fix_div" -> Wrap(Quot(ShiftUp(a, c), b))

NativeError(nat, a, b) ==
  CASE nat = "unwrap" /\ IsErr(a) -> "ERR_PX64_UNWRAP_FAILED"
    [] nat = "fix_div" /\ b = 0 -> "ERR_PX64_DIV_BY_ZERO"
    [] OTHER -> "no"

\* get_tsc, get_uptime_ns
Clock == IF Replay THEN {Wrap(steps)} ELSE Words

\* The offset b lies in the VRAM slot that a names.
VramSlot(a)  == Unsigned(a) % 4
InVram(a, b) == b \in DOMAIN vram[VramSlot(a)]

\* CALL_NAT
HostNative ==
  LET nat == Inst.nat
      a   == Get(Inst.rs2, 0)
      b   == Arg(1, IF nat \in {"to_fix", "to_i64"} THEN 16 ELSE 0)
      c   == Arg(2, IF nat \in {"fix_mul", "fix_div"} THEN 16 ELSE 0)
      values ==
        CASE nat \in {"tsc", "uptime_ns"} -> Clock
          [] nat \in {"term_read_key", "term_size"} -> Words
          [] nat \in {"min", "max", "abs", "clamp", "popcnt", "lzcnt", "crc32"} -> {Maths(nat, a, b, c)}
          [] nat \in {"tag_ok", "tag_err", "is_ok", "is_err", "unwrap"} -> {Tagged(nat, a)}
          [] nat \in {"to_fix", "to_i64", "fix_mul", "fix_div"} -> {Fixed(nat, a, b, c)}
          [] nat = "vram_read" -> {IF InVram(a, b) THEN vram[VramSlot(a)][b] ELSE 0}
          [] OTHER -> {Answer(nat)}
  IN  /\ HostFetch({"call_nat"})
      /\ IF NativeError(nat, a, b) # "no" THEN Leave(NativeError(nat, a, b))
         ELSE /\ \E v \in values : Set(Inst.rd, v)
              /\ out' = IF nat \in Visible THEN Append(out, <<nat, IF nat = "capture" THEN 0 ELSE a>>) ELSE out
              /\ vram' = IF nat = "vram_write" /\ InVram(a, b) THEN [vram EXCEPT ![VramSlot(a)][b] = c] ELSE vram
              /\ steps' = IF nat = "term_read_key" THEN 0 ELSE steps + 1
              /\ pc' = pc + 1
              /\ UNCHANGED <<stack, dlSp, pool, tbl, spill, result>>

\* WITHIN_START and WITHIN_END; DROP may write a line.
Deadlines ==
  /\ HostFetch({"within_start", "within_end", "drop"})
  /\ dlSp' = CASE Inst.op = "within_start" /\ dlSp < 8 -> dlSp + 1
               [] Inst.op = "within_end" /\ dlSp > 0 -> dlSp - 1
               [] OTHER -> dlSp
  /\ Advance /\ UNCHANGED <<regs, stack, memory, out>>

\* Any other opcode, MOV_STR aside
Invalid == HostFetch({"unknown"}) /\ Leave("ERR_PX64_INVALID_OPCODE")

HostNext ==
  \/ Exhausted \/ Stops \/ Invalid \/ HostNop \/ LoadImm \/ LoadConst \/ WithImm \/ Arithmetic \/ DivMod
  \/ HostAssert \/ Goto \/ HostCall \/ HostRet
  \/ SpillSave \/ SpillRestore \/ DefineArray \/ DefineStruct
  \/ \E k \in HostKinds : Fetches(k) \/ Stores(k)
  \/ DefineTable \/ LookUp \/ HostNative \/ Deadlines
=============================================================================
