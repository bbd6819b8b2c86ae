------------------------------ MODULE Compiler -------------------------------
(***************************************************************************)
(* The single-pass PulseLang compiler of pulselang-core/src/compiler.rs: an *)
(* operator from a program to px64 code or an error.                       *)
(*                                                                         *)
(* A program is a tree of records, one per phrase of the grammar, in the   *)
(* order in which the recursive-descent functions meet them; the token     *)
(* stream and its syntax errors are left out.  The state of the compiler   *)
(* is the record c; once c.err is set it no longer changes (Rust's ?).     *)
(* Instructions are those of PX64VM; positions count instructions from 1.  *)
(***************************************************************************)
EXTENDS Px64Words, Sequences, FiniteSets

LOCAL INSTANCE SequencesExt

CONSTANTS ImmMax,          \* the largest MOV_IMM operand (65535)
          MaxCode,         \* MAX_BYTECODE_SIZE in instructions
          MaxConsts,       \* MAX_CONST_POOL (64)
          MaxVmSteps,      \* MAX_VM_STEPS (10_000)
          MaxSpills,       \* spilled variables (32)
          MaxTable,        \* arrays, structs, instances, tables, views (8)
          First16(_),      \* the first 16 bytes of a name, all that most tables keep
          RegisterLike     \* the names that begin with $r or #

VarRegs   == 13
TempRegs  == 8 .. 15
Slots     == 0 .. 3
ParamRegs == <<7, 6, 2, 1>>
Spilled   == 255
MaxEnum   == 16

\* Compiler::new.  scratch and topVar are history: the registers that were given to
\* temporaries and arguments, and the last one that was given to a variable.
Fresh ==
  [code |-> <<>>, consts |-> <<>>, err |-> "",
   temps |-> {}, scratch |-> {}, topVar |-> 0,
   vars |-> <<>>, nspill |-> 0,
   arrays |-> <<>>, total |-> 0, maxElements |-> 256, maxArrays |-> 8,
   structs |-> <<>>, insts |-> <<>>, fields |-> 0,
   enums |-> <<>>, tables |-> <<>>, views |-> <<>>,
   fns |-> <<>>, cur |-> 0,
   hs |-> [s \in Slots |-> "Unallocated"],
   scale |-> <<>>, target |-> <<>>, etype |-> "",
   imports |-> {"all"}, wcet |-> <<>>]

Fail(c, code) == IF c.err = "" THEN [c EXCEPT !.err = code] ELSE c

\* A guard of the source: return Err(code) unless ok holds.
Need(c, ok, code) == IF c.err = "" /\ ~ ok THEN Fail(c, code) ELSE c

\* Positions in a table of records with a name; 0 if there is none.  The whole
\* name is looked for: a longer one than the table keeps is never found.
Find(table, name) ==
  LET at == {i \in DOMAIN table : table[i].name = name}
  IN  IF at = {} THEN 0 ELSE CHOOSE i \in at : \A j \in at : i <= j

-----------------------------------------------------------------------------
(* Emitting code *)

Ins4(op, rd, rs1, rs2) ==
  [op |-> op, rd |-> rd, rs1 |-> rs1, rs2 |-> rs2, imm |-> rs2, nat |-> "other"]
Ins16(op, rd, imm) == Ins4(op, rd, 0, imm)

Here(c) == Len(c.code) + 1

\* emit_inst and emit_imm16
Emit(c, ins) ==
  IF c.err # "" THEN c
  ELSE IF Len(c.code) >= MaxCode THEN Fail(c, "ERR_BYTECODE_OVERFLOW")
  ELSE [c EXCEPT !.code = Append(@, ins)]

EmitNat(c, dst, nat, arg) == Emit(c, [Ins4("call_nat", dst, 0, arg) EXCEPT !.nat = nat])

\* patch_imm16 with the current position
Patch(c, pos) ==
  IF c.err # "" THEN c ELSE [c EXCEPT !.code[pos].imm = Here(c)]

AddConst(c, v) ==
  IF c.err # "" \/ \E i \in DOMAIN c.consts : c.consts[i] = v THEN c
  ELSE IF Len(c.consts) >= MaxConsts THEN Fail(c, "ERR_CONST_POOL_FULL")
  ELSE [c EXCEPT !.consts = Append(@, v)]

ConstIndex(c, v) ==
  IF c.err # "" THEN 0
  ELSE (CHOOSE i \in DOMAIN c.consts : c.consts[i] = v /\ \A j \in 1 .. i - 1 : c.consts[j] # v) - 1

\* emit_const
EmitConst(c, dst, v) ==
  IF v \in 0 .. ImmMax THEN Emit(c, Ins16("mov_imm", dst, v))
  ELSE LET p == AddConst(c, v) IN Emit(p, Ins16("ldc", dst, ConstIndex(p, v)))

EmitOption(c, dst, v) == IF v = <<>> THEN c ELSE EmitConst(c, dst, v[1])

\* alloc_temp: the highest free register, from 15 down to 8.
FreeTemps(c) == TempRegs \ c.temps
TempOf(c) == IF FreeTemps(c) = {} THEN 0
             ELSE CHOOSE r \in FreeTemps(c) : \A q \in FreeTemps(c) : q <= r
Alloc(c) ==
  IF c.err # "" THEN c
  ELSE IF FreeTemps(c) = {} THEN Fail(c, "ERR_EXPR_TOO_COMPLEX")
  ELSE [c EXCEPT !.temps = @ \cup {TempOf(c)}, !.scratch = @ \cup {TempOf(c)}]

Scratch(c, regs) == [c EXCEPT !.scratch = @ \cup regs]

\* free_temp
Free(c, r) == [c EXCEPT !.temps = @ \ {r}]

-----------------------------------------------------------------------------
(* Variables *)

\* The names with a register of their own; of $rax .. $r15 only $ret is used.
FixedReg(x) ==
  CASE x = "$ret" -> 0
    [] x = "#f0" -> 16 [] x = "#f1" -> 17 [] x = "#f2" -> 18 [] x = "#f3" -> 19
    [] OTHER -> -1

IsHandle(x) == FixedReg(x) \in 16 .. 19
SlotOf(x)   == FixedReg(x) - 16

NewVar(c, x, mut) ==
  [c EXCEPT !.topVar = IF Len(c.vars) < VarRegs /\ @ < 1 + Len(c.vars) THEN 1 + Len(c.vars) ELSE @,
            !.vars = Append(@, [name |-> First16(x), mut |-> mut, scale |-> <<>>, etype |-> "",
     reg  |-> IF Len(@) < VarRegs THEN 1 + Len(@) ELSE Spilled,
     slot |-> IF Len(@) < VarRegs THEN 0 ELSE c.nspill])]

\* declare_var: a variable that exists keeps its place.
DeclareVar(c, x, mut) ==
  LET at == Find(c.vars, x)
  IN  IF c.err # "" \/ FixedReg(x) >= 0 THEN c
      ELSE IF at > 0 THEN [c EXCEPT !.vars[at].mut = mut]
      ELSE IF Len(c.vars) < VarRegs THEN NewVar(c, x, mut)
      ELSE IF c.nspill >= MaxSpills THEN Fail(c, "ERR_MAX_VARS_EXCEEDED")
      ELSE [NewVar(c, x, mut) EXCEPT !.nspill = @ + 1]

\* The place of x among the parameters of the function that is compiled; 0 if none.
ParamIndex(c, x) ==
  LET ps == IF c.cur = 0 THEN <<>> ELSE c.fns[c.cur].params
      at == {i \in DOMAIN ps : ps[i] = x}
  IN  IF at = {} THEN 0 ELSE CHOOSE i \in at : TRUE

\* resolve_var: parameters first, then variables; an unknown name is declared.
ResolveVar(c, x) ==
  IF c.err # "" \/ FixedReg(x) >= 0 \/ ParamIndex(c, x) > 0 \/ Find(c.vars, x) > 0 THEN c
  ELSE IF Len(c.vars) >= VarRegs THEN Fail(c, "ERR_MAX_VARS_EXCEEDED")
  ELSE NewVar(c, x, TRUE)

\* The register that declare_var returns, which does not look at parameters.  A
\* name that is not found has just been declared, so it is the last one.
DeclaredReg(c, x) ==
  CASE FixedReg(x) >= 0 -> FixedReg(x)
    [] FixedReg(x) < 0 /\ c.vars = <<>> -> 0
    [] OTHER -> c.vars[IF Find(c.vars, x) > 0 THEN Find(c.vars, x) ELSE Len(c.vars)].reg

\* Mutant: the second parameter is looked for in the first one's register.
RegOfSwapped(c, x) ==
  IF FixedReg(x) < 0 /\ ParamIndex(c, x) > 0 THEN ParamRegs[1] ELSE DeclaredReg(c, x)

\* The register that resolve_var returns
RegOf(c, x) ==
  IF FixedReg(x) < 0 /\ ParamIndex(c, x) > 0 THEN ParamRegs[ParamIndex(c, x)] ELSE DeclaredReg(c, x)

\* is_spilled_var, which does not look at parameters
IsSpilled(c, x) == Find(c.vars, x) > 0 /\ c.vars[Find(c.vars, x)].reg = Spilled
SpillSlot(c, x) == c.vars[Find(c.vars, x)].slot

\* check_var_mutation
CheckMutation(c, x) ==
  Need(c, x \in RegisterLike \/ Find(c.vars, x) = 0 \/ c.vars[Find(c.vars, x)].mut,
       "ERR_MUTABILITY_VIOLATION")

ScaleOf(c, x) ==
  IF ParamIndex(c, x) > 0 THEN c.fns[c.cur].scales[ParamIndex(c, x)]
  ELSE IF Find(c.vars, x) = 0 THEN <<>> ELSE c.vars[Find(c.vars, x)].scale
EnumOf(c, x) == IF Find(c.vars, x) = 0 THEN "" ELSE c.vars[Find(c.vars, x)].etype

-----------------------------------------------------------------------------
(* Ownership of hardware handles *)

\* @send and @release of a handle
Consume(c, x, state) ==
  LET s == c.hs[SlotOf(x)]
  IN  CASE c.err # "" -> c
        [] s = "Unallocated" -> Fail(c, "ERR_LINEAR_USE_BEFORE_ALLOC")
        [] s = "Moved" -> Fail(c, "ERR_RESOURCE_USE_AFTER_MOVE")
        [] s \in {"Sent", "Dropped"} ->
             Fail(c, IF state = "Sent" THEN "ERR_LINEAR_DOUBLE_SEND" ELSE "ERR_RESOURCE_DOUBLE_RELEASE")
        [] OTHER -> [c EXCEPT !.hs[SlotOf(x)] = state]

\* The phrase with which e begins
RECURSIVE First(_)
First(e) ==
  CASE e.k = "bin"  -> First(e.l)
    [] e.k = "cond" -> First(e.c)
    [] e.k = "pipe" -> First(e.e)
    [] OTHER -> e

\* The handle that an assignment moves from: the first token of its right side.
MovedFrom(e) == IF First(e).k = "var" /\ IsHandle(First(e).x) THEN First(e).x ELSE ""

\* check_hw_assign_pre
HwAssignPre(c, x, e) ==
  IF ~ IsHandle(x) THEN c
  ELSE LET d == Need(c, c.hs[SlotOf(x)] # "Captured", "ERR_LINEAR_OVERWRITE")
           m == MovedFrom(e)
       IN  IF m = "" THEN d
           ELSE IF c.hs[SlotOf(m)] = "Unallocated" THEN Fail(d, "ERR_LINEAR_USE_BEFORE_ALLOC")
           ELSE Need(d, c.hs[SlotOf(m)] = "Captured", "ERR_RESOURCE_USE_AFTER_MOVE")

\* Mutant: the source of a move stays captured.
HwAssignPostCopies(c, x, e) ==
  IF ~ IsHandle(x) \/ c.err # "" THEN c ELSE [c EXCEPT !.hs[SlotOf(x)] = "Captured"]

\* apply_hw_assign_post
HwAssignPost(c, x, e) ==
  IF ~ IsHandle(x) \/ c.err # "" THEN c
  ELSE LET m == MovedFrom(e)
           d == IF m = "" THEN c ELSE [c EXCEPT !.hs[SlotOf(m)] = "Moved"]
       IN  [d EXCEPT !.hs[SlotOf(x)] = "Captured"]

\* The states before and after the body of a loop
LoopKeeps(a, b) == a = b \/ (a = "Unallocated" /\ b \in {"Sent", "Dropped", "Moved"})

\* The states after the two branches of an if
BranchesAgree(a, b) == a = b \/ {a, b} = {"Sent", "Dropped"}

-----------------------------------------------------------------------------
(* Tables of declarations *)

\* declare_array, with its ARR_DEF
DeclareArray(c, x, n) ==
  LET d == Need(Need(c, Len(c.arrays) < c.maxArrays, "ERR_MAX_ARRAYS_EXCEEDED"),
                c.total + n <= c.maxElements, "ERR_ARRAY_CAPACITY_EXCEEDED")
  IN  Emit(IF d.err # "" THEN d
           ELSE [d EXCEPT !.arrays = Append(@, [name |-> First16(x), len |-> n]), !.total = @ + n],
           Ins16("arr_def", Len(c.arrays), n))

\* lookup_array and lookup_const_table: ids count from 0.
NeedArray(c, x) == Need(c, Find(c.arrays, x) > 0, "ERR_ARRAY_UNDEFINED")
ArrayId(c, x)   == Find(c.arrays, x) - 1
NeedTable(c, x) == Need(c, Find(c.tables, x) > 0, "ERR_UNKNOWN_CONST_TABLE")
TableId(c, x)   == Find(c.tables, x) - 1

\* declare_const_table: the elements are appended without looking for equal ones.
DeclareTable(c, x, n, elems) ==
  LET d == Need(Need(Need(Need(Need(c,
             Len(c.tables) < MaxTable, "ERR_MAX_TABLES_EXCEEDED"),
             Find(c.tables, x) = 0, "ERR_TABLE_REDEFINED"),
             n \in 1 .. 64, "ERR_TABLE_INVALID_LEN"),
             Len(c.consts) + Len(elems) <= MaxConsts, "ERR_CONST_POOL_FULL"),
             Len(elems) = n, "ERR_TABLE_LENGTH_MISMATCH")
  IN  Emit(IF d.err # "" THEN d
           ELSE [d EXCEPT !.tables = Append(@, [name |-> First16(x)]), !.consts = @ \o elems],
           Ins4("tbl_def", Len(c.tables), Len(c.consts), n))

\* declare_struct_def and declare_enum_def: [name, fields] and [name, variants]
DeclareStruct(c, x, fields) ==
  LET d == Need(Need(Need(c, Len(c.structs) < MaxTable, "ERR_MAX_STRUCTS_EXCEEDED"),
             Find(c.structs, x) = 0, "ERR_STRUCT_REDEFINED"),
             Len(fields) <= 8, "ERR_MAX_FIELDS_EXCEEDED")
  IN  IF d.err # "" THEN d ELSE [d EXCEPT !.structs = Append(@, [name |-> First16(x), fields |-> [i \in DOMAIN fields |-> First16(fields[i])]])]

DeclareEnum(c, x, variants) ==
  LET d == Need(Need(Need(Need(c, Len(c.enums) < MaxEnum, "ERR_MAX_ENUMS_EXCEEDED"),
             Find(c.enums, x) = 0, "ERR_DUPLICATE_ENUM_NAME"),
             Len(variants) <= MaxEnum, "ERR_MAX_VARIANTS_EXCEEDED"),
             IsInjective(variants), "ERR_DUPLICATE_ENUM_VARIANT")
  IN  IF d.err # "" THEN d ELSE [d EXCEPT !.enums = Append(@, [name |-> x, variants |-> variants])]

\* declare_struct_inst
DeclareInst(c, x, type) ==
  LET at == Find(c.structs, type)
      d  == Need(Need(c, at > 0, "ERR_UNKNOWN_STRUCT_TYPE"),
                 Len(c.insts) < MaxTable, "ERR_MAX_STRUCT_INSTS_EXCEEDED")
      n  == Len(c.structs[at].fields)
      f  == Need(d, d.err # "" \/ d.fields + n <= 256, "ERR_STRUCT_CAPACITY_EXCEEDED")
  IN  IF f.err # "" THEN f
      ELSE Emit([f EXCEPT !.insts = Append(@, [name |-> First16(x), def |-> at]), !.fields = @ + n],
                Ins4("struct_def", Len(c.insts), n, 0))

\* lookup_struct_field: the id of the instance and the offset of the field
FieldsOf(c, x) == c.structs[c.insts[Find(c.insts, x)].def].fields
HasField(c, x, f) == Find(c.insts, x) > 0 /\ \E i \in DOMAIN FieldsOf(c, x) : FieldsOf(c, x)[i] = f
NeedField(c, x, f) ==
  Need(Need(c, Find(c.insts, x) > 0, "ERR_UNKNOWN_STRUCT_VAR"),
       HasField(c, x, f), "ERR_UNKNOWN_STRUCT_FIELD")
InstId(c, x)      == Find(c.insts, x) - 1
OffsetOf(c, x, f) == (CHOOSE i \in DOMAIN FieldsOf(c, x) : FieldsOf(c, x)[i] = f) - 1

\* lookup_enum_by_name and lookup_enum_variant
VariantsOf(c, x) == IF Find(c.enums, x) = 0 THEN <<>> ELSE c.enums[Find(c.enums, x)].variants
NeedVariant(c, x, v) ==
  Need(Need(c, Find(c.enums, x) > 0, "ERR_UNKNOWN_ENUM_TYPE"),
       \E i \in DOMAIN VariantsOf(c, x) : VariantsOf(c, x)[i] = v, "ERR_UNKNOWN_ENUM_VARIANT")
VariantNo(c, x, v) ==
  IF c.err # "" THEN 0 ELSE (CHOOSE i \in DOMAIN VariantsOf(c, x) : VariantsOf(c, x)[i] = v) - 1

\* declare_view: a view that exists is replaced, if the table is not full.
DeclareView(c, x, view) ==
  LET d  == Need(c, Len(c.views) < MaxTable, "ERR_MAX_VIEWS_EXCEEDED")
      at == Find(c.views, x)
      v  == [name |-> First16(x), arr |-> view.arr, base |-> view.base, stride |-> view.stride, len |-> view.len]
  IN  IF d.err # "" THEN d
      ELSE IF at > 0 THEN [d EXCEPT !.views[at] = v] ELSE [d EXCEPT !.views = Append(@, v)]

\* declare_pool_size
PoolSizes(c, elements, arrays) ==
  [c EXCEPT !.maxElements = IF elements = 0 THEN @ ELSE elements,
            !.maxArrays   = IF arrays = 0 THEN @ ELSE arrays]

-----------------------------------------------------------------------------
(* Runtimes *)

\* @import: the first one replaces "all"; each brings the ones it builds on.
Brings(rt) ==
  CASE rt = "tiny" -> {"tiny"}
    [] rt = "core" -> {"core", "tiny"}
    [] rt = "math" -> {"math", "core", "tiny"}
    [] rt = "fix"  -> {"fix", "core"}
    [] rt = "sys"  -> {"sys", "core"}
    [] rt = "net"  -> {"net", "sys", "core"}
    [] rt = "vram" -> {"vram", "core"}
    [] rt = "gpu"  -> {"gpu", "vram", "sys", "core"}
    [] rt = "term" -> {"term", "file", "sys", "core", "tiny"}
    [] rt = "file" -> {"file", "core", "tiny"}
    [] OTHER -> {}

Import(c, rt) ==
  LET d == Need(c, Brings(rt) # {}, "ERR_UNKNOWN_RUNTIME")
  IN  [d EXCEPT !.imports = (@ \ {"all"}) \cup Brings(rt)]

\* check_intrinsic_runtime
RuntimeOf(nat) ==
  CASE nat \in {"print", "println"} -> "tiny"
    [] nat \in {"min", "max", "abs", "clamp", "popcnt", "lzcnt", "crc32"} -> "math"
    [] nat \in {"to_fix", "to_i64", "fix_mul", "fix_div"} -> "fix"
    [] nat \in {"tsc", "core_id", "tsc_freq", "uptime_ns", "busy_wait", "ring_depth"} -> "sys"
    [] nat \in {"rtt", "rate", "send"} -> "net"
    [] nat \in {"vram_read", "vram_write"} -> "vram"
    [] nat = "capture" -> "gpu"
    [] nat \in {"term_raw", "term_read_key", "term_size"} -> "term"
    [] nat \in {"file_read", "file_write", "file_exists"} -> "file"
    [] OTHER -> "core"

NeedRuntime(c, nat) ==
  Need(c, "all" \in c.imports \/ RuntimeOf(nat) \in c.imports, "ERR_RUNTIME_NOT_IMPORTED")

-----------------------------------------------------------------------------
(* Expressions.  Val compiles e for register dst and returns the compiler   *)
(* with the value of e if it is known, which is not yet in dst; Into leaves *)
(* the value in dst.                                                        *)

RECURSIVE Val(_, _, _), Into(_, _, _), Block(_, _)

Unknown(c)  == [c |-> c, v |-> <<>>]
Known(c, n) == [c |-> c, v |-> <<n>>]

LoadOperands(c, dst, t, a, b) == EmitOption(EmitOption(c, dst, a), t, b)

\* The shift of a fixed-point product or quotient
Rescale(c, op, dst, s) ==
  LET u == TempOf(c)
  IN  Free(Emit(Emit(Alloc(c), Ins16("mov_imm", u, s)), Ins4(op, dst, dst, u)), u)

\* logic_or, logic_and: both sides are always evaluated and reduced to 0 or 1.
Logic(c, op, dst, t) ==
  LET z == TempOf(c)
      d == Emit(EmitConst(Alloc(c), z, 0), Ins4("cmp_ne", dst, dst, z))
      b == TempOf(d)
      f == Emit(Emit(Alloc(d), Ins4("cmp_ne", b, t, z)),
                Ins4(IF op = "lor" THEN "or" ELSE "and", dst, dst, b))
  IN  Free(Free(f, b), z)

Scaled(c, s) == [c EXCEPT !.scale = s]

\* The operation dst := dst op t, with s1 and s2 the scales of the operands
Combine(c, op, dst, t, s1, s2) ==
  LET plain == Emit(c, Ins4(op, dst, dst, t))
      some  == IF s1 # <<>> THEN s1 ELSE s2
      agree == Need(c, s1 = s2, "ERR_FIXED_SCALE_MISMATCH")
  IN  CASE op \in {"land", "lor"} -> Logic(c, op, dst, t)
        [] op = "mul" /\ <<>> \notin {s1, s2} ->
             Scaled(Rescale(Emit(agree, Ins4(op, dst, dst, t)), "shr", dst, s1[1]), s1)
        [] op = "mul" /\ <<>> \in {s1, s2} /\ s1 # s2 -> Scaled(Rescale(plain, "shr", dst, some[1]), <<>>)
        [] op = "div" /\ <<>> \notin {s1, s2} ->
             Scaled(Emit(Rescale(agree, "shl", dst, s1[1]), Ins4(op, dst, dst, t)), s1)
        [] op \in {"mul", "div", "mod"} -> Scaled(plain, <<>>)
        [] OTHER -> plain

\* Both sides known: the value is computed at compile time.
Fold(op, a, b) ==
  CASE op = "land" -> Bool(a # 0 /\ b # 0)
    [] op = "lor"  -> Bool(a # 0 \/ b # 0)
    [] OTHER -> Alu(op, a, b)

\* A constant that Fold cannot compute
FoldError(op, b) == op \in {"div", "mod"} /\ b = 0

\* equality ... factor: the left side uses dst, the right one a temporary.
Binary(c, e, dst) ==
  LET a  == Val(c, e.l, dst)
      t  == TempOf(a.c)
      b  == Val(Alloc(a.c), e.r, t)
      s1 == a.c.scale
      s2 == b.c.scale
      d  == Need(b.c, ~ (e.op \in {"add", "sub"} /\ <<>> \notin {s1, s2} /\ s1 # s2),
                 "ERR_FIXED_SCALE_MISMATCH")
  IN  IF <<>> \notin {a.v, b.v}
        THEN IF FoldError(e.op, b.v[1]) THEN Unknown(Fail(d, "ERR_DIV_BY_ZERO"))
             ELSE Known(Free(d, t), Fold(e.op, a.v[1], b.v[1]))
        ELSE Unknown(Free(Combine(LoadOperands(d, dst, t, a.v, b.v), e.op, dst, t, s1, s2), t))

Branch(c, b, dst) == IF b.k = "block" THEN Block(c, b.body) ELSE Into(c, b, dst)

\* ternary: e.f is <<>> if there is no branch after a colon.
Ternary(c, e, dst) ==
  LET a  == Val(c, e.c, dst)
      d  == EmitOption(a.c, dst, a.v)
      t  == Branch(Emit(d, Ins16("jz", dst, 0)), e.t, dst)
      j  == Emit(t, Ins16("jmp", 0, 0))
      f  == Branch(Patch(j, Here(d)), e.f[1], dst)
  IN  Unknown(IF e.f = <<>> THEN Patch(t, Here(d)) ELSE Patch(f, Here(t)))

\* A variable, spilled or in a register; a name never seen is declared.
Variable(c, x, dst) ==
  LET d == [c EXCEPT !.etype = EnumOf(c, x), !.scale = ScaleOf(c, x)]
      r == ResolveVar(d, x)
      m == Need(r, ~ IsHandle(x) \/ r.hs[SlotOf(x)] # "Moved", "ERR_RESOURCE_USE_AFTER_MOVE")
  IN  IF c.err # "" THEN c
      ELSE IF IsSpilled(c, x) THEN Emit(d, Ins4("spill_load", dst, SpillSlot(c, x), 0))
      ELSE IF RegOf(r, x) = dst THEN m ELSE Emit(m, Ins4("mov_reg", dst, RegOf(r, x), 0))

\* $a[e] and TABLE[e]
Indexed(c, op, id, e, dst) ==
  LET t == TempOf(c) IN Free(Emit(Into(Alloc(c), e, t), Ins4(op, dst, id, t)), t)

\* A literal with a fraction: e.n is its value in units of 2^-scale.
Float(c, e, dst) ==
  LET s == IF c.target = <<>> THEN 16 ELSE c.target[1]
      d == AddConst(c, e.n)
  IN  Known(Scaled(Emit(d, Ins16("ldc", dst, ConstIndex(d, e.n))), <<s>>), e.n)

\* Arguments, each into a temporary of its own
Arguments(c, args) ==
  FoldLeft(LAMBDA acc, e : [c    |-> Into(Alloc(acc.c), e, TempOf(acc.c)),
                            regs |-> Append(acc.regs, TempOf(acc.c))],
           [c |-> c, regs |-> <<>>], args)

FreeAll(c, regs) == [c EXCEPT !.temps = @ \ {regs[i] : i \in DOMAIN regs}]

\* A call of a script function: $rdi, $rsi, $rdx and $rcx are loaded before CALL
\* saves the caller's frame.
UserCall(c, fn, args, dst) ==
  LET n == Len(fn.params)
      a == Arguments(c, SubSeq(args, 1, IF Len(args) < n THEN Len(args) ELSE n))
      d == Need(a.c, Len(args) <= n, "ERR_TOO_MANY_ARGS")
      m == FoldLeft(LAMBDA acc, i : Emit(acc, Ins4("mov_reg", ParamRegs[i], a.regs[i], 0)),
                    Scratch(d, {ParamRegs[i] : i \in DOMAIN a.regs}), [i \in DOMAIN a.regs |-> i])
      f == Need(FreeAll(m, a.regs), Len(args) >= n, "ERR_TOO_FEW_ARGS")
      g == Emit(f, Ins16("call", 0, fn.entry))
  IN  IF dst = 0 THEN g ELSE Emit(g, Ins4("mov_reg", dst, 0, 0))

\* The handle that is the argument of @send or @release
Consuming(c, nat, args) ==
  IF nat \in {"send", "drop"} /\ Len(args) = 1 /\ MovedFrom(args[1]) # ""
    THEN Consume(c, MovedFrom(args[1]), IF nat = "send" THEN "Sent" ELSE "Dropped") ELSE c

\* A call of a native: the machine finds further arguments in the registers
\* just below the first one's.
NativeCall(c, nat, args, dst) ==
  LET a == Arguments(Consuming(c, nat, args), args)
      r == IF args = <<>> THEN 0 ELSE a.regs[1]
  IN  FreeAll(EmitNat(NeedRuntime(a.c, nat), dst, nat, r), a.regs)

-----------------------------------------------------------------------------
(* Views of arrays, and the loops over them *)

\* parse_view_source_to_reg.  @row multiplies its row number, @col and @slice
\* start at theirs; a named view keeps the register of its declaration.
ViewInto(c, s, base) ==
  LET d   == NeedArray(c, s.x)
      len == c.arrays[Find(c.arrays, s.x)].len
      e   == Into(d, s.e, base)
      t   == TempOf(e)
      row == Free(Emit(Emit(Alloc(e), Ins16("mov_imm", t, s.n)), Ins4("mul", base, base, t)), t)
      V(arr, stride, n) == [arr |-> arr, base |-> base, stride |-> stride, len |-> n]
  IN  CASE s.k = "name" /\ Find(c.views, s.x) > 0 -> [c |-> c, view |-> c.views[Find(c.views, s.x)]]
        [] d.err # "" -> [c |-> d, view |-> V(0, 1, 0)]
        [] s.k = "name"  -> [c |-> Emit(d, Ins16("mov_imm", base, 0)), view |-> V(ArrayId(c, s.x), 1, len)]
        [] s.k = "row"   -> [c |-> row, view |-> V(ArrayId(c, s.x), 1, s.n)]
        [] s.k = "col"   -> [c |-> e, view |-> V(ArrayId(c, s.x), s.n, len \div s.n)]
        [] s.k = "slice" -> [c |-> e, view |-> V(ArrayId(c, s.x), 1, s.n)]

\* parse_view_source: a whole array starts at whatever $rax holds, and the
\* temporary of @row, @col and @slice is never freed.
ViewOf(c, s) ==
  LET d == NeedArray(c, s.x)
  IN  IF s.k # "name" THEN ViewInto(Alloc(c), s, TempOf(c))
      ELSE IF Find(c.views, s.x) > 0 THEN [c |-> c, view |-> c.views[Find(c.views, s.x)]]
      ELSE [c |-> d, view |-> [arr |-> ArrayId(c, s.x), base |-> 0, stride |-> 1,
                               len |-> IF d.err = "" THEN c.arrays[Find(c.arrays, s.x)].len ELSE 0]]

\* i := 0; while i < n ...
StartLoop(c, n) ==
  LET i  == TempOf(c)
      c1 == Emit(Alloc(c), Ins16("mov_imm", i, 0))
      m  == TempOf(c1)
      c2 == Emit(Alloc(c1), Ins16("mov_imm", m, n))
      q  == TempOf(c2)
      c3 == Emit(Alloc(c2), Ins4("cmp_lt", q, i, m))
  IN  [c |-> Emit(c3, Ins16("jz", q, 0)), i |-> i, n |-> m, cond |-> q, top |-> Here(c2), exit |-> Here(c3)]

EndLoop(c, l) ==
  LET d == Emit(Emit(c, Ins4("addi", l.i, l.i, 1)), Ins16("jmp", 0, l.top))
  IN  Free(Free(Free(Patch(d, l.exit), l.cond), l.n), l.i)

\* The element i of a view, in register ElementReg(c).
ElementReg(c) == TempOf(Alloc(c))
Element(c, view, i) ==
  LET x  == TempOf(c)
      c1 == Alloc(c)
      u  == TempOf(c1)
      c2 == IF view.stride = 1 THEN Emit(c1, Ins4("add", x, view.base, i))
            ELSE Free(Emit(Emit(Emit(Alloc(c1), Ins16("mov_imm", u, view.stride)),
                                Ins4("mul", x, i, u)), Ins4("add", x, x, view.base)), u)
  IN  Free(Emit(Alloc(c2), Ins4("arr_load", ElementReg(c), view.arr, x)), x)

\* compile_sum_to_reg
Sum(c, view, dst) ==
  LET l == StartLoop(Emit(c, Ins16("mov_imm", dst, 0)), view.len)
      y == ElementReg(l.c)
      b == Emit(Element(l.c, view, l.i), Ins4("add", dst, dst, y))
  IN  EndLoop(Free(b, y), l)

\* compile_reduce_to_reg, as primary calls it: the initial value is moved to dst
\* and then overwritten with 0.
Reduce(c, view, init, fn, dst) ==
  LET t == TempOf(c)
      d == Free(Emit(Into(Alloc(c), init, t), Ins4("mov_reg", dst, t, 0)), t)
      f == Need(d, Find(c.fns, fn) > 0, "ERR_UNKNOWN_FUNCTION")
      l == StartLoop(Emit(Scratch(f, {7, 6}), Ins16("mov_imm", dst, 0)), view.len)
      y == ElementReg(l.c)
      b == Free(Emit(Emit(Element(l.c, view, l.i), Ins4("mov_reg", 7, dst, 0)), Ins4("mov_reg", 6, y, 0)), y)
      g == Emit(Emit(b, Ins16("call", 0, c.fns[Find(c.fns, fn)].entry)), Ins4("mov_reg", dst, 0, 0))
  IN  IF f.err # "" THEN f ELSE EndLoop(g, l)

\* The natives that @zip_with knows by name
Combinators == {"min", "max", "abs", "clamp", "popcnt", "lzcnt", "crc32",
                "to_fix", "to_i64", "fix_mul", "fix_div", "print", "println"}

\* compile_zip_with_to_reg: without |> @sum the last result is left in dst.
ZipWith(c, v1, v2, fn, sum, dst) ==
  LET f  == Need(c, Find(c.fns, fn) > 0 \/ fn \in Combinators, "ERR_UNKNOWN_FUNCTION")
      n  == IF v1.len < v2.len THEN v1.len ELSE v2.len
      l  == StartLoop(IF sum THEN Emit(f, Ins16("mov_imm", dst, 0)) ELSE f, n)
      s  == Free(l.c, l.cond)
      y1 == ElementReg(s)
      e1 == Element(s, v1, l.i)
      y2 == ElementReg(e1)
      e2 == Element(e1, v2, l.i)
      Result(d, r) == Emit(d, IF sum THEN Ins4("add", dst, dst, r) ELSE Ins4("mov_reg", dst, r, 0))
      user == Emit(FreeAll(Emit(Emit(Scratch(e2, {7, 6}), Ins4("mov_reg", 7, y1, 0)), Ins4("mov_reg", 6, y2, 0)), <<y1, y2>>),
                   Ins16("call", 0, c.fns[Find(c.fns, fn)].entry))
      nat  == FreeAll(Result(EmitNat(e2, y1, fn, y1), y1), <<y1, y2>>)
  IN  IF f.err # "" THEN f ELSE EndLoop(IF Find(c.fns, fn) > 0 THEN Result(user, 0) ELSE nat, l)

\* ternary and what it calls
Val(c, e, dst) ==
  LET t    == TempOf(c)
      u    == TempOf(Alloc(c))
      v1   == ViewOf(c, e.view)
      v2   == ViewOf(v1.c, e.view2)
      fd   == NeedField(c, e.x, e.f)
      neg  == Val(Alloc(EmitConst(Alloc(c), t, 0)), e.e, u)
      not  == Val(Alloc(c), e.e, t)
      z    == TempOf(not.c)
      eq   == Arguments(c, e.args)
  IN  CASE c.err # ""    -> Unknown(c)
        [] e.k = "num"   -> Known(c, e.n)
        [] e.k = "float" -> Float(c, e, dst)
        [] e.k = "var"   -> Unknown(Variable(c, e.x, dst))
        [] e.k = "bin"   -> Binary(c, e, dst)
        [] e.k = "cond"  -> Ternary(c, e, dst)
        [] e.k = "idx"   -> Unknown(Indexed(NeedArray(c, e.x), "arr_load", ArrayId(c, e.x), e.e, dst))
        [] e.k = "tbl"   -> Unknown(Indexed(NeedTable(c, e.x), "tbl_load", TableId(c, e.x), e.e, dst))
        [] e.k = "field" -> Unknown(IF fd.err # "" THEN fd
                              ELSE Emit(c, Ins4("struct_load", dst, InstId(c, e.x), OffsetOf(c, e.x, e.f))))
        [] e.k = "enum"  -> LET d == NeedVariant(c, e.x, e.f)
                                n == VariantNo(d, e.x, e.f)
                            IN  Known(Emit([d EXCEPT !.etype = e.x], Ins16("mov_imm", dst, n)), n)
        [] e.k = "streq" -> Unknown(FreeAll(Emit(eq.c, Ins4("streq", dst, eq.regs[1], eq.regs[2])), eq.regs))
        [] e.k = "call"  -> Unknown(IF Find(c.fns, e.fn) = 0 THEN Fail(c, "ERR_UNKNOWN_INTRINSIC")
                                    ELSE UserCall(c, c.fns[Find(c.fns, e.fn)], e.args, dst))
        [] e.k = "nat"   -> Unknown(NativeCall(c, e.nat, e.args, dst))
        [] e.k = "sum"   -> Unknown(Sum(v1.c, v1.view, dst))
        [] e.k = "reduce" -> Unknown(Reduce(v1.c, v1.view, e.e, e.fn, dst))
        [] e.k = "zip"   -> Unknown(ZipWith(v2.c, v1.view, v2.view, e.fn, e.sum, dst))
        [] e.k = "neg"   -> IF neg.v # <<>> THEN Known(FreeAll(neg.c, <<t, u>>), Fold("sub", 0, neg.v[1]))
                            ELSE Unknown(FreeAll(Emit(neg.c, Ins4("sub", dst, t, u)), <<t, u>>))
        [] e.k = "not"   -> IF not.v # <<>> THEN Known(Free(not.c, t), Fold("cmp_eq", not.v[1], 0))
                            ELSE Unknown(FreeAll(Emit(EmitConst(Alloc(not.c), z, 0),
                                                      Ins4("cmp_eq", dst, t, z)), <<t, z>>))

\* expression: the value in dst, then the pipes, which only know a handle by
\* the register it is in.
Into(c, e, dst) ==
  LET a == Val(c, e, dst)
      p == Into(c, e.e, dst)
      h == IF dst \in 16 .. 19 /\ e.nat \in {"send", "drop"}
             THEN Consume(p, <<"#f0", "#f1", "#f2", "#f3">>[dst - 15], IF e.nat = "send" THEN "Sent" ELSE "Dropped")
             ELSE p
  IN  IF e.k = "pipe" THEN EmitNat(NeedRuntime(h, e.nat), dst, e.nat, dst)
      ELSE EmitOption(a.c, dst, a.v)

-----------------------------------------------------------------------------
(* Statements *)

RECURSIVE Stmt(_, _)

Block(c, body) == FoldLeft(Stmt, c, body)

\* emit_invariant_check, emit_ensures_checks, @requires
Check(c, e) ==
  LET t == TempOf(c) IN Free(Emit(Into(Alloc(c), e, t), Ins4("assert", t, 0, 0)), t)
Checks(c, es) == FoldLeft(Check, c, es)

\* A value to store: into a temporary that the store releases
Stored(c, e, Op(_)) ==
  LET t == TempOf(c) IN Free(Emit(Into(Alloc(c), e, t), Op(t)), t)

\* The elements of an array literal: index and value in two temporaries
Elements(c, id, elems) ==
  FoldLeft(LAMBDA d, i :
             LET x == TempOf(d)
                 y == TempOf(Alloc(d))
                 v == Into(Emit(Alloc(Alloc(d)), Ins16("mov_imm", x, i - 1)), elems[i], y)
             IN  FreeAll(Emit(v, Ins4("arr_store", id, x, y)), <<x, y>>),
           c, [i \in 1 .. Len(elems) |-> i])

LetArray(c, s) ==
  LET d == DeclareArray(Need(c, s.n > 0, "ERR_ARRAY_INVALID_LEN"), s.x, s.n)
      k == IF Len(s.elems) > s.n THEN s.n ELSE Len(s.elems)
  IN  Need(Elements(d, Len(c.arrays), SubSeq(s.elems, 1, k)),
           Len(s.elems) <= s.n, "ERR_ARRAY_INIT_TOO_MANY_ELEMENTS")

LetView(c, s) ==
  LET d == DeclareVar(c, s.x, s.mut)
      v == ViewInto(d, s.view, DeclaredReg(d, s.x))
  IN  DeclareView(v.c, s.x, v.view)

\* The annotation, or else the type of the value, becomes the variable's.
Typed(c, x, scale, etype) ==
  IF c.err # "" \/ Find(c.vars, x) = 0 THEN c
  ELSE [c EXCEPT !.vars[Find(c.vars, x)].scale = IF scale # <<>> THEN scale ELSE c.scale,
                 !.vars[Find(c.vars, x)].etype = IF etype # "" THEN etype ELSE c.etype]

\* A declaration without a value takes its annotation.
LetDeclared(c, s) ==
  LET d == DeclareVar(c, s.x, s.mut)
  IN  IF d.err # "" \/ Find(d.vars, s.x) = 0 \/ (s.scale = <<>> /\ s.etype = "") THEN d
      ELSE [d EXCEPT !.vars[Find(d.vars, s.x)].scale = s.scale, !.vars[Find(d.vars, s.x)].etype = s.etype]

LetVar(c, s) ==
  LET d == DeclareVar(c, s.x, s.mut)
      p == [HwAssignPre(d, s.x, s.e) EXCEPT !.etype = "", !.scale = <<>>, !.target = s.scale]
      v == IF IsSpilled(d, s.x) THEN Stored(p, s.e, LAMBDA t : Ins4("spill_store", SpillSlot(d, s.x), t, 0))
           ELSE Into(p, s.e, DeclaredReg(d, s.x))
  IN  [Typed(HwAssignPost(v, s.x, s.e), s.x, s.scale, s.etype) EXCEPT !.target = <<>>]

\* $x := e
AssignVar(c, s) ==
  LET d == IF IsSpilled(c, s.x) THEN c ELSE ResolveVar(c, s.x)
      m == CheckMutation(d, s.x)
      p == [(IF IsSpilled(c, s.x) THEN m ELSE HwAssignPre(m, s.x, s.e)) EXCEPT !.etype = ""]
      v == IF IsSpilled(c, s.x) THEN Stored(p, s.e, LAMBDA t : Ins4("spill_store", SpillSlot(c, s.x), t, 0))
           ELSE HwAssignPost(Into(p, s.e, RegOf(d, s.x)), s.x, s.e)
  IN  IF v.err # "" \/ Find(v.vars, s.x) = 0 THEN v
      ELSE [v EXCEPT !.vars[Find(v.vars, s.x)].etype = v.etype]

\* $x += e and $x -= e
Accumulate(c, s) ==
  LET op  == IF s.k = "inc" THEN "add" ELSE "sub"
      imm == IF s.k = "inc" THEN "addi" ELSE "subi"
      d   == ResolveVar(c, s.x)
      m   == CheckMutation(d, s.x)
      r   == RegOf(d, s.x)
      cs  == CheckMutation(c, s.x)
      t   == TempOf(cs)
      ld  == Emit(Alloc(cs), Ins4("spill_load", t, SpillSlot(c, s.x), 0))
      u   == TempOf(ld)
      ad  == Emit(Into(Alloc(ld), s.e, u), Ins4(op, t, t, u))
  IN  IF IsSpilled(c, s.x) THEN FreeAll(Emit(ad, Ins4("spill_store", SpillSlot(c, s.x), t, 0)), <<t, u>>)
      ELSE IF s.e.k = "num" /\ s.e.n \in 0 .. 255 THEN Emit(m, Ins4(imm, r, r, s.e.n))
      ELSE Stored(m, s.e, LAMBDA x : Ins4(op, r, r, x))

\* $a[i] := e
StoreElement(c, s) ==
  LET d == NeedArray(c, s.x)
      i == TempOf(d)
      f == Into(Alloc(d), s.i, i)
  IN  Free(Stored(f, s.e, LAMBDA t : Ins4("arr_store", ArrayId(c, s.x), i, t)), i)

StoreField(c, s) ==
  LET d == NeedField(c, s.x, s.f)
  IN  IF d.err # "" THEN d
      ELSE Stored(d, s.e, LAMBDA t : Ins4("struct_store", InstId(c, s.x), OffsetOf(c, s.x, s.f), t))

\* if: s.f is <<>> if there is no else.
If(c, s) ==
  LET d  == Into(c, s.c, 0)
      t  == Block(Emit(d, Ins16("jz", 0, 0)), s.t)
      j  == Patch(Emit(t, Ins16("jmp", 0, 0)), Here(d))
      f  == Patch(Block([j EXCEPT !.hs = d.hs], s.f[1]), Here(t))
      r  == IF s.f = <<>> THEN Patch(t, Here(d)) ELSE f
      hs == IF s.f = <<>> THEN d.hs ELSE f.hs
  IN  [Need(r, \A h \in Slots : BranchesAgree(t.hs[h], hs[h]), "ERR_TYPESTATE_MISMATCH") EXCEPT !.hs = t.hs]

\* while: the condition may not begin with a number other than 0.
While(c, s) ==
  LET d == Need(c, First(s.c).k # "num" \/ First(s.c).n = 0, "ERR_UNBOUNDED_LOOP")
      q == Checks(Into(d, s.c, 0), s.inv)
      b == Checks(Block(Emit(q, Ins16("jz", 0, 0)), s.body), s.inv)
      k == Need(b, \A h \in Slots : LoopKeeps(q.hs[h], b.hs[h]), "ERR_TYPESTATE_MISMATCH")
  IN  Patch(Emit(k, Ins16("jmp", 0, Here(c))), Here(q))

\* Mutant: the loop's own four instructions are not counted.
ForStepsBare(body, n) == body * n

\* The instructions that a for loop is estimated to execute
ForSteps(body, n) == (body + 4) * n

For(c, s) ==
  LET r == ResolveVar(c, s.x)
      v == RegOf(r, s.x)
      d == EmitConst(r, v, s.from)
      t == TempOf(d)
      e == EmitConst(Alloc(d), t, s.to)
      q == Emit(Emit(e, Ins4("cmp_lt", 0, v, t)), Ins16("jz", 0, 0))
      p == Checks(q, s.inv)
      b == Checks(Block(p, s.body), s.inv)
      k == Need(b, \A h \in Slots : LoopKeeps(p.hs[h], b.hs[h]), "ERR_TYPESTATE_MISMATCH")
      n == IF s.to > s.from THEN s.to - s.from ELSE 0
      w == Need(k, ForSteps(Len(b.code) - Len(p.code), n) <= MaxVmSteps, "ERR_FOR_WCET_EXCEEDED")
      j == Emit(Emit(w, Ins4("addi", v, v, 1)), Ins16("jmp", 0, Here(e)))
  IN  Free(Patch(j, Here(e) + 1), t)

\* The test of an arm against the value in register m: the compiler after it, and
\* the place of the jump that skips the arm.
ArmTest(c, m, pat) ==
  LET t    == TempOf(c)
      a    == Alloc(c)
      n    == IF pat.k = "enum" THEN Emit(a, Ins16("mov_imm", t, VariantNo(c, pat.x, pat.f)))
              ELSE Into(a, pat.e, t)
      u    == TempOf(n)
      eq   == Free(Emit(Alloc(n), Ins4("cmp_eq", u, m, t)), t)
      nat  == Free(Emit(EmitNat(a, t, IF pat.k = "ok" THEN "is_err" ELSE "is_ok", m), Ins16("jnz", t, 0)), t)
      bind == ResolveVar(nat, pat.x)
      w    == TempOf(bind)
      x    == RegOf(bind, pat.x)
      ok   == Emit(EmitNat(Alloc(bind), w, "unwrap", m), Ins4("mov_reg", x, w, 0))
      err  == Emit(EmitConst(Alloc(bind), w, ErrTag), Ins4("xor", x, m, w))
  IN  IF pat.k \in {"enum", "expr"}
        THEN [c |-> Free(Emit(eq, Ins16("jz", u, 0)), u), skip |-> Here(eq)]
        ELSE [c |-> Free(IF pat.k = "ok" THEN ok ELSE err, w), skip |-> Here(a) + 1]

\* The checks of an enum arm, with the arms before it in acc
EnumArm(acc, pat) ==
  LET d == Need(Need(acc.c, Find(acc.c.enums, pat.x) > 0, "ERR_UNKNOWN_ENUM_TYPE"),
                acc.et \in {"", pat.x}, "ERR_ENUM_TYPE_MISMATCH")
  IN  Need(NeedVariant(d, pat.x, pat.f), pat.f \notin acc.seen, "ERR_UNREACHABLE_PATTERN")

\* One arm.  The states of the handles run from arm to arm in the order of the
\* text; nothing joins them.
Arm(acc, arm) ==
  LET p == arm.pat
      d == IF p.k = "enum" THEN EnumArm(acc, p) ELSE acc.c
      q == ArmTest(d, acc.m, p)
      b == Block(IF p.k = "_" THEN d ELSE q.c, arm.body)
      j == Emit(b, Ins16("jmp", 0, 0))
  IN  IF acc.c.err # "" \/ acc.wild THEN [acc EXCEPT !.c = Fail(@, "ERR_UNCLOSED_BRACE")]
      ELSE IF d.err # "" \/ Len(acc.ends) >= 16
        THEN [acc EXCEPT !.c = Fail(d, "ERR_MAX_MATCH_ARMS_EXCEEDED")]
      ELSE [acc EXCEPT !.c    = IF p.k = "_" THEN j ELSE Patch(j, q.skip),
                       !.ends = Append(@, Here(b)),
                       !.seen = @ \cup (IF p.k = "enum" THEN {p.f} ELSE {}),
                       !.res  = @ \cup ({p.k} \cap {"ok", "err"}),
                       !.wild = p.k = "_",
                       !.et   = IF p.k = "enum" THEN p.x ELSE @]

Exhaustive(acc) ==
  \/ acc.wild
  \/ acc.et # "" /\ \A i \in DOMAIN VariantsOf(acc.c, acc.et) : VariantsOf(acc.c, acc.et)[i] \in acc.seen
  \/ acc.et = "" /\ acc.res = {"ok", "err"}

Match(c, s) ==
  LET m == TempOf(c)
      v == Into([Alloc(c) EXCEPT !.etype = ""], s.e, m)
      a == FoldLeft(Arm, [c |-> v, m |-> m, ends |-> <<>>, seen |-> {}, res |-> {},
                          wild |-> FALSE, et |-> v.etype], s.arms)
      d == Need(a.c, Exhaustive(a), "ERR_NON_EXHAUSTIVE_MATCH")
  IN  Free(FoldLeft(Patch, d, a.ends), m)

\* fn: compiled in place, behind a jump over it.  Its variables are forgotten at
\* its end, the states of handles are not.
Function(c, s) ==
  LET d  == Need(Need(Need(c, Len(c.fns) < 16, "ERR_MAX_FNS_EXCEEDED"),
                 Find(c.fns, s.name) = 0, "ERR_FN_REDEFINED"),
                 Len(s.params) <= 4, "ERR_MAX_PARAMS_EXCEEDED")
      j  == Emit(d, Ins16("jmp", 0, 0))
      fn == [name |-> s.name, params |-> [i \in DOMAIN s.params |-> First16(s.params[i])], scales |-> s.scales,
             entry |-> Here(j), ensures |-> SubSeq(s.ensures, 1, IF Len(s.ensures) < 4 THEN Len(s.ensures) ELSE 4)]
      e  == Checks([j EXCEPT !.fns = Append(@, fn), !.cur = Len(j.fns) + 1], s.requires)
      b  == Block(e, s.body)
      w  == 3 * (Len(b.code) - Len(e.code))
      k  == Need(b, s.wcet = <<>> \/ (IF w < 10 THEN 10 ELSE w) <= s.wcet[1], "ERR_WCET_CONTRACT_MISMATCH")
      r  == Emit(Checks(k, fn.ensures), Ins4("ret", 0, 0, 0))
  IN  IF j.err # "" THEN j
      ELSE Patch([r EXCEPT !.vars = SubSeq(@, 1, Len(c.vars)), !.cur = c.cur], Here(d))

Return(c, s) ==
  LET d == IF s.e = <<>> THEN c ELSE Into(c, s.e[1], 0)
  IN  Emit(IF c.cur = 0 THEN d ELSE Checks(d, c.fns[c.cur].ensures), Ins4("ret", 0, 0, 0))

\* @within: with !drop, the handles that are still captured count as dropped.
Within(c, s) ==
  LET d == Emit(EmitConst(c, 0, s.ns), Ins4("within_start", 0, 0, 0))
      b == Emit(Block(d, s.body), Ins4("within_end", 0, 0, 0))
      f == [Emit(b, Ins4("drop", 0, 0, 0)) EXCEPT
              !.hs = [h \in Slots |-> IF @[h] = "Captured" THEN "Dropped" ELSE @[h]]]
  IN  IF s.drop THEN f ELSE b

\* statement
Stmt(c, s) ==
  CASE c.err # ""       -> c
    [] s.k = "let"      -> LetVar(c, s)
    [] s.k = "declare"  -> LetDeclared(c, s)
    [] s.k = "array"    -> LetArray(c, s)
    [] s.k = "view"     -> LetView(c, s)
    [] s.k = "inst"     -> DeclareInst(c, s.x, s.type)
    [] s.k = "set"      -> AssignVar(c, s)
    [] s.k \in {"inc", "dec"} -> Accumulate(c, s)
    [] s.k = "store"    -> StoreElement(c, s)
    [] s.k = "setfield" -> StoreField(c, s)
    [] s.k = "if"       -> If(c, s)
    [] s.k = "while"    -> While(c, s)
    [] s.k = "for"      -> For(c, s)
    [] s.k = "match"    -> Match(c, s)
    [] s.k = "fn"       -> Function(c, s)
    [] s.k = "return"   -> Return(c, s)
    [] s.k = "assert"   -> Emit(Into(c, s.e, 0), Ins4("assert", 0, 0, 0))
    [] s.k = "within"   -> Within(c, s)
    [] s.k = "block"    -> Block(c, s.body)
    [] s.k = "import"   -> Import(c, s.rt)
    [] s.k = "pool"     -> PoolSizes(c, s.elements, s.arrays)
    [] s.k = "struct"   -> DeclareStruct(c, s.name, s.fields)
    [] s.k = "enumdef"  -> DeclareEnum(c, s.name, s.variants)
    [] s.k = "const"    -> DeclareTable(c, s.name, s.n, s.elems)
    [] s.k = "contract" -> [c EXCEPT !.wcet = s.wcet]
    [] s.k = "test"     -> c
    [] s.k = "expr"     -> Into(c, s.e, 0)

\* compile
Compile(program) ==
  LET b == Block(Fresh, program)
      h == Emit(Need(b, \A s \in Slots : b.hs[s] # "Captured", "ERR_LINEAR_UNCONSUMED_HANDLE"),
                Ins4("halt", 0, 0, 0))
  IN  Need(h, h.wcet = <<>> \/ 3 * Len(h.code) <= h.wcet[1], "ERR_WCET_CONTRACT_MISMATCH")
=============================================================================
