------------------------------ MODULE MCPX64VM -------------------------------
(* Programs for PX64VM: every program of three or four instructions from one *)
(* of five instruction sets (calls, arrays, structs, tables, time), on a     *)
(* machine with three registers, of which two are saved by a call.           *)
EXTENDS PX64VM

Word == -2 .. 1
Wrap(v) == ((v + 2) % 4) - 2
MCAlu(op, a, b) ==
  CASE op \in {"add", "addi"} -> Wrap(a + b)
    [] op = "cmp" -> IF a = b THEN 1 ELSE 0
    [] op \in {"div", "mod"} -> Wrap(a)
    [] OTHER -> a

Ins(op, rd, rs1, rs2) ==
  [op |-> op, rd |-> rd, rs1 |-> rs1, rs2 |-> rs2, imm |-> rs2, nat |-> "other"]
Native(nat, rd, arg) == [Ins("call_nat", rd, 0, arg) EXCEPT !.nat = nat]

CallCode == {Ins("call", 0, 0, 1), Ins("call", 0, 0, 3), Ins("ret", 0, 0, 0),
             Ins("addi", 1, 1, 1), Ins("add", 0, 0, 1), Ins("jz", 1, 0, 4),
             Ins("spill_store", 0, 1, 0), Ins("spill_load", 2, 0, 0)}
ArrayCode == {Ins("arr_def", 0, 0, 1), Ins("arr_def", 1, 0, 1), Ins("arr_def", 1, 0, 2),
              Ins("arr_def", 2, 0, 1), Ins("arr_store", 0, 0, 1), Ins("arr_store", 1, 1, 1),
              Ins("arr_store", 2, 0, 1), Ins("arr_load", 0, 1, 1), Ins("addi", 1, 1, 1)}
RecordCode == {Ins("struct_def", 0, 1, 0), Ins("struct_def", 1, 2, 0), Ins("struct_def", 2, 1, 0),
               Ins("struct_store", 1, 1, 1), Ins("struct_store", 2, 0, 3), Ins("struct_load", 0, 2, 1),
               Ins("struct_load", 0, 1, 0),
               Ins("mov_imm", 1, 0, 1)}
TableCode == {Ins("tbl_def", 0, 0, 1), Ins("tbl_def", 0, 1, 1), Ins("tbl_load", 1, 0, 0),
              Ins("div", 0, 1, 1), Ins("assert", 1, 0, 0), Ins("ldc", 0, 0, 1), Ins("ldc", 1, 0, 0)}
TimeCode == {Native("print", 0, 0), Native("busy_wait", 1, 1),
             Native("unwrap", 1, 1), Native("fix_div", 1, 2),
             Native("pair", 1, 4), Native("vram", 0, 2),
             Ins("within_start", 0, 0, 0), Ins("within_end", 0, 0, 0), Ins("drop", 0, 0, 0),
             Ins("jmp", 0, 0, 1), Ins("jnz", 1, 0, 1), Ins("halt", 0, 0, 0)}
Odd == {<<Ins("nop", 0, 0, 0), Ins("cmp", 0, 3, 1), Ins("div", 3, 0, 0), Ins("unknown", 0, 0, 0)>>}

Length(n, S) == [1 .. n -> S]
MCPrograms == Length(4, CallCode) \cup Length(4, ArrayCode) \cup Length(4, RecordCode)
                \cup Length(3, TableCode) \cup Length(3, TimeCode) \cup Odd
MCConstPool == <<1>>
=============================================================================
