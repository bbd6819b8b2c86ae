------------------------------ MODULE PulseScope ------------------------------
(***************************************************************************)
(* The shapes of programs that compiler.rs is known not to compile as they *)
(* are meant, or whose handles it does not follow: the conditions of the   *)
(* properties of Toolchain.  They are read off the tree of a program, the  *)
(* clash of registers off its compilation; they model no code.             *)
(***************************************************************************)
EXTENDS Compiler

LOCAL INSTANCE SequencesExt

\* The phrases directly inside a phrase
Inside(p) ==
  CASE p.k \in {"let", "set", "inc", "dec", "assert", "expr", "setfield", "pipe", "neg", "not",
                "idx", "tbl", "row", "col", "slice"} -> {p.e}
    [] p.k = "bin"    -> {p.l, p.r}
    [] p.k = "cond"   -> {p.c, p.t} \cup ToSet(p.f)
    [] p.k \in {"call", "nat", "streq"} -> ToSet(p.args)
    [] p.k \in {"sum", "view"} -> {p.view}
    [] p.k = "reduce" -> {p.view, p.e}
    [] p.k = "zip"    -> {p.view, p.view2}
    [] p.k = "array"  -> ToSet(p.elems)
    [] p.k = "store"  -> {p.i, p.e}
    [] p.k = "if"     -> {p.c} \cup ToSet(p.t) \cup UNION {ToSet(p.f[i]) : i \in DOMAIN p.f}
    [] p.k = "while"  -> {p.c} \cup ToSet(p.inv) \cup ToSet(p.body)
    [] p.k = "for"    -> ToSet(p.inv) \cup ToSet(p.body)
    [] p.k = "match"  -> {p.e} \cup UNION {ToSet(p.arms[i].body) : i \in DOMAIN p.arms}
                               \cup {p.arms[i].pat : i \in DOMAIN p.arms}
    [] p.k = "return" -> ToSet(p.e)
    [] p.k \in {"within", "block"} -> ToSet(p.body)
    [] p.k = "fn"     -> ToSet(p.requires) \cup ToSet(p.ensures) \cup ToSet(p.body)
    [] OTHER -> {}

\* A phrase with all the phrases in it, and those of a sequence of phrases
RECURSIVE Phrases(_)
Phrases(p) == {p} \cup UNION {Phrases(q) : q \in Inside(p)}
PhrasesOf(ps) == UNION {Phrases(ps[i]) : i \in DOMAIN ps}

Kind(ks, ps) == {p \in ps : p.k \in ks}
Reads(ps)    == {p.x : p \in Kind({"var"}, ps)}
CallKinds    == {"call", "reduce", "zip"}
Functions(program) == Kind({"fn"}, PhrasesOf(program))

-----------------------------------------------------------------------------
(* Meaning *)

\* The names that e reads, also in the functions that it may call
ReadBy(program, e) ==
  Reads(Phrases(e)) \cup
  IF Kind(CallKinds, Phrases(e)) = {} THEN {} ELSE UNION {Reads(Phrases(f)) : f \in Functions(program)}

\* e, computed in the register of x, reads x after it has written the register:
\* $x := $y + $x (compiler.rs:4422).
RECURSIVE Overwrites(_, _, _)
Overwrites(program, x, e) ==
  LET Same(q) == q.k = "var" /\ q.x = x
  IN  CASE e.k = "bin"  -> \/ Overwrites(program, x, e.l)
                           \/ ~ Same(e.l) /\ x \in ReadBy(program, e.r)
        [] e.k = "cond" -> \/ Overwrites(program, x, e.c)
                           \/ \E b \in {e.t} \cup ToSet(e.f) : IF Same(e.c) THEN Overwrites(program, x, b)
                                                               ELSE x \in ReadBy(program, b)
        [] e.k \in {"zip", "reduce"} -> x \in ReadBy(program, e)
        [] OTHER -> FALSE

TargetsReadFirst(program) ==
  \A s \in Kind({"let", "set"}, PhrasesOf(program)) : ~ Overwrites(program, s.x, s.e)

\* No temporary and no argument of a call is put in a register that a variable
\* has (:1646, :4857).
RegistersApart(c) == c.scratch \cap (1 .. c.topVar) = {}

\* A function calls others only in what it returns, since the call takes the
\* registers of its parameters; its contract calls nothing.  No let has the name of
\* a parameter: it would make a variable that nothing reads (:2021).
TailCalls(program) ==
  \A f \in Functions(program) :
    LET calls == Kind(CallKinds, PhrasesOf(f.body))
        tails == {s.e[1] : s \in {r \in Kind({"return"}, PhrasesOf(f.body)) : r.e # <<>>}}
        contract == PhrasesOf(f.requires \o f.ensures)
    IN  /\ \A q \in calls : q \in tails /\ q.k = "call" /\ Kind(CallKinds, PhrasesOf(q.args)) = {}
        /\ Kind(CallKinds, contract) = {}
        /\ \A s \in Kind({"let", "declare", "view"}, PhrasesOf(f.body)) : s.x \notin ToSet(f.params)
        /\ calls # {} => Reads(PhrasesOf(f.ensures)) \cap ToSet(f.params) = {}

\* Names are kept whole (:1832).
NamesFit(program) ==
  LET ps == PhrasesOf(program)
      named == {p.x : p \in Kind({"var", "let", "set", "inc", "dec", "declare", "array", "inst", "view", "idx",
                                  "store", "field", "setfield", "for", "ok", "err", "name", "row", "col", "slice"}, ps)}
      others == {p.name : p \in Kind({"const", "struct"}, ps)}
                  \cup UNION {ToSet(f.params) : f \in Kind({"fn"}, ps)} \cup UNION {ToSet(s.fields) : s \in Kind({"struct"}, ps)}
  IN  \A x \in named \cup others : First16(x) = x

\* Arrays, tables and instances are declared once, outside all blocks: a lookup
\* finds the first of a name, and a base depends on what was defined before.
DeclaredOnce(program) ==
  LET decls == {"array", "inst", "const"}
      top   == {i \in DOMAIN program : program[i].k \in decls}
      NameAt(i) == IF program[i].k = "const" THEN program[i].name ELSE program[i].x
  IN  /\ Kind(decls, PhrasesOf(program)) \subseteq ToSet(program)
      /\ \A i, j \in top : i # j => NameAt(i) # NameAt(j)

\* @reduce starts at 0 (:5024); a view is named by a declaration, not by its array
\* (:738), and its name is no variable otherwise.
ViewsDeclared(program) ==
  LET ps    == PhrasesOf(program)
      views == {v.x : v \in Kind({"view"}, ps)}
  IN  /\ \A r \in Kind({"reduce"}, ps) : r.e.k = "num" /\ r.e.n = 0
      /\ {p.x : p \in Kind({"name"}, ps)} \subseteq views
      /\ \A s \in Kind({"let", "set", "inc", "dec", "for"}, ps) : s.x \notin views

\* Fixed-point literals are values of their own, and products and quotients are
\* of variables with such values: SHR is logical, and folding does not rescale.
FixedSimply(program) ==
  LET ps == PhrasesOf(program)
      literals == {s \in Kind({"let"}, ps) : s.e.k = "float" /\ s.e.n >= 0}
      Positive(e) == e.k = "var" /\ e.x \in {s.x : s \in literals}
                                 /\ \A s \in Kind({"let", "set", "inc", "dec"}, ps) : s.x = e.x => s \in literals
  IN  Kind({"float"}, ps) # {} =>
        /\ Kind({"float"}, ps) = {s.e : s \in literals}
        /\ \A b \in Kind({"bin"}, ps) : Positive(b.l) /\ Positive(b.r)

\* Loops, arms and views do not bind a spilled name: they would use register 255.
\* No function assigns one: RET restores only registers.
NoSpilledBinding(c, program) == c.nspill = 0 \/ Kind({"for", "ok", "err", "view", "fn"}, PhrasesOf(program)) = {}

\* What a clock, a key or the video memory says is not looked at.
Volatile == {"tsc", "uptime_ns", "term_read_key", "term_size", "vram_read"}
Determined(program) ==
  LET ps == PhrasesOf(program)
      vs == {s \in Kind({"let"}, ps) : s.e.k = "nat" /\ s.e.nat \in Volatile}
  IN  /\ {p \in Kind({"nat"}, ps) : p.nat \in Volatile} = {s.e : s \in vs}
      /\ Reads(ps) \cap {s.x : s \in vs} = {}

AsMeant(program) ==
  LET c == Compile(program)
  IN  /\ TargetsReadFirst(program) /\ RegistersApart(c) /\ TailCalls(program) /\ NamesFit(program)
      /\ DeclaredOnce(program) /\ ViewsDeclared(program) /\ FixedSimply(program)
      /\ NoSpilledBinding(c, program) /\ Determined(program)

-----------------------------------------------------------------------------
(* Linear handles *)

IsUse(p) == \/ p.k = "var" /\ IsHandle(p.x)
            \/ p.k \in {"nat", "pipe"} /\ p.nat \in {"capture", "send", "drop"}
Uses(ps) == {p \in ps : IsUse(p)}

\* The typestates of arms, of the branches of ?: and of functions are not joined
\* with those around them, and a return at the top level is not looked at (:2065).
Joined(program) ==
  LET ps == PhrasesOf(program)
  IN  /\ \A q \in Kind({"match", "cond", "fn"}, ps) : Uses(Phrases(q)) = {}
      /\ Kind({"return"}, UNION {Phrases(program[i]) : i \in {j \in DOMAIN program : program[j].k # "fn"}}) = {}

\* @within ... !drop counts what is captured as dropped (:2425), and the machine
\* drops nothing.
NothingDropped(program) == \A w \in Kind({"within"}, PhrasesOf(program)) : ~ w.drop

\* A handle is assigned only a capture or another handle, and is otherwise only
\* the argument of @send and @release.
OnlyMoved(program) ==
  LET ps    == PhrasesOf(program)
      binds == {s \in Kind({"let", "set"}, ps) : IsHandle(s.x)}
      ends  == {p \in Kind({"nat"}, ps) : p.nat \in {"send", "drop"}}
      taken == {s.e : s \in binds}
      given == {p.args[1] : p \in ends}
  IN  /\ taken \cup given \subseteq Uses(ps)
      /\ given \subseteq Kind({"var"}, ps)
      /\ \A p \in ps : \A q \in Uses(Inside(p)) : p \in binds \/ p \in ends \/ q \in ends
      /\ {p \in Kind({"pipe"}, ps) : p.nat \in {"send", "drop"}} = {}

Followed(program) ==
  Uses(PhrasesOf(program)) # {} => Joined(program) /\ NothingDropped(program) /\ OnlyMoved(program)
=============================================================================
