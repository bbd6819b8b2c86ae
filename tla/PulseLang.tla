------------------------------ MODULE PulseLang ------------------------------
(***************************************************************************)
(* What a PulseLang program means, without registers, temporaries, jumps   *)
(* or slots: a big-step evaluation of the tree that Compiler compiles.  It *)
(* is the reference against which the compiler and the machine are         *)
(* checked together, and models no code of its own.                        *)
(*                                                                         *)
(* The state m of an evaluation holds the last value v, the variables, the *)
(* declarations, the output, and how the evaluation stands: "go", "return" *)
(* or the run-time error that ended it.                                    *)
(***************************************************************************)
EXTENDS Px64Words, Sequences, TLC

LOCAL INSTANCE SequencesExt

CONSTANTS RefNative(_, _),   \* a native that computes, of its arguments
          Effects            \* the natives whose calls are output

RefStart == [v |-> 0, st |-> "go", out |-> <<>>, scale |-> <<>>,
             vars |-> <<>>, scales |-> <<>>, arrs |-> <<>>, tabs |-> <<>>, types |-> <<>>,
             insts |-> <<>>, enums |-> <<>>, views |-> <<>>, fns |-> <<>>]

Going(m)   == m.st = "go"
Stop(m, e) == [m EXCEPT !.st = e]
Give(m, v) == [m EXCEPT !.v = v, !.scale = <<>>]

\* A variable that was never assigned is 0.
Look(m, x)    == IF x \in DOMAIN m.vars THEN m.vars[x] ELSE 0
ScaleAt(m, x) == IF x \in DOMAIN m.scales THEN m.scales[x] ELSE <<>>
Bind(m, x, v) == [m EXCEPT !.vars = (x :> v) @@ @]

PosIn(seq, x) == CHOOSE i \in DOMAIN seq : seq[i] = x
Element0(seq, i) == seq[i + 1]

RECURSIVE Ev(_, _), Do(_, _), Run(_, _), Loop(_, _, _)

\* The values of several expressions, from left to right
EvAll(m, es) ==
  FoldLeft(LAMBDA acc, e : LET r == Ev(acc.m, e) IN [m |-> r, vs |-> Append(acc.vs, r.v)],
           [m |-> m, vs |-> <<>>], es)

\* Fixed-point operands have the same scale, and products and quotients keep it.
RefBin(m, op, a, s, b) ==
  CASE op \in {"div", "mod"} /\ b = 0 -> Stop(m, "ERR_PX64_DIV_BY_ZERO")
    [] op = "mul" /\ s # <<>> -> [Give(m, Alu("mul", a, b) \div 2 ^ s[1]) EXCEPT !.scale = s]
    [] op = "div" /\ s # <<>> -> [Give(m, Alu("div", Alu("shl", a, s[1]), b)) EXCEPT !.scale = s]
    [] op \in {"add", "sub"} -> [Give(m, Alu(op, a, b)) EXCEPT !.scale = s]
    [] op = "land" -> Give(m, Bool(a # 0 /\ b # 0))
    [] op = "lor"  -> Give(m, Bool(a # 0 \/ b # 0))
    [] OTHER -> Give(m, Alu(op, a, b))

\* A function sees its parameters and the variables outside it; what it binds
\* is forgotten when it returns.
Apply(m, name, vs) ==
  LET fn == m.fns[name]
      ps == [i \in {fn.params[j] : j \in DOMAIN fn.params} |-> vs[PosIn(fn.params, i)]]
      r0 == Run([m EXCEPT !.vars = ps @@ @],
                [i \in DOMAIN fn.requires |-> [k |-> "assert", e |-> fn.requires[i]]] \o fn.body)
      r1 == Run(IF r0.st = "return" THEN [Bind(r0, "$ret", r0.v) EXCEPT !.st = "go"] ELSE r0,
                [i \in DOMAIN fn.ensures |-> [k |-> "assert", e |-> fn.ensures[i]]])
  IN  [r1 EXCEPT !.vars = m.vars, !.scales = m.scales, !.v = r0.v]

Call(m, name, args) ==
  LET a == EvAll(m, args) IN IF Going(a.m) THEN Apply(a.m, name, a.vs) ELSE a.m

Builtin(m, nat, args) ==
  LET a == EvAll(m, args)
      x == IF args = <<>> THEN 0 ELSE a.vs[1]
  IN  IF ~ Going(a.m) THEN a.m
      ELSE IF nat \in Effects THEN [Give(a.m, Bool(nat = "send")) EXCEPT !.out = Append(@, <<nat, x>>)]
      ELSE IF nat = "unwrap" /\ IsErr(x) THEN Stop(a.m, "ERR_PX64_UNWRAP_FAILED")
      ELSE IF nat = "fix_div" /\ a.vs[2] = 0 THEN Stop(a.m, "ERR_PX64_DIV_BY_ZERO")
      ELSE Give(a.m, RefNative(nat, a.vs))

\* The positions of a view in its array, once its number is known
ViewAt(m, s, n) ==
  LET len == Len(m.arrs[s.x])
  IN  CASE s.k = "row"   -> [x |-> s.x, at |-> [i \in 1 .. s.n |-> n * s.n + i - 1]]
        [] s.k = "col"   -> [x |-> s.x, at |-> [i \in 1 .. len \div s.n |-> n + (i - 1) * s.n]]
        [] s.k = "slice" -> [x |-> s.x, at |-> [i \in 1 .. s.n |-> n + i - 1]]

View(m, s) ==
  IF s.k = "name" THEN [m |-> m, view |-> IF s.x \in DOMAIN m.views THEN m.views[s.x]
                                          ELSE [x |-> s.x, at |-> [i \in DOMAIN m.arrs[s.x] |-> i - 1]]]
  ELSE LET r == Ev(m, s.e) IN [m |-> r, view |-> ViewAt(r, s, r.v)]

\* Element i of an array; outside it the program ends.
At(m, x, i) ==
  IF i \in 0 .. Len(m.arrs[x]) - 1 THEN Give(m, Element0(m.arrs[x], i)) ELSE Stop(m, "ERR_PX64_OUT_OF_BOUNDS")

\* A fold over the elements of a view
Over(m, view, init, Op(_, _)) ==
  FoldLeft(LAMBDA acc, i : IF ~ Going(acc) THEN acc
                           ELSE LET y == At(acc, view.x, i) IN IF Going(y) THEN Op(y, acc.v) ELSE y,
           Give(m, init), view.at)

ZipViews(m, v1, v2, fn, sum) ==
  LET n == IF Len(v1.at) < Len(v2.at) THEN Len(v1.at) ELSE Len(v2.at)
      Pair(acc, i) ==
        LET y == At(acc, v1.x, v1.at[i])
            z == At(y, v2.x, v2.at[i])
            r == IF fn \in DOMAIN m.fns THEN Apply(z, fn, <<y.v, z.v>>) ELSE Give(z, RefNative(fn, <<y.v, z.v>>))
        IN  IF ~ Going(acc) THEN acc ELSE IF ~ Going(y) THEN y ELSE IF ~ Going(z) THEN z
            ELSE [r EXCEPT !.v = IF sum THEN Alu("add", acc.v, @) ELSE @]
  IN  FoldLeft(Pair, Give(m, 0), [i \in 1 .. n |-> i])

\* The value of an expression
Ev(m, e) ==
  LET sub == Ev(m, e.e)
      l   == Ev(m, e.l)
      r   == Ev(l, e.r)
      c   == Ev(m, e.c)
      w1  == View(m, e.view)
      w2  == View(w1.m, e.view2)
  IN  CASE ~ Going(m) -> m
        [] e.k = "num"   -> Give(m, e.n)
        [] e.k = "float" -> [Give(m, e.n) EXCEPT !.scale = <<1>>]
        [] e.k = "var"   -> [Give(m, Look(m, e.x)) EXCEPT !.scale = ScaleAt(m, e.x)]
        [] e.k = "bin"   -> IF Going(r) THEN RefBin(r, e.op, l.v, l.scale, r.v) ELSE r
        [] e.k = "cond"  -> IF ~ Going(c) THEN c ELSE IF c.v # 0 THEN Ev(c, e.t)
                            ELSE IF e.f = <<>> THEN c ELSE Ev(c, e.f[1])
        [] e.k = "idx"   -> IF Going(sub) THEN At(sub, e.x, sub.v) ELSE sub
        [] e.k = "tbl"   -> IF ~ Going(sub) THEN sub
                            ELSE IF sub.v \in 0 .. Len(m.tabs[e.x]) - 1 THEN Give(sub, Element0(m.tabs[e.x], sub.v))
                            ELSE Stop(sub, "ERR_PX64_TABLE_OUT_OF_BOUNDS")
        [] e.k = "field" -> Give(m, m.insts[e.x][e.f])
        [] e.k = "enum"  -> Give(m, PosIn(m.enums[e.x], e.f) - 1)
        [] e.k = "streq" -> LET a == EvAll(m, e.args) IN IF Going(a.m) THEN Give(a.m, Bool(a.vs[1] = a.vs[2])) ELSE a.m
        [] e.k = "call"  -> Call(m, e.fn, e.args)
        [] e.k = "block" -> Run(m, e.body)
        [] e.k = "nat"   -> Builtin(m, e.nat, e.args)
        [] e.k = "pipe"  -> IF Going(sub) THEN Builtin(sub, e.nat, <<[k |-> "num", n |-> sub.v]>>) ELSE sub
        [] e.k = "sum"   -> IF Going(w1.m) THEN Over(w1.m, w1.view, 0, LAMBDA y, acc : Give(y, Alu("add", acc, y.v))) ELSE w1.m
        [] e.k = "reduce" -> IF ~ Going(w1.m) THEN w1.m
                             ELSE LET i == Ev(w1.m, e.e)
                                  IN  IF Going(i) THEN Over(i, w1.view, i.v, LAMBDA y, acc : Apply(y, e.fn, <<acc, y.v>>)) ELSE i
        [] e.k = "zip"   -> IF Going(w2.m) THEN ZipViews(w2.m, w1.view, w2.view, e.fn, e.sum) ELSE w2.m
        [] e.k = "neg"   -> IF Going(sub) THEN Give(sub, Alu("sub", 0, sub.v)) ELSE sub
        [] e.k = "not"   -> IF Going(sub) THEN Give(sub, Bool(sub.v = 0)) ELSE sub

Holds(m) == IF Going(m) /\ m.v = 0 THEN Stop(m, "ERR_PX64_ASSERTION_FAILED") ELSE m
HoldAll(m, es) == FoldLeft(LAMBDA acc, e : Holds(Ev(acc, e)), m, es)

\* An arm that fits the value v: pat.k = "_" fits all.
Fits(m, pat, v) ==
  CASE pat.k = "_"    -> TRUE
    [] pat.k = "enum" -> v = PosIn(m.enums[pat.x], pat.f) - 1
    [] pat.k = "expr" -> v = Ev(m, pat.e).v
    [] pat.k = "ok"   -> ~ IsErr(v)
    [] pat.k = "err"  -> IsErr(v)

Choose(m, v, arms) ==
  LET at  == {i \in DOMAIN arms : Fits(m, arms[i].pat, v)}
      arm == arms[CHOOSE i \in at : \A j \in at : i <= j]
  IN  IF at = {} THEN Stop(m, "no arm fits")
      ELSE Run(IF arm.pat.k \in {"ok", "err"} THEN Bind(m, arm.pat.x, Untag(v)) ELSE m, arm.body)

\* One turn of a loop and the ones after it; a for loop tests s.x < s.to.
Loop(m, s, test) ==
  LET c == Ev(m, test)
      i == IF s.k = "while" THEN HoldAll(c, s.inv) ELSE c
      b == HoldAll(Run(IF s.k = "for" THEN HoldAll(i, s.inv) ELSE i, s.body), s.inv)
  IN  IF ~ Going(i) \/ c.v = 0 THEN i
      ELSE IF ~ Going(b) THEN b
      ELSE Loop(IF s.k = "for" THEN Bind(b, s.x, Alu("add", Look(b, s.x), 1)) ELSE b, s, test)

\* A statement
Do(m, s) ==
  LET r == Ev(m, s.e)
      i == Ev(m, s.i)
      q == Ev(i, s.e)
      c == Ev(m, s.c)
      w == View(m, s.view)
      a == EvAll(m, s.elems)
  IN  CASE ~ Going(m) -> m
        [] s.k = "let"  -> IF Going(r) THEN [Bind(r, s.x, r.v) EXCEPT
                             !.scales = (s.x :> IF s.scale # <<>> THEN s.scale ELSE r.scale) @@ @] ELSE r
        [] s.k = "set"  -> IF Going(r) THEN Bind(r, s.x, r.v) ELSE r
        [] s.k = "inc"  -> IF Going(r) THEN Bind(r, s.x, Alu("add", Look(r, s.x), r.v)) ELSE r
        [] s.k = "dec"  -> IF Going(r) THEN Bind(r, s.x, Alu("sub", Look(r, s.x), r.v)) ELSE r
        [] s.k = "array" -> IF Going(a.m)
                              THEN [a.m EXCEPT !.arrs = (s.x :> (a.vs \o [n \in 1 .. s.n - Len(a.vs) |-> 0])) @@ @] ELSE a.m
        [] s.k = "view"  -> IF Going(w.m) THEN [w.m EXCEPT !.views = (s.x :> w.view) @@ @] ELSE w.m
        [] s.k = "inst"  -> [m EXCEPT !.insts = (s.x :> [f \in {m.types[s.type][n] : n \in DOMAIN m.types[s.type]} |-> 0]) @@ @]
        [] s.k = "store" -> IF ~ Going(q) THEN q
                            ELSE IF i.v \in 0 .. Len(m.arrs[s.x]) - 1 THEN [q EXCEPT !.arrs[s.x][i.v + 1] = q.v]
                            ELSE Stop(q, "ERR_PX64_OUT_OF_BOUNDS")
        [] s.k = "setfield" -> IF Going(r) THEN [r EXCEPT !.insts[s.x][s.f] = r.v] ELSE r
        [] s.k = "if"    -> IF ~ Going(c) THEN c ELSE IF c.v # 0 THEN Run(c, s.t)
                            ELSE IF s.f = <<>> THEN c ELSE Run(c, s.f[1])
        [] s.k = "while" -> Loop(m, s, s.c)
        [] s.k = "for"   -> Loop(Bind(m, s.x, s.from), s,
                                 [k |-> "bin", op |-> "cmp_lt", l |-> [k |-> "var", x |-> s.x], r |-> [k |-> "num", n |-> s.to]])
        [] s.k = "match" -> IF Going(r) THEN Choose(r, r.v, s.arms) ELSE r
        [] s.k = "return" -> IF s.e = <<>> THEN Stop(m, "return")
                             ELSE LET v == Ev(m, s.e[1]) IN IF Going(v) THEN Stop(v, "return") ELSE v
        [] s.k = "assert" -> Holds(r)
        [] s.k \in {"within", "block"} -> Run(m, s.body)
        [] s.k = "fn"     -> [m EXCEPT !.fns = (s.name :> s) @@ @]
        [] s.k = "struct" -> [m EXCEPT !.types = (s.name :> s.fields) @@ @]
        [] s.k = "enumdef" -> [m EXCEPT !.enums = (s.name :> s.variants) @@ @]
        [] s.k = "const"  -> [m EXCEPT !.tabs = (s.name :> s.elems) @@ @]
        [] s.k = "expr"   -> r
        [] OTHER -> m

Run(m, body) == FoldLeft(Do, m, body)

\* The end of a program: "ok", or the error
Meaning(program) ==
  LET r == Run(RefStart, program)
  IN  [result |-> IF r.st \in {"go", "return"} THEN "ok" ELSE r.st, out |-> r.out]
=============================================================================
