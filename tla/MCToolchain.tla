----------------------------- MODULE MCToolchain -----------------------------
(***************************************************************************)
(* Toolchain with Compiler and PulseLang, on words of six bits, and the    *)
(* programs that are tried.  The last group of them has the shapes that    *)
(* PulseScope excepts from the properties.                                 *)
(***************************************************************************)
EXTENDS Toolchain, PulseScope, PulseLang

LOCAL INSTANCE SequencesExt

\* Two names of more than 16 bytes and what the tables keep of them
MCFirst16(x) == CASE x = "$deadline_of_frame" -> "$deadline_of_fra"
                  [] x = "$deadline_of_frames" -> "$deadline_of_fra"
                  [] OTHER -> x

MCCrc(a, b) == Alu("xor", a, b)

MCNative(nat, vs) ==
  LET a == vs[1]
      b == IF Len(vs) > 1 THEN vs[2] ELSE 0
      c == IF Len(vs) > 2 THEN vs[3] ELSE 0
  IN  CASE nat \in {"min", "max", "abs", "clamp", "popcnt", "lzcnt", "crc32"} -> Maths(nat, a, b, c)
        [] nat \in {"tag_ok", "tag_err", "is_ok", "is_err", "unwrap"} -> Tagged(nat, a)
        [] nat \in {"to_fix", "to_i64", "fix_mul", "fix_div"} -> Fixed(nat, a, b, c)
        [] OTHER -> Answer(nat)

-----------------------------------------------------------------------------
(* Phrases *)

Num(n)        == [k |-> "num", n |-> n]
Var(x)        == [k |-> "var", x |-> x]
Bin(op, l, r) == [k |-> "bin", op |-> op, l |-> l, r |-> r]
Neg(e)        == [k |-> "neg", e |-> e]
Not(e)        == [k |-> "not", e |-> e]
Nat1(nat, e)  == [k |-> "nat", nat |-> nat, args |-> <<e>>]
Nat2(nat, e, f) == [k |-> "nat", nat |-> nat, args |-> <<e, f>>]
Fn2(fn, e, f) == [k |-> "call", fn |-> fn, args |-> <<e, f>>]
Choice(c, t, f) == [k |-> "cond", c |-> c, t |-> t, f |-> <<f>>]
At0(x, e)     == [k |-> "idx", x |-> x, e |-> e]
From(x, e)    == [k |-> "tbl", x |-> x, e |-> e]
Of(x, f)      == [k |-> "field", x |-> x, f |-> f]
Src(k, x, e, n) == [k |-> k, x |-> x, e |-> e, n |-> n]

Expr(e)     == [k |-> "expr", e |-> e]
Show(e)    == Expr(Nat1("print", e))
Let(x, e)   == [k |-> "let", x |-> x, mut |-> TRUE, scale |-> <<>>, etype |-> "", e |-> e]
Assign(x, e) == [k |-> "set", x |-> x, e |-> e]
Inc(x, e)   == [k |-> "inc", x |-> x, e |-> e]
Dec(x, e)   == [k |-> "dec", x |-> x, e |-> e]
Cell(x, i, e) == [k |-> "store", x |-> x, i |-> i, e |-> e]
IfElse(c, t, f) == [k |-> "if", c |-> c, t |-> t, f |-> <<f>>]
IfOnly(c, t)    == [k |-> "if", c |-> c, t |-> t, f |-> <<>>]
Loop1(c, inv, body) == [k |-> "while", c |-> c, inv |-> inv, body |-> body]
Times(x, to, inv, body) == [k |-> "for", x |-> x, from |-> 0, to |-> to, inv |-> inv, body |-> body]
Cases(e, arms) == [k |-> "match", e |-> e, arms |-> arms]
When(pat, body) == [pat |-> pat, body |-> body]
Def(name, params, req, ens, body) ==
  [k |-> "fn", name |-> name, params |-> params, scales |-> [i \in DOMAIN params |-> <<>>],
   requires |-> req, ensures |-> ens, wcet |-> <<>>, body |-> body]
Ret(e) == [k |-> "return", e |-> <<e>>]

A == Var("$a")
B == Var("$b")

-----------------------------------------------------------------------------
(* Expressions: every operation over every pair of operands, and nests of two *)

Data == << Let("$a", Num(5)), Let("$b", Neg(Num(2))),
           [k |-> "array", x |-> "$r", n |-> 3, elems |-> <<Num(1), A, B>>],
           [k |-> "const", name |-> "T", n |-> 2, elems |-> <<7, -9>>],
           [k |-> "struct", name |-> "S", fields |-> <<"u", "w">>],
           [k |-> "inst", x |-> "$s", type |-> "S"],
           [k |-> "setfield", x |-> "$s", f |-> "w", e |-> Bin("add", A, Num(1))] >>
Fns == << Def("f", <<"$p", "$q">>, <<>>, <<>>, <<Ret(Bin("sub", Var("$p"), Var("$q")))>>) >>

AllOps == {"add", "sub", "mul", "div", "mod", "and", "or", "xor", "shl", "shr", "land", "lor",
           "cmp_eq", "cmp_ne", "cmp_lt", "cmp_le", "cmp_gt", "cmp_ge"}
Plain == {Num(0), Num(3), A, B}
Atoms == Plain \cup {Neg(A), Not(B), At0("$r", Num(1)), At0("$r", Bin("sub", A, Num(2))), From("T", Num(1)), Of("$s", "w"),
                     Choice(A, B, Num(3)), Nat2("min", A, B), Fn2("f", B, A)}
Exprs == {Bin(op, l, r) : op \in AllOps, l \in Plain, r \in Plain}
           \cup {Bin(op, l, r) : op \in {"sub", "div", "land"}, l \in Atoms, r \in Atoms}
           \cup {Bin(op, Bin(oq, l, B), r) : op \in {"sub", "mul"}, oq \in {"sub", "mod", "lor"}, l \in Atoms, r \in Plain}
           \cup {Bin(op, l, Bin(oq, r, A)) : op \in {"sub", "mul"}, oq \in {"sub", "mod", "lor"}, l \in Atoms, r \in Plain}
ExprPrograms == {Data \o Fns \o <<Let("$x", e), Show(Var("$x"))>> : e \in Exprs}

-----------------------------------------------------------------------------
(* Control: branches, loops with invariants, matches, deadlines *)

Simple == {Show(A), Inc("$a", Num(3)), Dec("$a", B), Assign("$a", Bin("mul", B, Num(3))),
           Cell("$r", Bin("sub", A, Num(4)), B), [k |-> "assert", e |-> A]}
Bodies == {<<s>> : s \in Simple} \cup {<<s, Show(At0("$r", Num(1)))>> : s \in Simple}
Tests  == {A, Bin("cmp_lt", A, B), Bin("lor", B, Num(0)), Not(Bin("cmp_ge", A, Num(5)))}
Small  == Bin("cmp_lt", A, Num(9))
Nest(b) == {<<IfElse(t, b, <<Show(Num(1))>>)>> : t \in Tests} \cup {<<IfOnly(t, b)>> : t \in Tests}
             \cup {<<Loop1(Small, inv, b \o <<Inc("$a", Num(2))>>)>> : inv \in {<<>>, <<B>>}}
             \cup {<<Times("$i", n, inv, b \o <<Show(Var("$i"))>>)>> : n \in {0, 2}, inv \in {<<>>, <<A>>}}
             \cup {<<[k |-> "within", ns |-> 3, body |-> b, drop |-> d]>> : d \in BOOLEAN}
Nested == UNION {Nest(b) : b \in Bodies}
Twice  == UNION {Nest(b) : b \in {n \in Nested : n[1].k \in {"if", "while"}}}

Colours == <<"red", "green">>
Colour(f) == [k |-> "enum", x |-> "C", f |-> f]
Wild == [k |-> "_"]
Pat(e) == [k |-> "expr", e |-> e]
OkAs(x)  == [k |-> "ok", x |-> x]
ErrAs(x) == [k |-> "err", x |-> x]
Matches ==
  {<<Let("$m", e), Cases(Var("$m"), <<When(Pat(Num(5)), <<Inc("$a", Num(1))>>), When(Pat(A), b), When(Wild, <<Show(Num(9))>>)>>)>>
     : e \in {A, B, Num(5)}, b \in Bodies}
  \cup {<<[k |-> "enumdef", name |-> "C", variants |-> Colours], Let("$m", Colour(v)), Cases(Var("$m"), arms)>>
     : v \in {"red", "green"},
       arms \in {<<When(Colour("red"), <<Show(A)>>), When(Colour("green"), <<Show(B)>>)>>,
                 <<When(Colour("green"), <<Show(A)>>), When(Wild, <<Inc("$a", Num(1))>>)>>,
                 <<When(Colour("red"), <<Show(A)>>)>>,
                 <<When(Colour("red"), <<>>), When(Colour("red"), <<>>)>>}}
  \cup {<<Let("$m", Nat1(nat, e)), Cases(Var("$m"), arms), Show(Nat1("is_ok", Var("$m"))), Show(Nat1("unwrap", Var("$m")))>>
     : nat \in {"tag_ok", "tag_err"}, e \in {A, Num(0)},
       arms \in {<<When(OkAs("$v"), <<Show(Var("$v"))>>), When(ErrAs("$w"), <<Show(Var("$w")), Show(A)>>)>>,
                 <<When(ErrAs("$v"), <<Show(Var("$v"))>>)>>}}

ControlPrograms == {SubSeq(Data, 1, 3) \o body \o <<Show(A)>> : body \in Nested \cup Twice \cup Matches}

-----------------------------------------------------------------------------
(* Functions, views, fixed-point and spilled variables *)

P == Var("$p")
Q == Var("$q")
Spec1 == {<<>>, <<Bin("cmp_gt", P, Q)>>}
Funs == {Def("g", <<"$p", "$q">>, req, ens, body) :
           req \in Spec1, ens \in {<<>>, <<Bin("cmp_lt", Var("$ret"), Num(9))>>},
           body \in {<<Ret(Bin("sub", P, Q))>>, <<Let("$l", Bin("mul", Q, P)), Ret(Bin("add", Var("$l"), A))>>,
                     <<IfOnly(Bin("cmp_lt", P, Num(1)), <<Ret(Q)>>), Ret(Fn2("g", Bin("sub", P, Num(2)), Bin("add", Q, P)))>>,
                     <<Ret(Fn2("f", Q, P))>>}}
Calls == {Fn2("g", A, B), Fn2("g", Fn2("f", A, B), Num(2)), Bin("sub", Fn2("g", B, A), Fn2("f", A, Num(1))), Fn2("g", A, Num(1))}
FnPrograms == {SubSeq(Data, 1, 2) \o Fns \o <<g, Let("$x", e), Show(Var("$x")), Show(A)>> : g \in Funs, e \in Calls}

Grid == << Let("$a", Num(1)), [k |-> "array", x |-> "$r", n |-> 6, elems |-> [i \in 1 .. 6 |-> Num(i)]] >>
Views == {Src("row", "$r", A, 3), Src("col", "$r", A, 2), Src("slice", "$r", A, 2), Src("slice", "$r", Num(5), 2)}
Named(x, v) == [k |-> "view", x |-> x, mut |-> FALSE, view |-> v]
ViewUses(v) == {[k |-> "sum", view |-> v], [k |-> "reduce", view |-> v, e |-> Num(0), fn |-> "f"]}
                 \cup {[k |-> "zip", view |-> v, view2 |-> Src("row", "$r", Num(0), 3), fn |-> fn, sum |-> sum]
                         : fn \in {"f", "max", "nofn"}, sum \in BOOLEAN}
ViewPrograms ==
  {Grid \o Fns \o <<Let("$x", u), Show(Var("$x"))>> : u \in UNION {ViewUses(v) : v \in Views}}
  \cup {Grid \o Fns \o <<Named("$v", v), Let("$x", u), Show(Var("$x"))>>
          : v \in Views, u \in ViewUses(Src("name", "$v", Num(0), 0))}

Fix(x, s, e) == [Let(x, e) EXCEPT !.scale = s]
FixedPrograms ==
  {<<Fix("$p", <<1>>, [k |-> "float", n |-> 3]), Fix("$q", s, [k |-> "float", n |-> 4]),
     Fix("$x", <<1>>, Bin(op, P, Q)), Show(Var("$x")), Show(Nat2("to_i64", Var("$x"), Num(1))),
     Show([k |-> "nat", nat |-> "clamp", args |-> <<P, Num(1), Q>>])>>
     : op \in {"add", "sub", "mul", "div"}, s \in {<<1>>, <<2>>}}

Many == <<"$c", "$d", "$e", "$g", "$h", "$i", "$j", "$k", "$l", "$m", "$n">>
Crowd(k) == SubSeq(Data, 1, 2) \o [i \in 1 .. k |-> Let(Many[i], Num(i))]
S1 == Var("$s1")
S2 == Var("$s2")
SpillPrograms ==
  {Crowd(k) \o <<Let("$s1", Bin("mul", A, B)), Let("$s2", Num(3))>> \o body \o <<Show(S1), Show(S2), Show(A)>> :
     k \in {10, 11},
     body \in [1 .. 2 -> {Assign("$s1", Bin("sub", S2, A)), Inc("$s2", S1), Dec("$s1", Num(1)), Let("$s2", A),
                          Assign("$a", S1), IfOnly(S1, <<Inc("$s1", Num(1))>>), Let("$s3", B)}]}

-----------------------------------------------------------------------------
(* Linear handles: every way to capture, move and consume around a branch or a loop *)

H0 == Var("#f0")
H1 == Var("#f1")
Capture(h) == Let(h, [k |-> "nat", nat |-> "capture", args |-> <<>>])
Owner == {Capture("#f0"), Capture("#f1"), Let("#f1", H0), Expr(Nat1("send", H0)), Expr(Nat1("send", H1)), Expr(Nat1("drop", H0))}
UpTo(n, S) == UNION {[1 .. i -> S] : i \in 0 .. n}
Inner == UpTo(2, Owner \ {Capture("#f1")})
Around == {IfElse(A, b, c) : b \in Inner, c \in Inner} \cup {IfOnly(A, b) : b \in Inner}
            \cup {Times("$i", 2, <<>>, b) : b \in Inner} \cup {Loop1(Small, <<>>, b \o <<Inc("$a", Num(2))>>) : b \in Inner}
HandlePrograms ==
  {<<Let("$a", Num(n))>> \o pre \o <<m>> \o post : n \in {0, 5}, pre \in {<<>>, <<Capture("#f0")>>}, m \in Around,
     post \in {<<>>, <<Expr(Nat1("send", H0))>>, <<Expr(Nat1("send", H1))>>}}
  \cup (UpTo(4, Owner) \ {<<>>})

-----------------------------------------------------------------------------
(* Declarations, runtimes and contracts; time and video memory; loops at the bound *)

Vram(nat, args) == [k |-> "nat", nat |-> nat, args |-> args]
OtherPrograms ==
  {<<[k |-> "import", rt |-> rt], [k |-> "pool", elements |-> n, arrays |-> 1], [k |-> "contract", wcet |-> w],
     [k |-> "test"], [k |-> "declare", x |-> "$z", mut |-> FALSE, scale |-> <<>>, etype |-> ""],
     [k |-> "array", x |-> "$r", n |-> 4, elems |-> <<Num(1)>>], Show(Nat1("abs", Neg(Num(4))))>>
     : rt \in {"math", "tiny", "none"}, n \in {0, 3, 4}, w \in {<<>>, <<9>>, <<50>>}}
  \cup {<<Expr([k |-> "pipe", e |-> Bin("add", Num(2), Num(1)), nat |-> "print"]),
          Let("$t", Vram("tsc", <<>>)), Expr(Vram("vram_write", <<Num(1), Num(o), Num(7)>>)), Let("$x", Vram("vram_read", <<Num(1), Num(o)>>)),
          Let("$y", Vram("term_read_key", <<>>)), [k |-> "block", body |-> <<Show([k |-> "streq", args |-> <<Num(o), Num(1)>>])>>],
          [k |-> "return", e |-> <<>>]>> : o \in {1, 2}}
  \cup {<<Let("$a", Num(1)), Times("$i", n, <<>>, [j \in 1 .. l |-> Inc("$a", Num(1))]), Show(A)>> : n \in 1 .. 14, l \in 0 .. 12}

-----------------------------------------------------------------------------
(* The shapes that the conditions of PulseScope except *)

Two == SubSeq(Data, 1, 2)
G(params, ens, body) == Def("g", params, <<>>, ens, body)
Call0(fn) == [k |-> "call", fn |-> fn, args |-> <<>>]
Arr(x, elems) == [k |-> "array", x |-> x, n |-> Len(elems), elems |-> elems]
Long == "$deadline_of_frame"
Overwriting == {Two \o <<Assign("$a", e), Show(A)>> :
                  e \in {Bin("sub", B, A), Bin("mul", Bin("add", A, B), A), Choice(B, A, Num(1))}}
Clashing == {Crowd(5) \o Fns \o <<Let("$x", Fn2("f", A, B)), Show(Var("$g"))>>,
             Crowd(11) \o <<Show(Bin("sub", A, Bin("sub", B, Bin("sub", A, B)))), Show(Var("$n"))>>,
             Crowd(11) \o <<Let("$s1", Num(3)), Times("$s1", 2, <<>>, <<Show(S1)>>)>>,
             Crowd(11) \o <<Let("$s1", Num(3)), G(<<>>, <<>>, <<Assign("$s1", Num(9)), Ret(Num(0))>>),
                           Expr(Call0("g")), Show(S1)>>}
Calling == {Two \o Fns \o <<g, Let("$x", Fn2("g", Num(2), Num(1))), Show(Var("$x"))>> :
              g \in {G(<<"$p", "$q">>, <<>>, <<IfOnly(Bin("cmp_lt", P, Num(1)), <<Ret(Q)>>),
                                            Let("$l", Fn2("g", Bin("sub", P, Num(1)), Q)), Ret(Bin("add", Var("$l"), P))>>),
                    G(<<"$p", "$q">>, <<>>, <<Let("$p", Num(9)), Ret(P)>>),
                    G(<<"$p", "$q">>, <<Fn2("f", Var("$ret"), Num(1))>>, <<Ret(P)>>)}}
Naming == {<<Let(Long, Num(5)), Show(Var(Long))>>, <<Let(Long, Num(5)), Show(Var("$deadline_of_fra"))>>,
           <<Let(Long, Num(5)), Let("$deadline_of_frames", Num(6)), Show(Var("$deadline_of_fra"))>>}
Declaring == {<<Arr("$r", <<Num(1), Num(2)>>), Arr("$r", <<Num(3), Num(4)>>), Show(At0("$r", Num(0)))>>,
              <<G(<<>>, <<>>, <<Arr("$u", <<Num(9), Num(9)>>), Ret(Num(0))>>), Arr("$r", <<Num(1), Num(2)>>),
                Let("$x", Call0("g")), Show(At0("$r", Num(0)))>>}
Viewing == {Grid \o Fns \o <<Let("$x", u), Show(Var("$x"))>> :
              u \in {[k |-> "reduce", view |-> Src("row", "$r", A, 3), e |-> Num(4), fn |-> "f"]}}
             \cup {Grid \o <<Show(A), Expr(Num(1)), Let("$x", [k |-> "sum", view |-> Src("name", "$r", Num(0), 0)]), Show(Var("$x"))>>}
Flt(n) == [k |-> "float", n |-> n]
Scaling == {<<Fix("$x", <<1>>, Bin("mul", Flt(3), Flt(4))), Show(Var("$x"))>>,
            <<Fix("$p", <<1>>, Flt(3)), Fix("$q", <<1>>, Flt(4)), Fix("$x", <<1>>, Bin("sub", P, Q)),
              Fix("$y", <<1>>, Bin("mul", Var("$x"), P)), Show(Var("$y"))>>}
Misread == Overwriting \cup Clashing \cup Calling \cup Naming \cup Declaring \cup Viewing \cup Scaling

Send(e) == Expr(Nat1("send", e))
Branches(t, f) == Expr([k |-> "cond", c |-> A, t |-> [k |-> "block", body |-> t], f |-> <<[k |-> "block", body |-> f]>>])
Unjoined(b) == {<<Cases(A, <<When(Pat(Num(5)), b), When(Wild, <<>>)>>)>>, <<Branches(b, <<>>)>>, <<G(<<>>, <<>>, b)>>,
                <<IfOnly(A, <<[k |-> "return", e |-> <<>>]>>)>> \o b,
                <<[k |-> "within", ns |-> 3, body |-> b, drop |-> TRUE]>>}
Unseen == {<<Expr([k |-> "pipe", e |-> H0, nat |-> "send"])>>, <<Let("$y", H0), Send(Var("$y"))>>, <<Send(Num(1))>>,
           <<Let("#f1", Num(1)), Send(H1)>>, <<Expr(Vram("capture", <<>>))>>}
Unfollowed == {<<Let("$a", Num(n))>> \o pre \o m \o post : n \in {0, 5}, pre \in {<<>>, <<Capture("#f0")>>},
                 m \in UNION {Unjoined(b) : b \in {<<>>, <<Capture("#f0")>>, <<Send(H0)>>}} \cup Unseen, post \in {<<>>, <<Send(H0)>>}}

\* A variable that is not mut is assigned: only a name that begins with $r may be.
Fixing == {<<[Let(x, Num(1)) EXCEPT !.mut = FALSE], Assign(x, Num(2)), Show(Var(x))>> : x \in {"$z", "$rate"}}

MCPrograms == ExprPrograms \cup ControlPrograms \cup FnPrograms \cup ViewPrograms \cup FixedPrograms \cup SpillPrograms
                \cup HandlePrograms \cup OtherPrograms \cup Misread \cup Unfollowed \cup Fixing
File(code) == [code |-> code, consts |-> <<>>]
MCBinaries == {File(<<Ins4("nop", 0, 0, 0), Ins4("unknown", 0, 0, 0)>>), File(<<Ins16("ldc", 0, 0)>>),
               File(<<Ins4("arr_store", 9, 0, 0)>>), File(<<Ins4("jnz", 30, 0, 9), Ins4("ret", 0, 0, 0)>>),
               File(<<Ins16("call", 0, 1)>>), File(<<Ins4("mod", 0, 30, 0), Ins16("jmp", 0, 1)>>)}
=============================================================================
