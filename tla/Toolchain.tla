------------------------------ MODULE Toolchain ------------------------------
(***************************************************************************)
(* The toolchain of the host: a program is compiled (Compiler), its binary *)
(* is loaded and run (HostVM), and what it does is compared with what the  *)
(* program means (PulseLang).  Binaries are also loaded from a file.       *)
(* The compiler and the reference are parameters, given by MCToolchain.    *)
(***************************************************************************)
EXTENDS HostVM, FiniteSets

CONSTANTS Programs,      \* the sources that are tried
          Binaries,      \* the files that are run as they are
          Translate(_),  \* Compile of Compiler
          EstimateMax,   \* its MAX_VM_STEPS
          Semantics(_),  \* Meaning of PulseLang
          Meant(_),      \* AsMeant of PulseScope
          Traced(_)      \* Followed of PulseScope

VARIABLE source       \* the program that was compiled, <<>> for a file

toolVars == <<source, hostVars>>

\* run_source_with_output: only what the compiler accepts is run.
Build(p) ==
  LET c == Translate(p)
  IN  c.err = "" /\ source = p /\ Load([code |-> c.code, consts |-> c.consts])

ToolInit == \/ \E p \in Programs : Build(p)
            \/ \E b \in Binaries : source = <<>> /\ Load(b)

ToolNext == HostNext /\ UNCHANGED source

ToolSpec == ToolInit /\ [][ToolNext]_toolVars

-----------------------------------------------------------------------------
Compiled == source # <<>>
Ended    == result \notin {"running", "ERR_PX64_WCET_EXCEEDED"}

\* The compiler and the machine keep the meaning of a program: registers,
\* spilled variables, temporaries, folded constants, patched jumps, argument
\* moves and frames of calls (compiler.rs, vm.rs) produce exactly the output,
\* and the end, that the tree of the program has - provided that the program has
\* none of the shapes that compiler.rs compiles otherwise (Meant: a target that
\* is read after it was written, a variable in a register that is also a temporary's
\* or an argument's, a name of more than 16 bytes and the others of PulseScope).
\* (A program that the step limit stops may have no meaning.)
MeaningKept ==
  Compiled /\ Ended /\ Meant(source) => [result |-> result, out |-> out] = Semantics(source)

Count(nats) == Cardinality({i \in DOMAIN out : out[i][1] \in nats})

\* Linear handles: a program that passed the ownership checks of compiler.rs
\* never consumes more frames than it captured, whichever branches of its if
\* statements and turns of its loops it takes, and has consumed every one of them
\* when it ends without an error - provided that the checks follow its handles
\* (Traced): no use of one in a match, in ?: or in a function, no return at the
\* top level, no @within ... !drop, and handles that only captures and moves assign.
AcceptedIsLinear ==
  Compiled /\ Traced(source) =>
    /\ Count({"send", "drop"}) <= Count({"capture"})
    /\ result = "ok" => Count({"send", "drop"}) = Count({"capture"})

\* Statements without a loop of their own
Leaf(e)  == e.k \in {"num", "var"}
Flat(s)  == \/ s.k \in {"let", "set", "inc", "dec", "assert"} /\ Leaf(s.e)
            \/ s.k = "expr" /\ s.e.k = "nat" /\ \A i \in DOMAIN s.e.args : Leaf(s.e.args[i])
OneLoop == /\ Compiled
           /\ \E n \in DOMAIN source :
                /\ source[n].k = "for"
                /\ \A i \in DOMAIN source[n].body : Flat(source[n].body[i])
                /\ \A i \in DOMAIN source \ {n} : Flat(source[i])

\* The instructions that the compiler estimates for a for loop (the check
\* against MAX_VM_STEPS in compiler.rs) bound the ones the machine executes: a
\* program whose only loop it is needs no more steps than that and its length.
LoopsCounted == OneLoop => steps <= EstimateMax + Len(binary.code)
=============================================================================
