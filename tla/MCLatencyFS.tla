----------------------------- MODULE MCLatencyFS -----------------------------
(* An instance of LatencyFS: files in the root, one of them with a name that *)
(* is longer than 8.3, and the directory and script that fs_init creates,    *)
(* whose base name is that of a root file.                                   *)
EXTENDS LatencyFS, TLC

NamedPaths == {<<"a">>, <<"s.pul">>, <<"pulselang", "s.pul">>, <<"long_name">>}

ShortNames == [a |-> "A", d |-> "D", long_name |-> "LONG_NAM", long_nam |-> "LONG_NAM",
               pulselang |-> "PULSELAN", pulselan |-> "PULSELAN"] @@ ("s.pul" :> "S.PUL")
LowerNames == [A |-> "a", D |-> "d", LONG_NAM |-> "long_nam", PULSELAN |-> "pulselan"]
                @@ ("S.PUL" :> "s.pul")
ToOwnName == [p \in Paths |-> {Name83(p)}]

InitialFiles == << Directory(<<"pulselang">>), File(<<"pulselang", "s.pul">>, "default") >>
HostDisks == {<< >>, << OnDisk("A", "x") >>, << OnDisk("A", "big"), OnDisk("S.PUL", "y") >>}
=============================================================================
