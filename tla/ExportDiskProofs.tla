-------------------------- MODULE ExportDiskProofs ---------------------------
(***************************************************************************)
(* Proofs about the FAT16 export disk, for every size of disk, directory   *)
(* and allocation, and for any number of calls cut short anywhere: the two *)
(* FATs, the chains of the files, and what a read of a file returns.       *)
(***************************************************************************)
EXTENDS ExportDisk, SequenceTheorems, FiniteSetTheorems, TLAPS

-----------------------------------------------------------------------------
(* The inductive invariant *)

Writing == pc \in {"data", "fat1", "fat2", "entry"}
Freeing == pc \in {"free1", "free2"}

Injective(a) == \A j, k \in DOMAIN a : a[j] = a[k] => j = k

\* The locals of the call in progress, and where files start
LocalsOK ==
  /\ Writing => /\ Len(alloc) = Needed(arg.size)
                /\ i \in 1 .. Len(alloc)
                /\ Injective(alloc)
  /\ ~ Writing \/ pc = "entry" => i = 1
  /\ Freeing => current \in Clusters
  /\ \A e \in Live : dir[e].first \in Clusters

TypeInv == TypeOK /\ LocalsOK

\* The FATs differ at most where an entry is being mirrored.
MirrorInv ==
  faults = 0 =>
    \A c \in Clusters :
      \/ fat1[c] = fat2[c]
      \/ pc = "fat2" /\ c = alloc[i]
      \/ pc = "free2" /\ c = current

\* By the FAT f, the n clusters of a are the whole chain that starts at c.
PathIn(f, a, c, n) ==
  /\ a \in [1 .. n -> Clusters]
  /\ a[1] = c
  /\ \A k \in 1 .. n - 1 : f[a[k]] = a[k + 1]
  /\ f[a[n]] = EOF
  /\ Injective(a)

\* The number of clusters of the write that FAT1 has linked
Linked == CASE pc = "fat1" -> i - 1 [] pc = "fat2" -> i [] pc = "entry" -> Len(alloc)
            [] OTHER -> 0

Files == \A e \in Live : PathIn(fat1, ChainOf(e), dir[e].first, Needed(dir[e].size))

FilesApart == \A e, f \in Live : e # f => Apart(ChainOf(e), ChainOf(f))

\* A chain that no file has a part of starts at c.
Unowned(c) ==
  \E n \in 1 .. MaxAlloc : \E r \in [1 .. n -> Clusters] :
    PathIn(fat1, r, c, n) /\ \A e \in Live : Apart(ChainOf(e), r)

WriteInv ==
  Writing => /\ \A e \in Live : Apart(ChainOf(e), alloc)
             /\ \A k \in 1 .. Linked :
                  fat1[alloc[k]] = IF k < Len(alloc) THEN alloc[k + 1] ELSE EOF

FreeInv ==
  /\ pc = "free1" => Unowned(current)
  /\ pc = "free2" /\ next \in Clusters => Unowned(next)

ChainInv == Files /\ FilesApart /\ WriteInv /\ FreeInv

\* The number of clusters of the write whose data is on the disk
Filled == CASE pc = "data" -> i - 1 [] pc \in {"fat1", "fat2", "entry"} -> Len(alloc)
            [] OTHER -> 0

DataInv ==
  \A k \in 1 .. Filled : k <= arg.size => data[alloc[k]] = [write |-> arg.write, at |-> k]

\* Nothing comes behind the end of the directory.
DirInv == \A e, f \in Slots : e < f /\ dir[e].kind = "end" => dir[f].kind = "end"

-----------------------------------------------------------------------------
(* Operators *)

LEMMA Numbers ==
  /\ NumClusters \in Nat /\ NumEntries \in Nat /\ MaxAlloc \in Nat \ {0} /\ MaxOps \in Nat
  /\ MaxFaults \in Nat /\ Sizes \subseteq Nat
  /\ Clusters \subseteq Nat /\ Slots \subseteq Nat
  /\ EOF \notin Clusters /\ FREE \notin Clusters /\ EOF # FREE /\ 0 \notin Clusters
BY DiskAssumption DEF Clusters, Slots, EOF, FREE

\* A file has at least one cluster.
LEMMA NeededPositive ==
  ASSUME NEW s \in Nat
  PROVE  Needed(s) \in Nat \ {0} /\ s <= Needed(s) /\ (s # 0 => Needed(s) = s)
BY DEF Needed

LEMMA LengthOf ==
  ASSUME NEW S, NEW n \in Nat, NEW a \in [1 .. n -> S]
  PROVE  a \in Seq(S) /\ Len(a) = n
<1>1. a \in Seq(S)
  BY SeqDef
<1>2. DOMAIN a = 1 .. Len(a) /\ Len(a) \in Nat
  BY <1>1, LenProperties
<1>3. QED
  BY <1>1, <1>2

LEMMA DomainOf ==
  ASSUME NEW S, NEW a \in Seq(S)
  PROVE  DOMAIN a = 1 .. Len(a) /\ Len(a) \in Nat /\ a \in [1 .. Len(a) -> S]
BY LenProperties

\* What the search for free clusters finds
LEMMA AllocatedOK ==
  ASSUME NEW s \in Nat, NEW a \in [1 .. Needed(s) -> Free], LowestFree(a)
  PROVE  a \in Seq(Clusters) /\ Len(a) = Needed(s) /\ Injective(a)
<1>1. Needed(s) \in Nat /\ DOMAIN a = 1 .. Needed(s)
  BY NeededPositive
<1>2. a \in [1 .. Needed(s) -> Clusters]
  BY DEF Free
<1>3. a \in Seq(Clusters) /\ Len(a) = Needed(s)
  BY <1>1, <1>2, LengthOf
<1>4. ASSUME NEW j \in DOMAIN a, NEW k \in DOMAIN a, a[j] = a[k]
      PROVE  j = k
  <2>1. j \in Nat /\ k \in Nat /\ a[j] \in Nat
    <3>1. Clusters \subseteq Nat
      BY Numbers
    <3>2. j \in 1 .. Needed(s) /\ k \in 1 .. Needed(s)
      BY <1>1
    <3>3. a[j] \in Clusters
      BY <1>2, <3>2
    <3>4. j \in Nat /\ k \in Nat
      BY <1>1, <3>2
    <3>5. QED
      BY <3>1, <3>3, <3>4
  <2>2. ~ (j < k) /\ ~ (k < j)
    BY <1>4, <2>1 DEF LowestFree
  <2>3. QED
    BY <2>1, <2>2
<1>5. QED
  BY <1>3, <1>4 DEF Injective

-----------------------------------------------------------------------------
(* Least elements and induction, from the well-foundedness of < *)

Less == {p \in Nat \X Nat : p[1] < p[2]}

LEMMA LessIsWellFounded == IsWellFoundedOn(Less, Nat)
BY NatLessThanWellFounded DEF OpToRel, Less

LEMMA LeastExists ==
  ASSUME NEW S, S \subseteq Nat, S # {}
  PROVE  \E x \in S : \A y \in S : x <= y
<1>1. PICK x \in S : \A y \in S : ~ (<<y, x>> \in Less)
  BY LessIsWellFounded, WFMin
<1>2. ASSUME NEW y \in S
      PROVE  x <= y
  <2>1. x \in Nat /\ y \in Nat /\ ~ (<<y, x>> \in Less)
    BY <1>1
  <2>2. ~ (y < x)
    BY <2>1 DEF Less
  <2>3. QED
    BY <2>1, <2>2
<1>3. QED
  BY <1>2

LEMMA LowestIsLeast ==
  ASSUME NEW S, S \subseteq Slots, S # {}
  PROVE  Lowest(S) \in S /\ \A f \in S : Lowest(S) <= f
<1>1. S \subseteq Nat
  BY Numbers
<1>2. \E x \in S : \A y \in S : x <= y
  BY <1>1, LeastExists
<1>3. QED
  BY <1>2 DEF Lowest

-----------------------------------------------------------------------------
(* Type correctness *)

LEMMA InitType == Init => TypeInv
<1> SUFFICES ASSUME Init PROVE TypeInv
  OBVIOUS
<1>1. fat1 \in [Clusters -> Clusters \cup {FREE, EOF}] /\ fat2 \in [Clusters -> Clusters \cup {FREE, EOF}]
  BY DEF Init
<1>2. data \in [Clusters -> [write : 0 .. MaxOps, at : 0 .. MaxAlloc]]
  BY Numbers DEF Init, Unwritten
<1>3. dir \in [Slots -> [kind : {"end", "deleted", "file"}, name : Names \cup {NoName},
                         first : Clusters \cup {0}, size : 0 .. MaxAlloc]]
  BY Numbers DEF Init
<1>4. arg \in [name : Names \cup {NoName}, size : 0 .. MaxAlloc, write : 0 .. MaxOps]
  BY Numbers DEF Init, NoArg
<1>5. alloc \in Seq(Clusters) /\ Len(alloc) <= MaxAlloc /\ i \in 1 .. Len(alloc) \cup {1}
  BY Numbers DEF Init
<1>6. /\ pc = "idle" /\ current \in Clusters \cup {0} /\ next \in Clusters \cup {FREE, EOF}
      /\ ops \in 0 .. MaxOps /\ faults \in 0 .. MaxFaults
  BY Numbers DEF Init, FREE
<1>7. TypeOK
  BY <1>1, <1>2, <1>3, <1>4, <1>5, <1>6 DEF TypeOK
<1>8. LocalsOK
  BY DEF Init, LocalsOK, Writing, Freeing, Live
<1>9. QED
  BY <1>7, <1>8 DEF TypeInv

\* The variables of a call that has returned
LEMMA ReturnType ==
  ASSUME TypeInv, Return, fat1' \in [Clusters -> Clusters \cup {FREE, EOF}],
         fat2' \in [Clusters -> Clusters \cup {FREE, EOF}], UNCHANGED <<data, dir, ops>>,
         faults' \in 0 .. MaxFaults
  PROVE  TypeInv'
<1>1. arg' \in [name : Names \cup {NoName}, size : 0 .. MaxAlloc, write : 0 .. MaxOps]
  BY Numbers DEF Return, NoArg
<1>2. alloc' \in Seq(Clusters) /\ Len(alloc') <= MaxAlloc /\ i' \in 1 .. Len(alloc') \cup {1}
  BY Numbers DEF Return
<1>3. /\ pc' = "idle" /\ current' \in Clusters \cup {0} /\ next' \in Clusters \cup {FREE, EOF}
      /\ ops' \in 0 .. MaxOps
  BY Numbers DEF Return, FREE, TypeInv, TypeOK
<1>4. TypeOK'
  BY <1>1, <1>2, <1>3 DEF TypeInv, TypeOK
<1>5. LocalsOK'
  BY <1>3 DEF TypeInv, LocalsOK, Writing, Freeing, Live, Return
<1>6. QED
  BY <1>4, <1>5 DEF TypeInv

LEMMA WriteStartType ==
  ASSUME TypeInv, NEW n \in Names, NEW s \in Sizes, WriteStart(n, s)
  PROVE  TypeInv'
<1>0. /\ s \in Nat /\ ops \in Nat /\ ops' = ops + 1 /\ ops' \in 0 .. MaxOps
      /\ UNCHANGED <<fat1, fat2, data, dir, faults>>
  BY Numbers DEF TypeInv, TypeOK, WriteStart, disk
<1>1. CASE Needed(s) > MaxAlloc \/ Cardinality(Free) < Needed(s)
  <2>1. UNCHANGED <<pc, arg, alloc, i, current, next>>
    BY <1>1 DEF WriteStart, Locals
  <2>2. TypeOK'
    BY <1>0, <2>1 DEF TypeInv, TypeOK
  <2>3. LocalsOK'
    BY <1>0, <2>1 DEF TypeInv, LocalsOK, Writing, Freeing, Live
  <2>4. QED
    BY <2>2, <2>3 DEF TypeInv
<1>2. CASE ~ (Needed(s) > MaxAlloc \/ Cardinality(Free) < Needed(s))
  <2>1. /\ pc' = "data" /\ arg' = [name |-> n, size |-> s, write |-> ops']
        /\ UNCHANGED <<i, current, next>> /\ pc = "idle"
    BY <1>2 DEF WriteStart
  <2>2. PICK a \in [1 .. Needed(s) -> Free] : LowestFree(a) /\ alloc' = a
    BY <1>2 DEF WriteStart
  <2>3. alloc' \in Seq(Clusters) /\ Len(alloc') = Needed(s) /\ Injective(alloc')
    BY <1>0, <2>2, AllocatedOK
  <2>4. Needed(s) \in Nat \ {0} /\ s <= Needed(s) /\ Needed(s) <= MaxAlloc
    BY <1>0, <1>2, NeededPositive, Numbers
  <2>5. arg' \in [name : Names \cup {NoName}, size : 0 .. MaxAlloc, write : 0 .. MaxOps]
    BY <1>0, <2>1, <2>4, Numbers
  <2>6. i' \in 1 .. Len(alloc')
    <3>1. i = 1
      BY <2>1 DEF TypeInv, LocalsOK, Writing
    <3>2. QED
      BY <2>1, <2>3, <2>4, <3>1
  <2>7. TypeOK'
    BY <1>0, <2>1, <2>3, <2>4, <2>5, <2>6 DEF TypeInv, TypeOK
  <2>8. LocalsOK'
    BY <1>0, <2>1, <2>3, <2>6 DEF TypeInv, LocalsOK, Writing, Freeing, Live
  <2>9. QED
    BY <2>7, <2>8 DEF TypeInv
<1>3. QED
  BY <1>1, <1>2

\* The loop over the allocated clusters stays inside them.
LEMMA AdvanceType ==
  ASSUME TypeInv, Writing, NEW loop, NEW done, Advance(loop, done)
  PROVE  i' \in 1 .. Len(alloc) /\ pc' \in {loop, done}
<1>1. i \in 1 .. Len(alloc) /\ Len(alloc) \in Nat
  BY DEF TypeInv, TypeOK, LocalsOK
<1>2. QED
  BY <1>1 DEF Advance

LEMMA WriteDataType ==
  ASSUME TypeInv, WriteData
  PROVE  TypeInv'
<1>1. /\ Writing /\ i \in 1 .. Len(alloc) /\ alloc \in Seq(Clusters) /\ Len(alloc) <= MaxAlloc
      /\ Len(alloc) \in Nat
  BY DEF TypeInv, TypeOK, LocalsOK, WriteData, Writing
<1>2. i' \in 1 .. Len(alloc) /\ pc' \in {"data", "fat1"}
  BY <1>1, AdvanceType DEF WriteData
<1>3. /\ UNCHANGED <<fat1, fat2, dir, arg, alloc, current, next, ops, faults>>
  BY DEF WriteData
<1>4. data' \in [Clusters -> [write : 0 .. MaxOps, at : 0 .. MaxAlloc]]
  <2>1. i \in 0 .. MaxAlloc /\ arg.write \in 0 .. MaxOps /\ 0 \in 0 .. MaxOps /\ 0 \in 0 .. MaxAlloc
    BY <1>1, Numbers DEF TypeInv, TypeOK
  <2>2. Unwritten \in [write : 0 .. MaxOps, at : 0 .. MaxAlloc]
        /\ [write |-> arg.write, at |-> i] \in [write : 0 .. MaxOps, at : 0 .. MaxAlloc]
    BY <2>1 DEF Unwritten
  <2>3. QED
    BY <2>2 DEF WriteData, TypeInv, TypeOK
<1>5. TypeOK'
  BY <1>1, <1>2, <1>3, <1>4 DEF TypeInv, TypeOK
<1>6. LocalsOK'
  BY <1>1, <1>2, <1>3 DEF TypeInv, LocalsOK, Writing, Freeing, Live
<1>7. QED
  BY <1>5, <1>6 DEF TypeInv

LEMMA WriteFat1Type ==
  ASSUME TypeInv, WriteFat1
  PROVE  TypeInv'
<1>1. /\ Writing /\ i \in 1 .. Len(alloc) /\ alloc \in Seq(Clusters) /\ Len(alloc) \in Nat
  BY DEF TypeInv, TypeOK, LocalsOK, WriteFat1, Writing
<1>2. NextVal \in Clusters \cup {FREE, EOF}
  <2>1. CASE i < Len(alloc)
    <3>1. i + 1 \in 1 .. Len(alloc)
      BY <1>1, <2>1
    <3>2. QED
      BY <1>1, <2>1, <3>1 DEF NextVal
  <2>2. CASE ~ (i < Len(alloc))
    BY <2>2 DEF NextVal
  <2>3. QED
    BY <2>1, <2>2
<1>3. fat1' \in [Clusters -> Clusters \cup {FREE, EOF}]
  BY <1>2 DEF WriteFat1, TypeInv, TypeOK
<1>4. pc' = "fat2" /\ UNCHANGED <<fat2, data, dir, arg, alloc, i, current, next, ops, faults>>
  BY DEF WriteFat1, Locals
<1>5. TypeOK'
  BY <1>3, <1>4 DEF TypeInv, TypeOK
<1>6. LocalsOK'
  BY <1>1, <1>4 DEF TypeInv, LocalsOK, Writing, Freeing, Live
<1>7. QED
  BY <1>5, <1>6 DEF TypeInv

LEMMA MirroredType ==
  ASSUME TypeOK, NEW c
  PROVE  Mirrored(c) \in [Clusters -> Clusters \cup {FREE, EOF}]
BY DEF TypeOK, Mirrored

LEMMA WriteFat2Type ==
  ASSUME TypeInv, WriteFat2
  PROVE  TypeInv'
<1>1. /\ Writing /\ i \in 1 .. Len(alloc) /\ Len(alloc) \in Nat
  BY DEF TypeInv, TypeOK, LocalsOK, WriteFat2, Writing
<1>2. i' \in 1 .. Len(alloc) /\ pc' \in {"fat1", "entry"} /\ (pc' = "entry" => i' = 1)
  <2>1. i' \in 1 .. Len(alloc) /\ pc' \in {"fat1", "entry"}
    BY <1>1, AdvanceType DEF WriteFat2
  <2>2. pc' = "entry" => i' = 1
    BY DEF WriteFat2, Advance
  <2>3. QED
    BY <2>1, <2>2
<1>3. fat2' \in [Clusters -> Clusters \cup {FREE, EOF}]
  BY MirroredType DEF WriteFat2, TypeInv
<1>4. UNCHANGED <<fat1, data, dir, arg, alloc, current, next, ops, faults>>
  BY DEF WriteFat2
<1>5. TypeOK'
  BY <1>2, <1>3, <1>4 DEF TypeInv, TypeOK
<1>6. LocalsOK'
  BY <1>1, <1>2, <1>4 DEF TypeInv, LocalsOK, Writing, Freeing, Live
<1>7. QED
  BY <1>5, <1>6 DEF TypeInv

LEMMA WriteEntryType ==
  ASSUME TypeInv, WriteEntry
  PROVE  TypeInv'
<1>1. CASE Usable(arg.name) = {}
  BY <1>1, ReturnType DEF WriteEntry, TypeInv, TypeOK
<1>2. CASE Usable(arg.name) # {}
  <2>1. /\ Writing /\ i \in 1 .. Len(alloc) /\ alloc \in Seq(Clusters) /\ Len(alloc) \in Nat
        /\ pc = "entry"
    BY DEF TypeInv, TypeOK, LocalsOK, WriteEntry, Writing
  <2>2. alloc[1] \in Clusters
    <3>1. 1 \in 1 .. Len(alloc)
      BY <2>1
    <3>2. QED
      BY <2>1, <3>1
  <2>3. NewEntry \in [kind : {"end", "deleted", "file"}, name : Names \cup {NoName},
                      first : Clusters \cup {0}, size : 0 .. MaxAlloc]
        /\ NewEntry.first \in Clusters
    BY <2>2 DEF NewEntry, Entry, TypeInv, TypeOK
  <2>4. /\ dir' = [dir EXCEPT ![Lowest(Usable(arg.name))] = NewEntry] /\ pc' = "flush"
        /\ UNCHANGED <<fat1, fat2, data, arg, alloc, i, current, next, ops, faults>>
    BY <1>2 DEF WriteEntry, Locals
  <2>5. TypeOK'
    BY <2>3, <2>4 DEF TypeInv, TypeOK
  <2>6. i' = 1
    BY <2>1, <2>4 DEF TypeInv, LocalsOK
  <2>7. \A e \in Live' : dir'[e].first \in Clusters
    BY <2>3, <2>4 DEF TypeInv, TypeOK, LocalsOK, Live
  <2>8. LocalsOK'
    BY <2>4, <2>6, <2>7 DEF LocalsOK, Writing, Freeing
  <2>9. QED
    BY <2>5, <2>8 DEF TypeInv
<1>3. QED
  BY <1>1, <1>2

LEMMA FoundIsLive ==
  ASSUME NEW n, Found(n) # {}
  PROVE  /\ Lowest(Found(n)) \in Live /\ dir[Lowest(Found(n))].name = n
         /\ \A f \in Found(n) : Lowest(Found(n)) <= f
<1>1. Found(n) \subseteq Slots
  BY DEF Found
<1>2. Lowest(Found(n)) \in Found(n) /\ \A f \in Found(n) : Lowest(Found(n)) <= f
  BY <1>1, LowestIsLeast
<1>3. QED
  BY <1>2 DEF Found, Scanned, Live

LEMMA DeleteStartType ==
  ASSUME TypeInv, NEW n \in Names, DeleteStart(n)
  PROVE  TypeInv'
<1>1. /\ pc = "idle" /\ ops' \in 0 .. MaxOps /\ UNCHANGED <<fat1, fat2, data, alloc, i, next, faults>>
  <2>1. pc = "idle" /\ ops < MaxOps /\ ops' = ops + 1 /\ UNCHANGED <<fat1, fat2, data, alloc, i, next, faults>>
    BY DEF DeleteStart
  <2>2. ops \in 0 .. MaxOps /\ MaxOps \in Nat
    BY Numbers DEF TypeInv, TypeOK
  <2>3. QED
    BY <2>1, <2>2
<1>2. CASE Found(n) = {}
  <2>1. UNCHANGED <<dir, pc, arg, current>>
    BY <1>2 DEF DeleteStart
  <2>2. TypeOK'
    BY <1>1, <2>1 DEF TypeInv, TypeOK
  <2>3. LocalsOK'
    BY <1>1, <2>1 DEF TypeInv, LocalsOK, Writing, Freeing, Live
  <2>4. QED
    BY <2>2, <2>3 DEF TypeInv
<1>3. CASE Found(n) # {}
  <2>1. PICK l : l = Lowest(Found(n))
    OBVIOUS
  <2>2. l \in Slots /\ dir[l].kind = "file" /\ dir[l].first \in Clusters
    BY <1>3, <2>1, FoundIsLive DEF Live, TypeInv, LocalsOK
  <2>3. /\ dir' = [dir EXCEPT ![l].kind = "deleted"] /\ arg' = [NoArg EXCEPT !.name = n]
        /\ current' = dir[l].first /\ pc' = "free1"
    BY <1>3, <2>1, <2>2 DEF DeleteStart, InChain
  <2>4. dir' \in [Slots -> [kind : {"end", "deleted", "file"}, name : Names \cup {NoName},
                            first : Clusters \cup {0}, size : 0 .. MaxAlloc]]
    <3> DEFINE E == [kind : {"end", "deleted", "file"}, name : Names \cup {NoName},
                     first : Clusters \cup {0}, size : 0 .. MaxAlloc]
    <3>1. dir \in [Slots -> E]
      BY DEF TypeInv, TypeOK
    <3>2. [dir[l] EXCEPT !.kind = "deleted"] \in E
      BY <2>2, <3>1
    <3>3. dir' = [dir EXCEPT ![l] = [dir[l] EXCEPT !.kind = "deleted"]]
      BY <2>3
    <3> HIDE DEF E
    <3>4. dir' \in [Slots -> E]
      BY <3>1, <3>2, <3>3
    <3>5. QED
      BY <3>4 DEF E
  <2>5. arg' \in [name : Names \cup {NoName}, size : 0 .. MaxAlloc, write : 0 .. MaxOps]
    BY <2>3, Numbers DEF NoArg
  <2>6. TypeOK'
    BY <1>1, <2>2, <2>3, <2>4, <2>5 DEF TypeInv, TypeOK
  <2>7. \A e \in Live' : dir'[e].first \in Clusters
    <3>1. \A e \in Slots : dir'[e].kind = "file" => dir[e].kind = "file" /\ dir'[e] = dir[e]
      BY <2>2, <2>3 DEF TypeInv, TypeOK
    <3>2. QED
      BY <3>1 DEF TypeInv, LocalsOK, Live
  <2>8. LocalsOK'
    BY <1>1, <2>2, <2>3, <2>7 DEF TypeInv, LocalsOK, Writing, Freeing
  <2>9. QED
    BY <2>6, <2>8 DEF TypeInv
<1>4. QED
  BY <1>2, <1>3

LEMMA FreeFat1Type ==
  ASSUME TypeInv, FreeFat1
  PROVE  TypeInv'
<1>1. /\ pc = "free1" /\ current \in Clusters /\ next' = fat1[current] /\ pc' = "free2"
      /\ fat1' = [fat1 EXCEPT ![current] = FREE]
      /\ UNCHANGED <<fat2, data, dir, arg, alloc, i, current, ops, faults>>
  BY DEF FreeFat1, TypeInv, LocalsOK, Freeing
<1>2. next' \in Clusters \cup {FREE, EOF} /\ fat1' \in [Clusters -> Clusters \cup {FREE, EOF}]
  BY <1>1 DEF TypeInv, TypeOK
<1>3. TypeOK'
  BY <1>1, <1>2 DEF TypeInv, TypeOK
<1>4. LocalsOK'
  BY <1>1 DEF TypeInv, LocalsOK, Writing, Freeing, Live
<1>5. QED
  BY <1>3, <1>4 DEF TypeInv

LEMMA FreeFat2Type ==
  ASSUME TypeInv, FreeFat2
  PROVE  TypeInv'
<1>1. /\ pc = "free2" /\ UNCHANGED <<fat1, data, dir, ops, faults>>
      /\ fat2' \in [Clusters -> Clusters \cup {FREE, EOF}]
  BY MirroredType DEF FreeFat2, TypeInv
<1>2. CASE InChain(next)
  <2>1. current' = next /\ next \in Clusters /\ pc' = "free1" /\ UNCHANGED <<arg, alloc, i, next>>
    BY <1>2 DEF FreeFat2, InChain
  <2>2. TypeOK'
    BY <1>1, <2>1 DEF TypeInv, TypeOK
  <2>3. LocalsOK'
    BY <1>1, <2>1 DEF TypeInv, LocalsOK, Writing, Freeing, Live
  <2>4. QED
    BY <2>2, <2>3 DEF TypeInv
<1>3. CASE ~ InChain(next)
  <2>1. Return
    BY <1>3 DEF FreeFat2
  <2>2. QED
    BY <1>1, <2>1, ReturnType DEF TypeInv, TypeOK
<1>4. QED
  BY <1>2, <1>3

LEMMA FlushType ==
  ASSUME TypeInv, Flush
  PROVE  TypeInv'
BY ReturnType DEF Flush, disk, TypeInv, TypeOK

LEMMA AbortType ==
  ASSUME TypeInv, Abort
  PROVE  TypeInv'
<1>1. faults' \in 0 .. MaxFaults
  BY Numbers DEF Abort, TypeInv, TypeOK
<1>2. QED
  BY <1>1, ReturnType DEF Abort, disk, TypeInv, TypeOK

LEMMA StutterType ==
  ASSUME TypeInv, UNCHANGED vars
  PROVE  TypeInv'
<1>1. TypeOK'
  BY DEF TypeInv, TypeOK, vars, disk
<1>2. LocalsOK'
  BY DEF TypeInv, LocalsOK, vars, disk, Writing, Freeing, Live
<1>3. QED
  BY <1>1, <1>2 DEF TypeInv

LEMMA NextType == TypeInv /\ [Next]_vars => TypeInv'
<1> SUFFICES ASSUME TypeInv, [Next]_vars PROVE TypeInv'
  OBVIOUS
<1>1. CASE UNCHANGED vars
  BY <1>1, StutterType
<1>2. ASSUME NEW n \in Names, DeleteStart(n) PROVE TypeInv'
  BY <1>2, DeleteStartType
<1>3. ASSUME NEW n \in Names, NEW s \in Sizes, WriteStart(n, s) PROVE TypeInv'
  BY <1>3, WriteStartType
<1>4. CASE Step
  BY <1>4, WriteDataType, WriteFat1Type, WriteFat2Type, WriteEntryType, FreeFat1Type,
     FreeFat2Type, FlushType DEF Step
<1>5. CASE Abort
  BY <1>5, AbortType
<1>6. QED
  BY <1>1, <1>2, <1>3, <1>4, <1>5 DEF Next

LEMMA TypeInvariant == Spec => []TypeInv
BY InitType, NextType, PTL DEF Spec

\* Whatever calls are made and wherever they fail, the FATs, the directory and the
\* locals of a call hold only clusters of the disk: no walk along a chain and no
\* loop over allocated_clusters leaves the disk or the array.
THEOREM TypeCorrect == Spec => []TypeOK
<1>1. TypeInv => TypeOK
  BY DEF TypeInv
<1>2. QED
  BY <1>1, TypeInvariant, PTL

-----------------------------------------------------------------------------
(* The two FATs *)

\* Copying the sector of the one entry that differs makes the FATs equal.
LEMMA MirroredAgrees ==
  ASSUME TypeOK, NEW x, \A c \in Clusters : fat1[c] = fat2[c] \/ c = x,
         fat1' = fat1, fat2' = Mirrored(x)
  PROVE  \A c \in Clusters : fat1'[c] = fat2'[c]
<1>1. ASSUME NEW c \in Clusters PROVE Mirrored(x)[c] = fat1[c]
  <2>1. CASE c = x
    BY <2>1 DEF Mirrored
  <2>2. CASE c # x
    BY <2>2 DEF Mirrored
  <2>3. QED
    BY <2>1, <2>2
<1>2. QED
  BY <1>1

LEMMA InitMirror == Init => MirrorInv
BY DEF Init, MirrorInv

\* A step that writes neither FAT
LEMMA FatsKeptMirror ==
  ASSUME MirrorInv, UNCHANGED <<fat1, fat2>>, faults' = 0 => faults = 0,
         pc \notin {"fat2", "free2"} \/ (pc' = pc /\ UNCHANGED <<alloc, i, current>>)
  PROVE  MirrorInv'
BY DEF MirrorInv

LEMMA NextMirror == TypeInv /\ MirrorInv /\ [Next]_vars => MirrorInv'
<1> SUFFICES ASSUME TypeInv, MirrorInv, [Next]_vars PROVE MirrorInv'
  OBVIOUS
<1>0. TypeOK
  BY DEF TypeInv
<1>1. CASE UNCHANGED vars
  BY <1>1, FatsKeptMirror DEF vars, disk
<1>2. ASSUME NEW n \in Names, DeleteStart(n) PROVE MirrorInv'
  BY <1>2, FatsKeptMirror DEF DeleteStart
<1>3. ASSUME NEW n \in Names, NEW s \in Sizes, WriteStart(n, s) PROVE MirrorInv'
  BY <1>3, FatsKeptMirror DEF WriteStart, disk
<1>4. CASE WriteData
  BY <1>4, FatsKeptMirror DEF WriteData
<1>5. CASE WriteFat1
  <2>1. pc = "fat1" /\ pc' = "fat2" /\ UNCHANGED <<fat2, alloc, i, faults>>
    BY <1>5 DEF WriteFat1, Locals
  <2>2. \A c \in Clusters : c # alloc[i] => fat1'[c] = fat1[c]
    BY <1>0, <1>5 DEF WriteFat1, TypeOK
  <2>3. QED
    BY <2>1, <2>2 DEF MirrorInv
<1>6. CASE WriteFat2
  <2>1. /\ pc = "fat2" /\ fat1' = fat1 /\ faults' = faults /\ fat2' = Mirrored(alloc[i])
    BY <1>6 DEF WriteFat2
  <2>2. faults = 0 => \A c \in Clusters : fat1[c] = fat2[c] \/ c = alloc[i]
    BY <2>1 DEF MirrorInv
  <2>3. faults = 0 => \A c \in Clusters : fat1'[c] = fat2'[c]
    BY <1>0, <2>1, <2>2, MirroredAgrees
  <2>4. QED
    BY <2>1, <2>3 DEF MirrorInv
<1>7. CASE WriteEntry
  BY <1>7, FatsKeptMirror DEF WriteEntry
<1>8. CASE FreeFat1
  <2>1. pc = "free1" /\ pc' = "free2" /\ UNCHANGED <<fat2, current, faults>>
    BY <1>8 DEF FreeFat1
  <2>2. \A c \in Clusters : c # current => fat1'[c] = fat1[c]
    BY <1>0, <1>8 DEF FreeFat1, TypeOK
  <2>3. QED
    BY <2>1, <2>2 DEF MirrorInv
<1>9. CASE FreeFat2
  <2>1. /\ pc = "free2" /\ fat1' = fat1 /\ faults' = faults /\ fat2' = Mirrored(current)
    BY <1>9 DEF FreeFat2
  <2>2. faults = 0 => \A c \in Clusters : fat1[c] = fat2[c] \/ c = current
    BY <2>1 DEF MirrorInv
  <2>3. faults = 0 => \A c \in Clusters : fat1'[c] = fat2'[c]
    BY <1>0, <2>1, <2>2, MirroredAgrees
  <2>4. QED
    BY <2>1, <2>3 DEF MirrorInv
<1>10. CASE Flush
  BY <1>10, FatsKeptMirror DEF Flush, disk
<1>11. CASE Abort
  <2>1. faults' # 0
    BY <1>0, <1>11 DEF Abort, TypeOK
  <2>2. QED
    BY <2>1 DEF MirrorInv
<1>12. QED
  BY <1>1, <1>2, <1>3, <1>4, <1>5, <1>6, <1>7, <1>8, <1>9, <1>10, <1>11 DEF Next, Step

\* As long as no call was cut short, FAT2 is a copy of FAT1 except between the two
\* sector writes of one entry, whatever the number of entries in a sector.
THEOREM MirrorIsCopy == Spec => []MirrorAgrees
<1>1. TypeInv /\ MirrorInv => MirrorAgrees
  <2> SUFFICES ASSUME TypeInv, MirrorInv, faults = 0, pc \notin {"fat2", "free2"}
               PROVE  fat1 = fat2
    BY DEF MirrorAgrees
  <2>1. \A c \in Clusters : fat1[c] = fat2[c]
    BY DEF MirrorInv
  <2>2. fat1 \in [Clusters -> Clusters \cup {FREE, EOF}] /\ fat2 \in [Clusters -> Clusters \cup {FREE, EOF}]
    BY DEF TypeInv, TypeOK
  <2>3. QED
    BY <2>1, <2>2
<1>2. Spec => []MirrorInv
  BY InitMirror, NextMirror, TypeInvariant, PTL DEF Spec
<1>3. QED
  BY <1>1, <1>2, TypeInvariant, PTL

-----------------------------------------------------------------------------
(* Chains *)

\* Induction: a set with 0 that is closed under successor holds every number.
LEMMA Induction ==
  ASSUME NEW S, 0 \in S, \A k \in Nat : k \in S => k + 1 \in S
  PROVE  Nat \subseteq S
<1> SUFFICES ASSUME Nat \ S # {} PROVE FALSE
  OBVIOUS
<1> DEFINE T == Nat \ S
<1>1. T \subseteq Nat /\ T # {}
  OBVIOUS
<1>2. PICK x \in T : \A y \in T : x <= y
  <2> HIDE DEF T
  <2>1. QED
    BY <1>1, LeastExists
<1>3. x \in Nat /\ x # 0 /\ x \notin S
  OBVIOUS
<1>4. x - 1 \in Nat /\ ~ (x <= x - 1) /\ (x - 1) + 1 = x
  BY <1>3
<1>5. x - 1 \in S
  BY <1>2, <1>4
<1>6. QED
  BY <1>3, <1>4, <1>5

\* The chain from c by the FAT f, so that it can be spoken of before and after a step
ChainIn(f, c, n) ==
  LET at[k \in 1 .. n] ==
        IF k = 1 THEN c ELSE IF at[k - 1] \in Clusters THEN f[at[k - 1]] ELSE at[k - 1]
  IN  at

LEMMA ChainByFat1 == \A c, n : Chain(c, n) = ChainIn(fat1, c, n)
BY DEF Chain, ChainIn

\* A walk along f from c meets just the clusters of the path from c.
LEMMA PathIsChain ==
  ASSUME NEW f, NEW c, NEW n \in Nat, NEW a, PathIn(f, a, c, n)
  PROVE  ChainIn(f, c, n) = a
<1> DEFINE Walk(at) ==
             at = [k \in 1 .. n |->
                     IF k = 1 THEN c ELSE IF at[k - 1] \in Clusters THEN f[at[k - 1]] ELSE at[k - 1]]
           w == CHOOSE at : Walk(at)
<1>1. /\ a \in [1 .. n -> Clusters] /\ a[1] = c
      /\ \A k \in 1 .. n - 1 : f[a[k]] = a[k + 1]
  BY DEF PathIn
<1>2. Walk(a)
  <2>1. ASSUME NEW k \in 1 .. n
        PROVE  a[k] = IF k = 1 THEN c
                      ELSE IF a[k - 1] \in Clusters THEN f[a[k - 1]] ELSE a[k - 1]
    <3>1. CASE k = 1
      BY <1>1, <3>1
    <3>2. CASE k # 1
      <4>1. k - 1 \in 1 .. n - 1 /\ k - 1 \in 1 .. n /\ (k - 1) + 1 = k
        BY <3>2
      <4>2. f[a[k - 1]] = a[(k - 1) + 1] /\ a[k - 1] \in Clusters
        BY <1>1, <4>1
      <4>3. QED
        BY <3>2, <4>1, <4>2
    <3>3. QED
      BY <3>1, <3>2
  <2>2. QED
    BY <1>1, <2>1
<1>3. Walk(w)
  <2> HIDE DEF Walk
  <2>1. QED
    BY <1>2
<1>4. ChainIn(f, c, n) = w
  BY DEF ChainIn
<1> DEFINE S == {k \in Nat : k \in 1 .. n => w[k] = a[k]}
<1> HIDE DEF w
<1>5. 0 \in S
  OBVIOUS
<1>6. ASSUME NEW k \in Nat, k \in S
      PROVE  k + 1 \in S
  <2> SUFFICES ASSUME k + 1 \in 1 .. n PROVE w[k + 1] = a[k + 1]
    OBVIOUS
  <2>1. CASE k = 0
    BY <1>1, <1>3, <2>1
  <2>2. CASE k # 0
    <3>1. k \in 1 .. n /\ k \in 1 .. n - 1 /\ k + 1 # 1 /\ (k + 1) - 1 = k
      BY <2>2
    <3>2. w[k] = a[k]
      BY <1>6, <3>1
    <3>3. w[k] \in Clusters /\ f[w[k]] = a[k + 1]
      BY <1>1, <3>1, <3>2
    <3>4. w[k + 1] = IF k + 1 = 1 THEN c
                     ELSE IF w[(k + 1) - 1] \in Clusters THEN f[w[(k + 1) - 1]] ELSE w[(k + 1) - 1]
      BY <1>3
    <3>5. QED
      BY <3>1, <3>3, <3>4
  <2>3. QED
    BY <2>1, <2>2
<1>7. Nat \subseteq S
  <2> HIDE DEF S
  <2>1. QED
    BY <1>5, <1>6, Induction
<1>8. \A k \in 1 .. n : w[k] = a[k]
  <2>1. \A k \in 1 .. n : k \in Nat
    OBVIOUS
  <2>2. QED
    BY <1>7, <2>1
<1>9. DOMAIN w = 1 .. n /\ w = [k \in 1 .. n |-> w[k]]
  BY <1>3
<1>10. a = [k \in 1 .. n |-> a[k]]
  BY <1>1
<1>11. w = a
  BY <1>8, <1>9, <1>10
<1>12. QED
  BY <1>4, <1>11

\* A path stays one when an entry off it is written.
LEMMA PathKept ==
  ASSUME NEW R, NEW f \in [Clusters -> R], NEW x, NEW v, NEW c, NEW n \in Nat \ {0}, NEW a,
         PathIn(f, a, c, n), \A k \in 1 .. n : a[k] # x
  PROVE  PathIn([f EXCEPT ![x] = v], a, c, n)
<1>1. a \in [1 .. n -> Clusters] /\ a[1] = c /\ Injective(a)
  BY DEF PathIn
<1>2. \A k \in 1 .. n : [f EXCEPT ![x] = v][a[k]] = f[a[k]]
  BY <1>1
<1>3. n \in 1 .. n /\ \A k \in 1 .. n - 1 : k \in 1 .. n
  OBVIOUS
<1>4. f[a[n]] = EOF /\ \A k \in 1 .. n - 1 : f[a[k]] = a[k + 1]
  BY DEF PathIn
<1>5. PICK g : g = [f EXCEPT ![x] = v]
  OBVIOUS
<1>6. g[a[n]] = EOF /\ \A k \in 1 .. n - 1 : g[a[k]] = a[k + 1]
  BY <1>2, <1>3, <1>4, <1>5
<1>7. PathIn(g, a, c, n)
  BY <1>1, <1>6 DEF PathIn
<1>8. QED
  BY <1>5, <1>7

ChainsByFat1 == \A e : ChainOf(e) = ChainIn(fat1, dir[e].first, Needed(dir[e].size))

LEMMA ChainOfByFat1 == ChainsByFat1
BY ChainByFat1 DEF ChainOf, ChainsByFat1

LEMMA LiveFile ==
  ASSUME TypeInv, NEW e \in Live
  PROVE  /\ e \in Slots /\ dir[e].size \in Nat /\ dir[e].first \in Clusters
         /\ Needed(dir[e].size) \in 1 .. MaxAlloc
<1>1. e \in Slots /\ dir[e].size \in 0 .. MaxAlloc /\ dir[e].first \in Clusters
  BY DEF Live, TypeInv, TypeOK, LocalsOK
<1>2. QED
  BY <1>1, Numbers DEF Needed

\* The files after a step are among those before it, on the same clusters.
FilesKept ==
  \A e \in Live' : /\ e \in Live /\ dir'[e] = dir[e] /\ ChainOf(e)' = ChainOf(e)
                   /\ PathIn(fat1', ChainOf(e), dir[e].first, Needed(dir[e].size))

LEMMA FilesKeptFiles ==
  ASSUME FilesApart, FilesKept
  PROVE  Files' /\ FilesApart'
<1>1. Files'
  BY DEF FilesKept, Files
<1>2. FilesApart'
  BY DEF FilesKept, FilesApart, Apart
<1>3. QED
  BY <1>1, <1>2

\* No directory entry becomes a file.
NoNewFiles == \A e \in Live' : e \in Live /\ dir'[e] = dir[e]

LEMMA DirKept ==
  ASSUME dir' = dir
  PROVE  NoNewFiles
BY DEF NoNewFiles, Live

LEMMA ChainSame ==
  ASSUME NEW e, fat1' = fat1, dir'[e] = dir[e]
  PROVE  ChainOf(e)' = ChainOf(e)
<1>1. ChainsByFat1'
  BY ChainOfByFat1, PTL
<1>2. ChainOf(e)' = ChainIn(fat1', dir'[e].first, Needed(dir'[e].size))
  BY <1>1 DEF ChainsByFat1
<1>3. QED
  BY <1>2, ChainOfByFat1 DEF ChainsByFat1

LEMMA FatKept ==
  ASSUME Files, fat1' = fat1, NoNewFiles
  PROVE  FilesKept
<1>1. ASSUME NEW e \in Live'
      PROVE  /\ e \in Live /\ dir'[e] = dir[e] /\ ChainOf(e)' = ChainOf(e)
             /\ PathIn(fat1', ChainOf(e), dir[e].first, Needed(dir[e].size))
  <2>1. e \in Live /\ dir'[e] = dir[e]
    BY DEF NoNewFiles
  <2>2. ChainOf(e)' = ChainOf(e)
    BY <2>1, ChainSame
  <2>3. QED
    BY <2>1, <2>2 DEF Files
<1>2. QED
  BY <1>1 DEF FilesKept

\* An entry of FAT1 that belongs to no file is written.
LEMMA FatWritten ==
  ASSUME TypeInv, Files, NEW x, NEW v, fat1' = [fat1 EXCEPT ![x] = v], NoNewFiles,
         \A e \in Live : \A k \in DOMAIN ChainOf(e) : ChainOf(e)[k] # x
  PROVE  FilesKept
<1>1. ASSUME NEW e \in Live'
      PROVE  /\ e \in Live /\ dir'[e] = dir[e] /\ ChainOf(e)' = ChainOf(e)
             /\ PathIn(fat1', ChainOf(e), dir[e].first, Needed(dir[e].size))
  <2>1. e \in Live /\ dir'[e] = dir[e]
    BY DEF NoNewFiles
  <2>2. Needed(dir[e].size) \in 1 .. MaxAlloc
    BY <2>1, LiveFile
  <2>3. PICK n : n = Needed(dir[e].size)
    OBVIOUS
  <2>4. PICK a : a = ChainOf(e)
    OBVIOUS
  <2>5. PICK c : c = dir[e].first
    OBVIOUS
  <2>6. n \in Nat \ {0} /\ n \in Nat
    BY <2>2, <2>3, Numbers
  <2>7. PathIn(fat1, a, c, n) /\ DOMAIN a = 1 .. n
    BY <2>1, <2>3, <2>4, <2>5 DEF Files, PathIn
  <2>8. \A k \in 1 .. n : a[k] # x
    BY <2>1, <2>4, <2>7
  <2>9. fat1 \in [Clusters -> Clusters \cup {FREE, EOF}]
    BY DEF TypeInv, TypeOK
  <2>10. PathIn([fat1 EXCEPT ![x] = v], a, c, n)
    BY <2>6, <2>7, <2>8, <2>9, PathKept
  <2>11. PathIn(fat1', a, c, n)
    BY <2>10
  <2>12. ChainIn(fat1', c, n) = a
    BY <2>6, <2>11, PathIsChain
  <2>13. ChainsByFat1'
    BY ChainOfByFat1, PTL
  <2>14. ChainOf(e)' = ChainIn(fat1', c, n)
    BY <2>1, <2>3, <2>5, <2>13 DEF ChainsByFat1
  <2>15. QED
    BY <2>1, <2>3, <2>4, <2>5, <2>11, <2>12, <2>14
<1>2. QED
  BY <1>1 DEF FilesKept

\* No cluster of a file is free.
LEMMA FilesNotFree ==
  ASSUME TypeInv, Files, NEW e \in Live, NEW k \in DOMAIN ChainOf(e)
  PROVE  ChainOf(e)[k] \notin Free
<1>1. PICK n : n = Needed(dir[e].size)
  OBVIOUS
<1>2. PICK a : a = ChainOf(e)
  OBVIOUS
<1>3. n \in 1 .. MaxAlloc
  BY <1>1, LiveFile
<1>4. /\ a \in [1 .. n -> Clusters] /\ fat1[a[n]] = EOF /\ k \in 1 .. n
      /\ \A j \in 1 .. n - 1 : fat1[a[j]] = a[j + 1]
  BY <1>1, <1>2 DEF Files, PathIn
<1>5. CASE k = n
  BY <1>2, <1>4, <1>5, Numbers DEF Free
<1>6. CASE k # n
  <2>1. k \in 1 .. n - 1 /\ k + 1 \in 1 .. n
    BY <1>3, <1>4, <1>6
  <2>2. fat1[a[k]] \in Clusters
    BY <1>4, <2>1
  <2>3. fat1[a[k]] # FREE
    BY <2>2, Numbers
  <2>4. QED
    BY <1>2, <2>3 DEF Free
<1>7. QED
  BY <1>5, <1>6

-----------------------------------------------------------------------------
(* The chains of the files are sound *)

LEMMA InitChains == Init => ChainInv
<1> SUFFICES ASSUME Init PROVE ChainInv
  OBVIOUS
<1>1. Live = {} /\ pc = "idle"
  BY DEF Init, Live
<1>2. QED
  BY <1>1 DEF ChainInv, Files, FilesApart, WriteInv, FreeInv, Writing

\* Between calls, and before a call has found its clusters, only the files matter.
LEMMA RestingChains ==
  ASSUME ChainInv, FilesKept, pc' \in {"idle", "flush"}
  PROVE  ChainInv'
<1>1. Files' /\ FilesApart'
  BY FilesKeptFiles DEF ChainInv
<1>2. WriteInv' /\ FreeInv'
  BY DEF WriteInv, FreeInv, Writing
<1>3. QED
  BY <1>1, <1>2 DEF ChainInv

\* A write goes on: its clusters stay apart from the files.
LEMMA WritingChains ==
  ASSUME ChainInv, FilesKept, Writing, Writing', alloc' = alloc,
         \A k \in 1 .. Linked' : fat1'[alloc[k]] = IF k < Len(alloc) THEN alloc[k + 1] ELSE EOF
  PROVE  ChainInv'
<1>1. Files' /\ FilesApart'
  BY FilesKeptFiles DEF ChainInv
<1>2. \A e \in Live' : Apart(ChainOf(e), alloc)'
  BY DEF ChainInv, WriteInv, FilesKept, Apart
<1>3. WriteInv'
  BY <1>2 DEF WriteInv
<1>4. FreeInv'
  BY DEF FreeInv, Writing
<1>5. QED
  BY <1>1, <1>3, <1>4 DEF ChainInv

LEMMA WriteStartChains ==
  ASSUME TypeInv, ChainInv, NEW n \in Names, NEW s \in Sizes, WriteStart(n, s)
  PROVE  ChainInv'
<1>1. /\ pc = "idle" /\ UNCHANGED <<fat1, dir>>
  BY DEF WriteStart, disk
<1>2. FilesKept
  BY <1>1, DirKept, FatKept DEF ChainInv
<1>3. CASE Needed(s) > MaxAlloc \/ Cardinality(Free) < Needed(s)
  <2>1. pc' = "idle"
    BY <1>1, <1>3 DEF WriteStart
  <2>2. QED
    BY <1>2, <2>1, RestingChains
<1>4. CASE ~ (Needed(s) > MaxAlloc \/ Cardinality(Free) < Needed(s))
  <2>1. PICK a \in [1 .. Needed(s) -> Free] : LowestFree(a) /\ alloc' = a
    BY <1>4 DEF WriteStart
  <2>2. pc' = "data"
    BY <1>4 DEF WriteStart
  <2>3. Files' /\ FilesApart'
    BY <1>2, FilesKeptFiles DEF ChainInv
  <2>4. ASSUME NEW e \in Live'
        PROVE  Apart(ChainOf(e), alloc)'
    <3>1. e \in Live /\ ChainOf(e)' = ChainOf(e)
      BY <1>2 DEF FilesKept
    <3>2. \A k \in DOMAIN a : a[k] \in Free
      BY <2>1
    <3>3. \A j \in DOMAIN ChainOf(e) : ChainOf(e)[j] \notin Free
      BY <3>1, FilesNotFree DEF ChainInv
    <3>4. QED
      BY <2>1, <3>1, <3>2, <3>3 DEF Apart
  <2>5. Linked' = 0
    BY <2>2 DEF Linked
  <2>6. WriteInv' /\ FreeInv'
    <3>1. 1 .. Linked' = {}
      BY <2>5
    <3>2. QED
      BY <2>2, <2>4, <3>1 DEF WriteInv, FreeInv
  <2>7. QED
    BY <2>3, <2>6 DEF ChainInv
<1>5. QED
  BY <1>3, <1>4

LEMMA WriteDataChains ==
  ASSUME TypeInv, ChainInv, WriteData
  PROVE  ChainInv'
<1>1. /\ pc = "data" /\ UNCHANGED <<fat1, dir, alloc>> /\ Advance("data", "fat1")
  BY DEF WriteData
<1>2. FilesKept
  BY <1>1, DirKept, FatKept DEF ChainInv
<1>3. Writing /\ Writing'
  BY <1>1 DEF Writing, Advance
<1>4. Linked' = 0
  BY <1>1 DEF Linked, Advance
<1>5. 1 .. Linked' = {}
  BY <1>4
<1>6. QED
  BY <1>1, <1>2, <1>3, <1>5, WritingChains

LEMMA WriteFat1Keeps ==
  ASSUME TypeInv, ChainInv, WriteFat1
  PROVE  FilesKept
<1>1. /\ pc = "fat1" /\ dir' = dir /\ fat1' = [fat1 EXCEPT ![alloc[i]] = NextVal] /\ Writing
  BY DEF WriteFat1, Writing
<1>2. i \in DOMAIN alloc
  BY <1>1 DEF TypeInv, TypeOK, LocalsOK
<1>3. \A e \in Live : \A k \in DOMAIN ChainOf(e) : ChainOf(e)[k] # alloc[i]
  BY <1>1, <1>2 DEF ChainInv, WriteInv, Apart
<1>4. QED
  BY <1>1, <1>3, DirKept, FatWritten DEF ChainInv

LEMMA WriteFat1Chains ==
  ASSUME TypeInv, ChainInv, WriteFat1
  PROVE  ChainInv'
<1>1. /\ pc = "fat1" /\ pc' = "fat2" /\ UNCHANGED <<dir, alloc, i>>
      /\ fat1' = [fat1 EXCEPT ![alloc[i]] = NextVal]
  BY DEF WriteFat1, Locals
<1>2. Writing /\ Writing'
  BY <1>1 DEF Writing
<1>3. /\ i \in 1 .. Len(alloc) /\ Injective(alloc) /\ alloc \in Seq(Clusters)
      /\ Len(alloc) \in Nat /\ DOMAIN alloc = 1 .. Len(alloc)
      /\ fat1 \in [Clusters -> Clusters \cup {FREE, EOF}]
  BY <1>2 DEF TypeInv, TypeOK, LocalsOK
<1>4. FilesKept
  BY WriteFat1Keeps
<1>5. Linked = i - 1 /\ Linked' = i
  BY <1>1 DEF Linked
<1>6. ASSUME NEW k \in 1 .. i
      PROVE  fat1'[alloc[k]] = IF k < Len(alloc) THEN alloc[k + 1] ELSE EOF
  <2>0. k \in 1 .. Len(alloc) /\ alloc[k] \in Clusters
    BY <1>3
  <2>1. CASE k = i
    BY <1>1, <1>3, <2>0, <2>1 DEF NextVal
  <2>2. CASE k # i
    <3>1. k \in 1 .. i - 1
      BY <1>3, <2>2
    <3>2. alloc[k] # alloc[i]
      BY <1>3, <2>0, <2>2 DEF Injective
    <3>3. fat1'[alloc[k]] = fat1[alloc[k]]
      BY <1>1, <1>3, <2>0, <3>2
    <3>4. fat1[alloc[k]] = IF k < Len(alloc) THEN alloc[k + 1] ELSE EOF
      BY <1>2, <1>5, <3>1 DEF ChainInv, WriteInv
    <3>5. QED
      BY <3>3, <3>4
  <2>3. QED
    BY <2>1, <2>2
<1>7. QED
  BY <1>1, <1>2, <1>4, <1>5, <1>6, WritingChains

LEMMA WriteFat2Chains ==
  ASSUME TypeInv, ChainInv, WriteFat2
  PROVE  ChainInv'
<1>1. /\ pc = "fat2" /\ UNCHANGED <<fat1, dir, alloc>> /\ Advance("fat1", "entry")
  BY DEF WriteFat2
<1>2. FilesKept
  BY <1>1, DirKept, FatKept DEF ChainInv
<1>3. Writing /\ Writing'
  BY <1>1 DEF Writing, Advance
<1>4. i \in 1 .. Len(alloc) /\ Len(alloc) \in Nat
  BY <1>3 DEF TypeInv, TypeOK, LocalsOK
<1>5. Linked = i
  BY <1>1 DEF Linked
<1>6. Linked' = i
  <2>1. CASE i < Len(alloc)
    <3>1. i' = i + 1 /\ pc' = "fat1"
      BY <1>1, <2>1 DEF Advance
    <3>2. Linked' = i' - 1
      BY <3>1 DEF Linked
    <3>3. QED
      BY <1>4, <3>1, <3>2
  <2>2. CASE ~ (i < Len(alloc))
    <3>1. pc' = "entry"
      BY <1>1, <2>2 DEF Advance
    <3>2. Linked' = Len(alloc')
      BY <3>1 DEF Linked
    <3>3. QED
      BY <1>1, <1>4, <2>2, <3>2
  <2>3. QED
    BY <2>1, <2>2
<1>7. \A k \in 1 .. Linked' : fat1'[alloc[k]] = IF k < Len(alloc) THEN alloc[k + 1] ELSE EOF
  BY <1>1, <1>3, <1>5, <1>6 DEF ChainInv, WriteInv
<1>8. QED
  BY <1>1, <1>2, <1>3, <1>7, WritingChains

\* When the links are written, the clusters of the write are a path.
LEMMA WrittenIsPath ==
  ASSUME TypeInv, ChainInv, pc = "entry"
  PROVE  PathIn(fat1, alloc, alloc[1], Needed(arg.size)) /\ Needed(arg.size) \in Nat \ {0}
<1>1. Writing /\ Linked = Len(alloc)
  BY DEF Writing, Linked
<1>2. /\ alloc \in Seq(Clusters) /\ Len(alloc) = Needed(arg.size) /\ Injective(alloc)
      /\ i \in 1 .. Len(alloc) /\ Len(alloc) \in Nat /\ alloc \in [1 .. Len(alloc) -> Clusters]
  BY <1>1, DomainOf DEF TypeInv, TypeOK, LocalsOK
<1>3. \A k \in 1 .. Len(alloc) : fat1[alloc[k]] = IF k < Len(alloc) THEN alloc[k + 1] ELSE EOF
  BY <1>1 DEF ChainInv, WriteInv
<1>4. \A k \in 1 .. Len(alloc) - 1 : fat1[alloc[k]] = alloc[k + 1]
  <2>1. \A k \in 1 .. Len(alloc) - 1 : k \in 1 .. Len(alloc) /\ k < Len(alloc)
    BY <1>2
  <2>2. QED
    BY <1>3, <2>1
<1>5. fat1[alloc[Len(alloc)]] = EOF
  <2>1. Len(alloc) \in 1 .. Len(alloc) /\ ~ (Len(alloc) < Len(alloc))
    BY <1>2
  <2>2. QED
    BY <1>3, <2>1
<1>6. Len(alloc) \in Nat \ {0}
  BY <1>2
<1>7. QED
  BY <1>2, <1>4, <1>5, <1>6 DEF PathIn

LEMMA UsableSlot ==
  ASSUME NEW n, Usable(n) # {}
  PROVE  /\ Lowest(Usable(n)) \in Usable(n) /\ Lowest(Usable(n)) \in Slots
         /\ \A f \in Usable(n) : Lowest(Usable(n)) <= f
<1>1. Usable(n) \subseteq Slots
  BY DEF Usable
<1>2. QED
  BY <1>1, LowestIsLeast

\* The new file, in the slot l, has the clusters of the write; the others keep theirs.
LEMMA EntryWritten ==
  ASSUME TypeInv, ChainInv, pc = "entry", fat1' = fat1, NEW l \in Slots,
         dir' = [dir EXCEPT ![l] = NewEntry]
  PROVE  /\ l \in Live' /\ ChainOf(l)' = alloc /\ dir'[l] = NewEntry
         /\ PathIn(fat1', alloc, dir'[l].first, Needed(dir'[l].size))
         /\ \A e \in Live' : e # l => e \in Live /\ dir'[e] = dir[e] /\ ChainOf(e)' = ChainOf(e)
<1>1. dir'[l] = NewEntry /\ \A e \in Slots : e # l => dir'[e] = dir[e]
  BY DEF TypeInv, TypeOK
<1>2. NewEntry.first = alloc[1] /\ NewEntry.size = arg.size /\ NewEntry.kind = "file"
  BY DEF NewEntry, Entry
<1>3. PathIn(fat1', alloc, dir'[l].first, Needed(dir'[l].size))
  BY <1>1, <1>2, WrittenIsPath
<1>4. l \in Live'
  BY <1>1, <1>2 DEF Live
<1>5. ChainOf(l)' = alloc
  <2>1. ChainsByFat1'
    BY ChainOfByFat1, PTL
  <2>2. ChainOf(l)' = ChainIn(fat1', dir'[l].first, Needed(dir'[l].size))
    BY <2>1 DEF ChainsByFat1
  <2>3. Needed(dir'[l].size) \in Nat
    BY <1>1, <1>2, WrittenIsPath
  <2>4. ChainIn(fat1', dir'[l].first, Needed(dir'[l].size)) = alloc
    BY <1>3, <2>3, PathIsChain
  <2>5. QED
    BY <2>2, <2>4
<1>6. ASSUME NEW e \in Live', e # l
      PROVE  e \in Live /\ dir'[e] = dir[e] /\ ChainOf(e)' = ChainOf(e)
  <2>1. e \in Live /\ dir'[e] = dir[e]
    BY <1>1, <1>6 DEF Live
  <2>2. QED
    BY <2>1, ChainSame
<1>7. QED
  BY <1>1, <1>3, <1>4, <1>5, <1>6

LEMMA WriteEntryChains ==
  ASSUME TypeInv, ChainInv, WriteEntry
  PROVE  ChainInv'
<1>1. pc = "entry" /\ fat1' = fat1 /\ Writing
  BY DEF WriteEntry, Writing
<1>2. CASE Usable(arg.name) = {}
  <2>1. pc' = "idle" /\ dir' = dir
    BY <1>2 DEF WriteEntry, Return
  <2>2. FilesKept
    BY <1>1, <2>1, DirKept, FatKept DEF ChainInv
  <2>3. QED
    BY <2>1, <2>2, RestingChains
<1>3. CASE Usable(arg.name) # {}
  <2>1. PICK l \in Slots : l = Lowest(Usable(arg.name))
    BY <1>3, UsableSlot
  <2>2. pc' = "flush" /\ dir' = [dir EXCEPT ![l] = NewEntry]
    BY <1>3, <2>1 DEF WriteEntry
  <2>3. /\ ChainOf(l)' = alloc
        /\ PathIn(fat1', alloc, dir'[l].first, Needed(dir'[l].size))
        /\ \A e \in Live' : e # l => e \in Live /\ dir'[e] = dir[e] /\ ChainOf(e)' = ChainOf(e)
    BY <1>1, <2>2, EntryWritten
  <2>4. Files'
    <3>1. ASSUME NEW e \in Live'
          PROVE  PathIn(fat1', ChainOf(e)', dir'[e].first, Needed(dir'[e].size))
      <4>1. CASE e = l
        BY <2>3, <4>1
      <4>2. CASE e # l
        BY <1>1, <2>3, <4>2 DEF ChainInv, Files
      <4>3. QED
        BY <4>1, <4>2
    <3>2. QED
      BY <3>1 DEF Files
  <2>5. \A e \in Live' : e # l => Apart(ChainOf(e)', alloc)
    BY <1>1, <2>3 DEF ChainInv, WriteInv
  <2>6. FilesApart'
    <3>1. ASSUME NEW e \in Live', NEW f \in Live', e # f
          PROVE  Apart(ChainOf(e)', ChainOf(f)')
      <4>1. CASE e = l
        BY <2>3, <2>5, <3>1, <4>1 DEF Apart
      <4>2. CASE f = l
        BY <2>3, <2>5, <3>1, <4>2
      <4>3. CASE e # l /\ f # l
        BY <2>3, <3>1, <4>3 DEF ChainInv, FilesApart
      <4>4. QED
        BY <4>1, <4>2, <4>3
    <3>2. QED
      BY <3>1 DEF FilesApart, Apart
  <2>7. WriteInv' /\ FreeInv'
    BY <2>2 DEF WriteInv, FreeInv, Writing
  <2>8. QED
    BY <2>4, <2>6, <2>7 DEF ChainInv
<1>4. QED
  BY <1>2, <1>3

\* The slot of a deleted file is no file; the others are as they were.
LEMMA EntryDeleted ==
  ASSUME TypeInv, NEW l \in Live, dir' = [dir EXCEPT ![l].kind = "deleted"]
  PROVE  NoNewFiles /\ l \notin Live'
<1>1. l \in Slots /\ \A e \in Slots : e # l => dir'[e] = dir[e]
  BY DEF Live, TypeInv, TypeOK
<1>2. dir'[l].kind = "deleted"
  BY <1>1 DEF TypeInv, TypeOK
<1>3. QED
  BY <1>1, <1>2 DEF NoNewFiles, Live

LEMMA DeleteStartChains ==
  ASSUME TypeInv, ChainInv, NEW n \in Names, DeleteStart(n)
  PROVE  ChainInv'
<1>1. pc = "idle" /\ fat1' = fat1
  BY DEF DeleteStart
<1>2. CASE Found(n) = {}
  <2>1. pc' = "idle" /\ dir' = dir
    BY <1>1, <1>2 DEF DeleteStart
  <2>2. FilesKept
    BY <1>1, <2>1, DirKept, FatKept DEF ChainInv
  <2>3. QED
    BY <2>1, <2>2, RestingChains
<1>3. CASE Found(n) # {}
  <2>1. PICK l \in Live : l = Lowest(Found(n))
    BY <1>3, FoundIsLive
  <2>2. /\ dir' = [dir EXCEPT ![l].kind = "deleted"] /\ current' = dir[l].first /\ pc' = "free1"
    <3>1. dir[l].first \in Clusters
      BY <2>1 DEF TypeInv, LocalsOK
    <3>2. QED
      BY <1>3, <2>1, <3>1 DEF DeleteStart, InChain
  <2>3. NoNewFiles /\ l \notin Live'
    BY <2>2, EntryDeleted
  <2>4. FilesKept
    BY <1>1, <2>3, FatKept DEF ChainInv
  <2>5. Files' /\ FilesApart'
    BY <2>4, FilesKeptFiles DEF ChainInv
  <2>6. Unowned(current)'
    <3>1. PICK m : m = Needed(dir[l].size)
      OBVIOUS
    <3>2. PICK r : r = ChainOf(l)
      OBVIOUS
    <3>3. m \in 1 .. MaxAlloc
      BY <3>1, LiveFile
    <3>4. PathIn(fat1', r, current', m)
      BY <1>1, <2>2, <3>1, <3>2 DEF ChainInv, Files
    <3>5. r \in [1 .. m -> Clusters]
      BY <3>4 DEF PathIn
    <3>6. \A e \in Live' : Apart(ChainOf(e)', r)
      BY <2>3, <2>4, <3>2 DEF FilesKept, ChainInv, FilesApart
    <3>7. QED
      BY <3>3, <3>4, <3>5, <3>6 DEF Unowned, Apart
  <2>7. WriteInv' /\ FreeInv'
    BY <2>2, <2>6 DEF WriteInv, FreeInv, Writing
  <2>8. QED
    BY <2>5, <2>7 DEF ChainInv
<1>4. QED
  BY <1>2, <1>3

\* The rest of a path of more than one cluster is a path from its second cluster,
\* also once the first one is free.
LEMMA RestIsPath ==
  ASSUME NEW R, NEW f \in [Clusters -> R], NEW n \in Nat \ {0}, NEW r, NEW c, NEW v,
         PathIn(f, r, c, n), f[c] \in Clusters
  PROVE  /\ n - 1 \in Nat \ {0}
         /\ PathIn([f EXCEPT ![c] = v], [k \in 1 .. n - 1 |-> r[k + 1]], f[c], n - 1)
<1>1. /\ r \in [1 .. n -> Clusters] /\ r[1] = c /\ f[r[n]] = EOF /\ Injective(r)
      /\ \A k \in 1 .. n - 1 : f[r[k]] = r[k + 1]
  BY DEF PathIn
<1>2. n # 1
  BY <1>1, Numbers
<1>3. n - 1 \in Nat \ {0} /\ 1 \in 1 .. n - 1 /\ (n - 1) + 1 = n /\ n - 1 \in 1 .. n - 1
  BY <1>2
<1>4. PICK q : q = [k \in 1 .. n - 1 |-> r[k + 1]]
  OBVIOUS
<1>5. \A k \in 1 .. n - 1 : k + 1 \in 1 .. n /\ 1 \in 1 .. n /\ k + 1 # 1
  BY <1>3
<1>6. q \in [1 .. n - 1 -> Clusters] /\ \A k \in 1 .. n - 1 : q[k] = r[k + 1] /\ q[k] # c
  BY <1>1, <1>4, <1>5 DEF Injective
<1>7. q[1] = f[c]
  BY <1>1, <1>3, <1>6
<1>8. \A k \in 1 .. (n - 1) - 1 : f[q[k]] = q[k + 1]
  <2>1. \A k \in 1 .. (n - 1) - 1 : k \in 1 .. n - 1 /\ k + 1 \in 1 .. n - 1
    BY <1>3
  <2>2. QED
    BY <1>1, <1>6, <2>1
<1>9. f[q[n - 1]] = EOF
  BY <1>1, <1>3, <1>6
<1>10. Injective(q)
  <2>1. ASSUME NEW j \in 1 .. n - 1, NEW k \in 1 .. n - 1, q[j] = q[k]
        PROVE  j = k
    <3>1. r[j + 1] = r[k + 1] /\ j + 1 \in DOMAIN r /\ k + 1 \in DOMAIN r
      BY <1>1, <1>5, <1>6, <2>1
    <3>2. j + 1 = k + 1
      BY <1>1, <3>1 DEF Injective
    <3>3. QED
      BY <3>2
  <2>2. DOMAIN q = 1 .. n - 1
    BY <1>4
  <2>3. QED
    BY <2>1, <2>2 DEF Injective
<1>11. PathIn(f, q, f[c], n - 1)
  BY <1>6, <1>7, <1>8, <1>9, <1>10 DEF PathIn
<1>12. \A k \in 1 .. n - 1 : q[k] # c
  BY <1>6
<1>13. PICK d : d = f[c]
  OBVIOUS
<1>14. PICK m : m = n - 1
  OBVIOUS
<1>15. PathIn(f, q, d, m) /\ m \in Nat \ {0} /\ \A k \in 1 .. m : q[k] # c
  BY <1>3, <1>11, <1>12, <1>13, <1>14
<1>16. PathIn([f EXCEPT ![c] = v], q, d, m)
  BY <1>15, PathKept
<1>17. QED
  BY <1>3, <1>4, <1>13, <1>14, <1>16

LEMMA FreeFat1Keeps ==
  ASSUME TypeInv, ChainInv, FreeFat1
  PROVE  FilesKept
<1>1. pc = "free1" /\ dir' = dir /\ fat1' = [fat1 EXCEPT ![current] = FREE]
  BY DEF FreeFat1
<1>2. PICK n \in 1 .. MaxAlloc, r \in UNION {[1 .. m -> Clusters] : m \in 1 .. MaxAlloc} :
        PathIn(fat1, r, current, n) /\ \A e \in Live : Apart(ChainOf(e), r)
  BY <1>1 DEF ChainInv, FreeInv, Unowned
<1>3. DOMAIN r = 1 .. n /\ 1 \in 1 .. n /\ r[1] = current
  BY <1>2, Numbers DEF PathIn
<1>4. \A e \in Live : \A k \in DOMAIN ChainOf(e) : ChainOf(e)[k] # current
  BY <1>2, <1>3 DEF Apart
<1>5. QED
  BY <1>1, <1>4, DirKept, FatWritten DEF ChainInv

LEMMA FreeFat1Chains ==
  ASSUME TypeInv, ChainInv, FreeFat1
  PROVE  ChainInv'
<1>1. /\ pc = "free1" /\ pc' = "free2" /\ dir' = dir /\ next' = fat1[current]
      /\ fat1' = [fat1 EXCEPT ![current] = FREE]
  BY DEF FreeFat1
<1>2. PICK n \in 1 .. MaxAlloc, r \in UNION {[1 .. m -> Clusters] : m \in 1 .. MaxAlloc} :
        PathIn(fat1, r, current, n) /\ \A e \in Live : Apart(ChainOf(e), r)
  BY <1>1 DEF ChainInv, FreeInv, Unowned
<1>3. n \in Nat \ {0} /\ DOMAIN r = 1 .. n
  BY <1>2, Numbers DEF PathIn
<1>4. FilesKept
  BY FreeFat1Keeps
<1>5. Files' /\ FilesApart'
  BY <1>4, FilesKeptFiles DEF ChainInv
<1>6. next' \in Clusters => Unowned(next)'
  <2> SUFFICES ASSUME next' \in Clusters PROVE Unowned(next)'
    OBVIOUS
  <2> DEFINE q == [k \in 1 .. n - 1 |-> r[k + 1]]
  <2>1. fat1 \in [Clusters -> Clusters \cup {FREE, EOF}]
    BY DEF TypeInv, TypeOK
  <2>2. PICK c : c = current
    OBVIOUS
  <2>3. PathIn(fat1, r, c, n) /\ fat1[c] \in Clusters
    BY <1>1, <1>2, <2>2
  <2>4. n - 1 \in Nat \ {0} /\ PathIn([fat1 EXCEPT ![c] = FREE], q, fat1[c], n - 1)
    BY <1>3, <2>1, <2>3, RestIsPath
  <2>5. PathIn(fat1', q, next', n - 1)
    BY <1>1, <2>2, <2>4
  <2>6. n - 1 \in 1 .. MaxAlloc
    BY <1>2, <2>4, Numbers
  <2>7. q \in [1 .. n - 1 -> Clusters] /\ DOMAIN q = 1 .. n - 1
    BY <2>5 DEF PathIn
  <2>8. ASSUME NEW e \in Live' PROVE Apart(ChainOf(e)', q)
    <3>1. Apart(ChainOf(e), r) /\ ChainOf(e)' = ChainOf(e)
      BY <1>2, <1>4 DEF FilesKept
    <3>2. \A k \in 1 .. n - 1 : k + 1 \in 1 .. n /\ q[k] = r[k + 1]
      BY <1>3
    <3>3. QED
      BY <1>3, <2>7, <3>1, <3>2 DEF Apart
  <2> HIDE DEF q
  <2>9. QED
    BY <2>5, <2>6, <2>7, <2>8 DEF Unowned, Apart
<1>7. WriteInv' /\ FreeInv'
  BY <1>1, <1>6 DEF WriteInv, FreeInv, Writing
<1>8. QED
  BY <1>5, <1>7 DEF ChainInv

LEMMA FreeFat2Chains ==
  ASSUME TypeInv, ChainInv, FreeFat2
  PROVE  ChainInv'
<1>1. pc = "free2" /\ UNCHANGED <<fat1, dir>>
  BY DEF FreeFat2
<1>2. FilesKept
  BY <1>1, DirKept, FatKept DEF ChainInv
<1>3. CASE InChain(next)
  <2>1. pc' = "free1" /\ current' = next /\ next \in Clusters
    BY <1>3 DEF FreeFat2, InChain
  <2>2. Files' /\ FilesApart'
    BY <1>2, FilesKeptFiles DEF ChainInv
  <2>3. PICK n \in 1 .. MaxAlloc, r \in UNION {[1 .. m -> Clusters] : m \in 1 .. MaxAlloc} :
          PathIn(fat1, r, next, n) /\ \A e \in Live : Apart(ChainOf(e), r)
    BY <1>1, <2>1 DEF ChainInv, FreeInv, Unowned
  <2>4. PathIn(fat1', r, current', n) /\ \A e \in Live' : Apart(ChainOf(e)', r)
    BY <1>1, <1>2, <2>1, <2>3 DEF FilesKept
  <2>5. Unowned(current)'
    <3>1. r \in [1 .. n -> Clusters]
      BY <2>4 DEF PathIn
    <3>2. QED
      BY <2>3, <2>4, <3>1 DEF Unowned, Apart
  <2>6. WriteInv' /\ FreeInv'
    BY <2>1, <2>5 DEF WriteInv, FreeInv, Writing
  <2>7. QED
    BY <2>2, <2>6 DEF ChainInv
<1>4. CASE ~ InChain(next)
  <2>1. pc' = "idle"
    BY <1>4 DEF FreeFat2, Return
  <2>2. QED
    BY <1>2, <2>1, RestingChains
<1>5. QED
  BY <1>3, <1>4

LEMMA StutterChains ==
  ASSUME ChainInv, UNCHANGED vars
  PROVE  ChainInv'
<1>1. Files' /\ FilesApart'
  BY DEF ChainInv, Files, FilesApart, Live, ChainOf, Chain, PathIn, Apart, vars, disk
<1>2. WriteInv'
  BY DEF ChainInv, WriteInv, Writing, Linked, Live, ChainOf, Chain, PathIn, Apart, vars, disk
<1>3. FreeInv'
  BY DEF ChainInv, FreeInv, Unowned, Live, ChainOf, Chain, PathIn, Apart, vars, disk
<1>4. QED
  BY <1>1, <1>2, <1>3 DEF ChainInv

LEMMA NextChains == TypeInv /\ ChainInv /\ [Next]_vars => ChainInv'
<1> SUFFICES ASSUME TypeInv, ChainInv, [Next]_vars PROVE ChainInv'
  OBVIOUS
<1>1. CASE UNCHANGED vars
  BY <1>1, StutterChains
<1>2. ASSUME NEW n \in Names, DeleteStart(n) PROVE ChainInv'
  BY <1>2, DeleteStartChains
<1>3. ASSUME NEW n \in Names, NEW s \in Sizes, WriteStart(n, s) PROVE ChainInv'
  BY <1>3, WriteStartChains
<1>4. CASE Flush \/ Abort
  <2>1. UNCHANGED <<fat1, dir>> /\ pc' = "idle"
    BY <1>4 DEF Flush, Abort, Return, disk
  <2>2. FilesKept
    BY <2>1, DirKept, FatKept DEF ChainInv
  <2>3. QED
    BY <2>1, <2>2, RestingChains
<1>5. CASE Step /\ ~ Flush
  BY <1>5, WriteDataChains, WriteFat1Chains, WriteFat2Chains, WriteEntryChains, FreeFat1Chains,
     FreeFat2Chains DEF Step
<1>6. QED
  BY <1>1, <1>2, <1>3, <1>4, <1>5 DEF Next, Step

LEMMA ChainInvariant == Spec => []ChainInv
BY InitChains, NextChains, TypeInvariant, PTL DEF Spec

\* Whatever calls were made and wherever they were cut short, on a disk of any size
\* the chain of every file ends, is as long as the file, and shares no cluster with
\* another file: an interrupted write or delete loses clusters but no file.
THEOREM FilesStaySound == Spec => []ChainsSound
<1>1. TypeInv /\ ChainInv => ChainsSound
  <2> SUFFICES ASSUME TypeInv, ChainInv PROVE ChainsSound
    OBVIOUS
  <2>1. ASSUME NEW e \in Live PROVE Ends(ChainOf(e))
    <3>1. PICK n : n = Needed(dir[e].size)
      OBVIOUS
    <3>2. PICK a : a = ChainOf(e)
      OBVIOUS
    <3>3. n \in Nat
      BY <3>1, LiveFile
    <3>4. a \in [1 .. n -> Clusters] /\ fat1[a[n]] = EOF /\ Injective(a)
      BY <3>1, <3>2 DEF ChainInv, Files, PathIn
    <3>5. Len(a) = n
      BY <3>3, <3>4, LengthOf
    <3>6. QED
      BY <3>2, <3>4, <3>5 DEF Ends, Injective
  <2>2. \A e, f \in Live : e # f => Apart(ChainOf(e), ChainOf(f))
    BY DEF ChainInv, FilesApart
  <2>3. QED
    BY <2>1, <2>2 DEF ChainsSound
<1>2. QED
  BY <1>1, TypeInvariant, ChainInvariant, PTL

-----------------------------------------------------------------------------
(* The directory and the data of a write *)

LEMMA InitDir == Init => DirInv
BY DEF Init, DirInv

LEMMA NextDir == TypeInv /\ DirInv /\ [Next]_vars => DirInv'
<1> SUFFICES ASSUME TypeInv, DirInv, [Next]_vars PROVE DirInv'
  OBVIOUS
<1>1. CASE dir' = dir
  BY <1>1 DEF DirInv
<1>2. ASSUME NEW n \in Names, DeleteStart(n), dir' # dir PROVE DirInv'
  <2>1. Found(n) # {}
    BY <1>2 DEF DeleteStart
  <2>2. PICK l \in Live : l = Lowest(Found(n))
    BY <2>1, FoundIsLive
  <2>3. dir' = [dir EXCEPT ![l].kind = "deleted"] /\ l \in Slots /\ dir[l].kind = "file"
    BY <1>2, <2>1, <2>2 DEF DeleteStart, Live
  <2>4. dir'[l].kind = "deleted" /\ \A e \in Slots : e # l => dir'[e] = dir[e]
    BY <2>3 DEF TypeInv, TypeOK
  <2>5. QED
    BY <2>3, <2>4 DEF DirInv
<1>3. ASSUME WriteEntry, dir' # dir PROVE DirInv'
  <2>1. Usable(arg.name) # {}
    BY <1>3 DEF WriteEntry
  <2>2. PICK l \in Slots : l = Lowest(Usable(arg.name))
    BY <2>1, UsableSlot
  <2>3. \A f \in Usable(arg.name) : l <= f
    BY <2>1, <2>2, UsableSlot
  <2>4. dir' = [dir EXCEPT ![l] = NewEntry]
    BY <1>3, <2>1, <2>2 DEF WriteEntry
  <2>5. dir'[l].kind = "file" /\ \A e \in Slots : e # l => dir'[e] = dir[e]
    BY <2>4 DEF TypeInv, TypeOK, NewEntry, Entry
  <2>6. ASSUME NEW e \in Slots, NEW f \in Slots, e < f, dir'[e].kind = "end"
        PROVE  dir'[f].kind = "end"
    <3>1. e # l /\ dir[e].kind = "end"
      BY <2>5, <2>6
    <3>2. e \in Usable(arg.name)
      BY <3>1 DEF Usable
    <3>3. e \in Nat /\ f \in Nat /\ l \in Nat /\ l <= e
      BY <2>3, <3>2, Numbers
    <3>4. f # l
      BY <2>6, <3>3
    <3>5. QED
      BY <2>5, <2>6, <3>1, <3>4 DEF DirInv
  <2>7. QED
    BY <2>6 DEF DirInv
<1>4. QED
  BY <1>1, <1>2, <1>3 DEF Next, Step, vars, disk, WriteStart, WriteData, WriteFat1, WriteFat2,
     FreeFat1, FreeFat2, Flush, Abort

LEMMA DirInvariant == Spec => []DirInv
BY InitDir, NextDir, TypeInvariant, PTL DEF Spec

LEMMA InitData == Init => DataInv
<1> SUFFICES ASSUME Init PROVE DataInv
  OBVIOUS
<1>1. Filled = 0
  BY DEF Init, Filled
<1>2. QED
  BY <1>1 DEF DataInv

LEMMA WriteDataData ==
  ASSUME TypeInv, DataInv, WriteData
  PROVE  DataInv'
<1>1. /\ pc = "data" /\ UNCHANGED <<alloc, arg>> /\ Advance("data", "fat1") /\ Writing
      /\ data' = [data EXCEPT ![alloc[i]] =
                    IF i <= arg.size THEN [write |-> arg.write, at |-> i] ELSE Unwritten]
  BY DEF WriteData, Writing
<1>2. /\ i \in 1 .. Len(alloc) /\ Injective(alloc) /\ alloc \in Seq(Clusters)
      /\ Len(alloc) \in Nat /\ DOMAIN alloc = 1 .. Len(alloc)
      /\ data \in [Clusters -> [write : 0 .. MaxOps, at : 0 .. MaxAlloc]]
  BY <1>1 DEF TypeInv, TypeOK, LocalsOK
<1>3. Filled = i - 1
  BY <1>1 DEF Filled
<1>4. Filled' = i
  <2>1. CASE i < Len(alloc)
    <3>1. i' = i + 1 /\ pc' = "data"
      BY <1>1, <2>1 DEF Advance
    <3>2. Filled' = i' - 1
      BY <3>1 DEF Filled
    <3>3. QED
      BY <1>2, <3>1, <3>2
  <2>2. CASE ~ (i < Len(alloc))
    <3>1. pc' = "fat1"
      BY <1>1, <2>2 DEF Advance
    <3>2. Filled' = Len(alloc')
      BY <3>1 DEF Filled
    <3>3. QED
      BY <1>1, <1>2, <2>2, <3>2
  <2>3. QED
    BY <2>1, <2>2
<1>5. ASSUME NEW k \in 1 .. i, k <= arg.size
      PROVE  data'[alloc[k]] = [write |-> arg.write, at |-> k]
  <2>0. k \in 1 .. Len(alloc) /\ alloc[k] \in Clusters
    BY <1>2
  <2>1. CASE k = i
    BY <1>1, <1>2, <1>5, <2>0, <2>1
  <2>2. CASE k # i
    <3>1. k \in 1 .. i - 1
      BY <1>2, <2>2
    <3>2. alloc[k] # alloc[i]
      BY <1>2, <2>0, <2>2 DEF Injective
    <3>3. data'[alloc[k]] = data[alloc[k]]
      BY <1>1, <1>2, <2>0, <3>2
    <3>4. QED
      BY <1>3, <1>5, <3>1, <3>3 DEF DataInv
  <2>3. QED
    BY <2>1, <2>2
<1>6. QED
  BY <1>1, <1>4, <1>5 DEF DataInv

\* A step outside a write
LEMMA NothingFilled ==
  ASSUME Filled' = 0
  PROVE  DataInv'
BY DEF DataInv

\* A later step of a write
LEMMA FilledKept ==
  ASSUME DataInv, UNCHANGED <<data, alloc, arg>>, Filled' = Filled
  PROVE  DataInv'
BY DEF DataInv

LEMMA NextData == TypeInv /\ DataInv /\ [Next]_vars => DataInv'
<1> SUFFICES ASSUME TypeInv, DataInv, [Next]_vars PROVE DataInv'
  OBVIOUS
<1>1. CASE UNCHANGED vars
  BY <1>1 DEF DataInv, Filled, vars, disk
<1>2. ASSUME NEW n \in Names, DeleteStart(n) PROVE DataInv'
  <2>1. pc = "idle" /\ pc' \in {"idle", "free1", "flush"}
    BY <1>2 DEF DeleteStart
  <2>2. Filled' = 0
    BY <2>1 DEF Filled
  <2>3. QED
    BY <2>2, NothingFilled
<1>3. ASSUME NEW n \in Names, NEW s \in Sizes, WriteStart(n, s) PROVE DataInv'
  <2>1. pc = "idle" /\ pc' \in {"idle", "data"} /\ i' = i
    BY <1>3 DEF WriteStart, Locals
  <2>2. i = 1
    BY <2>1 DEF TypeInv, LocalsOK, Writing
  <2>3. Filled' = 0
    BY <2>1, <2>2 DEF Filled
  <2>4. QED
    BY <2>3, NothingFilled
<1>4. CASE WriteData
  BY <1>4, WriteDataData
<1>5. CASE WriteFat1
  <2>1. Filled' = Filled
    BY <1>5 DEF WriteFat1, Filled, Locals
  <2>2. QED
    BY <1>5, <2>1, FilledKept DEF WriteFat1, Locals
<1>6. CASE WriteFat2
  <2>1. pc = "fat2" /\ pc' \in {"fat1", "entry"} /\ UNCHANGED <<data, alloc, arg>>
    BY <1>6 DEF WriteFat2, Advance
  <2>2. Filled' = Filled
    BY <2>1 DEF Filled
  <2>3. QED
    BY <2>1, <2>2, FilledKept
<1>7. CASE WriteEntry \/ FreeFat1 \/ FreeFat2 \/ Flush \/ Abort
  <2>1. pc' \in {"idle", "flush", "free1", "free2"}
    BY <1>7 DEF WriteEntry, FreeFat1, FreeFat2, Flush, Abort, Return
  <2>2. Filled' = 0
    BY <2>1 DEF Filled
  <2>3. QED
    BY <2>2, NothingFilled
<1>8. QED
  BY <1>1, <1>2, <1>3, <1>4, <1>5, <1>6, <1>7 DEF Next, Step

LEMMA DataInvariant == Spec => []DataInv
BY InitData, NextData, TypeInvariant, PTL DEF Spec

-----------------------------------------------------------------------------
(* What a read returns *)

Named(n) == {e \in Live : dir[e].name = n}

Contents(e) == [k \in 1 .. dir[e].size |-> data[ChainOf(e)[k]]]

\* A read finds the first file of its name and returns the data of its clusters.
ReadsFirst ==
  \A n : Read(n) = IF Named(n) = {} THEN NotFound ELSE Contents(Lowest(Named(n)))

LEMMA FoundIsNamed ==
  ASSUME DirInv, NEW n
  PROVE  Found(n) = Named(n)
<1>1. ASSUME NEW e \in Live PROVE Scanned(e)
  <2>1. e \in Slots /\ dir[e].kind = "file"
    BY DEF Live
  <2>2. \A f \in Slots : f < e => dir[f].kind # "end"
    BY <2>1 DEF DirInv
  <2>3. QED
    BY <2>1, <2>2 DEF Scanned
<1>2. \A e \in Slots : Scanned(e) => e \in Live
  BY DEF Scanned, Live
<1>3. QED
  BY <1>1, <1>2 DEF Found, Named, Live

LEMMA ReadContents ==
  ASSUME TypeInv, Files, NEW e \in Live
  PROVE  LET a == Chain(dir[e].first, dir[e].size)
         IN  [k \in 1 .. dir[e].size |-> IF a[k] \in Clusters THEN data[a[k]] ELSE Unwritten]
               = Contents(e)
<1>1. PICK s : s = dir[e].size
  OBVIOUS
<1>2. PICK a : a = Chain(dir[e].first, dir[e].size)
  OBVIOUS
<1>3. s \in Nat
  BY <1>1, LiveFile
<1>4. ASSUME NEW k \in 1 .. s
      PROVE  (IF a[k] \in Clusters THEN data[a[k]] ELSE Unwritten) = data[ChainOf(e)[k]]
  <2>1. s # 0
    BY <1>3
  <2>2. Needed(s) = s
    BY <1>3, <2>1, NeededPositive
  <2>3. a = ChainOf(e)
    BY <1>1, <1>2, <2>2 DEF ChainOf
  <2>4. a \in [1 .. s -> Clusters]
    BY <1>1, <2>2, <2>3 DEF Files, PathIn
  <2>5. QED
    BY <2>3, <2>4
<1>5. [k \in 1 .. s |-> IF a[k] \in Clusters THEN data[a[k]] ELSE Unwritten]
        = [k \in 1 .. s |-> data[ChainOf(e)[k]]]
  BY <1>4
<1>6. QED
  BY <1>1, <1>2, <1>5 DEF Contents

LEMMA ReadIsFirst == TypeInv /\ Files /\ DirInv => ReadsFirst
<1> SUFFICES ASSUME TypeInv, Files, DirInv, NEW n
             PROVE  Read(n) = IF Named(n) = {} THEN NotFound ELSE Contents(Lowest(Named(n)))
  BY DEF ReadsFirst
<1>1. Found(n) = Named(n)
  BY FoundIsNamed
<1>2. CASE Named(n) = {}
  BY <1>1, <1>2 DEF Read
<1>3. CASE Named(n) # {}
  <2>1. PICK l \in Live : l = Lowest(Named(n))
    BY <1>1, <1>3, FoundIsLive
  <2>2. Read(n) = LET a == Chain(dir[l].first, dir[l].size)
                  IN  [k \in 1 .. dir[l].size |-> IF a[k] \in Clusters THEN data[a[k]] ELSE Unwritten]
    BY <1>1, <1>3, <2>1 DEF Read
  <2>3. Read(n) = Contents(l)
    BY <2>2, ReadContents
  <2>4. QED
    BY <1>3, <2>1, <2>3
<1>4. QED
  BY <1>2, <1>3

\* Nothing that a read of the name n looks at has changed.
LEMMA ReadKept ==
  ASSUME ReadsFirst, ReadsFirst', NEW n, Named(n)' = Named(n),
         \A e \in Named(n) : Contents(e)' = Contents(e)
  PROVE  Read(n)' = Read(n)
<1>1. Read(n)' = IF Named(n)' = {} THEN NotFound ELSE Contents(Lowest(Named(n)))'
  BY DEF ReadsFirst, NotFound
<1>2. CASE Named(n) = {}
  BY <1>1, <1>2 DEF ReadsFirst
<1>3. CASE Named(n) # {}
  <2>1. Named(n) \subseteq Slots
    BY DEF Named, Live
  <2>2. PICK l \in Named(n) : l = Lowest(Named(n))
    BY <1>3, <2>1, LowestIsLeast
  <2>3. Lowest(Named(n))' = l
    BY <2>2 DEF Lowest
  <2>4. Contents(Lowest(Named(n)))' = Contents(l)'
    BY <2>3 DEF Contents, ChainOf, Chain
  <2>5. QED
    BY <1>1, <1>3, <2>2, <2>4 DEF ReadsFirst
<1>4. QED
  BY <1>2, <1>3

\* A file keeps its contents when its clusters and their data are kept.
LEMMA ContentsKept ==
  ASSUME TypeInv, Files, NEW e \in Live, dir'[e] = dir[e], ChainOf(e)' = ChainOf(e),
         \A k \in DOMAIN ChainOf(e) : data'[ChainOf(e)[k]] = data[ChainOf(e)[k]]
  PROVE  Contents(e)' = Contents(e)
<1>1. PICK s : s = dir[e].size
  OBVIOUS
<1>2. PICK a : a = ChainOf(e)
  OBVIOUS
<1>3. s \in Nat /\ Needed(s) \in Nat /\ s <= Needed(s)
  BY <1>1, LiveFile, NeededPositive
<1>4. DOMAIN a = 1 .. Needed(s)
  BY <1>1, <1>2 DEF Files, PathIn
<1>5. \A k \in 1 .. s : k \in 1 .. Needed(s)
  BY <1>3
<1>6. \A k \in 1 .. s : data'[a[k]] = data[a[k]]
  BY <1>2, <1>4, <1>5
<1>7. Contents(e)' = [k \in 1 .. s |-> data'[a[k]]] /\ Contents(e) = [k \in 1 .. s |-> data[a[k]]]
  BY <1>1, <1>2 DEF Contents
<1>8. QED
  BY <1>6, <1>7

\* A step that leaves the directory and the data of every file alone
LEMMA QuietStep ==
  ASSUME TypeInv, Files, ReadsFirst, ReadsFirst', dir' = dir, FilesKept,
         \A e \in Live : \A k \in DOMAIN ChainOf(e) : data'[ChainOf(e)[k]] = data[ChainOf(e)[k]]
  PROVE  \A n : Read(n)' = Read(n)
<1>1. \A n : Named(n)' = Named(n) /\ Named(n) \subseteq Live
  BY DEF Named, Live
<1>2. \A e \in Live : e \in Live'
  BY DEF Live
<1>3. \A e \in Live : dir'[e] = dir[e] /\ ChainOf(e)' = ChainOf(e)
  BY <1>2 DEF FilesKept
<1>4. ASSUME NEW e \in Live PROVE Contents(e)' = Contents(e)
  BY <1>3, ContentsKept
<1>5. ASSUME NEW n PROVE Read(n)' = Read(n)
  <2>1. \A e \in Named(n) : Contents(e)' = Contents(e)
    BY <1>1, <1>4
  <2>2. Named(n)' = Named(n)
    BY <1>1
  <2>3. QED
    BY <2>1, <2>2, ReadKept
<1>6. QED
  BY <1>5

\* What a step may do to the file n
Allowed(n) ==
  Read(n)' # Read(n) =>
    \/ pc = "entry" /\ n = arg.name /\ Read(n)' = Wanted
    \/ pc = "idle" /\ pc' \in {"free1", "flush"} /\ n = arg'.name

\* The data of a file is not where a write puts its own.
LEMMA WriteDataReads ==
  ASSUME TypeInv, ChainInv, ReadsFirst, ReadsFirst', WriteData
  PROVE  \A n : Read(n)' = Read(n)
<1>1. /\ pc = "data" /\ UNCHANGED <<fat1, dir>> /\ Writing
  BY DEF WriteData, Writing
<1>2. i \in DOMAIN alloc /\ data \in [Clusters -> [write : 0 .. MaxOps, at : 0 .. MaxAlloc]]
  BY <1>1 DEF TypeInv, TypeOK, LocalsOK
<1>3. FilesKept
  BY <1>1, DirKept, FatKept DEF ChainInv
<1>4. ASSUME NEW e \in Live, NEW k \in DOMAIN ChainOf(e)
      PROVE  data'[ChainOf(e)[k]] = data[ChainOf(e)[k]]
  <2>1. ChainOf(e)[k] # alloc[i]
    BY <1>1, <1>2 DEF ChainInv, WriteInv, Apart
  <2>2. ChainOf(e)[k] \in Clusters
    BY DEF ChainInv, Files, PathIn
  <2>3. QED
    BY <1>2, <2>1, <2>2 DEF WriteData
<1>5. QED
  BY <1>1, <1>3, <1>4, QuietStep DEF ChainInv

\* The new entry: its file has all of the new data, and no other file changes.
LEMMA WriteEntryReads ==
  ASSUME TypeInv, ChainInv, DataInv, ReadsFirst, ReadsFirst', WriteEntry, NEW n
  PROVE  Allowed(n)
<1>1. pc = "entry" /\ UNCHANGED <<fat1, data>> /\ Writing
  BY DEF WriteEntry, Writing
<1>2. CASE Usable(arg.name) = {}
  <2>1. dir' = dir
    BY <1>2 DEF WriteEntry
  <2>2. FilesKept
    BY <1>1, <2>1, DirKept, FatKept DEF ChainInv
  <2>3. Read(n)' = Read(n)
    BY <1>1, <2>1, <2>2, QuietStep DEF ChainInv
  <2>4. QED
    BY <2>3 DEF Allowed
<1>3. CASE Usable(arg.name) # {}
  <2>1. PICK l \in Slots : l = Lowest(Usable(arg.name))
    BY <1>3, UsableSlot
  <2>2. dir' = [dir EXCEPT ![l] = NewEntry] /\ l \in Usable(arg.name) /\ \A f \in Usable(arg.name) : l <= f
    BY <1>3, <2>1, UsableSlot DEF WriteEntry
  <2>3. /\ l \in Live' /\ ChainOf(l)' = alloc /\ dir'[l] = NewEntry
        /\ \A e \in Live' : e # l => e \in Live /\ dir'[e] = dir[e] /\ ChainOf(e)' = ChainOf(e)
    BY <1>1, <2>2, EntryWritten
  <2>4. \A e \in Slots : e # l => dir'[e] = dir[e]
    BY <2>2 DEF TypeInv, TypeOK
  <2>5. NewEntry.name = arg.name /\ NewEntry.size = arg.size
    BY DEF NewEntry, Entry
  <2>6. CASE n # arg.name
    <3>1. l \notin Named(n) /\ l \notin Named(n)'
      BY <2>2, <2>3, <2>5, <2>6 DEF Named, Usable, Live
    <3>2. Named(n)' = Named(n)
      BY <2>4, <3>1 DEF Named, Live
    <3>3. ASSUME NEW e \in Named(n) PROVE Contents(e)' = Contents(e)
      <4>1. e \in Live /\ e \in Live' /\ e # l
        BY <3>1, <3>2 DEF Named
      <4>2. QED
        BY <1>1, <2>3, <4>1, ContentsKept DEF ChainInv
    <3>4. Read(n)' = Read(n)
      BY <3>2, <3>3, ReadKept
    <3>5. QED
      BY <3>4 DEF Allowed
  <2>7. CASE n = arg.name
    <3>1. l \in Named(n)'
      BY <2>3, <2>5, <2>7 DEF Named
    <3>2. ASSUME NEW f \in Named(n)' PROVE l <= f
      <4>1. CASE f = l
        <5>1. l \in Nat
          BY <2>1, Numbers
        <5>2. QED
          BY <4>1, <5>1
      <4>2. CASE f # l
        <5>1. f \in Slots /\ dir[f].name = n
          BY <2>3, <4>2 DEF Named, Live
        <5>2. f \in Usable(arg.name)
          BY <2>7, <5>1 DEF Usable
        <5>3. QED
          BY <2>2, <5>2
      <4>3. QED
        BY <4>1, <4>2
    <3>3. PICK S : S = Named(n)'
      OBVIOUS
    <3>4. Lowest(S) = l
      <4>1. S \subseteq Slots /\ S # {}
        BY <3>1, <3>3 DEF Named, Live
      <4>2. Lowest(S) \in S /\ \A f \in S : Lowest(S) <= f
        BY <4>1, LowestIsLeast
      <4>3. Lowest(S) <= l /\ l <= Lowest(S)
        BY <3>1, <3>2, <3>3, <4>2
      <4>4. Lowest(S) \in Nat /\ l \in Nat
        BY <2>1, <4>1, <4>2, Numbers
      <4>5. QED
        BY <4>3, <4>4
    <3>5. Lowest(Named(n))' = l
      BY <3>3, <3>4 DEF Lowest
    <3>6. Read(n)' = Contents(l)'
      <4>1. Read(n)' = IF Named(n)' = {} THEN NotFound ELSE Contents(Lowest(Named(n)))'
        BY DEF ReadsFirst, NotFound
      <4>2. Contents(Lowest(Named(n)))' = Contents(l)'
        BY <3>5 DEF Contents, ChainOf, Chain
      <4>3. QED
        BY <3>1, <4>1, <4>2
    <3>7. Contents(l)' = [k \in 1 .. arg.size |-> data[alloc[k]]]
      BY <1>1, <2>3, <2>5 DEF Contents
    <3>8. \A k \in 1 .. arg.size : data[alloc[k]] = [write |-> arg.write, at |-> k]
      <4>1. Filled = Len(alloc)
        BY <1>1 DEF Filled
      <4>2. arg.size \in Nat /\ Len(alloc) = Needed(arg.size) /\ Len(alloc) \in Nat
        BY <1>1 DEF TypeInv, TypeOK, LocalsOK
      <4>3. arg.size <= Len(alloc)
        BY <4>2, NeededPositive
      <4>4. \A k \in 1 .. arg.size : k \in 1 .. Len(alloc) /\ k <= arg.size
        BY <4>2, <4>3
      <4>5. QED
        BY <4>1, <4>4 DEF DataInv
    <3>9. Read(n)' = Wanted
      BY <3>6, <3>7, <3>8 DEF Wanted
    <3>10. QED
      BY <1>1, <2>7, <3>9 DEF Allowed
  <2>8. QED
    BY <2>6, <2>7
<1>4. QED
  BY <1>2, <1>3

\* A delete changes no file but its own.
LEMMA DeleteStartReads ==
  ASSUME TypeInv, ChainInv, ReadsFirst, ReadsFirst', NEW m \in Names, DeleteStart(m), NEW n
  PROVE  Allowed(n)
<1>1. pc = "idle" /\ UNCHANGED <<fat1, data>>
  BY DEF DeleteStart
<1>2. CASE Found(m) = {}
  <2>1. dir' = dir
    BY <1>2 DEF DeleteStart
  <2>2. FilesKept
    BY <1>1, <2>1, DirKept, FatKept DEF ChainInv
  <2>3. Read(n)' = Read(n)
    BY <1>1, <2>1, <2>2, QuietStep DEF ChainInv
  <2>4. QED
    BY <2>3 DEF Allowed
<1>3. CASE Found(m) # {}
  <2>1. PICK l \in Live : l = Lowest(Found(m))
    BY <1>3, FoundIsLive
  <2>2. dir[l].name = m
    BY <1>3, <2>1, FoundIsLive
  <2>3. /\ dir' = [dir EXCEPT ![l].kind = "deleted"] /\ pc' \in {"free1", "flush"}
        /\ arg' = [NoArg EXCEPT !.name = m]
    BY <1>3, <2>1 DEF DeleteStart
  <2>4. arg'.name = m
    BY <2>3 DEF NoArg
  <2>5. CASE n = m
    BY <1>1, <2>3, <2>4, <2>5 DEF Allowed
  <2>6. CASE n # m
    <3>1. NoNewFiles /\ l \notin Live'
      BY <2>3, EntryDeleted
    <3>2. \A e \in Slots : e # l => dir'[e] = dir[e]
      BY <2>3 DEF TypeInv, TypeOK
    <3>3. l \notin Named(n) /\ l \notin Named(n)'
      BY <2>2, <2>6, <3>1 DEF Named
    <3>4. Named(n)' = Named(n)
      BY <3>2, <3>3 DEF Named, Live
    <3>5. ASSUME NEW e \in Named(n) PROVE Contents(e)' = Contents(e)
      <4>1. e \in Live /\ dir'[e] = dir[e]
        BY <3>2, <3>3 DEF Named, Live
      <4>2. ChainOf(e)' = ChainOf(e)
        BY <1>1, <4>1, ChainSame
      <4>3. QED
        BY <1>1, <4>1, <4>2, ContentsKept DEF ChainInv
    <3>6. Read(n)' = Read(n)
      BY <3>4, <3>5, ReadKept
    <3>7. QED
      BY <3>6 DEF Allowed
  <2>7. QED
    BY <2>5, <2>6
<1>4. QED
  BY <1>2, <1>3

LEMMA NextReads ==
  TypeInv /\ ChainInv /\ DataInv /\ ReadsFirst /\ ReadsFirst' /\ [Next]_vars
    => \A n \in Names : Allowed(n)
<1> SUFFICES ASSUME TypeInv, ChainInv, DataInv, ReadsFirst, ReadsFirst', [Next]_vars, NEW n \in Names
             PROVE  Allowed(n)
  OBVIOUS
<1>1. CASE UNCHANGED <<fat1, data, dir>>
  <2>1. FilesKept
    BY <1>1, DirKept, FatKept DEF ChainInv
  <2>2. Read(n)' = Read(n)
    BY <1>1, <2>1, QuietStep DEF ChainInv
  <2>3. QED
    BY <2>2 DEF Allowed
<1>2. ASSUME NEW m \in Names, DeleteStart(m) PROVE Allowed(n)
  BY <1>2, DeleteStartReads
<1>3. CASE WriteData
  BY <1>3, WriteDataReads DEF Allowed
<1>4. CASE WriteFat1 \/ FreeFat1
  <2>1. FilesKept
    BY <1>4, WriteFat1Keeps, FreeFat1Keeps
  <2>2. UNCHANGED <<dir, data>>
    BY <1>4 DEF WriteFat1, FreeFat1
  <2>3. Read(n)' = Read(n)
    BY <2>1, <2>2, QuietStep DEF ChainInv
  <2>4. QED
    BY <2>3 DEF Allowed
<1>5. CASE WriteEntry
  BY <1>5, WriteEntryReads
<1>6. QED
  BY <1>1, <1>2, <1>3, <1>4, <1>5 DEF Next, Step, vars, disk, WriteStart, WriteFat2, FreeFat2,
     Flush, Abort

\* What a read of a file returns changes only in two steps, whatever is interrupted
\* where: the directory entry of a write replaces it by all of the new data at once,
\* and a delete removes its own file.
THEOREM UpdateIsAtomic == Spec => UpdatesAreAtomic
<1>1. TypeInv /\ ChainInv /\ DirInv => ReadsFirst
  BY ReadIsFirst DEF ChainInv
<1>2. TypeInv' /\ ChainInv' /\ DirInv' => ReadsFirst'
  BY <1>1, PTL
<1>3. TypeInv /\ ChainInv /\ DataInv /\ ReadsFirst /\ ReadsFirst' /\ [Next]_vars
        => [\A n \in Names :
              Read(n)' # Read(n) =>
                \/ pc = "entry" /\ n = arg.name /\ Read(n)' = Wanted
                \/ pc = "idle" /\ pc' \in {"free1", "flush"} /\ n = arg'.name]_vars
  BY NextReads DEF Allowed
<1>4. QED
  BY <1>1, <1>2, <1>3, TypeInvariant, ChainInvariant, DirInvariant, DataInvariant, PTL
     DEF Spec, UpdatesAreAtomic
=============================================================================
