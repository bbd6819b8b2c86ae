----------------------------- MODULE ExportDisk ------------------------------
(***************************************************************************)
(* The FAT16 export disk of kernel/src/export_disk.rs: writing, deleting   *)
(* and reading files in the root directory, one step per data cluster, FAT *)
(* sector or directory sector written, with an I/O error or a power        *)
(* failure possible between any two.  Core 0 is the only caller and        *)
(* finishes a call before it makes the next one.                           *)
(*                                                                         *)
(* File sizes are in clusters.  The contents of a cluster are the number   *)
(* of the write that filled it and the cluster's place in the file.        *)
(***************************************************************************)
EXTENDS Naturals, Sequences, FiniteSets

CONSTANTS Names,            \* 8.3 names
          Sizes,            \* sizes of the files written
          NumClusters,      \* total_data_clusters
          FatPerSector,     \* FAT entries per sector (256)
          NumEntries,       \* entries of the root directory (512)
          EntriesPerSector, \* directory entries per sector (16)
          MaxAlloc,         \* allocated_clusters.len() (64)
          MaxOps,           \* bound: calls made
          MaxFaults         \* bound: calls that fail or are cut short

ASSUME DiskAssumption ==
  /\ {NumClusters, NumEntries, MaxOps, MaxFaults} \subseteq Nat
  /\ {FatPerSector, EntriesPerSector, MaxAlloc} \subseteq Nat \ {0}
  /\ Sizes \subseteq Nat

VARIABLES fat1, fat2,    \* the two copies of the FAT
          data,          \* the data area
          dir,           \* the root directory
          pc, arg,       \* the call in progress, its name, size and write number
          alloc, i,      \* allocated_clusters, and the index of the loop over it
          current, next, \* current_cluster and next_cluster of a delete
          ops, faults

disk == <<fat1, fat2, data, dir>>
vars == <<disk, pc, arg, alloc, i, current, next, ops, faults>>

Clusters == 2 .. NumClusters + 1
FREE == 0
EOF  == NumClusters + 2     \* 0xFFFF
Slots == 0 .. NumEntries - 1

NoName == "none"
NoArg  == [name |-> NoName, size |-> 0, write |-> 0]
Unwritten == [write |-> 0, at |-> 0]
Entry(n, c, s) == [kind |-> "file", name |-> n, first |-> c, size |-> s]

\* A disk as the host formats it.
Init ==
  /\ fat1 = [c \in Clusters |-> FREE] /\ fat2 = fat1
  /\ data = [c \in Clusters |-> Unwritten]
  /\ dir = [e \in Slots |-> [kind |-> "end", name |-> NoName, first |-> 0, size |-> 0]]
  /\ pc = "idle" /\ arg = NoArg
  /\ alloc = << >> /\ i = 1
  /\ current = 0 /\ next = 0
  /\ ops = 0 /\ faults = 0

\* The call returns; its locals are gone.
Return ==
  /\ pc' = "idle" /\ arg' = NoArg
  /\ alloc' = << >> /\ i' = 1
  /\ current' = 0 /\ next' = 0

Locals == <<arg, alloc, i, current, next>>

-----------------------------------------------------------------------------
(* export_disk_write_file *)

Needed(s) == IF s = 0 THEN 1 ELSE s

Free == {c \in Clusters : fat1[c] = FREE}

\* The search goes up through FAT1: a lists the lowest free clusters, in order.
LowestFree(a) ==
  /\ \A j, k \in DOMAIN a : j < k => a[j] < a[k]
  /\ \A c \in Free : (\E k \in DOMAIN a : a[k] = c) \/ (\A k \in DOMAIN a : a[k] < c)

\* 1. Locate free clusters; too large a file, or too full a disk, is an error.
WriteStart(n, s) ==
  /\ pc = "idle" /\ ops < MaxOps
  /\ ops' = ops + 1
  /\ IF Needed(s) > MaxAlloc \/ Cardinality(Free) < Needed(s)
       THEN UNCHANGED <<pc, Locals>>
       ELSE /\ pc' = "data"
            /\ arg' = [name |-> n, size |-> s, write |-> ops']
            /\ \E a \in [1 .. Needed(s) -> Free] : LowestFree(a) /\ alloc' = a
            /\ UNCHANGED <<i, current, next>>
  /\ UNCHANGED <<disk, faults>>

\* Mutant: the index of the loop stays where it is.
AdvanceStuck(loop, done) ==
  IF i < Len(alloc) THEN i' = i /\ pc' = loop ELSE i' = 1 /\ pc' = done

\* The loop over allocated_clusters: on to the next one, or to the next phase.
Advance(loop, done) ==
  IF i < Len(alloc) THEN i' = i + 1 /\ pc' = loop ELSE i' = 1 /\ pc' = done

\* 2. Write data to the allocated clusters.
WriteData ==
  /\ pc = "data"
  /\ data' = [data EXCEPT ![alloc[i]] =
                IF i <= arg.size THEN [write |-> arg.write, at |-> i] ELSE Unwritten]
  /\ Advance("data", "fat1")
  /\ UNCHANGED <<fat1, fat2, dir, arg, alloc, current, next, ops, faults>>

\* Mutant: the last cluster links back to the first.
NextValCyclic == alloc[(i % Len(alloc)) + 1]

NextVal == IF i < Len(alloc) THEN alloc[i + 1] ELSE EOF

\* 3. Link the clusters in FAT1 ...
WriteFat1 ==
  /\ pc = "fat1"
  /\ fat1' = [fat1 EXCEPT ![alloc[i]] = NextVal]
  /\ pc' = "fat2"
  /\ UNCHANGED <<fat2, data, dir, Locals, ops, faults>>

\* Mutant: the entry of FAT2 is left as it was.
MirroredNot(c) == fat2

\* ... and copy the sector just written to FAT2.
Mirrored(c) ==
  [d \in Clusters |-> IF d \div FatPerSector = c \div FatPerSector THEN fat1[d] ELSE fat2[d]]

WriteFat2 ==
  /\ pc = "fat2"
  /\ fat2' = Mirrored(alloc[i])
  /\ Advance("fat1", "entry")
  /\ UNCHANGED <<fat1, data, dir, arg, alloc, current, next, ops, faults>>

\* 4. The entry goes to the first slot with that name or with no file.
Usable(n) == {e \in Slots : dir[e].kind # "file" \/ dir[e].name = n}
Lowest(S) == CHOOSE e \in S : \A f \in S : e <= f

\* Mutant: the size counts whole clusters.
NewEntryRounded == Entry(arg.name, alloc[1], Len(alloc))

NewEntry == Entry(arg.name, alloc[1], arg.size)

WriteEntry ==
  /\ pc = "entry"
  /\ IF Usable(arg.name) = {} THEN Return /\ UNCHANGED dir
     ELSE /\ dir' = [dir EXCEPT ![Lowest(Usable(arg.name))] = NewEntry]
          /\ pc' = "flush"
          /\ UNCHANGED Locals
  /\ UNCHANGED <<fat1, fat2, data, ops, faults>>

-----------------------------------------------------------------------------
(* export_disk_delete_file *)

\* The loops over the directory leave a sector at its first 0x00 entry but go on
\* with the next sector.
Scanned(e) ==
  dir[e].kind = "file" /\
  \A f \in Slots : f < e /\ f \div EntriesPerSector = e \div EntriesPerSector
                     => dir[f].kind # "end"

Found(n) == {e \in Slots : Scanned(e) /\ dir[e].name = n}

\* Mutant: the walk does not stop at the end-of-chain marker.
InChainPastEof(c) == c >= 2

\* current_cluster >= 2 && current_cluster < 0xFFF8
InChain(c) == c \in Clusters

\* Mark the entry deleted; a file that is not there is no error, and one without a
\* first cluster (the files written here have one) has no chain to free.
DeleteStart(n) ==
  /\ pc = "idle" /\ ops < MaxOps
  /\ ops' = ops + 1
  /\ IF Found(n) = {} THEN UNCHANGED <<dir, pc, arg, current>>
     ELSE /\ dir' = [dir EXCEPT ![Lowest(Found(n))].kind = "deleted"]
          /\ arg' = [NoArg EXCEPT !.name = n]
          /\ current' = dir[Lowest(Found(n))].first
          /\ pc' = IF InChain(current') THEN "free1" ELSE "flush"
  /\ UNCHANGED <<fat1, fat2, data, alloc, i, next, faults>>

\* Free the chain: FAT1, then FAT2, cluster by cluster.
FreeFat1 ==
  /\ pc = "free1"
  /\ next' = fat1[current]
  /\ fat1' = [fat1 EXCEPT ![current] = FREE]
  /\ pc' = "free2"
  /\ UNCHANGED <<fat2, data, dir, arg, alloc, i, current, ops, faults>>

FreeFat2 ==
  /\ pc = "free2"
  /\ fat2' = Mirrored(current)
  /\ IF InChain(next) THEN current' = next /\ pc' = "free1" /\ UNCHANGED <<arg, alloc, i, next>>
     ELSE Return
  /\ UNCHANGED <<fat1, data, dir, ops, faults>>

-----------------------------------------------------------------------------
\* The last sector is flushed and the call returns Ok.
Flush ==
  /\ pc = "flush"
  /\ Return
  /\ UNCHANGED <<disk, ops, faults>>

\* A sector operation fails and the call returns Err, or the power fails: the
\* sectors written so far stay written.
Abort ==
  /\ pc # "idle" /\ faults < MaxFaults
  /\ faults' = faults + 1
  /\ Return
  /\ UNCHANGED <<disk, ops>>

Step ==
  \/ WriteData \/ WriteFat1 \/ WriteFat2 \/ WriteEntry \/ FreeFat1 \/ FreeFat2 \/ Flush

Next ==
  \/ \E n \in Names : DeleteStart(n) \/ \E s \in Sizes : WriteStart(n, s)
  \/ Step
  \/ Abort

\* A call once made runs to its end unless it is cut short.
Spec == Init /\ [][Next]_vars /\ WF_vars(Step)

-----------------------------------------------------------------------------
(* export_disk_read_file *)

\* The first n clusters of the chain that starts at c, or what ends it before.
Chain(c, n) ==
  LET at[k \in 1 .. n] ==
        IF k = 1 THEN c ELSE IF at[k - 1] \in Clusters THEN fat1[at[k - 1]] ELSE at[k - 1]
  IN  at

NotFound == << [write |-> 0, at |-> 1] >>

\* What a read of the name returns.
Read(n) ==
  IF Found(n) = {} THEN NotFound
  ELSE LET e == dir[Lowest(Found(n))]
           a == Chain(e.first, e.size)
       IN  [k \in 1 .. e.size |-> IF a[k] \in Clusters THEN data[a[k]] ELSE Unwritten]

-----------------------------------------------------------------------------
\* The FATs, the directory and the locals of a call hold clusters of the disk.
TypeOK ==
  /\ fat1 \in [Clusters -> Clusters \cup {FREE, EOF}]
  /\ fat2 \in [Clusters -> Clusters \cup {FREE, EOF}]
  /\ data \in [Clusters -> [write : 0 .. MaxOps, at : 0 .. MaxAlloc]]
  /\ dir \in [Slots -> [kind : {"end", "deleted", "file"}, name : Names \cup {NoName},
                        first : Clusters \cup {0}, size : 0 .. MaxAlloc]]
  /\ pc \in {"idle", "data", "fat1", "fat2", "entry", "flush", "free1", "free2"}
  /\ arg \in [name : Names \cup {NoName}, size : 0 .. MaxAlloc, write : 0 .. MaxOps]
  /\ alloc \in Seq(Clusters) /\ Len(alloc) <= MaxAlloc
  /\ i \in 1 .. Len(alloc) \cup {1}
  /\ current \in Clusters \cup {0}
  /\ next \in Clusters \cup {FREE, EOF}
  /\ ops \in 0 .. MaxOps
  /\ faults \in 0 .. MaxFaults

Live == {e \in Slots : dir[e].kind = "file"}

\* The clusters of the file in slot e
ChainOf(e) == Chain(dir[e].first, Needed(dir[e].size))

\* The chain a consists of clusters, visits none twice and ends with its last one.
Ends(a) ==
  /\ \A k \in DOMAIN a : a[k] \in Clusters
  /\ \A j, k \in DOMAIN a : a[j] = a[k] => j = k
  /\ fat1[a[Len(a)]] = EOF

Apart(a, b) == \A j \in DOMAIN a, k \in DOMAIN b : a[j] # b[k]

\* Whatever calls were made and wherever they were cut short, the chain of every
\* file ends, is as long as the file, and shares no cluster with another file.
ChainsSound ==
  /\ \A e \in Live : Ends(ChainOf(e))
  /\ \A e, f \in Live : e # f => Apart(ChainOf(e), ChainOf(f))

Wanted == [k \in 1 .. arg.size |-> [write |-> arg.write, at |-> k]]

\* A write replaces the contents of its file in one step, with all of the new
\* data; no other step changes what any file reads as, except that a delete
\* changes its own file.
UpdatesAreAtomic ==
  [][\A n \in Names :
       Read(n)' # Read(n) =>
         \/ pc = "entry" /\ n = arg.name /\ Read(n)' = Wanted
         \/ pc = "idle" /\ pc' \in {"free1", "flush"} /\ n = arg'.name]_vars

\* FAT2 is a copy of FAT1 except while an entry of FAT1 is being mirrored, unless
\* a call was cut short there.
MirrorAgrees == faults = 0 /\ pc \notin {"fat2", "free2"} => fat1 = fat2

\* Every call ends: the walk of a delete meets no cycle.
CallEnds == pc # "idle" ~> pc = "idle"
=============================================================================
