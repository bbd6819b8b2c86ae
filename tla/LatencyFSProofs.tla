--------------------------- MODULE LatencyFSProofs ---------------------------
(***************************************************************************)
(* For every set of paths and names, every table and every disk: the       *)
(* table of LatencyFS and the root directory keep their types, no path is  *)
(* ever in the table twice, and a root file that the disk still has from   *)
(* its last write-through survives a power cycle if no second entry of its *)
(* name is on the disk and the import does not fill the table.             *)
(***************************************************************************)
EXTENDS LatencyFS, WellFoundedInduction, TLAPS

Tables == [Slots -> Used \cup {Empty}]
Disks == [Entries -> DiskFiles \cup {EndMark}]

\* No two entries of a table have the same path.
Unique(fs) == \A s, t \in Slots : fs[s].used /\ fs[t].used /\ fs[s].name = fs[t].name => s = t

Sound(fs) == fs \in Tables /\ Unique(fs)

-----------------------------------------------------------------------------
(* Numbers *)

Less == {p \in Nat \X Nat : p[1] < p[2]}

LEMMA LessIsWellFounded == IsWellFoundedOn(Less, Nat)
BY NatLessThanWellFounded DEF OpToRel, Less

LEMMA LeastIn ==
  ASSUME NEW S, S \subseteq Nat, S # {}
  PROVE  Least(S) \in S /\ \A y \in S : Least(S) <= y
<1>1. PICK x \in S : \A y \in S : ~ (<<y, x>> \in Less)
  BY LessIsWellFounded, WFMin
<1>2. ASSUME NEW y \in S
      PROVE  x <= y
  <2>1. x \in Nat /\ y \in Nat /\ ~ (<<y, x>> \in Less)
    BY <1>1
  <2>2. ~ (y < x)
    BY <2>1 DEF Less
  <2>3. QED
    BY <2>1, <2>2
<1>3. QED
  BY <1>2 DEF Least

LEMMA Induction ==
  ASSUME NEW S, 0 \in S, \A k \in Nat : k \in S => k + 1 \in S
  PROVE  Nat \subseteq S
<1> SUFFICES ASSUME Nat \ S # {} PROVE FALSE
  OBVIOUS
<1> DEFINE T == Nat \ S
           x == Least(T)
<1>1. T \subseteq Nat /\ T # {}
  OBVIOUS
<1>2. x \in T /\ \A y \in T : x <= y
  <2> HIDE DEF T
  <2>1. QED
    BY <1>1, LeastIn
<1> HIDE DEF x
<1>3. x \in Nat /\ x # 0 /\ x \notin S
  BY <1>2
<1>4. x - 1 \in Nat /\ ~ (x <= x - 1) /\ (x - 1) + 1 = x
  BY <1>3
<1>5. x - 1 \in S
  BY <1>2, <1>4
<1>6. QED
  BY <1>3, <1>4, <1>5

\* The first slot, or the first entry, of a set of them is one of the set.
LEMMA LeastOf ==
  ASSUME NEW S, S \subseteq Slots \/ S \subseteq Entries, S # {}
  PROVE  Least(S) \in S /\ \A y \in S : Least(S) <= y
<1>1. S \subseteq Nat
  BY FsAssumption DEF Slots, Entries
<1>2. QED
  BY <1>1, LeastIn

-----------------------------------------------------------------------------
(* The table *)

LEMMA EmptyIs == Empty.used = FALSE
BY DEF Empty

LEMMA FileIs ==
  ASSUME NEW p \in PathNames, NEW c \in Data \ TooLarge
  PROVE  File(p, c) \in Used /\ File(p, c).used /\ File(p, c).name = p
BY DEF File, Used

LEMMA DirectoryIs ==
  ASSUME NEW p \in PathNames
  PROVE  Directory(p) \in Used /\ Directory(p).used /\ Directory(p).name = p
<1>1. "none" \in Data \ TooLarge
  BY FsAssumption DEF Data
<1>2. QED
  BY <1>1 DEF Directory, Used

\* An entry takes a path that no other entry has.
LEMMA PutSound ==
  ASSUME NEW fs, Sound(fs), NEW s \in Slots, NEW f \in Used,
         \A t \in Slots : t # s /\ fs[t].used => fs[t].name # f.name
  PROVE  Sound([fs EXCEPT ![s] = f])
<1> DEFINE g == [fs EXCEPT ![s] = f]
<1>1. fs \in Tables /\ Unique(fs)
  BY DEF Sound
<1>2. g \in Tables /\ g[s] = f /\ \A t \in Slots : t # s => g[t] = fs[t]
  BY <1>1 DEF Tables
<1> HIDE DEF g
<1>3. ASSUME NEW t \in Slots, NEW u \in Slots, g[t].used, g[u].used, g[t].name = g[u].name
      PROVE  t = u
  <2>1. CASE t = s /\ u # s
    BY <1>2, <1>3, <2>1
  <2>2. CASE t # s /\ u = s
    BY <1>2, <1>3, <2>2
  <2>3. CASE t # s /\ u # s
    BY <1>1, <1>2, <1>3, <2>3 DEF Unique
  <2>4. QED
    BY <2>1, <2>2, <2>3
<1>4. Sound(g)
  BY <1>2, <1>3 DEF Sound, Unique
<1>5. QED
  BY <1>4 DEF g

LEMMA CreatedSound ==
  ASSUME NEW fs, Sound(fs), NEW p \in PathNames, NEW c \in Data
  PROVE  Sound(Created(fs, p, c))
<1>1. CASE c \in TooLarge \/ (Named(fs, p) = {} /\ Unused(fs) = {})
  BY <1>1 DEF Created
<1>2. CASE c \notin TooLarge /\ Named(fs, p) # {}
  <2> DEFINE s == Least(Named(fs, p))
  <2>1. s \in Named(fs, p)
    BY <1>2, LeastOf DEF Named
  <2> HIDE DEF s
  <2>2. \A t \in Slots : t # s /\ fs[t].used => fs[t].name # p
    BY <2>1 DEF Named, Sound, Unique
  <2>3. s \in Slots /\ File(p, c) \in Used /\ File(p, c).name = p
    BY <1>2, <2>1, FileIs DEF Named
  <2>4. Created(fs, p, c) = [fs EXCEPT ![s] = File(p, c)]
    BY <1>2 DEF Created, s
  <2>5. PICK f : f = File(p, c)
    OBVIOUS
  <2>6. f \in Used /\ f.name = p
    BY <2>3, <2>5
  <2>7. Sound([fs EXCEPT ![s] = f])
    BY <2>2, <2>3, <2>6, PutSound
  <2>8. QED
    BY <2>4, <2>5, <2>7
<1>3. CASE c \notin TooLarge /\ Named(fs, p) = {} /\ Unused(fs) # {}
  <2> DEFINE s == Least(Unused(fs))
  <2>1. s \in Slots
    BY <1>3, LeastOf DEF Unused
  <2> HIDE DEF s
  <2>2. \A t \in Slots : t # s /\ fs[t].used => fs[t].name # p
    BY <1>3 DEF Named
  <2>3. File(p, c) \in Used /\ File(p, c).name = p
    BY <1>3, FileIs
  <2>4. Created(fs, p, c) = [fs EXCEPT ![s] = File(p, c)]
    BY <1>3 DEF Created, s
  <2>5. PICK f : f = File(p, c)
    OBVIOUS
  <2>6. f \in Used /\ f.name = p
    BY <2>3, <2>5
  <2>7. Sound([fs EXCEPT ![s] = f])
    BY <2>1, <2>2, <2>6, PutSound
  <2>8. QED
    BY <2>4, <2>5, <2>7
<1>4. QED
  BY <1>1, <1>2, <1>3

LEMMA RemovedSound ==
  ASSUME NEW fs, Sound(fs), NEW s \in Slots
  PROVE  Sound([fs EXCEPT ![s] = Empty])
<1> DEFINE g == [fs EXCEPT ![s] = Empty]
<1>1. fs \in Tables /\ Unique(fs)
  BY DEF Sound
<1>2. g \in Tables /\ g[s] = Empty /\ \A t \in Slots : t # s => g[t] = fs[t]
  BY <1>1 DEF Tables
<1> HIDE DEF g
<1>3. Unique(g)
  BY <1>1, <1>2, EmptyIs DEF Unique
<1>4. QED
  BY <1>2, <1>3 DEF Sound, g

\* What is left of the disk entries after a write or a delete
LEMMA DiskTyped ==
  ASSUME NEW d \in Disks, NEW n \in DOMAIN Lower, NEW c \in Data
  PROVE  DiskWrite(d, n, c) \in Disks /\ DiskDelete(d, n) \in Disks
<1>1. DiskWrite(d, n, c) \in Disks
  <2>1. OnDisk(n, c) \in DiskFiles
    BY DEF OnDisk, DiskFiles
  <2>2. QED
    BY <2>1 DEF DiskWrite, Disks
<1>2. DiskDelete(d, n) \in Disks
  <2>1. CASE DiskFound(d, n) = {}
    BY <2>1 DEF DiskDelete
  <2>2. CASE DiskFound(d, n) # {}
    <3> DEFINE e == Least(DiskFound(d, n))
               r == [d[e] EXCEPT !.kind = "deleted"]
    <3>1. e \in DiskFound(d, n)
      BY <2>2, LeastOf DEF DiskFound
    <3> HIDE DEF e
    <3>2. e \in Entries /\ d[e].kind = "file"
      BY <3>1 DEF DiskFound
    <3>3. d[e] \in DiskFiles
      BY <3>2 DEF Disks, EndMark
    <3>4. r \in DiskFiles
      BY <3>3 DEF DiskFiles
    <3>5. DiskDelete(d, n) = [d EXCEPT ![e] = r]
      BY <2>2, <3>2 DEF DiskDelete, e
    <3> HIDE DEF r
    <3>6. QED
      BY <3>4, <3>5 DEF Disks
  <2>3. QED
    BY <2>1, <2>2
<1>3. QED
  BY <1>1, <1>2

LEMMA Name83Is ==
  ASSUME NEW p \in PathNames
  PROVE  Name83(p) \in DOMAIN Lower
<1>1. p \in Seq(DOMAIN Short) /\ p # << >>
  BY DEF PathNames
<1>2. Len(p) \in 1 .. Len(p)
  BY <1>1
<1>3. p[Len(p)] \in DOMAIN Short
  BY <1>1, <1>2
<1>4. QED
  BY <1>3, FsAssumption DEF Name83

LEMMA SyncTyped ==
  ASSUME NEW d \in Disks, NEW p \in PathNames, NEW c \in Data
  PROVE  SyncFile(d, p, c) \in Disks /\ SyncDelete(d, p) \in Disks
BY DiskTyped, Name83Is DEF SyncFile, SyncDelete

-----------------------------------------------------------------------------
(* Boot *)

LEMMA BootedSound == Sound(Booted)
<1>1. Defaults \in Seq(Used) /\ DOMAIN Defaults = 1 .. Len(Defaults) /\ Len(Defaults) \in Nat
  BY DefaultsAssumption
<1>2. ASSUME NEW s \in Slots
      PROVE  Booted[s] = IF s \in DOMAIN Defaults THEN Defaults[s] ELSE Empty
  <2>1. s \in Nat /\ s >= 1
    BY FsAssumption DEF Slots
  <2>2. s <= Len(Defaults) <=> s \in DOMAIN Defaults
    BY <1>1, <2>1
  <2>3. QED
    BY <2>2 DEF Booted
<1>3. Booted \in Tables
  <2>1. \A s \in Slots : Booted[s] \in Used \cup {Empty}
    BY <1>1, <1>2
  <2>2. Booted = [s \in Slots |-> Booted[s]]
    BY DEF Booted
  <2> QED
    BY <2>1, <2>2 DEF Tables
<1>4. Unique(Booted)
  BY <1>2, DefaultsAssumption, EmptyIs DEF Unique
<1>5. QED
  BY <1>3, <1>4 DEF Sound

LEMMA ImportEntrySound ==
  ASSUME NEW fs, Sound(fs), NEW e \in DiskFiles \cup {EndMark}
  PROVE  Sound(ImportEntry(fs, e))
<1>1. CASE e.kind # "file"
  BY <1>1 DEF ImportEntry
<1>2. CASE e.kind = "file"
  <2>1. e.name \in DOMAIN Lower /\ e.data \in Data
    BY <1>2 DEF DiskFiles, EndMark
  <2> DEFINE l == Lower[e.name]
             root == Created(fs, << l >>, e.data)
  <2>2. l \in DOMAIN Short /\ "pulselang" \in DOMAIN Short
    BY <2>1, FsAssumption
  <2>3. << l >> \in PathNames /\ << "pulselang", l >> \in PathNames
    <3> HIDE DEF l
    <3>1. QED
      BY <2>2 DEF PathNames
  <2>4. Sound(root)
    BY <2>1, <2>3, CreatedSound
  <2>5. Sound(Created(root, << "pulselang", l >>, e.data))
    <3> HIDE DEF root, l
    <3>1. QED
      BY <2>1, <2>3, <2>4, CreatedSound
  <2>6. ImportEntry(fs, e) = root \/ ImportEntry(fs, e) = Created(root, << "pulselang", l >>, e.data)
    BY <1>2 DEF ImportEntry
  <2>7. QED
    BY <2>4, <2>5, <2>6
<1>3. QED
  BY <1>1, <1>2

\* t is the table after each of the first m entries of d.
Filling(d, t, m) == t[0] = Booted /\ \A n \in 1 .. m : t[n] = ImportEntry(t[n - 1], d[n])

LEMMA FillingExists ==
  ASSUME NEW d, NEW m \in Nat
  PROVE  \E t : Filling(d, t, m)
<1> DEFINE S == {k \in Nat : \E t : Filling(d, t, k)}
<1>1. 0 \in S
  <2>1. Filling(d, [n \in {0} |-> Booted], 0)
    BY DEF Filling
  <2>2. QED
    BY <2>1
<1>2. ASSUME NEW k \in Nat, k \in S PROVE k + 1 \in S
  <2>1. PICK t : Filling(d, t, k)
    BY <1>2
  <2> DEFINE h == [n \in 0 .. k + 1 |-> IF n = k + 1 THEN ImportEntry(t[k], d[k + 1]) ELSE t[n]]
  <2>2. h[0] = Booted
    BY <2>1 DEF Filling
  <2>3. ASSUME NEW n \in 1 .. k + 1 PROVE h[n] = ImportEntry(h[n - 1], d[n])
    <3>1. CASE n = k + 1
      <4>1. n - 1 = k /\ k \in 0 .. k + 1 /\ k # k + 1 /\ n \in 0 .. k + 1
        BY <3>1
      <4>2. h[n] = ImportEntry(t[k], d[k + 1]) /\ h[k] = t[k]
        BY <3>1, <4>1
      <4>3. QED
        BY <3>1, <4>1, <4>2
    <3>2. CASE n # k + 1
      <4>1. n \in 1 .. k /\ n - 1 # k + 1 /\ n \in 0 .. k + 1 /\ n - 1 \in 0 .. k + 1
        BY <3>2
      <4>2. h[n] = t[n] /\ h[n - 1] = t[n - 1]
        BY <3>2, <4>1
      <4>3. QED
        BY <2>1, <4>1, <4>2 DEF Filling
    <3>3. QED
      BY <3>1, <3>2
  <2> HIDE DEF h
  <2>4. Filling(d, h, k + 1)
    BY <2>2, <2>3 DEF Filling
  <2>5. QED
    BY <2>4
<1>3. Nat \subseteq S
  <2> HIDE DEF S
  <2>1. QED
    BY <1>1, <1>2, Induction
<1>4. QED
  BY <1>3

LEMMA ImportsUnfold ==
  ASSUME NEW d
  PROVE  Filling(d, Imports(d), NumEntries)
<1> DEFINE IsFill(f) == f = [n \in 0 .. NumEntries |-> IF n = 0 THEN Booted ELSE ImportEntry(f[n - 1], d[n])]
           w == CHOOSE f : IsFill(f)
<1>0. NumEntries \in Nat
  BY FsAssumption
<1>1. PICK t : Filling(d, t, NumEntries)
  BY <1>0, FillingExists
<1> DEFINE h == [n \in 0 .. NumEntries |-> t[n]]
<1>2. IsFill(h)
  <2>1. ASSUME NEW n \in 0 .. NumEntries
        PROVE  h[n] = IF n = 0 THEN Booted ELSE ImportEntry(h[n - 1], d[n])
    <3>1. CASE n = 0
      BY <1>1, <3>1 DEF Filling
    <3>2. CASE n # 0
      <4>1. n \in 1 .. NumEntries /\ n - 1 \in 0 .. NumEntries
        BY <1>0, <3>2
      <4>2. h[n] = t[n] /\ h[n - 1] = t[n - 1]
        BY <4>1
      <4>3. QED
        BY <1>1, <3>2, <4>1, <4>2 DEF Filling
    <3>3. QED
      BY <3>1, <3>2
  <2>2. h = [n \in 0 .. NumEntries |-> h[n]]
    OBVIOUS
  <2> HIDE DEF h
  <2>3. QED
    BY <2>1, <2>2
<1>3. IsFill(w)
  <2> HIDE DEF IsFill
  <2>1. QED
    BY <1>2
<1>4. Imports(d) = w
  BY DEF Imports
<1> HIDE DEF w
<1>5. w[0] = Booted
  BY <1>0, <1>3
<1>6. ASSUME NEW n \in 1 .. NumEntries PROVE w[n] = ImportEntry(w[n - 1], d[n])
  <2>1. n \in 0 .. NumEntries /\ n # 0
    BY <1>0
  <2>2. w[n] = IF n = 0 THEN Booted ELSE ImportEntry(w[n - 1], d[n])
    BY <1>3, <2>1
  <2>3. QED
    BY <2>1, <2>2
<1>7. QED
  BY <1>4, <1>5, <1>6 DEF Filling

LEMMA ImportsSound ==
  ASSUME NEW d \in Disks, NEW n \in 0 .. NumEntries
  PROVE  Sound(Imports(d)[n])
<1> DEFINE w == Imports(d)
           S == {k \in Nat : k <= NumEntries => Sound(w[k])}
<1>0. NumEntries \in Nat
  BY FsAssumption
<1>1. w[0] = Booted /\ \A k \in 1 .. NumEntries : w[k] = ImportEntry(w[k - 1], d[k])
  BY ImportsUnfold DEF Filling
<1> HIDE DEF w
<1>2. 0 \in S
  BY <1>1, BootedSound
<1>3. ASSUME NEW k \in Nat, k \in S PROVE k + 1 \in S
  <2> SUFFICES ASSUME k + 1 <= NumEntries PROVE Sound(w[k + 1])
    OBVIOUS
  <2>1. k <= NumEntries /\ k + 1 \in 1 .. NumEntries /\ (k + 1) - 1 = k
    BY <1>0
  <2>2. d[k + 1] \in DiskFiles \cup {EndMark}
    BY <2>1 DEF Disks, Entries
  <2>3. Sound(w[k])
    BY <1>3, <2>1
  <2>4. QED
    BY <1>1, <2>1, <2>2, <2>3, ImportEntrySound
<1>4. Nat \subseteq S
  <2> HIDE DEF S
  <2>1. QED
    BY <1>2, <1>3, Induction
<1>5. n \in Nat /\ n <= NumEntries
  BY <1>0
<1>6. QED
  BY <1>4, <1>5 DEF w

LEMMA ImportableIn ==
  ASSUME NEW d
  PROVE  Importable(d) \in 0 .. NumEntries
<1> DEFINE S == {e - 1 : e \in {f \in Entries : d[f].kind \in {"end"}}} \cup {NumEntries}
<1>1. S \subseteq 0 .. NumEntries /\ S \subseteq Nat /\ S # {}
  BY FsAssumption DEF Entries
<1>2. Importable(d) = Least(S)
  BY DEF Importable, BeforeFirst
<1> HIDE DEF S
<1>3. QED
  BY <1>1, <1>2, LeastIn

LEMMA AfterBootSound ==
  ASSUME disk \in Disks, NEW found
  PROVE  Sound(AfterBoot(found))
BY BootedSound, ImportsSound, ImportableIn DEF AfterBoot

-----------------------------------------------------------------------------
(* The commands *)

FsInv ==
  /\ Sound(files) /\ disk \in Disks
  /\ detected \in BOOLEAN /\ ops \in Nat
  /\ backed \subseteq PathNames

LEMMA AgreedTyped ==
  ASSUME NEW fs, Sound(fs)
  PROVE  Agreed(fs) \subseteq PathNames
<1>1. ASSUME NEW t \in Slots, fs[t].used
      PROVE  fs[t].name \in PathNames
  <2>1. fs[t] \in Used
    BY <1>1, EmptyIs DEF Sound, Tables
  <2>2. QED
    BY <2>1 DEF Used
<1>2. QED
  BY <1>1 DEF Agreed

LEMMA BackedTyped ==
  ASSUME NEW b, b \subseteq PathNames, NEW p \in PathNames, NEW d, NEW n
  PROVE  /\ Others(b, n) \subseteq b
         /\ Unbacked(b, p) \subseteq PathNames
         /\ BackedUp(b, d, p) \subseteq PathNames
<1>1. \A m : Others(b, m) \subseteq b
  BY DEF Others
<1>2. Unbacked(b, p) \subseteq PathNames
  BY <1>1 DEF Unbacked
<1>3. BackedUp(b, d, p) \subseteq PathNames
  BY <1>1 DEF BackedUp
<1>4. QED
  BY <1>1, <1>2, <1>3

LEMMA FsCreateOK ==
  ASSUME FsInv, NEW p \in PathNames, NEW c \in Data, FsCreateInternal(p, c)
  PROVE  Sound(files') /\ disk' \in Disks /\ backed' \subseteq PathNames
<1>1. Sound(Created(files, p, c)) /\ SyncFile(disk, p, c) \in Disks
  BY CreatedSound, SyncTyped DEF FsInv
<1>2. BackedUp(backed, disk, p) \subseteq PathNames
  BY BackedTyped DEF FsInv
<1>3. QED
  BY <1>1, <1>2 DEF FsCreateInternal, FsInv

LEMMA MkdirOK ==
  ASSUME FsInv, NEW p \in PathNames, Mkdir(p)
  PROVE  Sound(files') /\ disk' \in Disks /\ backed' \subseteq PathNames
<1>1. disk' \in Disks /\ Sound(files) /\ backed' \subseteq PathNames
  BY DEF Mkdir, FsInv
<1>2. CASE Named(files, p) # {} \/ Unused(files) = {}
  BY <1>1, <1>2 DEF Mkdir
<1>3. CASE Named(files, p) = {} /\ Unused(files) # {}
  <2> DEFINE s == Least(Unused(files))
  <2>1. s \in Slots
    BY <1>3, LeastOf DEF Unused
  <2>2. files' = [files EXCEPT ![s] = Directory(p)]
    BY <1>3 DEF Mkdir
  <2> HIDE DEF s
  <2>3. PICK f : f = Directory(p)
    OBVIOUS
  <2>4. f \in Used /\ f.name = p
    BY <2>3, DirectoryIs
  <2>5. \A t \in Slots : t # s /\ files[t].used => files[t].name # p
    BY <1>3 DEF Named
  <2>6. Sound([files EXCEPT ![s] = f])
    BY <1>1, <2>1, <2>4, <2>5, PutSound
  <2>7. QED
    BY <1>1, <2>2, <2>3, <2>6
<1>4. QED
  BY <1>2, <1>3

LEMMA DeleteOK ==
  ASSUME FsInv, NEW p \in PathNames, Delete(p)
  PROVE  Sound(files') /\ disk' \in Disks /\ backed' \subseteq PathNames
<1>1. CASE UNCHANGED <<files, disk, backed>>
  BY <1>1 DEF FsInv
<1>2. CASE Named(files, p) # {} /\ files' = [files EXCEPT ![Least(Named(files, p))] = Empty]
                               /\ disk' = SyncDelete(disk, p) /\ backed' = Unbacked(backed, p)
  <2>1. Least(Named(files, p)) \in Slots
    BY <1>2, LeastOf DEF Named
  <2>2. "none" \in Data
    BY DEF Data
  <2>3. Unbacked(backed, p) \subseteq PathNames
    BY BackedTyped DEF FsInv
  <2>4. QED
    BY <1>2, <2>1, <2>2, <2>3, RemovedSound, SyncTyped DEF FsInv
<1>3. QED
  BY <1>1, <1>2 DEF Delete

LEMMA DataOf ==
  ASSUME FsInv, NEW s \in Slots, files[s].used
  PROVE  files[s] \in Used /\ files[s].data \in Data
<1>1. files[s] \in Used
  BY EmptyIs DEF FsInv, Sound, Tables
<1>2. QED
  BY <1>1 DEF Used

LEMMA RenameOK ==
  ASSUME FsInv, NEW p \in PathNames, NEW q \in PathNames, Rename(p, q)
  PROVE  Sound(files') /\ disk' \in Disks /\ backed' \subseteq PathNames
<1>1. CASE UNCHANGED <<files, disk, backed>>
  BY <1>1 DEF FsInv
<1>2. CASE ~ RenameBlocked(p, q)
  <2> DEFINE s == Least(Named(files, p))
             f == [files[s] EXCEPT !.name = q]
  <2>1. Named(files, q) = {} /\ Named(files, p) # {}
    BY <1>2 DEF RenameBlocked
  <2>2. s \in Slots /\ files[s].used
    BY <2>1, LeastOf DEF Named
  <2>3. /\ files' = [files EXCEPT ![s].name = q]
        /\ disk' = IF files[s].is_dir THEN SyncDelete(disk, p)
                   ELSE SyncFile(SyncDelete(disk, p), q, files[s].data)
        /\ backed' = IF files[s].is_dir THEN Unbacked(backed, p)
                     ELSE BackedUp(Unbacked(backed, p), SyncDelete(disk, p), q)
    BY <1>2 DEF Rename
  <2> HIDE DEF s
  <2>4. files[s] \in Used /\ files[s].data \in Data
    BY <2>2, DataOf
  <2>5. f \in Used /\ f.name = q
    BY <2>4 DEF Used
  <2>6. files' = [files EXCEPT ![s] = f]
    BY <2>3
  <2> HIDE DEF f
  <2>7. \A t \in Slots : t # s /\ files[t].used => files[t].name # q
    BY <2>1 DEF Named
  <2>8. Sound(files')
    BY <2>2, <2>5, <2>6, <2>7, PutSound DEF FsInv
  <2>9. SyncDelete(disk, p) \in Disks
    BY <2>4, SyncTyped DEF FsInv
  <2>10. SyncFile(SyncDelete(disk, p), q, files[s].data) \in Disks
    BY <2>4, <2>9, SyncTyped
  <2>11. backed' \subseteq PathNames
    <3>1. PICK b : b = Unbacked(backed, p)
      OBVIOUS
    <3>2. b \subseteq PathNames
      BY <3>1, BackedTyped DEF FsInv
    <3>3. BackedUp(b, SyncDelete(disk, p), q) \subseteq PathNames
      BY <3>2, BackedTyped
    <3>4. QED
      BY <2>3, <3>1, <3>2, <3>3
  <2>12. QED
    BY <2>3, <2>8, <2>9, <2>10, <2>11
<1>3. QED
  BY <1>1, <1>2 DEF Rename

LEMMA ReadableIs ==
  ASSUME FsInv, NEW p, Readable(p) # {}
  PROVE  Least(Readable(p)) \in Slots /\ files[Least(Readable(p))].data \in Data
<1>1. Readable(p) \subseteq {s \in Slots : files[s].used}
  BY DEF Readable, Named
<1>2. Least(Readable(p)) \in Readable(p)
  BY <1>1, LeastOf
<1>3. QED
  BY <1>1, <1>2, DataOf

LEMMA CopiesOK ==
  ASSUME FsInv, NEW p \in PathNames, NEW q \in PathNames, Copy(p, q)
  PROVE  Sound(files') /\ disk' \in Disks /\ backed' \subseteq PathNames
<1>1. CASE UNCHANGED <<files, disk, backed>>
  BY <1>1 DEF FsInv
<1>2. CASE Readable(p) # {} /\ FsCreateInternal(q, files[Least(Readable(p))].data)
  BY <1>2, ReadableIs, FsCreateOK
<1>3. QED
  BY <1>1, <1>2 DEF Copy

LEMMA FoundIs ==
  ASSUME disk \in Disks, NEW n, DiskFound(disk, n) # {}
  PROVE  Least(DiskFound(disk, n)) \in Entries /\ disk[Least(DiskFound(disk, n))].data \in Data
<1> DEFINE e == Least(DiskFound(disk, n))
<1>1. e \in DiskFound(disk, n)
  BY LeastOf DEF DiskFound
<1> HIDE DEF e
<1>2. e \in Entries /\ disk[e].kind = "file"
  BY <1>1 DEF DiskFound
<1>3. disk[e] \in DiskFiles
  BY <1>2 DEF Disks, EndMark
<1>4. disk[e].data \in Data
  BY <1>3 DEF DiskFiles
<1>5. QED
  BY <1>2, <1>4 DEF e

LEMMA ImportOK ==
  ASSUME FsInv, NEW n, NEW p \in PathNames, Import(n, p)
  PROVE  Sound(files') /\ disk' \in Disks /\ backed' \subseteq PathNames
<1>1. CASE UNCHANGED <<files, disk, backed>>
  BY <1>1 DEF FsInv
<1>2. CASE DiskFound(disk, n) # {} /\ FsCreateInternal(p, disk[Least(DiskFound(disk, n))].data)
  BY <1>2, FoundIs, FsCreateOK DEF FsInv
<1>3. QED
  BY <1>1, <1>2 DEF Import

LEMMA ExportOK ==
  ASSUME FsInv, NEW p \in Paths, NEW n \in ExportNames[p], Export(p, n)
  PROVE  Sound(files') /\ disk' \in Disks /\ backed' \subseteq PathNames
<1>1. n \in DOMAIN Lower
  BY FsAssumption
<1>2. CASE UNCHANGED <<disk, backed>>
  BY <1>2 DEF FsInv, Export
<1>3. CASE Readable(p) # {} /\ disk' = DiskWrite(disk, n, files[Least(Readable(p))].data)
                           /\ backed' = Others(backed, n) \cup (backed \cap {p})
  <2>1. backed' \subseteq PathNames
    BY <1>3 DEF FsInv, Others
  <2>2. QED
    BY <1>1, <1>3, <2>1, ReadableIs, DiskTyped DEF FsInv, Export
<1>4. QED
  BY <1>2, <1>3 DEF Export

LEMMA InitOK == Init => FsInv
<1> SUFFICES ASSUME Init PROVE FsInv
  OBVIOUS
<1>1. PICK h \in HostFiles : disk = [e \in Entries |-> IF e <= Len(h) THEN h[e] ELSE EndMark]
  BY DEF Init
<1>2. h \in Seq(DiskFiles) /\ Len(h) \in Nat
  BY FsAssumption
<1>3. disk \in Disks
  <2>1. \A e \in Entries : e \in Nat /\ e >= 1
    BY FsAssumption DEF Entries
  <2>2. \A e \in Entries : e <= Len(h) => h[e] \in DiskFiles
    BY <1>2, <2>1
  <2>3. QED
    BY <1>1, <2>2 DEF Disks
<1>4. files = AfterBoot(detected) /\ backed = Agreed(files) /\ detected \in BOOLEAN /\ ops = 0
  BY DEF Init
<1>5. Sound(files)
  BY <1>3, <1>4, AfterBootSound
<1>6. QED
  BY <1>3, <1>4, <1>5, AgreedTyped DEF FsInv

LEMMA StepOK == FsInv /\ [Next]_vars => FsInv'
<1> SUFFICES ASSUME FsInv, [Next]_vars PROVE FsInv'
  OBVIOUS
<1>0. Paths \subseteq PathNames /\ Contents \subseteq Data
  BY FsAssumption DEF Data
<1>1. CASE UNCHANGED vars
  BY <1>1 DEF vars, FsInv
<1>2. CASE Next
  <2>1. detected' \in BOOLEAN /\ ops' \in Nat
    <3>1. Counted /\ detected' \in BOOLEAN
      BY <1>2 DEF Next, Reboot, ListDisk, Create, Mkdir, Delete, Rename, Copy, Import, Export,
                  Executed, DetectAgain, FsInv
    <3>2. QED
      BY <3>1 DEF Counted, FsInv
  <2>2. Sound(files') /\ disk' \in Disks /\ backed' \subseteq PathNames
    <3>1. CASE Reboot
      <4>1. files' = AfterBoot(detected') /\ backed' = Agreed(files') /\ disk' = disk
        BY <3>1 DEF Reboot
      <4>2. Sound(files')
        BY <4>1, AfterBootSound DEF FsInv
      <4>3. Agreed(files') \subseteq PathNames
        BY <4>2, AgreedTyped
      <4>4. QED
        BY <4>1, <4>2, <4>3 DEF FsInv
    <3>2. ASSUME NEW p \in Paths, NEW c \in Contents, Create(p, c)
          PROVE  Sound(files') /\ disk' \in Disks /\ backed' \subseteq PathNames
      <4>1. p \in PathNames /\ c \in Data
        BY <1>0
      <4>2. QED
        BY <3>2, <4>1, FsCreateOK DEF Create
    <3>3. ASSUME NEW p \in Paths, Mkdir(p) \/ Delete(p)
          PROVE  Sound(files') /\ disk' \in Disks /\ backed' \subseteq PathNames
      <4>1. p \in PathNames
        BY <1>0
      <4>2. QED
        BY <3>3, <4>1, MkdirOK, DeleteOK
    <3>4. ASSUME NEW p \in Paths, NEW q \in Paths, Rename(p, q) \/ Copy(p, q)
          PROVE  Sound(files') /\ disk' \in Disks /\ backed' \subseteq PathNames
      <4>1. p \in PathNames /\ q \in PathNames
        BY <1>0
      <4>2. QED
        BY <3>4, <4>1, RenameOK, CopiesOK
    <3>5. ASSUME NEW p \in Paths, NEW n, Import(n, p)
          PROVE  Sound(files') /\ disk' \in Disks /\ backed' \subseteq PathNames
      <4>1. p \in PathNames
        BY <1>0
      <4>2. QED
        BY <3>5, <4>1, ImportOK
    <3>6. ASSUME NEW p \in Paths, NEW n \in ExportNames[p], Export(p, n)
          PROVE  Sound(files') /\ disk' \in Disks /\ backed' \subseteq PathNames
      BY <3>6, ExportOK
    <3>7. CASE ListDisk
      BY <3>7 DEF ListDisk, FsInv
    <3>8. QED
      BY <1>2, <3>1, <3>2, <3>3, <3>4, <3>5, <3>6, <3>7 DEF Next
  <2>3. QED
    BY <2>1, <2>2 DEF FsInv
<1>3. QED
  BY <1>1, <1>2

LEMMA FsInvHolds == Spec => []FsInv
BY InitOK, StepOK, PTL DEF Spec

\* The table of fs.rs holds only entries with a path and no file of more than
\* MAX_FILE_SIZE bytes, and the root directory only files with 8.3 names, through
\* every sequence of commands, imports and power cycles.
THEOREM FsTypeCorrect == Spec => []TypeOK
<1>1. FsInv => TypeOK
  BY DEF FsInv, Sound, Tables, Disks, TypeOK
<1>2. QED
  BY <1>1, FsInvHolds, PTL

\* No sequence of creates, renames, copies, imports and power cycles leaves two
\* entries of one path in the table, so the first match of fs_read, fs_delete and
\* fs_rename is the only one.
THEOREM PathsStayUnique == Spec => []UniqueNames
<1>1. FsInv => UniqueNames
  BY DEF FsInv, Sound, Unique, UniqueNames
<1>2. QED
  BY <1>1, FsInvHolds, PTL

-----------------------------------------------------------------------------
(* What survives a power cycle *)

\* Nothing follows the end of the directory.
EndsLast(d) == \A e, f \in Entries : d[e].kind = "end" /\ e <= f => d[f].kind = "end"

Has(fs, p, x) == \E t \in Slots : fs[t].used /\ fs[t].name = p /\ ~ fs[t].is_dir /\ fs[t].data = x
Entry(d, n, x) == \E e \in Entries : d[e] = OnDisk(n, x)

\* Table and disk agree on each path of b.
Kept(b, fs, d) == \A p \in b : \E x : Has(fs, p, x) /\ Entry(d, Name83(p), x)

DiskInv == EndsLast(disk) /\ Kept(backed, files, disk)

-----------------------------------------------------------------------------
(* Writing and deleting entries of the disk *)

LEMMA WriteCases ==
  ASSUME NEW d \in Disks, NEW n, NEW x, \E e \in Entries : d[e].kind # "file" \/ d[e].name = n
  PROVE  \E u \in Entries :
           /\ d[u].kind # "file" \/ d[u].name = n
           /\ \A e \in Entries : d[e].kind # "file" \/ d[e].name = n => u <= e
           /\ DiskWrite(d, n, x)[u] = OnDisk(n, x)
           /\ \A e \in Entries : e # u => DiskWrite(d, n, x)[e] = d[e]
<1> DEFINE usable == {e \in Entries : d[e].kind # "file" \/ d[e].name = n}
           u == Least(usable)
<1>1. usable # {} /\ usable \subseteq Entries
  OBVIOUS
<1>2. DiskWrite(d, n, x) = [d EXCEPT ![u] = OnDisk(n, x)]
  BY <1>1 DEF DiskWrite, Usable
<1>3. u \in usable /\ \A e \in usable : u <= e
  <2> HIDE DEF usable
  <2>1. QED
    BY <1>1, LeastOf
<1> HIDE DEF u
<1>4. u \in Entries
  BY <1>3
<1>5. DiskWrite(d, n, x)[u] = OnDisk(n, x) /\ \A e \in Entries : e # u => DiskWrite(d, n, x)[e] = d[e]
  BY <1>2, <1>4 DEF Disks
<1>6. QED
  BY <1>3, <1>4, <1>5

LEMMA OnDiskIs ==
  ASSUME NEW n, NEW x
  PROVE  OnDisk(n, x).kind = "file" /\ OnDisk(n, x).name = n /\ OnDisk(n, x).data = x
BY DEF OnDisk

LEMMA WriteKeeps ==
  ASSUME NEW d \in Disks, NEW n, NEW x
  PROVE  /\ Usable(d, n) # {} => Entry(DiskWrite(d, n, x), n, x)
         /\ \A m, y : m # n /\ Entry(d, m, y) => Entry(DiskWrite(d, n, x), m, y)
<1> DEFINE g == DiskWrite(d, n, x)
<1>1. CASE Usable(d, n) = {}
  BY <1>1 DEF DiskWrite
<1>2. CASE Usable(d, n) # {}
  <2>1. \E e \in Entries : d[e].kind # "file" \/ d[e].name = n
    BY <1>2 DEF Usable
  <2>2. PICK u \in Entries :
             /\ d[u].kind # "file" \/ d[u].name = n
             /\ g[u] = OnDisk(n, x)
             /\ \A e \in Entries : e # u => g[e] = d[e]
    BY <2>1, WriteCases
  <2> HIDE DEF g
  <2>3. Entry(g, n, x)
    BY <2>2 DEF Entry
  <2>4. ASSUME NEW m, NEW y, m # n, Entry(d, m, y)
        PROVE  Entry(g, m, y)
    <3>1. PICK e \in Entries : d[e] = OnDisk(m, y)
      BY <2>4 DEF Entry
    <3>2. d[e].kind = "file" /\ d[e].name = m
      BY <3>1, OnDiskIs
    <3>3. e # u
      BY <2>2, <2>4, <3>2
    <3>4. QED
      BY <2>2, <3>1, <3>3 DEF Entry
  <2>5. QED
    BY <2>3, <2>4 DEF g
<1>3. QED
  BY <1>1, <1>2

LEMMA DeleteCases ==
  ASSUME NEW d \in Disks, NEW n
  PROVE  \/ DiskDelete(d, n) = d
         \/ \E u \in Entries :
              /\ d[u].kind = "file" /\ d[u].name = n
              /\ DiskDelete(d, n)[u].kind = "deleted"
              /\ \A e \in Entries : e # u => DiskDelete(d, n)[e] = d[e]
<1>1. CASE DiskFound(d, n) = {}
  BY <1>1 DEF DiskDelete
<1>2. CASE DiskFound(d, n) # {}
  <2> DEFINE u == Least(DiskFound(d, n))
             r == [d[u] EXCEPT !.kind = "deleted"]
  <2>1. u \in DiskFound(d, n)
    BY <1>2, LeastOf DEF DiskFound
  <2> HIDE DEF u
  <2>2. u \in Entries /\ d[u].kind = "file" /\ d[u].name = n
    BY <2>1 DEF DiskFound
  <2>3. d[u] \in DiskFiles
    BY <2>2 DEF Disks, EndMark
  <2>4. r.kind = "deleted"
    BY <2>3 DEF DiskFiles
  <2>5. DiskDelete(d, n) = [d EXCEPT ![u] = r]
    BY <1>2, <2>2 DEF DiskDelete, u
  <2> HIDE DEF r
  <2>6. DiskDelete(d, n)[u] = r /\ \A e \in Entries : e # u => DiskDelete(d, n)[e] = d[e]
    BY <2>2, <2>5 DEF Disks
  <2>7. QED
    BY <2>2, <2>4, <2>6
<1>3. QED
  BY <1>1, <1>2

LEMMA DeleteKeepsOthers ==
  ASSUME NEW d \in Disks, NEW n, NEW m, NEW y, m # n, Entry(d, m, y)
  PROVE  Entry(DiskDelete(d, n), m, y)
<1> DEFINE g == DiskDelete(d, n)
<1>1. PICK e \in Entries : d[e] = OnDisk(m, y)
  BY DEF Entry
<1>2. d[e].name = m
  BY <1>1, OnDiskIs
<1>3. g = d \/ \E u \in Entries : d[u].name = n /\ \A f \in Entries : f # u => g[f] = d[f]
  BY DeleteCases
<1> HIDE DEF g
<1>4. g[e] = d[e]
  BY <1>2, <1>3
<1>5. Entry(g, m, y)
  BY <1>1, <1>4 DEF Entry
<1>6. QED
  BY <1>5 DEF g

LEMMA WriteEnds ==
  ASSUME NEW d \in Disks, EndsLast(d), NEW n, NEW x
  PROVE  EndsLast(DiskWrite(d, n, x))
<1>0. \A e \in Entries : e \in Nat
  BY FsAssumption DEF Entries
<1>1. CASE ~ \E e \in Entries : d[e].kind # "file" \/ d[e].name = n
  BY <1>1 DEF DiskWrite, Usable
<1>2. CASE \E e \in Entries : d[e].kind # "file" \/ d[e].name = n
  <2> DEFINE g == DiskWrite(d, n, x)
  <2>1. PICK u \in Entries :
             /\ \A e \in Entries : d[e].kind # "file" \/ d[e].name = n => u <= e
             /\ g[u] = OnDisk(n, x)
             /\ \A e \in Entries : e # u => g[e] = d[e]
    BY <1>2, WriteCases
  <2> HIDE DEF g
  <2>2. g[u].kind = "file"
    BY <2>1, OnDiskIs
  <2>3. ASSUME NEW e \in Entries, NEW f \in Entries, g[e].kind = "end", e <= f
        PROVE  g[f].kind = "end"
    <3>1. e # u /\ d[e].kind = "end"
      BY <2>1, <2>2, <2>3
    <3>2. u <= e
      BY <2>1, <3>1
    <3>3. f # u
      BY <1>0, <2>3, <3>1, <3>2
    <3>4. d[f].kind = "end"
      BY <2>3, <3>1 DEF EndsLast
    <3>5. QED
      BY <2>1, <3>3, <3>4
  <2>4. QED
    BY <2>3 DEF EndsLast, g
<1>3. QED
  BY <1>1, <1>2

LEMMA DeleteEnds ==
  ASSUME NEW d \in Disks, EndsLast(d), NEW n
  PROVE  EndsLast(DiskDelete(d, n))
<1> DEFINE g == DiskDelete(d, n)
<1>1. CASE g = d
  BY <1>1
<1>2. CASE \E u \in Entries : /\ d[u].kind = "file" /\ g[u].kind = "deleted"
                             /\ \A e \in Entries : e # u => g[e] = d[e]
  <2>1. PICK u \in Entries : /\ d[u].kind = "file" /\ g[u].kind = "deleted"
                             /\ \A e \in Entries : e # u => g[e] = d[e]
    BY <1>2
  <2> HIDE DEF g
  <2>2. EndsLast(g)
    BY <2>1 DEF EndsLast
  <2>3. QED
    BY <2>2 DEF g
<1>3. QED
  BY <1>1, <1>2, DeleteCases

-----------------------------------------------------------------------------
(* The tables of the import *)

LEMMA CreatedCases ==
  ASSUME NEW fs, fs \in Tables, NEW p, NEW c
  PROVE  \/ Created(fs, p, c) = fs /\ (c \in TooLarge \/ Named(fs, p) \cup Unused(fs) = {})
         \/ \E s \in Slots :
              /\ fs[s].used => fs[s].name = p
              /\ Created(fs, p, c)[s] = File(p, c)
              /\ \A t \in Slots : t # s => Created(fs, p, c)[t] = fs[t]
<1>1. CASE c \in TooLarge \/ Named(fs, p) \cup Unused(fs) = {}
  BY <1>1 DEF Created
<1>2. CASE c \notin TooLarge /\ Named(fs, p) # {}
  <2> DEFINE s == Least(Named(fs, p))
  <2>1. s \in Slots /\ fs[s].name = p
    BY <1>2, LeastOf DEF Named
  <2>2. Created(fs, p, c) = [fs EXCEPT ![s] = File(p, c)]
    BY <1>2 DEF Created
  <2> HIDE DEF s
  <2>3. Created(fs, p, c)[s] = File(p, c) /\ \A t \in Slots : t # s => Created(fs, p, c)[t] = fs[t]
    BY <2>1, <2>2 DEF Tables
  <2>4. QED
    BY <2>1, <2>3
<1>3. CASE c \notin TooLarge /\ Named(fs, p) = {} /\ Unused(fs) # {}
  <2> DEFINE s == Least(Unused(fs))
  <2>1. s \in Slots /\ ~ fs[s].used
    BY <1>3, LeastOf DEF Unused
  <2>2. Created(fs, p, c) = [fs EXCEPT ![s] = File(p, c)]
    BY <1>3 DEF Created
  <2> HIDE DEF s
  <2>3. Created(fs, p, c)[s] = File(p, c) /\ \A t \in Slots : t # s => Created(fs, p, c)[t] = fs[t]
    BY <2>1, <2>2 DEF Tables
  <2>4. QED
    BY <2>1, <2>3
<1>4. QED
  BY <1>1, <1>2, <1>3

LEMMA CreatedHas ==
  ASSUME NEW fs, fs \in Tables, NEW p, NEW c
  PROVE  /\ c \notin TooLarge /\ Named(fs, p) \cup Unused(fs) # {} => Has(Created(fs, p, c), p, c)
         /\ \A q, x : q # p /\ Has(fs, q, x) => Has(Created(fs, p, c), q, x)
<1> DEFINE g == Created(fs, p, c)
<1>1. CASE g = fs /\ (c \in TooLarge \/ Named(fs, p) \cup Unused(fs) = {})
  BY <1>1
<1>2. CASE \E s \in Slots :
              /\ fs[s].used => fs[s].name = p
              /\ g[s] = File(p, c)
              /\ \A t \in Slots : t # s => g[t] = fs[t]
  <2>1. PICK s \in Slots :
              /\ fs[s].used => fs[s].name = p
              /\ g[s] = File(p, c)
              /\ \A t \in Slots : t # s => g[t] = fs[t]
    BY <1>2
  <2> HIDE DEF g
  <2>2. Has(g, p, c)
    <3>1. PICK f : f = File(p, c)
      OBVIOUS
    <3>2. f.used /\ f.name = p /\ ~ f.is_dir /\ f.data = c
      BY <3>1 DEF File
    <3>3. g[s] = f
      BY <2>1, <3>1
    <3>4. QED
      BY <3>2, <3>3 DEF Has
  <2>3. ASSUME NEW q, NEW x, q # p, Has(fs, q, x)
        PROVE  Has(g, q, x)
    <3>1. PICK t \in Slots : fs[t].used /\ fs[t].name = q /\ ~ fs[t].is_dir /\ fs[t].data = x
      BY <2>3 DEF Has
    <3>2. t # s
      BY <2>1, <2>3, <3>1
    <3>3. QED
      BY <2>1, <3>1, <3>2 DEF Has
  <2>4. QED
    BY <2>2, <2>3 DEF g
<1>3. QED
  BY <1>1, <1>2, CreatedCases

\* The import only fills slots.
LEMMA ImportFills ==
  ASSUME NEW fs, Sound(fs), NEW e \in DiskFiles \cup {EndMark}
  PROVE  Unused(ImportEntry(fs, e)) \subseteq Unused(fs)
<1>1. ASSUME NEW g, g \in Tables, NEW p, NEW c
      PROVE  Unused(Created(g, p, c)) \subseteq Unused(g)
  <2>1. PICK f : f = File(p, c)
    OBVIOUS
  <2>2. f.used
    BY <2>1 DEF File
  <2>3. PICK h : h = Created(g, p, c)
    OBVIOUS
  <2>4. h = g \/ \E s \in Slots : h[s] = f /\ \A t \in Slots : t # s => h[t] = g[t]
    BY <1>1, <2>1, <2>3, CreatedCases
  <2>5. Unused(h) \subseteq Unused(g)
    BY <2>2, <2>4 DEF Unused
  <2>6. QED
    BY <2>3, <2>5
<1>2. CASE e.kind # "file"
  BY <1>2 DEF ImportEntry
<1>3. CASE e.kind = "file"
  <2>1. e.name \in DOMAIN Lower /\ e.data \in Data
    BY <1>3 DEF DiskFiles, EndMark
  <2>2. PICK l : l = Lower[e.name]
    OBVIOUS
  <2>3. l \in DOMAIN Short
    BY <2>1, <2>2, FsAssumption
  <2>4. << l >> \in PathNames
    BY <2>3 DEF PathNames
  <2>5. PICK g : g = Created(fs, << l >>, e.data)
    OBVIOUS
  <2>6. Sound(g)
    BY <2>1, <2>4, <2>5, CreatedSound
  <2>7. g \in Tables /\ fs \in Tables
    BY <2>6 DEF Sound
  <2>8. Unused(g) \subseteq Unused(fs)
    BY <1>1, <2>5, <2>7
  <2>9. Unused(Created(g, << "pulselang", l >>, e.data)) \subseteq Unused(g)
    BY <1>1, <2>7
  <2>10. ImportEntry(fs, e) = g \/ ImportEntry(fs, e) = Created(g, << "pulselang", l >>, e.data)
    BY <1>3, <2>2, <2>5 DEF ImportEntry
  <2>11. QED
    BY <2>8, <2>9, <2>10
<1>4. QED
  BY <1>2, <1>3

LEMMA ImportsFill ==
  ASSUME NEW d \in Disks, NEW i \in 0 .. NumEntries, NEW n \in i .. NumEntries
  PROVE  Unused(Imports(d)[n]) \subseteq Unused(Imports(d)[i])
<1> DEFINE w == Imports(d)
           S == {k \in Nat : i + k <= NumEntries => Unused(w[i + k]) \subseteq Unused(w[i])}
<1>0. NumEntries \in Nat /\ i \in Nat
  BY FsAssumption
<1>1. \A k \in 1 .. NumEntries : w[k] = ImportEntry(w[k - 1], d[k])
  BY ImportsUnfold DEF Filling
<1>2. \A k \in 0 .. NumEntries : Sound(w[k])
  BY ImportsSound
<1> HIDE DEF w
<1>3. 0 \in S
  <2>1. i + 0 = i
    BY <1>0
  <2>2. QED
    BY <2>1
<1>4. ASSUME NEW k \in Nat, k \in S PROVE k + 1 \in S
  <2> SUFFICES ASSUME i + (k + 1) <= NumEntries PROVE Unused(w[i + (k + 1)]) \subseteq Unused(w[i])
    OBVIOUS
  <2>1. PICK j : j = i + (k + 1)
    OBVIOUS
  <2>2. i + k <= NumEntries /\ j \in 1 .. NumEntries /\ j - 1 = i + k /\ j - 1 \in 0 .. NumEntries
    BY <1>0, <2>1
  <2>3. Unused(w[j - 1]) \subseteq Unused(w[i])
    BY <1>4, <2>2
  <2>4. w[j] = ImportEntry(w[j - 1], d[j]) /\ Sound(w[j - 1])
    BY <1>1, <1>2, <2>2
  <2>5. d[j] \in DiskFiles \cup {EndMark}
    BY <2>2 DEF Disks, Entries
  <2>6. Unused(w[j]) \subseteq Unused(w[j - 1])
    BY <2>4, <2>5, ImportFills
  <2>7. QED
    BY <2>1, <2>3, <2>6
<1>5. Nat \subseteq S
  <2> HIDE DEF S
  <2>1. QED
    BY <1>3, <1>4, Induction
<1>6. n - i \in Nat /\ i + (n - i) = n /\ i + (n - i) <= NumEntries
  BY <1>0
<1>7. Unused(w[i + (n - i)]) \subseteq Unused(w[i])
  BY <1>5, <1>6
<1>8. QED
  BY <1>6, <1>7 DEF w

\* The import brings back a file whose name is on the disk once.
LEMMA ImportsHas ==
  ASSUME disk \in Disks, NEW e \in Entries, disk[e].kind = "file",
         OneEntry(disk[e].name), disk[e].data \notin TooLarge,
         NEW n \in e .. NumEntries, Unused(Imports(disk)[n]) # {}
  PROVE  Has(Imports(disk)[n], << Lower[disk[e].name] >>, disk[e].data)
<1> DEFINE w == Imports(disk)
           p == << Lower[disk[e].name] >>
           x == disk[e].data
           S == {k \in Nat : e + k <= NumEntries => Has(w[e + k], p, x)}
<1>0. NumEntries \in Nat /\ e \in 1 .. NumEntries
  BY FsAssumption DEF Entries
<1>1. \A k \in 1 .. NumEntries : w[k] = ImportEntry(w[k - 1], disk[k])
  BY ImportsUnfold DEF Filling
<1>2. \A k \in 0 .. NumEntries : Sound(w[k])
  BY ImportsSound
<1>3. disk[e].name \in DOMAIN Lower
  <2>1. disk[e] \in DiskFiles
    BY DEF Disks, EndMark
  <2>2. QED
    BY <2>1 DEF DiskFiles
<1>4. Named(w[e - 1], p) \cup Unused(w[e - 1]) # {}
  <2>1. e - 1 \in 0 .. NumEntries /\ n \in e - 1 .. NumEntries
    BY <1>0
  <2>2. Unused(Imports(disk)[n]) \subseteq Unused(Imports(disk)[e - 1])
    BY <2>1, ImportsFill
  <2>3. QED
    BY <2>2
<1> HIDE DEF w
<1>5. ASSUME NEW k \in 1 .. NumEntries, disk[k].kind = "file", k = e \/ Has(w[k - 1], p, x)
      PROVE  Has(w[k], p, x)
  <2> DEFINE l == Lower[disk[k].name]
             g == Created(w[k - 1], << l >>, disk[k].data)
             q == << "pulselang", l >>
  <2>1. k - 1 \in 0 .. NumEntries /\ k \in Entries
    BY <1>0 DEF Entries
  <2>2. w[k - 1] \in Tables
    BY <1>2, <2>1 DEF Sound
  <2>3. disk[k] \in DiskFiles
    BY <1>5, <2>1 DEF Disks, EndMark
  <2>4. disk[k].name \in DOMAIN Lower /\ disk[k].data \in Data
    BY <2>3 DEF DiskFiles
  <2>5. l \in DOMAIN Short
    BY <2>4, FsAssumption
  <2>6. << l >> \in PathNames
    <3> HIDE DEF l
    <3>1. QED
      BY <2>5 DEF PathNames
  <2>7. g \in Tables
    <3>1. Sound(g)
      BY <1>2, <2>1, <2>4, <2>6, CreatedSound
    <3>2. QED
      BY <3>1 DEF Sound
  <2>8. Has(g, p, x)
    <3>1. CASE k = e
      BY <1>4, <2>2, <3>1, CreatedHas
    <3>2. CASE k # e
      <4>1. disk[k].name # disk[e].name
        BY <1>5, <2>1, <3>2 DEF OneEntry
      <4>2. l # Lower[disk[e].name]
        BY <1>3, <2>4, <4>1, FsAssumption
      <4>3. << l >> # p
        <5> HIDE DEF l
        <5>1. QED
          BY <4>2
      <4>4. Has(w[k - 1], p, x)
        BY <1>5, <3>2
      <4> HIDE DEF p, x, l
      <4>5. QED
        BY <2>2, <4>3, <4>4, CreatedHas
    <3>3. QED
      BY <3>1, <3>2
  <2>9. p # q
    <3>1. Len(p) = 1 /\ Len(q) = 2
      OBVIOUS
    <3>2. QED
      BY <3>1
  <2>10. Has(Created(g, q, disk[k].data), p, x)
    <3> HIDE DEF p, x, g, q
    <3>1. QED
      BY <2>7, <2>8, <2>9, CreatedHas
  <2>11. w[k] = g \/ w[k] = Created(g, q, disk[k].data)
    BY <1>1, <1>5 DEF ImportEntry
  <2>12. QED
    BY <2>8, <2>10, <2>11
<1> HIDE DEF p, x
<1>6. 0 \in S
  <2>1. e + 0 = e
    BY <1>0
  <2>2. QED
    BY <1>0, <1>5, <2>1
<1>7. ASSUME NEW k \in Nat, k \in S PROVE k + 1 \in S
  <2> SUFFICES ASSUME e + (k + 1) <= NumEntries PROVE Has(w[e + (k + 1)], p, x)
    OBVIOUS
  <2> DEFINE j == e + (k + 1)
  <2>1. e + k <= NumEntries /\ j \in 1 .. NumEntries /\ j - 1 = e + k
    BY <1>0
  <2>2. Has(w[j - 1], p, x)
    BY <1>7, <2>1
  <2>3. CASE disk[j].kind = "file"
    BY <1>5, <2>1, <2>2, <2>3
  <2>4. CASE disk[j].kind # "file"
    <3>1. w[j] = w[j - 1]
      BY <1>1, <2>1, <2>4 DEF ImportEntry
    <3>2. QED
      BY <2>2, <3>1
  <2>5. QED
    BY <2>3, <2>4
<1>8. Nat \subseteq S
  <2> HIDE DEF S
  <2>1. QED
    BY <1>6, <1>7, Induction
<1>9. n - e \in Nat /\ e + (n - e) = n /\ e + (n - e) <= NumEntries
  BY <1>0
<1>10. Has(w[e + (n - e)], p, x)
  BY <1>8, <1>9
<1>11. QED
  BY <1>9, <1>10 DEF w, p, x

LEMMA ReachesFiles ==
  ASSUME NEW d, EndsLast(d), NEW e \in Entries, d[e].kind = "file"
  PROVE  Importable(d) \in e .. NumEntries
<1> DEFINE S == {i - 1 : i \in {f \in Entries : d[f].kind \in {"end"}}} \cup {NumEntries}
<1>0. NumEntries \in Nat /\ e \in 1 .. NumEntries
  BY FsAssumption DEF Entries
<1>1. ASSUME NEW f \in Entries, d[f].kind = "end"
      PROVE  f - 1 \in e .. NumEntries
  <2>1. f \in 1 .. NumEntries
    BY DEF Entries
  <2>2. ~ (f <= e)
    BY <1>1 DEF EndsLast
  <2>3. QED
    BY <1>0, <2>1, <2>2
<1>2. S \subseteq e .. NumEntries /\ S # {}
  BY <1>0, <1>1
<1>3. Importable(d) = Least(S)
  BY DEF Importable, BeforeFirst
<1> HIDE DEF S
<1>4. S \subseteq Nat
  BY <1>0, <1>2
<1>5. QED
  BY <1>2, <1>3, <1>4, LeastIn

-----------------------------------------------------------------------------
(* The write-through *)

LEMMA UsedName ==
  ASSUME NEW fs, fs \in Tables, NEW s \in Slots, fs[s].used
  PROVE  fs[s] \in Used /\ fs[s].name \in PathNames /\ fs[s].data \in Data /\ fs[s].data \notin TooLarge
<1>1. fs[s] \in Used
  BY EmptyIs DEF Tables
<1>2. QED
  BY <1>1 DEF Used

\* What a step leaves alone: paths whose slot and whose name on the disk it does not touch
LEMMA KeptByOthers ==
  ASSUME NEW b, NEW fs, NEW d, Kept(b, fs, d), NEW c, c \subseteq b, NEW g, NEW h,
         \A p \in c : \A x : Has(fs, p, x) => Has(g, p, x),
         \A p \in c : \A x : Entry(d, Name83(p), x) => Entry(h, Name83(p), x)
  PROVE  Kept(c, g, h)
<1>1. ASSUME NEW p \in c
      PROVE  \E x : Has(g, p, x) /\ Entry(h, Name83(p), x)
  <2>1. PICK x : Has(fs, p, x) /\ Entry(d, Name83(p), x)
    BY DEF Kept
  <2>2. Has(g, p, x) /\ Entry(h, Name83(p), x)
    BY <2>1
  <2>3. QED
    BY <2>2
<1>2. QED
  BY <1>1 DEF Kept

\* A slot that holds another path
LEMMA HasElsewhere ==
  ASSUME NEW fs, NEW g, NEW s, NEW p, fs[s].used => fs[s].name = p,
         \A t \in Slots : t # s => g[t] = fs[t], NEW q, q # p, NEW x, Has(fs, q, x)
  PROVE  Has(g, q, x)
<1>1. PICK t \in Slots : fs[t].used /\ fs[t].name = q /\ ~ fs[t].is_dir /\ fs[t].data = x
  BY DEF Has
<1>2. t # s
  BY <1>1
<1>3. QED
  BY <1>1, <1>2 DEF Has

\* The write-through of path p after the table has taken it with data x
LEMMA SyncKept ==
  ASSUME NEW b, NEW fs, NEW d \in Disks, Kept(b, fs, d), EndsLast(d), NEW p, NEW x, NEW g, Has(g, p, x),
         \A q, y : q # p /\ Has(fs, q, y) => Has(g, q, y)
  PROVE  Kept(BackedUp(b, d, p), g, SyncFile(d, p, x)) /\ EndsLast(SyncFile(d, p, x))
<1> DEFINE n == Name83(p)
           h == DiskWrite(d, n, x)
<1>1. EndsLast(SyncFile(d, p, x))
  BY WriteEnds DEF SyncFile
<1>2. CASE ~ detected'
  <2>1. BackedUp(b, d, p) = b \ {p} /\ SyncFile(d, p, x) = d
    BY <1>2 DEF BackedUp, SyncFile
  <2>2. Kept(b \ {p}, g, d)
    BY KeptByOthers
  <2>3. QED
    BY <1>1, <2>1, <2>2
<1>3. CASE detected' /\ Usable(d, n) = {}
  <2>1. BackedUp(b, d, p) = b \ {p} /\ SyncFile(d, p, x) = d
    BY <1>3 DEF BackedUp, SyncFile, DiskWrite
  <2>2. Kept(b \ {p}, g, d)
    BY KeptByOthers
  <2>3. QED
    BY <1>1, <2>1, <2>2
<1>4. CASE detected' /\ Usable(d, n) # {}
  <2>1. BackedUp(b, d, p) = Others(b, n) \cup {p} /\ SyncFile(d, p, x) = h
    BY <1>4 DEF BackedUp, SyncFile
  <2>2. Entry(h, n, x) /\ \A m, y : m # n /\ Entry(d, m, y) => Entry(h, m, y)
    BY <1>4, WriteKeeps
  <2> HIDE DEF h
  <2>3. Kept(Others(b, n), g, h)
    <3>1. Others(b, n) \subseteq b /\ \A q \in Others(b, n) : Name83(q) # n /\ q # p
      BY DEF Others
    <3>2. \A q \in Others(b, n) : \A y : Has(fs, q, y) => Has(g, q, y)
      BY <3>1
    <3>3. \A q \in Others(b, n) : \A y : Entry(d, Name83(q), y) => Entry(h, Name83(q), y)
      BY <2>2, <3>1
    <3> HIDE DEF n
    <3>4. QED
      BY <3>1, <3>2, <3>3, KeptByOthers
  <2>4. Kept(Others(b, n) \cup {p}, g, h)
    BY <2>2, <2>3 DEF Kept
  <2>5. QED
    BY <1>1, <2>1, <2>4
<1>5. QED
  BY <1>2, <1>3, <1>4

\* The delete of path p on the disk, before its slot changes
LEMMA UnsyncKept ==
  ASSUME NEW b, NEW fs, NEW d \in Disks, Kept(b, fs, d), EndsLast(d), NEW p
  PROVE  /\ Kept(Unbacked(b, p), fs, SyncDelete(d, p)) /\ EndsLast(SyncDelete(d, p))
         /\ p \notin Unbacked(b, p)
<1> DEFINE n == Name83(p)
           h == DiskDelete(d, n)
<1>1. EndsLast(SyncDelete(d, p))
  BY DeleteEnds DEF SyncDelete
<1>2. CASE ~ detected'
  <2>1. Unbacked(b, p) = b \ {p} /\ SyncDelete(d, p) = d
    BY <1>2 DEF Unbacked, SyncDelete
  <2>2. Kept(b \ {p}, fs, d)
    BY DEF Kept
  <2>3. QED
    BY <1>1, <2>1, <2>2
<1>3. CASE detected'
  <2>1. Unbacked(b, p) = Others(b, n) /\ SyncDelete(d, p) = h
    BY <1>3 DEF Unbacked, SyncDelete
  <2>2. Others(b, n) \subseteq b /\ \A q \in Others(b, n) : Name83(q) # n /\ q # p
    BY DEF Others
  <2>3. \A q \in Others(b, n) : \A y : Entry(d, Name83(q), y) => Entry(h, Name83(q), y)
    BY <2>2, DeleteKeepsOthers
  <2> HIDE DEF n, h
  <2>4. Kept(Others(b, n), fs, h)
    BY <2>2, <2>3, KeptByOthers
  <2>5. QED
    BY <1>1, <2>1, <2>2, <2>4
<1>4. QED
  BY <1>2, <1>3

LEMMA CreateKeeps ==
  ASSUME FsInv, DiskInv, NEW p \in PathNames, NEW c \in Data, FsCreateInternal(p, c)
  PROVE  DiskInv'
<1>0. files \in Tables /\ disk \in Disks /\ Kept(backed, files, disk) /\ EndsLast(disk)
  BY DEF FsInv, Sound, DiskInv
<1>1. CASE ~ CanCreate(p, c)
  <2>1. files' = files /\ disk' = disk /\ backed' = backed
    BY <1>1 DEF FsCreateInternal, CanCreate, Created
  <2>2. QED
    BY <2>1 DEF DiskInv
<1>2. CASE CanCreate(p, c)
  <2>1. files' = Created(files, p, c) /\ disk' = SyncFile(disk, p, c) /\ backed' = BackedUp(backed, disk, p)
    BY <1>2 DEF FsCreateInternal
  <2>2. c \notin TooLarge /\ Named(files, p) \cup Unused(files) # {}
    BY <1>2 DEF CanCreate
  <2>3. PICK g : g = Created(files, p, c)
    OBVIOUS
  <2>4. Has(g, p, c) /\ \A q, y : q # p /\ Has(files, q, y) => Has(g, q, y)
    BY <1>0, <2>2, <2>3, CreatedHas
  <2>5. Kept(BackedUp(backed, disk, p), g, SyncFile(disk, p, c)) /\ EndsLast(SyncFile(disk, p, c))
    BY <1>0, <2>4, SyncKept
  <2>6. QED
    BY <2>1, <2>3, <2>5 DEF DiskInv
<1>3. QED
  BY <1>1, <1>2

LEMMA MkdirKeeps ==
  ASSUME FsInv, DiskInv, NEW p, Mkdir(p)
  PROVE  DiskInv'
<1>1. disk' = disk /\ backed' = backed
  BY DEF Mkdir
<1>2. CASE files' = files
  BY <1>1, <1>2 DEF DiskInv
<1>3. CASE files' # files
  <2> DEFINE s == Least(Unused(files))
             g == [files EXCEPT ![s] = Directory(p)]
  <2>1. files' = g /\ Unused(files) # {}
    BY <1>3 DEF Mkdir
  <2>2. s \in Slots /\ ~ files[s].used
    BY <2>1, LeastOf DEF Unused
  <2> HIDE DEF s
  <2>3. \A t \in Slots : t # s => g[t] = files[t]
    BY <2>2 DEF FsInv, Sound, Tables
  <2> HIDE DEF g
  <2>4. \A q, x : Has(files, q, x) => Has(g, q, x)
    BY <2>2, <2>3 DEF Has
  <2>5. Kept(backed, g, disk)
    BY <2>4, KeptByOthers DEF DiskInv
  <2>6. QED
    BY <1>1, <2>1, <2>5 DEF DiskInv
<1>4. QED
  BY <1>2, <1>3

LEMMA DeleteKeeps ==
  ASSUME FsInv, DiskInv, NEW p, Delete(p)
  PROVE  DiskInv'
<1>0. files \in Tables /\ disk \in Disks /\ Kept(backed, files, disk) /\ EndsLast(disk)
  BY DEF FsInv, Sound, DiskInv
<1>1. CASE UNCHANGED <<files, disk, backed>>
  BY <1>1 DEF DiskInv
<1>2. CASE ~ UNCHANGED <<files, disk, backed>>
  <2> DEFINE s == Least(Named(files, p))
             g == [files EXCEPT ![s] = Empty]
             b == Unbacked(backed, p)
             h == SyncDelete(disk, p)
  <2>1. files' = g /\ disk' = h /\ backed' = b /\ Named(files, p) # {}
    BY <1>2 DEF Delete
  <2>2. s \in Slots /\ files[s].name = p
    BY <2>1, LeastOf DEF Named
  <2>3. Kept(b, files, h) /\ EndsLast(h) /\ p \notin b
    BY <1>0, UnsyncKept
  <2> HIDE DEF s, b, h
  <2>4. \A t \in Slots : t # s => g[t] = files[t]
    BY <1>0, <2>2 DEF Tables
  <2> HIDE DEF g
  <2>5. \A q \in b : \A x : Has(files, q, x) => Has(g, q, x)
    BY <2>2, <2>3, <2>4, HasElsewhere
  <2>6. Kept(b, g, h)
    BY <2>3, <2>5, KeptByOthers
  <2>7. QED
    BY <2>1, <2>3, <2>6 DEF DiskInv
<1>3. QED
  BY <1>1, <1>2

LEMMA RenameKeeps ==
  ASSUME FsInv, DiskInv, NEW p \in PathNames, NEW q \in PathNames, Rename(p, q)
  PROVE  DiskInv'
<1>0. files \in Tables /\ disk \in Disks /\ Kept(backed, files, disk) /\ EndsLast(disk)
  BY DEF FsInv, Sound, DiskInv
<1>1. CASE UNCHANGED <<files, disk, backed>>
  BY <1>1 DEF DiskInv
<1>2. CASE ~ UNCHANGED <<files, disk, backed>>
  <2> DEFINE s == Least(Named(files, p))
             x == files[s].data
             g == [files EXCEPT ![s].name = q]
             b == Unbacked(backed, p)
             h == SyncDelete(disk, p)
  <2>1. /\ files' = g /\ Named(files, p) # {} /\ Named(files, q) = {}
        /\ disk' = IF files[s].is_dir THEN h ELSE SyncFile(h, q, x)
        /\ backed' = IF files[s].is_dir THEN b ELSE BackedUp(b, h, q)
    BY <1>2 DEF Rename, RenameBlocked
  <2>2. s \in Slots /\ files[s].used /\ files[s].name = p
    BY <2>1, LeastOf DEF Named
  <2>3. Kept(b, files, h) /\ EndsLast(h) /\ p \notin b
    BY <1>0, UnsyncKept
  <2>4. h \in Disks
    <3>1. "none" \in Data
      BY DEF Data
    <3>2. QED
      BY <1>0, <3>1, SyncTyped
  <2> HIDE DEF s, b, h
  <2>5. files[s] \in Used
    BY <1>0, <2>2, UsedName
  <2>6. g[s] = [files[s] EXCEPT !.name = q] /\ \A t \in Slots : t # s => g[t] = files[t]
    BY <1>0, <2>2 DEF Tables
  <2>7. g[s].name = q /\ g[s].is_dir = files[s].is_dir /\ g[s].data = x /\ g[s].used = files[s].used
    <3>1. PICK f : f = files[s]
      OBVIOUS
    <3>2. f \in Used
      BY <2>5, <3>1
    <3>3. PICK r : r = [f EXCEPT !.name = q]
      OBVIOUS
    <3>4. r.name = q /\ r.is_dir = f.is_dir /\ r.data = f.data /\ r.used = f.used
      BY <3>2, <3>3 DEF Used
    <3>5. g[s] = r
      BY <2>6, <3>1, <3>3
    <3>6. QED
      BY <3>1, <3>4, <3>5
  <2> HIDE DEF x, g
  <2>8. \A r \in b : \A y : Has(files, r, y) => Has(g, r, y)
    <3>1. \A t \in Slots : t # s => g[t] = files[t]
      BY <2>6
    <3>2. files[s].used => files[s].name = p
      BY <2>2
    <3>3. ASSUME NEW r \in b, NEW y, Has(files, r, y)
          PROVE  Has(g, r, y)
      <4>1. r # p
        BY <2>3
      <4>2. QED
        BY <3>1, <3>2, <3>3, <4>1, HasElsewhere
    <3>4. QED
      BY <3>3
  <2>9. Kept(b, g, h)
    BY <2>3, <2>8, KeptByOthers
  <2>10. CASE files[s].is_dir
    BY <2>1, <2>3, <2>9, <2>10 DEF DiskInv
  <2>11. CASE ~ files[s].is_dir
    <3>1. Has(g, q, x)
      BY <2>2, <2>7, <2>11 DEF Has
    <3>2. Kept(BackedUp(b, h, q), g, SyncFile(h, q, x)) /\ EndsLast(SyncFile(h, q, x))
      BY <2>3, <2>4, <2>9, <3>1, SyncKept
    <3>3. QED
      BY <2>1, <2>11, <3>2 DEF DiskInv
  <2>12. QED
    BY <2>10, <2>11
<1>3. QED
  BY <1>1, <1>2

\* A file that is in the table under the very path is the one that is read.
LEMMA ReadsIt ==
  ASSUME FsInv, NEW p, NEW x, Has(files, p, x)
  PROVE  files[Least(Readable(p))].data = x
<1>1. PICK t \in Slots : files[t].used /\ files[t].name = p /\ ~ files[t].is_dir /\ files[t].data = x
  BY DEF Has
<1>2. \A s \in Slots : files[s].used /\ files[s].name = p => s = t
  BY <1>1 DEF FsInv, Sound, Unique
<1>3. {s \in Named(files, p) : ~ files[s].is_dir} = {t}
  BY <1>1, <1>2 DEF Named
<1>4. Readable(p) = {t}
  BY <1>3 DEF Readable
<1>5. Least(Readable(p)) = t
  BY <1>1, <1>4, LeastOf
<1>6. QED
  BY <1>1, <1>5

LEMMA ExportKeeps ==
  ASSUME FsInv, DiskInv, NEW p, NEW n, Export(p, n)
  PROVE  DiskInv'
<1>0. disk \in Disks /\ Kept(backed, files, disk) /\ EndsLast(disk) /\ files' = files
  BY DEF FsInv, DiskInv, Export
<1>1. CASE UNCHANGED <<disk, backed>>
  BY <1>0, <1>1 DEF DiskInv
<1>2. CASE ~ UNCHANGED <<disk, backed>>
  <2> DEFINE x == files[Least(Readable(p))].data
             h == DiskWrite(disk, n, x)
             b == Others(backed, n)
  <2>1. disk' = h /\ backed' = b \cup (backed \cap {p})
    BY <1>2 DEF Export
  <2>2. \A y : Has(files, p, y) => x = y
    BY ReadsIt
  <2> HIDE DEF x
  <2>3. /\ EndsLast(h)
        /\ Usable(disk, n) # {} => Entry(h, n, x)
        /\ \A m, y : m # n /\ Entry(disk, m, y) => Entry(h, m, y)
    BY <1>0, WriteEnds, WriteKeeps
  <2> HIDE DEF h
  <2>4. b \subseteq backed /\ \A q \in b : Name83(q) # n
    BY DEF Others
  <2> HIDE DEF b
  <2>5. Kept(b, files, h)
    BY <1>0, <2>3, <2>4, KeptByOthers
  <2>6. ASSUME p \in backed
        PROVE  \E y : Has(files, p, y) /\ Entry(h, Name83(p), y)
    <3>1. PICK y : Has(files, p, y) /\ Entry(disk, Name83(p), y)
      BY <1>0, <2>6 DEF Kept
    <3>2. CASE Name83(p) # n
      BY <2>3, <3>1, <3>2
    <3>3. CASE Name83(p) = n
      <4>1. PICK e \in Entries : disk[e] = OnDisk(n, y)
        BY <3>1, <3>3 DEF Entry
      <4>2. disk[e].name = n
        BY <4>1, OnDiskIs
      <4>3. Usable(disk, n) # {}
        BY <4>2 DEF Usable
      <4>4. QED
        BY <2>2, <2>3, <3>1, <3>3, <4>3
    <3>4. QED
      BY <3>2, <3>3
  <2>7. Kept(b \cup (backed \cap {p}), files, h)
    BY <2>5, <2>6 DEF Kept
  <2>8. QED
    BY <1>0, <2>1, <2>3, <2>7 DEF DiskInv
<1>3. QED
  BY <1>1, <1>2

LEMMA AgreedKept ==
  ASSUME NEW fs
  PROVE  Kept(Agreed(fs), fs, disk)
<1>1. ASSUME NEW p \in Agreed(fs)
      PROVE  \E x : Has(fs, p, x) /\ Entry(disk, Name83(p), x)
  <2>1. PICK t \in Slots :
             /\ fs[t].used /\ ~ fs[t].is_dir /\ p = fs[t].name
             /\ \E e \in Entries : disk[e] = OnDisk(Name83(fs[t].name), fs[t].data)
    BY DEF Agreed
  <2>2. Has(fs, p, fs[t].data) /\ Entry(disk, Name83(p), fs[t].data)
    BY <2>1 DEF Has, Entry
  <2>3. QED
    BY <2>2
<1>2. QED
  BY <1>1 DEF Kept

LEMMA DiskInit ==
  ASSUME Init
  PROVE  DiskInv
<1>1. PICK h \in HostFiles : disk = [e \in Entries |-> IF e <= Len(h) THEN h[e] ELSE EndMark]
  BY DEF Init
<1>2. h \in Seq(DiskFiles) /\ Len(h) \in Nat
  BY FsAssumption
<1>3. \A e \in Entries : e \in Nat /\ e >= 1
  BY FsAssumption DEF Entries
<1>4. EndMark.kind = "end"
  BY DEF EndMark
<1>5. ASSUME NEW e \in Entries
      PROVE  disk[e].kind = "end" <=> ~ (e <= Len(h))
  <2>1. CASE e <= Len(h)
    <3>1. disk[e] = h[e] /\ h[e] \in DiskFiles
      BY <1>1, <1>2, <1>3, <2>1
    <3>2. disk[e].kind # "end"
      BY <3>1 DEF DiskFiles
    <3>3. QED
      BY <2>1, <3>2
  <2>2. CASE ~ (e <= Len(h))
    BY <1>1, <1>4, <2>2
  <2>3. QED
    BY <2>1, <2>2
<1>6. EndsLast(disk)
  <2>1. \A e, f \in Entries : ~ (e <= Len(h)) /\ e <= f => ~ (f <= Len(h))
    BY <1>2, <1>3
  <2>2. QED
    BY <1>5, <2>1 DEF EndsLast
<1>7. Kept(backed, files, disk)
  BY AgreedKept DEF Init
<1>8. QED
  BY <1>6, <1>7 DEF DiskInv

LEMMA DiskStep == FsInv /\ DiskInv /\ [Next]_vars => DiskInv'
<1> SUFFICES ASSUME FsInv, DiskInv, [Next]_vars PROVE DiskInv'
  OBVIOUS
<1>0. Paths \subseteq PathNames /\ Contents \subseteq Data
  BY FsAssumption DEF Data
<1>1. CASE UNCHANGED vars
  BY <1>1 DEF vars, DiskInv
<1>2. CASE Next
  <2>1. CASE Reboot
    <3>1. disk' = disk /\ backed' = Agreed(files')
      BY <2>1 DEF Reboot
    <3>2. Kept(Agreed(files'), files', disk)
      BY AgreedKept
    <3>3. QED
      BY <3>1, <3>2 DEF DiskInv
  <2>2. CASE ListDisk
    BY <2>2 DEF ListDisk, DiskInv
  <2>3. ASSUME NEW p \in Paths, NEW c \in Contents, Create(p, c)
        PROVE  DiskInv'
    BY <1>0, <2>3, CreateKeeps DEF Create
  <2>4. ASSUME NEW p \in Paths, NEW q \in Paths, Copy(p, q)
        PROVE  DiskInv'
    <3>1. CASE UNCHANGED <<files, disk, backed>>
      BY <3>1 DEF DiskInv
    <3>2. CASE Readable(p) # {} /\ FsCreateInternal(q, files[Least(Readable(p))].data)
      BY <1>0, <3>2, ReadableIs, CreateKeeps
    <3>3. QED
      BY <2>4, <3>1, <3>2 DEF Copy
  <2>5. ASSUME NEW p \in Paths, NEW n, Import(n, p)
        PROVE  DiskInv'
    <3>1. CASE UNCHANGED <<files, disk, backed>>
      BY <3>1 DEF DiskInv
    <3>2. CASE DiskFound(disk, n) # {} /\ FsCreateInternal(p, disk[Least(DiskFound(disk, n))].data)
      BY <1>0, <3>2, FoundIs, CreateKeeps DEF FsInv
    <3>3. QED
      BY <2>5, <3>1, <3>2 DEF Import
  <2>6. ASSUME NEW p \in Paths, Mkdir(p) \/ Delete(p)
        PROVE  DiskInv'
    BY <2>6, MkdirKeeps, DeleteKeeps
  <2>7. ASSUME NEW p \in Paths, NEW q \in Paths, Rename(p, q)
        PROVE  DiskInv'
    BY <1>0, <2>7, RenameKeeps
  <2>8. ASSUME NEW p \in Paths, NEW n \in ExportNames[p], Export(p, n)
        PROVE  DiskInv'
    BY <2>8, ExportKeeps
  <2>9. QED
    BY <1>2, <2>1, <2>2, <2>3, <2>4, <2>5, <2>6, <2>7, <2>8 DEF Next
<1>3. QED
  BY <1>1, <1>2

LEMMA DiskInvGives == FsInv /\ DiskInv => RootFilesSurvive
<1> SUFFICES ASSUME FsInv, DiskInv, NEW s \in Files, files[s].name \in backed, InRoot(files[s].name),
                    OneEntry(Name83(files[s].name)), Unused(AfterBoot(TRUE)) # {}
             PROVE  Survives(s)
  BY DEF RootFilesSurvive
<1> DEFINE p == files[s].name
           x == files[s].data
           n == Name83(p)
<1>1. s \in Slots /\ files[s].used /\ ~ files[s].is_dir
  BY DEF Files
<1>2. p \in PathNames /\ x \notin TooLarge
  BY <1>1, UsedName DEF FsInv, Sound
<1>3. disk \in Disks /\ EndsLast(disk)
  BY DEF FsInv, DiskInv
<1>4. PICK y : Has(files, p, y) /\ Entry(disk, n, y)
  BY DEF DiskInv, Kept
<1>5. y = x
  <2>1. PICK t \in Slots : files[t].used /\ files[t].name = p /\ files[t].data = y
    BY <1>4 DEF Has
  <2>2. t = s
    <3>1. \A i, j \in Slots : files[i].used /\ files[j].used /\ files[i].name = files[j].name => i = j
      BY DEF FsInv, Sound, Unique
    <3>2. files[t].name = files[s].name
      BY <2>1
    <3>3. QED
      BY <1>1, <2>1, <3>1, <3>2
  <2>3. QED
    BY <2>1, <2>2
<1>6. PICK e \in Entries : disk[e] = OnDisk(n, x)
  BY <1>4, <1>5 DEF Entry
<1>7. disk[e].kind = "file" /\ disk[e].name = n /\ disk[e].data = x
  <2> HIDE DEF n, x
  <2>1. QED
    BY <1>6, OnDiskIs
<1>8. Importable(disk) \in e .. NumEntries
  BY <1>3, <1>7, ReachesFiles
<1>9. << Lower[n] >> = p
  <2>1. Len(p) = 1 /\ Lower[Short[p[1]]] = p[1]
    BY DEF InRoot
  <2>2. n = Short[p[1]]
    BY <2>1 DEF Name83
  <2>3. p \in Seq(DOMAIN Short)
    BY <1>2 DEF PathNames
  <2> HIDE DEF p, n
  <2>4. QED
    BY <2>1, <2>2, <2>3
<1>10. AfterBoot(TRUE) = Imports(disk)[Importable(disk)]
  BY DEF AfterBoot
<1>11. Has(Imports(disk)[Importable(disk)], << Lower[disk[e].name] >>, disk[e].data)
  <2>1. PICK k : k = Importable(disk)
    OBVIOUS
  <2>2. k \in e .. NumEntries /\ Unused(Imports(disk)[k]) # {}
    BY <1>8, <1>10, <2>1
  <2>3. OneEntry(disk[e].name) /\ disk[e].data \notin TooLarge
    BY <1>2, <1>7
  <2>4. Has(Imports(disk)[k], << Lower[disk[e].name] >>, disk[e].data)
    BY <1>3, <1>7, <2>2, <2>3, ImportsHas
  <2>5. QED
    BY <2>1, <2>4
<1>12. Has(AfterBoot(TRUE), p, x)
  BY <1>7, <1>9, <1>10, <1>11
<1>13. QED
  BY <1>12 DEF Has, Survives

\* Whatever commands ran, under any names and in any directories: a root file whose last
\* write-through the disk still has is back unchanged after a power cycle, unless an
\* older entry of its name is left on the disk or the import fills the table.
THEOREM RootFilesComeBack == Spec => []RootFilesSurvive
<1>1. Init => DiskInv
  BY DiskInit
<1>2. FsInv /\ DiskInv /\ [Next]_vars => DiskInv'
  BY DiskStep
<1>3. FsInv /\ DiskInv => RootFilesSurvive
  BY DiskInvGives
<1>4. QED
  BY <1>1, <1>2, <1>3, FsInvHolds, PTL DEF Spec
=============================================================================
