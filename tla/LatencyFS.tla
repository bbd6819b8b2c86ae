------------------------------ MODULE LatencyFS ------------------------------
(***************************************************************************)
(* The in-memory file system kernel/src/fs.rs, the shell commands that use *)
(* it, its write-through to the export disk and the import at boot.  Core  *)
(* 0 runs one command at a time.                                           *)
(*                                                                         *)
(* A path is the sequence of its components after fs_normalize_path; the   *)
(* disk is its root directory, whose entries are written and deleted in    *)
(* one step each (ExportDisk).  read_only is FALSE for every file the      *)
(* kernel creates and left out, and so is /vram, which vfs.rs serves.      *)
(***************************************************************************)
EXTENDS Naturals, Sequences

CONSTANTS Paths,        \* paths the commands name
          Contents,     \* file contents
          TooLarge,     \* those of more than MAX_FILE_SIZE bytes
          Short,        \* to_83_name: component -> 8.3 name
          Lower,        \* the import: 8.3 name -> component, in lower case
          Scripts,      \* 8.3 names that end in .PUL
          ExportNames,  \* path -> names given to `export` for that path
          Defaults,     \* entries fs_init creates
          HostFiles,    \* files the host has put on the disk
          NumSlots,     \* MAX_FILES (128)
          NumEntries,   \* root directory entries
          MaxOps        \* bound: commands executed

VARIABLES files,     \* FS.files
          disk,      \* root directory of the export disk
          detected,  \* EXPORT_DISK_LOC.detected
          backed,    \* history: paths whose last write-through the disk still has
          ops

vars == <<files, disk, detected, backed, ops>>

Slots == 1 .. NumSlots
Empty == [used |-> FALSE, name |-> << >>, is_dir |-> FALSE, data |-> "none"]
File(p, c) == [used |-> TRUE, name |-> p, is_dir |-> FALSE, data |-> c]
Directory(p) == [used |-> TRUE, name |-> p, is_dir |-> TRUE, data |-> "none"]

Name83(p) == Short[p[Len(p)]]
Least(S) == CHOOSE x \in S : \A y \in S : x <= y

\* The root has no path of its own in the table.
PathNames == Seq(DOMAIN Short) \ {<< >>}
Data == Contents \cup {"none", "default"}
Used == [used : {TRUE}, name : PathNames, is_dir : BOOLEAN, data : Data \ TooLarge]

Named(fs, p) == {s \in Slots : fs[s].used /\ fs[s].name = p}
Unused(fs)   == {s \in Slots : ~ fs[s].used}

-----------------------------------------------------------------------------
(* The export disk, one directory entry at a time. *)

EndMark == [kind |-> "end", name |-> "none", data |-> "none"]
OnDisk(n, c) == [kind |-> "file", name |-> n, data |-> c]
Entries == 1 .. NumEntries

DiskFiles == [kind : {"file", "deleted"}, name : DOMAIN Lower, data : Data]

ASSUME FsAssumption ==
  /\ NumSlots \in Nat /\ NumEntries \in Nat
  /\ Paths \subseteq PathNames /\ {"none", "default"} \cap TooLarge = {}
  /\ Short \in [DOMAIN Short -> DOMAIN Lower] /\ Lower \in [DOMAIN Lower -> DOMAIN Short]
  /\ \A m, n \in DOMAIN Lower : Lower[m] = Lower[n] => m = n
  /\ "pulselang" \in DOMAIN Short
  /\ ExportNames \in [Paths -> SUBSET DOMAIN Lower]
  /\ HostFiles \subseteq Seq(DiskFiles)

\* fs_init names every entry once.
ASSUME DefaultsAssumption ==
  /\ Defaults \in Seq(Used)
  /\ \A i, j \in DOMAIN Defaults : Defaults[i].name = Defaults[j].name => i = j

\* export_disk_write_file: the first entry of that name or without a file.
Usable(d, n) == {e \in Entries : d[e].kind # "file" \/ d[e].name = n}
DiskWrite(d, n, c) ==
  IF Usable(d, n) = {} THEN d ELSE [d EXCEPT ![Least(Usable(d, n))] = OnDisk(n, c)]

DiskFound(d, n) ==
  {e \in Entries : d[e].kind = "file" /\ d[e].name = n /\ \A f \in 1 .. e : d[f].kind # "end"}

\* export_disk_delete_file
DiskDelete(d, n) ==
  IF DiskFound(d, n) = {} THEN d
  ELSE [d EXCEPT ![Least(DiskFound(d, n))] = [@ EXCEPT !.kind = "deleted"]]

\* export_disk_auto_sync_file and export_disk_auto_sync_delete: by base name, so
\* that files of one name in different directories share an entry.
SyncFile(d, p, c) == IF detected' THEN DiskWrite(d, Name83(p), c) ELSE d
SyncDelete(d, p)  == IF detected' THEN DiskDelete(d, Name83(p)) ELSE d

\* The history b of write-throughs after a delete of p is synced, and after a write
\* of p is synced to disk d.
Others(b, n) == {q \in b : Name83(q) # n}
Unbacked(b, p) == IF detected' THEN Others(b, Name83(p)) ELSE b \ {p}
BackedUp(b, d, p) ==
  IF detected' /\ Usable(d, Name83(p)) # {} THEN Others(b, Name83(p)) \cup {p} ELSE b \ {p}

\* get_export_disk_loc: while no disk is detected, every call tries again.
DetectAgain == detected' \in {detected, TRUE}

-----------------------------------------------------------------------------
\* fs_create_internal on the table: update the entry of that name, which becomes
\* a file, or take the first unused slot.
Created(fs, p, c) ==
  IF c \in TooLarge THEN fs
  ELSE IF Named(fs, p) # {} THEN [fs EXCEPT ![Least(Named(fs, p))] = File(p, c)]
  ELSE IF Unused(fs) # {} THEN [fs EXCEPT ![Least(Unused(fs))] = File(p, c)]
  ELSE fs

\* The shell executes one more command.
Counted  == ops < MaxOps /\ ops' = ops + 1
Executed == Counted /\ UNCHANGED detected

CanCreate(p, c) == c \notin TooLarge /\ (Named(files, p) # {} \/ Unused(files) # {})

\* fs_create_internal: a file that was stored is also synced.
FsCreateInternal(p, c) ==
  /\ files' = Created(files, p, c)
  /\ IF CanCreate(p, c)
       THEN disk' = SyncFile(disk, p, c) /\ backed' = BackedUp(backed, disk, p)
       ELSE UNCHANGED <<disk, backed>>

\* touch, edit and compile
Create(p, c) == Executed /\ FsCreateInternal(p, c)

\* fs_mkdir: an existing entry, file or directory, is Ok; nothing is synced.
Mkdir(p) ==
  /\ Executed
  /\ files' = IF Named(files, p) # {} \/ Unused(files) = {} THEN files
              ELSE [files EXCEPT ![Least(Unused(files))] = Directory(p)]
  /\ UNCHANGED <<disk, backed>>

Below(p, q) == Len(p) < Len(q) /\ SubSeq(q, 1, Len(p)) = p
HasChildren(p) == \E s \in Slots : files[s].used /\ Below(p, files[s].name)

\* fs_delete: DirectoryNotEmpty, FileNotFound, or the entry goes, and on the
\* disk the file of that base name.
Delete(p) ==
  /\ Executed
  /\ IF HasChildren(p) \/ Named(files, p) = {} THEN UNCHANGED <<files, disk, backed>>
     ELSE /\ files' = [files EXCEPT ![Least(Named(files, p))] = Empty]
          /\ disk' = SyncDelete(disk, p)
          /\ backed' = Unbacked(backed, p)

\* Mutant: the destination is not tested.
RenameBlockedNever(p, q) == Named(files, p) = {}

\* AlreadyExists or FileNotFound
RenameBlocked(p, q) == Named(files, q) # {} \/ Named(files, p) = {}

\* fs_rename: the entry takes the new name; what is below a directory stays.
Rename(p, q) ==
  /\ Executed
  /\ IF RenameBlocked(p, q) THEN UNCHANGED <<files, disk, backed>>
     ELSE LET s == Least(Named(files, p))
              d == SyncDelete(disk, p)
              b == Unbacked(backed, p)
          IN  /\ files' = [files EXCEPT ![s].name = q]
              /\ disk' = IF files[s].is_dir THEN d ELSE SyncFile(d, q, files[s].data)
              /\ backed' = IF files[s].is_dir THEN b ELSE BackedUp(b, d, q)

\* fs_read of an absolute path: the file itself, or the first file with the same
\* 8.3 base name.
Readable(p) ==
  LET exact == {s \in Named(files, p) : ~ files[s].is_dir}
  IN  IF exact # {} THEN exact
      ELSE {s \in Slots : files[s].used /\ ~ files[s].is_dir /\ Name83(files[s].name) = Name83(p)}

\* fs_copy
Copy(p, q) ==
  /\ Executed
  /\ IF Readable(p) = {} THEN UNCHANGED <<files, disk, backed>>
     ELSE FsCreateInternal(q, files[Least(Readable(p))].data)

\* The shell's import: a file of the disk into LatencyFS, and so back to the disk.
Import(n, p) ==
  /\ Counted /\ DetectAgain
  /\ IF ~ detected' \/ DiskFound(disk, n) = {} THEN UNCHANGED <<files, disk, backed>>
     ELSE FsCreateInternal(p, disk[Least(DiskFound(disk, n))].data)

\* The shell's export: straight to the disk.  A file exported under its own name
\* is on the disk as it was.
Export(p, n) ==
  /\ Counted
  /\ IF Readable(p) = {} THEN UNCHANGED detected ELSE DetectAgain
  /\ IF Readable(p) = {} \/ ~ detected' THEN UNCHANGED <<disk, backed>>
     ELSE /\ disk' = DiskWrite(disk, n, files[Least(Readable(p))].data)
          /\ backed' = Others(backed, n) \cup (backed \cap {p})
  /\ UNCHANGED files

\* The shell's listing of the disk changes nothing but the detection.
ListDisk == Counted /\ DetectAgain /\ UNCHANGED <<files, disk, backed>>

-----------------------------------------------------------------------------
\* fs_init
Booted == [s \in Slots |-> IF s <= Len(Defaults) THEN Defaults[s] ELSE Empty]

\* One entry of the import: into the root, a script also into /pulselang.
ImportEntry(fs, e) ==
  IF e.kind # "file" THEN fs
  ELSE LET root == Created(fs, << Lower[e.name] >>, e.data)
       IN  IF e.name \in Scripts
           THEN Created(root, << "pulselang", Lower[e.name] >>, e.data) ELSE root

BeforeFirst(d, kinds) ==
  Least({e - 1 : e \in {f \in Entries : d[f].kind \in kinds}} \cup {NumEntries})

\* Mutant: the import stops at a deleted entry.
ImportableToDeleted(d) == BeforeFirst(d, {"end", "deleted"})

\* The number of entries the import loop reaches: it leaves the sector at a 0x00 entry.
Importable(d) == BeforeFirst(d, {"end"})

\* The table after the first n entries, in directory order
Imports(d) == LET fs[n \in 0 .. NumEntries] == IF n = 0 THEN Booted ELSE ImportEntry(fs[n - 1], d[n]) IN fs

\* fs_init, then export_disk_auto_import if a disk was found
AfterBoot(found) == IF found THEN Imports(disk)[Importable(disk)] ELSE Booted

\* The root files that a table has from the disk.
InRoot(p) == Len(p) = 1 /\ Lower[Short[p[1]]] = p[1]
Agreed(fs) ==
  {fs[s].name : s \in {t \in Slots :
     /\ fs[t].used /\ ~ fs[t].is_dir /\ InRoot(fs[t].name)
     /\ \E e \in Entries : disk[e] = OnDisk(Name83(fs[t].name), fs[t].data)}}

\* Power off and on.
Reboot ==
  /\ Counted
  /\ detected' \in BOOLEAN
  /\ files' = AfterBoot(detected')
  /\ backed' = Agreed(files')
  /\ UNCHANGED disk

Init ==
  /\ detected \in BOOLEAN
  /\ disk \in {[e \in Entries |-> IF e <= Len(h) THEN h[e] ELSE EndMark] : h \in HostFiles}
  /\ files = AfterBoot(detected)
  /\ backed = Agreed(files)
  /\ ops = 0

Next ==
  \/ Reboot \/ ListDisk
  \/ \E p \in Paths :
       \/ \E c \in Contents : Create(p, c)
       \/ Mkdir(p)
       \/ Delete(p)
       \/ \E q \in Paths : Rename(p, q) \/ Copy(p, q)
       \/ \E n \in {disk[e].name : e \in Entries} : Import(n, p)
       \/ \E n \in ExportNames[p] : Export(p, n)

Spec == Init /\ [][Next]_vars

-----------------------------------------------------------------------------
\* The table and the disk hold files and directories with proper paths, none of
\* them too large for the table.
TypeOK ==
  /\ files \in [Slots -> Used \cup {Empty}]
  /\ disk \in [Entries -> DiskFiles \cup {EndMark}]
  /\ detected \in BOOLEAN /\ ops \in Nat
  /\ backed \subseteq PathNames

\* No two entries of LatencyFS ever have the same path: a lookup, which takes the
\* first match, never hides another file.
UniqueNames ==
  \A s, t \in Slots :
    files[s].used /\ files[t].used /\ files[s].name = files[t].name => s = t

Files == {s \in Slots : files[s].used /\ ~ files[s].is_dir}

\* A boot that finds the disk restores the file.
Survives(s) ==
  \E t \in Slots :
    LET f == AfterBoot(TRUE)[t]
    IN  f.used /\ ~ f.is_dir /\ f.name = files[s].name /\ f.data = files[s].data

\* The disk has one entry of that name.  A write that finds a deleted entry first
\* leaves the older one behind, which the import then reads last.
OneEntry(n) ==
  \A e, f \in Entries : disk[e].kind = "file" /\ disk[e].name = n
                          /\ disk[f].kind = "file" /\ disk[f].name = n => e = f

\* The next power cycle brings a root file with an 8.3 name back unchanged if its
\* last write-through found an entry and nothing since, in any directory or by
\* `export`, has written or deleted that name on the disk, no older entry of the
\* name is left and the table has room for what is on the disk.
RootFilesSurvive ==
  \A s \in Files :
    LET p == files[s].name
    IN  p \in backed /\ InRoot(p) /\ OneEntry(Name83(p)) /\ Unused(AfterBoot(TRUE)) # {}
          => Survives(s)
=============================================================================
