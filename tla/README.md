# LatencyOS in TLA+

A verification project for the LatencyOS repository: TLA+ models of the parts of
the kernel and of its script toolchain that carry their logic, TLC configurations that check them on small
instances, and TLAPS proofs for every value of the constants. Every definition is
translated from the Rust source; `PROJECT.json` names the lines.

LatencyOS is a bare-metal kernel for four cores. Core 0 runs the shell and the
scripts, core 1 captures frames, core 2 encodes them, core 3 sends them. There is
no scheduler, no interrupt and no heap: cores poll, share statics, and pass frames
through two lock-free rings. Scripts in PulseLang are compiled to the bytecode of
a register machine. Files live in a RAM table that is written through to a FAT16
disk.

## Inventory

| Component | Source | State | Operations | Hard behaviour |
|---|---|---|---|---|
| SPSC ring | `kernel/src/ring_buffer.rs` | `head`, `tail`, cells | `push`, `pop`, `len` | no lock; the cell accesses are ordered by the index loads and stores only; words wrap; `len` reads two moments |
| Core roles, pipeline | `smp.rs`, `gpu.rs` | frame slots, `slot_id`, `frame_id` of core 1, counters | the loops of cores 1 to 3, `capture_frame_zero_copy` | three cores in parallel, dropped frames, slots reused under queued handles, polling |
| e1000 driver | `e1000.rs` | descriptor rings, software tails, NIC registers | `send_packet`, `poll_rx_packet` | a second party (the NIC) that owns part of the ring; two cores that send; ring full and ring empty look alike |
| Congestion control | `net.rs` | min RTT, RTT, rate, good ACKs | `on_ack_received`, `@rate` | read-modify-write of atomics against scripts on another core; floor, step and cap |
| Packetizer | `net.rs` | offset, `packet_seq`, deadline | `stream_send_frame` | the deadline passes between two packets; the NIC refuses in the middle |
| FAT16 export disk | `export_disk.rs` | FAT1, FAT2, root directory, clusters | write, delete, read | power failure and I/O errors between sectors, chains, full disk |
| LatencyFS | `fs.rs`, `export_disk.rs`, `shell.rs` | file table, disk directory | create, mkdir, delete, rename, copy, import, export, boot | write-through that may fail silently; what a power cycle brings back; 8.3 names |
| Shell line editor | `shell.rs` | line, cursor, history, escape parser | one per class of byte | long byte sequences; the screen against the buffer; history wrap |
| px64 machine | `lang.rs` | registers, call stack, pools, watchdog | one per instruction | call depth, limits in steps and in time, bases computed at run time |
| px64 machine on the host | `pulselang-core/src/vm.rs` | registers, frames, pools, spill slots, video memory, steps | one per instruction and native | limits, error exits, values that look like tags |
| Compiler | `pulselang-core/src/compiler.rs` and its neighbours | variables, temporaries and spill slots, constant pool, tables of declarations, typestates of handles, code | one per phrase of the language | registers of variables, parameters and temporaries overlap; moves and branches of handles; estimates of steps |
| Screen editor | `editor.rs` | buffer, cursor, window, escape parser, pending redraws | one per class of key | long key sequences, full buffer, bytes that arrive in a burst and are drawn once |
| VRAM file system | `vfs.rs` | scratch buffer, names of frame slots | read, write | shares slots with core 1 |
| Serial port | `serial.rs` | UART, receive ring, print lock | send, receive | bytes typed while the kernel prints |
| Latency statistics | `latency.rs` | marks and samples | record, report | none: only printed |
| Boot, APIC, C-states, TSC, PCI | `main.rs`, `boot.asm`, `apic.rs`, `cstate.rs`, `tsc.rs`, `pci.rs` | hardware | set-up | start handshake of the application processors |
| Cryptography | `crypto.rs` | key schedule | AES-128-GCM | none: arithmetic on bytes |
| Host tools | `xtask`, `runner`, `pulc`, `pulc-lsp`, `ir.rs`, `fmt.rs`, `disasm.rs`, `lsp.rs` | files | text to text | process I/O |

How they interact: core 1 pushes frame handles into `CAPTURE_TO_ENCODE_RING`, core 2
moves them to `ENCODE_TO_NET_RING`, core 3 pops them, calls `stream_send_frame`, which
calls `send_packet` per packet, and polls for ACKs, which drive the congestion
controller. Core 0 touches the same statics: the `benchmark` command pushes and pops
the first ring, stores samples in the slots and sends packets; `@capture` writes slot 0, `@vram_write` and
a write to `/vram` any slot; `@send` sends, `@rate` stores the rate, `@ring_depth` calls `len`. The shell calls LatencyFS, and LatencyFS
calls the export disk. The shell's `edit` hands the serial console to the editor until it quits.
On the host, `pulc` compiles a script and runs the binary on a machine of its own.

What makes each component correct is stated as the properties of its module; the
hazards they are aimed at are listed with their lines in `PROJECT.json`.

## Modules

| Module | Models | Notes on the translation |
|---|---|---|
| `BoundedFifo` | the abstract queue | push and pop take effect at one moment between call and return |
| `SpscRing` | `ring_buffer.rs` | one action per load, store and cell access; `MayPush` and `MayPop` are the cores that call each operation; words of a size that is a multiple of `CAP`, so that they wrap in the model |
| `Pipeline` | `smp.rs`, `gpu.rs` | the loops of cores 1, 2 and 3, and the stores of core 0 into the frame slots (`Core0Stores`: `@capture`, `@vram_write`, `/vram`, `benchmark`); rings as sequences (justified by `SpscRing` refining `BoundedFifo`); the counters are bumped in steps of their own |
| `E1000` | `e1000.rs` | driver steps of the cores that send and the NIC's two engines; once two calls of `send_packet` overlap (history `overlapped`) only the calls under way are followed; the NIC is external and modelled from how the driver uses its registers |
| `Congestion` | `on_ack_received` in `net.rs` | the load and the store of the rate are separate steps, `@rate` may come between with any number, stored as a byte (history `asked`); delays are good or bad |
| `StreamSend` | `stream_send_frame` in `net.rs` | packets as offsets; handles that the function refuses (low address, size 0, size too large); a clock that may pass the deadline between any two steps; a NIC that may refuse; core 0 and the boot self-test move the same drop counter (history `others`) |
| `ExportDisk` | `export_disk.rs` | one step per data cluster, FAT sector or directory sector written, with faults between them; the clusters that the allocation loop collects (`LowestFree`) and the chain from a first cluster (`Chain`) are said by what they are, not by how they are computed |
| `LatencyFS` | `fs.rs`, file commands of `shell.rs`, auto sync and auto import | names as sequences of components; `Name83` is a table that maps components to 8.3 names; `Reboot` discards the table and imports; the disk is found at boot, by a later command or not at all; `backed` is the history of files whose last write-through went well |
| `ShellLine` | `poll_shell` | line, cursor, escape states, history, and the text and column the terminal shows |
| `Editor` | `editor.rs` | buffer as a sequence, cursor as an offset as in the code; the flags `structure_changed`, `line_changed` and `cursor_only` are the strongest of them (`due`); the rows of text the terminal shows; the parameters of an escape sequence come with its last byte; of the file only whether it equals the text; `Bytes` is whatever a text consists of |
| `Console` | `execute_command: edit` | composes `ShellLine` and `Editor`: a byte goes to the shell, or to the editor while it is open |
| `Px64Words` | `vm.rs`, `isa.rs` | two's-complement words of `WordBits` bits, with the tag bits at the same place below the sign |
| `Compiler` | `compiler.rs` | a function from syntax trees to code and constants: the parser and the emitter are one pass in the code, so each operator takes the compiler's state and a phrase and returns the state; errors are codes; names are stored by their first 16 bytes (`First16`) and looked up whole; `scratch` and `topVar` are a history of the registers used for temporaries, arguments and variables |
| `PulseScope` | | the shapes of programs that the compiler is known to compile otherwise than meant, or whose handles it does not follow: `AsMeant` and `Followed`, the conditions of two properties of `Toolchain`; it models no code |
| `HostVM` | `PX64VM::run_with_output` in `vm.rs` | one action per kind of instruction; the output is the sequence of native calls with arguments |
| `PulseLang` | | the meaning of a program, by structural recursion on its tree with variables as a function of names; it models no code, it is the reference for `Toolchain` |
| `Toolchain` | `run_source_with_output` | compiles a program, runs it on `HostVM` and compares with a semantics; `MCToolchain` gives it `Compiler`, `PulseLang` and the conditions of `PulseScope` (`Meant` and `Traced`) |
| `PX64VM` | `PX64VM::run` in `lang.rs` | one action per kind of instruction; arithmetic is a constant operator; the base of an array is a prefix sum of lengths (`Sums`, a recursive function); a Rust panic is a status that says which pool, or the video memory, was indexed |

Modules named `...Proofs` hold the theorems about one component (`ConsoleProofs`: about `Console`,
`ShellLine` and `Editor`; `NetProofs`: about `StreamSend` and `Congestion`).

`MCSpscRing`, `MCLatencyFS`, `MCPX64VM`, `MCConsole` and `MCToolchain` instantiate modules whose
constants need definitions; the other modules are run directly with their `.cfg`.

`SpscRing` composes with `BoundedFifo` through a refinement mapping (`FifoRefined`).
`Pipeline` relies on it by using queues. `StreamSend` and `E1000` describe the two sides
of the call of `send_packet`: in `StreamSend` the NIC refuses at any time, in `E1000` a
caller sends at any time.

## Runs

Expected to pass:

| Run | Shows | Bounds |
|---|---|---|
| `ring_spsc` | with one producer, one consumer and one reader of the depth: indices never overtake, no data race on a cell, `len` is never above what the ring can hold, and the ring implements the FIFO | CAP 3, a word that wraps every 6 pushes: every phase of full, empty and wrapped occurs |
| `pipeline` | frames leave in order, a frame within the window of slots is as captured unless core 0 stored into its slot, counters agree up to frames in transit, no frame stays for ever | rings of 2, three slots, eight frames: the rings and the cores' registers together hold more handles than there are slots, so rings fill and slots are reused under a handle; core 0 stores into any slot at any time |
| `e1000` | until two cores are in `send_packet` at once, an accepted packet stays intact and in order until transmitted and the transmit ring wedges only when every descriptor was filled; packets are returned once, in order, and eventually, except through descriptor 0 | 2 descriptors to send and 3 to receive, 5 packets: more than a lap of each; two senders |
| `congestion` | the rate stays in the range that the floor, 100 and the rates stored by scripts span, and recovers to 100 % once the delay and the scripts leave it alone | the code's constants; scripts ask for 10 (below the floor), 60 and 511 (stored as 255) |
| `stream_send` | a prefix of each frame is on the wire, at most one packet is late, every call is accounted for: the counters are exactly the calls that returned as sent and as dropped plus what core 0 dropped, calls return | frames of one to three packets, of size 0 and above the limit, or at a low address, a sequence space smaller than a frame so that it wraps |
| `export_disk` | chains of files are sound (no cycle, no sharing), an update is all or nothing at every instant, the FATs agree when nothing was cut short, calls end | four names, five clusters, one fault: reuse, full disk and a fault at every step |
| `latencyfs` | paths stay unique, and a power cycle at any time brings back a root file whose last write-through found an entry, if nothing has written or deleted its 8.3 name since, no older entry is left and the table has room | four paths, two of which share a base name and one without an 8.3 name, two contents and one too large, four slots and five directory entries (both fill), five commands; the disk is found at boot, later or not |
| `console` | neither buffer is overrun, the terminal shows the line that Enter executes, recalls show executed commands; in the editor the rows show the text whenever the receive buffer was empty, and a key changes no line but the cursor's | shell lines of up to two characters (a buffer of three), three executions through a history of two, all escape sequences; files of up to four characters, a buffer of three, a window of two rows: texts of more lines than rows, files longer than the buffer, empty lines, full buffer. One editor session, as the first command |
| `toolchain` | the output of a compiled program is the one it means (`AsMeant` programs), an accepted program consumes each captured frame exactly once (`Followed` programs), a loop takes no more steps than estimated | words of six bits; every operator over every pair of operands and nests of two, nested control flow, calls, views, fixed point, spilled variables, and every sequence of up to four handle operations, or of two around a branch or a loop; the loops go past the limit of the estimate. The shapes that `PulseScope` excepts are among the programs: with the condition dropped from a property, TLC shows each defect below |
| `vm` | calls return with the caller's registers, a success never computed for too long, arrays defined in order do not share slots and do not leave the pool, every script ends | every program of three or four instructions from five instruction sets |

Expected to be violated, each with a finding in `PROJECT.json`:

| Run | The code's statement | What happens |
|---|---|---|
| `pipeline_overwrite` | the handle's checksum verifies "frame integrity" | four slots back up to thirty-two queued handles: core 3 sends a newer frame under an older handle |
| `e1000_rx_wedge` | "advance tail" gives descriptors back | the driver starts one descriptor ahead, so that after a lap it writes RDT = RDH and the NIC owns none |

`CHECK_DEADLOCK FALSE` is used only where the system may stop: in `stream_send`,
`export_disk`, `latencyfs` and `console`, which make a bounded number of calls, and in `vm` and
`toolchain`, where a script ends. Every other run checks deadlock.

### Other deviations met while modelling

The inputs of the runs include these cases unless it is said that they do not; the condition of a property that excepts one is named.

Kernel:

- The `benchmark` command (`shell.rs:1665`) pushes and pops `CAPTURE_TO_ENCODE_RING` on core 0 while
  cores 1 and 2 do, although `ring_buffer.rs:52` says of push "called by Producer core only". With such
  `MayPush` and `MayPop` (the run has one core for each), `OccupancyBounded` fails: a stalled core 1 stores an old head behind the tail,
  and the ring is corrupt from then on.
- Core 0 stores into frame slots that hold frames in flight (`lang.rs:1085`, `vfs.rs:93`, `shell.rs:1659`): even a frame
  within the window may carry such data, and its checksum is not computed again (`IntactInWindow` says that this and
  nothing else can happen to it).
- `init_e1000` leaves `E1000_RX_TAIL` at 0, so the first packet, in descriptor 0, is skipped
  (`OnceAndInOrder` and `StoredIsReturned` exclude that descriptor).
- `send_packet` fills the last free descriptor, which makes TDT = TDH; the NIC then
  transmits nothing (`WedgedOnlyWhenFull` says this is the only way to wedge).
- `send_packet` has no lock although core 0 calls it too (`lang.rs:926`, `shell.rs:1673`): two calls that overlap fill one
  descriptor twice and lose a packet (`PendingIntact` and `WedgedOnlyWhenFull` speak of the time before that).
- `@rate` stores its argument unchecked (`lang.rs:896`), and `docs/lang/spec.md:104` allows 10 although the controller's
  floor is 20: congestion then raises the rate. More than 255 is cut to a byte (`RateBounded` includes the stored rates).
- `TOTAL_FRAMES_DROPPED` also counts the frames of `@send`, `benchmark` and the self-test at boot that met a deadline, a frame that the NIC
  refuses is in neither counter, and a handle that `stream_send_frame` rejects (`net.rs:209`) counts as sent (`FramesAccounted`
  has a term for each).
- `README.md:79` says that file operations "immediately persist to the FAT16 disk, enabling persistent scripts across full cold
  OS reboots". A root file does not come back as it
  was left in these cases (the conditions of `RootFilesSurvive`): a file of the same base name in another directory, or an
  `export`, was written or deleted since, for write-through keeps only the base name (`export_disk.rs:667`), so that `/pulselang/s.pul` and
  `/s.pul` are one entry; the directory was full, which loses the write silently; the disk was not yet detected when the file was
  written; an older entry of the name is left; the table is full when the import reads the entry. A file of a directory comes back in the root.
- `export_disk_write_file` takes the first slot that is free or has the name, so a name can get
  two directory entries (`OneEntry`), and an overwrite never frees the old chain.
- The base of an array depends on which lower ids are already defined: an array of a
  function that runs after a later array was defined overlaps it (`StoresIsolated` requires
  `inOrder`), and the machine's pools have 256 slots, beyond which an access panics.
- `@within` code ends its block before `DROP`, so `!drop` looks at the enclosing block's deadline;
  a ninth nested block is not pushed but popped.

Editor:

- A line that is edited and then left by a cursor key in the same burst of bytes is not redrawn, because
  `redraw_current_line` draws the line the cursor is in by then (`editor.rs:1149`; `ScreenShowsBuffer`
  excepts the lines in `left`).
- `redraw` does not erase behind the last visible row if lines follow (`:560`; the property asks that
  the row begins with its line).
- `^X` quits even if the save failed (`:795`), so a new file is lost when LatencyFS is full.
- `insert_char` stops one byte before `MAX_EDITOR_BUF`, `insert_str` at it. A carriage return is
  remembered across control keys, so a line feed after `^K` can be swallowed. A terminal that sends
  CR LF gives the editor a newline after the command `edit`.

Compiler and host machine (named are the conditions of `PulseScope` that except the shape from `MeaningKept`, in the second list from
`AcceptedIsLinear`):

- `$a := $b + $a` adds `$b` to itself: the left operand is computed in the register of `$a` (`compiler.rs:4422`; `TargetsReadFirst`).
- Arguments are moved to registers 7, 6, 2 and 1 before CALL saves the frame (`:4857`): variables of the
  caller in these registers are lost (`RegistersApart`), and a recursive function loses its own parameters, as does a contract
  after a call (`TailCalls`). A `let` of a parameter's name makes a variable that nothing reads. A global assigned in a function is
  restored by RET if it is in a register, which `PulseLang` takes as its meaning, and kept if it is spilled (`NoSpilledBinding`).
- Temporaries use registers 15 down to 8 and variables 1 to 13: with eight variables or more a deep
  expression overwrites one (`RegistersApart`). `parse_view_source` never frees its temporary (`:751`).
- A name is stored by its first 16 bytes and compared whole (`:1832`, `:1815`): a longer one is declared anew at
  each mention, and two with the same beginning are one constant or field (`NamesFit`).
- Of two arrays of one name the first is used, and an array declared in a function can overlap another (`DeclaredOnce`).
- `@reduce` ignores its initial value (`:5024`), and a view given by the name of an array starts at what `$rax` holds (`ViewsDeclared`).
- Folding of fixed-point literals skips the scale shift, and SHR is logical, so negative fixed-point products are wrong (`FixedSimply`).
- The loop variable of a `for` and the name bound by an `Ok` arm may not be spilled: the code then uses register 255 (`NoSpilledBinding`).
- Immutability is not enforced for names that begin with `$r` (`:1893`), which the model follows.
- The tags of `Err`, strings and arguments are bits that negative numbers have set: a negative value is taken
  for an `Err`, and `@println` of one prints an argument or nothing (`vm.rs:796`). `PulseLang` has the same tags, and the output of the model is the
  value that a native is given, not its text.
- Nested loops are estimated one by one, so that a nest within the estimate can exceed the machine's limit
  (`LoopsCounted` is about a program with one loop).
- `@term_read_key` resets the step counter (`vm.rs:833`), so a loop that reads keys never meets the limit.
- A negative offset of `@vram_read` becomes a huge `usize`, and `offset + 8` can overflow (`vm.rs:1042`; on the kernel's
  machine `lang.rs:1057`, a panic of `PX64VM`).

Linear handles: `compiler.rs:2078` speaks of "all execution paths", but programs of these shapes are accepted and consume a handle never or twice:

- The typestates of match arms and of the branches of `?:` are not joined, those of function bodies flow into
  the script, and a `return` at the top level skips the check for unconsumed handles (`Joined`).
- `@within ... !drop` marks every captured handle as dropped (`:2425`), while the machine's DROP ends the block
  and consumes nothing (`vm.rs:1164`; `NothingDropped`).
- Handles that go through a pipe, a copy in an ordinary variable or an expression, numbers used as handles and captures
  that are not bound are not followed (`OnlyMoved`).

## Fairness

Liveness is stated where the code polls or loops: each core's loop is weakly fair (a core
never stops taking steps, it has nothing else to run), the NIC's steps are not fair in `E1000`,
`poll_rx_packet` is called in every turn of core 3's loop, ACKs keep arriving in `Congestion`, a call
of `export_disk.rs` or of `stream_send_frame` goes on (core 0 and core 3 are never preempted), and the
machine executes its next instruction. Nothing is assumed of users, scripts or the network.

## Proofs

Theorems hold for every value of the constants that meets the named assumptions; the run of the same
component shows the same property on one instance. Every inductive invariant below was checked by TLC on
that instance before it was proved. Assumptions named `...Assumption` give the constants their sorts
and non-zero sizes; where a theorem needs more, it is said.

`SpscRingProofs`, from `RingAssumption` and `SingleRoles` (at most one core pushes and one pops, which
is what `ring_buffer.rs` asks of its callers): `TypeCorrect`, `OccupancySafe`, `RaceFree`, `LenSafe`, and
`RingImplementsFifo`, that the ring implements `BoundedFifo`. That the cell being written is free follows from a
stale `tail`, loaded before other steps. The invariant relates the indices each core holds in registers to
the shared ones (a loaded index is at most as new as the shared one, so the room seen is at most the room
there is) and says that cells between `tail` and `head` hold the items of the abstract queue.

`PipelineProofs`: `TypeCorrect`; `TelemetryAgrees` (`CountersAgree`), from the conservation of handles
`CountInv`: what was pushed was counted, is in a ring, or in a core's hands; `FramesInOrder` (`InOrder`) and
`FramesIntactInWindow` (`IntactInWindow`), from `CaptureInv` (core 1's slot is its frame number modulo the number
of slots) and `FlightInv`, which is about one sequence: what core 3 holds, its ring, what core 2 holds and
its ring. A handle moves within that sequence or leaves it at the front, so its order is an invariant, while the order of each
ring is not inductive. Core 0 may store into any slot between any two steps, so `FlightInv` allows its data in every slot.

`E1000Proofs`: `TypeCorrect`; `AcceptedStaysIntact` (`PendingIntact`) and `WedgeNeedsFullRing` (`WedgedOnlyWhenFull`), for any number of cores
that send. Both are from `AloneInv`: until two calls have overlapped, all cores but one are outside `send_packet`, and for that one
`TxInv` says which descriptors are the NIC's by the distance from TDH to the software tail modulo the ring and
what the sender has done to its own; `ReceiveInOrder` (`OnceAndInOrder`), from `RxInv`, which orders the packets
waiting between the driver's tail and RDH and pins down the lap in which the driver is one descriptor ahead.

`NetProofs`, about the two sides of `net.rs`. Of `StreamSend`: `TypeCorrect`, `WireIsPrefix` (`PrefixOnWire`), `LateIsLast`
(`AtMostOneLate`), `EveryFrameAccounted` (`FramesAccounted`). The invariant ties the offset and the sequence number of the loop
to the packets already on the wire; the last theorem is an equality that also counts the call under way and core 0's drops.
Of `Congestion`: `CcTypeCorrect`; `RateStaysBounded` (`RateBounded`), whatever numbers scripts store.
A script's store may come between the load and the store of `on_ack_received`, so the bound has to
hold of the loaded register too (`LoadedBounded`).

`ExportDiskProofs`, for disks, directories and allocations of any size and any number of calls cut short anywhere:
`TypeCorrect`; `MirrorIsCopy` (`MirrorAgrees`); `FilesStaySound` (`ChainsSound`), from `ChainInv`: the files' chains are
sound and apart, the clusters a write has linked so far are in nobody's chain and still marked free where they are not linked
(`WriteInv`), and the rest of a chain being freed is a chain that belongs to no file (`FreeInv`);
`UpdateIsAtomic` (`UpdatesAreAtomic`), which also needs that the new clusters hold the new data before the entry is
written (`DataInv`) and that nothing comes behind the end of the directory (`DirInv`).

`ConsoleProofs`, about the console of shell and editor, from `ShellAssumption`, `EditorAssumption` and `BytesAssumption`:
`LineTypeCorrect`, `ScreenIsLine` (`ScreenShowsLine`) and `RecallFaithful` (`RecallIsFaithful`), from `LineInv`: the parts of it say
that the echo agrees with the line unless a redraw is due, that escape parameters stay in their array, and that slot
`n` modulo the size of the history holds command `n` of the latest ones; `ConsoleTypeCorrect` (`ConsoleTypeOK`),
and `EditsStayInLine` (`OtherLinesKept`), that a key changes the text only between the ends of the cursor's line
and at one newline around it; `EditorScreenIsText` (`ScreenShowsBuffer`), from `ScreenInv`, which says what the terminal shows
while redraws are still due: unless everything is to be drawn, every row shows its line, except the cursor's if it is
to be drawn and the lines left in mid-burst. An insertion or deletion within a line widens or narrows that line and moves all later ones by the same
amount (`Widened`), so that the rows of the other lines still show them. A typed byte is no newline (`BytesAssumption`: the
editor has Enter for that).

`LatencyFSProofs`, from `FsAssumption` (the sorts of paths, names and contents) and `DefaultsAssumption` (`fs_init` names every
entry once), for tables, directories and sequences of commands of any size:

- `FsTypeCorrect` (`TypeOK`) and `PathsStayUnique` (`UniqueNames`), from `FsInv`. The table after boot is `Imports`, a recursive
  function of the number of entries read, so that what one entry does to the table holds of the whole import by induction.
- `RootFilesComeBack` (`RootFilesSurvive`), from `FsInv` and `DiskInv`: nothing follows the end mark of the directory, and for every path
  in `backed` table and disk have the same data under its 8.3 name (`Kept`). Every write-through and delete removes the paths that share its
  8.3 name from `backed`, in whatever directory they are, so that what it does to the disk disturbs no other path. There is no
  hypothesis on the commands: files of any directory share entries, directory and table fill up, the disk may be found late.

`PX64VMProofs`, from `VMAssumption` and, for the last three, `CodeAssumption` (operands are bytes or pairs of bytes,
immediates are words; a panic names the pool, or the video memory):

- `ComputeTimeSafe` (`ComputeBounded`). `TimeKept`: the deadline is ahead of the limit by exactly the time of blocking natives.
- `CallsReturnCorrect` (`CallsReturn`). `FramesMatch`: the frames below the stack pointer are the states at their calls.
- `MachineTypeCorrect` (`TypeOK`).
- `PanicOnlyWhenOutgrown` (`PanicOnlyOutOfPool`) and `StoresStayInside` (`StoresIsolated`). `PoolInv`: in a pool that was defined
  in order, everything with a length begins at the sum of the lengths below it. A definition in order changes no prefix
  sum that a base was computed from (`SumsPrefix`), and prefix sums are monotone (`SumsMonotone`), so that slots neither overlap
  nor leave the pool.

Facts about sequences of lengths, chains and texts are by induction over data. The provers cannot apply an
induction theorem whose parameter is an operator, so the modules derive from the well-foundedness of `<` on the
naturals (`WellFoundedInduction`) a rule about a set that contains 0 and is closed under successor, and the models have
recursive functions or descriptions of the result where a fold or a recursive operator would be out of reach.

Only model-checked:

- liveness under fairness: all temporal properties with `<>` or `~>`;
- `Toolchain`: the compiler and the semantics are recursive operators.

## Not modelled

- Cryptography and checksums, the contents of packets, registers and timing of devices other than the
  rings, PCI and BPB parsing (input of Init), text of messages: bytes in and bytes out.
- The legacy stack machine (unreachable: both containers have the magic `PX64`).
- Tokens, syntax errors, includes and the string pool of the compiler; `MOV_STR`, natives on strings, arguments
  and files, the text of printed values and replay files on the host machine. The programs of `Toolchain` are syntax
  trees.
- `serial.rs`: after boot only core 0 prints and reads, and the bytes are the inputs of `Console`. What is lost
  when its ring of 4096 bytes is full is not modelled.
- `vfs.rs` and `latency.rs`: buffers that are only printed or copied by shell commands on core 0 (the stores of `vfs.rs` into
  frame slots are in `Pipeline`).
- The boot sequence: straight-line set-up, whose result is the Init of the modules.
- `ir.rs`, `fmt.rs`, `disasm.rs`, `lsp.rs`, `pulc-lsp`, `pulc`, `xtask`, `runner`: functions from text to text,
  process and file I/O.

## State of the plan

The components of the plan are modelled, and every invariant that a run checks is proved for all values of the constants,
except those of `Toolchain`. What would extend the project, in order:

1. `HostVM` against `PX64VM`: the two machines side by side on the same binary.
2. The start handshake of the application processors and the receive ring of `serial.rs`.
