# A verification project for ConOS

ConOS is a small 32-bit x86 operating system kernel: a boot loader, a physical
memory manager, interrupt handling, a keyboard-driven shell, drivers for the
screen, the serial port and ATA disks, PCI enumeration and a FAT12 filesystem.
This directory holds TLA+ models of its parts, the TLC configurations that
check them on small instances, and theorems about them that TLAPS proves for
every value of the constants. Paths below are relative to the repository.

## 1. Inventory

| Part | State | Operations | What makes it correct |
|---|---|---|---|
| Memory manager, `src/kernel/kern_mem.c` | the block table (`type`, `firstContig`, `lastContig` per entry), its layout | `mm_initialize`, `mm_reserveat`, `mm_allocate` with `bestFit`, `mm_free`, `prepare_memory_manager` | a block has one owner at most; the runs partition the table; no loop leaves the table; what is freed can be granted again |
| FAT12, `src/drivers/fat12.c` | cached FAT and root directory, free bytes, and the disk behind them | enumerate, find, load, write, get/set cluster | a directory entry on the disk always has a complete chain of its own; chains are disjoint; what was written is read back; a power loss damages no other file |
| ATA PIO and disk, `src/drivers/ata.c`, `disk.c` | the controller's registers, two sector buffers | read and write sectors, three attempts each | OK means the bytes are on the disk; a failed write leaves each sector old or new; bytes outside the request do not change |
| Filesystem selection, `src/kernel/kern_disk.c` | the table of filesystem functions | `prepare_kernel_fs`, `fs_get_functions` | functions are only called when they are installed |
| Keyboard, `src/drivers/keyboard.c` | `key_buffer[256]`, keys held, lock flags | the IRQ1 handler | the buffer holds the line typed, inside its bounds |
| Shell, `src/kernel/kernel.c` | `shell_context` | `kernel_main`, `user_input` | each line is taken by the prompt it was typed for; no command runs before what it uses exists |
| Interrupts, `src/cpu/isr.c`, `idt.c`, `interrupt.asm`, `ports.c` | the IDT, the handler table, the interrupt flag | install, dispatch, register | an interrupt never finds the kernel in a state its handler cannot run in |
| Timer, `src/cpu/timer.c` | `tick` | the IRQ0 handler | nothing reads it |
| Screen, `src/drivers/screen.c` | video memory, the cursor registers | print, backspace, scroll | cursor and writes stay inside video memory |
| Serial port and log, `src/drivers/com.c`, `src/kernel/log.c` | none | write | output only |
| PCI, `src/kernel/kern_pci.c` | the list of devices | enumeration by recursion over buses | what it lists is there and is listed once; a further function only behind function 0; the first bus is searched in full |
| Dynamic array, `src/kernel_lib/dynamic_array.c` | storage, used, size | init, insert, free | an element is what was inserted; neither list nor elements are written over |
| Strings, `src/kernel_lib/string.c` | none | conversions, comparison, append | results fit their buffers |
| Boot loader, `src/boot/` | registers | load the kernel, ask for the memory map | gives the memory manager its input |

How they interact. `kernel_main` calls, in order, the installation of the
interrupts (which turns them on), the memory manager's preparation, the PCI
enumeration and the filesystem's, then spins. Everything after that, and
anything a user types before, runs in the keyboard's interrupt handler, which
calls `user_input` and through it the memory manager and, by function pointers,
the filesystem; the filesystem calls the disk wrappers and those the ATA driver.
The dynamic array, FAT12 and PCI allocate from the memory manager.

What is hard: the table of runs after long orders of allocations and frees; the
unsigned arithmetic of the reservations; reads past the end of the table;
interrupts while `kernel_main` still prepares what a command uses or prints on
the same cursor; power loss between the writes of one file; write errors nobody
looks at; retries of half-done writes; entries of the FAT that share bytes and lie in
two sectors; searches without an upper bound.

`PROJECT.json` lists the hazards at their lines, with the properties that watch
each of them.

## 2. Modules and plan

| Modules | Section | State of the work |
|---|---|---|
| `KernMem`, `KernMemSafe`, `Heap` (abstract), `KernMemProofs`, `KernMemSafeProofs` | 3 | modelled, checked, proved |
| `FatBytes`, `Fat12`, `Fat12Store`, `FileStore` (abstract), `Fat12Proofs`, `Fat12StoreProofs` | 4 | modelled, checked, proved |
| `AtaPio`, `AtaPioProofs` | 5 | modelled, checked, proved |
| `Screen`, `Keyboard`, `Console`, `ConsoleProofs` | 6 | modelled, checked, proved |
| `MemLayout`, `Pci`, `DynArray`, `StartUp`, `PciProofs`, `StartUpProofs` | 7 | modelled, checked, proved; `StartUp` composes the memory manager with the three others |

The order was that of importance: the memory manager first, from which everything
else allocates; the filesystem, which keeps what a user made; the disk below it; the
console above it; and last start-up, which composes the parts.

"Proved" means every safety property the passing runs check; liveness is out of the
prover's reach (it cannot reason about `ENABLED`) and stays with TLC.

Left: the writes of `Fat12` by the steps of `AtaPio` instead of by their outcomes.

## 3. The memory manager

### 3.1 `KernMem`

An entry of the C table is a struct with a type and two pointers, to the first
and the last entry of its run. The model names an entry by its index and turns
the fields into the functions `type`, `firstContig` and `lastContig`. The
layout (`NumEntries`, `BlockLength`, `MemStart`) that
`prepare_memory_manager` computes is constant, and `WordMod` is the modulus of
`size_t` arithmetic, 2^32 in the build.

| Model | Code |
|---|---|
| `Init` | `mm_initialize` (22-58): one free run |
| `BootEntry` | one turn of the loop of `prepare_memory_manager` (519-537), with `mm_reserveat` (72-144) as `ReserveAt` |
| `Allocate(size)` | `mm_allocate` (146-229), with `bestFit` (541-572) as `Visited`, `Holes`, `BestFit` |
| `Free(address)` | `mm_free` (231-292): `Refused`, `MergeLeft`, `MergeRight`, `Release` |
| `Carve`, `RestEnd` | the four copies of the code that takes blocks out of a run |

Each action is a whole call: the kernel has one processor, and interrupt gates
keep a handler from being interrupted, so calls made from the shell do not
overlap. Calls of `kernel_main` interrupted by the keyboard are in `StartUp`
(section 7).

Loops are modelled by what they compute. Where a loop would leave the table, or
store a pointer into it that is no entry, the step sets `wild` and the modelled
behaviour ends: what the machine does next is undefined. That is why
`CHECK_DEADLOCK FALSE` is set for the runs where it can happen.

Three loops read the entry after the table. `PastEnd` says what the RAM there may
hold, each read choosing among it: `"zero"` is RAM never written, what the
emulator of the `Makefile` gives; `"benign"` looks like a reserved run that ends
at the table's end; `"hostile"` is anything else.

`live` (grants not given back) and `firmware` (blocks reserved at boot) are history
variables; no action reads them except the conditions on callers.

There are three specifications. `Spec` lets callers pass any size and any address,
as `ALLOC_MEM` and `FREE_MEM` of the shell do. `LegalSpec` has callers that only
give back, once, what they were granted. `SafeSpec`, in `KernMemSafe`, adds
the conditions under which the code is right.

### 3.2 `KernMemSafe` and `Heap`

The code goes wrong for some memory maps and some frees (section 3.4).
`KernMemSafe` states the ones it is right for:

* `OrderlyMap`: regions reserved in rising order, except after one that fills the
  table to its end; no region of several blocks starts in the last entry; one
  region covers the last entry. The map of the emulator is like that: its last
  reserved regions lie at the top of the address space and reserve the table's end.
* `SoundFree(e)`: entry e + 2, which `mm_free` tests for the run at e + 1, is
  reserved or belongs to that run.
* `PastEndAssumption`: the RAM past the table does not send `mm_reserveat` up.
* `AddressAssumption`: the memory ends no later than the addresses do.

Under these the table satisfies `Partition`, `LiveAreRuns`, `Accounting`,
`NoWild` and `BestFitIsBest`. `ReservedExactly` says what the boot reserves: while the
regions are of whole blocks, the blocks they touch, no less and no more. The manager
implements `Heap`: a grant is a range
of blocks nobody holds, a free gives back one grant.

### 3.3 Runs and bounds

| Run | Specification | Shows |
|---|---|---|
| `kern_mem_any_caller` | `Spec`, 5 entries, all contents of `PastEnd` | `TypeOK`; `WalkAdvances`: runs contain their own entry, so `bestFit` ends, even in tables that wrong merges have damaged |
| `kern_mem_safe_use` | `SafeSpec`, 8 entries | the invariants of `KernMemSafe` and the refinement `HeapRefined` |
| `kern_mem_legal_use` | `LegalSpec`, 8 entries | violation of `OnlyAvailGranted` |

A block is two bytes long, so sizes below, at, between and above block boundaries
are {0, 1, 2, 3, 4, 6}; addresses are every block, the middle of one, and both
sides of the memory. The memory maps hold every case `mm_reserveat` and its loop
distinguish: a region skipped, one that straddles `_memStart`, less than a block,
whole blocks, a wrapped count, one past the end, one above 2^32, two that overlap.
Words have 64 values, more than the memory has bytes. Five entries give three runs
next to each other with a free one between, enough for every merge; eight leave
room for four after the reserved top. `MCView` leaves the history out of the
states of `kern_mem_any_caller`: no action of `Spec` reads it.

No run needs fairness: the properties are about safety. That `bestFit` ends is
stated as the invariant that makes it advance.

### 3.4 Findings

* `mm_free` tests `(current_ent + 1)->type` where `current_ent` is already past the
  run (line 257). When the right neighbour is a single allocated block followed by a
  free run, the freed run is merged over that block, and a later `mm_allocate`
  grants it again. (`kern_mem_legal_use`)

Met while modelling, and the reason for the condition of `ReservedExactly`:
`mm_reserveat` counts the bytes left down in unsigned arithmetic (line 112), so a
region that is not a whole number of blocks reserves everything up to `_mmListEnd`, and
one that starts inside a block is reserved a block short.

### 3.5 Proofs

`KernMemProofs` proves, for every number of entries, block length, memory map,
set of sizes and addresses and content of the RAM past the table,
`TypeCorrect` and `WalkAlwaysAdvances` for `Spec`. The inductive invariant `IInv` is
typing, the two inequalities of `WalkAdvances` and what `live` needs to be typed.

`KernMemSafeProofs` proves for `SafeSpec` the properties of `kern_mem_safe_use`. The
invariant `SafeInv` joins them, because none is inductive alone: that a grant is a
run needs the partition when a neighbour is carved or merged; that a merge takes no
block of a caller needs the accounting; that `bestFit`'s walk meets every free run
needs the partition and the reserved top. To these it adds the facts about boot:
no caller has a block while regions are left (`mm_allocate` is refused), what lies
above the last reservation is still one free run, and once the map is handled the
last entry is reserved. `ImplementsHeap` shows each step to be a step of `Heap` or
a stutter, and follows from `SafeInv` in the state before. `BootReservesExactly` is the
arithmetic of `mm_reserveat`: for whole blocks the quotient and the countdown of
unsigned words end in the same entry (`ExactQuotient`, `WholeCountdown`), and that is the
last one the region touches (`RegionExact`).

Assumed: `LayoutAssumption` and `InputAssumption` (the constants have their types),
and for `SafeSpec` `PastEndAssumption` and `AddressAssumption`.

Only model-checked: the violation.

## 4. The FAT12 driver

### 4.1 `Fat12`, `FatBytes` and `Fat12Store`

The driver keeps the FAT and the root directory in memory, read at boot, and writes
each change through. `fat` and `dir` are the copies in memory, `diskFat`, `diskDir`
and `data` what is on the disk. A directory entry is a record of its kind, its part
of a name, its first cluster and its size; a name is the sequence of its
13-character parts; what a sector holds is the part of a file, with or without the
zeros after its end.

| Model | Code in `src/drivers/fat12.c` |
|---|---|
| `GetEntry`, `SetEntry`, `BytesSent` (`FatBytes`) | `fat12_get_cluster`, `fat12_set_cluster` (55-84): two entries of 12 bits in three bytes |
| `DirStop`, `FileSlots`, `LongBefore`, `NameOf`, `Found` | `fat12_enumerate_files` (86-186), `fat12_find_file` (188-282): the end of the directory, long entries gathered into a name, the look-up |
| `Kept`, `KeptText` | the short name that `fileName` still holds when the next long name is put before it (237-238, 255-259, 275-279) |
| `Walk`, `Strays`, `ChainFrom`, `Loaded` | `fat12_load_file` (284-322) |
| `WriteRefused`, `FoundEntry`, `StartWrite` | the checks of `fat12_write_file` (324-397), the search for entries with its count that goes on across entries in use |
| `WriteLong`, `FillEntry` | the entries of the name (409-440), the final one in memory (442-460) |
| `LinkCluster`, `EndChain`, `SetCluster` | the search for clusters, and each `fat12_set_cluster` (462-480) |
| `WriteEntry`, `WriteData`, `PadData` | the final entry (482-485), the data (487-504), the zeros and `bytesFree` (506-519) |
| `Init`, `StartAgain` | `fat12_initialize_info` (5-37) on what `load_fat` and `load_root_directory` of `kern_disk.c` read |
| `Restart`, `RestartInMark` | power loss between two disk writes, or in the one of a mark |

Each action ends with at most one disk write, so that `Restart`, which power loss and
the next start are together, may come between any two of them. `CrashPhases` says at
which places it may.

Faults. A disk write changes bytes of one sector and happens or does not; the three
bytes of a mark may lie in two sectors, so `RestartInMark` may leave the disk with the
first one or two (`Cuts`). Any disk write may be refused after its three tries, and the
driver does not look at the result (`Refused`; a refused mark may have reached its
first sector). `MaxRefusals` bounds the refusals, `MaxFaults` these and the
power losses together.

The bytes. A mark sends three bytes, one more than its entry has, and the third
belongs to others. `SentFat` says by entries what that does to the disk, digit by
digit (`Mixed`). `BytesAgree` states that this is what the bytes do: pack the FAT in
memory and the disk's into bytes, set the entry as the code does, send the bytes or the
first of them, and each entry read back is the one the model has.

`chains` (the clusters each entry's file was given), `stored` (the files whose writing
returned OK) and `lost` (the kernel was started again after a refusal) are
history variables. When a search runs off the FAT or an entry lies past the
directory, the step sets `wild` and the modelled behaviour ends.

What a reader finds is less than the directory says. Both look-ups clear `fileName` only
after a name of several entries. The short name of a file without long entries therefore
stays in it, and stands at the end of the next long name, as far as 13 characters for each
of that name's parts reach: a file whose last part is full is found all the same, any other
is not (`KeptText`). The length of a long name is counted in eight bits, so a name of more
than `MaxParts` parts, 19 in the build, is cut at another place and found under no name
(`CutName`). The loader follows every value below 0xFF8. A file without clusters has first
cluster 0, so it goes from entry 0, the media mark 0xFF0, past the FAT (`Strays`), and
what it loads there is not said.

A write of zeros goes behind the data of the last sector whatever became of the data.
When the last bytes of the file were refused, or the write before them, the sector ends
with zeros behind other bytes (`Mangled`): the file is spoilt, not repaired.

Abstractions: a disk write happens at once (`AtaPio` models it in detail); the heap
works and the bytes after a name in it are zero; the short name of a file is its first
part; texts are told apart, not spelled, so names of different parts are different names;
a write past the volume changes nothing that is read.

`Fat12Store` has what the driver is for, on the volumes and directories it is right
for: one sector per cluster, no overflow of the count of bytes
and no name of more than `MaxParts` parts (`VolumeAssumption`), and directories as the
driver leaves them, without holes, with no name that no file follows, no name twice and
no short name kept behind the last file (`TidyAssumption`, which also has the media mark
in entry 0). The `Makefile`'s image is like that: Linux fills it, gives a file with
lower-case letters a long entry, and marks the medium 0xFF0. `FileStore` is the
promise: files appear whole, under names no other file has, and never change. The
refinement maps `files` to what a reader gathers from directory, FAT and data
(`Readable`).

Three specifications: `Spec` has callers that write any name and size; `RoomySpec`
callers that leave room for the one cluster the check does not count (the shell's,
which write 14 bytes, do whenever one is free); `FairSpec` adds weak
fairness of the steps of `fat12_write_file`, which nothing blocks: one processor, no
preemption, and a disk that answers.

### 4.2 Runs and bounds

| Run | Specification | Shows |
|---|---|---|
| `fat12_any_caller` | `Spec`, two faults anywhere, one of them a refusal | `ChainsOnDisk`, `ChainsInMemory`: files have complete, disjoint chains at every moment, on the disk while nothing was refused, in memory also then; `OthersKept`: no write touches a sector of another file; `OneLostEach`: a fault costs one file at most; `CacheFollowsDisk`; `BytesAgree`; `TypeOK` |
| `fat12_store` | `FairSpec`, power loss between writes, once | `ReadsBack`, `FreeSpaceExact`, `Contained`, `WriteReturns`, and `StoreRefined`: the driver implements `FileStore` |
| `fat12_space_check` | `Spec`, no power loss | violation of `SpaceChecked` |
| `fat12_written_name` | `RoomySpec`, one power loss in any phase | violation of `StoredIsFound` |

Four data clusters, a FAT with one entry more than the volume has, eight or nine
directory entries; sectors of two bytes and sizes 1, 2 and 3, so that a file has part
of a sector, exactly one, and one and a half. With two bytes in a sector every mark
lies in two of them, cut after its first byte or after its second, for even entries
and odd ones. Names have one to three parts. The
volume is either empty, or holds a label, an empty file under a short name and behind
it one under a long name, in two clusters with a gap between them (`Installed`). In
`fat12_any_caller` the other volume ends with a file under a short name (`ShortLast`), so
that it is kept for whatever is written next, and `MaxParts` is 2, so that names of three
parts are cut; in `fat12_store` it is the build's 19. With nine entries two writes of
three-part names may be cut and a third still find holes that are too few;
with two faults a write may reuse what an earlier one left, and power may be lost
before or after a refusal. Sectors per cluster are 1, as in the image of the
`Makefile`; the loader and the writer disagree for others (lines 313 and 500).

`fat12_any_caller` sets `CHECK_DEADLOCK FALSE` because a step may leave the table.

### 4.3 Findings

* The check of the free space counts bytes, the search one cluster more than a file
  of whole sectors needs: a file that fits exactly takes an entry past the volume, and
  `bytesFree` wraps. (`fat12_space_check`)
* Power lost between a name's entries and the final one leaves the name alone in the
  directory, and the next file written goes by both. (`fat12_written_name`)

That the entry with the size goes to the disk before the data (485, 502) means a power
loss leaves a file with what its sectors held before. `OneLostEach` bounds this; nothing
in the code promises more.

Met while modelling, and the reason for `NoneKept` among the assumptions of `Fat12Store`: a
file written behind one with a short name is in the directory under a name that
`fat12_find_file` does not put together, so it is not found and may be written twice.

### 4.4 Proofs

`Fat12Proofs` proves, for every volume, disk at the start, set of names and sizes, and
any number of faults, `TypeOK`, `ChainsOnDisk`, `ChainsInMemory`, `CacheFollowsDisk`,
`BytesAgree`, `OthersKept` and `OneLostEach` for `Spec`, the one with any caller.

`PackingAlwaysSound` is the arithmetic, for FATs of every length and wherever the write
is cut: an entry is its three digits, `fat12_get_cluster` reads those three half-bytes,
`fat12_set_cluster` changes those and keeps the fourth.

The invariant `IInv` has four parts. `WriterInv` says where `fat12_write_file` is.
`MemoryInv`: every chain ever made is in the FAT in memory (`Linked`) and no cluster is
in two (`Apart`), also those whose entry was written over, because a cluster in
use must not be found free; and the chain under construction (`NewChain`) is linked so
far, its last entry free until the next mark, and it shares no cluster with
another. `ChainsOnDisk` alone is not inductive: it says nothing of the chain that is
being made, nor of the cluster whose mark is cut. `DiskInv` says that memory and disk
agree while nothing was refused. A cut mark changes one entry only (`SentSame`, from the
bytes), the last of the new chain, and power loss drops that chain.

`OneLostEach` holds between writes; `LossInv` is what holds during them. It
counts the files that are spoilt, without the one being written (`Spoilt`), and one more
when a part of that one should be on the disk and is not (`Missing`; at the padding also
its last bytes, which the zeros do not bring back): each fault adds at
most one, and the end of the write turns a missing part into a spoilt file.

Assumed: `GeometryAssumption`, `NamesAssumption`, `DisksAssumption` and
`FilesAssumption`, that the disk at the start is one with whole, disjoint chains and
whole files.

`Fat12StoreProofs` proves for `RoomySpec`, which `FairSpec` implies, the safety
properties of `fat12_store`. `StoreInv` joins `IInv` with

* `SpaceInv`: `bytesFree` counts the free clusters and those already linked, and there
  are as many free ones ahead of the search as it still needs;
* `ShapeInv`: which directory entries are empty at each place of `fat12_write_file`, so
  that the run found for a name is the end of the directory;
* `NameInv`: no two files have one name, and each part of a name is followed by its file;
* `FileInv`: each file stored is in an entry that keeps its size and its contents.

`NameOf` takes the parts in the order of their places, counted from the file down; what
it gives depends on the entries between two files, and on whether the first of the two
goes by its short name. A later write changes neither, and what it appends has a long
entry, so that no short name is ever kept behind the last file (`NameInv`). The theorems
cover more than the run. `FreeSpaceAlwaysExact` has power loss and refusals anywhere;
`AlwaysContained` power loss anywhere but inside a name, `AlwaysReadsBack` also while
data is written, `FileStoreImplemented` between writes, these three without refusals.
Wider, the last two are not true: power lost between the parts of a name and its final
entry leaves them to the next file (4.3), and power lost while data is written leaves a
file with other contents.

Assumed in addition: `VolumeAssumption` and `TidyAssumption`. Only model-checked: the
two violations and `WriteReturns`.

## 5. The ATA driver

### 5.1 `AtaPio`

`ata_write_sectors_to_disk` writes bytes that may start and end inside sectors. It
reads the first and the last sector, puts the new bytes in, and sends up to three
commands: the first sector, those between, the last. A try that the device refuses is
made again, twice.

| Model | Code in `src/drivers/ata.c` |
|---|---|
| `FirstSector` ... `Commands` | the arithmetic of `ata_try_write_sectors_to_disk` (58-91, 127, 153) |
| `ReadFirst`, `ReadLast` | the two reads (66-71), each `ata_try_read_sectors_from_disk` (7-40) of one sector |
| `SendCommand` | a write command (93-99, 125-131, 155-161) |
| `Refused`, `SendSector` | waiting for BSY, the look at ERR, the words of a sector (101-118, 133-149, 163-178) |
| `TryAgain`, `Return` | the loop of three tries (187-197) and the end of one (181-184) |
| `DeviceDone` | the device, external |

The device is a process of its own. From the last word of a sector to the end of
writing it, it is busy and takes neither commands nor data; words it does not want are
dropped; an error ends its command. It may refuse any command and fail in any sector.
Bytes are identified by where they come from (a place of the caller's buffer, or a
place of the disk as it was), so properties can tell every byte from every other.

`missed`, a history variable, records that in the current try the device dropped a
command or a sector without the driver being told.

### 5.2 Runs and bounds

| Run | Shows |
|---|---|
| `ata_write` | `SectorsWhole`: at every moment each sector is as before the call or as the caller asked; `OkUnlessMissed`: a call that returned 0 wrote everything, if nothing was dropped; `CallReturns` |
| `ata_busy_command` | violation of `OkMeansWritten`, the same without the condition |

Calls follow one another without bound. The requests are inside a sector with an
offset of more than one, across two sectors, exactly one sector, four with both ends
cut, and past the disk; with two bytes in a sector each case of the arithmetic occurs
(the proofs cover all other sizes). `CallReturns` assumes weak fairness of the driver,
which waits for nothing but the device, and of the device, which ends what it began;
that it does not fail forever is not assumed.

### 5.3 Findings

* The command for the following sectors is sent while the device may be busy with the
  one before; BSY is waited for only afterwards. The command is dropped, the words
  that follow too, and the call returns 0. (`ata_busy_command`)

A request that ends with its sector counts one sector more, reads it and writes it back.
Nothing is lost by that except on the disk's last sector, where the read fails and with
it the write.

### 5.4 Proofs

`AtaPioProofs` proves `TypeCorrect`, `SectorsStayWhole` and `OkIsWritten` for every
sector size, disk, set of requests and behaviour of the device. The first half is the
arithmetic: `Layout` says where a request lies among the sectors, and `SentAsAsked`
that what is sent for a sector, by whichever of the three ways it is put together, is
what the caller asks of it. The second is the invariant `IInv`: the two sectors read
are old or as asked (a retry reads what an earlier try wrote); a busy device
is writing what is asked, inside the request; the device is at the sector the driver
sends or wants nothing (`InStep`), also after a dropped command; and unless something
was missed the disk is written as far as the driver has come (`Progress`). None of
these holds by itself. Assumed: `DiskAssumption`. Liveness and the violation are only
model-checked.

## 6. The console

### 6.1 `Screen`, `Keyboard`, `Console`

`Screen` has no state: its operators say what printing makes of video memory and
cursor. `Keyboard` adds the line in `key_buffer`, an array of bytes in which `append`
and `backspace` move a terminator, and one action per scancode. `Console` extends
it with ENTER, which runs the shell inside the interrupt, and with what runs beside it:
`kernel_main`, and the keyboard with its controller.

| Model | Code |
|---|---|
| `PrintChar`, `kprint`, `kprint_backspace`, `MoveCursor` | `screen.c`: `print_char` with its check of row and column, scrolling, the cursor registers |
| `strlen`, `append`, `backspace` | `string.c` |
| `PressTyping` ... `PressIdle`, `PressEnter` | the cases of `keyboard_callback` (`keyboard.c` 110-203) |
| `user_input` with its parts | `user_input` (`kernel.c` 70-320) |
| `irq_handler` | `isr.c` 127-138, for IRQ1 |
| `irq_install`, `init_keyboard`, `FindFilesystem`, `InstallFunction` | the steps of `kernel_main` (15-65), `isr_install`, `irq_install`, `prepare_kernel_fs` (`kern_disk.c` 5-80) |
| `LogStart`, `Greet`, `FirstPrompt` (`Prints`) | what they print on the way: `log.c`, the reports of `kern_pci.c` and `kern_disk.c`, the banner (`kernel.c` 24-60) |
| `SelectHigh`, `ReadHigh`, `ReadLow`, `PutChar`, `WriteHigh`, `WriteLow` (`kprint_at`) | `kprint_at` with `print_char`, `get_cursor_offset`, `set_cursor_offset`, one step per access to a port (`screen.c`) |
| `Press`, `Deliver` | keyboard and controller, external |

A handler is one step, since its gate is an interrupt gate; it comes between any two
steps of `kernel_main` once `irq_install` is done. The controller holds one scancode at
port 0x60 and raises IRQ1 when it puts one there; until the port is read it puts no
other, and the keyboard keeps what is pressed.

Abstractions. Which command a line names is left open: any line that is not empty may
name any. The memory commands only print here; `KernMem` has what they do.

What `kernel_main` prints once interrupts are on goes through the cursor that the echo of
the keys uses. `kprint_at` reads its registers once, puts each character behind the one
before and sets the registers again, whatever an interrupt printed in between; each
register is reached by selecting it first, and an interrupt may leave another one selected.
All of this is modelled access by access. Which texts there are (`StartTexts`) and how many
before and after the search for a filesystem (`Logs`, `Greetings`) are constants. One
character with the scrolling it may need is one step (`PutChar`), and what a handler prints
is part of its step. In a handler an access to the cursor ends with register 15 selected,
so the selection of 15 by `kernel_main` is no step of its own.

`ascii_low` and `ascii_high` are shorter than the scancodes they are read with, so
`Low` and `High` give the characters such a key may produce; in the build with gcc the first
bytes behind `ascii_high` are blanks, a terminator and a newline. BACKSPACE on the empty line
clears a byte of padding in that build. `.bss` is zero, as in the emulator.

A line longer than the buffer, a call through an empty entry of `fs_functions`, and the
store of `fat12_load_file` through an unset pointer end the modelled behaviour; `wild`
says which it was.

`line` (what was typed since ENTER), `strayed` and `firstKeyAt` are history variables.
`strayed` says that the line no longer ends at the cursor: an arrow moved it, a key put a
newline or a backspace character into the line, or `kernel_main` printed while a line was
being typed. The next ENTER ends it.

### 6.2 Runs and bounds

| Run | Shows |
|---|---|
| `console` | `BufferHoldsLine`: the shell is given the line typed; `ScreenShowsLine`: and the user sees it; `NullOnlyEarly`: only early commands call an empty entry when there is a filesystem; `EnterOnTimeTaken`: ENTER is answered if no key came before `init_keyboard` |
| `console_dead_keyboard` | violation of `EveryEnterTaken`, the same without the condition |

The screen has two rows of three cells, so that three keys wrap and scroll it, and
cursor registers of four values each, so that an arrow leaves the screen on either side and
both registers have to change together. `kernel_main` prints a newline before it looks for
a filesystem, another one behind it, and the prompt; keys typed between any two accesses
meet all of them. The buffer
holds four characters and a tab is two, so that both overflow it. Four keys are pressed,
at most two of them before `kernel_main` spins (a command and its ENTER); those, and
keys pressed while others wait, are a letter or ENTER (`HastyKeys`). Four keys leave a
byte of the line before in the buffer and reach every case of the shell.

Fairness: the processor goes on (`kernel_main`), takes an interrupt that is pending
and let through (`irq_handler`), and the controller passes on what the keyboard holds
(`Deliver`). Nobody must type. `CHECK_DEADLOCK FALSE` is set because END halts the
machine and the number of keys is bounded.

### 6.3 Findings

* Interrupts are turned on before the keyboard's handler is registered. A key of that
  moment is acknowledged and not read, and the keyboard is dead from then on.
  (`console_dead_keyboard`)

An arrow key may move the cursor off the screen; whatever is printed then shows as one
red E, and only the opposite arrow brings the cursor back. A key between two accesses of
`kernel_main` to the cursor may have its echo written over, or leave the cursor made of
two halves. Nothing in the repository denies either; the model has both, and
`ScreenShowsLine` excludes them by `strayed`.

### 6.4 Proofs

`ConsoleProofs` proves `LineIsWhole`, `NullIsEarly`, `TypeAlwaysOK` and
`LineAlwaysShown`, for every size of buffer and screen, every keyboard, all texts and every
interleaving. For the first, the invariant
`LineInBuffer` says more than the property: the typed line is in the array, its end is
the first terminator, and no character of it is one; so it names the place that `strlen`
finds. For the second the invariant ties the number of installed functions to where
`kernel_main` is.

The other two need what `kprint` leaves on the screen, for strings of any length. It is a
recursive function over the length of what has been printed. `PrintsExist` shows that its
values exist and `kprintType`, `BlanksShow` what they are, each by looking at the shortest
string for which it were not so (`SmallestMember`, from the library's theorem that < is
well founded). `Shows` says which end of a text stands before the cursor; `PrintChar`
keeps it when it wraps and when it scrolls, `kprint_backspace` takes its last
character. `ByteType` and `SetByteType` are the arithmetic of the two registers: whichever
half is written, and from whichever offset, what they hold is a cursor they can hold.
Assumed: `ScreenAssumption`, `KeyboardAssumption` and `ConsoleAssumption`, the
types of the constants.

Only model-checked: the violation and `EnterOnTimeTaken`.

## 7. Start-up

### 7.1 `MemLayout`, `Pci`, `DynArray`, `StartUp`

`StartUp` is `kernel_main` from the memory map to the filesystem, as one sequence of
steps over the state of four parts, with the user's `ALLOC_MEM` and `FREE_MEM` between
any two of them. It extends `KernMemSafe`, so the heap is the one of section 3, block by
block.

| Model | Code |
|---|---|
| `MemLayout` | the arithmetic of `prepare_memory_manager` on 32-bit words (`kern_mem.c` 442-510) and of `mm_initialize` (22-50): where the table and the blocks go |
| `Pci` | the search for functions (`kern_pci.c` 57-125), its recursion as a stack of calls; the reads of the configuration space (127-172) |
| `DynArray` | `initArray`, `insertArray` (`dynamic_array.c` 3-32) |
| `PrepareMemory` | the loop over the map (512-538) |
| `FindHole`, `MarkBlocks`, `Gets` | `mm_allocate` cut in two: `bestFit`, and the marking of what it found |
| `GetStruct` ... `InsertDevice` | `prepare_kernel_pci`, `pciCheckFunction`, `insertArray` with its growth |
| `SelectReader` ... `InstallFat12` | `prepare_kernel_fs` with its three loads (`kern_disk.c` 5-118), `ata_read_sectors_from_disk` by its outcomes (`ata.c` 7-52), `fat12_initialize_info` |
| `AllocMem`, `FreeMem` | the two commands, each in one interrupt (`kernel.c` 73-137) |

`ram` is what the blocks hold, word by word: pointers of the list and the structs they
point to, so that one written over another shows. The addresses and sizes count words
of a pointer. The commands return to `kernel_main` where it was, also between `bestFit` and the
marking. Then the blocks found may be gone; `hasty` records that this happened. `grown`
records that the list was moved, which the code does wrongly. The properties about heap and
list are claimed while neither was so (`Quiet`); the steps after it are modelled all
the same. A loop that leaves the table, or a write through the NULL of an allocation
that found no room, ends the modelled behaviour.

Start-up does what its defects make it do:

* the offset of a byte in the configuration space loses its last bit (`kern_pci.c`
  127-137), so base class, interface and secondary bus (154-172) are in truth subclass,
  revision and primary bus. No bridge is ever followed, and the disk driver is chosen for
  subclass 1 and revision 0 of any class (`IsDiskController`);
* `headerType & 0x80 != 0` (92) looks at bit 0, not bit 7, and the test of the vendor
  with several hosts (71) is the wrong way round, so that further functions are missed and
  of several hosts at most the missing ones are searched;
* `insertArray` copies through the pointers it moves, so that after a growth the list
  starts past its elements and `mm_free` is given the end of the old ones (17-23);
* `mmEnd` (500) counts the table's share of the largest region from 0, not from the region's base.
  `Ordinary` says for which maps the layout is sound all the same;
* a read that fails after its first sector is not noticed (`ata.c` 33), and `disk.c`
  drops the results (`broken`).

The first two are not what the code says of itself: "Check for multiple functions"
(`kern_pci.c` 92), "Detect secondary busses" (120), and "No storage devices supported by
this OS were found" (`kern_disk.c` 27) for a machine whose IDE controller answers with
another revision. None of them needs an interleaving or a sequence of calls: each shows in
its line, so no run is spent on a counterexample. No property calls them wanted either.
`SearchFinds` states what a search owes whatever its tests are worth, and `ReaderOfVisited`
that the choice of the driver, made from structs in the heap, agrees with what the machine
answers to the same test. The set of functions that the search does visit is described
exactly by `VisitsSeen`, in `PciProofs`, as a fact about the code.

### 7.2 Run and bounds

| Run | Shows |
|---|---|
| `start_up` | `SearchFinds`: what is listed is there and is listed once, a further function only behind function 0, and with one host no device of bus 0 is missed; `HeapKept`: the blocks `kernel_main` is about to mark are still free, no block has two owners; `ListHolds`: the list and its structs are not written over; `ReaderOfVisited`: the driver is chosen exactly when a function visited passes the test; `CacheIsDisk`: FAT and root directory in memory are the disk's, however many tries failed; `LayoutSound`; `BootEnds` |

Six machines: a controller beside a bridge in one device, a bridge to another bus,
two hosts, nothing at 0:0:0, nothing at all, and four devices where the list has
room for three, so that it grows. The disks: a FAT12 volume, one with too many clusters,
one without a filesystem, none. Four devices on a bus and two functions in a device are enough
for each branch of the loops. Ten blocks of three words hold what start-up needs, with
room for two commands of one or three blocks (`Sizes` {1, 6}) in any place, before and
after frees. `MCLayoutMaps` are some thousand maps over a word of 256 values, with the
largest region at either end, bounds that wrap, and regions too small for a table.

Fairness: weak, of `kernel_main`, which goes on whenever no interrupt is served. Nobody
must type. `BootEnds` excludes a driver that is chosen with no disk there, whose wait for
BSY does not end. `CHECK_DEADLOCK FALSE` is set because start-up ends.

### 7.3 Proofs

`PciProofs` and `StartUpProofs` prove every property of the run but
`BootEnds`, for every layout, machine, disk and order of commands.

* `LayoutAlwaysFits`: bounds on quotients, one word at a time; `LayoutAlwaysSound` is
  the property of the run.
* `SearchVisitsSeen`: `PciInv` says that the stack has one call at most (no bridge is
  followed), that the functions before its place and no others were visited, and that
  the place rises. `SearchAlwaysFinds` follows from the same invariant, and `StartUpFinds`
  carries it over: each step of start-up is a step of the search or leaves it alone.
* `HeapIsKept`: `QuietInv` is `SafeInv` of section 3.5 with one fact more, that
  a hole that waits is still what `bestFit` would find. It holds until a command changes
  the table, and that makes the step `hasty`.
* `CacheIsOfDisk`: which buffers are whole at which place.
* `ListAlwaysHolds`, `ReaderAlwaysOfVisited`: `ListInv` keeps the extents of all grants
  of `kernel_main` apart, so that a write to the newest changes neither the list nor an
  earlier struct; `ReaderInv` follows from that and from the search.
* `StartUpTypeOK`: the one that does not need start-up to be quiet. A hole may be marked
  after a command took it, and `mm_free` be given the end of the list's old elements:
  `MarksTable` and `FreeStep` show that the table's pointers stay in the table from
  any start. The list may then be anywhere, which is why its address is any
  number, a word outside of `ram` reads as something else (`WordAt`), and `Copied` says
  what the loop does when the new list begins inside the old one. Neither of the two
  happens in the run, so TLC has not tried them.

Assumed: the named assumptions of `KernMem`, `KernMemSafe`, `MemLayout`, `Pci` and
`StartUp`.

## 8. Not modelled

* `mm_shutdown`, `mm_setAllocator` and a second `prepare_kernel_pci`, which nothing
  calls; `mm_copy` and `mm_set`, which the steps that use them contain.
* The splitting of a path, `freeArray`, and the allocations inside `fat12.c`: names are
  given as their parts, and the heap is assumed to work there. Some of its functions keep
  blocks when they return early; the heap's properties do not depend on that.
* Volumes with several sectors per cluster: the loader ignores the number (`fat12.c`
  313), the writer uses one sector of each cluster (500).
* Interrupts inside the loop that marks blocks, and commands before the memory manager
  is prepared.
* A boot sector with junk that happens to name FAT12.
* The timer (a counter nothing reads), the serial port (output without state; of the log
  the texts it prints on the screen are in `Console`), the boot loader (straight-line
  assembly whose only output is the memory map, an input here), the C runtime stubs.
