# Pickle in TLA+

Pickle is a UEFI boot application. `apps/pickle.cc` opens `\lk.elf` on the volume it was
started from, reads it into memory, places its segments at their physical addresses and jumps
to its entry point. It is written in C++ on top of gnu-efi, whose library (`lib/`, `inc/`),
start-up code (`gnuefi/`) and example programs (`apps/`) are part of the repository. This
directory holds TLA+ models of them, the TLC configurations that check them on small
instances, and proofs checked by TLAPS.

To check a run: `tlc -config MCStructures.cfg MCStructures`. To check a proof: `tlapm
ListsAndLocksProofs.tla`. `PROJECT.json` lists the components, the runs, the mutants each property
detects, the source lines of every definition, the hazards, and the theorems.

## 1. The system

There is one processor and there are no threads. What makes the code hard is this:

* **Failure.** Every firmware call may fail, and the failure path of a function has to give
  back exactly what it took. Hardly any of these paths can be reached by a test on hardware.
* **Notifications.** The firmware interrupts running code with event notifications of a higher
  task priority level (TPL). They run to their end, but they allocate memory, install, open and
  close interfaces, read keys and change variables between any two steps of the code underneath.
* **Objects that change size between two calls**: memory map, variables, handle lists.
* **Manual memory layout**: rings of pointers, device paths found by adding up lengths,
  strings built one buffer at a time, tables walked by the size of their entries.
* **Code below the compiler's guarantees**: start-up code that runs before the image is
  relocated, changes of calling convention, arithmetic in pairs of registers.

| Component | State | Operations | Works with | What makes it correct |
|---|---|---|---|---|
| `DynamicArray`, `PoolAllocator` | `_data`, `_size`; the pool | Allocate, Deallocate, Copy, Move, assignments, ctor, dtor | firmware pool | one owner per block, `_size` is true, no access outside; arrays are independent values |
| `File` | `_root`, `_file`, `_fileInfo` | Open, Read, Size, Close, dtor | file protocol, DynamicArray | no handle leaked or closed twice; Size and Read belong to the open file |
| `Elf` | `_ehdr`, `_phdr`, `_loadBaseAddr` | LoadImage | page allocator | segments in place and in own pages, `.bss` zero; a failed load holds nothing |
| `pickle.cc` | locals of pickleTest | open, read, load, jump | all of the above | control arrives at the byte `e_entry` names |
| Language support (`util/*.h`) | Optional's flag and value | assignments, conversions | | an Optional holds what was assigned last |
| FLOCK (`lock.c`, `rtlock.c`) | Tpl, OwnerTpl, Lock | Initialize, Acquire, Release | TPL services, notifications | exclusion; the TPL is restored |
| Lists (`efilink.h`), `vm.c` | Flink, Blink; runtime pointers | list macros, RtConvertList, RtLibEnableVirtualMappings | users of lists, SetVirtualAddressMap | rings stay rings and mean sequences; everything is converted once |
| Protocol installation (`hand.c`) | handle database | LibInstall / Uninstall / ReinstallProtocolInterfaces | handle database, notifications | an install is all or nothing |
| Growing reads (`misc.c`, `hand.c`, `init.c`) | buffer, size, status; BootOrder | GrowBuffer and its users | pool, variables, handles | whole object or nothing; no block lost; the loop ends |
| Events and console input (`event.c`, `console.c`, `pause.c`) | line, timer events, notify event | waits, IInput, Pause, LibCreateProtocolNotifyEvent | key queue, timers, handle database | line, screen and keys agree; timers are closed; no interface is missed |
| Device paths (`dpath.c`) | bytes of a path | append, duplicate, unpack, match, to text | pool | a path keeps its meaning and fits its block; its text follows its bytes |
| Formatted output (`va_print.h`, `print.c`, `va_print.c`) | print state, buffer, string | _Print, _SPrint, _PoolPrint, DumpHex, ... | console, pool | output is what the format says, inside the memory there is |
| Simple read files (`sread.c`) | source copy or file handle | Open, Read, Close | device paths, files, load files | holds what it needs, reads inside the file |
| Strings, command line, MBR, SMBIOS, CRC, GUIDs, SAL | static command line buffer | pure functions and walks | firmware tables | they agree with what they are for |
| Hardware access, wide arithmetic | none | ports, PCI space, 64-bit operations | device protocol | values come back; results are exact |
| Start-up (`gnuefi/`, `entry.c`, `exit.c`) | registers, stack, image | _start, _relocate, _entry, Exit | firmware, linker | the entry point runs relocated, with its arguments; the firmware gets its registers back |
| Calling conventions (`efi_stub.S`, `callwrap.c`) | registers, stack | efi_call0 to efi_call10 | every firmware call | each argument arrives, the stack is aligned |
| Example programs (`apps/`) | screen, variables, pages, a register, a resident driver | one program each | the library | they do what they say, inside their buffers, and end |
| Declarations (`inc/`) | | | | not modelled (section 8) |

The hazards, each at its line and with the properties that would show it going wrong, are in
`PROJECT.json`.

## 2. Modules

| Module | Models | Notes |
|---|---|---|
| `DynamicArray` | `dynamic_array.h`, `allocator.h` | methods are functions on a heap record, because Move is Deallocate; Allocate; Copy. A method is one action: the class is used at one TPL |
| `ArrayValues` | abstract | arrays are independent sequence-valued variables |
| `File` | `file.cc` | instantiates `DynamicArray` for `_fileInfo` and the caller's buffer; Open is one action per firmware call |
| `Elf` | `elf.cc` | one action per step of LoadImage; between two steps the firmware allocates and frees pages |
| `PickleApp` | `pickle.cc` | composes `File` (with its arrays) and `Elf`: what Read delivers is the image LoadImage gets |
| `FLock` | `lock.c`, `rtlock.c` | a stack of what is under way; RaiseTPL and the update of the FLOCK are separate steps |
| `LinkedList` | `efilink.h`, `vm.c` | one action per macro, assignments in source order |
| `ListSequences` | abstract | each macro as the operation on sequences its name says |
| `ProtocolInterfaces` | `hand.c` | one action per firmware call; notifications act whenever the TPL is low |
| `ProtocolNotify` | `event.c` | LibCreateProtocolNotifyEvent in its three firmware calls, with installations and notifications between them |
| `GrowBuffer` | `misc.c`, `hand.c`, `init.c` | the loop in two actions, what each function does with the buffer, InitializeLib before everything else |
| `ConsoleInput` | `event.c`, `console.c`, `pause.c` | a key queue with a second reader, a timer |
| `DevicePath` | `dpath.c`, `efidevp.h` | functions on memory cells; every position is found by adding up node lengths |
| `DevicePathText` | `dpath.c`, `efidevp.h` | the node structures as the compiler lays them out, and what each `_DevPath` function shows of them |
| `VaPrint` | `va_print.h`, `print.h`, `print.c`, `va_print.c` | _Print one format item at a time with its buffer; three kinds of output; numbers with their width, floats, times |
| `SimpleRead` | `sread.c`, `hand.c`, `dpath.c` | opening in one action per firmware call, over any combination of protocols; sizes wrap at `MaxUintn` |
| `Startup` | `crt0-efi-*.S`, `reloc_*.c`, `entry.c`, `exit.c`, `vm.c` | a machine with registers, stack and a program per architecture |
| `CallWrapper` | `efi_stub.S`, `efibind.h`, `tcc.c`; `hw.c` | the trampolines on registers and stack cells; ports and PCI space |
| `Arithmetic` | `arm/*.S`, `*/math.c` | 32-bit words as pairs of halves, at their real width |
| `Strings` | `str.c`, `rtstr.c`, `efirtlib.c`; `cmdline.c` | cell by cell on a memory, so that overlapping operands behave as in the code; no state between calls except the static buffer of `cmdline.c`, which is an input |
| `FirmwareTables` | `misc.c`, `smbios.c`, `salpal.c`, `crc.c`; `data.c`, `guid.c`, `error.c`, `boxdraw.c`, DumpHex of `print.c` | operators: walks over the tables of the firmware and searches in the library's own |
| `Algorithms` | `optional.h` | calls of the pure functions, and what they are compared with |
| `Graphics`, `Drv0`, `Tools` | `apps/` | one program at a time |
| `DynamicArrayProofs`, `ElfProofs` | | the theorems about the module of that name |
| `ListsAndLocksProofs` | | the theorems about `FLock` and `LinkedList`, which share no variables |
| `FileProofs`, `FilesProofs` | | `FileProofs` has the invariant of `File` and its lemmas; `FilesProofs` the theorems about `MCFiles`, that is `File` and `SimpleRead` |
| `PickleAppProofs` | | the composition, from the proofs about `File` and `Elf` |
| `HandlesProofs` | | theorems about `GrowBuffer`, `ProtocolInterfaces`, `ProtocolNotify` and `ConsoleInput`, as `MCHandles` instantiates them |
| `ProgramsProofs` | | theorems about `Startup`, `Graphics`, `Drv0` and `Tools`, as `MCPrograms` instantiates them |
| `MC*` | | instances for TLC (`PickleApp` is its own). `MCLoading` builds on `MCFiles`, `MCLibrary` on `MCConsole`, which takes its programs from `ConsolePrograms`, and on `MCAlgorithms`. Where one holds several components, `turn` says which of them this behaviour is about and the variables of the others stay as they began, or Null: a run per group, not a composition |

Definitions keep the names of the functions they model. A definition marked as a mutant stands
before the one it would replace: it is a plausible slip in that function, and shows that the
property it is paired with notices. The firmware is modelled from how the code uses it: what it
returns and when it may fail is a nondeterministic choice.

What the data is reduced to:

* File contents, pages and images are symbolic: a cell holds the file offset it came from, so
  that "the right byte at the right address" can be stated with small numbers.
* A pool block is its contents or its identity, as the module needs; sizes count elements.
* A device node is a name and a length in cells where paths are put together (`DevicePath`),
  and its real bytes where it is shown (`DevicePathText`); a text is the values it shows.
* Only where the text itself is the result does a module put it together: `VaPrint` character
  by character, because the code flushes, cuts and pads at any of them; `Strings` cell by cell,
  because operands overlap. No other property looks inside of a string.
* A format string is a sequence of items; numbers are 16 bits where the code has 64, and 8
  where it has 32. A double is a multiple of a fixed fraction. Wide arithmetic, checksums and
  GUIDs are at their real width.
* Registers hold named values: what matters is where a value went, not which number it is.

## 3. Runs

The runs `elf_two_segments`, `route80h_ich10`, `console_documented`, `device_path_*` and
`disk_regions` show a property violated where the code disagrees with what the repository says of
it (section 7). All others pass.

**structures.** The arrays, the locks and the lists, one of them in each behaviour.
*Arrays*: three arrays, three blocks, lengths 0 to 2, two values. Every
sequence of method calls. No call takes more than two arrays; the third is a bystander that has
to stay what it was. `MemorySound` excludes leaks, sharing, overruns and use after free.
`ImplementsValues` is the refinement of `ArrayValues`: no method changes an array it was not
given, and a copy or move leaves what it should, or an empty array if the pool refused.
*Locks*: three, two on one level, four levels; boot services may end. With four levels
a notification can interrupt a notification that interrupted a lock function.
`MutualExclusion` includes both ASSERTs of `rtlock.c`; `RunsAtItsLevel`.
*Lists*: two lists, three entries, every order of the macros.
`RingConsistent`; `ImplementsSequences` (refinement of `ListSequences`); `ConversionComplete`
and `ConversionEnds` for RtConvertList, which destroys the pointers it walks along.

**loading.** Reading files and loading one, one of them in each behaviour.
*Files*: a File object with two files of up to three cells that may be missing, three
handles, three blocks; and the simple read functions over a device that offers any combination
of the three protocols, with paths to the device, to files below it, to something else and to
another device, and sizes that wrap at 5. `OpenFileKnown`: the open handles are those the
object has, through re-opening and every partial failure, and Size is that of the open file.
`WholeFileRead`: the first Read after a successful Open gives the whole file.
`SimpleReadBalanced`: an opening that fails half-way leaves nothing behind, one that succeeds
holds what its handle needs. `ReadsTheFile`: a read gives the cells that were asked for.
*ELF*: memory of four pages of two cells, page 0 the firmware's, and eight files: one
segment that starts and ends inside a page and has `.bss`, the same with a note header behind
it, an entry outside all segments, a truncated file, a truncated header table, no PT_LOAD, no
ELF, no data. Two calls on one object, so that `_loadBaseAddr` of the first is there in the
second. `LoadedImage`: success means that the segment is there, in pages of this call and with
its `.bss` clear, and that the entry address is the place of the byte `e_entry` names.
`PagesAccounted`: LoadImage writes to and keeps pages of its own only, whichever step fails, and
gives back its own only, but for a failed AllocatePages (section 6).
Handles, blocks and paths are interchangeable, and no liveness is checked, so the symmetry is
sound.

**elf_two_segments.** The same property `LoadedImage` for a file with two PT_LOAD segments is
violated: see section 7.

**app.** Any prefix of a five-cell `\lk.elf`, or no file; everything may fail.
`JumpsToEntryOfFile` needs all three components to be right; `AppEnds` says that the program
always comes to its jump, or to the call through a file that is not open.

**handles.** Five groups of functions.
*Buffers*: objects of one to three elements where the first guess is two (one for the memory
map), so that the loop runs one to three times; the object changes at most twice while a
function runs, besides the changes its own allocations make to the memory map; two calls after
InitializeLib. `BuffersWhole`: the caller gets the whole object or nothing, no block is lost,
and the boot order that is written is the new option behind an order that was there.
`PartitionFound`: LibLocateHandleByDiskSignature with three handles, one of which has the
wanted node behind another one of the disk.
*Interfaces*: two handles, three protocols, lists of none to three interfaces, three calls.
`InstallAllOrNothing`: after a failed install the database is what it was. Nothing can be
removed that a driver has opened, and only the raised TPL keeps drivers from opening it.
*Paths*: nodes of one to three cells with an alignment of two, paths up to 14 cells: two
instances of several nodes, the shortest on which the offsets could go wrong in the middle.
NULL for either argument, and allocations that fail.
`MeansItsInstances`: walking the bytes gives what was put together, and so does the text; the
block is large enough; the unpacked path is the same on aligned addresses; a single path is
found among the instances; after a failure there is no path. Two constants add calls on which
the code does not do what its comments say, and are off here: `MultiAppend` (Src1 has several
instances) and `LongInstance` (an instance of several nodes is duplicated). They have runs of their
own, `device_path_instances` and `device_path_duplicate`.
*Notifications*: three interfaces, installed at any moment. `EveryInterfaceNoticed`: none is
missed by the function that LibCreateProtocolNotifyEvent registers.
*Input*: four keys, one possibly stolen, lines of one and three characters, timeouts of zero and
two. `LineAsTyped`: buffer, screen and what the keys read so far spell agree at each key, the
line is terminated, timers are closed. `TimedWaitEnds`.
`CallsReturn` is about the first two groups.

**programs.** *Start-up* of images on seven architectures, with relocations that are applied,
skipped and of an unknown type, with dynamic sections that are complete, empty or lack a tag, with
addends in the table or in place, and with constructor tables with NULLs. `EntryReached`: the
entry point gets the firmware's arguments, on an image in which every pointer is relocated once,
after the constructors, and the firmware gets its stack and registers back. *Graphics*: one or two
modes with every pixel format and with lines longer than they show, with frame buffers from less
than a line to more than the picture. `GridDrawn`: what is painted is the grid of the active mode,
and nothing is written behind the frame buffer, or behind a pixel buffer whose size fits a UINT32.
*drv0*: two drivers that are loaded and unloaded, users that open, call and close.
`DriversAnswer`: whoever is offered the protocol finds a resident driver behind it.
*Tools*: argument lists that are too short, too long or bad in one place, stores and buses with
nothing, one and several things on them. `ToolsDoWhatTheySay`: pages that are allocated and
freed are those asked for, each variable is listed once, one bit is routed and the other bits
of the register stay. `ProgramsEnd`.

**route80h_ich10.** `Ich10Routed` is violated: see section 7.

**library.** Formatted output, or one call of a pure function, in each behaviour.
*Output*: a buffer of three characters and a terminator, twelve format programs with newlines at
each place of the buffer, every flag, the largest and smallest numbers, floats, times, both kinds
of attributes; strings of 0, 1, 2 and 5 characters (a size of 0, which is to mean no limit, has
the run `console_documented` for AsciiSPrint); allocations that fail anywhere; two calls.
`ProgramShown` compares the screen with a rendering of the program that follows the table of
conversions and flags in `va_print.h`, and reads its numbers back; `StringComplete` compares the
string and accounts for the pool. The twelve programs keep clear of four cases in which the code
does not do what its comments say; `console_documented` has those.
*Functions*: every result is compared with a definition that says what the function is for and
shares nothing with the code. `ArithmeticExact`: quotient times divisor plus remainder, shifts and
products, on 13 boundary words of 32 bits and pairs of them. `StringsAndPatterns`: copies,
concatenations and comparisons on all memories of five cells, with all overlapping operands;
patterns of up to three characters of every kind, and longer ones, against a definition of
matching by splits. `ChecksumDetects`: CRC-32 against division by its polynomial, and a signed
table against a changed one. `ValuesReadBack`: ports, PCI space, hex dumps, Optional.
`TablesRead`: partition tables on disks of up to eight blocks, which are accepted only if their
regions are disjoint and on the disk, SMBIOS tables of up to three records, SAL tables, names of
GUIDs and errors. `ArgumentsSplit`: command lines of up to six characters with a buffer of six.
`TextFollowsNode`: 29 kinds of device nodes at their real layout; changing a byte of a field that
is shown in full changes the text, and nothing else does, the memory behind the node included,
with exceptions named in section 6. `ArgumentsPassed`: 0 to 10 arguments through the trampolines
of x86_64.

**console_documented.** `FormattedAsDocumented` is violated by a call of AsciiVSPrint with a size of
0, an item on the left with a width, a number that needs the sign bit and a newline that starts
a buffer: see section 7.

**disk_regions.** `RecordsApart`, a part of `TablesRead`, is violated when a later region lies
around an earlier one: see section 7.

**Bounds.** The constants commented `bound:` and `MaxLen`, `MaxCalls`, `MaxInstalls`,
`MaxChanges`, `MaxKeys`, `MaxSteals`, `MaxLoads`, `MaxCells`, `MaxHello`, `PauseLimit`; and the
widths `Bits`, `MaxUintn`, `Uint32`, `LbaBits`, `UintnBits`, chosen so small that overflow
happens. Each bound is at least one more than what the shortest interesting behaviour of the
run needs: a second call on an object with a past, a third turn of a loop, an element that is
neither first nor last.

**Deadlock** is checked in loading and programs. The other runs turn it off, because there a
program may have made its last call, no free block may be left, or all lists may have been
converted.

**Fairness** is weak fairness of the running function: `LoadStep` and `AppStep` of the boot
path, `BuffersStep`, `InterfacesStep`, `InputStep`, `ConvertLink`, `GraphicsStep`, `ToolsStep`
and the steps of `Startup`, which has no environment. Its code runs whenever no notification
runs, and notifications run to their end, so a step that stays enabled is taken. Console input
adds weak fairness of `InputExpire`: a timer that is set runs out. Nothing is assumed about the
environment's other steps: keys need not come, notifications need not happen, callers need not
call or free.

## 4. Proofs

TLAPS proves the following for every value of the constants, from the named assumptions of the
modules (null is no block, the levels are 1..MaxTpl, heads are not entries, ...). Each argument
is an inductive invariant, with a lemma per action that it is preserved.

**ListsAndLocksProofs**, locks: `MutualExclusionHolds`, `RunsAtItsLevelHolds`, `LockTypeCorrect`.
Exclusion is not inductive. Whoever is inside a lock runs at the lock's TPL (`Located`); TPLs do
not fall along the stack and rise strictly at a notification (`Ordered`); so whatever is on top of
the holder runs above the lock's TPL and may not ask for it (`LockIsFree`). After a release the
order survives only because OwnerTpl and the saved levels are those of the entry below (`Saved`).
`Unique` and `Counted` connect this with the lock word that the ASSERTs look at. Assumed is the
contract of the lock's users, as guards of the actions: a lock is taken at or below its TPL and
not twice by the same code, and locks are released in the opposite order.

**DynamicArrayProofs**: `MemorySoundHolds` and its parts `OwnershipHolds`,
`SizeMatchesBlockHolds`, `NoFaultHolds`, `TypeCorrect`. Copy trusts `_size`, so ownership,
sizes and the absence of faults are only inductive together: `Sound(h, L)`, a predicate on heap
records. As the methods are functions on heaps, there is one lemma per method, and those of
Move and the assignments are put together from Deallocate, Allocate and Copy, as the code is.
`ImplementsValuesHolds` is the refinement of `ArrayValues`: in a sound heap each method changes
the value of its own array as the abstract operation says, and no other (`Sets`), because no two
arrays share a block.

**ListsAndLocksProofs**, lists: `RingConsistentHolds`, `ListTypeCorrect`, under the assumption that
SwapListEntries is not called on neighbours that are already in the wanted order
(`~AdjacentSwap`; see section 7). The invariant needs the types, in particular that no pointer
of a list is uninitialised. Each macro's lemma states the new pointers as a case distinction
over the old ones, aliasing included.
`ImplementsSequencesHolds` (for finitely many nodes, `FiniteAssumption`) rests on
`Represents(f, lv, ln, s)`: the Flinks f run along the sequences s, no entry is in two places,
and the linked entries are those in some sequence. Two lemmas about it carry all macros: a Flink
changed in one place takes an entry out (`RemoveRepresents`), two put one in
(`InsertRepresents`); SwapListEntries is one after the other. `Chain`, which is defined by
recursion, finds the sequence that is represented (`ChainFollows`): the equation of the walk has
a solution, and two solutions first differ nowhere; both arguments use the least element of a
set of numbers in place of an induction rule. `ConversionCompleteHolds` adds how far the walk of
RtConvertList has come: the elements before Link are converted, those from Link on are not, and
every other list is converted or untouched.

**ElfProofs**: `ElfInvariant`, `PagesAccountedHolds`, `LoadedImageHolds`. Which pages a call
holds is a function of where it is (`Accounted`): none before AllocatePages, those of the
page-aligned extent after it (`Holding`), and on the failure path one of three cases
(`Failing`), which is where the code's test of `_loadBaseAddr` has to be right. The arithmetic
of pages is in lemmas of its own; that the CHOOSE of `Extent` picks something is the
well-ordering of the numbers. `LoadedImageHolds` adds what memory holds at iteration i of the
copy loop (`Content`), and that the segment FindEntry looks for is the one that was placed
(`FindEntryPlaces`). Assumed (`ImagesAssumption`) is what the ELF format demands and LoadImage
does not test: segments lie in the address space and are not longer in the file than in memory;
and that the bytes the copy loop takes for headers behind the table are not PT_LOAD.
`LoadedImageHolds` has the hypothesis `OnlyFirstLoads`: only the first program header of a file
is PT_LOAD. This is not for convenience: for other files the property is false (section 7).

**FileProofs** and **FilesProofs**: `OpenFileKnownHolds`, `WholeFileReadHolds`. That Size() is
the size of the file open now needs to know what `_fileInfo` holds at each firmware call of Open
(`InfoShape`), and that it survives every call on the caller's buffer in the same pool: `FInv`
contains `Sound` of the two arrays, and the lemmas of DynamicArrayProofs are used through an
INSTANCE. `SimpleReadBalancedHolds`, `ReadsTheFileHolds`: the invariant `RInv` says at each
step of OpenSimpleReadFile which handles and blocks there are and that the node walk has
followed the path so far; `SimpleReadAssumption` says that paths and sizes have their types and
`Null` is none of the objects a pointer may point at.

**PickleAppProofs**: `JumpsToEntryOfFileHolds`, and the invariant `AppInvariant` of the
composition. Each step of pickleTest is a step of File or of Elf and leaves the other alone, so
`FInv` and `IInv` carry over (`FP` and `LP` are the two proof modules about this program's
variables). `AppInv` adds what passes between them: after a successful Open the position is 0
and the first Read delivers the whole file; these bytes are the image LoadImage works on; the
segment was copied from inside them (`FirstInside`); and what has been placed stays until the
jump, because the firmware takes no page that is held (`Placed`). `OnlyFirstLoads` is again a
hypothesis, about `\lk.elf`.

**HandlesProofs**: `EveryInterfaceNoticedHolds`, for any set of interfaces and any
moments at which they are installed. That nothing is missed after the return says nothing of
the steps before it. The invariant adds what each step leaves: the event is registered exactly
while it is about to be signalled or has been returned, and nothing is noticed earlier.
`InstallAllOrNothingHolds`, for any handles, protocols and lists of interfaces
(`InterfacesAssumption`: `None` is neither an interface nor a handle, and an argument list names
protocols and interfaces): while the TPL is raised the database is the one before the call plus
the interfaces up to the present index, and none of these is open, so that the rollback cannot
be refused.
`BuffersWholeHolds`, for any objects, changes and failures (`BuffersAssumption`: null is no
block, objects list handles, and `MaxLen` leaves room for one insertion by each call). `GInv` has
four parts besides the property. `Reading` is what the loop knows: the object as it is now was
seen, a call is made with the size the buffer was allocated with, and after a success the buffer
holds a seen value. `Holding` says which pointers are null where, so that the language kept by
InitializeLib and a reader's buffer are never the same block, and nothing is both returned and
dropped. `Room` bounds the boot order by the number of calls, and `Typed` has the types.

`PartitionFoundHolds`, for any handles and device paths: `Scanned` says of each handle of the
list whether the loop has come to it, and if so that the list has it or null as its path says,
unless the handle was gone at that moment. What is returned is compared as a whole, so there is
a lemma that taking out the nulls, and then the handles that went away, is taking out the handles
that went away and those that do not match (`WithoutBoth`). It goes through the prefixes of the
list; the least prefix for which it fails stands in for an induction rule.
`LineAsTypedHolds`, for lines of any length, any keys and any other reader (`ConsoleAssumption`:
Enter and Backspace are different and no characters; a buffer has room for the terminating 0).
What the keys spell is defined by recursion over them, and the step of the proof is its equation
for one more key (`EditedAppend`). `CInv` adds that the string is terminated where `end` says and
that a timer is open only inside a wait.

**ProgramsProofs**: `EntryReachedHolds`, `GridDrawnHolds`, `DriversAnswerHolds`,
`ToolsDoWhatTheySayHolds`. The grid: two toggles, one per box and one per band, give the colour of
a pixel; that they are the parity of its box (`ColourIsGrid`) is arithmetic of quotients. The
UINT32 expressions that index the buffer do not wrap in a mode whose size fits
(`InsideDoesNotWrap`), no two pixels share a place in it (`OnePlaceEach`), so after the loop each
place holds its pixel's colour (`FilledWithGrid`). `GInv` carries this through the steps: what the
buffer holds before it is shown, and which buffer is held where. The size of the frame buffer is
any number: what is copied is the smaller of the two sizes, and the part of the grid that has room
is shown. Assumed (`GraphicsAssumption`) is that sizes are UINT32 and that a line of the frame
buffer holds at least what it shows. drv0: an answer stays true only because drv0_use asks nobody
twice. `DInv` adds that the handles before it and those it has asked are different, and of images
that have been started and so do not start again with a fresh counter (`DriversAssumption`:
finitely many images). Tools: `TInv` has, for each program that takes several steps, what it has
done so far: printenv has shown the variables up to the one it is at, and all of their names fit.
The programs that take one step are compared with memory, variables and register as they were
(`ToolsAssumption`: arguments are numbers; variables and bridges have their types). Start-up, on
any image, at any load address: one lemma per kind of instruction (`DoPush`, `DoPop`, ...) and one
invariant per architecture (`X86`, `IA32`, ... `Mips64el`) with what is in which register and
stack slot before each instruction. Those of riscv64 and mips64el also follow the path of a failed
relocation, which goes back through the code until control is lost; that is why they are
invariants and not one straight run. The relocator's loop is a recursive function over its table:
after n entries exactly the cells of the first n are done (`PatchedStep`, `LoopPatches`), so at
the end each relative cell has been moved once (`RelocateIs`), or, when the table's entry size is
missing on mips64el, the loop does not end. `SInv` adds what was true when _entry was called, the
functions called and still to call, which together are always the whole list (`FInv`), and that no
pointer is converted twice (`PInv`). Assumed (`StartupAssumption`) is what the linker is asked
for: a relative entry has a cell of its own, outside of the global offset table, and the addend
the cell was linked for; other cells hold what they were linked for; the sizes in the dynamic
section are those of the table and of the global offset table.

**Only model-checked**: liveness under fairness (`CallsReturn`, `TimedWaitEnds`, `AppEnds`,
`ConversionEnds`, `ProgramsEnd`), which the prover cannot do; the properties
of `Algorithms`, because the modules it calls are written with RECURSIVE operators; and
`MeansItsInstances`, `ProgramShown` and `StringComplete`, whose references are recursive walks
over paths, formats and digits.

## 5. Plan

Done: the boot path (`DynamicArray`, `File`, `Elf`, `PickleApp`), locks and lists; the library's
stateful functions; simple reads, start-up, calling conventions, arithmetic, strings, tables
and text; the example programs.

Left, in this order:

1. Proofs: `MeansItsInstances` of `DevicePath`. Its walks are recursive functions that go on
   behind the node they are at; before anything can be proved about one it has to be shown to
   exist, for which it has to say what it gives when a node leads out of the block.
2. The register save areas of each architecture's setjmp, with `Startup`'s machine.
3. The start-up of ia64, whose function pointers are descriptors.

## 6. What the properties leave open

Some properties except a case, because the code behaves differently there and nothing in the
repository says otherwise. The models contain these behaviours.

* `PagesAccounted`, and with it the theorem: after AllocatePages itself failed (EFI_NOT_FOUND),
  LoadImage frees the pages it asked for although it has none (`_loadBaseAddr` is already set),
  whoever holds them.
* `JumpsToEntryOfFile` speaks only of runs in which each step succeeded: the program goes on
  after every failure, reads through a file that is not open, or jumps to an address that
  was never set.
* `ImplementsValues`: a Move from another array whose allocation fails leaves both arrays empty;
  the move assignment copies only what fits into the room the destination has.
* `PartitionFound`: of a handle that disappears during the search the function uses the device
  path of the handle before, or an uninitialised pointer.
* `BuffersWhole`: LibInsertToTailOfBootOrder drops the old array when the new one cannot be
  allocated; a failed read is taken for an empty order, and a change between read and write is
  overwritten.
* `EveryInterfaceNoticed` is about interfaces: the event stays open when its registration is
  refused.
* `StringComplete`: in the string functions %N, %H and %E set the attribute 0, which counts
  as none, and swallow the next character; a string of one character gets no terminating 0.
* `TimedWaitEnds` is about one wait. WaitForEventWithTimeout as a whole never counts its
  Timeout down, and ends only with a key or when Timeout is 0.
* `MeansItsInstances`: LibMatchDevicePaths also accepts a path that only begins like an
  instance; the writes to address 0 after a failed allocation (section 7) are not in the model.
* `ReadsTheFile`: an offset and a size whose sum wraps pass the test against the size of the
  file, and are read outside of it.
* `EntryReached`: x86_64 runs the program also after a failed relocation; riscv64 and mips64el
  lose control then; on loongarch64 the addends have to be in the cells. x86_64 does not keep
  rdi and rsi, ia32 not ebx.
* `GridDrawn`: for modes whose size does not fit into 32 bits the pixel buffer is too small for
  the loop that fills it. lfbgrid keeps its buffer when it ends.
* The graphics programs leave the watchdog running when there is no graphics output; no property
  is about the watchdog.
* `DriversAnswer`: a driver whose uninstall is refused is unloaded although its protocol is
  still there.
* `ArithmeticExact`: the 64-bit division of ia32 loses a bit for divisors above 2^31, which its
  comment excludes.
* `StringsAndPatterns`: memcpy is not claimed to copy upwards into its own source, as the
  library's own `CopyMem` does; the string functions are compared for areas that are apart.
* `ArgumentsSplit`: options without a terminator get the rest of an earlier command line.
* `TablesRead`: LibGetUiString never returns if the first entry has another language. Disks with
  regions whose last block wraps around are not among those of the run.
* `TextFollowsNode`: the text of a node of an unknown kind shows four bytes of the next node;
  that of a long IPv6 node shows the address of its prefix length, and so depends on the pool
  block; a text without a terminator runs on, and MAC addresses other than Ethernet's are shown
  with the rounded length.
* `ValuesReadBack` is about the bytes an access is wide. A narrow read leaves the upper bytes of
  its result to chance, and a 64-bit read of PCI space writes behind its variable; the model has
  both, the property asks for neither. It says nothing of Optional's operator bool.

## 7. Disagreements

`elf_two_segments`: the copy loop of LoadImage (`elf.cc:163`) computes the address of the i-th
program header as `_phdr + i * e_phentsize` on a pointer to program headers, which scales
twice; the other two loops cast to bytes first. Every PT_LOAD segment but a first header's is
left zero, while LoadImage reports `LK.elf Loaded` and returns EFI_SUCCESS.

`route80h_ich10`: `route80h.c:4` says that the program changes a register of the ICH10. Its
search goes on after a device was found (`route80h.c:111`), and the status of the last search
decides: on a machine with only an ICH10 it reports "Device not found."

`console_documented` has one call that shows four; the last state of its trace has them all. The
flag `-` is "justify on left" (`va_print.h:258`), but the padding to the width is written before the
item (`va_print.h:224`) with or without it: the text is `  a` and not `a  `. `u` is "value as
unsigned decimal" (`va_print.h:271`), but ValueToString takes an INT64 (`print.c:632`): it is
`-32768` and not `32768`. "if this is a newline, add a carriage return" (`va_print.h:166`), but
right after a flush the character before it is looked for in front of the buffer
(`va_print.h:167`): if a carriage return is found there, the newline goes without. And "A size of
0 means there is no limit" (`va_print.c:190`, `print.c:312`), but the block for the text is
allocated with that size (`va_print.c:207`), and UnicodeVSPrint writes behind it: the text has
room for 0 characters (`cap`).

`device_path_instances`: AppendDevicePath is to append Src2 "to each instance" of Src1
(`dpath.c:129`), and AppendDevicePathNode a node (`dpath.c:202`). An End stays behind each instance
(`dpath.c:181`), and the size has Src2 only once (`dpath.c:166`).

`device_path_duplicate`: LibDuplicateDevicePathInstance is to "set proper end type"
(`dpath.c:1248`). The End goes behind the first node (`dpath.c:1257`).

`disk_regions`: "Non of the regions overlapped so MBR is O.K." (`misc.c:496`). A later region around
an earlier one passes the two tests (`misc.c:479` and `:487`).

One more is in a model behind a constant that all runs leave off, `AdjacentSwap`: SwapListEntries
loses an entry when Entry2 is right before Entry1; nothing in the repository calls the macro or
says what it does with neighbours.

Other observations, where nothing in the repository says what was meant:

* The only test of the allocation in AppendDevicePathInstance is `ASSERT(DevPath)` (`dpath.c:415`),
  which is empty in a build without EFI_DEBUG: both paths are then written to address 0, and 0 is
  returned. The model has the failure and the result; the memory at 0 is not in it, so that
  `MeansItsInstances` says nothing of these writes.
* LibReinstallProtocolInterfaces passes the firmware the address of the caller's handle variable
  instead of the handle; the firmware refuses, so the function never replaces anything.
* %p sets its width by an expression that is always 0 (`va_print.h:454`), and a float between
  -1 and 0 is printed without its sign.
* Optional's operator bool gives TRUE when there is no value, and Result cannot be instantiated.
* unsetdbg does not undo setdbg: the one sets GRUB_ENV, the other deletes SHIM_DEBUG. tcc fails
  with EFI_LOAD_ERROR in a build without HAVE_USE_MS_ABI.

## 8. Not modelled

* The register save areas of setjmp, and the start-up of ia64 (section 5).
* Declarations of firmware interfaces, PE and PXE structures (`inc/`): there is no code in them.
  What the modelled code uses of them is in the modules, as a layout or as the environment.
* Header-only types of Pickle that nothing in the repository can instantiate (Result) or that
  have no state (utility, type_traits).
* The programs t to t8 and the fixtures for constructors, which print or wait once.
* Assignments of global pointers in InitializeLib, DEBUG output, Output, the wrappers around
  single firmware calls, and constants that nothing looks up.
