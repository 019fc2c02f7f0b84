-------------------------------- MODULE File --------------------------------
(***************************************************************************)
(* Pickle::util::File (lib/pickle/util/file.cc): one File object, the      *)
(* caller's buffer it reads into, and the firmware's file system.          *)
(*                                                                         *)
(* The firmware hands out handles; open is the set it considers open.  The *)
(* cell at offset k of a file is <<path, k>>; its EFI_FILE_INFO is one     *)
(* cell, <<path, InfoCell>>, which stands for the file's size.  _fileInfo  *)
(* and the caller's buffer are two DynamicArrays over the same pool.       *)
(*                                                                         *)
(* Open is a sequence of firmware calls, each of which can fail, so it is  *)
(* modelled call by call (fpc).  _loadedImage and _fsp live only inside    *)
(* OpenRoot; _fileBuf is never assigned, so Close never frees it.          *)
(***************************************************************************)
EXTENDS Naturals, Sequences

CONSTANTS
  Paths,      \* file names
  Handles,    \* EFI_FILE_PROTOCOL instances the firmware can hand out
  Blocks,     \* pool blocks
  MaxLen,     \* bound: longest file
  Null, Freed, Junk

VARIABLES
  disk,       \* disk[p]: the file's length, or Missing
  open,       \* handles the firmware considers open
  path, pos,  \* what the file handle was opened for, and its position
  root, file, \* File::_root, File::_file
  arr, mem, faults,   \* the two arrays and the pool: see DynamicArray
  fpc,        \* where Open is
  req,        \* Open's Path argument
  fstatus,    \* EFI_STATUS of the last call of Open or Read
  readSize,   \* ReadSize as the last Read left it
  opened      \* history: Open has succeeded for req and Close has not been called

heapVars == <<arr, mem, faults>>
fwVars   == <<disk, open, path, pos>>
fvars    == <<fwVars, root, file, heapVars, fpc, req, fstatus, readSize, opened>>

InfoArray == "_fileInfo"
OutBuffer == "OutBuffer"
Missing   == MaxLen + 1
InfoCell  == MaxLen
Cells     == Paths \X (0..MaxLen)

ASSUME FileAssumption ==
  /\ MaxLen \in Nat \ {0}
  /\ Null \notin Blocks \union Handles
  /\ Junk \notin Cells
  /\ Freed \notin Seq(Cells \union {Junk})

A == INSTANCE DynamicArray WITH
       Arrays <- {InfoArray, OutBuffer}, Vals <- Cells,
       live <- {InfoArray, OutBuffer}, status <- fstatus

\* The values File::Size may return: 0 without _fileInfo, the size in the
\* information otherwise, and anything when that was never filled in.
Size ==
  IF arr[InfoArray].data = Null THEN {0}
  ELSE LET info == mem[arr[InfoArray].data][1]
       IN  IF info = Junk THEN 0..MaxLen ELSE {disk[info[1]]}

-----------------------------------------------------------------------------
(* Open. *)

Return(s) == fstatus' = s /\ fpc' = "idle"

CallOpen(p) ==
  /\ fpc = "idle"
  /\ req' = p
  /\ opened' = FALSE
  /\ fpc' = IF root = Null THEN "root" ELSE "open"
  /\ UNCHANGED <<fwVars, root, file, heapVars, fstatus, readSize>>

\* OpenRoot: HandleProtocol twice and OpenVolume; any of them can fail.
OpenRoot ==
  /\ fpc = "root"
  /\ \/ Return("EFI_ERROR") /\ UNCHANGED <<open, root>>
     \/ \E r \in Handles \ open :
          /\ root' = r
          /\ open' = open \union {r}
          /\ fpc' = "open" /\ UNCHANGED fstatus
  /\ UNCHANGED <<disk, path, pos, file, heapVars, req, readSize, opened>>

\* Mutant: the file that is open is forgotten instead of closed.
OpenFileForgets ==
  /\ fpc = "open"
  /\ \/ /\ file' = Null
        /\ Return("EFI_ERROR") /\ UNCHANGED <<disk, open, path, pos>>
     \/ \E f \in Handles \ open :
          /\ file' = f
          /\ open' = open \union {f}
          /\ path' = req /\ pos' = 0
          /\ disk' = [disk EXCEPT ![req] = IF @ = Missing THEN 0 ELSE @]
          /\ fpc' = "info" /\ UNCHANGED fstatus
  /\ UNCHANGED <<root, heapVars, req, readSize, opened>>

\* The file that is open is closed, then the new one is opened.  The default
\* mode has EFI_FILE_MODE_CREATE, so a missing file is created empty.
OpenFile ==
  /\ fpc = "open"
  /\ \/ /\ file' = Null
        /\ open' = open \ {file}
        /\ Return("EFI_ERROR") /\ UNCHANGED <<disk, path, pos>>
     \/ \E f \in Handles \ (open \ {file}) :
          /\ file' = f
          /\ open' = (open \ {file}) \union {f}
          /\ path' = req /\ pos' = 0
          /\ disk' = [disk EXCEPT ![req] = IF @ = Missing THEN 0 ELSE @]
          /\ fpc' = "info" /\ UNCHANGED fstatus
  /\ UNCHANGED <<root, heapVars, req, readSize, opened>>

\* GetFileInfo up to its allocation.
GetInfoSize ==
  /\ fpc = "info"
  /\ \/ Return("EFI_ERROR") /\ UNCHANGED heapVars
     \/ \E h \in A!Allocate(A!Heap, InfoArray, 1) :
          /\ A!Becomes(h)
          /\ \/ h.arr[InfoArray].data = Null /\ Return("EFI_ERROR")
             \/ h.arr[InfoArray].data # Null /\ fpc' = "fill" /\ UNCHANGED fstatus
  /\ UNCHANGED <<fwVars, root, file, req, readSize, opened>>

\* The second GetInfo; when it fails the new _fileInfo stays as it is.
GetInfo ==
  /\ fpc = "fill"
  /\ \/ Return("EFI_ERROR") /\ UNCHANGED <<heapVars, opened>>
     \/ /\ A!Becomes(A!Copy(A!Heap, InfoArray, <<<<path, InfoCell>>>>, 1))
        /\ Return("EFI_SUCCESS") /\ opened' = TRUE
  /\ UNCHANGED <<fwVars, root, file, req, readSize>>

-----------------------------------------------------------------------------
(* Close, Read and the destructor. *)

CloseHandles ==
  /\ open' = open \ {file, root}
  /\ file' = Null
  /\ root' = Null
  /\ opened' = FALSE

Close ==
  /\ fpc = "idle"
  /\ CloseHandles
  /\ UNCHANGED <<disk, path, pos, heapVars, fpc, req, fstatus, readSize>>

\* ~File followed by the constructor of the next File object.
Destroy ==
  /\ fpc = "idle"
  /\ CloseHandles
  /\ A!Becomes(A!Deallocate(A!Heap, InfoArray))
  /\ UNCHANGED <<disk, path, pos, fpc, req, fstatus, readSize>>

\* How much of the file is left behind the position of the open file.
Left == disk[path] - pos

\* What EFI_FILE_PROTOCOL.Read puts into a buffer of n cells.
Delivered(n) ==
  [k \in 1..(IF n < Left THEN n ELSE Left) |-> <<path, pos + k - 1>>]

\* Mutant: a buffer that is there already is used as it is.
ReadReusesBuffer(n) ==
  /\ fpc = "idle" /\ file # Null
  /\ \E h \in IF arr[OutBuffer].data # Null THEN {A!Heap}
               ELSE A!Allocate(A!Heap, OutBuffer, n) :
       /\ h.arr[OutBuffer].data # Null
       /\ A!Becomes(A!Copy(h, OutBuffer, Delivered(n), Len(Delivered(n))))
  /\ readSize' = Len(Delivered(n))
  /\ pos' = pos + Len(Delivered(n))
  /\ Return("EFI_SUCCESS")
  /\ UNCHANGED <<disk, open, path, root, file, req, opened>>

\* Read(OutBuffer, ReadSize).  The caller has a file open.
Read(n) ==
  /\ fpc = "idle" /\ file # Null
  /\ \E h \in A!Allocate(A!Heap, OutBuffer, n) :
       \/ /\ A!Becomes(h)
          /\ readSize' = n
          /\ Return("EFI_ERROR") /\ UNCHANGED pos
       \/ /\ h.arr[OutBuffer].data # Null
          /\ A!Becomes(A!Copy(h, OutBuffer, Delivered(n), Len(Delivered(n))))
          /\ readSize' = Len(Delivered(n))
          /\ pos' = pos + Len(Delivered(n))
          /\ Return("EFI_SUCCESS")
  /\ UNCHANGED <<disk, open, path, root, file, req, opened>>

\* Read(OutBuffer) reads Size() cells and drops ReadSize.
ReadAll == \E n \in Size : Read(n)

OpenStep == OpenRoot \/ OpenFile \/ GetInfoSize \/ GetInfo

Init ==
  /\ disk \in [Paths -> 0..(MaxLen - 1) \union {Missing}]
  /\ open = {}
  /\ path \in Paths /\ pos = 0
  /\ root = Null /\ file = Null
  /\ arr = [a \in {InfoArray, OutBuffer} |-> A!Empty]
  /\ mem = [b \in Blocks |-> Freed]
  /\ faults = {}
  /\ fpc = "idle"
  /\ req = path
  /\ fstatus = "EFI_SUCCESS"
  /\ readSize = 0
  /\ opened = FALSE
Next ==
  \/ \E p \in Paths : CallOpen(p)
  \/ OpenStep \/ Close \/ Destroy \/ ReadAll
  \/ \E n \in 0..MaxLen : Read(n)

Spec == Init /\ [][Next]_fvars

-----------------------------------------------------------------------------
(* Properties. *)

TypeOK ==
  /\ disk \in [Paths -> 0..Missing]
  /\ open \subseteq Handles
  /\ path \in Paths /\ pos \in 0..MaxLen
  /\ {root, file} \subseteq Handles \union {Null}
  /\ fpc \in {"idle", "root", "open", "info", "fill"}
  /\ req \in Paths
  /\ fstatus \in {"EFI_SUCCESS", "EFI_ERROR"}
  /\ readSize \in 0..MaxLen
  /\ opened \in BOOLEAN

\* Between and inside calls the firmware's open handles are exactly the ones
\* the object holds: re-opening, failing half way and closing leak no handle
\* and close none twice.  The same goes for the pool blocks of the two arrays.
ResourcesBalanced ==
  /\ TypeOK
  /\ open = {root, file} \ {Null}
  /\ root = file => root = Null
  /\ A!Ownership /\ A!SizeMatchesBlock /\ A!NoFault

\* After a successful Open, Size() is the size of the file that is open now,
\* not of one opened before.
SizeOfOpenFile ==
  opened => file # Null /\ path = req /\ Size = {disk[req]}

\* The first Read(OutBuffer) after a successful Open, when it succeeds, leaves
\* the whole file in the buffer and nothing else.
WholeFileRead ==
  [][pos = 0 /\ opened /\ ReadAll /\ fstatus' = "EFI_SUCCESS"
       => A!Contents(OutBuffer)' = [k \in 1..disk[req] |-> <<req, k - 1>>]]_fvars

=============================================================================
