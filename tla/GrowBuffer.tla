----------------------------- MODULE GrowBuffer -----------------------------
(***************************************************************************)
(* GrowBuffer of lib/misc.c and the functions of lib/misc.c and lib/hand.c *)
(* that read a firmware object of unknown size with it: LibMemoryMap,      *)
(* LibGetVariableAndSize, LibLocateHandle, LibFileInfo and its siblings;   *)
(* LibDeleteVariable and LibInsertToTailOfBootOrder, which read a variable *)
(* in order to change it; and LibLocateProtocol,                           *)
(* LibLocateHandleByDiskSignature and InitializeLib (lib/init.c), which    *)
(* look through the handles they read.                                     *)
(*                                                                         *)
(* The object an interface returns is a sequence; an empty one does not    *)
(* exist.  It may change between two calls: notifications and other        *)
(* drivers change it, and each allocation changes the memory map.  Sizes   *)
(* count elements.  Every AllocatePool and every firmware call may fail.   *)
(***************************************************************************)
EXTENDS Naturals, Sequences, FiniteSets, Functions

CONSTANTS
  Values,       \* the sequences an object may have
  Options,      \* boot option numbers
  PathOf,       \* of each handle the nodes of its device path; none is <<>>
  Collating,    \* handles of drivers that know the language
  GuessedSize,  \* the first BufferSize, except for the memory map
  Blocks,       \* bound: pool blocks
  Null,         \* the null pointer
  MaxLen,       \* the longest object: those of Values, and MaxCalls insertions
  MaxCalls,     \* bound: calls
  MaxChanges    \* bound: changes by others

VARIABLES
  bootOrder,    \* the variable
  other,        \* the memory map, the handles of a protocol or the file information
  pool,         \* allocated blocks
  pc, fn,       \* where the running function is, and which it is
  api,          \* the interface it reads
  option,       \* BootOption
  status,
  buffer,       \* *Buffer
  bufferSize,   \* BufferSize
  blockSize,    \* the size *Buffer was allocated with
  content,      \* what *Buffer holds
  newArray,     \* NewBootOptionArray; LangCode of InitializeLib
  scan,         \* the loop of LibLocateHandleByDiskSignature over the handles
  initialized,  \* LibInitialized
  collation,    \* UnicodeInterface: a driver's handle, or Null for the library's own
  given,        \* buffers returned to callers
  dropped,      \* history: blocks nobody has a pointer to any more
  seen,         \* history: values of the object while the function runs
  calls, changes

fw == <<bootOrder, other, changes>>
loop == <<status, buffer, bufferSize, blockSize, content>>
request == <<fn, api, option, calls>>
search == <<scan, initialized, collation>>
vars == <<bootOrder, other, pool, pc, fn, api, option, status, buffer, bufferSize, blockSize, content,
          newArray, scan, initialized, collation, given, dropped, seen, calls, changes>>

NoScan == [index |-> 1, devicePath |-> Null, list |-> <<>>, gone |-> {}]

IsError(s) == s # "EFI_SUCCESS"
Errors == {"EFI_NOT_FOUND", "EFI_BUFFER_TOO_SMALL", "EFI_OUT_OF_RESOURCES", "EFI_DEVICE_ERROR"}

\* What AllocatePool may return, when the blocks of F were freed before.
Allocations(F) ==
  LET free == (Blocks \ pool) \union (F \ {Null})
  IN  {Null} \union IF free = {} THEN {} ELSE {CHOOSE b \in free : TRUE}

\* The object the running function reads.
obj == IF api = "GetVariable" THEN bootOrder ELSE other

-----------------------------------------------------------------------------
(* The firmware. *)

\* Others change the object while the function runs.
Change(v) ==
  /\ changes < MaxChanges /\ pc # "idle"
  /\ api = "GetMemoryMap" => v # <<>>
  /\ IF api = "GetVariable" THEN bootOrder' = v /\ UNCHANGED other
                            ELSE other' = v /\ UNCHANGED bootOrder
  /\ changes' = changes + 1
  /\ seen' = seen \union {v}
  /\ UNCHANGED <<pool, pc, request, loop, newArray, search, given, dropped>>

\* An allocation may change the memory map.
MapMayChange(b) ==
  IF api = "GetMemoryMap" /\ b # Null THEN other' \in Values ELSE UNCHANGED other

-----------------------------------------------------------------------------
(* The read loop. *)

\* Function f starts reading interface i, at most `size' elements at first.
Start(f, i, size, o) ==
  /\ pc = "idle" /\ initialized /\ calls < MaxCalls
  /\ calls' = calls + 1
  /\ fn' = f /\ api' = i /\ option' = o
  /\ status' = "EFI_SUCCESS" /\ buffer' = Null
  /\ bufferSize' = size /\ blockSize' = 0 /\ content' = <<>>
  /\ IF i = "GetVariable" THEN UNCHANGED other
     ELSE other' \in Values \union IF i = "GetMemoryMap" THEN {} ELSE {<<>>}
  /\ UNCHANGED bootOrder
  /\ seen' = {obj'}
  /\ pc' = "grow"
  /\ UNCHANGED <<changes, pool, newArray, search, given, dropped>>

LibMemoryMap == Start("LibMemoryMap", "GetMemoryMap", 1, option)
LibLocateHandle == Start("LibLocateHandle", "LocateHandle", GuessedSize, option)
\* also LibFileSystemInfo and LibFileSystemVolumeLabelInfo
LibFileInfo == Start("LibFileInfo", "GetInfo", GuessedSize, option)
LibGetVariableAndSize == Start("LibGetVariableAndSize", "GetVariable", GuessedSize, option)
LibDeleteVariable == Start("LibDeleteVariable", "GetVariable", GuessedSize, option)
LibInsertToTailOfBootOrder(o, onlyInsertIfEmpty) ==
  Start(IF onlyInsertIfEmpty THEN "OnlyInsertIfEmpty" ELSE "LibInsertToTailOfBootOrder",
        "GetVariable", GuessedSize, o)
LibLocateProtocol == Start("LibLocateProtocol", "LocateHandle", GuessedSize, option)
LibLocateHandleByDiskSignature ==
  Start("LibLocateHandleByDiskSignature", "LocateHandle", GuessedSize, option)
\* Only its first call does anything, and before it nothing else can be called.
\* For an image it reads the language, a variable of its own.
InitializeLib(imageHandle) ==
  /\ ~initialized /\ initialized' = TRUE
  /\ \/ /\ ~imageHandle
        /\ UNCHANGED <<pc, request, other, seen, bufferSize>>
     \/ /\ imageHandle
        /\ pc' = "grow" /\ fn' = "InitializeLib" /\ api' = "GetLanguage"
        /\ bufferSize' = GuessedSize
        /\ other' \in Values \union {<<>>} /\ seen' = {other'}
        /\ UNCHANGED <<option, calls>>
  /\ UNCHANGED <<bootOrder, changes, pool, status, buffer, blockSize, content, newArray, scan, collation,
                 given, dropped>>

\* Mutant: the old buffer is kept when a larger one is needed.
GrowBufferKeeps ==
  /\ pc = "grow" /\ UNCHANGED <<bootOrder, request>>
  /\ \/ /\ buffer = Null \/ status = "EFI_BUFFER_TOO_SMALL"
        /\ \E b \in Allocations({}) :
             /\ pool' = pool \union ({b} \ {Null})
             /\ buffer' = b
             /\ MapMayChange(b)
             /\ status' = IF b = Null THEN "EFI_OUT_OF_RESOURCES" ELSE "EFI_BUFFER_TOO_SMALL"
             /\ pc' = IF b = Null THEN "finish" ELSE "call"
        /\ blockSize' = bufferSize /\ content' = <<>>
        /\ seen' = seen \union {obj'}
     \/ /\ buffer # Null /\ status # "EFI_BUFFER_TOO_SMALL"
        /\ pool' = IF IsError(status) THEN pool \ {buffer} ELSE pool
        /\ buffer' = IF IsError(status) THEN Null ELSE buffer
        /\ pc' = "finish"
        /\ UNCHANGED <<other, status, blockSize, content, seen>>
  /\ UNCHANGED <<bufferSize, newArray, search, given, dropped, changes>>

\* GrowBuffer: allocate the size needed and try the call (again), or stop, and
\* free the buffer on an error.
GrowBuffer ==
  /\ pc = "grow" /\ UNCHANGED <<bootOrder, request>>
  /\ \/ /\ buffer = Null \/ status = "EFI_BUFFER_TOO_SMALL"
        /\ \E b \in Allocations({buffer}) :
             /\ pool' = (pool \ {buffer}) \union ({b} \ {Null})
             /\ buffer' = b
             /\ MapMayChange(b)
             /\ status' = IF b = Null THEN "EFI_OUT_OF_RESOURCES" ELSE "EFI_BUFFER_TOO_SMALL"
             /\ pc' = IF b = Null THEN "finish" ELSE "call"
        /\ blockSize' = bufferSize /\ content' = <<>>
        /\ seen' = seen \union {obj'}
     \/ /\ buffer # Null /\ status # "EFI_BUFFER_TOO_SMALL"
        /\ pool' = IF IsError(status) THEN pool \ {buffer} ELSE pool
        /\ buffer' = IF IsError(status) THEN Null ELSE buffer
        /\ pc' = "finish"
        /\ UNCHANGED <<other, status, blockSize, content, seen>>
  /\ UNCHANGED <<bufferSize, newArray, search, given, dropped, changes>>

\* The call of the loop's body: the firmware fills the buffer or says what
\* size it needs.
CallInterface ==
  /\ pc = "call"
  /\ \/ /\ obj # <<>>
        /\ bufferSize' = Len(obj)
        /\ IF Len(obj) <= bufferSize
             THEN status' = "EFI_SUCCESS" /\ content' = obj
             ELSE status' = "EFI_BUFFER_TOO_SMALL" /\ UNCHANGED content
     \/ /\ status' = IF obj = <<>> THEN "EFI_NOT_FOUND" ELSE "EFI_DEVICE_ERROR"
        /\ UNCHANGED <<content, bufferSize>>
  /\ pc' = "grow"
  /\ UNCHANGED <<fw, pool, request, buffer, blockSize, newArray, search, given, dropped, seen>>

-----------------------------------------------------------------------------
(* What the functions do with the buffer. *)

\* VarSize, NoHandles, NoEntries.
Size == IF buffer = Null THEN 0 ELSE bufferSize

\* The readers return it.
ReturnBuffer ==
  /\ pc = "finish" /\ fn \in {"LibMemoryMap", "LibGetVariableAndSize", "LibLocateHandle", "LibFileInfo"}
  /\ given' = given \union ({buffer} \ {Null})
  /\ pc' = "idle"
  /\ UNCHANGED <<fw, pool, request, loop, newArray, search, dropped, seen>>

\* ... and their callers free it.
FreeResult(b) ==
  /\ pc = "idle" /\ b \in given
  /\ given' = given \ {b} /\ pool' = pool \ {b}
  /\ UNCHANGED <<fw, pc, request, loop, newArray, search, dropped, seen>>

\* The rest of LibLocateProtocol: the first handle that is still there.
FindProtocol ==
  /\ pc = "finish" /\ fn = "LibLocateProtocol"
  /\ status' = IF buffer = Null THEN status
               ELSE IF Range(content) \intersect Range(other) # {} THEN "EFI_SUCCESS" ELSE "EFI_UNSUPPORTED"
  /\ pool' = pool \ {buffer} /\ buffer' = Null
  /\ pc' = "idle"
  /\ UNCHANGED <<fw, request, bufferSize, blockSize, content, newArray, search, given, dropped, seen>>

\* The rest of LibDeleteVariable.
DeleteVariable ==
  /\ pc = "finish" /\ fn = "LibDeleteVariable"
  /\ \/ /\ buffer = Null
        /\ status' = "EFI_NOT_FOUND"
        /\ UNCHANGED <<bootOrder, pool, buffer>>
     \/ /\ buffer # Null
        /\ \/ bootOrder' = <<>> /\ status' = "EFI_SUCCESS"
           \/ UNCHANGED bootOrder /\ status' = "EFI_DEVICE_ERROR"
        /\ pool' = pool \ {buffer} /\ buffer' = Null
  /\ pc' = "idle"
  /\ UNCHANGED <<other, request, bufferSize, blockSize, content, newArray, search, given, dropped, seen, changes>>

\* LibInsertToTailOfBootOrder: refuse, or allocate the new array.
InsertAllocate ==
  /\ pc = "finish" /\ fn \in {"LibInsertToTailOfBootOrder", "OnlyInsertIfEmpty"}
  /\ \/ /\ Size # 0 /\ fn = "OnlyInsertIfEmpty"
        /\ pool' = pool \ {buffer} /\ buffer' = Null
        /\ status' = "EFI_UNSUPPORTED" /\ pc' = "idle"
        /\ UNCHANGED <<newArray, dropped>>
     \/ /\ Size = 0 \/ fn = "LibInsertToTailOfBootOrder"
        /\ \E b \in Allocations({}) :
             /\ newArray' = b
             /\ pool' = pool \union ({b} \ {Null})
             /\ IF b = Null
                  THEN /\ status' = "EFI_OUT_OF_RESOURCES" /\ pc' = "idle"
                       /\ dropped' = dropped \union ({buffer} \ {Null})
                       /\ buffer' = Null
                  ELSE pc' = "set" /\ UNCHANGED <<status, dropped, buffer>>
  /\ UNCHANGED <<fw, request, bufferSize, blockSize, content, search, given, seen>>

\* Write it, and free both arrays.
InsertSet ==
  /\ pc = "set"
  /\ \/ /\ bootOrder' = Append(IF buffer = Null THEN <<>> ELSE content, option)
        /\ status' = "EFI_SUCCESS"
     \/ UNCHANGED bootOrder /\ status' = "EFI_DEVICE_ERROR"
  /\ pool' = pool \ {newArray, buffer}
  /\ newArray' = Null /\ buffer' = Null
  /\ pc' = "idle"
  /\ UNCHANGED <<other, request, bufferSize, blockSize, content, search, given, dropped, seen, changes>>

\* LibLocateHandleByDiskSignature: without handles, FreePool is given a null
\* pointer, which the firmware refuses.
ScanStart ==
  /\ pc = "finish" /\ fn = "LibLocateHandleByDiskSignature"
  /\ scan' = [NoScan EXCEPT !.list = content]
  /\ pc' = IF buffer = Null THEN "idle" ELSE "scan"
  /\ UNCHANGED <<fw, pool, request, loop, newArray, initialized, collation, given, dropped, seen>>

\* The loop over the nodes: the node looked for, not behind another hard drive
\* node, and the last of its instance.
Match(path) ==
  \E i \in 1..Len(path) :
    /\ path[i] = "signature"
    /\ i > 1 => path[i - 1] \notin {"signature", "harddrive"}
    /\ i < Len(path) => path[i + 1] = "endinstance"

\* Mutant: Match is not reset for the next handle.
ScanHandleSticky ==
  LET h == scan.list[scan.index]
      path == IF scan.devicePath # Null /\ Match(scan.devicePath) THEN scan.devicePath ELSE PathOf[h]
  IN  /\ pc = "scan" /\ scan.index <= Len(scan.list)
      /\ content' = IF Match(path) THEN content ELSE [content EXCEPT ![scan.index] = Null]
      /\ scan' = [scan EXCEPT !.index = @ + 1, !.devicePath = path]
      /\ UNCHANGED <<fw, pool, pc, request, status, buffer, bufferSize, blockSize,
                     newArray, initialized, collation, given, dropped, seen>>

\* The status of HandleProtocol is not looked at.  For a handle that has gone
\* DevicePath becomes NULL, or still points to the path of the handle before, or
\* anywhere if there is none.
ScanHandle ==
  LET h == scan.list[scan.index]
      gone == h \notin Range(other)
  IN  /\ pc = "scan" /\ scan.index <= Len(scan.list)
      /\ \E path \in IF gone THEN {<<>>, scan.devicePath} ELSE {PathOf[h]} :
         \E match \in IF path = Null THEN BOOLEAN ELSE {Match(path)} :
           /\ content' = IF match THEN content ELSE [content EXCEPT ![scan.index] = Null]
           /\ scan' = [scan EXCEPT !.index = @ + 1, !.devicePath = path,
                                   !.gone = IF gone THEN @ \union {h} ELSE @]
      /\ UNCHANGED <<fw, pool, pc, request, status, buffer, bufferSize, blockSize,
                     newArray, initialized, collation, given, dropped, seen>>

\* s without the elements of S.
Without(s, S) ==
  LET upTo[j \in 0..Len(s)] ==
        IF j = 0 THEN <<>> ELSE IF s[j] \in S THEN upTo[j - 1] ELSE Append(upTo[j - 1], s[j])
  IN  upTo[Len(s)]

\* The matches are copied to a buffer of their own, which is returned.
ScanReturn ==
  LET matches == Without(content, {Null})
  IN  /\ pc = "scan" /\ scan.index > Len(scan.list)
      /\ \/ /\ matches = <<>>
            /\ status' = "EFI_SUCCESS"
            /\ pool' = pool \ {buffer} /\ content' = <<>> /\ UNCHANGED given
         \/ /\ matches # <<>>
            /\ \E b \in Allocations({}) :
                 /\ pool' = (pool \ {buffer}) \union ({b} \ {Null})
                 /\ given' = given \union ({b} \ {Null})
                 /\ status' = IF b = Null THEN "EFI_OUT_OF_RESOURCES" ELSE "EFI_SUCCESS"
                 /\ content' = IF b = Null THEN <<>> ELSE matches
      /\ buffer' = Null /\ pc' = "idle"
      /\ UNCHANGED <<fw, request, bufferSize, blockSize, newArray, search, dropped, seen>>

\* InitializeLib goes on with InitializeUnicodeSupport(LangCode), which reads the
\* handles of the collation drivers.
InitializeUnicodeSupport ==
  /\ pc = "finish" /\ fn = "InitializeLib"
  /\ newArray' = buffer
  /\ fn' = "InitializeUnicodeSupport" /\ api' = "LocateHandle"
  /\ status' = "EFI_SUCCESS" /\ buffer' = Null
  /\ bufferSize' = GuessedSize /\ blockSize' = 0 /\ content' = <<>>
  /\ other' \in Values \union {<<>>} /\ seen' = {other'}
  /\ pc' = "grow"
  /\ UNCHANGED <<bootOrder, changes, option, calls, pool, search, given, dropped>>

\* Its loop: the first driver that is still there and knows the language; then
\* the handles and the language are freed, and the locals are gone.
ChooseCollation ==
  LET hits == {i \in 1..Len(content) : content[i] \in Collating \intersect Range(other)}
  IN  /\ pc = "finish" /\ fn = "InitializeUnicodeSupport"
      /\ collation' = IF newArray = Null \/ Size = 0 \/ hits = {} THEN collation
                      ELSE content[CHOOSE i \in hits : \A j \in hits : i <= j]
      /\ pool' = pool \ {buffer, newArray}
      /\ newArray' = Null /\ buffer' = Null /\ pc' = "idle"
      /\ status' = "EFI_SUCCESS" /\ bufferSize' = 0 /\ blockSize' = 0 /\ content' = <<>> /\ seen' = {}
      /\ UNCHANGED <<fw, request, scan, initialized, given, dropped>>

Step ==
  \/ GrowBuffer \/ CallInterface \/ ReturnBuffer \/ FindProtocol \/ DeleteVariable \/ InsertAllocate \/ InsertSet
  \/ ScanStart \/ ScanHandle \/ ScanReturn \/ InitializeUnicodeSupport \/ ChooseCollation

Init ==
  /\ bootOrder \in Values \union {<<>>} /\ other = <<>>
  /\ pool = {} /\ pc = "idle" /\ fn = "LibFileInfo" /\ api = "GetInfo" /\ option \in Options
  /\ status = "EFI_SUCCESS" /\ buffer = Null /\ bufferSize = 0 /\ blockSize = 0 /\ content = <<>>
  /\ newArray = Null /\ scan = NoScan /\ initialized = FALSE /\ collation = Null
  /\ given = {} /\ dropped = {} /\ seen = {} /\ calls = 0 /\ changes = 0

Next ==
  \/ LibMemoryMap \/ LibLocateHandle \/ LibFileInfo \/ LibGetVariableAndSize \/ LibDeleteVariable
  \/ LibLocateProtocol \/ LibLocateHandleByDiskSignature \/ \E image \in BOOLEAN : InitializeLib(image)
  \/ \E o \in Options, e \in BOOLEAN : LibInsertToTailOfBootOrder(o, e)
  \/ Step
  \/ \E b \in Blocks : FreeResult(b)
  \/ \E v \in Values \union {<<>>} : Change(v)

\* A running function continues.
Spec == Init /\ [][Next]_vars /\ WF_vars(Step)

-----------------------------------------------------------------------------
(* Properties. *)

TypeOK ==
  /\ Len(bootOrder) <= MaxLen /\ Len(other) <= MaxLen
  /\ pool \subseteq Blocks /\ given \subseteq Blocks /\ dropped \subseteq Blocks
  /\ pc \in {"idle", "grow", "call", "finish", "set", "scan"}
  /\ status \in Errors \union {"EFI_SUCCESS", "EFI_UNSUPPORTED"}
  /\ {buffer, newArray} \subseteq Blocks \union {Null}
  /\ {bufferSize, blockSize} \subseteq 0..MaxLen
  /\ pc # "idle" => Len(content) <= MaxLen

\* Nothing is lost, freed twice or used after it was freed, whichever call
\* fails: the blocks that are allocated are those the running function and the
\* callers hold.  The one exception is the old boot order, which
\* LibInsertToTailOfBootOrder drops when the new array cannot be allocated.
PoolBalanced ==
  LET held == {buffer, newArray} \ {Null}
  IN  TypeOK /\
      IF pc = "idle" /\ fn \in {"LibMemoryMap", "LibGetVariableAndSize", "LibLocateHandle", "LibFileInfo"}
        THEN pool = given \union dropped
        ELSE pool = held \union given \union dropped /\ held \intersect (given \union dropped) = {}

\* A reader returns the whole object or nothing: what the buffer holds is a
\* value the object had during the call, complete and with its size, however
\* often the object changed between the calls; and there is a buffer exactly
\* if there is no error.
WholeObjectOrNothing ==
  pc = "finish" =>
    /\ buffer = Null <=> IsError(status)
    /\ buffer # Null => content \in seen /\ Size = Len(content) /\ Size <= blockSize

\* An insertion that succeeds leaves the new option behind a boot order that
\* was there during the call, and not beside one that it found.  What others
\* wrote meanwhile is overwritten, and when the order could not be read it is
\* taken for empty, so that the option is left alone.
BootOrderExtended ==
  pc = "idle" /\ fn \in {"LibInsertToTailOfBootOrder", "OnlyInsertIfEmpty"} /\ status = "EFI_SUCCESS" =>
    /\ bootOrder # <<>> /\ bootOrder[Len(bootOrder)] = option
    /\ SubSeq(bootOrder, 1, Len(bootOrder) - 1) \in seen \union {<<>>}
    /\ fn = "OnlyInsertIfEmpty" => Len(bootOrder) = 1

\* LibLocateHandleByDiskSignature returns the handles of the partition, in the
\* order of the list, and no others; only of a handle that went away while it
\* looked at the list can it not tell, because it uses the path of the one before.
FindsPartition ==
  pc = "idle" /\ fn = "LibLocateHandleByDiskSignature" /\ status = "EFI_SUCCESS" =>
    Without(content, scan.gone)
      = Without(scan.list, scan.gone \union {h \in Range(scan.list) : ~Match(PathOf[h])})

\* Every call returns: each further round asks for a larger buffer than the one
\* before, so the loop ends, also when its own allocations change the object.
CallsReturn == pc # "idle" ~> pc = "idle"

=============================================================================
