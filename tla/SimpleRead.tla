----------------------------- MODULE SimpleRead -----------------------------
(***************************************************************************)
(* lib/sread.c: a file read from a copy in memory, from a file system or   *)
(* through the load file protocol, with LibOpenRoot (lib/hand.c) and       *)
(* LibDevicePathToInterface (lib/dpath.c).  One caller opens, reads and    *)
(* closes, one handle at a time.                                           *)
(*                                                                         *)
(* A device path is a sequence of nodes: "dev" names the device, "file" a  *)
(* step down its volume, "other" anything else.  The device may offer the  *)
(* file system protocol, the load file protocol, both or none.  Cell k of  *)
(* the file is k; every firmware call and every allocation may fail.       *)
(* UINTN holds 0..MaxUintn.                                                *)
(***************************************************************************)
EXTENDS Naturals, Sequences, FiniteSets

CONSTANTS
  UserPaths,  \* the paths the caller has
  FileSizes,  \* sizes the file may have
  MaxUintn,   \* bound: the largest UINTN
  Null, Junk, Outside   \* no object; a cell nobody wrote; a cell beyond the buffer

VARIABLES
  offers,     \* the protocols the device offers
  size,       \* the file's size
  live,       \* pool blocks of the library: "FHand", "Source"
  handles,    \* file handles the firmware has open, by their depth
  pc, user,   \* where OpenSimpleReadFile is; UserFilePath
  filePath,   \* *FilePath
  node,       \* the nodes from FilePathNode on
  fileHandle, \* FileHandle
  fhand,      \* *FHand, or Null
  status,
  result      \* what the last ReadSimpleReadFile gave, or Null

env  == <<offers, size>>
vars == <<offers, size, live, handles, pc, user, filePath, node, fileHandle, fhand, status, result>>

Protocols == {"FileSystem", "LoadFile"}
Error(s) == s # "EFI_SUCCESS"

\* LocateDevicePath: the device with the protocol whose path begins this one.
Located(p, path) == p \in offers /\ path # <<>> /\ Head(path) = "dev"

\* LibDevicePathToInterface: only when nothing of the path is left.
LibDevicePathToInterface(p, path) == Located(p, path) /\ Tail(path) = <<>>

\* SIMPLE_READ_HANDLE as AllocateZeroPool gives it.
Fresh == [source |-> Null, sourceSize |-> 0, freeBuffer |-> FALSE, file |-> Null]

-----------------------------------------------------------------------------
(* OpenSimpleReadFile. *)

\* *SimpleReadHandle is set as soon as there is a block.  A copy in memory
\* is all there is to do; its DeviceHandle is NULL.
Open(path, copy) ==
  /\ pc = "idle" /\ fhand = Null
  /\ user' = path /\ filePath' = path /\ result' = Null
  /\ \/ /\ fhand' = Null /\ status' = "EFI_OUT_OF_RESOURCES"
        /\ pc' = "idle" /\ UNCHANGED live
     \/ /\ live' = live \union {"FHand"}
        /\ fhand' = IF copy THEN [Fresh EXCEPT !.source = [k \in 1..size |-> k],
                                               !.sourceSize = size]
                            ELSE Fresh
        /\ status' = "EFI_SUCCESS"
        /\ pc' = IF copy THEN "idle" ELSE "locate"
  /\ UNCHANGED <<env, handles, node, fileHandle>>

\* LocateDevicePath moves *FilePath behind the device it found, and
\* LibOpenRoot opens the volume there.
LocateVolume ==
  /\ pc = "locate" /\ pc' = "walk"
  /\ \/ /\ Located("FileSystem", filePath)
        /\ filePath' = Tail(filePath) /\ node' = Tail(filePath)
        /\ \/ fileHandle' = 0 /\ handles' = handles \union {0} /\ status' = "EFI_SUCCESS"
           \/ fileHandle' = Null /\ status' = "EFI_UNSUPPORTED" /\ UNCHANGED handles
     \/ /\ ~Located("FileSystem", filePath)
        /\ fileHandle' = Null /\ status' = "EFI_UNSUPPORTED" /\ node' = filePath
        /\ UNCHANGED <<filePath, handles>>
  /\ UNCHANGED <<env, live, user, fhand, result>>

\* One turn of the loop over the nodes: open the next file, close the last.
WalkNode ==
  /\ pc = "walk" /\ node # <<>> /\ Head(node) = "file" /\ ~Error(status)
  /\ \/ /\ fileHandle' = fileHandle + 1 /\ status' = "EFI_SUCCESS"
        /\ handles' = (handles \union {fileHandle + 1}) \ {fileHandle}
     \/ /\ fileHandle' = Null /\ status' \in {"EFI_NOT_FOUND", "EFI_UNSUPPORTED"}
        /\ handles' = handles \ {fileHandle}
  /\ node' = Tail(node)
  /\ UNCHANGED <<env, live, pc, user, filePath, fhand, result>>

\* The loop ends at the end of the path, at an error, and at a node that
\* names no file, which is an error too.
NotAllFiles == node # <<>> /\ Head(node) # "file"
WalkEnds ==
  /\ pc = "walk" /\ (node = <<>> \/ Error(status) \/ NotAllFiles)
  /\ status' = IF NotAllFiles THEN "EFI_UNSUPPORTED" ELSE status
  /\ IF ~Error(status')
       THEN /\ fhand' = [fhand EXCEPT !.file = fileHandle]
            /\ pc' = "done"
            /\ UNCHANGED <<handles, fileHandle, filePath>>
       ELSE /\ handles' = handles \ {fileHandle}
            /\ filePath' = IF fileHandle # Null THEN user ELSE filePath
            /\ fileHandle' = Null
            /\ pc' = IF status' = "EFI_UNSUPPORTED" THEN "load" ELSE "done"
            /\ UNCHANGED fhand
  /\ UNCHANGED <<env, live, user, node, result>>

\* The load file protocol is asked for the size; any answer but
\* EFI_BUFFER_TOO_SMALL settles the matter.  The copy of the path made for
\* LocateDevicePath is freed at once.
AskSize ==
  /\ pc = "load"
  /\ \/ /\ LibDevicePathToInterface("LoadFile", filePath)
        /\ \/ status' = "EFI_BUFFER_TOO_SMALL" /\ pc' = "fill"
           \/ status' \in {"EFI_SUCCESS", "EFI_ALREADY_STARTED"} /\ pc' = "done"
           \/ status' = "EFI_UNSUPPORTED" /\ pc' = "done"
     \/ status' = "EFI_UNSUPPORTED" /\ pc' = "done"
  /\ UNCHANGED <<env, live, handles, user, filePath, node, fileHandle, fhand, result>>

\* Load into a block of the size given.  The file may be smaller by now; the
\* handle keeps the size first given.
Fill ==
  /\ pc = "fill" /\ pc' = "done"
  /\ \/ status' = "EFI_UNSUPPORTED" /\ UNCHANGED <<live, fhand>>
     \/ /\ live' = live \union {"Source"}
        /\ \E n \in 0..size, s \in {"EFI_SUCCESS", "EFI_ALREADY_STARTED", "EFI_UNSUPPORTED"} :
             /\ fhand' = [source |-> [k \in 1..size |-> IF s = "EFI_SUCCESS" /\ k <= n THEN k ELSE Junk],
                          sourceSize |-> size, freeBuffer |-> TRUE, file |-> Null]
             /\ status' = s
  /\ UNCHANGED <<env, handles, user, filePath, node, fileHandle, result>>

\* Mutant: the buffer stays when the second LoadFile fails.
DoneKeepsSource ==
  /\ pc = "done" /\ pc' = "idle"
  /\ IF Error(status) /\ status # "EFI_ALREADY_STARTED"
       THEN fhand' = Null /\ live' = live \ {"FHand"}
       ELSE UNCHANGED <<fhand, live>>
  /\ UNCHANGED <<env, handles, user, filePath, node, fileHandle, status, result>>

Done ==
  /\ pc = "done" /\ pc' = "idle"
  /\ IF Error(status) /\ status # "EFI_ALREADY_STARTED"
       THEN /\ live' = live \ ({"FHand"} \union (IF fhand.freeBuffer THEN {"Source"} ELSE {}))
            /\ fhand' = Null
       ELSE UNCHANGED <<fhand, live>>
  /\ UNCHANGED <<env, handles, user, filePath, node, fileHandle, status, result>>

-----------------------------------------------------------------------------
(* ReadSimpleReadFile and CloseSimpleReadFile. *)

Uintn(n) == n % (MaxUintn + 1)

\* *ReadSize as the function leaves it for a copy in memory.
ClampedUnguarded(offset, n) ==
  IF Uintn(offset + n) > fhand.sourceSize
    THEN Uintn(fhand.sourceSize + MaxUintn + 1 - offset) ELSE n

Clamped(offset, n) ==
  IF Uintn(offset + n) > fhand.sourceSize
    THEN IF offset >= fhand.sourceSize THEN 0 ELSE fhand.sourceSize - offset
    ELSE n

ReadCopy(offset, n) ==
  /\ pc = "idle" /\ fhand # Null /\ fhand.source # Null
  /\ result' = [offset |-> offset, asked |-> n, status |-> "EFI_SUCCESS",
                data |-> [k \in 1..Clamped(offset, n) |->
                            IF offset + k \in DOMAIN fhand.source
                              THEN fhand.source[offset + k] ELSE Outside]]
  /\ UNCHANGED <<env, live, handles, pc, user, filePath, node, fileHandle, fhand, status>>

\* From the file: SetPosition, then Read, each of which may fail.
ReadFile(offset, n) ==
  /\ pc = "idle" /\ fhand # Null /\ fhand.source = Null /\ fhand.file # Null
  /\ \/ result' = [offset |-> offset, asked |-> n, status |-> "EFI_ERROR", data |-> <<>>]
     \/ /\ offset <= size
        /\ result' = [offset |-> offset, asked |-> n, status |-> "EFI_SUCCESS",
                      data |-> [k \in 1..(IF offset + n > size THEN size - offset ELSE n) |-> offset + k]]
  /\ UNCHANGED <<env, live, handles, pc, user, filePath, node, fileHandle, fhand, status>>

\* A handle without a copy and without a file (LoadFile answered the question
\* for the size with EFI_SUCCESS or EFI_ALREADY_STARTED): a call through NULL.
ReadNull(offset, n) ==
  /\ pc = "idle" /\ fhand # Null /\ fhand.source = Null /\ fhand.file = Null
  /\ result' = [offset |-> offset, asked |-> n, status |-> "wild", data |-> <<>>]
  /\ UNCHANGED <<env, live, handles, pc, user, filePath, node, fileHandle, fhand, status>>

Close ==
  /\ pc = "idle" /\ fhand # Null
  /\ handles' = handles \ {fhand.file}
  /\ live' = live \ ({"FHand"} \union (IF fhand.freeBuffer THEN {"Source"} ELSE {}))
  /\ fhand' = Null /\ result' = Null
  /\ UNCHANGED <<env, pc, user, filePath, node, fileHandle, status>>

Init ==
  /\ offers \in SUBSET Protocols /\ size \in FileSizes
  /\ live = {} /\ handles = {} /\ pc = "idle"
  /\ user = <<>> /\ filePath = <<>> /\ node = <<>>
  /\ fileHandle = Null /\ fhand = Null /\ status = "EFI_SUCCESS" /\ result = Null

Step == LocateVolume \/ WalkNode \/ WalkEnds \/ AskSize \/ Fill \/ Done

Next ==
  \/ \E path \in UserPaths, copy \in BOOLEAN : Open(path, copy)
  \/ Step
  \/ \E offset, n \in 0..MaxUintn :
       ReadCopy(offset, n) \/ ReadFile(offset, n) \/ ReadNull(offset, n)
  \/ Close

Spec == Init /\ [][Next]_vars

-----------------------------------------------------------------------------
(* Properties. *)

\* Between calls the pool blocks and the firmware's open files are exactly
\* those of the handle the caller holds: a path that leads half way down the
\* volume, a load that fails after its buffer was allocated and a handle that
\* is closed leave nothing behind.  The caller holds a handle exactly after
\* EFI_SUCCESS and EFI_ALREADY_STARTED.
SimpleReadBalanced ==
  pc = "idle" =>
    IF fhand = Null THEN live = {} /\ handles = {}
    ELSE /\ live = {"FHand"} \union (IF fhand.freeBuffer THEN {"Source"} ELSE {})
         /\ handles = {fhand.file} \ {Null}
         /\ status \in {"EFI_SUCCESS", "EFI_ALREADY_STARTED"}

\* A successful read gives the cells of the file from Offset on, as many as
\* were asked for and as there are, whichever way the file is accessed.  Two
\* things are left out, where the code does otherwise: Offset + *ReadSize
\* beyond the largest UINTN, and a load file whose second call delivered less
\* than the first announced.
ReadsTheFile ==
  /\ result # Null =>
       \/ result.status # "EFI_SUCCESS"
       \/ result.offset + result.asked > MaxUintn
       \/ fhand.source # Null /\ \E k \in DOMAIN fhand.source : fhand.source[k] = Junk
       \/ result.data = [k \in 1..Cardinality({j \in 1..result.asked : result.offset + j <= size}) |->
                           result.offset + k]
  /\ pc = "idle" /\ fhand # Null /\ fhand.file # Null =>
       /\ fhand.file = Cardinality({k \in DOMAIN user : user[k] = "file"})
       /\ \A k \in 2..Len(user) : user[k] = "file"

=============================================================================
