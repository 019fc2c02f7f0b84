----------------------------- MODULE FilesProofs -----------------------------
(***************************************************************************)
(* What the run of MCFiles checks, for all paths, sizes, offsets and       *)
(* orders of calls and failures: the File object, from FileProofs, and the *)
(* simple read functions.  Their invariant RInv follows one call of        *)
(* OpenSimpleReadFile along the path: which file is open after how many    *)
(* nodes, and what the handle owns at each point of it.                    *)
(***************************************************************************)
EXTENDS MCFiles, FileProofs, FiniteSets, FiniteSetTheorems

-----------------------------------------------------------------------------
(* The theorems about File. *)

FileInv == turn = "file" => FInv

\* The invariant of the File object, in the run's composition.
THEOREM FileInvariant == AllSpec => []FileInv
<1>1. AllInit => FileInv
  BY FileInit DEF AllInit, FileInv
<1>2. FileInv /\ [AllNext]_all => FileInv'
  <2> SUFFICES ASSUME FileInv, [AllNext]_all, turn' = "file" PROVE FInv'
    BY DEF FileInv
  <2>1. CASE FileObject
    BY <2>1, FileNext DEF FileObject, FileInv
  <2>2. CASE SimpleReads
    BY <2>2 DEF SimpleReads
  <2>3. CASE UNCHANGED all
    <3>1. FInv /\ UNCHANGED fvars
      BY <2>3 DEF FileInv, all
    <3>2. HeapSound' /\ A!Contents(InfoArray)' = A!Contents(InfoArray) /\ arr' = arr
      BY <3>1, HeapKept DEF heapVars, fvars, FInv, Two
    <3> QED BY <3>1, <3>2 DEF fvars, fwVars, FInv, TypeOK, InfoShape, Missing, InfoCell
  <2> QED BY <2>1, <2>2, <2>3 DEF AllNext
<1> QED BY <1>1, <1>2, PTL DEF AllSpec

\* Whatever is opened, re-opened, read and closed, and whichever firmware call
\* or allocation fails, File holds exactly the handles and blocks it knows of,
\* and Size() after a successful Open is the size of that file (file.cc).
THEOREM OpenFileKnownHolds == AllSpec => []OpenFileKnown
<1>1. FileInv => OpenFileKnown
  BY FileKnown DEF FileInv, OpenFileKnown
<1> QED BY <1>1, FileInvariant, PTL

\* The first Read(OutBuffer) after a successful Open, when it succeeds, leaves
\* the whole file in the buffer and nothing else, whatever the buffer held and
\* whichever blocks the pool returned (file.cc).
THEOREM WholeFileReadHolds == AllSpec => WholeFileRead
<1> DEFINE Whole == pos = 0 /\ opened /\ ReadAll /\ fstatus' = "EFI_SUCCESS"
                    => A!Contents(OutBuffer)' = [k \in 1..disk[req] |-> <<req, k - 1>>]
<1>1. FileInv /\ [AllNext]_all => [Whole]_fvars
  <2> SUFFICES ASSUME FileInv, [AllNext]_all, fvars' # fvars,
                      pos = 0, opened, ReadAll, fstatus' = "EFI_SUCCESS"
               PROVE  A!Contents(OutBuffer)' = [k \in 1..disk[req] |-> <<req, k - 1>>]
    BY Zenon
  <2>1. FInv
    BY DEF AllNext, FileObject, SimpleReads, all, FileInv
  <2> QED BY <2>1, FirstReadWhole
<1> QED BY <1>1, FileInvariant, PTL DEF AllSpec, WholeFileRead

-----------------------------------------------------------------------------
(* The simple read functions. *)

\* The path led to the file n levels down: the device, then n file nodes,
\* then the nodes that are left.
Followed(n, rest) ==
  /\ n \in Nat /\ rest \in Seq({"dev", "file", "other"})
  /\ Len(user) = n + 1 + Len(rest)
  /\ user[1] = "dev"
  /\ \A k \in 2..(n + 1) : user[k] = "file"
  /\ \A k \in 1..Len(rest) : user[n + 1 + k] = rest[k]

\* The copy in memory is as long as the file, and a cell of it is the file's
\* or was never written.
SourceCopied ==
  /\ fhand.sourceSize = size
  /\ Len(fhand.source) = size
  /\ \A k \in 1..size : fhand.source[k] \in {k, Junk}

\* What the last read gave: the first part of ReadsTheFile.
ResultRight ==
  result # Null =>
    \/ result.status # "EFI_SUCCESS"
    \/ result.offset + result.asked > MaxUintn
    \/ fhand.source # Null /\ \E k \in DOMAIN fhand.source : fhand.source[k] = Junk
    \/ result.data = [k \in 1..Cardinality({j \in 1..result.asked : result.offset + j <= size}) |->
                        result.offset + k]

RInv ==
  /\ size \in Nat
  /\ user \in Seq({"dev", "file", "other"})
  /\ pc \in {"idle", "locate", "walk", "load", "fill", "done"}
  /\ fhand = Null => pc = "idle" /\ live = {} /\ handles = {} /\ result = Null
  /\ fhand # Null => /\ fhand \in SimpleReadHandles
                     /\ live = {"FHand"} \union (IF fhand.freeBuffer THEN {"Source"} ELSE {})
                     /\ fhand.source # Null => SourceCopied
  /\ pc # "idle" => result = Null
  /\ pc \in {"locate", "walk", "load", "fill"} => fhand = R!Fresh
  /\ pc \in {"locate", "load", "fill"} => handles = {}
  /\ pc = "locate" => filePath = user
  /\ pc = "walk" => IF status = "EFI_SUCCESS"
                      THEN handles = {fileHandle} /\ Followed(fileHandle, node)
                      ELSE handles = {} /\ fileHandle = Null
  /\ pc \in {"idle", "done"} /\ fhand # Null =>
       /\ handles = {fhand.file} \ {Null}
       /\ fhand.file # Null => status = "EFI_SUCCESS" /\ Followed(fhand.file, <<>>)
  /\ pc = "idle" /\ fhand # Null => status \in {"EFI_SUCCESS", "EFI_ALREADY_STARTED"}
  /\ ResultRight

SimpleInv == turn = "simple" => RInv

LEMMA SameCardinality == \A S : R!Cardinality(S) = Cardinality(S)
BY DEF R!Cardinality, Cardinality

\* How many of n cells from offset on a file of s cells has.
LEMMA CellsLeft ==
  ASSUME NEW offset \in Nat, NEW n \in Nat, NEW s \in Nat
  PROVE  Cardinality({j \in 1..n : offset + j <= s}) =
           IF offset + n > s THEN IF offset >= s THEN 0 ELSE s - offset ELSE n
<1> DEFINE c == IF offset + n > s THEN IF offset >= s THEN 0 ELSE s - offset ELSE n
<1>1. c \in Nat /\ {j \in 1..n : offset + j <= s} = 1..c
  OBVIOUS
<1> HIDE DEF c
<1>2. Cardinality(1..c) = c
  BY <1>1, FS_Interval
<1> QED BY <1>1, <1>2 DEF c

\* The handle as AllocateZeroPool gives it is one, and not the null pointer.
LEMMA FreshHandle ==
  /\ R!Fresh \in SimpleReadHandles /\ R!Fresh # Null
  /\ R!Fresh.source = Null /\ R!Fresh.file = Null /\ R!Fresh.freeBuffer = FALSE
<1>1. R!Fresh \in SimpleReadHandles
  BY DEF R!Fresh, SimpleReadHandles
<1>2. R!Fresh # Null
  BY <1>1, SimpleReadAssumption
<1> QED BY <1>1, <1>2 DEF R!Fresh

\* Nothing is open and nothing allocated at first.
LEMMA SimpleInit == R!Init => RInv
BY SimpleReadAssumption DEF R!Init, RInv, ResultRight

\* A new handle, with a copy of the file or without.
LEMMA SimpleOpen ==
  ASSUME RInv, NEW p \in UserPaths, NEW copy \in BOOLEAN, R!Open(p, copy)
  PROVE  RInv'
<1>1. /\ pc = "idle" /\ fhand = Null /\ live = {} /\ handles = {}
      /\ size' = size /\ handles' = handles /\ result' = Null /\ size \in Nat
      /\ user' = p /\ filePath' = p /\ p \in Seq({"dev", "file", "other"})
  BY SimpleReadAssumption DEF R!Open, RInv, R!env
<1>2. ResultRight'
  BY <1>1 DEF ResultRight
<1>3. CASE fhand' = Null /\ pc' = "idle" /\ UNCHANGED live
  BY <1>1, <1>2, <1>3 DEF RInv
<1>4. CASE /\ live' = live \union {"FHand"}
           /\ fhand' = R!Fresh
           /\ status' = "EFI_SUCCESS" /\ pc' = "locate"
  BY <1>1, <1>2, <1>4, FreshHandle DEF RInv
<1>5. CASE /\ live' = live \union {"FHand"}
           /\ fhand' = [R!Fresh EXCEPT !.source = [k \in 1..size |-> k], !.sourceSize = size]
           /\ status' = "EFI_SUCCESS" /\ pc' = "idle"
  <2> DEFINE src == [k \in 1..size |-> k]
  <2>1. src \in Seq(Nat \union {Junk}) /\ Len(src) = size /\ \A k \in 1..size : src[k] = k
    BY <1>1
  <2> HIDE DEF src
  <2>2. fhand' = [source |-> src, sourceSize |-> size, freeBuffer |-> FALSE, file |-> Null]
    BY <1>5 DEF R!Fresh, src
  <2>3. fhand' \in SimpleReadHandles
    BY <1>1, <2>1, <2>2 DEF SimpleReadHandles
  <2>4. SourceCopied'
    BY <1>1, <2>1, <2>2 DEF SourceCopied
  <2>5. fhand' # Null
    BY <2>3, SimpleReadAssumption
  <2>6. fhand'.file = Null /\ fhand'.freeBuffer = FALSE
    BY <2>2
  <2> QED BY <1>1, <1>2, <1>5, <2>3, <2>4, <2>5, <2>6 DEF RInv
<1> QED BY <1>3, <1>4, <1>5 DEF R!Open

\* The volume of the device, if the path begins with it.
LEMMA SimpleLocate ==
  ASSUME RInv, R!LocateVolume
  PROVE  RInv'
<1>1. /\ pc = "locate" /\ pc' = "walk" /\ handles = {} /\ filePath = user
      /\ UNCHANGED <<size, live, user, fhand, result>>
      /\ fhand = R!Fresh /\ result = Null /\ user \in Seq({"dev", "file", "other"})
  BY DEF R!LocateVolume, RInv, R!env
<1>2. IF status' = "EFI_SUCCESS"
        THEN handles' = {fileHandle'} /\ Followed(fileHandle, node)'
        ELSE handles' = {} /\ fileHandle' = Null
  <2>1. CASE R!Located("FileSystem", filePath) /\ fileHandle' = 0 /\ handles' = handles \union {0}
    <3>1. user # <<>> /\ user[1] = "dev" /\ node' = Tail(user)
      BY <1>1, <2>1 DEF R!LocateVolume, R!Located
    <3>2. /\ Tail(user) \in Seq({"dev", "file", "other"})
          /\ Len(user) = 1 + Len(Tail(user)) /\ Len(Tail(user)) \in Nat
          /\ \A k \in 1..Len(Tail(user)) : user[1 + k] = Tail(user)[k]
      BY <1>1, <3>1
    <3>3. Followed(fileHandle, node)'
      BY <1>1, <2>1, <3>1, <3>2 DEF Followed
    <3> QED BY <1>1, <2>1, <3>3 DEF R!LocateVolume
  <2>2. CASE fileHandle' = Null /\ status' = "EFI_UNSUPPORTED" /\ UNCHANGED handles
    BY <1>1, <2>2
  <2> QED BY <2>1, <2>2 DEF R!LocateVolume
<1>3. ResultRight'
  BY <1>1 DEF ResultRight
<1> QED BY <1>1, <1>2, <1>3, FreshHandle DEF RInv

\* One node further: the new file is open, the last one closed.
LEMMA SimpleWalk ==
  ASSUME RInv, R!WalkNode
  PROVE  RInv'
<1>1. /\ pc = "walk" /\ pc' = "walk" /\ status = "EFI_SUCCESS"
      /\ UNCHANGED <<size, live, user, fhand, result>>
      /\ fhand = R!Fresh /\ result = Null
      /\ handles = {fileHandle} /\ Followed(fileHandle, node)
      /\ node # <<>> /\ Head(node) = "file" /\ node' = Tail(node)
  BY DEF R!WalkNode, RInv, R!env, R!Error
<1>2. fileHandle \in Nat /\ node \in Seq({"dev", "file", "other"})
  BY <1>1 DEF Followed
<1>3. IF status' = "EFI_SUCCESS"
        THEN handles' = {fileHandle'} /\ Followed(fileHandle, node)'
        ELSE handles' = {} /\ fileHandle' = Null
  <2>1. CASE /\ fileHandle' = fileHandle + 1 /\ status' = "EFI_SUCCESS"
             /\ handles' = (handles \union {fileHandle + 1}) \ {fileHandle}
    <3>1. /\ Tail(node) \in Seq({"dev", "file", "other"}) /\ node[1] = "file"
          /\ Len(node) = 1 + Len(Tail(node)) /\ Len(Tail(node)) \in Nat
          /\ \A k \in 1..Len(Tail(node)) : node[1 + k] = Tail(node)[k]
      BY <1>1, <1>2
    <3>2. user[fileHandle + 2] = "file"
      BY <1>1, <1>2, <3>1 DEF Followed
    <3>3. \A k \in 1..Len(Tail(node)) : user[fileHandle + 2 + k] = Tail(node)[k]
      <4> TAKE k \in 1..Len(Tail(node))
      <4>1. 1 + k \in 1..Len(node) /\ fileHandle + 1 + (1 + k) = fileHandle + 2 + k
        BY <1>2, <3>1
      <4> QED BY <1>1, <3>1, <4>1 DEF Followed
    <3>4. Followed(fileHandle, node)'
      BY <1>1, <1>2, <2>1, <3>1, <3>2, <3>3 DEF Followed
    <3> QED BY <1>1, <1>2, <2>1, <3>4
  <2>2. CASE /\ fileHandle' = Null /\ status' \in {"EFI_NOT_FOUND", "EFI_UNSUPPORTED"}
             /\ handles' = handles \ {fileHandle}
    BY <1>1, <2>2
  <2> QED BY <2>1, <2>2 DEF R!WalkNode
<1>4. ResultRight'
  BY <1>1 DEF ResultRight
<1> QED BY <1>1, <1>3, <1>4, FreshHandle DEF RInv

\* The end of the walk: the file goes into the handle, or is closed.
LEMMA SimpleWalkEnds ==
  ASSUME RInv, R!WalkEnds
  PROVE  RInv'
<1>1. /\ pc = "walk" /\ UNCHANGED <<size, live, user, result>>
      /\ fhand = R!Fresh /\ result = Null
      /\ IF status = "EFI_SUCCESS" THEN handles = {fileHandle} /\ Followed(fileHandle, node)
                                   ELSE handles = {} /\ fileHandle = Null
  BY DEF R!WalkEnds, RInv, R!env
<1>2. ResultRight'
  BY <1>1 DEF ResultRight
<1>3. CASE status' = "EFI_SUCCESS"
  <2>1. status = "EFI_SUCCESS" /\ node = <<>>
    BY <1>3 DEF R!WalkEnds, R!NotAllFiles, R!Error
  <2>2. /\ fhand' = [fhand EXCEPT !.file = fileHandle]
        /\ pc' = "done" /\ UNCHANGED <<handles, fileHandle>>
    BY <1>3 DEF R!WalkEnds, R!Error
  <2>3. /\ fileHandle \in Nat /\ fileHandle # Null
        /\ Followed(fileHandle, <<>>)
    BY <1>1, <2>1, SimpleReadAssumption DEF Followed
  <2>4. fhand' = [source |-> Null, sourceSize |-> 0, freeBuffer |-> FALSE, file |-> fileHandle]
    BY <1>1, <2>2 DEF R!Fresh
  <2>5. fhand' \in SimpleReadHandles
    BY <2>3, <2>4 DEF SimpleReadHandles
  <2>6. fhand' # Null
    BY <2>5, SimpleReadAssumption
  <2>7. fhand'.source = Null /\ fhand'.freeBuffer = FALSE /\ fhand'.file = fileHandle
    BY <2>4
  <2>8. Followed(fhand.file, <<>>)'
    BY <1>1, <2>3, <2>7 DEF Followed
  <2>9. live = {"FHand"}
    BY <1>1, FreshHandle DEF RInv
  <2>10. size \in Nat /\ user \in Seq({"dev", "file", "other"})
    BY DEF RInv
  <2> QED BY <1>1, <1>2, <1>3, <2>1, <2>2, <2>3, <2>5, <2>6, <2>7, <2>8, <2>9, <2>10 DEF RInv
<1>4. CASE status' # "EFI_SUCCESS"
  <2>1. /\ handles' = handles \ {fileHandle} /\ fileHandle' = Null
        /\ pc' \in {"load", "done"} /\ UNCHANGED fhand
    BY <1>4 DEF R!WalkEnds, R!Error
  <2>2. handles' = {}
    BY <1>1, <2>1
  <2> QED BY <1>1, <1>2, <1>4, <2>1, <2>2, FreshHandle DEF RInv
<1> QED BY <1>3, <1>4

\* The load file protocol is asked for the size.
LEMMA SimpleAskSize ==
  ASSUME RInv, R!AskSize
  PROVE  RInv'
<1>1. /\ pc = "load" /\ pc' \in {"fill", "done"}
      /\ UNCHANGED <<size, live, handles, user, fhand, result>>
      /\ fhand = R!Fresh /\ result = Null /\ handles = {}
  BY DEF R!AskSize, RInv, R!env
<1>2. ResultRight'
  BY <1>1 DEF ResultRight
<1> QED BY <1>1, <1>2, FreshHandle DEF RInv

\* The buffer belongs to the handle before it is filled.
LEMMA SimpleFill ==
  ASSUME RInv, R!Fill
  PROVE  RInv'
<1>1. /\ pc = "fill" /\ pc' = "done"
      /\ UNCHANGED <<size, handles, user, result>>
      /\ fhand = R!Fresh /\ result = Null /\ handles = {} /\ size \in Nat
      /\ live = {"FHand"}
  BY FreshHandle DEF R!Fill, RInv, R!env
<1>2. ResultRight'
  BY <1>1 DEF ResultRight
<1>3. CASE UNCHANGED <<live, fhand>>
  BY <1>1, <1>2, <1>3, FreshHandle DEF RInv
<1>4. ASSUME live' = live \union {"Source"}, NEW n \in 0..size, NEW s,
             fhand' = [source |-> [k \in 1..size |-> IF s = "EFI_SUCCESS" /\ k <= n THEN k ELSE Junk],
                       sourceSize |-> size, freeBuffer |-> TRUE, file |-> Null]
      PROVE  RInv'
  <2> DEFINE src == [k \in 1..size |-> IF s = "EFI_SUCCESS" /\ k <= n THEN k ELSE Junk]
  <2>1. \A k \in 1..size : (IF s = "EFI_SUCCESS" /\ k <= n THEN k ELSE Junk) \in Nat \union {Junk}
    BY <1>1
  <2>2. src \in Seq(Nat \union {Junk}) /\ Len(src) = size /\ \A k \in 1..size : src[k] \in {k, Junk}
    BY <1>1, <2>1
  <2> HIDE DEF src
  <2>3. fhand' = [source |-> src, sourceSize |-> size, freeBuffer |-> TRUE, file |-> Null]
    BY <1>4 DEF src
  <2>4. fhand' \in SimpleReadHandles
    BY <1>1, <2>2, <2>3 DEF SimpleReadHandles
  <2>5. fhand' # Null
    BY <2>4, SimpleReadAssumption
  <2>6. SourceCopied'
    BY <1>1, <2>2, <2>3 DEF SourceCopied
  <2>7. fhand'.file = Null /\ fhand'.freeBuffer = TRUE
    BY <2>3
  <2>8. user \in Seq({"dev", "file", "other"})
    BY DEF RInv
  <2> QED BY <1>1, <1>2, <1>4, <2>4, <2>5, <2>6, <2>7, <2>8 DEF RInv
<1> QED BY <1>3, <1>4 DEF R!Fill

\* The end of the call frees what a failure left.
LEMMA SimpleDone ==
  ASSUME RInv, R!Done
  PROVE  RInv'
<1>1. /\ pc = "done" /\ pc' = "idle" /\ fhand # Null
      /\ UNCHANGED <<size, handles, user, status, result>>
      /\ result = Null
      /\ live = {"FHand"} \union (IF fhand.freeBuffer THEN {"Source"} ELSE {})
  BY DEF R!Done, RInv, R!env
<1>2. ResultRight'
  BY <1>1 DEF ResultRight
<1>3. CASE status \notin {"EFI_SUCCESS", "EFI_ALREADY_STARTED"}
  <2>1. fhand' = Null /\ live' = {}
    BY <1>1, <1>3 DEF R!Done, R!Error
  <2>2. handles = {}
    BY <1>1, <1>3 DEF RInv
  <2> QED BY <1>1, <1>2, <2>1, <2>2 DEF RInv
<1>4. CASE status \in {"EFI_SUCCESS", "EFI_ALREADY_STARTED"}
  <2>1. UNCHANGED <<fhand, live>>
    BY <1>4 DEF R!Done, R!Error
  <2>2. (fhand.source # Null => SourceCopied) => (fhand'.source # Null => SourceCopied')
    BY <1>1, <2>1 DEF SourceCopied
  <2>3. Followed(fhand.file, <<>>) => Followed(fhand.file, <<>>)'
    BY <1>1, <2>1 DEF Followed
  <2> QED BY <1>1, <1>2, <1>4, <2>1, <2>2, <2>3 DEF RInv
<1> QED BY <1>3, <1>4

\* The handle is closed with all it holds.
LEMMA SimpleClose ==
  ASSUME RInv, R!Close
  PROVE  RInv'
<1>1. /\ pc = "idle" /\ fhand # Null /\ fhand' = Null /\ result' = Null
      /\ UNCHANGED <<size, pc, user>>
      /\ live' = {} /\ handles' = {}
  BY DEF R!Close, RInv, R!env
<1> QED BY <1>1 DEF RInv, ResultRight

\* A step that changes nothing but the result.
LEMMA SimpleKept ==
  ASSUME RInv, UNCHANGED <<size, live, handles, pc, user, filePath, node, fileHandle, fhand, status>>,
         (fhand # Null /\ pc = "idle") \/ UNCHANGED result, ResultRight'
  PROVE  RInv'
<1>1. SourceCopied => SourceCopied'
  BY DEF SourceCopied
<1>2. Followed(fileHandle, node) => Followed(fileHandle, node)'
  BY DEF Followed
<1>3. Followed(fhand.file, <<>>) => Followed(fhand.file, <<>>)'
  BY DEF Followed
<1> QED BY <1>1, <1>2, <1>3 DEF RInv

\* From a copy in memory: ReadSize is clamped to what the copy has.
LEMMA SimpleReadCopy ==
  ASSUME RInv, NEW offset \in 0..MaxUintn, NEW n \in 0..MaxUintn, R!ReadCopy(offset, n)
  PROVE  RInv'
<1>1. /\ pc = "idle" /\ fhand # Null /\ fhand.source # Null /\ SourceCopied /\ size \in Nat
      /\ fhand \in SimpleReadHandles
      /\ UNCHANGED <<size, live, handles, pc, user, filePath, node, fileHandle, fhand, status>>
  BY DEF R!ReadCopy, RInv, R!env
<1>2. ResultRight'
  <2> DEFINE c == R!Clamped(offset, n)
  <2>1. /\ result'.offset = offset /\ result'.asked = n
        /\ result'.data = [k \in 1..c |-> IF offset + k \in DOMAIN fhand.source
                                            THEN fhand.source[offset + k] ELSE Outside]
    BY DEF R!ReadCopy
  <2>2. SUFFICES ASSUME offset + n <= MaxUintn, \A k \in DOMAIN fhand.source : fhand.source[k] # Junk
                 PROVE  result'.data = [k \in 1..Cardinality({j \in 1..n : offset + j <= size}) |-> offset + k]
    BY <1>1, <2>1, SimpleReadAssumption DEF ResultRight
  <2>3. MaxUintn \in Nat /\ offset \in Nat /\ n \in Nat
    BY SimpleReadAssumption
  <2>4. R!Uintn(offset + n) = offset + n
    BY <2>2, <2>3 DEF R!Uintn
  <2>5. c = Cardinality({j \in 1..n : offset + j <= size})
    BY <1>1, <2>3, <2>4, CellsLeft DEF R!Clamped, SourceCopied
  <2>6. c \in Nat /\ \A k \in 1..c : offset + k \in 1..size
    BY <1>1, <2>3, <2>4 DEF R!Clamped, SourceCopied
  <2> HIDE DEF c
  <2>7. DOMAIN fhand.source = 1..size
    BY <1>1 DEF SourceCopied, SimpleReadHandles
  <2>8. \A k \in 1..c : fhand.source[offset + k] = offset + k
    BY <1>1, <2>2, <2>6, <2>7 DEF SourceCopied
  <2>9. result'.data = [k \in 1..c |-> offset + k]
    BY <2>1, <2>6, <2>7, <2>8
  <2> QED BY <2>5, <2>9
<1> QED BY <1>1, <1>2, SimpleKept

\* From the file: the firmware's Read, or a failure of it or of SetPosition.
LEMMA SimpleReadFile ==
  ASSUME RInv, NEW offset \in 0..MaxUintn, NEW n \in 0..MaxUintn,
         R!ReadFile(offset, n) \/ R!ReadNull(offset, n)
  PROVE  RInv'
<1>1. /\ pc = "idle" /\ fhand # Null /\ size \in Nat
      /\ UNCHANGED <<size, live, handles, pc, user, filePath, node, fileHandle, fhand, status>>
  BY DEF R!ReadFile, R!ReadNull, RInv, R!env
<1>2. ResultRight'
  <2> DEFINE c == IF offset + n > size THEN size - offset ELSE n
  <2>1. CASE result'.status # "EFI_SUCCESS"
    BY <2>1 DEF ResultRight
  <2>2. CASE /\ offset <= size
             /\ result' = [offset |-> offset, asked |-> n, status |-> "EFI_SUCCESS",
                           data |-> [k \in 1..c |-> offset + k]]
    <3>0. offset \in Nat /\ n \in Nat
      BY SimpleReadAssumption
    <3>1. c = Cardinality({j \in 1..n : offset + j <= size})
      <4>1. c = IF offset + n > size THEN IF offset >= size THEN 0 ELSE size - offset ELSE n
        BY <1>1, <2>2, <3>0
      <4> HIDE DEF c
      <4> QED BY <1>1, <3>0, <4>1, CellsLeft
    <3> HIDE DEF c
    <3>2. /\ result'.offset = offset /\ result'.asked = n
          /\ result'.data = [k \in 1..c |-> offset + k]
      BY <2>2
    <3> QED BY <1>1, <3>1, <3>2 DEF ResultRight
  <2>3. \/ result'.status \in {"EFI_ERROR", "wild"}
        \/ /\ offset <= size
           /\ result' = [offset |-> offset, asked |-> n, status |-> "EFI_SUCCESS",
                         data |-> [k \in 1..c |-> offset + k]]
    BY DEF R!ReadFile, R!ReadNull
  <2> QED BY <2>1, <2>2, <2>3
<1> QED BY <1>1, <1>2, SimpleKept

\* The invariant of the simple read functions, in the run's composition.
THEOREM SimpleInvariant == AllSpec => []SimpleInv
<1>1. AllInit => SimpleInv
  BY SimpleInit DEF AllInit, SimpleInv
<1>2. SimpleInv /\ [AllNext]_all => SimpleInv'
  <2> SUFFICES ASSUME SimpleInv, [AllNext]_all, turn' = "simple" PROVE RInv'
    BY DEF SimpleInv
  <2>1. CASE SimpleReads
    <3>1. RInv /\ R!Next
      BY <2>1 DEF SimpleReads, SimpleInv
    <3> QED BY <3>1, SimpleOpen, SimpleLocate, SimpleWalk, SimpleWalkEnds, SimpleAskSize, SimpleFill,
               SimpleDone, SimpleReadCopy, SimpleReadFile, SimpleClose DEF R!Next, R!Step
  <2>2. CASE FileObject
    BY <2>2 DEF FileObject
  <2>3. CASE UNCHANGED all
    <3>1. RInv /\ UNCHANGED rvars
      BY <2>3 DEF SimpleInv, all
    <3>2. ResultRight'
      BY <3>1 DEF rvars, RInv, ResultRight
    <3> QED BY <3>1, <3>2, SimpleKept DEF rvars
  <2> QED BY <2>1, <2>2, <2>3 DEF AllNext
<1> QED BY <1>1, <1>2, PTL DEF AllSpec

\* Between calls the simple read functions hold the pool blocks and the open
\* files of the caller's handle and no others, however far down the path a
\* failure came (sread.c).
THEOREM SimpleReadBalancedHolds == AllSpec => []SimpleReadBalanced
<1>1. SimpleInv => SimpleReadBalanced
  BY DEF SimpleInv, RInv, SimpleReadBalanced, R!SimpleReadBalanced
<1> QED BY <1>1, SimpleInvariant, PTL

\* A successful simple read gives the cells asked for, as far as the file has
\* them, and a handle on a file is one on the file its path names, for every
\* path, size, offset and length (sread.c).
THEOREM ReadsTheFileHolds == AllSpec => []ReadsTheFile
<1>1. SimpleInv => ReadsTheFile
  <2> SUFFICES ASSUME RInv PROVE R!ReadsTheFile
    BY DEF SimpleInv, ReadsTheFile
  <2>1. ASSUME pc = "idle", fhand # Null, fhand.file # Null
        PROVE  /\ fhand.file = Cardinality({k \in DOMAIN user : user[k] = "file"})
               /\ \A k \in 2..Len(user) : user[k] = "file"
    <3>1. /\ user \in Seq({"dev", "file", "other"}) /\ fhand.file \in Nat
          /\ Len(user) = fhand.file + 1 /\ user[1] = "dev"
          /\ \A k \in 2..(fhand.file + 1) : user[k] = "file"
      BY <2>1 DEF RInv, Followed
    <3>2. {k \in DOMAIN user : user[k] = "file"} = 2..(fhand.file + 1)
      BY <3>1
    <3>3. Cardinality(2..(fhand.file + 1)) = fhand.file
      <4> DEFINE m == fhand.file + 1
      <4>1. m \in Int /\ 2 \in Int /\ fhand.file = IF 2 > m THEN 0 ELSE m - 2 + 1
        BY <3>1
      <4> HIDE DEF m
      <4>2. Cardinality(2..m) = IF 2 > m THEN 0 ELSE m - 2 + 1
        BY <4>1, FS_Interval
      <4> QED BY <4>1, <4>2 DEF m
    <3> QED BY <3>1, <3>2, <3>3
  <2>2. ResultRight
    BY DEF RInv
  <2> QED BY <2>1, <2>2, SameCardinality DEF R!ReadsTheFile, ResultRight
<1> QED BY <1>1, SimpleInvariant, PTL

=============================================================================
