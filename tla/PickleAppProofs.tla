--------------------------- MODULE PickleAppProofs ---------------------------
(***************************************************************************)
(* pickle.cc, for every \lk.elf and every memory: when each step reported  *)
(* success, control arrives at the byte of the file that e_entry names.    *)
(*                                                                         *)
(* The invariants of File and Elf hold in the composition, because each    *)
(* step of pickleTest is a step of one of them and leaves the other alone  *)
(* (FP and LP are their proofs about this program's variables).  AppInv    *)
(* adds what passes from one to the other: the bytes Read delivered are    *)
(* the image LoadImage works on, and what it placed stays in place until   *)
(* the jump, although the firmware goes on allocating and freeing pages.   *)
(***************************************************************************)
EXTENDS PickleApp, TLAPS

FP == INSTANCE FileProofs WITH Paths <- {Lk}
LP == INSTANCE ElfProofs WITH MaxLoads <- 1

\* The whole of \lk.elf is in data.
WholeFile == Data = [k \in 1..disk[Lk] |-> <<Lk, k - 1>>] /\ disk[Lk] \in Nat

\* The file LoadImage was given: the bytes of data, with the headers of \lk.elf.
ImageOfData == img.size = Len(Data) /\ img.phdrs = LkElf.phdrs /\ img.entry = LkElf.entry

\* The first segment was copied from inside the file.
FirstInside ==
  LET p == img.phdrs[1] IN i > 0 /\ p.load => p.offset + p.filesz <= img.size

\* The image is in memory, in pages that are held, and the entry point is known.
Placed ==
  /\ LP!Holding /\ loads = 1
  /\ i = Len(img.phdrs)
  /\ \A a \in LP!Addrs : a >= seg.start /\ a < seg.end => ram[a] = LP!FirstSegment(a)
  /\ FirstInside
  /\ entry = LP!EntryOf(img)

\* Where pickleTest is in the life of its File ...
FilePhase ==
  /\ apc \in {"open", "opening"} => ok = {}
  /\ apc = "read" => ok \subseteq {"open"}
  /\ fpc \in {"info", "fill"} => pos = 0
  /\ apc = "read" /\ "open" \in ok => opened /\ pos = 0
  /\ apc \in {"load", "loading"} => ok \subseteq {"open", "read"}
  /\ apc \in {"load", "loading", "jump", "jumped"} /\ {"open", "read"} \subseteq ok => WholeFile

\* ... and of its Elf.
ElfPhase ==
  /\ apc \in {"open", "opening", "read", "load", "wild"} => lpc = "idle"
  /\ apc = "loading" => lpc # "idle"
  /\ apc \in {"jump", "jumped"} => lpc = "idle"
  /\ apc \in {"loading", "jump", "jumped"} => ImageOfData /\ loads = 1
  /\ lpc = "copy" => FirstInside
  /\ LP!Succeeded => Placed
  /\ apc \in {"jump", "jumped"} /\ "load" \in ok => Placed
  /\ apc = "jumped" => target = entry

AppInv ==
  /\ apc \in {"open", "opening", "read", "wild", "load", "loading", "jump", "jumped"}
  /\ FP!FInv
  /\ LP!IInv
  /\ LP!Content
  /\ FilePhase
  /\ ElfPhase

\* The copy loop's pointer arithmetic does no harm to \lk.elf (see ElfProofs).
OnlyFirstLoads == \A k \in 2..Len(LkElf.phdrs) : ~LkElf.phdrs[k].load

-----------------------------------------------------------------------------
(* File and Elf, as the composition uses them. *)

\* The operators of Elf are those its proofs speak of.
LEMMA SameElf ==
  /\ L!Pages = LP!Pages /\ L!Addrs = LP!Addrs
  /\ L!Image = LP!Image /\ L!DefaultStart = LP!DefaultStart
  /\ \A im : L!LoadHeaders(im) = LP!LoadHeaders(im)
  /\ \A im : L!WellFormed(im) <=> LP!WellFormed(im)
<1>1. L!Pages = LP!Pages /\ L!Addrs = LP!Addrs /\ L!DefaultStart = LP!DefaultStart
  BY DEF L!Pages, LP!Pages, L!Addrs, LP!Addrs, L!DefaultStart, LP!DefaultStart
<1>2. L!Image = LP!Image
  BY DEF L!Image, LP!Image, L!ProgramHeader, LP!ProgramHeader
<1>3. ASSUME NEW im PROVE L!LoadHeaders(im) = LP!LoadHeaders(im)
  BY DEF L!LoadHeaders, LP!LoadHeaders, L!Header, LP!Header
<1>4. ASSUME NEW im PROVE L!WellFormed(im) <=> LP!WellFormed(im)
  BY <1>1 DEF L!WellFormed, LP!WellFormed
<1> QED BY <1>1, <1>2, <1>3, <1>4

LEMMA SameFind ==
  \A im : L!Extent(im) = LP!Extent(im) /\ L!EntryOf(im) = LP!EntryOf(im)
<1>1. ASSUME NEW im PROVE L!Extent(im) = LP!Extent(im)
  BY SameElf DEF L!Extent, LP!Extent, L!AlignDown, LP!AlignDown, L!AlignUp, LP!AlignUp
<1>2. ASSUME NEW im PROVE L!EntryOf(im) = LP!EntryOf(im)
  BY DEF L!EntryOf, LP!EntryOf, L!Holds, LP!Holds, L!Header, LP!Header
<1> QED BY <1>1, <1>2

\* The steps of LoadImage are those of Elf.
LEMMA SameLoadStep == L!LoadStep => LP!LoadStep
<1>1. L!ValidateElf => LP!ValidateElf
  BY DEF L!ValidateElf, LP!ValidateElf, L!Verdict, LP!Verdict, L!Fail, LP!Fail
<1>2. L!FindLOADSegment => LP!FindLOADSegment
  BY SameElf, SameFind DEF L!FindLOADSegment, LP!FindLOADSegment, L!Fail, LP!Fail
<1>3. L!AllocatePages => LP!AllocatePages
  BY SameElf DEF L!AllocatePages, LP!AllocatePages, L!Fail, LP!Fail, L!AllocatePagesOk,
     LP!AllocatePagesOk, L!Span, LP!Span, L!PageOf, LP!PageOf, L!Free, LP!Free
<1>4. L!SetMem => LP!SetMem
  BY SameElf DEF L!SetMem, LP!SetMem, L!Zero, LP!Zero, L!locals, LP!locals
<1>5. L!CopySegment => LP!CopySegment
  BY SameElf DEF L!CopySegment, LP!CopySegment, L!CopyHeader, LP!CopyHeader, L!PhEntSize,
     LP!PhEntSize, L!Copied, LP!Copied, L!Fail, LP!Fail
<1>6. L!FindEntry => LP!FindEntry
  BY SameFind DEF L!FindEntry, LP!FindEntry
<1>7. L!LoadImageFail => LP!LoadImageFail
  BY SameElf DEF L!LoadImageFail, LP!LoadImageFail, L!AfterFreePages, LP!AfterFreePages,
     L!Span, LP!Span, L!PageOf, LP!PageOf, L!Free, LP!Free, L!locals, LP!locals
<1>8. L!LoadReturn => LP!LoadReturn
  BY DEF L!LoadReturn, LP!LoadReturn, L!locals, LP!locals
<1> QED BY <1>1, <1>2, <1>3, <1>4, <1>5, <1>6, <1>7, <1>8 DEF L!LoadStep, LP!LoadStep

\* So are its call and the firmware's steps.
LEMMA SameOtherSteps ==
  /\ L!LoadInit => LP!LoadInit
  /\ \A im : L!Call(im) => LP!Call(im)
  /\ \A p : L!FwAllocate(p) => LP!FwAllocate(p)
  /\ \A p : L!FwFree(p) => LP!FwFree(p)
<1>1. L!LoadInit => LP!LoadInit
  BY SameElf DEF L!LoadInit, LP!LoadInit, L!Foreign, LP!Foreign, L!Fw, LP!Fw, L!Free, LP!Free,
     L!DefaultEnd, LP!DefaultEnd
<1>2. ASSUME NEW im PROVE L!Call(im) => LP!Call(im)
  BY SameElf DEF L!Call, LP!Call, L!DefaultEnd, LP!DefaultEnd
<1>3. ASSUME NEW p PROVE L!FwAllocate(p) => LP!FwAllocate(p)
  BY SameElf DEF L!FwAllocate, LP!FwAllocate, L!Free, LP!Free, L!Fw, LP!Fw, L!PageOf,
     LP!PageOf, L!Foreign, LP!Foreign, L!locals, LP!locals
<1>4. ASSUME NEW p PROVE L!FwFree(p) => LP!FwFree(p)
  BY DEF L!FwFree, LP!FwFree, L!Free, LP!Free, L!Fw, LP!Fw, L!locals, LP!locals
<1> QED BY <1>1, <1>2, <1>3, <1>4

\* \lk.elf satisfies what the proofs about Elf assume of a file.
LEMMA ImagesWellFormed ==
  /\ Images \subseteq LP!Image
  /\ \A im \in Images : LP!WellFormed(im) /\ im.phdrs = LkElf.phdrs /\ im.entry = LkElf.entry
<1>1. LkElf \in LP!Image /\ LP!WellFormed(LkElf) /\ MaxLen \in Nat
  BY AppAssumption, SameElf
<1> SUFFICES ASSUME NEW im \in Images
             PROVE  /\ im \in LP!Image
                    /\ LP!WellFormed(im) /\ im.phdrs = LkElf.phdrs /\ im.entry = LkElf.entry
  OBVIOUS
<1>2. \E n \in 0..MaxLen, b \in BOOLEAN, z \in BOOLEAN : im = Variant(n, b, z)
  BY DEF Images
<1>3. ASSUME NEW n \in 0..MaxLen, NEW b \in BOOLEAN, NEW z \in BOOLEAN
      PROVE  /\ Variant(n, b, z) \in LP!Image
             /\ Variant(n, b, z).phdrs = LkElf.phdrs /\ Variant(n, b, z).entry = LkElf.entry
             /\ Variant(n, b, z).beyond = LkElf.beyond
  BY <1>1 DEF LP!Image, Variant
<1> QED BY <1>1, <1>2, <1>3 DEF LP!WellFormed

LEMMA ElfConstants == NPages \in Nat \ {0} /\ PageSize \in Nat \ {0} /\ 1 \in Nat
BY AppAssumption

LEMMA ElfSteps ==
  ASSUME OnlyFirstLoads, LP!IInv, LP!Content, LP!LoadNext \/ UNCHANGED elfVars
  PROVE  LP!IInv' /\ LP!Content'
<1>1. [LP!LoadNext]_(LP!loadVars)
  BY DEF LP!loadVars, elfVars
<1>2. LP!OnlyFirstLoads
  BY ImagesWellFormed DEF OnlyFirstLoads, LP!OnlyFirstLoads
<1>3. LP!IInv'
  BY <1>1, ElfConstants, ImagesWellFormed, LP!NextIInv
<1>4. LP!Content'
  BY <1>1, <1>2, ElfConstants, ImagesWellFormed, LP!NextContent
<1> QED BY <1>3, <1>4

\* The operators of File and of its arrays are those its proofs speak of.
LEMMA SameHeap ==
  /\ F!A!Heap = FP!A!Heap
  /\ \A h, a, n : F!A!Allocate(h, a, n) = FP!A!Allocate(h, a, n)
  /\ \A h, a, val, n : F!A!Copy(h, a, val, n) = FP!A!Copy(h, a, val, n)
  /\ \A h : F!A!Becomes(h) <=> FP!A!Becomes(h)
<1>1. F!A!Heap = FP!A!Heap
  BY DEF F!A!Heap, FP!A!Heap
<1>2. ASSUME NEW h, NEW a PROVE F!A!Deallocate(h, a) = FP!A!Deallocate(h, a)
  BY DEF F!A!Deallocate, FP!A!Deallocate, F!A!FreePool, FP!A!FreePool, F!A!Allocated,
     FP!A!Allocated, F!A!Empty, FP!A!Empty
<1>3. ASSUME NEW h, NEW a, NEW n PROVE F!A!Allocate(h, a, n) = FP!A!Allocate(h, a, n)
  <2>1. \A b : F!A!AllocateOk(h, a, n, b) = FP!A!AllocateOk(h, a, n, b)
    BY <1>2 DEF F!A!AllocateOk, FP!A!AllocateOk, F!A!AllocatePool, FP!A!AllocatePool
  <2>2. F!A!AllocateFails(h, a) = FP!A!AllocateFails(h, a)
    BY <1>2 DEF F!A!AllocateFails, FP!A!AllocateFails
  <2>3. \A b : F!A!Allocated(F!A!Deallocate(h, a), b) <=> FP!A!Allocated(FP!A!Deallocate(h, a), b)
    BY <1>2 DEF F!A!Allocated, FP!A!Allocated
  <2> QED BY <2>1, <2>2, <2>3, Zenon DEF F!A!Allocate, FP!A!Allocate
<1>4. ASSUME NEW h, NEW a, NEW val, NEW n
      PROVE  F!A!Copy(h, a, val, n) = FP!A!Copy(h, a, val, n)
  BY DEF F!A!Copy, FP!A!Copy, F!A!CopyLen, FP!A!CopyLen, F!A!Allocated, FP!A!Allocated,
     F!A!Overwrite, FP!A!Overwrite
<1>5. ASSUME NEW h PROVE F!A!Becomes(h) <=> FP!A!Becomes(h)
  BY DEF F!A!Becomes, FP!A!Becomes
<1> QED BY <1>1, <1>2, <1>3, <1>4, <1>5, Zenon

LEMMA SameNames ==
  /\ F!Size = FP!Size
  /\ F!InfoArray = FP!InfoArray /\ F!OutBuffer = FP!OutBuffer
  /\ F!Cells = FP!Cells /\ F!Missing = FP!Missing /\ F!InfoCell = FP!InfoCell
  /\ Data = FP!A!Contents(FP!OutBuffer)
  /\ Data' = FP!A!Contents(FP!OutBuffer)'
BY DEF F!Size, FP!Size, F!InfoArray, FP!InfoArray, F!OutBuffer, FP!OutBuffer, F!Cells, FP!Cells,
   F!Missing, FP!Missing, F!InfoCell, FP!InfoCell, Data, F!A!Contents, FP!A!Contents

\* The calls of pickleTest on its File are steps of File.
LEMMA SameFileSteps ==
  /\ F!Init => FP!Init
  /\ F!CallOpen(Lk) => FP!CallOpen(Lk)
  /\ F!OpenStep => FP!OpenStep
  /\ F!ReadAll => FP!ReadAll
<1>1. F!Init => FP!Init
  BY SameNames DEF F!Init, FP!Init, F!A!Empty, FP!A!Empty
<1>2. F!CallOpen(Lk) => FP!CallOpen(Lk)
  BY DEF F!CallOpen, FP!CallOpen, F!fwVars, FP!fwVars, F!heapVars, FP!heapVars
<1>3. F!OpenRoot => FP!OpenRoot
  BY DEF F!OpenRoot, FP!OpenRoot, F!Return, FP!Return, F!heapVars, FP!heapVars
<1>4. F!OpenFile => FP!OpenFile
  BY SameNames DEF F!OpenFile, FP!OpenFile, F!Return, FP!Return, F!heapVars, FP!heapVars
<1>5. F!GetInfoSize => FP!GetInfoSize
  BY SameHeap, SameNames, Zenon DEF F!GetInfoSize, FP!GetInfoSize, F!Return, FP!Return,
     F!heapVars, FP!heapVars, F!fwVars, FP!fwVars
<1>6. F!GetInfo => FP!GetInfo
  BY SameHeap, SameNames DEF F!GetInfo, FP!GetInfo, F!Return, FP!Return,
     F!heapVars, FP!heapVars, F!fwVars, FP!fwVars
<1>7. ASSUME NEW n PROVE F!Read(n) => FP!Read(n)
  <2>1. F!Delivered(n) = FP!Delivered(n)
    BY DEF F!Delivered, FP!Delivered, F!Left, FP!Left
  <2> QED BY <2>1, SameHeap, SameNames, Zenon DEF F!Read, FP!Read, F!Return, FP!Return
<1>8. F!ReadAll => FP!ReadAll
  BY <1>7, SameNames DEF F!ReadAll, FP!ReadAll
<1> QED BY <1>1, <1>2, <1>3, <1>4, <1>5, <1>6, <1>8 DEF F!OpenStep, FP!OpenStep

LEMMA FileConstants ==
  /\ MaxLen \in Nat \ {0}
  /\ Null \notin Blocks \union Handles
  /\ Junk \notin FP!Cells
  /\ Freed \notin Seq(FP!Cells \union {Junk})
BY AppAssumption, SameNames

LEMMA FileSteps ==
  ASSUME FP!FInv, FP!CallOpen(Lk) \/ FP!OpenStep \/ FP!ReadAll
  PROVE  FP!FInv'
<1>1. FP!Next
  BY DEF FP!Next
<1> QED BY <1>1, FileConstants, FP!FileNext

\* What is in data, as far as its length goes.
LEMMA DataLength ==
  ASSUME FP!FInv
  PROVE  Len(Data) \in 0..MaxLen
<1>1. FP!HeapSound /\ FP!OutBuffer \in FP!Two
  BY DEF FP!FInv, FP!Two
<1> QED BY <1>1, SameNames, FileConstants, FP!ContentsLength

-----------------------------------------------------------------------------
(* The invariant, one lemma per action. *)

LEMMA AppInit == Init => AppInv
<1> SUFFICES ASSUME Init PROVE AppInv
  OBVIOUS
<1>1. FP!FInv
  <2>1. FP!Init
    BY SameFileSteps DEF Init
  <2> QED BY <2>1, FileConstants, FP!FileInit
<1>2. LP!LoadInit
  BY SameOtherSteps DEF Init
<1>3. LP!IInv
  BY <1>2, ElfConstants, ImagesWellFormed, LP!InitIInv
<1>4. lpc = "idle" /\ fpc = "idle" /\ ok = {} /\ apc = "open"
  BY DEF Init, F!Init, L!LoadInit
<1>5. LP!Content
  BY <1>4 DEF LP!Content, LP!Succeeded
<1> QED BY <1>1, <1>3, <1>4, <1>5 DEF AppInv, FilePhase, ElfPhase, LP!Succeeded

\* A step on the File leaves the Elf as it is.
LEMMA ElfKept ==
  ASSUME OnlyFirstLoads, AppInv, UNCHANGED <<elfVars, target>>,
         apc \in {"open", "opening", "read"},
         apc' \in {"opening", "read", "load", "wild"}
  PROVE  LP!IInv' /\ LP!Content' /\ ElfPhase'
<1>1. LP!IInv' /\ LP!Content'
  BY ElfSteps DEF AppInv
<1>2. lpc' = "idle"
  BY DEF AppInv, ElfPhase, elfVars
<1> QED BY <1>1, <1>2 DEF ElfPhase, LP!Succeeded

LEMMA AppOpen ==
  ASSUME OnlyFirstLoads, AppInv, Open
  PROVE  AppInv'
<1>1. FP!CallOpen(Lk)
  BY SameFileSteps DEF Open
<1>2. FP!FInv'
  BY <1>1, FileSteps DEF AppInv
<1>3. fpc' \in {"root", "open"}
  BY <1>1 DEF FP!CallOpen
<1>4. LP!IInv' /\ LP!Content' /\ ElfPhase'
  BY ElfKept DEF Open
<1>5. FilePhase'
  BY <1>3 DEF Open, AppInv, FilePhase
<1> QED BY <1>2, <1>4, <1>5 DEF AppInv, Open

LEMMA AppOpening ==
  ASSUME OnlyFirstLoads, AppInv, Opening
  PROVE  AppInv'
<1>1. FP!OpenStep
  BY SameFileSteps DEF Opening
<1>2. FP!FInv'
  BY <1>1, FileSteps DEF AppInv
<1>3. /\ fpc' \in {"info", "fill"} => pos' = 0
      /\ fpc' = "idle" /\ fstatus' = "EFI_SUCCESS" => opened' /\ pos' = 0
  <2>1. FP!FInv /\ (fpc \in {"info", "fill"} => pos = 0)
    BY DEF AppInv, FilePhase
  <2> QED BY <1>1, <2>1, FileConstants, FP!OpenSucceeds
<1>4. LP!IInv' /\ LP!Content' /\ ElfPhase'
  BY ElfKept DEF Opening
<1>5. FilePhase'
  BY <1>3 DEF Opening, AppInv, FilePhase
<1> QED BY <1>2, <1>4, <1>5 DEF AppInv, Opening

\* The first Read after a successful Open delivers the whole file.
LEMMA AppRead ==
  ASSUME OnlyFirstLoads, AppInv, Read
  PROVE  AppInv'
<1>1. FP!ReadAll
  BY SameFileSteps DEF Read
<1>2. FP!FInv /\ FP!FInv'
  BY <1>1, FileSteps DEF AppInv
<1>3. fpc' = "idle" /\ disk' = disk
  BY <1>1 DEF FP!ReadAll, FP!Read, FP!Return
<1>4. ASSUME {"open", "read"} \subseteq ok' PROVE WholeFile'
  <2>1. opened /\ pos = 0 /\ fstatus' = "EFI_SUCCESS"
    BY <1>4 DEF Read, AppInv, FilePhase
  <2>2. FP!A!Contents(FP!OutBuffer)' = [k \in 1..disk[req] |-> <<req, k - 1>>]
    BY <1>1, <1>2, <2>1, FileConstants, FP!FirstReadWhole
  <2>3. req = Lk /\ disk[Lk] \in Nat
    BY <1>2, <2>1, FileConstants DEF FP!FInv, FP!TypeOK, FP!Missing
  <2> QED BY <1>3, <2>2, <2>3, SameNames DEF WholeFile
<1>5. LP!IInv' /\ LP!Content' /\ ElfPhase'
  BY ElfKept DEF Read
<1>6. FilePhase'
  BY <1>3, <1>4 DEF Read, AppInv, FilePhase
<1> QED BY <1>2, <1>5, <1>6 DEF AppInv, Read

LEMMA AppReadClosed ==
  ASSUME OnlyFirstLoads, AppInv, ReadClosed
  PROVE  AppInv'
<1>1. PICK n \in F!Size : \E h \in F!A!Allocate(F!A!Heap, F!OutBuffer, n) : F!A!Becomes(h)
  BY DEF ReadClosed
<1>2. PICK h \in F!A!Allocate(F!A!Heap, F!OutBuffer, n) : F!A!Becomes(h)
  BY <1>1
<1>3. FP!FInv
  BY DEF AppInv
<1>4. n \in 0..MaxLen
  BY <1>1, <1>3, SameNames, FileConstants, FP!SizeKnown
<1>5. h \in FP!A!Allocate(FP!A!Heap, FP!OutBuffer, n) /\ FP!A!Becomes(h)
  BY <1>2, SameHeap, SameNames, Zenon
<1>6. UNCHANGED <<disk, open, path, pos, root, file, fpc, req, fstatus, readSize, opened>>
  BY DEF ReadClosed
<1>7. FP!FInv'
  BY <1>3, <1>4, <1>5, <1>6, FileConstants, FP!FileAllocates
<1>8. apc = "read" /\ apc' \in {"load", "wild"} /\ UNCHANGED <<elfVars, ok, target>>
  BY DEF ReadClosed
<1>9. LP!IInv' /\ LP!Content' /\ ElfPhase'
  BY <1>8, ElfKept
<1>10. FilePhase'
  BY <1>6, <1>8 DEF AppInv, FilePhase
<1> QED BY <1>7, <1>8, <1>9, <1>10 DEF AppInv

\* A step that leaves the File alone.
LEMMA FileUntouched ==
  ASSUME AppInv, UNCHANGED fileVars
  PROVE  FP!FInv' /\ Data' = Data /\ disk' = disk
<1>1. UNCHANGED FP!fvars
  BY DEF fileVars, FP!fvars, FP!fwVars, FP!heapVars
<1>2. FP!FInv'
  BY <1>1, FileConstants, FP!FileKept DEF AppInv
<1> QED BY <1>2 DEF fileVars, Data, F!A!Contents, F!OutBuffer

\* LoadImage is called with the bytes of data.
LEMMA AppLoad ==
  ASSUME OnlyFirstLoads, AppInv, Load
  PROVE  AppInv'
<1>1. FP!FInv' /\ Data' = Data /\ disk' = disk
  BY FileUntouched DEF Load
<1>2. PICK im \in Image : L!Call(im)
  BY DEF Load
<1>3. /\ im \in Images
      /\ im.size = Len(Data) /\ im.phdrs = LkElf.phdrs /\ im.entry = LkElf.entry
  <2>1. PICK b \in BOOLEAN, z \in BOOLEAN : im = Variant(Len(Data), b, z)
    <3>1. LkElf.ident \in BOOLEAN
      BY AppAssumption DEF L!Image
    <3> QED BY <1>2, <3>1 DEF Image
  <2>2. Len(Data) \in 0..MaxLen
    BY DataLength DEF AppInv
  <2>3. im \in Images
    BY <2>1, <2>2 DEF Images
  <2>4. im.size = Len(Data) /\ im.phdrs = LkElf.phdrs /\ im.entry = LkElf.entry
    BY <2>1 DEF Variant
  <2> QED BY <2>3, <2>4
<1>4. LP!Call(im)
  BY <1>2, SameOtherSteps
<1>5. LP!LoadNext
  BY <1>3, <1>4 DEF LP!LoadNext
<1>6. LP!IInv' /\ LP!Content'
  BY <1>5, ElfSteps DEF AppInv
<1>7. lpc' = "validate" /\ img' = im /\ loads' = 1
  BY <1>4, <1>6 DEF LP!Call, AppInv, LP!IInv, LP!LoadTypeOK
<1>8. ElfPhase'
  BY <1>1, <1>3, <1>7 DEF Load, ElfPhase, ImageOfData, LP!Succeeded
<1>9. FilePhase'
  BY <1>1 DEF Load, AppInv, FilePhase, WholeFile, fileVars
<1> QED BY <1>1, <1>6, <1>8, <1>9 DEF AppInv, Load

\* A step of LoadImage: when it comes to its end with success, the image is in
\* place.
LEMMA LoadPlaces ==
  ASSUME OnlyFirstLoads, AppInv, LP!LoadStep, loads = 1, LP!IInv', LP!Content'
  PROVE  /\ UNCHANGED <<img, loads>>
         /\ lpc' = "copy" => FirstInside'
         /\ LP!Succeeded' => Placed'
         /\ lpc' = "idle" /\ lstatus = "EFI_SUCCESS" => Placed'
<1>1. UNCHANGED <<img, loads>>
  BY DEF LP!LoadStep, LP!ValidateElf, LP!FindLOADSegment, LP!AllocatePages, LP!SetMem,
     LP!CopySegment, LP!FindEntry, LP!LoadImageFail, LP!LoadReturn, LP!locals
<1>2. img \in Images /\ img.phdrs \in Seq(LP!ProgramHeader) /\ i \in 0..Len(img.phdrs)
  BY ImagesWellFormed DEF AppInv, LP!IInv, LP!LoadTypeOK, LP!Image
<1>3. lpc' = "copy" => FirstInside'
  <2>1. CASE LP!SetMem
    <3>1. i' = 0
      BY <2>1 DEF LP!SetMem, LP!locals, AppInv, LP!IInv, LP!Accounted
    <3> QED BY <3>1 DEF FirstInside
  <2>2. CASE LP!CopySegment
    <3> DEFINE p == LP!CopyHeader(img, i)
    <3>1. lpc = "copy" /\ i \in 0..(Len(img.phdrs) - 1)
      BY <1>2, <2>2 DEF LP!CopySegment
    <3>2. LP!OnlyFirstLoads
      BY ImagesWellFormed DEF OnlyFirstLoads, LP!OnlyFirstLoads
    <3>3. i = 0 => p = img.phdrs[1]
      BY <1>2, <3>1, <3>2, ElfConstants, ImagesWellFormed, LP!OnlyFirstCopied
    <3>4. FirstInside
      BY <3>1 DEF AppInv, ElfPhase
    <3>5. lpc' = "copy" => ~p.load \/ p.offset + p.filesz <= img.size
      BY <2>2, <3>1 DEF LP!CopySegment, LP!Fail
    <3> HIDE DEF p
    <3> QED BY <1>1, <3>1, <3>3, <3>4, <3>5 DEF FirstInside
  <2>3. CASE ~LP!SetMem /\ ~LP!CopySegment
    BY <2>3 DEF LP!LoadStep, LP!ValidateElf, LP!FindLOADSegment, LP!AllocatePages,
       LP!FindEntry, LP!LoadImageFail, LP!LoadReturn, LP!Fail
  <2> QED BY <2>1, <2>2, <2>3
<1>4. LP!Succeeded' => Placed'
  <2> SUFFICES ASSUME LP!Succeeded' PROVE Placed'
    OBVIOUS
  <2>1. LP!FindEntry
    <3>1. lpc' = "done" /\ lstatus' = "EFI_SUCCESS"
      BY DEF LP!Succeeded
    <3>2. ~LP!LoadImageFail
      BY <3>1 DEF LP!LoadImageFail, LP!locals, AppInv, LP!IInv, LP!Accounted, LP!Failing
    <3> QED BY <3>1, <3>2 DEF LP!LoadStep, LP!ValidateElf, LP!FindLOADSegment,
               LP!AllocatePages, LP!SetMem, LP!CopySegment, LP!LoadReturn, LP!Fail, AppInv
  <2>2. FirstInside
    BY <2>1 DEF LP!FindEntry, AppInv, ElfPhase
  <2>3. FirstInside' /\ entry' = LP!EntryOf(img)
    BY <2>1, <2>2 DEF LP!FindEntry, FirstInside
  <2>4. LP!Holding' /\ i' = Len(img'.phdrs)
    BY DEF LP!IInv, LP!Accounted
  <2>5. \A a \in LP!Addrs : a >= seg'.start /\ a < seg'.end => ram'[a] = LP!FirstSegment(a)'
    BY DEF LP!Content
  <2> QED BY <1>1, <2>3, <2>4, <2>5 DEF Placed
<1>5. lpc' = "idle" /\ lstatus = "EFI_SUCCESS" => Placed'
  <2> SUFFICES ASSUME lpc' = "idle", lstatus = "EFI_SUCCESS" PROVE Placed'
    OBVIOUS
  <2>1. LP!LoadReturn
    <3>1. ~LP!CopySegment
      BY DEF LP!CopySegment, LP!Fail
    <3> QED BY <3>1 DEF LP!LoadStep, LP!ValidateElf, LP!FindLOADSegment, LP!AllocatePages, LP!SetMem,
       LP!FindEntry, LP!LoadImageFail, LP!Fail
  <2>2. LP!Succeeded /\ UNCHANGED <<ram, owner, base, loads, img, seg, pages, i, lstatus, entry>>
    BY <2>1 DEF LP!LoadReturn, LP!Succeeded, LP!locals
  <2>3. Placed
    BY <2>2 DEF AppInv, ElfPhase
  <2> QED BY <2>2, <2>3 DEF Placed, LP!Holding, LP!Found, LP!FirstSegment, FirstInside
<1> QED BY <1>1, <1>3, <1>4, <1>5

LEMMA AppLoading ==
  ASSUME OnlyFirstLoads, AppInv, Loading
  PROVE  AppInv'
<1>1. FP!FInv' /\ Data' = Data /\ disk' = disk
  BY FileUntouched DEF Loading
<1>2. LP!LoadStep /\ LP!LoadNext
  BY SameLoadStep DEF Loading, LP!LoadNext
<1>3. LP!IInv' /\ LP!Content'
  BY <1>2, ElfSteps DEF AppInv
<1>4. ImageOfData /\ loads = 1 /\ apc = "loading"
  BY DEF Loading, AppInv, ElfPhase
<1>5. /\ UNCHANGED <<img, loads>>
      /\ lpc' = "copy" => FirstInside'
      /\ LP!Succeeded' => Placed'
      /\ lpc' = "idle" /\ lstatus = "EFI_SUCCESS" => Placed'
  BY <1>2, <1>3, <1>4, LoadPlaces
<1>6. ImageOfData'
  BY <1>1, <1>4, <1>5 DEF ImageOfData
<1>7. ok \subseteq {"open", "read"}
  BY <1>4 DEF AppInv, FilePhase
<1>8. ElfPhase'
  BY <1>4, <1>5, <1>6, <1>7 DEF Loading, ElfPhase
<1>9. FilePhase'
  BY <1>1, <1>4, <1>7 DEF Loading, AppInv, FilePhase, WholeFile, fileVars
<1>10. apc' \in {"loading", "jump"}
  BY DEF Loading
<1> QED BY <1>1, <1>3, <1>8, <1>9, <1>10 DEF AppInv

LEMMA AppJump ==
  ASSUME OnlyFirstLoads, AppInv, Jump
  PROVE  AppInv'
<1>1. FP!FInv' /\ Data' = Data /\ disk' = disk
  BY FileUntouched DEF Jump
<1>2. LP!IInv' /\ LP!Content'
  BY ElfSteps DEF AppInv, Jump
<1>3. UNCHANGED <<ram, owner, base, loads, lpc, img, seg, pages, i, lstatus, entry, ok, fpc, pos>>
  BY DEF Jump, elfVars, fileVars
<1>4. (ImageOfData' <=> ImageOfData) /\ (Placed' <=> Placed)
  BY <1>1, <1>3 DEF ImageOfData, Placed, LP!Holding, LP!Found, LP!FirstSegment, FirstInside
<1>5. ElfPhase'
  BY <1>3, <1>4 DEF Jump, AppInv, ElfPhase, LP!Succeeded
<1>6. FilePhase'
  BY <1>1, <1>3 DEF Jump, AppInv, FilePhase, WholeFile
<1> QED BY <1>1, <1>2, <1>5, <1>6 DEF AppInv, Jump

\* The firmware's allocations do not disturb an image that has been placed.
LEMMA AppFirmware ==
  ASSUME OnlyFirstLoads, AppInv, Firmware
  PROVE  AppInv'
<1>1. FP!FInv' /\ Data' = Data /\ disk' = disk
  BY FileUntouched DEF Firmware
<1>2. PICK p \in LP!Pages : LP!FwAllocate(p) \/ LP!FwFree(p)
  BY SameElf, SameOtherSteps DEF Firmware
<1>3. LP!IInv /\ LP!IInv' /\ LP!Content'
  BY <1>2, ElfSteps DEF AppInv, LP!LoadNext
<1>4. UNCHANGED <<base, loads, lpc, img, seg, pages, i, lstatus, entry, apc, ok, target, fpc, pos, opened>>
  BY <1>2 DEF Firmware, LP!FwAllocate, LP!FwFree, LP!locals, fileVars
<1>5. Placed => Placed'
  <2> SUFFICES ASSUME Placed PROVE Placed'
    OBVIOUS
  <2>1. LP!Holding /\ loads > 0
    BY DEF Placed
  <2>2. LP!Holding' /\ \A a \in LP!Addrs : a >= seg.start /\ a < seg.end => ram'[a] = ram[a]
    BY <1>2, <1>3, <2>1, ElfConstants, ImagesWellFormed, LP!FirmwareKeepsImage
  <2> QED BY <1>4, <2>2 DEF Placed, LP!FirstSegment, FirstInside
<1>6. (ImageOfData' <=> ImageOfData) /\ (LP!Succeeded' <=> LP!Succeeded) /\ (FirstInside' <=> FirstInside)
  BY <1>1, <1>4 DEF ImageOfData, LP!Succeeded, FirstInside
<1>7. ElfPhase'
  BY <1>4, <1>5, <1>6 DEF AppInv, ElfPhase
<1>8. FilePhase'
  BY <1>1, <1>4 DEF AppInv, FilePhase, WholeFile
<1> QED BY <1>1, <1>3, <1>4, <1>7, <1>8 DEF AppInv

LEMMA AppStutter ==
  ASSUME OnlyFirstLoads, AppInv, UNCHANGED vars
  PROVE  AppInv'
<1>1. UNCHANGED <<fileVars, elfVars, apc, ok, target>>
  BY DEF vars
<1>2. FP!FInv' /\ Data' = Data /\ disk' = disk
  BY <1>1, FileUntouched
<1>3. LP!IInv' /\ LP!Content'
  BY <1>1, ElfSteps DEF AppInv
<1>4. UNCHANGED <<ram, owner, base, loads, lpc, img, seg, pages, i, lstatus, entry, fpc, pos, opened>>
  BY <1>1 DEF elfVars, fileVars
<1>5. /\ ImageOfData' <=> ImageOfData
      /\ Placed' <=> Placed
      /\ LP!Succeeded' <=> LP!Succeeded
      /\ FirstInside' <=> FirstInside
  BY <1>2, <1>4 DEF ImageOfData, Placed, LP!Holding, LP!Found, LP!FirstSegment, LP!Succeeded, FirstInside
<1>6. ElfPhase'
  BY <1>1, <1>4, <1>5 DEF AppInv, ElfPhase
<1>7. FilePhase'
  BY <1>1, <1>2, <1>4 DEF AppInv, FilePhase, WholeFile
<1> QED BY <1>1, <1>2, <1>3, <1>6, <1>7 DEF AppInv

\* The invariant of the composition, in every state of every behaviour
\* (apps/pickle.cc, pickleTest).
THEOREM AppInvariant ==
  ASSUME OnlyFirstLoads
  PROVE  Spec => []AppInv
<1>1. AppInv /\ [Next]_vars => AppInv'
  BY AppOpen, AppOpening, AppRead, AppReadClosed, AppLoad, AppLoading, AppJump, AppFirmware,
     AppStutter DEF Next, AppStep
<1> QED BY <1>1, AppInit, PTL DEF Spec

-----------------------------------------------------------------------------
(* The jump. *)

\* The first segment translates an e_entry inside it.
LEMMA EntryInFirst ==
  ASSUME OnlyFirstLoads, NEW im \in Images, NEW p \in LP!LoadHeaders(im),
         im.entry \in p.vaddr..(p.vaddr + p.filesz - 1)
  PROVE  /\ p = im.phdrs[1] /\ p.load /\ Len(im.phdrs) > 0
         /\ LP!EntryOf(im) = p.paddr + (im.entry - p.vaddr)
<1>1. im.phdrs = LkElf.phdrs /\ im.phdrs \in Seq(LP!ProgramHeader) /\ im.entry \in Nat
  BY ImagesWellFormed DEF LP!Image
<1>2. ASSUME NEW k \in 0..(Len(im.phdrs) - 1), LP!Header(im, k).load PROVE k = 0
  <2>1. k > 0 => k + 1 \in 2..Len(im.phdrs)
    BY <1>1
  <2> QED BY <1>1, <1>2, <2>1 DEF OnlyFirstLoads, LP!Header
<1>3. p = LP!Header(im, 0) /\ p.load /\ 0 \in 0..(Len(im.phdrs) - 1)
  <2>1. PICK k \in 0..(Len(im.phdrs) - 1) : p = LP!Header(im, k) /\ p.load
    BY DEF LP!LoadHeaders
  <2> QED BY <1>2, <2>1
<1>4. p \in LP!ProgramHeader /\ p.filesz <= p.memsz
  BY ElfConstants, ImagesWellFormed, LP!LoadHeadersWellFormed
<1>5. LP!Holds(p, im.entry)
  BY <1>1, <1>3, <1>4 DEF LP!Holds, LP!ProgramHeader
<1> DEFINE hits == {k \in 0..(Len(im.phdrs) - 1) : LP!Holds(LP!Header(im, k), im.entry)}
<1>6. hits = {0}
  BY <1>2, <1>3, <1>5 DEF LP!Holds
<1>7. (CHOOSE k \in hits : \A j \in hits : k <= j) = 0
  BY <1>6
<1>8. LP!EntryOf(im) = p.paddr + (im.entry - p.vaddr)
  BY <1>3, <1>6, <1>7 DEF LP!EntryOf
<1> QED BY <1>1, <1>3, <1>8 DEF LP!Header

LEMMA AppInvJumps ==
  ASSUME OnlyFirstLoads, AppInv
  PROVE  JumpsToEntryOfFile
<1> SUFFICES ASSUME apc = "jumped", ok = {"open", "read", "load"},
                    NEW p \in L!LoadHeaders(LkElf),
                    LkElf.entry \in p.vaddr..(p.vaddr + p.filesz - 1)
             PROVE  /\ target \in L!Addrs
                    /\ ram[target] + 1 \in DOMAIN Data
                    /\ Data[ram[target] + 1] = <<Lk, p.offset + (LkElf.entry - p.vaddr)>>
  BY DEF JumpsToEntryOfFile
<1>1. Placed /\ ImageOfData /\ WholeFile /\ target = entry
  BY DEF AppInv, ElfPhase, FilePhase
<1>2. img \in Images /\ img.phdrs = LkElf.phdrs /\ img.entry = LkElf.entry
  BY <1>1 DEF AppInv, LP!IInv, LP!LoadTypeOK, ImageOfData
<1>3. p \in LP!LoadHeaders(img)
  BY <1>2, SameElf DEF LP!LoadHeaders, LP!Header
<1>4. /\ p = img.phdrs[1] /\ p.load /\ Len(img.phdrs) > 0
      /\ target = p.paddr + (LkElf.entry - p.vaddr)
  BY <1>1, <1>2, <1>3, EntryInFirst DEF Placed
<1>5. /\ p \in LP!ProgramHeader
      /\ p.filesz <= p.memsz /\ p.paddr + p.memsz <= LP!DefaultStart
  BY <1>2, <1>3, ElfConstants, ImagesWellFormed, LP!LoadHeadersWellFormed
<1> DEFINE d == LkElf.entry - p.vaddr
<1>6. /\ p.offset \in Nat /\ p.paddr \in Nat /\ p.filesz \in Nat /\ p.memsz \in Nat
      /\ d \in 0..(p.filesz - 1)
  BY <1>5 DEF LP!ProgramHeader
<1>7. LP!DefaultStart \in Nat /\ LP!Addrs = 0..(LP!DefaultStart - 1)
  BY ElfConstants DEF LP!DefaultStart, LP!Addrs
<1> HIDE DEF d
<1>8. target = p.paddr + d /\ target \in LP!Addrs
  BY <1>4, <1>5, <1>6, <1>7 DEF d
<1>9. seg.start <= p.paddr /\ p.paddr + p.memsz <= seg.end
  <2>1. LP!Found
    BY <1>1 DEF Placed, LP!Holding
  <2> QED BY <1>2, <1>3, <2>1, ElfConstants, ImagesWellFormed, LP!FoundFacts
<1>10. seg.start \in Nat /\ seg.end \in Nat
  BY <1>7 DEF AppInv, LP!IInv, LP!LoadTypeOK
<1>11. ram[target] = p.offset + d
  <2>1. target >= seg.start /\ target < seg.end
    BY <1>5, <1>6, <1>8, <1>9, <1>10
  <2>2. ram[target] = LP!FirstSegment(target)
    BY <1>1, <1>8, <2>1 DEF Placed
  <2>3. i > 0
    BY <1>1, <1>4 DEF Placed
  <2>4. target >= p.paddr /\ target < p.paddr + p.filesz /\ target - p.paddr = d
    BY <1>6, <1>8
  <2> QED BY <1>4, <2>2, <2>3, <2>4 DEF LP!FirstSegment
<1>12. p.offset + p.filesz <= Len(Data)
  <2>1. i > 0
    BY <1>1, <1>4 DEF Placed
  <2> QED BY <1>1, <1>4, <2>1 DEF Placed, FirstInside, ImageOfData
<1>13. Data = [k \in 1..disk[Lk] |-> <<Lk, k - 1>>] /\ disk[Lk] \in Nat /\ Len(Data) = disk[Lk]
  BY <1>1 DEF WholeFile
<1>14. ram[target] + 1 \in 1..disk[Lk] /\ (ram[target] + 1) - 1 = p.offset + d
  BY <1>6, <1>11, <1>12, <1>13
<1>15. ram[target] + 1 \in DOMAIN Data /\ Data[ram[target] + 1] = <<Lk, p.offset + d>>
  BY <1>13, <1>14
<1> QED BY <1>8, <1>15, SameElf DEF d

\* When every step reported success, pickleTest jumps to the byte of \lk.elf
\* that e_entry names: for every \lk.elf in which only the first program header
\* is PT_LOAD, every memory, and whatever the firmware allocates in between
\* (apps/pickle.cc).
THEOREM JumpsToEntryOfFileHolds ==
  ASSUME OnlyFirstLoads
  PROVE  Spec => []JumpsToEntryOfFile
<1>1. AppInv => JumpsToEntryOfFile
  BY AppInvJumps
<1> QED BY <1>1, AppInvariant, PTL

=============================================================================
