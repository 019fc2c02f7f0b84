----------------------------- MODULE FileProofs -----------------------------
(***************************************************************************)
(* The File object, for all paths, sizes and orders of calls and failures. *)
(*                                                                         *)
(* That Size() is the size of the file open now needs to know what         *)
(* _fileInfo holds at every point of Open, and that its contents survive   *)
(* every call on the caller's buffer, which lives in the same pool.  The   *)
(* lemmas about DynamicArray are used for both arrays through H.  FInv is  *)
(* the inductive invariant; there is one lemma per action.                 *)
(***************************************************************************)
EXTENDS File, TLAPS

H == INSTANCE DynamicArrayProofs WITH
       Arrays <- {InfoArray, OutBuffer}, Vals <- Cells,
       live <- {InfoArray, OutBuffer}, status <- fstatus

Two == {InfoArray, OutBuffer}

HeapSound == H!Sound(A!Heap, Two)

\* What _fileInfo may hold: nothing, an unfilled block, or the information of
\* a file that is there.
InfoShape ==
  \/ arr[InfoArray].data = Null
  \/ A!Contents(InfoArray) = <<Junk>>
  \/ \E p \in Paths : disk[p] # Missing /\ A!Contents(InfoArray) = <<<<p, InfoCell>>>>

FInv ==
  /\ TypeOK
  /\ HeapSound
  /\ disk \in [Paths -> 0..(MaxLen - 1) \union {Missing}]
  /\ open = {root, file} \ {Null}
  /\ root = file => root = Null
  /\ file # Null => disk[path] # Missing /\ pos <= disk[path]
  /\ fpc = "root" => root = Null
  /\ fpc \in {"info", "fill"} => file # Null /\ path = req
  /\ fpc = "fill" => A!Contents(InfoArray) = <<Junk>>
  /\ opened => /\ fpc = "idle" /\ file # Null /\ path = req
               /\ A!Contents(InfoArray) = <<<<req, InfoCell>>>>
  /\ InfoShape

-----------------------------------------------------------------------------
(* The two arrays. *)

\* File uses DynamicArray's methods as they are.
LEMMA SameMethods ==
  /\ A!Heap = H!Heap
  /\ \A h, a : H!Deallocate(h, a) = A!Deallocate(h, a)
  /\ \A h, a, n : H!Allocate(h, a, n) = A!Allocate(h, a, n)
  /\ \A h, a, val, n : H!Copy(h, a, val, n) = A!Copy(h, a, val, n)
<1>1. A!Heap = H!Heap
  BY DEF A!Heap, H!Heap
<1>2. ASSUME NEW h, NEW a PROVE H!Deallocate(h, a) = A!Deallocate(h, a)
  BY DEF H!Deallocate, A!Deallocate, H!FreePool, A!FreePool, H!Allocated, A!Allocated, H!Empty, A!Empty
<1>3. ASSUME NEW h, NEW a, NEW n PROVE H!Allocate(h, a, n) = A!Allocate(h, a, n)
  <2>1. \A b : H!AllocateOk(h, a, n, b) = A!AllocateOk(h, a, n, b)
    BY <1>2 DEF H!AllocateOk, A!AllocateOk, H!AllocatePool, A!AllocatePool
  <2>2. H!AllocateFails(h, a) = A!AllocateFails(h, a)
    BY <1>2 DEF H!AllocateFails, A!AllocateFails
  <2>3. \A b : H!Allocated(H!Deallocate(h, a), b) <=> A!Allocated(A!Deallocate(h, a), b)
    BY <1>2 DEF H!Allocated, A!Allocated
  <2> QED BY <2>1, <2>2, <2>3, Zenon DEF H!Allocate, A!Allocate
<1>4. ASSUME NEW h, NEW a, NEW val, NEW n PROVE H!Copy(h, a, val, n) = A!Copy(h, a, val, n)
  BY DEF H!Copy, A!Copy, H!CopyLen, A!CopyLen, H!Allocated, A!Allocated, H!Overwrite, A!Overwrite
<1> QED BY <1>1, <1>2, <1>3, <1>4, Zenon

\* Contents is the value of the array in the present heap.
LEMMA ContentsValue ==
  ASSUME NEW a \in Two
  PROVE  /\ A!Contents(a) = H!ValueOf(A!Heap)[a]
         /\ A!Contents(a)' = H!ValueOf(A!Heap')[a]
BY DEF A!Contents, H!ValueOf, A!Heap, Two

LEMMA ValueDomain ==
  ASSUME NEW h
  PROVE  H!ValueOf(h) = [a \in Two |-> H!ValueOf(h)[a]]
BY DEF H!ValueOf, Two

\* What an action leaves in the variables is the heap the method computed.
LEMMA BecomesHeap ==
  ASSUME NEW h, H!Sound(h, Two), A!Becomes(h)
  PROVE  A!Heap' = h
BY DEF A!Becomes, A!Heap, H!Sound, H!Heaps

\* Allocate: the other array keeps its contents, this one has n unwritten
\* cells or none.
LEMMA AllocateStep ==
  ASSUME NEW h, NEW a \in Two, NEW n \in 0..MaxLen,
         HeapSound, h \in A!Allocate(A!Heap, a, n)
  PROVE  /\ H!Sound(h, Two)
         /\ \A b \in Two \ {a} : H!ValueOf(h)[b] = A!Contents(b) /\ h.arr[b] = arr[b]
         /\ h.arr[a].data = Null => H!ValueOf(h)[a] = <<>>
         /\ h.arr[a].data # Null => H!ValueOf(h)[a] = [i \in 1..n |-> Junk]
         /\ H!ValueOf(h)[a] \in {<<>>, [i \in 1..n |-> Junk]}
<1>1. h \in H!Allocate(A!Heap, a, n) /\ n \in H!Lens /\ a \in Two
  BY FileAssumption, SameMethods DEF H!Lens
<1>2. H!Sound(h, Two) /\ \A b \in Two \ {a} : h.arr[b] = arr[b]
  BY <1>1, FileAssumption, H!AllocateSound DEF HeapSound, Two, A!Heap
<1>3. \/ h.arr[a].data = Null /\ H!Sets(A!Heap, h, a, <<>>)
      \/ h.arr[a].data # Null /\ H!Sets(A!Heap, h, a, H!Values!Fresh(n))
  BY <1>1, FileAssumption, H!AllocateValue DEF HeapSound, Two
<1>4. H!Values!Fresh(n) = [i \in 1..n |-> Junk]
  BY DEF H!Values!Fresh
<1>5. \A b \in Two : A!Contents(b) = H!ValueOf(A!Heap)[b]
  BY ContentsValue
<1>6. CASE h.arr[a].data = Null /\ H!Sets(A!Heap, h, a, <<>>)
  BY <1>2, <1>5, <1>6, ValueDomain DEF H!Sets
<1>7. CASE h.arr[a].data # Null /\ H!Sets(A!Heap, h, a, H!Values!Fresh(n))
  BY <1>2, <1>4, <1>5, <1>7, ValueDomain DEF H!Sets
<1> QED BY <1>3, <1>6, <1>7

\* Deallocate: the other array keeps its contents.
LEMMA DeallocateStep ==
  ASSUME NEW a \in Two, HeapSound
  PROVE  LET h == A!Deallocate(A!Heap, a)
         IN  /\ H!Sound(h, Two)
             /\ \A b \in Two \ {a} : H!ValueOf(h)[b] = A!Contents(b)
             /\ h.arr[a].data = Null
<1> DEFINE h == A!Deallocate(A!Heap, a)
<1>1. h = H!Deallocate(A!Heap, a)
  BY SameMethods
<1>2. H!Sound(h, Two) /\ h.arr[a].data = Null
  BY <1>1, FileAssumption, H!DeallocateSound DEF HeapSound, Two, H!Empty
<1>3. H!Sets(A!Heap, h, a, <<>>)
  BY <1>1, FileAssumption, H!DeallocateValue DEF HeapSound, Two
<1>4. \A b \in Two : A!Contents(b) = H!ValueOf(A!Heap)[b]
  BY ContentsValue
<1> QED BY <1>2, <1>3, <1>4, ValueDomain DEF H!Sets

\* Copy: the cells of val go over the first cells of the array.
LEMMA CopyStep ==
  ASSUME NEW h, NEW a \in Two, H!Sound(h, Two), NEW val \in Seq(Cells)
  PROVE  LET g == A!Copy(h, a, val, Len(val))
         IN  /\ H!Sound(g, Two) /\ g.arr = h.arr
             /\ \A b \in Two \ {a} : H!ValueOf(g)[b] = H!ValueOf(h)[b]
             /\ H!ValueOf(g)[a] = H!Values!Prefixed(H!ValueOf(h)[a], val)
<1> DEFINE g == A!Copy(h, a, val, Len(val))
<1>1. g = H!Copy(h, a, val, Len(val))
  BY SameMethods
<1>2. val \in Seq(H!Cells) /\ Len(val) \in Nat
  BY DEF H!Cells
<1>3. H!CopyLen(h, a, Len(val)) <= Len(val)
  BY <1>2, FileAssumption, H!LensNat DEF H!CopyLen, H!Sound, H!Heaps, Two
<1>4. H!Sound(g, Two) /\ g.arr = h.arr
  BY <1>1, <1>2, <1>3, FileAssumption, H!CopySound DEF Two
<1>5. H!Sets(h, g, a, H!Values!Prefixed(H!ValueOf(h)[a], val))
  BY <1>1, <1>2, FileAssumption, H!CopyValue DEF Two
<1> QED BY <1>4, <1>5, ValueDomain DEF H!Sets

\* A step that leaves a sound heap behind, and what the arrays then hold.
LEMMA HeapStep ==
  ASSUME NEW h, H!Sound(h, Two), A!Becomes(h)
  PROVE  HeapSound' /\ \A a \in Two : A!Contents(a)' = H!ValueOf(h)[a]
BY BecomesHeap, ContentsValue DEF HeapSound, Two

\* A step that leaves the heap alone.
LEMMA HeapKept ==
  ASSUME UNCHANGED heapVars
  PROVE  /\ HeapSound' <=> HeapSound
         /\ \A a \in Two : A!Contents(a)' = A!Contents(a)
BY DEF heapVars, HeapSound, A!Heap, A!Contents, Two

\* An array holds no more than MaxLen cells.
LEMMA ContentsLength ==
  ASSUME HeapSound, NEW a \in Two
  PROVE  A!Contents(a) \in Seq(Cells \union {Junk}) /\ Len(A!Contents(a)) \in 0..MaxLen
<1>1. A!Heap \in H!Heaps /\ H!Owned(A!Heap, Two) /\ H!Sized(A!Heap)
  BY DEF HeapSound, H!Sound
<1>2. /\ arr \in [Two -> [data : Blocks \union {Null}, size : 0..MaxLen]]
      /\ mem \in [Blocks -> Seq(Cells \union {Junk}) \union {Freed}]
  BY <1>1 DEF A!Heap, H!Heaps, H!Lens, H!Cells, Two
<1>3. /\ arr[a].data # Null => mem[arr[a].data] # Freed
      /\ arr[a].size = IF arr[a].data = Null THEN 0 ELSE Len(mem[arr[a].data])
  BY <1>1 DEF A!Heap, H!Owned, H!Sized, Two
<1> QED BY <1>2, <1>3, FileAssumption DEF A!Contents

-----------------------------------------------------------------------------
(* The invariant of File, one lemma per action. *)

\* A new File object: nothing open and nothing allocated.
LEMMA FileInit == Init => FInv
<1> SUFFICES ASSUME Init PROVE FInv
  OBVIOUS
<1> USE FileAssumption
<1>1. HeapSound
  <2>1. A!Heap \in H!Heaps /\ A!Heap.faults = {}
    BY DEF Init, A!Heap, H!Heaps, A!Empty, H!Lens
  <2>2. H!Owned(A!Heap, Two) /\ H!Sized(A!Heap)
    BY DEF Init, A!Heap, H!Owned, H!Sized, A!Empty
  <2> QED BY <2>1, <2>2 DEF HeapSound, H!Sound
<1>2. arr[InfoArray].data = Null
  BY DEF Init, A!Empty
<1>3. TypeOK
  <2>1. 0 \in 0..MaxLen /\ \A k \in 0..(MaxLen - 1) \union {Missing} : k \in 0..Missing
    BY DEF Missing
  <2>2. disk \in [Paths -> 0..Missing]
    BY <2>1 DEF Init
  <2> QED BY <2>1, <2>2 DEF Init, TypeOK
<1> QED BY <1>1, <1>2, <1>3 DEF Init, FInv, InfoShape

\* Open up to its first firmware call.
LEMMA FileCallOpen ==
  ASSUME FInv, NEW p \in Paths, CallOpen(p)
  PROVE  FInv'
<1>1. HeapSound' /\ A!Contents(InfoArray)' = A!Contents(InfoArray) /\ arr' = arr
  BY HeapKept DEF heapVars, CallOpen, FInv, Two
<1>2. TypeOK'
  BY DEF CallOpen, FInv, TypeOK, fwVars, Missing
<1>3. InfoShape'
  BY <1>1 DEF CallOpen, FInv, InfoShape, fwVars, Missing, InfoCell
<1> QED BY <1>1, <1>2, <1>3 DEF CallOpen, FInv, fwVars, Missing

\* OpenRoot is only reached without a root, so it forgets none.
LEMMA FileOpenRoot ==
  ASSUME FInv, OpenRoot
  PROVE  FInv'
<1>1. HeapSound' /\ A!Contents(InfoArray)' = A!Contents(InfoArray) /\ arr' = arr
  BY HeapKept DEF heapVars, OpenRoot, FInv, Two
<1>2. TypeOK'
  BY DEF OpenRoot, Return, FInv, TypeOK, Missing
<1>3. InfoShape'
  BY <1>1 DEF OpenRoot, FInv, InfoShape, Missing, InfoCell
<1>4. open' = {root', file'} \ {Null} /\ (root' = file' => root' = Null)
  <2>1. root = Null
    BY DEF OpenRoot, FInv
  <2> QED BY <2>1, FileAssumption DEF OpenRoot, FInv
<1>5. /\ disk' = disk /\ path' = path /\ pos' = pos /\ file' = file /\ req' = req
      /\ opened' = opened /\ ~opened
      /\ fpc' \in {"idle", "open"}
  BY DEF OpenRoot, Return, FInv
<1> QED BY <1>1, <1>2, <1>3, <1>4, <1>5 DEF FInv, Missing

\* The file opened before is closed on both branches.
LEMMA FileOpenFile ==
  ASSUME FInv, OpenFile
  PROVE  FInv'
<1>1. HeapSound' /\ A!Contents(InfoArray)' = A!Contents(InfoArray) /\ arr' = arr
  BY HeapKept DEF heapVars, OpenFile, FInv, Two
<1>2. disk' \in [Paths -> 0..(MaxLen - 1) \union {Missing'}] /\ Missing' = Missing
  BY FileAssumption DEF OpenFile, FInv, TypeOK, Missing
<1>3. TypeOK'
  BY <1>2, FileAssumption DEF OpenFile, Return, FInv, TypeOK, Missing
<1>4. \A q \in Paths : disk[q] # Missing => disk'[q] # Missing
  BY FileAssumption DEF OpenFile, FInv, TypeOK, Missing
<1>5. InfoShape'
  BY <1>1, <1>2, <1>4 DEF FInv, InfoShape, InfoCell
<1>6. open' = {root', file'} \ {Null} /\ (root' = file' => root' = Null)
  BY FileAssumption DEF OpenFile, FInv, TypeOK
<1>7. ~opened /\ opened' = opened
  BY DEF OpenFile, FInv
<1>8. fpc' \in {"info", "idle"} /\ (fpc' = "info" => file' # Null /\ path' = req')
  BY FileAssumption DEF OpenFile, Return
<1>9. file' # Null => disk'[path'] # Missing /\ pos' <= disk'[path']
  BY FileAssumption DEF OpenFile, FInv, TypeOK, Missing
<1> QED BY <1>1, <1>2, <1>3, <1>5, <1>6, <1>7, <1>8, <1>9 DEF FInv

\* The first GetInfo and the allocation of _fileInfo.
LEMMA FileGetInfoSize ==
  ASSUME FInv, GetInfoSize
  PROVE  FInv'
<1>1. /\ HeapSound'
      /\ InfoShape'
      /\ fpc' = "fill" => A!Contents(InfoArray)' = <<Junk>>
  <2>1. CASE Return("EFI_ERROR") /\ UNCHANGED heapVars
    BY <2>1, HeapKept DEF heapVars, GetInfoSize, Return, FInv, InfoShape, fwVars, Missing, InfoCell, Two
  <2>2. ASSUME NEW h \in A!Allocate(A!Heap, InfoArray, 1), A!Becomes(h),
               \/ h.arr[InfoArray].data = Null /\ Return("EFI_ERROR")
               \/ h.arr[InfoArray].data # Null /\ fpc' = "fill" /\ UNCHANGED fstatus
        PROVE  /\ HeapSound' /\ (arr'[InfoArray].data = Null \/ A!Contents(InfoArray)' = <<Junk>>)
               /\ fpc' = "fill" => A!Contents(InfoArray)' = <<Junk>>
    <3>0. HeapSound /\ InfoArray \in Two
      BY DEF FInv, Two
    <3>1. 1 \in 0..MaxLen /\ [i \in 1..1 |-> Junk] = <<Junk>>
      BY FileAssumption
    <3>2. /\ H!Sound(h, Two)
          /\ h.arr[InfoArray].data = Null => H!ValueOf(h)[InfoArray] = <<>>
          /\ h.arr[InfoArray].data # Null => H!ValueOf(h)[InfoArray] = <<Junk>>
      BY <2>2, <3>0, <3>1, AllocateStep
    <3>3. HeapSound' /\ A!Contents(InfoArray)' = H!ValueOf(h)[InfoArray]
      BY <2>2, <3>2, HeapStep DEF Two
    <3> QED BY <2>2, <3>2, <3>3 DEF Return, A!Becomes
  <2> QED BY <2>1, <2>2 DEF GetInfoSize, InfoShape
<1>2. /\ UNCHANGED <<disk, open, path, pos, root, file, req, readSize, opened>>
      /\ fpc' \in {"idle", "fill"} /\ fpc = "info" /\ ~opened
      /\ fstatus' \in {"EFI_SUCCESS", "EFI_ERROR"}
  BY DEF GetInfoSize, Return, FInv, TypeOK, fwVars
<1> QED BY <1>1, <1>2 DEF FInv, TypeOK, Missing

\* The second GetInfo fills in the information of the file just opened.
LEMMA FileGetInfo ==
  ASSUME FInv, GetInfo
  PROVE  FInv'
<1>0. /\ file # Null /\ path = req /\ disk[path] # Missing
      /\ path \in Paths /\ A!Contents(InfoArray) = <<Junk>>
  BY DEF GetInfo, FInv, TypeOK
<1>1. /\ HeapSound'
      /\ InfoShape'
      /\ opened' => A!Contents(InfoArray)' = <<<<req, InfoCell>>>>
  <2>1. CASE Return("EFI_ERROR") /\ UNCHANGED <<heapVars, opened>>
    BY <2>1, HeapKept DEF heapVars, GetInfo, Return, FInv, InfoShape, fwVars, Missing, InfoCell, Two
  <2>2. CASE A!Becomes(A!Copy(A!Heap, InfoArray, <<<<path, InfoCell>>>>, 1))
    <3> DEFINE val == <<<<path, InfoCell>>>>
               g == A!Copy(A!Heap, InfoArray, val, Len(val))
    <3>1. val \in Seq(Cells) /\ Len(val) = 1
      BY <1>0, FileAssumption DEF Cells, InfoCell
    <3>2. H!ValueOf(A!Heap)[InfoArray] = <<Junk>>
      BY <1>0, ContentsValue DEF Two
    <3>3. H!Values!Prefixed(<<Junk>>, val) = val
      <4>1. \A i \in 1..1 : i = 1
        OBVIOUS
      <4> QED BY <3>1, <4>1 DEF H!Values!Prefixed
    <3>4. H!Sound(g, Two) /\ H!ValueOf(g)[InfoArray] = val
      <4> HIDE DEF val
      <4>1. H!Sound(A!Heap, Two) /\ InfoArray \in Two
        BY DEF FInv, HeapSound, Two
      <4>2. /\ H!Sound(g, Two)
            /\ H!ValueOf(g)[InfoArray] = H!Values!Prefixed(H!ValueOf(A!Heap)[InfoArray], val)
        BY <3>1, <4>1, CopyStep
      <4> QED BY <3>2, <3>3, <4>2
    <3>5. A!Becomes(g)
      BY <2>2, <3>1
    <3> HIDE DEF g
    <3>6. HeapSound' /\ A!Contents(InfoArray)' = val
      BY <3>4, <3>5, HeapStep DEF Two
    <3> QED BY <1>0, <3>6 DEF GetInfo, InfoShape, fwVars, Missing, InfoCell
  <2> QED BY <2>1, <2>2 DEF GetInfo
<1>2. /\ UNCHANGED <<disk, open, path, pos, root, file, req, readSize>>
      /\ fpc' = "idle" /\ opened' \in BOOLEAN
      /\ fstatus' \in {"EFI_SUCCESS", "EFI_ERROR"}
  BY DEF GetInfo, Return, FInv, TypeOK, fwVars
<1> QED BY <1>0, <1>1, <1>2 DEF FInv, TypeOK, Missing, InfoCell

\* Close and the destructor give both handles back.
LEMMA FileClose ==
  ASSUME FInv, Close \/ Destroy
  PROVE  FInv'
<1>1. HeapSound' /\ InfoShape'
  <2>1. CASE Close
    BY <2>1, HeapKept DEF heapVars, Close, CloseHandles, FInv, InfoShape, Missing, InfoCell, Two
  <2>2. CASE Destroy
    <3> DEFINE h == A!Deallocate(A!Heap, InfoArray)
    <3>1. H!Sound(h, Two) /\ h.arr[InfoArray].data = Null
      BY DeallocateStep DEF FInv, Two
    <3>2. A!Becomes(h)
      BY <2>2 DEF Destroy
    <3> HIDE DEF h
    <3> QED BY <3>1, <3>2, HeapStep DEF InfoShape, Two, A!Becomes
  <2> QED BY <2>1, <2>2
<1>2. /\ UNCHANGED <<disk, path, pos, fpc, req, fstatus, readSize>>
      /\ open' = {} /\ root' = Null /\ file' = Null /\ opened' = FALSE /\ fpc = "idle"
  BY DEF Close, Destroy, CloseHandles, FInv
<1> QED BY <1>1, <1>2 DEF FInv, TypeOK, Missing

\* What a Read of n cells delivers: never more than was asked for or is left.
LEMMA DeliveredCells ==
  ASSUME FInv, file # Null, NEW n \in 0..MaxLen
  PROVE  /\ Delivered(n) \in Seq(Cells)
         /\ Len(Delivered(n)) \in 0..n
         /\ pos + Len(Delivered(n)) <= disk[path]
         /\ disk[path] \in 0..(MaxLen - 1)
         /\ n <= Left => Delivered(n) = [k \in 1..n |-> <<path, pos + k - 1>>]
<1> DEFINE m == IF n < Left THEN n ELSE Left
<1>1. disk[path] \in 0..(MaxLen - 1) /\ pos \in Nat /\ pos <= disk[path] /\ path \in Paths
  BY FileAssumption DEF FInv, TypeOK, Missing
<1>2. MaxLen \in Nat /\ Left \in Nat /\ m \in 0..n /\ pos + m <= disk[path]
  BY <1>1, FileAssumption DEF Left
<1> HIDE DEF m
<1>3. \A k \in 1..m : <<path, pos + k - 1>> \in Cells
  BY <1>1, <1>2 DEF Cells
<1>4. Delivered(n) = [k \in 1..m |-> <<path, pos + k - 1>>]
  BY DEF Delivered, m
<1>5. Delivered(n) \in Seq(Cells) /\ Len(Delivered(n)) = m
  BY <1>2, <1>3, <1>4
<1>6. n <= Left => m = n
  BY <1>2 DEF m
<1> QED BY <1>1, <1>2, <1>4, <1>5, <1>6

\* Read: _fileInfo survives, and a successful read of no more than is left
\* puts exactly those cells into the caller's buffer.
LEMMA FileRead ==
  ASSUME FInv, NEW n \in 0..MaxLen, Read(n)
  PROVE  /\ FInv'
         /\ fstatus' = "EFI_SUCCESS" /\ n <= Left
              => A!Contents(OutBuffer)' = [k \in 1..n |-> <<path, pos + k - 1>>]
<1> DEFINE d == Delivered(n)
<1>1. /\ fpc = "idle" /\ file # Null /\ fpc' = "idle"
      /\ UNCHANGED <<disk, open, path, root, file, req, opened>>
      /\ fstatus' \in {"EFI_SUCCESS", "EFI_ERROR"}
  BY DEF Read, Return
<1>2. /\ d \in Seq(Cells) /\ Len(d) \in 0..n
      /\ pos + Len(d) <= disk[path] /\ disk[path] \in 0..(MaxLen - 1)
      /\ n <= Left => d = [k \in 1..n |-> <<path, pos + k - 1>>]
  BY <1>1, DeliveredCells
<1>3. PICK h \in A!Allocate(A!Heap, OutBuffer, n) :
        \/ /\ A!Becomes(h)
           /\ readSize' = n
           /\ Return("EFI_ERROR") /\ UNCHANGED pos
        \/ /\ h.arr[OutBuffer].data # Null
           /\ A!Becomes(A!Copy(h, OutBuffer, d, Len(d)))
           /\ readSize' = Len(d)
           /\ pos' = pos + Len(d)
           /\ Return("EFI_SUCCESS")
  BY DEF Read
<1> HIDE DEF d
<1>4. /\ H!Sound(h, Two)
      /\ h.arr[InfoArray] = arr[InfoArray]
      /\ H!ValueOf(h)[InfoArray] = A!Contents(InfoArray)
      /\ h.arr[OutBuffer].data # Null => H!ValueOf(h)[OutBuffer] = [i \in 1..n |-> Junk]
  <2>1. InfoArray \in Two \ {OutBuffer} /\ OutBuffer \in Two
    BY DEF Two, InfoArray, OutBuffer
  <2>2. HeapSound
    BY DEF FInv
  <2> QED BY <2>1, <2>2, AllocateStep
<1>5. /\ HeapSound' /\ A!Contents(InfoArray)' = A!Contents(InfoArray)
      /\ arr'[InfoArray] = arr[InfoArray]
      /\ pos' \in 0..MaxLen /\ pos' <= disk[path] /\ readSize' \in 0..MaxLen
      /\ fstatus' = "EFI_SUCCESS" /\ n <= Left => A!Contents(OutBuffer)' = d
  <2>0. InfoArray \in Two \ {OutBuffer} /\ OutBuffer \in Two
    BY DEF Two, InfoArray, OutBuffer
  <2>1. CASE A!Becomes(h) /\ readSize' = n /\ Return("EFI_ERROR") /\ UNCHANGED pos
    <3>1. /\ HeapSound' /\ A!Contents(InfoArray)' = A!Contents(InfoArray)
          /\ arr'[InfoArray] = arr[InfoArray]
      BY <1>4, <2>0, <2>1, HeapStep DEF A!Becomes
    <3> QED BY <1>1, <2>1, <3>1 DEF Return, FInv, TypeOK
  <2>2. CASE /\ h.arr[OutBuffer].data # Null
             /\ A!Becomes(A!Copy(h, OutBuffer, d, Len(d)))
             /\ readSize' = Len(d)
             /\ pos' = pos + Len(d)
    <3> DEFINE g == A!Copy(h, OutBuffer, d, Len(d))
    <3>1. /\ H!Sound(g, Two) /\ g.arr = h.arr
          /\ H!ValueOf(g)[InfoArray] = H!ValueOf(h)[InfoArray]
          /\ H!ValueOf(g)[OutBuffer] = H!Values!Prefixed(H!ValueOf(h)[OutBuffer], d)
      BY <1>2, <1>4, <2>0, CopyStep
    <3>2. A!Becomes(g)
      BY <2>2
    <3> HIDE DEF g
    <3>3. /\ HeapSound' /\ A!Contents(InfoArray)' = A!Contents(InfoArray)
          /\ A!Contents(OutBuffer)' = H!ValueOf(g)[OutBuffer]
          /\ arr'[InfoArray] = arr[InfoArray]
      BY <1>4, <2>0, <3>1, <3>2, HeapStep DEF A!Becomes
    <3>4. n <= Left => H!Values!Prefixed([i \in 1..n |-> Junk], d) = d
      <4>1. n \in Nat /\ Len([i \in 1..n |-> Junk]) = n
        OBVIOUS
      <4>2. n <= Left => d = [i \in 1..n |-> d[i]] /\ Len(d) = n
        BY <1>2, <4>1
      <4>3. \A i \in 1..n : i <= n
        BY <4>1
      <4> QED BY <4>1, <4>2, <4>3 DEF H!Values!Prefixed
    <3>5. pos' \in 0..MaxLen /\ pos' <= disk[path] /\ readSize' \in 0..MaxLen
      BY <1>2, <2>2, FileAssumption DEF FInv, TypeOK
    <3> QED BY <1>4, <2>2, <3>1, <3>3, <3>4, <3>5
  <2> QED BY <1>3, <2>1, <2>2
<1>6. InfoShape'
  BY <1>1, <1>5 DEF FInv, InfoShape, Missing, InfoCell
<1>7. FInv'
  BY <1>1, <1>5, <1>6 DEF FInv, TypeOK, Missing, InfoCell
<1> QED BY <1>2, <1>5, <1>7

\* Allocating the caller's buffer and nothing else.
LEMMA FileAllocates ==
  ASSUME FInv, NEW n \in 0..MaxLen,
         NEW h \in A!Allocate(A!Heap, OutBuffer, n), A!Becomes(h),
         UNCHANGED <<disk, open, path, pos, root, file, fpc, req, fstatus, readSize, opened>>
  PROVE  FInv'
<1>1. InfoArray \in Two \ {OutBuffer} /\ OutBuffer \in Two /\ HeapSound
  BY DEF Two, InfoArray, OutBuffer, FInv
<1>2. /\ H!Sound(h, Two)
      /\ h.arr[InfoArray] = arr[InfoArray]
      /\ H!ValueOf(h)[InfoArray] = A!Contents(InfoArray)
  BY <1>1, AllocateStep
<1>3. /\ HeapSound' /\ A!Contents(InfoArray)' = A!Contents(InfoArray)
      /\ arr'[InfoArray] = arr[InfoArray]
  BY <1>1, <1>2, HeapStep DEF A!Becomes
<1>4. InfoShape'
  BY <1>3 DEF FInv, InfoShape, Missing, InfoCell
<1> QED BY <1>3, <1>4 DEF FInv, TypeOK, Missing, InfoCell

\* A step of someone else.
LEMMA FileKept ==
  ASSUME FInv, UNCHANGED fvars
  PROVE  FInv'
<1>1. HeapSound' /\ A!Contents(InfoArray)' = A!Contents(InfoArray) /\ arr' = arr
  BY HeapKept DEF heapVars, fvars, FInv, Two
<1>2. InfoShape'
  BY <1>1 DEF fvars, fwVars, FInv, InfoShape, Missing, InfoCell
<1> QED BY <1>1, <1>2 DEF fvars, fwVars, FInv, TypeOK, Missing, InfoCell

\* An Open that reports success has opened the file and is at its start.
LEMMA OpenSucceeds ==
  ASSUME FInv, OpenStep, fpc \in {"info", "fill"} => pos = 0
  PROVE  /\ fpc' \in {"info", "fill"} => pos' = 0
         /\ fpc' = "idle" /\ fstatus' = "EFI_SUCCESS" => opened' /\ pos' = 0
<1>1. CASE OpenRoot
  BY <1>1 DEF OpenRoot, Return
<1>2. CASE OpenFile
  BY <1>2 DEF OpenFile, Return
<1>3. CASE GetInfoSize
  BY <1>3 DEF GetInfoSize, Return, fwVars
<1>4. CASE GetInfo
  BY <1>4 DEF GetInfo, Return, fwVars
<1> QED BY <1>1, <1>2, <1>3, <1>4 DEF OpenStep

\* Size() is the size of a file, or any number while _fileInfo is unfilled; of
\* the open file after a successful Open.
LEMMA SizeKnown ==
  ASSUME FInv
  PROVE  /\ Size \subseteq 0..MaxLen
         /\ opened => Size = {disk[req]}
<1>1. \/ arr[InfoArray].data = Null /\ A!Contents(InfoArray) = <<>>
      \/ arr[InfoArray].data # Null /\ A!Contents(InfoArray) = mem[arr[InfoArray].data]
  BY DEF A!Contents
<1>2. 0 \in 0..MaxLen /\ \A p \in Paths : disk[p] # Missing => disk[p] \in 0..MaxLen
  BY FileAssumption DEF FInv, Missing
<1>3. \A p \in Paths : <<p, InfoCell>> # Junk /\ <<p, InfoCell>>[1] = p
  BY FileAssumption DEF Cells, InfoCell
<1>4. \A x : <<x>> # <<>> /\ <<x>>[1] = x
  OBVIOUS
<1>5. CASE arr[InfoArray].data = Null
  <2>1. ~opened
    BY <1>1, <1>4, <1>5 DEF FInv
  <2> QED BY <1>2, <1>5, <2>1 DEF Size
<1>6. CASE A!Contents(InfoArray) = <<Junk>>
  <2>1. ~opened
    BY <1>3, <1>4, <1>6 DEF FInv, TypeOK
  <2> QED BY <1>1, <1>4, <1>6, <2>1 DEF Size
<1>7. ASSUME NEW p \in Paths, disk[p] # Missing, A!Contents(InfoArray) = <<<<p, InfoCell>>>>
      PROVE  Size = {disk[p]} /\ (opened => p = req)
  <2>1. arr[InfoArray].data # Null /\ mem[arr[InfoArray].data][1] = <<p, InfoCell>>
    BY <1>1, <1>4, <1>7
  <2>2. opened => p = req
    BY <1>3, <1>4, <1>7 DEF FInv, TypeOK
  <2> QED BY <1>3, <2>1, <2>2 DEF Size
<1> QED BY <1>2, <1>5, <1>6, <1>7 DEF FInv, InfoShape

\* A step of the File object keeps its invariant.
LEMMA FileNext ==
  ASSUME FInv, Next
  PROVE  FInv'
<1>1. ASSUME ReadAll PROVE FInv'
  <2>1. PICK n \in Size : Read(n)
    BY <1>1 DEF ReadAll
  <2> QED BY <2>1, SizeKnown, FileRead
<1> QED BY <1>1, FileCallOpen, FileOpenRoot, FileOpenFile, FileGetInfoSize, FileGetInfo,
           FileClose, FileRead DEF Next, OpenStep

\* Whatever is opened, re-opened, read and closed, and whichever firmware call
\* or allocation fails, the object holds exactly the handles and blocks it
\* knows of, and Size() is that of the file that is open.
LEMMA FileKnown ==
  ASSUME FInv
  PROVE  ResourcesBalanced /\ SizeOfOpenFile
<1>1. A!Ownership /\ A!SizeMatchesBlock /\ A!NoFault
  BY DEF FInv, HeapSound, H!Sound, H!Owned, H!Sized, A!Heap, A!Ownership,
         A!SizeMatchesBlock, A!NoFault, Two
<1>2. ResourcesBalanced
  BY <1>1 DEF FInv, ResourcesBalanced
<1>3. SizeOfOpenFile
  BY SizeKnown DEF FInv, SizeOfOpenFile
<1> QED BY <1>2, <1>3

\* The first Read(OutBuffer) after a successful Open.
LEMMA FirstReadWhole ==
  ASSUME FInv, pos = 0, opened, ReadAll, fstatus' = "EFI_SUCCESS"
  PROVE  A!Contents(OutBuffer)' = [k \in 1..disk[req] |-> <<req, k - 1>>]
<1>1. PICK n \in Size : Read(n)
  BY DEF ReadAll
<1>2. n = disk[req] /\ n \in 0..MaxLen /\ path = req
  BY <1>1, SizeKnown DEF FInv
<1>3. n <= Left
  BY <1>2, FileAssumption DEF Left
<1>4. A!Contents(OutBuffer)' = [k \in 1..n |-> <<path, pos + k - 1>>]
  BY <1>1, <1>2, <1>3, FileRead
<1>5. \A k \in 1..n : pos + k - 1 = k - 1
  BY <1>2, FileAssumption
<1> QED BY <1>2, <1>4, <1>5

=============================================================================
