------------------------- MODULE DynamicArrayProofs -------------------------
(***************************************************************************)
(* DynamicArray never leaks, shares, overruns or touches a freed block,    *)
(* whatever the arrays, the blocks and the lengths.                        *)
(*                                                                         *)
(* Ownership alone is not inductive: Copy trusts _size, so its writes stay *)
(* in the block only because _size is the block's length.  The inductive   *)
(* invariant IInv is therefore TypeOK, Ownership, SizeMatchesBlock and     *)
(* NoFault together, stated as a predicate Sound(h, L) on a heap record h  *)
(* and the set L of live arrays.  Each method is a function on heaps, so   *)
(* the proof is one lemma per method: it takes a sound heap to a sound     *)
(* heap.                                                                   *)
(*                                                                         *)
(* To its user an array is a value of its own (ArrayValues).  That the     *)
(* methods implement this is proved the same way: one lemma per method     *)
(* says which array's value it changes, and to what (Sets).                *)
(***************************************************************************)
EXTENDS DynamicArray, TLAPS

Heaps ==
  [arr : [Arrays -> [data : Blocks \union {Null}, size : Lens]],
   mem : [Blocks -> Seq(Cells) \union {Freed}],
   faults : SUBSET {"free", "read", "write"}]

Owned(h, L) ==
  /\ \A a \in Arrays : h.arr[a].data # Null => a \in L /\ h.mem[h.arr[a].data] # Freed
  /\ \A a, b \in Arrays : h.arr[a].data = h.arr[b].data /\ h.arr[a].data # Null => a = b
  /\ \A b \in Blocks : h.mem[b] # Freed => \E a \in Arrays : h.arr[a].data = b

Sized(h) ==
  \A a \in Arrays :
    h.arr[a].size = IF h.arr[a].data = Null THEN 0 ELSE Len(h.mem[h.arr[a].data])

Sound(h, L) ==
  /\ h \in Heaps
  /\ Owned(h, L)
  /\ Sized(h)
  /\ h.faults = {}

IInv ==
  /\ live \subseteq Arrays
  /\ status \in {"EFI_SUCCESS", "EFI_OUT_OF_RESOURCES"}
  /\ Sound(Heap, live)

\* The lengths callers ask for are natural numbers and include 0.
LEMMA LensNat == 0 \in Lens /\ \A n \in Lens : n \in Nat
BY MaxLenAssumption DEF Lens

\* The predicate on the heap record is the three invariants and the types.
LEMMA IInvMeaning == IInv <=> TypeOK /\ Ownership /\ SizeMatchesBlock /\ NoFault
<1>1. Heap \in Heaps <=>
        /\ arr \in [Arrays -> [data : Blocks \union {Null}, size : Lens]]
        /\ mem \in [Blocks -> Seq(Cells) \union {Freed}]
        /\ faults \subseteq {"free", "read", "write"}
  BY DEF Heap, Heaps
<1>2. Owned(Heap, live) <=> Ownership
  BY DEF Heap, Owned, Ownership
<1>3. Sized(Heap) <=> SizeMatchesBlock
  BY DEF Heap, Sized, SizeMatchesBlock
<1>4. (Heap.faults = {}) <=> NoFault
  BY DEF Heap, NoFault
<1> QED BY <1>1, <1>2, <1>3, <1>4 DEF IInv, Sound, TypeOK

\* ~DynamicArray and Deallocate: the block goes back to the pool, the array is
\* empty afterwards and no other array loses anything.
LEMMA DeallocateSound ==
  ASSUME NEW h, NEW L, NEW a \in Arrays, Sound(h, L)
  PROVE  /\ Sound(Deallocate(h, a), L)
         /\ Deallocate(h, a).arr[a] = Empty
         /\ \A b \in Arrays \ {a} : Deallocate(h, a).arr[b] = h.arr[b]
<1> USE NullAssumption, FreedAssumption DEF Sound, Heaps
<1>1. CASE h.arr[a].data = Null
  <2>1. Deallocate(h, a) = h
    BY <1>1 DEF Deallocate
  <2>2. h.arr[a] = Empty
    BY <1>1 DEF Sized, Empty
  <2> QED BY <2>1, <2>2
<1>2. CASE h.arr[a].data # Null
  <2> DEFINE g == Deallocate(h, a)
             d == h.arr[a].data
  <2>1. d \in Blocks /\ h.mem[d] # Freed
    BY <1>2 DEF Owned
  <2>2. g = [arr |-> [h.arr EXCEPT ![a] = Empty],
             mem |-> [h.mem EXCEPT ![d] = Freed],
             faults |-> h.faults]
    BY <1>2, <2>1 DEF Deallocate, FreePool, Allocated
  <2> HIDE DEF g
  <2>3. g \in Heaps /\ g.faults = {}
    BY LensNat, <2>1, <2>2 DEF Empty
  <2>4. /\ g.arr[a].data = Null /\ g.arr[a].size = 0
        /\ \A b \in Arrays \ {a} : g.arr[b] = h.arr[b]
        /\ g.mem[d] = Freed
        /\ \A b \in Blocks \ {d} : g.mem[b] = h.mem[b]
    BY <2>1, <2>2 DEF Empty
  <2>5. \A b \in Arrays \ {a} : h.arr[b].data # d
    BY <1>2 DEF Owned
  <2>0. \A b \in Arrays : h.arr[b].data \in Blocks \union {Null}
    OBVIOUS
  <2>6. Owned(g, L)
    <3>1. \A b \in Arrays : g.arr[b].data # Null => b \in L /\ g.mem[g.arr[b].data] # Freed
      BY <2>0, <2>4, <2>5 DEF Owned
    <3>2. \A b, e \in Arrays : g.arr[b].data = g.arr[e].data /\ g.arr[b].data # Null => b = e
      <4>1. SUFFICES ASSUME NEW b \in Arrays, NEW e \in Arrays,
                            g.arr[b].data = g.arr[e].data, g.arr[b].data # Null
                     PROVE  b = e
        OBVIOUS
      <4>2. b # a /\ e # a
        BY <2>4, <4>1
      <4>3. h.arr[b].data = h.arr[e].data /\ h.arr[b].data # Null
        BY <2>4, <4>1, <4>2
      <4> QED BY <4>3 DEF Owned
    <3>3. \A b \in Blocks : g.mem[b] # Freed => \E e \in Arrays : g.arr[e].data = b
      <4>1. SUFFICES ASSUME NEW b \in Blocks, g.mem[b] # Freed
                     PROVE  \E e \in Arrays : g.arr[e].data = b
        OBVIOUS
      <4>2. b # d /\ h.mem[b] # Freed
        BY <2>4, <4>1
      <4>3. PICK e \in Arrays : h.arr[e].data = b
        BY <4>2 DEF Owned
      <4> QED BY <2>4, <4>2, <4>3
    <3> QED BY <3>1, <3>2, <3>3 DEF Owned
  <2>7. Sized(g)
    <3>1. SUFFICES ASSUME NEW b \in Arrays
                   PROVE  g.arr[b].size = IF g.arr[b].data = Null THEN 0
                                          ELSE Len(g.mem[g.arr[b].data])
      BY DEF Sized
    <3>2. CASE b = a
      BY <2>4, <3>2
    <3>3. CASE b # a
      BY <2>0, <2>4, <2>5, <3>3 DEF Sized
    <3> QED BY <3>2, <3>3
  <2>8. g.arr[a] = Empty
    BY <2>2
  <2> QED BY <2>3, <2>4, <2>6, <2>7, <2>8 DEF g
<1> QED BY <1>1, <1>2

\* A buffer of n unwritten cells is a sequence of cells of length n.
LEMMA FreshBlock ==
  ASSUME NEW n \in Nat
  PROVE  /\ [i \in 1..n |-> Junk] \in Seq(Cells)
         /\ Len([i \in 1..n |-> Junk]) = n
BY DEF Cells

\* Allocate: whichever free block the pool returns, or none.
LEMMA AllocateSound ==
  ASSUME NEW h, NEW L, NEW a \in Arrays, Sound(h, L), a \in L,
         NEW n \in Lens, NEW g \in Allocate(h, a, n)
  PROVE  /\ Sound(g, L)
         /\ \A b \in Arrays \ {a} : g.arr[b] = h.arr[b]
         /\ g.arr[a].size \in {0, n}
<1> DEFINE k == Deallocate(h, a)
<1>1. /\ Sound(k, L)
      /\ k.arr[a] = Empty
      /\ \A b \in Arrays \ {a} : k.arr[b] = h.arr[b]
  BY DeallocateSound
<1>2. CASE g = AllocateFails(h, a)
  BY <1>1, <1>2 DEF AllocateFails, Empty
<1>3. ASSUME NEW c \in Blocks, ~Allocated(k, c), g = AllocateOk(h, a, n, c)
      PROVE  /\ Sound(g, L)
             /\ \A b \in Arrays \ {a} : g.arr[b] = h.arr[b]
             /\ g.arr[a].size \in {0, n}
  <2> DEFINE fresh == [i \in 1..n |-> Junk]
  <2> HIDE DEF k
  <2>1. fresh \in Seq(Cells) /\ Len(fresh) = n
    BY LensNat, FreshBlock
  <2> HIDE DEF fresh
  <2>2. g = [AllocatePool(k, c, n) EXCEPT
               !.arr = [@ EXCEPT ![a] = [data |-> c, size |-> n]]]
    BY <1>3 DEF AllocateOk, k
  <2>3. g = [arr |-> [k.arr EXCEPT ![a] = [data |-> c, size |-> n]],
             mem |-> [k.mem EXCEPT ![c] = fresh],
             faults |-> k.faults]
    BY <1>1, <2>2 DEF AllocatePool, fresh, Sound, Heaps
  <2>4. g \in Heaps /\ g.faults = {}
    BY <1>1, <2>1, <2>3 DEF Sound, Heaps
  <2>5. /\ g.arr[a].data = c /\ g.arr[a].size = n
        /\ \A b \in Arrays \ {a} : g.arr[b] = k.arr[b]
        /\ g.mem[c] = fresh
        /\ \A b \in Blocks \ {c} : g.mem[b] = k.mem[b]
    BY <1>1, <2>3 DEF Sound, Heaps
  <2>6. fresh # Freed /\ c # Null
    BY <2>1, NullAssumption, FreedAssumption DEF Cells
  <2>7. \A b \in Arrays : k.arr[b].data # c
    BY <1>1, <1>3, <2>6 DEF Sound, Owned, Allocated
  <2>8. Owned(g, L)
    <3>1. \A b \in Arrays : g.arr[b].data # Null => b \in L /\ g.mem[g.arr[b].data] # Freed
      BY <1>1, <2>5, <2>6, <2>7 DEF Sound, Owned, Heaps
    <3>2. \A b, e \in Arrays : g.arr[b].data = g.arr[e].data /\ g.arr[b].data # Null => b = e
      BY <1>1, <2>5, <2>6, <2>7 DEF Sound, Owned
    <3>3. \A b \in Blocks : g.mem[b] # Freed => \E e \in Arrays : g.arr[e].data = b
      <4>1. SUFFICES ASSUME NEW b \in Blocks, g.mem[b] # Freed
                     PROVE  \E e \in Arrays : g.arr[e].data = b
        OBVIOUS
      <4>2. CASE b = c
        BY <2>5, <4>2
      <4>3. CASE b # c
        <5>1. PICK e \in Arrays : k.arr[e].data = b
          BY <1>1, <2>5, <4>1, <4>3 DEF Sound, Owned
        <5>2. e # a
          BY <1>1, <5>1, NullAssumption DEF Empty
        <5> QED BY <2>5, <5>1, <5>2
      <4> QED BY <4>2, <4>3
    <3> QED BY <3>1, <3>2, <3>3 DEF Owned
  <2>9. Sized(g)
    <3>1. SUFFICES ASSUME NEW b \in Arrays
                   PROVE  g.arr[b].size = IF g.arr[b].data = Null THEN 0
                                          ELSE Len(g.mem[g.arr[b].data])
      BY DEF Sized
    <3>2. CASE b = a
      BY <2>1, <2>5, <2>6, <3>2
    <3>3. CASE b # a
      <4>1. k.arr[b].data \in Blocks \union {Null}
        BY <1>1 DEF Sound, Heaps
      <4>2. k.arr[b].size = IF k.arr[b].data = Null THEN 0
                            ELSE Len(k.mem[k.arr[b].data])
        BY <1>1 DEF Sound, Sized
      <4> QED BY <2>5, <2>7, <3>3, <4>1, <4>2
    <3> QED BY <3>2, <3>3
  <2> QED BY <1>1, <2>4, <2>5, <2>8, <2>9 DEF Sound
<1> QED BY <1>2, <1>3 DEF Allocate

\* CopyMem writes only inside the destination block and keeps its length.
LEMMA OverwriteType ==
  ASSUME NEW dst \in Seq(Cells), NEW src \in Seq(Cells), NEW k \in Nat, k <= Len(src)
  PROVE  /\ Overwrite(dst, src, k) \in Seq(Cells)
         /\ Len(Overwrite(dst, src, k)) = Len(dst)
<1>1. Len(dst) \in Nat /\ Len(src) \in Nat
  OBVIOUS
<1>2. \A i \in 1..Len(dst) : (IF i <= k THEN src[i] ELSE dst[i]) \in Cells
  BY <1>1
<1>3. Overwrite(dst, src, k) \in [1..Len(dst) -> Cells]
  BY <1>2 DEF Overwrite
<1> QED BY <1>1, <1>3

\* Copy(const T*, UINTN): the clamp to _size keeps the write in the block.
LEMMA CopySound ==
  ASSUME NEW h, NEW L, NEW a \in Arrays, Sound(h, L),
         NEW val \in Seq(Cells), NEW len \in Nat, CopyLen(h, a, len) <= Len(val)
  PROVE  Sound(Copy(h, a, val, len), L) /\ Copy(h, a, val, len).arr = h.arr
<1> DEFINE k == CopyLen(h, a, len)
           d == h.arr[a].data
           g == Copy(h, a, val, len)
<1>1. k \in Nat /\ k <= h.arr[a].size
  BY LensNat DEF CopyLen, Sound, Heaps
<1> HIDE DEF k
<1>2. CASE k = 0
  BY <1>2 DEF Copy, k
<1>3. CASE k # 0
  <2>1. /\ d \in Blocks /\ h.mem[d] # Freed /\ h.mem[d] \in Seq(Cells)
        /\ k <= Len(h.mem[d])
    BY <1>1, <1>3 DEF Sound, Owned, Sized, Heaps
  <2> DEFINE new == Overwrite(h.mem[d], val, k)
  <2>2. new \in Seq(Cells) /\ Len(new) = Len(h.mem[d])
    BY <1>1, <2>1, OverwriteType DEF k
  <2>3. g = [h EXCEPT !.mem = [@ EXCEPT ![d] = new]]
    <3>1. d # Null /\ Allocated(h, d) /\ ~(k > Len(h.mem[d]))
      <4>1. Len(h.mem[d]) \in Nat
        BY <2>1
      <4> QED BY <1>1, <2>1, <4>1, NullAssumption DEF Allocated
    <3> QED BY <1>3, <3>1 DEF Copy, k
  <2> HIDE DEF new
  <2>4. g = [arr |-> h.arr, mem |-> [h.mem EXCEPT ![d] = new], faults |-> h.faults]
    BY <2>3 DEF Sound, Heaps
  <2> HIDE DEF g
  <2>5. g.arr = h.arr /\ g.faults = {} /\ g.mem[d] = new
        /\ \A b \in Blocks \ {d} : g.mem[b] = h.mem[b]
    BY <2>1, <2>4 DEF Sound, Heaps
  <2>6. new # Freed
    BY <2>2, FreedAssumption DEF Cells
  <2>7. g \in Heaps
    BY <2>1, <2>2, <2>4 DEF Sound, Heaps
  <2>8. Owned(g, L)
    BY <2>1, <2>5, <2>6 DEF Sound, Owned, Heaps
  <2>9. Sized(g)
    BY <2>2, <2>5 DEF Sound, Sized, Heaps
  <2> QED BY <2>5, <2>7, <2>8, <2>9 DEF Sound, g
<1> QED BY <1>2, <1>3

\* Copy(DynamicArray&) and the copy inside the moves: the source block is
\* still allocated and long enough.
LEMMA CopyFromSound ==
  ASSUME NEW h, NEW L, NEW a \in Arrays, NEW b \in Arrays, Sound(h, L)
  PROVE  LET g == CopyFrom(h, a, h.arr[b].data, h.arr[b].size)
         IN  Sound(g, L) /\ g.arr = h.arr
<1> DEFINE p == h.arr[b].data
           len == h.arr[b].size
           k == CopyLen(h, a, len)
<1>1. len \in Nat /\ k \in Nat /\ k <= len
  BY LensNat DEF CopyLen, Sound, Heaps
<1>2. CASE k = 0
  BY <1>2 DEF CopyFrom
<1>3. CASE k # 0
  <2>1. p \in Blocks /\ h.mem[p] # Freed /\ h.mem[p] \in Seq(Cells) /\ k <= Len(h.mem[p])
    <3> HIDE DEF k
    <3> QED BY <1>1, <1>3 DEF Sound, Owned, Sized, Heaps
  <2>2. CopyFrom(h, a, p, len) = Copy(h, a, h.mem[p], len)
    <3>1. p # Null /\ Allocated(h, p) /\ ~(k > Len(h.mem[p])) /\ k # 0
      <4>1. Len(h.mem[p]) \in Nat
        BY <2>1
      <4> HIDE DEF k
      <4> QED BY <1>1, <1>3, <2>1, <4>1, NullAssumption DEF Allocated
    <3> QED BY <3>1 DEF CopyFrom
  <2>3. Sound(Copy(h, a, h.mem[p], len), L) /\ Copy(h, a, h.mem[p], len).arr = h.arr
    BY <1>1, <2>1, CopySound
  <2> QED BY <2>2, <2>3
<1> QED BY <1>2, <1>3

\* The caller's buffers are sequences of cells no longer than MaxLen.
LEMMA RawBufferType ==
  ASSUME NEW val \in RawBuffers
  PROVE  val \in Seq(Cells) /\ Len(val) \in Lens
<1>1. PICK n \in Lens : val \in [1..n -> Vals]
  BY DEF RawBuffers
<1>2. n \in Nat
  BY MaxLenAssumption DEF Lens
<1> QED BY <1>1, <1>2 DEF Cells

LEMMA CopyRawSound ==
  ASSUME NEW h, NEW L, NEW a \in Arrays, Sound(h, L), NEW val \in RawBuffers
  PROVE  Sound(Copy(h, a, val, Len(val)), L)
<1>1. val \in Seq(Cells) /\ Len(val) \in Lens
  BY RawBufferType
<1>2. CopyLen(h, a, Len(val)) <= Len(val)
  BY LensNat, <1>1 DEF CopyLen, Sound, Heaps
<1> QED BY <1>1, <1>2, CopySound

\* Move(const T*, UINTN), also when Allocate fails and its status is dropped.
LEMMA MoveSound ==
  ASSUME NEW h, NEW L, NEW a \in Arrays, Sound(h, L), a \in L,
         NEW val \in RawBuffers, NEW g \in Move(h, a, val, Len(val))
  PROVE  Sound(g, L)
<1>1. Sound(Deallocate(h, a), L)
  BY DeallocateSound
<1>2. PICK k \in Allocate(Deallocate(h, a), a, Len(val)) :
        g = Copy(k, a, val, Len(val))
  BY DEF Move
<1>3. Sound(k, L)
  BY <1>1, RawBufferType, AllocateSound
<1> QED BY <1>2, <1>3, CopyRawSound

\* Move(DynamicArray&&): a's old block, a's new block and b's block never
\* get mixed up, since b keeps its block until the copy is done.
LEMMA MoveArraySound ==
  ASSUME NEW h, NEW L, NEW a \in Arrays, NEW b \in Arrays, a # b,
         Sound(h, L), a \in L, NEW g \in MoveArray(h, a, b)
  PROVE  Sound(g, L)
<1>1. Sound(Deallocate(h, a), L) /\ Deallocate(h, a).arr[b] = h.arr[b]
  BY DeallocateSound
<1>2. h.arr[b].size \in Lens
  BY DEF Sound, Heaps
<1>3. PICK k \in Allocate(Deallocate(h, a), a, h.arr[b].size) :
        g = Deallocate(CopyFrom(k, a, h.arr[b].data, h.arr[b].size), b)
  BY DEF MoveArray
<1>4. Sound(k, L) /\ k.arr[b] = h.arr[b]
  BY <1>1, <1>2, AllocateSound
<1>5. Sound(CopyFrom(k, a, k.arr[b].data, k.arr[b].size), L)
  BY <1>4, CopyFromSound
<1> QED BY <1>3, <1>4, <1>5, DeallocateSound

\* operator=(DynamicArray&&).
LEMMA AssignArraySound ==
  ASSUME NEW h, NEW L, NEW a \in Arrays, NEW b \in Arrays, Sound(h, L)
  PROVE  Sound(AssignArray(h, a, b), L)
BY CopyFromSound, DeallocateSound DEF AssignArray

\* Deallocate gives up the array's claim, so the destructor may end its life.
LEMMA DestroySound ==
  ASSUME NEW h, NEW L, NEW a \in Arrays, Sound(h, L), h.arr[a] = Empty
  PROVE  Sound(h, L \ {a})
BY DEF Sound, Owned, Empty

\* What an action leaves in the variables is the heap the method computed.
LEMMA BecomesHeap ==
  ASSUME NEW h, NEW L, Sound(h, L), Becomes(h)
  PROVE  Heap' = h
BY DEF Becomes, Heap, Sound, Heaps

\* Every call of the class, in every order, keeps the heap sound.
THEOREM IInvariant == Spec => []IInv
<1>1. Init => IInv
  <2> SUFFICES ASSUME Init PROVE IInv
    OBVIOUS
  <2>1. Heap \in Heaps /\ Heap.faults = {}
    BY LensNat DEF Init, Heap, Heaps, Empty
  <2>2. Owned(Heap, live) /\ Sized(Heap)
    BY DEF Init, Heap, Owned, Sized, Empty
  <2> QED BY <2>1, <2>2 DEF Init, IInv, Sound
<1>2. IInv /\ [Next]_vars => IInv'
  <2> SUFFICES ASSUME IInv, [Next]_vars PROVE IInv'
    OBVIOUS
  <2> USE DEF IInv
  <2>1. ASSUME NEW a \in Arrays, Construct(a) PROVE IInv'
    <3> DEFINE g == [Heap EXCEPT !.arr = [@ EXCEPT ![a] = Empty]]
    <3>1. g = Heap
      <4>1. arr[a] = Empty
        BY <2>1 DEF Construct, Sound, Heaps, Heap, Owned, Sized, Empty
      <4> QED BY <4>1 DEF Heap, Sound, Heaps
    <3>2. Sound(Heap, live')
      BY <2>1 DEF Construct, Sound, Owned
    <3>3. Heap' = Heap
      BY <2>1, <3>1, <3>2, BecomesHeap DEF Construct
    <3> QED BY <2>1, <3>2, <3>3 DEF Construct
  <2>2. ASSUME NEW a \in Arrays, Destroy(a) PROVE IInv'
    <3>1. Sound(Deallocate(Heap, a), live) /\ Deallocate(Heap, a).arr[a] = Empty
      BY DeallocateSound
    <3>2. Heap' = Deallocate(Heap, a)
      BY <2>2, <3>1, BecomesHeap DEF Destroy
    <3> QED BY <2>2, <3>1, <3>2, DestroySound DEF Destroy
  <2>3. ASSUME NEW a \in Arrays, CallDeallocate(a) PROVE IInv'
    <3>1. Sound(Deallocate(Heap, a), live)
      BY DeallocateSound
    <3> QED BY <2>3, <3>1, BecomesHeap DEF CallDeallocate
  <2>4. ASSUME NEW a \in Arrays, NEW n \in Lens, CallAllocate(a, n) PROVE IInv'
    <3>2. PICK h \in Allocate(Heap, a, n) : Becomes(h)
      BY <2>4 DEF CallAllocate
    <3>3. Sound(h, live)
      BY <2>4, AllocateSound DEF CallAllocate
    <3> QED BY <2>4, <3>2, <3>3, BecomesHeap DEF CallAllocate
  <2>5. ASSUME NEW a \in Arrays, NEW val \in RawBuffers, CallCopyRaw(a, val)
        PROVE  IInv'
    BY <2>5, CopyRawSound, BecomesHeap DEF CallCopyRaw
  <2>6. ASSUME NEW a \in Arrays, NEW val \in RawBuffers, CallMoveRaw(a, val)
        PROVE  IInv'
    BY <2>6, MoveSound, BecomesHeap DEF CallMoveRaw
  <2>7. ASSUME NEW a \in Arrays, NEW b \in Arrays, CallCopy(a, b) PROVE IInv'
    <3>1. Sound(CopyFrom(Heap, a, arr[b].data, arr[b].size), live)
      BY CopyFromSound DEF Heap
    <3> QED BY <2>7, <3>1, BecomesHeap DEF CallCopy
  <2>8. ASSUME NEW a \in Arrays, NEW b \in Arrays, CallMove(a, b) PROVE IInv'
    BY <2>8, MoveArraySound, BecomesHeap DEF CallMove
  <2>9. ASSUME NEW a \in Arrays, NEW b \in Arrays, CallAssign(a, b) PROVE IInv'
    BY <2>9, AssignArraySound, BecomesHeap DEF CallAssign
  <2>10. CASE UNCHANGED vars
    BY <2>10 DEF vars, Heap
  <2> QED BY <2>1, <2>2, <2>3, <2>4, <2>5, <2>6, <2>7, <2>8, <2>9, <2>10 DEF Next
<1> QED BY <1>1, <1>2, PTL DEF Spec

\* No call sequence leaks a pool block or lets two arrays share one.
THEOREM OwnershipHolds == Spec => []Ownership
BY IInvariant, IInvMeaning, PTL

\* _size always describes the block behind _data.
THEOREM SizeMatchesBlockHolds == Spec => []SizeMatchesBlock
BY IInvariant, IInvMeaning, PTL

\* No call frees, reads or writes memory the arrays do not own.
THEOREM NoFaultHolds == Spec => []NoFault
BY IInvariant, IInvMeaning, PTL

\* The variables keep their types.
THEOREM TypeCorrect == Spec => []TypeOK
BY IInvariant, IInvMeaning, PTL

\* The arrays own their memory, know its size and never touch any other.
THEOREM MemorySoundHolds == Spec => []MemorySound
<1>1. TypeOK /\ Ownership /\ SizeMatchesBlock /\ NoFault => MemorySound
  BY DEF MemorySound
<1> QED BY <1>1, TypeCorrect, OwnershipHolds, SizeMatchesBlockHolds, NoFaultHolds, PTL

-----------------------------------------------------------------------------
(* DynamicArray implements ArrayValues.  Each method is shown to do to the *)
(* values of a sound heap what the abstract operation does; Move and the   *)
(* assignments are again put together from their parts.                    *)

\* The values of the arrays of a heap.
ValueOf(h) == [a \in Arrays |-> IF h.arr[a].data = Null THEN <<>> ELSE h.mem[h.arr[a].data]]

\* g differs from h in the value of a, which is v in g.
Sets(h, g, a, v) == ValueOf(g) = [ValueOf(h) EXCEPT ![a] = v]

\* The refinement mapping is ValueOf of the heap in the variables.
LEMMA ArrayValueIsValueOf == ArrayValue = ValueOf(Heap)
BY DEF ArrayValue, ValueOf, Contents, Heap

\* A value is a sequence of cells, as long as _size says.
LEMMA ValueType ==
  ASSUME NEW h, NEW L, Sound(h, L), NEW a \in Arrays
  PROVE  ValueOf(h)[a] \in Seq(Cells) /\ Len(ValueOf(h)[a]) = h.arr[a].size
<1>1. CASE h.arr[a].data = Null
  BY <1>1 DEF ValueOf, Sound, Sized
<1>2. CASE h.arr[a].data # Null
  BY <1>2 DEF ValueOf, Sound, Sized, Owned, Heaps
<1> QED BY <1>1, <1>2

\* Deallocate empties its array and leaves the others their values.
LEMMA DeallocateValue ==
  ASSUME NEW h, NEW L, NEW a \in Arrays, Sound(h, L)
  PROVE  Sets(h, Deallocate(h, a), a, <<>>)
<1> USE NullAssumption, FreedAssumption DEF Sound, Heaps, Sets
<1>1. CASE h.arr[a].data = Null
  <2>1. Deallocate(h, a) = h
    BY <1>1 DEF Deallocate
  <2> QED BY <1>1, <2>1 DEF ValueOf
<1>2. CASE h.arr[a].data # Null
  <2> DEFINE g == Deallocate(h, a)
             d == h.arr[a].data
  <2>1. d \in Blocks /\ h.mem[d] # Freed
    BY <1>2 DEF Owned
  <2>2. g = [arr |-> [h.arr EXCEPT ![a] = Empty],
             mem |-> [h.mem EXCEPT ![d] = Freed],
             faults |-> h.faults]
    BY <1>2, <2>1 DEF Deallocate, FreePool, Allocated
  <2>3. \A b \in Arrays \ {a} : h.arr[b].data # d /\ h.arr[b].data \in Blocks \union {Null}
    BY <1>2 DEF Owned
  <2> HIDE DEF g
  <2>4. \A b \in Arrays : ValueOf(g)[b] = [ValueOf(h) EXCEPT ![a] = <<>>][b]
    BY <2>2, <2>3 DEF ValueOf, Empty
  <2> QED BY <2>4 DEF ValueOf, g
<1> QED BY <1>1, <1>2

\* Allocate leaves its array with unwritten cells, or without a block.
LEMMA AllocateValue ==
  ASSUME NEW h, NEW L, NEW a \in Arrays, Sound(h, L), a \in L,
         NEW n \in Lens, NEW g \in Allocate(h, a, n)
  PROVE  \/ g.arr[a].data = Null /\ Sets(h, g, a, <<>>)
         \/ g.arr[a].data # Null /\ Sets(h, g, a, Values!Fresh(n))
<1> DEFINE k == Deallocate(h, a)
<1>1. Sound(k, L) /\ Sets(h, k, a, <<>>) /\ k.arr[a] = Empty
  BY DeallocateSound, DeallocateValue
<1>2. CASE g = AllocateFails(h, a)
  BY <1>1, <1>2 DEF AllocateFails, Empty
<1>3. ASSUME NEW c \in Blocks, ~Allocated(k, c), g = AllocateOk(h, a, n, c)
      PROVE  g.arr[a].data # Null /\ Sets(h, g, a, Values!Fresh(n))
  <2> DEFINE fresh == [i \in 1..n |-> Junk]
  <2>1. fresh = Values!Fresh(n)
    BY DEF Values!Fresh
  <2> HIDE DEF k, fresh
  <2>2. g = [AllocatePool(k, c, n) EXCEPT
               !.arr = [@ EXCEPT ![a] = [data |-> c, size |-> n]]]
    BY <1>3 DEF AllocateOk, k
  <2>3. g = [arr |-> [k.arr EXCEPT ![a] = [data |-> c, size |-> n]],
             mem |-> [k.mem EXCEPT ![c] = fresh],
             faults |-> k.faults]
    BY <1>1, <2>2 DEF AllocatePool, fresh, Sound, Heaps
  <2>4. /\ g.arr[a].data = c
        /\ \A b \in Arrays \ {a} : g.arr[b] = k.arr[b]
        /\ g.mem[c] = fresh
        /\ \A b \in Blocks \ {c} : g.mem[b] = k.mem[b]
    BY <1>1, <2>3 DEF Sound, Heaps
  <2>5. c # Null /\ \A b \in Arrays : k.arr[b].data # c
    BY <1>1, <1>3, NullAssumption DEF Sound, Owned, Allocated
  <2>6. \A b \in Arrays : k.arr[b].data \in Blocks \union {Null}
    BY <1>1 DEF Sound, Heaps
  <2>7. \A b \in Arrays \ {a} : ValueOf(g)[b] = ValueOf(k)[b]
    BY <2>4, <2>5, <2>6 DEF ValueOf
  <2>8. ValueOf(g)[a] = fresh
    BY <2>4, <2>5 DEF ValueOf
  <2>9. ValueOf(g) = [b \in Arrays |-> ValueOf(g)[b]] /\ ValueOf(h) = [b \in Arrays |-> ValueOf(h)[b]]
    BY DEF ValueOf
  <2>10. \A b \in Arrays \ {a} : ValueOf(k)[b] = ValueOf(h)[b]
    BY <1>1, <2>9 DEF Sets
  <2>11. Sets(h, g, a, Values!Fresh(n))
    BY <2>1, <2>7, <2>8, <2>9, <2>10 DEF Sets
  <2> QED BY <2>4, <2>5, <2>11
<1> QED BY <1>2, <1>3 DEF Allocate

\* Copy writes as much of val as fits, and nothing else.
LEMMA CopyValue ==
  ASSUME NEW h, NEW L, NEW a \in Arrays, Sound(h, L), NEW val \in Seq(Cells)
  PROVE  Sets(h, Copy(h, a, val, Len(val)), a, Values!Prefixed(ValueOf(h)[a], val))
<1> DEFINE v == ValueOf(h)[a]
           k == CopyLen(h, a, Len(val))
           d == h.arr[a].data
           g == Copy(h, a, val, Len(val))
<1>1. v \in Seq(Cells) /\ Len(v) = h.arr[a].size /\ Len(val) \in Nat /\ Len(v) \in Nat
  BY ValueType
<1>2. k = IF Len(val) > Len(v) THEN Len(v) ELSE Len(val)
  BY <1>1 DEF CopyLen
<1>3. Overwrite(v, val, k) = Values!Prefixed(v, val)
  <2> HIDE DEF k, v
  <2>1. \A i \in 1..Len(v) : (IF i <= k THEN val[i] ELSE v[i]) = (IF i <= Len(val) THEN val[i] ELSE v[i])
    BY <1>1, <1>2
  <2> QED BY <2>1 DEF Overwrite, Values!Prefixed
<1>4. ValueOf(h) = [b \in Arrays |-> ValueOf(h)[b]]
  BY DEF ValueOf
<1>5. CASE k = 0
  <2>1. g = h
    BY <1>5 DEF Copy
  <2>2. Overwrite(v, val, k) = v
    <3> HIDE DEF v, k
    <3>1. \A i \in 1..Len(v) : (IF i <= k THEN val[i] ELSE v[i]) = v[i]
      BY <1>1, <1>5
    <3>2. v = [i \in 1..Len(v) |-> v[i]]
      BY <1>1
    <3> QED BY <3>1, <3>2 DEF Overwrite
  <2> QED BY <1>3, <1>4, <2>1, <2>2 DEF Sets
<1>6. CASE k # 0
  <2>1. k \in Nat /\ k <= h.arr[a].size
    <3> HIDE DEF k, v
    <3> QED BY <1>1, <1>2
  <2>2. d \in Blocks /\ d # Null /\ Allocated(h, d) /\ v = h.mem[d]
    <3>1. d # Null
      <4>1. h.arr[a].size # 0
        <5> HIDE DEF k
        <5> QED BY <1>1, <1>6, <2>1
      <4> QED BY <4>1 DEF Sound, Sized
    <3> QED BY <3>1 DEF Sound, Owned, Heaps, Allocated, ValueOf
  <2>3. ~(k > Len(h.mem[d]))
    <3> HIDE DEF k, v
    <3> QED BY <1>1, <2>1, <2>2
  <2>4. g = [h EXCEPT !.mem = [@ EXCEPT ![d] = Overwrite(h.mem[d], val, k)]]
    BY <1>6, <2>2, <2>3 DEF Copy
  <2>5. \A b \in Arrays \ {a} : h.arr[b].data # d /\ h.arr[b].data \in Blocks \union {Null}
    BY <2>2 DEF Sound, Owned, Heaps
  <2> DEFINE new == Values!Prefixed(v, val)
  <2>6. g = [h EXCEPT !.mem = [@ EXCEPT ![d] = new]]
    BY <1>3, <2>2, <2>4
  <2> HIDE DEF new, g, v, k
  <2>7. g.arr = h.arr /\ g.mem[d] = new /\ \A b \in Blocks \ {d} : g.mem[b] = h.mem[b]
    BY <2>2, <2>6 DEF Sound, Heaps
  <2>8. ValueOf(g)[a] = new /\ \A b \in Arrays \ {a} : ValueOf(g)[b] = ValueOf(h)[b]
    BY <2>2, <2>5, <2>7 DEF ValueOf
  <2>9. ValueOf(g) = [b \in Arrays |-> ValueOf(g)[b]]
    BY DEF ValueOf
  <2> QED BY <1>4, <2>8, <2>9 DEF new, v, g, Sets
<1> QED BY <1>5, <1>6

\* Copy(DynamicArray&), and the copy inside the moves.
LEMMA CopyFromValue ==
  ASSUME NEW h, NEW L, NEW a \in Arrays, NEW b \in Arrays, Sound(h, L)
  PROVE  Sets(h, CopyFrom(h, a, h.arr[b].data, h.arr[b].size), a,
              Values!Prefixed(ValueOf(h)[a], ValueOf(h)[b]))
<1> DEFINE p == h.arr[b].data
           w == ValueOf(h)[b]
           k == CopyLen(h, a, h.arr[b].size)
<1>1. w \in Seq(Cells) /\ Len(w) = h.arr[b].size /\ Len(w) \in Nat
  BY ValueType
<1>2. h.arr[a].size \in Nat
  BY LensNat DEF Sound, Heaps
<1>3. CopyFrom(h, a, p, h.arr[b].size) = Copy(h, a, w, Len(w))
  <2>1. CASE k = 0
    BY <1>1, <2>1 DEF CopyFrom, Copy
  <2>2. CASE k # 0
    <3>1. k <= Len(w) /\ k \in Nat
      BY <1>1, <1>2 DEF CopyLen
    <3>2. p # Null
      <4>1. h.arr[b].size # 0
        <5> HIDE DEF k
        <5> QED BY <1>1, <2>2, <3>1
      <4> QED BY <4>1 DEF Sound, Sized
    <3>3. Allocated(h, p) /\ w = h.mem[p]
      BY <3>2 DEF Sound, Owned, Allocated, ValueOf
    <3>4. ~(k > Len(h.mem[p]))
      <4> HIDE DEF k, w
      <4> QED BY <1>1, <3>1, <3>3
    <3> QED BY <1>1, <2>2, <3>2, <3>3, <3>4 DEF CopyFrom
  <2> QED BY <2>1, <2>2
<1> QED BY <1>1, <1>3, CopyValue

\* Writing over a whole array of unwritten cells.
LEMMA PrefixedFresh ==
  ASSUME NEW w \in Seq(Cells)
  PROVE  /\ Values!Prefixed(Values!Fresh(Len(w)), w) = w
         /\ Values!Prefixed(<<>>, w) = <<>>
<1>1. Len(w) \in Nat /\ w = [i \in 1..Len(w) |-> w[i]]
  OBVIOUS
<1>2. Len(Values!Fresh(Len(w))) = Len(w)
  BY <1>1, FreshBlock DEF Values!Fresh
<1>3. \A i \in 1..Len(w) : i <= Len(w)
  BY <1>1
<1>4. Values!Prefixed(Values!Fresh(Len(w)), w) = [i \in 1..Len(w) |-> w[i]]
  BY <1>2, <1>3 DEF Values!Prefixed
<1>5. Values!Prefixed(<<>>, w) = <<>>
  BY DEF Values!Prefixed
<1> QED BY <1>1, <1>4, <1>5

\* Move(const T*, UINTN) sets the array, or empties it.
LEMMA MoveValue ==
  ASSUME NEW h, NEW L, NEW a \in Arrays, Sound(h, L), a \in L,
         NEW val \in RawBuffers, NEW g \in Move(h, a, val, Len(val))
  PROVE  Sets(h, g, a, val) \/ Sets(h, g, a, <<>>)
<1> DEFINE e == Deallocate(h, a)
<1>1. Sound(e, L) /\ Sets(h, e, a, <<>>)
  BY DeallocateSound, DeallocateValue
<1>2. val \in Seq(Cells) /\ Len(val) \in Lens
  BY RawBufferType
<1>3. PICK k \in Allocate(e, a, Len(val)) : g = Copy(k, a, val, Len(val))
  BY DEF Move
<1> HIDE DEF e
<1>4. Sound(k, L)
  BY <1>1, <1>2, AllocateSound
<1>5. Sets(e, k, a, <<>>) \/ Sets(e, k, a, Values!Fresh(Len(val)))
  BY <1>1, <1>2, AllocateValue
<1>6. Sets(k, g, a, Values!Prefixed(ValueOf(k)[a], val))
  BY <1>2, <1>3, <1>4, CopyValue
<1>7. ValueOf(h) = [b \in Arrays |-> ValueOf(h)[b]]
  BY DEF ValueOf
<1> QED BY <1>1, <1>2, <1>5, <1>6, <1>7, PrefixedFresh DEF Sets

\* Move(DynamicArray&&): the value goes over, or is lost with the old one.
LEMMA MoveArrayValue ==
  ASSUME NEW h, NEW L, NEW a \in Arrays, NEW b \in Arrays, a # b,
         Sound(h, L), a \in L, NEW g \in MoveArray(h, a, b)
  PROVE  \E v \in {ValueOf(h)[b], <<>>} :
           ValueOf(g) = [ValueOf(h) EXCEPT ![a] = v, ![b] = <<>>]
<1> DEFINE e == Deallocate(h, a)
           w == ValueOf(h)[b]
<1>1. /\ Sound(e, L) /\ e.arr[b] = h.arr[b]
      /\ Sets(h, e, a, <<>>)
  BY DeallocateSound, DeallocateValue
<1>2. w \in Seq(Cells) /\ Len(w) = h.arr[b].size /\ h.arr[b].size \in Lens
  BY ValueType DEF Sound, Heaps
<1>3. PICK k \in Allocate(e, a, h.arr[b].size) :
        g = Deallocate(CopyFrom(k, a, h.arr[b].data, h.arr[b].size), b)
  BY DEF MoveArray
<1> HIDE DEF e, w
<1>4. Sound(k, L) /\ k.arr[b] = h.arr[b]
  BY <1>1, <1>2, AllocateSound
<1>5. Sets(e, k, a, <<>>) \/ Sets(e, k, a, Values!Fresh(Len(w)))
  BY <1>1, <1>2, AllocateValue
<1>6. ValueOf(h) = [c \in Arrays |-> ValueOf(h)[c]]
  BY DEF ValueOf
<1>7. ValueOf(k)[b] = w
  BY <1>1, <1>5, <1>6 DEF w, Sets
<1> DEFINE f == CopyFrom(k, a, h.arr[b].data, h.arr[b].size)
<1>8. Sound(f, L) /\ Sets(k, f, a, Values!Prefixed(ValueOf(k)[a], w))
  BY <1>4, <1>7, CopyFromSound, CopyFromValue
<1>9. Sets(f, g, b, <<>>)
  BY <1>3, <1>8, DeallocateValue
<1> HIDE DEF f
<1>10. Sets(h, f, a, <<>>) \/ Sets(h, f, a, w)
  BY <1>1, <1>2, <1>5, <1>6, <1>8, PrefixedFresh DEF Sets
<1> QED BY <1>6, <1>9, <1>10 DEF w, Sets

\* operator=(DynamicArray&&).
LEMMA AssignArrayValue ==
  ASSUME NEW h, NEW L, NEW a \in Arrays, NEW b \in Arrays, Sound(h, L)
  PROVE  ValueOf(AssignArray(h, a, b)) =
           [ValueOf(h) EXCEPT ![a] = Values!Prefixed(ValueOf(h)[a], ValueOf(h)[b]), ![b] = <<>>]
<1> DEFINE f == CopyFrom(h, a, h.arr[b].data, h.arr[b].size)
<1>1. Sound(f, L) /\ Sets(h, f, a, Values!Prefixed(ValueOf(h)[a], ValueOf(h)[b]))
  BY CopyFromSound, CopyFromValue
<1>2. Sets(f, AssignArray(h, a, b), b, <<>>)
  BY <1>1, DeallocateValue DEF AssignArray
<1> QED BY <1>1, <1>2 DEF Sets

\* A step that sets one array is a step of ArrayValues if the value it is set
\* to is one of those.
LEMMA SetsIsStep ==
  ASSUME NEW g, NEW a \in Arrays, NEW v, Heap' = g, Sets(Heap, g, a, v)
  PROVE  ArrayValue' = [ArrayValue EXCEPT ![a] = v]
<1>1. ArrayValue' = ValueOf(Heap')
  BY DEF ArrayValue, ValueOf, Contents, Heap
<1> QED BY <1>1, ArrayValueIsValueOf DEF Sets

\* The arrays of a program are independent values: no call changes an array
\* it was not given, and a copy or a move leaves what it should, or an empty
\* array if the pool refused (dynamic_array.h).
THEOREM ImplementsValuesHolds == Spec => ImplementsValues
<1>1. Init => Values!Init
  BY DEF Init, Values!Init, ArrayValue, Contents, Empty
<1>2. IInv /\ [Next]_vars => [Values!Next]_ArrayValue
  <2> SUFFICES ASSUME IInv, [Next]_vars, ArrayValue' # ArrayValue PROVE Values!Next
    BY Zenon
  <2>0. Sound(Heap, live) /\ ArrayValue = ValueOf(Heap)
    BY ArrayValueIsValueOf DEF IInv
  <2>1. ASSUME NEW a \in Arrays, Construct(a) PROVE FALSE
    <3>1. arr[a] = Empty
      BY <2>0, <2>1 DEF Construct, Sound, Heaps, Heap, Owned, Sized, Empty
    <3>2. arr' = arr /\ mem' = mem
      BY <2>0, <2>1, <3>1 DEF Construct, Becomes, Heap, Sound, Heaps
    <3> QED BY <3>2 DEF ArrayValue, Contents
  <2>2. ASSUME NEW a \in Arrays, Destroy(a) \/ CallDeallocate(a) PROVE Values!Next
    <3>1. Sound(Deallocate(Heap, a), live) /\ Sets(Heap, Deallocate(Heap, a), a, <<>>)
      BY <2>0, DeallocateSound, DeallocateValue
    <3>2. Heap' = Deallocate(Heap, a)
      BY <2>2, <3>1, BecomesHeap DEF Destroy, CallDeallocate
    <3>3. Values!Clear(a)
      BY <3>1, <3>2, SetsIsStep DEF Values!Clear
    <3> QED BY <3>3 DEF Values!Next
  <2>3. ASSUME NEW a \in Arrays, NEW n \in Lens, CallAllocate(a, n) PROVE Values!Next
    <3>1. PICK h \in Allocate(Heap, a, n) : Becomes(h)
      BY <2>3 DEF CallAllocate
    <3>2. Sound(h, live) /\ (Sets(Heap, h, a, <<>>) \/ Sets(Heap, h, a, Values!Fresh(n)))
      BY <2>0, <2>3, AllocateSound, AllocateValue DEF CallAllocate
    <3>3. Values!Clear(a) \/ Values!Resize(a, n)
      BY <3>1, <3>2, BecomesHeap, SetsIsStep DEF Values!Clear, Values!Resize
    <3> QED BY <3>3 DEF Values!Next, Lens
  <2>4. ASSUME NEW a \in Arrays, NEW v \in RawBuffers, CallCopyRaw(a, v) PROVE Values!Next
    <3> DEFINE g == Copy(Heap, a, v, Len(v))
    <3>1. Sound(g, live) /\ Sets(Heap, g, a, Values!Prefixed(ValueOf(Heap)[a], v))
      BY <2>0, RawBufferType, CopyRawSound, CopyValue
    <3>2. Heap' = g
      BY <2>4, <3>1, BecomesHeap DEF CallCopyRaw
    <3> HIDE DEF g
    <3>3. Values!Fill(a, v)
      BY <2>0, <3>1, <3>2, SetsIsStep DEF Values!Fill
    <3> QED BY <3>3 DEF Values!Next, Values!Buffers, RawBuffers, Lens
  <2>5. ASSUME NEW a \in Arrays, NEW v \in RawBuffers, CallMoveRaw(a, v) PROVE Values!Next
    <3>1. PICK h \in Move(Heap, a, v, Len(v)) : Becomes(h)
      BY <2>5 DEF CallMoveRaw
    <3>2. Sound(h, live) /\ (Sets(Heap, h, a, v) \/ Sets(Heap, h, a, <<>>))
      BY <2>0, <2>5, MoveSound, MoveValue DEF CallMoveRaw
    <3>3. Values!Clear(a) \/ Values!Set(a, v)
      BY <3>1, <3>2, BecomesHeap, SetsIsStep DEF Values!Clear, Values!Set
    <3> QED BY <3>3 DEF Values!Next, Values!Buffers, RawBuffers, Lens
  <2>6. ASSUME NEW a \in Arrays, NEW b \in Arrays, CallCopy(a, b) PROVE Values!Next
    <3> DEFINE g == CopyFrom(Heap, a, Heap.arr[b].data, Heap.arr[b].size)
    <3>1. Sound(g, live) /\ Sets(Heap, g, a, Values!Prefixed(ValueOf(Heap)[a], ValueOf(Heap)[b]))
      BY <2>0, CopyFromSound, CopyFromValue
    <3>2. Becomes(g)
      BY <2>6 DEF CallCopy, Heap
    <3>3. Heap' = g
      BY <3>1, <3>2, BecomesHeap
    <3> HIDE DEF g
    <3>4. Values!Fill(a, ArrayValue[b])
      BY <2>0, <3>1, <3>3, SetsIsStep DEF Values!Fill
    <3> QED BY <3>4 DEF Values!Next
  <2>7. ASSUME NEW a \in Arrays, NEW b \in Arrays, CallMove(a, b) PROVE Values!Next
    <3>1. PICK h \in MoveArray(Heap, a, b) : Becomes(h)
      BY <2>7 DEF CallMove
    <3>2. PICK v \in {ValueOf(Heap)[b], <<>>} :
            ValueOf(h) = [ValueOf(Heap) EXCEPT ![a] = v, ![b] = <<>>]
      BY <2>0, <2>7, MoveArrayValue DEF CallMove
    <3>3. Heap' = h
      BY <2>0, <2>7, <3>1, MoveArraySound, BecomesHeap DEF CallMove
    <3>4. ArrayValue' = ValueOf(h)
      BY <3>3 DEF ArrayValue, ValueOf, Contents, Heap
    <3>5. Values!Take(a, b)
      BY <2>0, <3>2, <3>4 DEF Values!Take
    <3> QED BY <2>7, <3>5 DEF Values!Next, CallMove
  <2>8. ASSUME NEW a \in Arrays, NEW b \in Arrays, CallAssign(a, b) PROVE Values!Next
    <3> DEFINE g == AssignArray(Heap, a, b)
    <3>1. Heap' = g
      BY <2>0, <2>8, AssignArraySound, BecomesHeap DEF CallAssign
    <3>2. ValueOf(g) =
            [ValueOf(Heap) EXCEPT ![a] = Values!Prefixed(ValueOf(Heap)[a], ValueOf(Heap)[b]),
                                  ![b] = <<>>]
      BY <2>0, AssignArrayValue
    <3> HIDE DEF g
    <3>3. ArrayValue' = ValueOf(g)
      BY <3>1 DEF ArrayValue, ValueOf, Contents, Heap
    <3>4. Values!Absorb(a, b)
      BY <2>0, <3>2, <3>3 DEF Values!Absorb
    <3> QED BY <2>8, <3>4 DEF Values!Next, CallAssign
  <2>9. CASE UNCHANGED vars
    BY <2>9 DEF vars, ArrayValue, Contents
  <2> QED BY <2>1, <2>2, <2>3, <2>4, <2>5, <2>6, <2>7, <2>8, <2>9 DEF Next
<1> QED BY <1>1, <1>2, IInvariant, PTL DEF Spec, ImplementsValues, Values!Spec

=============================================================================
