---------------------------- MODULE DynamicArray ----------------------------
(***************************************************************************)
(* Pickle::util::DynamicArray<T> over PoolAllocator<T>                     *)
(* (inc/pickle/util/dynamic_array.h, inc/pickle/util/allocator.h).         *)
(*                                                                         *)
(* The arrays of one boot application share the firmware's pool.  An array *)
(* object is a pair (_data, _size); _data is a pool block or the null      *)
(* pointer.  The pool is modelled by mem: mem[b] is the contents of block  *)
(* b, a sequence of cells, or Freed.  A method runs to completion (the     *)
(* class is used at one TPL), so an action is a whole method call; what is *)
(* left open is which block AllocatePool returns and whether it fails.     *)
(*                                                                         *)
(* The methods are written as functions on a heap record h with the fields *)
(* arr, mem and faults, because the code composes them: Move is            *)
(* Deallocate; Allocate; Copy.  faults collects what the code would do to  *)
(* memory it does not own.                                                 *)
(***************************************************************************)
EXTENDS Naturals, Sequences

CONSTANTS
  Arrays,     \* DynamicArray objects (storage for them: stack or member)
  Blocks,     \* pool blocks AllocatePool can return
  Vals,       \* element values
  MaxLen,     \* bound: the longest array a caller asks for
  Null,       \* nullptr
  Freed,      \* contents of a block that is not allocated
  Junk        \* a cell nobody has written yet

ASSUME NullAssumption  == Null \notin Blocks
ASSUME MaxLenAssumption == MaxLen \in Nat
ASSUME FreedAssumption == Freed \notin Seq(Vals \union {Junk})

VARIABLES
  live,       \* arrays whose constructor has run and destructor has not
  arr,        \* [_data, _size] of every array object
  mem,        \* the pool
  faults,     \* wild frees, reads and writes so far
  status      \* EFI_STATUS of the last Allocate

vars == <<live, arr, mem, faults, status>>

Cells == Vals \union {Junk}
Lens  == 0..MaxLen
Empty == [data |-> Null, size |-> 0]

Heap == [arr |-> arr, mem |-> mem, faults |-> faults]

\* The caller's own buffers: Move(const T*, UINTN) and operator=(const T(&)[SIZE]).
RawBuffers == UNION {[1..n -> Vals] : n \in Lens}

TypeOK ==
  /\ live \subseteq Arrays
  /\ arr \in [Arrays -> [data : Blocks \union {Null}, size : Lens]]
  /\ mem \in [Blocks -> Seq(Cells) \union {Freed}]
  /\ faults \subseteq {"free", "read", "write"}
  /\ status \in {"EFI_SUCCESS", "EFI_OUT_OF_RESOURCES"}

-----------------------------------------------------------------------------
(* The pool, as BS->AllocatePool and BS->FreePool are used by PoolAllocator. *)

Allocated(h, b) == h.mem[b] # Freed

AllocatePool(h, b, n) ==
  [h EXCEPT !.mem = [@ EXCEPT ![b] = [i \in 1..n |-> Junk]]]

FreePool(h, b) ==
  IF Allocated(h, b)
    THEN [h EXCEPT !.mem = [@ EXCEPT ![b] = Freed]]
    ELSE [h EXCEPT !.faults = @ \union {"free"}]

-----------------------------------------------------------------------------
(* The methods. *)

Deallocate(h, a) ==
  IF h.arr[a].data = Null
    THEN h
    ELSE [FreePool(h, h.arr[a].data) EXCEPT !.arr = [@ EXCEPT ![a] = Empty]]

\* Mutants: the old block is not given back; the size is one too large.
AllocateOkLeaks(h, a, n, b) ==
  [AllocatePool(h, b, n) EXCEPT !.arr = [@ EXCEPT ![a] = [data |-> b, size |-> n]]]
\* AllocateOk is the call whose AllocatePool returns block b; a failing call
\* leaves _data null and does not assign _size.
AllocateOk(h, a, n, b) ==
  [AllocatePool(Deallocate(h, a), b, n) EXCEPT
     !.arr = [@ EXCEPT ![a] = [data |-> b, size |-> n]]]

AllocateFails(h, a) == Deallocate(h, a)

\* The block AllocatePool may return is any block that is free after the
\* array's own block has been given back, that block included.
Allocate(h, a, n) ==
  {AllocateOk(h, a, n, b) :
     b \in {c \in Blocks : ~Allocated(Deallocate(h, a), c)}}
  \union {AllocateFails(h, a)}

\* CopyMem(dst, src, k): the first k cells of dst become those of src.
Overwrite(dst, src, k) ==
  [i \in 1..Len(dst) |-> IF i <= k THEN src[i] ELSE dst[i]]

CopyLen(h, a, len) == IF len > h.arr[a].size THEN h.arr[a].size ELSE len

\* Copy(const T* val, UINTN len); val is a sequence the caller may read.
Copy(h, a, val, len) ==
  LET k == CopyLen(h, a, len)
      d == h.arr[a].data
  IN  IF k = 0 THEN h
      ELSE IF d = Null \/ ~Allocated(h, d) \/ k > Len(h.mem[d])
      THEN [h EXCEPT !.faults = @ \union {"write"}]
      ELSE [h EXCEPT !.mem = [@ EXCEPT ![d] = Overwrite(h.mem[d], val, k)]]

\* Copy(p, len) where p is the _data of another array, read when the copy
\* runs.
CopyFrom(h, a, p, len) ==
  IF CopyLen(h, a, len) = 0 THEN h
  ELSE IF p = Null \/ ~Allocated(h, p) \/ CopyLen(h, a, len) > Len(h.mem[p])
  THEN [h EXCEPT !.faults = @ \union {"read"}]
  ELSE Copy(h, a, h.mem[p], len)

\* Move(const T*, UINTN): the status of Allocate is dropped.
Move(h, a, val, len) ==
  {Copy(g, a, val, len) : g \in Allocate(Deallocate(h, a), a, len)}

\* Mutant: the source is emptied before it is copied.
MoveArrayFreesFirst(h, a, b) ==
  {CopyFrom(Deallocate(g, b), a, h.arr[b].data, h.arr[b].size) :
     g \in Allocate(Deallocate(h, a), a, h.arr[b].size)}

\* Move(DynamicArray&&).
MoveArray(h, a, b) ==
  {Deallocate(CopyFrom(g, a, h.arr[b].data, h.arr[b].size), b) :
     g \in Allocate(Deallocate(h, a), a, h.arr[b].size)}

\* operator=(DynamicArray&&): a copy into the room a has, then b is emptied.
AssignArray(h, a, b) ==
  Deallocate(CopyFrom(h, a, h.arr[b].data, h.arr[b].size), b)

-----------------------------------------------------------------------------
(* The calls a program makes. *)

Becomes(h) ==
  /\ arr' = h.arr
  /\ mem' = h.mem
  /\ faults' = h.faults

Construct(a) ==
  /\ a \notin live
  /\ live' = live \union {a}
  /\ Becomes([Heap EXCEPT !.arr = [@ EXCEPT ![a] = Empty]])
  /\ UNCHANGED status

Destroy(a) ==
  /\ a \in live
  /\ live' = live \ {a}
  /\ Becomes(Deallocate(Heap, a))
  /\ UNCHANGED status

CallAllocate(a, n) ==
  /\ a \in live
  /\ \E h \in Allocate(Heap, a, n) :
       /\ Becomes(h)
       /\ status' = IF h.arr[a].data = Null THEN "EFI_OUT_OF_RESOURCES"
                                            ELSE "EFI_SUCCESS"
  /\ UNCHANGED live

CallDeallocate(a) ==
  /\ a \in live
  /\ Becomes(Deallocate(Heap, a))
  /\ UNCHANGED <<live, status>>

\* operator=(const T(&)[SIZE]) and Copy(const T*, UINTN).
CallCopyRaw(a, val) ==
  /\ a \in live
  /\ Becomes(Copy(Heap, a, val, Len(val)))
  /\ UNCHANGED <<live, status>>

\* Copy(DynamicArray&).
CallCopy(a, b) ==
  /\ a \in live /\ b \in live
  /\ Becomes(CopyFrom(Heap, a, arr[b].data, arr[b].size))
  /\ UNCHANGED <<live, status>>

CallMoveRaw(a, val) ==
  /\ a \in live
  /\ \E h \in Move(Heap, a, val, Len(val)) : Becomes(h)
  /\ UNCHANGED <<live, status>>

\* A move from the array itself is outside the contract of both calls.
CallMove(a, b) ==
  /\ a \in live /\ b \in live /\ a # b
  /\ \E h \in MoveArray(Heap, a, b) : Becomes(h)
  /\ UNCHANGED <<live, status>>

CallAssign(a, b) ==
  /\ a \in live /\ b \in live /\ a # b
  /\ Becomes(AssignArray(Heap, a, b))
  /\ UNCHANGED <<live, status>>

Init ==
  /\ live = {}
  /\ arr = [a \in Arrays |-> Empty]
  /\ mem = [b \in Blocks |-> Freed]
  /\ faults = {}
  /\ status = "EFI_SUCCESS"

Next ==
  \/ \E a \in Arrays : Construct(a) \/ Destroy(a) \/ CallDeallocate(a)
  \/ \E a \in Arrays, n \in Lens : CallAllocate(a, n)
  \/ \E a \in Arrays, val \in RawBuffers : CallCopyRaw(a, val) \/ CallMoveRaw(a, val)
  \/ \E a, b \in Arrays : CallCopy(a, b) \/ CallMove(a, b) \/ CallAssign(a, b)

Spec == Init /\ [][Next]_vars

-----------------------------------------------------------------------------
(* Properties. *)

\* Every pool block that is allocated is the _data of exactly one array, and
\* only live arrays hold blocks: nothing leaks and nothing is shared.  This is
\* what Deallocate-before-Allocate and the two move forms have to preserve.
Ownership ==
  /\ \A a \in Arrays : arr[a].data # Null => a \in live /\ mem[arr[a].data] # Freed
  /\ \A a, b \in Arrays : arr[a].data = arr[b].data /\ arr[a].data # Null => a = b
  /\ \A b \in Blocks : mem[b] # Freed => \E a \in Arrays : arr[a].data = b

\* _size is the length of the block behind _data, and 0 when there is none:
\* Copy's clamp to _size is only as good as this.
SizeMatchesBlock ==
  \A a \in Arrays :
    arr[a].size = IF arr[a].data = Null THEN 0 ELSE Len(mem[arr[a].data])

\* No sequence of calls frees, reads or writes memory the array does not own.
NoFault == faults = {}

\* An array owns what it points at and knows how much that is, after every
\* sequence of calls, refused allocations included: see the three above
\* (dynamic_array.h, allocator.h).
MemorySound == TypeOK /\ Ownership /\ SizeMatchesBlock /\ NoFault

\* What an array holds, as its user sees it.
Contents(a) == IF arr[a].data = Null THEN <<>> ELSE mem[arr[a].data]

\* The arrays are independent values: see ArrayValues.
ArrayValue == [a \in Arrays |-> Contents(a)]
Values == INSTANCE ArrayValues WITH val <- ArrayValue
ImplementsValues == Values!Spec

=============================================================================
