------------------------------ MODULE PickleApp ------------------------------
(***************************************************************************)
(* apps/pickle.cc: pickleTest opens \lk.elf, reads it into a DynamicArray, *)
(* loads it with Elf::LoadImage and jumps to its entry point.  This module *)
(* composes File (with its DynamicArrays) and Elf: the bytes File delivers *)
(* are the image Elf loads.  The program prints an error and goes on after *)
(* every failure, so each step runs whatever became of the one before.     *)
(***************************************************************************)
EXTENDS Integers, Sequences

CONSTANTS
  LkElf,      \* what is in \lk.elf: an image in the sense of Elf
  Lk,         \* its path
  Handles, Blocks, MaxLen, Null, Freed, Junk,   \* see File
  NPages, PageSize                              \* see Elf

VARIABLES
  disk, open, path, pos, root, file, arr, mem, faults,   \* File picklefile,
  fpc, req, fstatus, readSize, opened,                   \* DynamicArray data
  ram, owner, base, loads, lpc, img, seg, pages, i, lstatus, entry,   \* Elf elf
  apc,        \* where pickleTest is
  ok,         \* the steps that have returned success
  target      \* the address lkEntry was called with

fileVars == <<disk, open, path, pos, root, file, arr, mem, faults,
              fpc, req, fstatus, readSize, opened>>
elfVars  == <<ram, owner, base, loads, lpc, img, seg, pages, i, lstatus, entry>>
vars     == <<fileVars, elfVars, apc, ok, target>>

F == INSTANCE File WITH Paths <- {Lk}

\* \lk.elf as LoadImage finds it: by its first n bytes, which may be missing
\* altogether (null) or not begin like an ELF file.
Variant(n, ident, null) ==
  [null |-> null, ident |-> ident, size |-> n, phoff |-> LkElf.phoff,
   phdrs |-> LkElf.phdrs, beyond |-> LkElf.beyond, entry |-> LkElf.entry]

\* The images LoadImage can be handed.
Images ==
  {Variant(n, ident, null) : n \in 0..MaxLen, ident \in BOOLEAN, null \in BOOLEAN}

L == INSTANCE Elf WITH MaxLoads <- 1

\* What File and Elf assume of their constants.
ASSUME AppAssumption ==
  /\ MaxLen \in Nat \ {0}
  /\ Null \notin Blocks \union Handles
  /\ Junk \notin F!Cells
  /\ Freed \notin Seq(F!Cells \union {Junk})
  /\ NPages \in Nat \ {0} /\ PageSize \in Nat \ {0}
  /\ LkElf \in L!Image /\ L!WellFormed(LkElf)

Data == F!A!Contents(F!OutBuffer)

\* What the bytes in data look like to LoadImage.  Without a block they are a
\* null pointer; a block that is empty or was not filled (a failed Read) holds
\* leftovers, which may or may not begin like an ELF file.
Image ==
  {Variant(Len(Data), ident, arr[F!OutBuffer].data = Null) :
     ident \in IF Data = <<>> \/ Data[1] = Junk THEN BOOLEAN ELSE {LkElf.ident}}

-----------------------------------------------------------------------------
Open ==
  /\ apc = "open"
  /\ F!CallOpen(Lk)
  /\ apc' = "opening"
  /\ UNCHANGED <<elfVars, ok, target>>

Opening ==
  /\ apc = "opening"
  /\ F!OpenStep
  /\ apc' = IF fpc' = "idle" THEN "read" ELSE "opening"
  /\ ok' = IF fpc' = "idle" /\ fstatus' = "EFI_SUCCESS" THEN ok \union {"open"} ELSE ok
  /\ UNCHANGED <<elfVars, target>>

Read ==
  /\ apc = "read" /\ file # Null
  /\ F!ReadAll
  /\ apc' = "load"
  /\ ok' = IF fstatus' = "EFI_SUCCESS" THEN ok \union {"read"} ELSE ok
  /\ UNCHANGED <<elfVars, target>>

\* Read without an open file: OutBuffer.Allocate(Size()), then, unless that
\* failed, a call through the null _file.
ReadClosed ==
  /\ apc = "read" /\ file = Null
  /\ \E n \in F!Size : \E h \in F!A!Allocate(F!A!Heap, F!OutBuffer, n) :
       /\ F!A!Becomes(h)
       /\ apc' = IF h.arr[F!OutBuffer].data = Null THEN "load" ELSE "wild"
  /\ UNCHANGED <<elfVars, ok, target, disk, open, path, pos, root, file,
                 fpc, req, fstatus, readSize, opened>>

Load ==
  /\ apc = "load"
  /\ \E im \in Image : L!Call(im)
  /\ apc' = "loading"
  /\ UNCHANGED <<fileVars, ok, target>>

Loading ==
  /\ apc = "loading"
  /\ L!LoadStep
  /\ apc' = IF lpc' = "idle" THEN "jump" ELSE "loading"
  /\ ok' = IF lpc' = "idle" /\ lstatus = "EFI_SUCCESS" THEN ok \union {"load"} ELSE ok
  /\ UNCHANGED <<fileVars, target>>

\* entryAddr is whatever LoadImage left in it; the halt loop follows.
Jump ==
  /\ apc = "jump"
  /\ target' = entry
  /\ apc' = "jumped"
  /\ UNCHANGED <<fileVars, elfVars, ok>>

Firmware ==
  /\ \E p \in L!Pages : L!FwAllocate(p) \/ L!FwFree(p)
  /\ apc \notin {"jumped", "wild"}
  /\ UNCHANGED <<fileVars, apc, ok, target>>

AppStep == Open \/ Opening \/ Read \/ ReadClosed \/ Load \/ Loading \/ Jump

Init ==
  /\ F!Init
  /\ L!LoadInit
  /\ apc = "open" /\ ok = {} /\ target = L!Foreign

Next == AppStep \/ Firmware

\* The application runs; its firmware calls return.
Spec == Init /\ [][Next]_vars /\ WF_vars(AppStep)

-----------------------------------------------------------------------------
(* Properties. *)

\* When every step succeeded, control goes to the byte of \lk.elf that its
\* e_entry names: File, DynamicArray and Elf together put the right contents at
\* the right address.
JumpsToEntryOfFile ==
  apc = "jumped" /\ ok = {"open", "read", "load"} =>
    \A p \in L!LoadHeaders(LkElf) :
      LkElf.entry \in p.vaddr..(p.vaddr + p.filesz - 1) =>
        /\ target \in L!Addrs
        /\ ram[target] + 1 \in DOMAIN Data
        /\ Data[ram[target] + 1] = <<Lk, p.offset + (LkElf.entry - p.vaddr)>>

\* The program always gets to the jump, or to the call through _file.
AppEnds == <>(apc \in {"jumped", "wild"})

-----------------------------------------------------------------------------
(* For model checking, a small \lk.elf: a header cell, two program headers *)
(* (a PT_LOAD segment and a note) and two cells of text; the segment has   *)
(* one more cell of .bss and is linked at virtual address 20.  The disk    *)
(* holds any prefix of the file, from nothing to all of it, or no file.    *)

Phdr(load, offset, paddr, vaddr, filesz, memsz) ==
  [load |-> load, offset |-> offset, paddr |-> paddr, vaddr |-> vaddr,
   filesz |-> filesz, memsz |-> memsz]

SmallLk ==
  [null |-> FALSE, ident |-> TRUE, size |-> 5, phoff |-> 1,
   phdrs |-> <<Phdr(TRUE, 3, 3, 20, 2, 3), Phdr(FALSE, 1, 0, 0, 1, 1)>>,
   beyond |-> Phdr(FALSE, 1, 0, 0, 1, 1), entry |-> 21]
=============================================================================
