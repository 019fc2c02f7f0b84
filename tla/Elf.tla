--------------------------------- MODULE Elf ---------------------------------
(***************************************************************************)
(* Pickle::amoeba::Elf (lib/pickle/amoeba/elf.cc): LoadImage takes the     *)
(* bytes of an ELF file and places its PT_LOAD segments at their physical  *)
(* addresses, in pages it asks the firmware for.                           *)
(*                                                                         *)
(* Addresses, offsets and sizes are counted in cells; a page is PageSize   *)
(* cells.  A file is described by the fields the loader looks at (Image);  *)
(* its contents are symbolic: the cell at file offset k holds the number   *)
(* k.  Memory cells hold such a number, Zero after SetMem, or Foreign for  *)
(* whatever was there before.                                              *)
(*                                                                         *)
(* One call of LoadImage is a sequence of steps (lpc), because the         *)
(* firmware and its timer callbacks allocate and free pages between them.  *)
(* A page belongs to the number of the call that allocated it.             *)
(***************************************************************************)
EXTENDS Integers, Sequences

CONSTANTS
  Images,     \* the files LoadImage is called with
  NPages,     \* bound: pages of physical memory; page 0 is the firmware's
  PageSize,   \* cells per page
  MaxLoads    \* bound: calls of LoadImage

ASSUME BoundsAssumption == NPages \in Nat \ {0} /\ PageSize \in Nat \ {0} /\ MaxLoads \in Nat

\* sizeof(Elf64_Phdr), which is also e_phentsize of every ELF64 file.
PhEntSize == 56

Zero    == -1
Foreign == -2
Free    == -1     \* owners: a call number, or one of these two
Fw      == 0

Pages == 0..(NPages - 1)
Addrs == 0..(NPages * PageSize - 1)

\* SEGMENT_INFO_DEFAULT_START_ADDR is above every address.
DefaultStart == NPages * PageSize
DefaultEnd   == 0

\* An Elf64_Phdr, and the fields of a file that the loader looks at.
ProgramHeader ==
  [load : BOOLEAN, offset : Nat, paddr : Nat, vaddr : Nat, filesz : Nat, memsz : Nat]
Image ==
  [null : BOOLEAN, ident : BOOLEAN, size : Nat, phoff : Nat,
   phdrs : Seq(ProgramHeader), beyond : ProgramHeader, entry : Nat]

\* The segments to be loaded have p_filesz <= p_memsz (which the ELF format
\* demands and LoadImage does not test) and lie in the address space; the
\* bytes behind the program header table do not look like one.
WellFormed(im) ==
  /\ ~im.beyond.load
  /\ \A k \in 1..Len(im.phdrs) : im.phdrs[k].load =>
       /\ im.phdrs[k].filesz <= im.phdrs[k].memsz
       /\ im.phdrs[k].paddr + im.phdrs[k].memsz <= DefaultStart

ASSUME ImagesAssumption == Images \subseteq Image /\ \A im \in Images : WellFormed(im)

VARIABLES
  ram,        \* contents of physical memory
  owner,      \* who holds each page
  base,       \* Elf::_loadBaseAddr, kept from call to call
  loads,      \* calls of LoadImage so far; the current one's number
  lpc,        \* where the call is
  img,        \* its Image argument
  seg,        \* segInfo
  pages,      \* the local pages
  i,          \* loop counter
  lstatus,    \* EFI_STATUS
  entry       \* outEntry

loadVars == <<ram, owner, base, loads, lpc, img, seg, pages, i, lstatus, entry>>
locals == <<img, seg, pages, i, lstatus, entry>>

AlignDown(a) == a - (a % PageSize)
AlignUp(a)   == AlignDown(a + PageSize - 1)
PageOf(a)    == a \div PageSize
Span(start, n) == {PageOf(start) + k : k \in 0..(n - 1)}

\* The cells of a program header's segment.
Target(p) == p.paddr..(p.paddr + p.memsz - 1)

\* The i-th program header, as FindLOADSegment and the entry lookup find it:
\* i * e_phentsize bytes behind _phdr.
Header(im, k) == im.phdrs[k + 1]

\* The i-th header of the copy loop: _phdr + i * e_phentsize steps over whole
\* headers, so it is the header with index i * e_phentsize; past the table
\* it reads other bytes of the file, which look like im.beyond.
CopyHeader(im, k) ==
  LET index == k * PhEntSize
  IN  IF index < Len(im.phdrs) THEN im.phdrs[index + 1] ELSE im.beyond

-----------------------------------------------------------------------------
(* The firmware. *)

AllocatePagesOk(start, n) ==
  n > 0 /\ \A p \in Span(start, n) : p \in Pages /\ owner[p] = Free

\* FreePages releases allocated pages whoever allocated them, and refuses a
\* range that is not allocated throughout.
AfterFreePages(start, n) ==
  IF n > 0 /\ \A p \in Span(start, n) : p \in Pages /\ owner[p] # Free
    THEN [p \in Pages |-> IF p \in Span(start, n) THEN Free ELSE owner[p]]
    ELSE owner

FwAllocate(p) ==
  /\ owner[p] = Free
  /\ owner' = [owner EXCEPT ![p] = Fw]
  /\ ram' = [a \in Addrs |-> IF PageOf(a) = p THEN Foreign ELSE ram[a]]
  /\ UNCHANGED <<base, loads, lpc, locals>>

FwFree(p) ==
  /\ p # 0 /\ owner[p] = Fw
  /\ owner' = [owner EXCEPT ![p] = Free]
  /\ UNCHANGED <<ram, base, loads, lpc, locals>>

-----------------------------------------------------------------------------
(* The object: constructor and destructor.  The destructor forgets the load *)
(* address and releases nothing: the image stays.                           *)
NewElf ==
  /\ lpc = "idle" /\ base # 0
  /\ base' = 0
  /\ UNCHANGED <<ram, owner, loads, lpc, locals>>

(* LoadImage. *)

Call(im) ==
  /\ lpc = "idle" /\ loads < MaxLoads
  /\ loads' = loads + 1
  /\ img' = im
  /\ pages' = 0
  /\ seg' = [start |-> DefaultStart, end |-> DefaultEnd]
  /\ i' = 0
  /\ lstatus' = "EFI_SUCCESS"
  /\ lpc' = "validate"
  /\ UNCHANGED <<ram, owner, base, entry>>

Fail(err) == lstatus' = err /\ lpc' = "fail"

\* The checks of ValidateElf in their order.
Verdict(im) ==
  CASE im.null -> "EFI_INVALID_PARAMETER"
    [] ~im.null /\ ~im.ident -> "EFI_UNSUPPORTED"
    [] ~im.null /\ im.ident /\ im.phoff + Len(im.phdrs) > im.size -> "EFI_LOAD_ERROR"
    [] OTHER -> "EFI_SUCCESS"

ValidateElf ==
  /\ lpc = "validate"
  /\ \/ Verdict(img) = "EFI_SUCCESS" /\ lpc' = "find" /\ UNCHANGED lstatus
     \/ Verdict(img) # "EFI_SUCCESS" /\ Fail(Verdict(img))
  /\ UNCHANGED <<ram, owner, base, loads, img, seg, pages, i, entry>>

LoadHeaders(im) ==
  {Header(im, k) : k \in {j \in 0..(Len(im.phdrs) - 1) : Header(im, j).load}}

\* The smallest page-aligned range around every PT_LOAD segment.
Extent(im) ==
  [start |-> CHOOSE s \in {AlignDown(p.paddr) : p \in LoadHeaders(im)} :
               \A p \in LoadHeaders(im) : s <= AlignDown(p.paddr),
   end   |-> CHOOSE e \in {AlignUp(p.paddr + p.memsz) : p \in LoadHeaders(im)} :
               \A p \in LoadHeaders(im) : e >= AlignUp(p.paddr + p.memsz)]

\* _loadBaseAddr is assigned on both outcomes.
FindLOADSegment ==
  /\ lpc = "find"
  /\ \/ /\ LoadHeaders(img) # {}
        /\ seg' = Extent(img)
        /\ lpc' = "allocate" /\ UNCHANGED lstatus
     \/ /\ LoadHeaders(img) = {}
        /\ seg' = seg
        /\ Fail("EFI_LOAD_ERROR")
  /\ base' = seg'.start
  /\ UNCHANGED <<ram, owner, loads, img, pages, i, entry>>

AllocatePages ==
  /\ lpc = "allocate"
  /\ pages' = (seg.end - seg.start) \div PageSize
  /\ \/ /\ AllocatePagesOk(base, pages')
        /\ owner' = [p \in Pages |-> IF p \in Span(base, pages') THEN loads ELSE owner[p]]
        /\ lpc' = "zero" /\ UNCHANGED lstatus
     \/ /\ ~AllocatePagesOk(base, pages')
        /\ UNCHANGED owner
        /\ Fail("EFI_NOT_FOUND")
  /\ UNCHANGED <<ram, base, loads, img, seg, i, entry>>

\* Mutant: the pages are not cleared.
SetMemSkipped == lpc = "zero" /\ lpc' = "copy" /\ UNCHANGED <<ram, owner, base, loads, locals>>

SetMem ==
  /\ lpc = "zero"
  /\ ram' = [a \in Addrs |-> IF a >= seg.start /\ a < seg.end THEN Zero ELSE ram[a]]
  /\ lpc' = "copy"
  /\ UNCHANGED <<owner, base, loads, locals>>

\* CopyMem(p_paddr, Image.Data() + p_offset, p_filesz).
Copied(p) ==
  [a \in Addrs |-> IF a >= p.paddr /\ a < p.paddr + p.filesz
                     THEN p.offset + (a - p.paddr) ELSE ram[a]]

\* Mutant: a header that is not PT_LOAD does not advance the loop.
CopySegmentStuck ==
  /\ lpc = "copy" /\ i < Len(img.phdrs)
  /\ CopyHeader(img, i).load
  /\ ram' = Copied(CopyHeader(img, i)) /\ i' = i + 1
  /\ UNCHANGED <<owner, base, loads, img, seg, pages, entry, lstatus, lpc>>

CopySegment ==
  /\ lpc = "copy" /\ i < Len(img.phdrs)
  /\ LET p == CopyHeader(img, i)
     IN  \/ ~p.load /\ i' = i + 1 /\ UNCHANGED <<ram, lstatus, lpc>>
         \/ /\ p.load /\ p.offset + p.filesz > img.size
            /\ Fail("EFI_LOAD_ERROR") /\ UNCHANGED <<ram, i>>
         \/ /\ p.load /\ p.offset + p.filesz <= img.size
            /\ ram' = Copied(p) /\ i' = i + 1 /\ UNCHANGED <<lstatus, lpc>>
  /\ UNCHANGED <<owner, base, loads, img, seg, pages, entry>>

Holds(p, e) == p.load /\ e >= p.vaddr /\ e < p.vaddr + p.memsz

\* Mutant: the entry point is taken as a physical address.
EntryOfUntranslated(im) == im.entry

\* The first segment around e_entry translates it; without one it is kept.
EntryOf(im) ==
  LET hits == {k \in 0..(Len(im.phdrs) - 1) : Holds(Header(im, k), im.entry)}
      hit  == Header(im, CHOOSE k \in hits : \A j \in hits : k <= j)
  IN  IF hits = {} THEN im.entry ELSE hit.paddr + (im.entry - hit.vaddr)

FindEntry ==
  /\ lpc = "copy" /\ i = Len(img.phdrs)
  /\ entry' = EntryOf(img)
  /\ lpc' = "done"
  /\ UNCHANGED <<ram, owner, base, loads, img, seg, pages, i, lstatus>>

\* Mutant: nothing is released.
LoadImageFailLeaks ==
  lpc = "fail" /\ lpc' = "done" /\ UNCHANGED <<ram, owner, base, loads, locals>>

LoadImageFail ==
  /\ lpc = "fail"
  /\ owner' = IF base # 0 THEN AfterFreePages(base, pages) ELSE owner
  /\ lpc' = "done"
  /\ UNCHANGED <<ram, base, loads, locals>>

LoadReturn ==
  /\ lpc = "done" /\ lpc' = "idle"
  /\ UNCHANGED <<ram, owner, base, loads, locals>>

LoadStep ==
  \/ ValidateElf \/ FindLOADSegment \/ AllocatePages \/ SetMem
  \/ CopySegment \/ FindEntry \/ LoadImageFail \/ LoadReturn

LoadInit ==
  /\ ram = [a \in Addrs |-> Foreign]
  /\ owner = [p \in Pages |-> IF p = 0 THEN Fw ELSE Free]
  /\ base = 0 /\ loads = 0 /\ lpc = "idle"
  /\ img \in Images
  /\ seg = [start |-> DefaultStart, end |-> DefaultEnd]
  /\ pages = 0 /\ i = 0 /\ lstatus = "EFI_SUCCESS" /\ entry = Foreign

LoadNext ==
  \/ LoadStep \/ NewElf
  \/ \E im \in Images : Call(im)
  \/ \E p \in Pages : FwAllocate(p) \/ FwFree(p)

\* The loader runs to completion: nothing preempts it for good.
LoadSpec == LoadInit /\ [][LoadNext]_loadVars /\ WF_loadVars(LoadStep)

-----------------------------------------------------------------------------
(* Properties. *)

LoadTypeOK ==
  /\ ram \in [Addrs -> Int]
  /\ owner \in [Pages -> {Free, Fw} \union 1..loads]
  /\ base \in 0..DefaultStart /\ base % PageSize = 0
  /\ loads \in 0..MaxLoads
  /\ lpc \in {"idle", "validate", "find", "allocate", "zero", "copy", "fail", "done"}
  /\ img \in Images
  /\ seg \in [start : 0..DefaultStart, end : 0..DefaultStart]
  /\ pages \in 0..NPages
  /\ i \in 0..Len(img.phdrs)
  /\ entry \in Int

Around(p) == p.load /\ img.entry \in p.vaddr..(p.vaddr + p.memsz - 1)
EntryInPlace ==
  LET P == img.phdrs
  IN  /\ \A k \in DOMAIN P : Around(P[k]) /\ (\A j \in 1..(k - 1) : ~Around(P[j])) =>
           entry - P[k].paddr = img.entry - P[k].vaddr
      /\ (\A k \in DOMAIN P : ~Around(P[k])) => entry = img.entry

Succeeded == lpc = "done" /\ lstatus = "EFI_SUCCESS"

\* When LoadImage returns success, every PT_LOAD segment of the file is in
\* memory at its physical address, in pages this call allocated, what the
\* file does not provide (.bss) is zero, and the entry address is where
\* e_entry came to lie: in the first segment whose virtual addresses hold it,
\* or unchanged if none does.  "LK.elf Loaded" is printed then.
LoadedImage ==
  /\ LoadTypeOK
  /\ Succeeded =>
       \A p \in LoadHeaders(img) : \A a \in Target(p) :
         /\ owner[PageOf(a)] = loads
         /\ ram[a] = IF a < p.paddr + p.filesz THEN p.offset + (a - p.paddr) ELSE Zero
  /\ Succeeded => EntryInPlace

\* A call that fails at any of its steps keeps no page.
FailedLoadHoldsNothing ==
  lpc \in {"done", "idle"} /\ lstatus # "EFI_SUCCESS" => \A p \in Pages : owner[p] # loads

\* SetMem and CopyMem write only to pages the running call has allocated.
WritesStayInside ==
  LoadStep => \A a \in Addrs : ram'[a] # ram[a] => owner[PageOf(a)] = loads

\* The failure path releases the pages this call allocated and no others,
\* unless it was AllocatePages that failed.  (Then it releases pages of the
\* firmware or of an earlier image if they are in the way: it tests
\* _loadBaseAddr, which FindLOADSegment sets before anything is allocated.)
ReleasesOwnPages ==
  LoadStep /\ lstatus # "EFI_NOT_FOUND" =>
    \A p \in Pages : owner'[p] # owner[p] => owner[p] \in {Free, loads}

\* LoadImage writes to and keeps pages of its own only, whichever step fails,
\* and gives back its own only, unless the step is AllocatePages: see the
\* three above (elf.cc).
PagesAccounted == [][FailedLoadHoldsNothing' /\ WritesStayInside /\ ReleasesOwnPages]_loadVars

-----------------------------------------------------------------------------
(* Files, for the runs.  Memory is four pages of two cells, page 0 the     *)
(* firmware's.  Every file has a header cell, then one cell per program    *)
(* header, then its segments; segments are well formed (p_filesz <=        *)
(* p_memsz) and lie inside memory.                                         *)

Phdr(load, offset, paddr, vaddr, filesz, memsz) ==
  [load |-> load, offset |-> offset, paddr |-> paddr, vaddr |-> vaddr,
   filesz |-> filesz, memsz |-> memsz]

Note == Phdr(FALSE, 1, 0, 0, 1, 1)

ElfFile(phdrs, size, e) ==
  [null |-> FALSE, ident |-> TRUE, size |-> size, phoff |-> 1,
   phdrs |-> phdrs, beyond |-> Note, entry |-> e]

\* One segment of three cells, the last of them .bss, starting in the middle
\* of a page; linked at virtual address 20.
Text == Phdr(TRUE, 3, 3, 20, 2, 3)
Kernel == ElfFile(<<Text>>, 5, 21)

\* The same with a note behind it, as linkers write them.
KernelAndNote == ElfFile(<<Text, Note>>, 5, 20)

\* The entry point is outside every segment.
OddEntry == ElfFile(<<Phdr(TRUE, 3, 4, 4, 2, 2)>>, 5, 7)

\* The file ends before its segment does (an interrupted copy to the disk).
Truncated == [Kernel EXCEPT !.size = 4]

\* The file ends inside its program header table.
ShortTable == [Kernel EXCEPT !.size = 1]

NoLoad  == ElfFile(<<Note>>, 5, 0)
NotElf  == [Kernel EXCEPT !.ident = FALSE]
NoData  == [Kernel EXCEPT !.null = TRUE, !.size = 0]

OneSegment ==
  {Kernel, KernelAndNote, OddEntry, Truncated, ShortTable, NoLoad, NotElf, NoData}

\* Text and data in two segments.
Data == Phdr(TRUE, 5, 6, 30, 1, 2)
TwoSegments == {ElfFile(<<Text, Data>>, 6, 20)}

=============================================================================
