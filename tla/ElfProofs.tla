------------------------------ MODULE ElfProofs ------------------------------
(***************************************************************************)
(* Proofs about the ELF loader, for every set of files that satisfies      *)
(* ImagesAssumption, every memory and every page size.                     *)
(*                                                                         *)
(* Which pages a call holds is a function of where it is (Accounted): none *)
(* before AllocatePages, the page-aligned extent of the PT_LOAD segments   *)
(* after it, none once it has failed and returned.  That the firmware may  *)
(* allocate and free its own pages between any two steps is what makes the *)
(* invariant necessary.                                                    *)
(***************************************************************************)
EXTENDS Elf, TLAPS, WellFoundedInduction, NaturalsInduction

-----------------------------------------------------------------------------
(* Pages and addresses. *)

\* Multiplication by the page size keeps the order.
LEMMA PageOrder ==
  ASSUME NEW m \in Int, NEW n \in Int
  PROVE  /\ PageSize * m < PageSize * n <=> m < n
         /\ PageSize * m <= PageSize * n <=> m <= n
<1>1. PageSize \in Nat /\ PageSize > 0
  BY BoundsAssumption
<1> QED BY <1>1

\* An address lies in its page.
LEMMA PageBounds ==
  ASSUME NEW a \in Nat
  PROVE  /\ PageOf(a) \in Nat
         /\ PageSize * PageOf(a) <= a
         /\ a < PageSize * (PageOf(a) + 1)
         /\ AlignDown(a) = PageSize * PageOf(a)
<1>1. PageSize \in Nat /\ PageSize > 0
  BY BoundsAssumption
<1> QED BY <1>1 DEF PageOf, AlignDown

\* Pages start where one expects.
LEMMA PageStart ==
  ASSUME NEW m \in Nat
  PROVE  /\ PageSize * m \in Nat
         /\ PageOf(PageSize * m) = m
         /\ (PageSize * m) % PageSize = 0
<1>1. PageSize \in Nat /\ PageSize > 0
  BY BoundsAssumption
<1> QED BY <1>1 DEF PageOf

\* A non-empty set of numbers has a least element: the CHOOSE of Extent and
\* of EntryOf picks something.
LEMMA LeastElement ==
  ASSUME NEW T, T \subseteq Nat, T # {}
  PROVE  \E x \in T : \A y \in T : x <= y
<1>1. PICK x \in T : \A y \in T : ~(<<y, x>> \in OpToRel(<, Nat))
  BY NatLessThanWellFounded, WFMin
<1>2. \A y \in T : <<y, x>> \in OpToRel(<, Nat) <=> y < x
  BY DEF OpToRel
<1>3. \A y \in T : ~(y < x)
  BY <1>1, <1>2
<1>4. \A y \in T : x <= y
  <2> TAKE y \in T
  <2>1. ~(y < x) BY <1>3
  <2>2. x \in Nat /\ y \in Nat OBVIOUS
  <2> QED BY <2>1, <2>2
<1> QED BY <1>4

\* A bounded non-empty set of numbers has a greatest element.
LEMMA GreatestElement ==
  ASSUME NEW T, NEW b \in Nat, T \subseteq 0..b, T # {}
  PROVE  \E x \in T : \A y \in T : x >= y
<1> DEFINE R == {b - y : y \in T}
<1>1. R \subseteq Nat /\ R # {}
  <2>1. \A y \in T : b - y \in Nat OBVIOUS
  <2>2. PICK y \in T : TRUE OBVIOUS
  <2>3. b - y \in R BY <2>2
  <2> QED BY <2>1, <2>3
<1> HIDE DEF R
<1>2. PICK r \in R : \A s \in R : r <= s
  BY <1>1, LeastElement
<1>3. PICK x \in T : r = b - x
  BY <1>2 DEF R
<1>4. \A y \in T : x >= y
  <2> TAKE y \in T
  <2>1. b - y \in R BY DEF R
  <2>2. r <= b - y BY <2>1, <1>2
  <2>3. x \in Int /\ y \in Int OBVIOUS
  <2> QED BY <2>2, <2>3, <1>3
<1> QED BY <1>4

-----------------------------------------------------------------------------
(* The extent of an image. *)

\* A range of whole pages, from the m-th to before the n-th.
Whole(s, m, n) == s = [start |-> PageSize * m, end |-> PageSize * n]

\* Such a range has n - m pages, and they hold exactly its addresses.
LEMMA WholePages ==
  ASSUME NEW m \in 0..NPages, NEW n \in 0..NPages, m <= n, NEW s, Whole(s, m, n)
  PROVE  /\ (s.end - s.start) \div PageSize = n - m
         /\ Span(s.start, n - m) = m..(n - 1)
         /\ Span(s.start, n - m) \subseteq Pages
         /\ s.start = 0 <=> m = 0
         /\ \A a \in Addrs : a >= s.start /\ a < s.end <=> PageOf(a) \in Span(s.start, n - m)
<1>1. PageSize \in Nat /\ PageSize > 0 /\ NPages \in Nat
  BY BoundsAssumption
<1>2. s.start = PageSize * m /\ s.end = PageSize * n
  BY DEF Whole
<1>3. (s.end - s.start) \div PageSize = n - m
  <2>1. s.end - s.start = PageSize * (n - m)
    BY <1>1, <1>2
  <2>2. n - m \in Nat
    BY <1>1
  <2> QED BY <2>1, <2>2, PageStart DEF PageOf
<1>4. Span(s.start, n - m) = m..(n - 1)
  <2>1. PageOf(s.start) = m
    BY <1>2, <1>1, PageStart
  <2>2. Span(s.start, n - m) = {m + k : k \in 0..(n - m - 1)}
    BY <2>1 DEF Span
  <2>3. ASSUME NEW q \in m..(n - 1) PROVE q \in {m + k : k \in 0..(n - m - 1)}
    <3>1. q - m \in 0..(n - m - 1) /\ q = m + (q - m)
      BY <1>1
    <3> QED BY <3>1
  <2>4. ASSUME NEW k \in 0..(n - m - 1) PROVE m + k \in m..(n - 1)
    BY <1>1
  <2> QED BY <2>2, <2>3, <2>4
<1>5. m..(n - 1) \subseteq Pages
  BY <1>1 DEF Pages
<1>6. s.start = 0 <=> m = 0
  BY <1>1, <1>2
<1>7. ASSUME NEW a \in Addrs
      PROVE  a >= s.start /\ a < s.end <=> PageOf(a) \in m..(n - 1)
  <2>1. a \in Nat
    BY <1>1 DEF Addrs
  <2>2. PageOf(a) \in Nat /\ PageSize * PageOf(a) <= a /\ a < PageSize * (PageOf(a) + 1)
    BY <2>1, PageBounds
  <2>3. /\ PageSize * m \in Int /\ PageSize * n \in Int
        /\ PageSize * PageOf(a) \in Int /\ PageSize * (PageOf(a) + 1) \in Int
    BY <1>1, <2>2
  <2>4. PageSize * m <= a <=> PageSize * m < PageSize * (PageOf(a) + 1)
    <3>1. m <= PageOf(a) <=> PageSize * m <= PageSize * PageOf(a)
      BY <2>2, PageOrder
    <3>2. m < PageOf(a) + 1 <=> PageSize * m < PageSize * (PageOf(a) + 1)
      BY <2>2, PageOrder
    <3> QED BY <3>1, <3>2, <2>1, <2>2, <2>3, <1>1
  <2>5. a < PageSize * n <=> PageSize * PageOf(a) < PageSize * n
    <3>1. PageOf(a) + 1 <= n <=> PageSize * (PageOf(a) + 1) <= PageSize * n
      BY <2>2, PageOrder
    <3>2. PageOf(a) < n <=> PageSize * PageOf(a) < PageSize * n
      BY <2>2, PageOrder
    <3> QED BY <3>1, <3>2, <2>1, <2>2, <2>3, <1>1
  <2>6. PageSize * m < PageSize * (PageOf(a) + 1) <=> m < PageOf(a) + 1
    BY <2>2, PageOrder
  <2>7. PageSize * PageOf(a) < PageSize * n <=> PageOf(a) < n
    BY <2>2, PageOrder
  <2> QED BY <2>1, <2>2, <2>4, <2>5, <2>6, <2>7, <1>1, <1>2
<1> QED BY <1>3, <1>4, <1>5, <1>6, <1>7

\* The headers that are loaded are well formed.
LEMMA LoadHeadersWellFormed ==
  ASSUME NEW im \in Images, NEW p \in LoadHeaders(im)
  PROVE  /\ p \in ProgramHeader /\ p.load
         /\ p.paddr \in Nat /\ p.memsz \in Nat /\ p.filesz \in Nat /\ p.offset \in Nat
         /\ p.filesz <= p.memsz /\ p.paddr + p.memsz <= DefaultStart
<1>1. PICK k \in 0..(Len(im.phdrs) - 1) : p = im.phdrs[k + 1] /\ p.load
  BY DEF LoadHeaders, Header
<1>2. im.phdrs \in Seq(ProgramHeader)
  BY ImagesAssumption DEF Image, WellFormed
<1>3. k + 1 \in 1..Len(im.phdrs)
  BY <1>2
<1>4. p \in ProgramHeader
  BY <1>1, <1>2, <1>3
<1>5. p.filesz <= p.memsz /\ p.paddr + p.memsz <= DefaultStart
  BY <1>1, <1>3, ImagesAssumption DEF WellFormed
<1> QED BY <1>1, <1>4, <1>5 DEF ProgramHeader

\* The bounds of one segment, rounded to pages.
LEMMA Rounded ==
  ASSUME NEW im \in Images, NEW p \in LoadHeaders(im)
  PROVE  \E m \in 0..NPages, n \in 0..NPages :
           /\ m <= n
           /\ AlignDown(p.paddr) = PageSize * m /\ AlignDown(p.paddr) <= p.paddr
           /\ AlignUp(p.paddr + p.memsz) = PageSize * n
           /\ p.paddr + p.memsz <= AlignUp(p.paddr + p.memsz)
<1>1. PageSize \in Nat /\ PageSize > 0 /\ NPages \in Nat
  BY BoundsAssumption
<1> DEFINE e == p.paddr + p.memsz
           u == e + PageSize - 1
<1>2. p.paddr \in Nat /\ p.memsz \in Nat /\ e <= NPages * PageSize
  BY LoadHeadersWellFormed DEF DefaultStart
<1>3. e \in Nat /\ u \in Nat /\ p.paddr <= e
  BY <1>1, <1>2
<1> HIDE DEF e
<1>4. /\ PageOf(p.paddr) \in Nat
      /\ PageSize * PageOf(p.paddr) <= p.paddr
      /\ AlignDown(p.paddr) = PageSize * PageOf(p.paddr)
  BY <1>2, PageBounds
<1>5. /\ PageOf(u) \in Nat
      /\ PageSize * PageOf(u) <= u
      /\ u < PageSize * (PageOf(u) + 1)
      /\ AlignDown(u) = PageSize * PageOf(u)
  BY <1>3, PageBounds
<1>6. PageSize * (PageOf(u) + 1) = PageSize * PageOf(u) + PageSize
  BY <1>1, <1>5
<1>7. PageSize * PageOf(u) \in Int /\ PageSize * PageOf(p.paddr) \in Int
  BY <1>1, <1>4, <1>5
<1>8. e <= PageSize * PageOf(u)
  BY <1>1, <1>3, <1>5, <1>6, <1>7
<1>9. PageOf(p.paddr) <= PageOf(u)
  <2>1. PageSize * PageOf(p.paddr) <= PageSize * PageOf(u)
    BY <1>2, <1>3, <1>4, <1>7, <1>8
  <2> QED BY <2>1, <1>4, <1>5, PageOrder
<1>10. PageOf(u) <= NPages
  <2>1. PageSize * PageOf(u) < PageSize * (NPages + 1)
    <3>1. NPages * PageSize \in Nat /\ PageSize * (NPages + 1) = NPages * PageSize + PageSize
      BY <1>1
    <3> QED BY <1>1, <1>2, <1>3, <1>5, <1>7, <3>1
  <2>2. PageOf(u) < NPages + 1
    BY <2>1, <1>1, <1>5, PageOrder
  <2> QED BY <2>2, <1>1, <1>5
<1>11. AlignUp(e) = AlignDown(u)
  BY DEF AlignUp
<1>12. PageOf(p.paddr) \in 0..NPages /\ PageOf(u) \in 0..NPages
  BY <1>1, <1>4, <1>5, <1>9, <1>10
<1>13. AlignUp(p.paddr + p.memsz) = PageSize * PageOf(u) /\ p.paddr + p.memsz <= PageSize * PageOf(u)
  BY <1>5, <1>8, <1>11 DEF e
<1> HIDE DEF u
<1> QED BY <1>4, <1>9, <1>12, <1>13

\* Extent is a range of whole pages around every segment.
LEMMA ExtentWhole ==
  ASSUME NEW im \in Images, LoadHeaders(im) # {}
  PROVE  \E m \in 0..NPages, n \in 0..NPages :
           /\ m <= n /\ Whole(Extent(im), m, n)
           /\ \A p \in LoadHeaders(im) :
                Extent(im).start <= p.paddr /\ p.paddr + p.memsz <= Extent(im).end
<1>1. PageSize \in Nat /\ PageSize > 0 /\ NPages \in Nat
  BY BoundsAssumption
<1> DEFINE S == {AlignDown(p.paddr) : p \in LoadHeaders(im)}
           E == {AlignUp(p.paddr + p.memsz) : p \in LoadHeaders(im)}
           Low(s) == \A p \in LoadHeaders(im) : s <= AlignDown(p.paddr)
           High(e) == \A p \in LoadHeaders(im) : e >= AlignUp(p.paddr + p.memsz)
<1>2. S # {} /\ E # {}
  OBVIOUS
<1>3. ASSUME NEW p \in LoadHeaders(im)
      PROVE  AlignDown(p.paddr) \in Nat /\ AlignUp(p.paddr + p.memsz) \in 0..(PageSize * NPages)
  <2>1. PICK m \in 0..NPages, n \in 0..NPages :
          AlignDown(p.paddr) = PageSize * m /\ AlignUp(p.paddr + p.memsz) = PageSize * n
    BY Rounded
  <2>2. PageSize * m \in Nat /\ PageSize * n \in Nat /\ PageSize * NPages \in Nat
    BY <1>1
  <2>3. PageSize * n <= PageSize * NPages
    BY <1>1, PageOrder
  <2> QED BY <2>1, <2>2, <2>3
<1>4. S \subseteq Nat /\ E \subseteq 0..(PageSize * NPages) /\ PageSize * NPages \in Nat
  BY <1>1, <1>3
<1>5. \E s \in S : Low(s)
  <2>1. PICK s \in S : \A t \in S : s <= t
    BY <1>2, <1>4, LeastElement
  <2> QED BY <2>1
<1>6. \E e \in E : High(e)
  <2>1. PICK e \in E : \A t \in E : e >= t
    BY <1>2, <1>4, GreatestElement
  <2> QED BY <2>1
<1>7. Extent(im).start \in S /\ Low(Extent(im).start)
  BY <1>5 DEF Extent
<1>8. Extent(im).end \in E /\ High(Extent(im).end)
  BY <1>6 DEF Extent
<1>9. Extent(im) = [start |-> Extent(im).start, end |-> Extent(im).end]
  BY DEF Extent
<1>10. PICK m \in 0..NPages : Extent(im).start = PageSize * m
  <2>1. PICK p \in LoadHeaders(im) : Extent(im).start = AlignDown(p.paddr)
    BY <1>7
  <2> QED BY <2>1, Rounded
<1>11. PICK n \in 0..NPages : Extent(im).end = PageSize * n
  <2>1. PICK p \in LoadHeaders(im) : Extent(im).end = AlignUp(p.paddr + p.memsz)
    BY <1>8
  <2> QED BY <2>1, Rounded
<1>12. PageSize * m \in Int /\ PageSize * n \in Int
  BY <1>1
<1>13. ASSUME NEW p \in LoadHeaders(im)
       PROVE  /\ Extent(im).start <= p.paddr /\ p.paddr + p.memsz <= Extent(im).end
              /\ Extent(im).start <= Extent(im).end
  <2>1. Extent(im).start <= AlignDown(p.paddr) /\ AlignDown(p.paddr) <= p.paddr
    BY <1>7, Rounded
  <2>2. p.paddr + p.memsz <= AlignUp(p.paddr + p.memsz) /\ AlignUp(p.paddr + p.memsz) <= Extent(im).end
    <3>1. Extent(im).end >= AlignUp(p.paddr + p.memsz) BY <1>8
    <3>2. AlignUp(p.paddr + p.memsz) \in Nat BY <1>3, <1>4
    <3> QED BY <3>1, <3>2, <1>11, <1>12, Rounded
  <2>3. p.paddr \in Nat /\ p.memsz \in Nat /\ AlignDown(p.paddr) \in Nat /\ AlignUp(p.paddr + p.memsz) \in Nat
    BY <1>3, <1>4, LoadHeadersWellFormed
  <2> QED BY <2>1, <2>2, <2>3, <1>10, <1>11, <1>12
<1>14. m <= n
  <2>1. PageSize * m <= PageSize * n
    BY <1>10, <1>11, <1>13
  <2> QED BY <2>1, <1>1, PageOrder
<1> QED BY <1>9, <1>10, <1>11, <1>13, <1>14 DEF Whole

-----------------------------------------------------------------------------
(* The inductive invariant. *)

\* The extent has been found and is where the image goes.
Found == LoadHeaders(img) # {} /\ seg = Extent(img) /\ base = seg.start

\* The call holds the pages of the extent, and no others.
Holding ==
  /\ Found
  /\ pages = (seg.end - seg.start) \div PageSize /\ pages > 0
  /\ base # 0
  /\ \A p \in Pages : owner[p] = loads <=> p \in Span(base, pages)

HoldsNone == \A p \in Pages : owner[p] # loads

\* The failure path is entered with nothing to free, with the pages to free,
\* or after AllocatePages has refused them.
Failing ==
  /\ lstatus # "EFI_SUCCESS"
  /\ \/ HoldsNone /\ pages = 0
     \/ HoldsNone /\ lstatus = "EFI_NOT_FOUND" /\ Found /\ pages = (seg.end - seg.start) \div PageSize
     \/ Holding /\ lstatus # "EFI_NOT_FOUND"

\* What a call holds, by where it is.
Accounted ==
  /\ owner[0] = Fw
  /\ lpc # "idle" \/ lstatus # "EFI_SUCCESS" => loads > 0
  /\ lpc \in {"validate", "find", "allocate", "zero", "copy"} => lstatus = "EFI_SUCCESS"
  /\ lpc \in {"validate", "find", "allocate"} => HoldsNone /\ pages = 0
  /\ lpc \in {"validate", "find"} => seg.start = DefaultStart
  /\ lpc \in {"validate", "find", "allocate", "zero"} => i = 0
  /\ lpc = "allocate" => Found
  /\ lpc \in {"zero", "copy"} => Holding
  /\ lpc = "fail" => Failing
  /\ lpc \in {"done", "idle"} /\ lstatus # "EFI_SUCCESS" => HoldsNone
  /\ Succeeded => Holding /\ i = Len(img.phdrs)

IInv == LoadTypeOK /\ Accounted

\* What the copy loop has put into memory when only the first program header
\* can be a PT_LOAD one.
FirstSegment(a) ==
  LET p == img.phdrs[1]
  IN  IF i > 0 /\ p.load /\ a >= p.paddr /\ a < p.paddr + p.filesz
        THEN p.offset + (a - p.paddr) ELSE Zero

Content ==
  lpc = "copy" \/ Succeeded =>
    \A a \in Addrs : a >= seg.start /\ a < seg.end => ram[a] = FirstSegment(a)

\* The files for which the copy loop's pointer arithmetic does no harm: it
\* steps over e_phentsize headers at a time.
OnlyFirstLoads ==
  \A im \in Images : \A k \in 2..Len(im.phdrs) : ~im.phdrs[k].load

\* What WholePages and ExtentWhole say of the extent once it is found.
LEMMA FoundFacts ==
  ASSUME img \in Images, Found, NEW n, n = (seg.end - seg.start) \div PageSize
  PROVE  /\ n \in 0..NPages
         /\ Span(base, n) \subseteq Pages
         /\ base # 0 => 0 \notin Span(base, n)
         /\ base = 0 /\ n > 0 => 0 \in Span(base, n)
         /\ \A a \in Addrs : a >= seg.start /\ a < seg.end <=> PageOf(a) \in Span(base, n)
         /\ \A p \in LoadHeaders(img) : seg.start <= p.paddr /\ p.paddr + p.memsz <= seg.end
<1>1. PageSize \in Nat /\ PageSize > 0 /\ NPages \in Nat
  BY BoundsAssumption
<1>2. seg = Extent(img) /\ base = seg.start /\ LoadHeaders(img) # {}
  BY DEF Found
<1>3. PICK m \in 0..NPages, k \in 0..NPages :
        /\ m <= k /\ Whole(seg, m, k)
        /\ \A p \in LoadHeaders(img) : seg.start <= p.paddr /\ p.paddr + p.memsz <= seg.end
  BY <1>2, ExtentWhole
<1>4. /\ n = k - m
      /\ Span(base, n) = m..(k - 1)
      /\ Span(base, n) \subseteq Pages
      /\ base = 0 <=> m = 0
      /\ \A a \in Addrs : a >= seg.start /\ a < seg.end <=> PageOf(a) \in Span(base, n)
  BY <1>2, <1>3, WholePages
<1>5. n \in 0..NPages
  BY <1>1, <1>3, <1>4
<1>6. /\ base # 0 => 0 \notin Span(base, n)
      /\ base = 0 /\ n > 0 => 0 \in Span(base, n)
  BY <1>1, <1>3, <1>4
<1> QED BY <1>3, <1>4, <1>5, <1>6

\* The extent has the type of segInfo.
LEMMA ExtentType ==
  ASSUME NEW im \in Images, LoadHeaders(im) # {}
  PROVE  /\ Extent(im) \in [start : 0..DefaultStart, end : 0..DefaultStart]
         /\ Extent(im).start % PageSize = 0
<1>1. PageSize \in Nat /\ PageSize > 0 /\ NPages \in Nat
  BY BoundsAssumption
<1>2. PICK m \in 0..NPages, k \in 0..NPages : Whole(Extent(im), m, k)
  BY ExtentWhole
<1>3. Extent(im) = [start |-> PageSize * m, end |-> PageSize * k]
  BY <1>2 DEF Whole
<1>4. PageSize * m \in 0..DefaultStart /\ PageSize * k \in 0..DefaultStart
  <2>1. PageSize * NPages = DefaultStart
    BY <1>1 DEF DefaultStart
  <2>2. PageSize * m <= PageSize * NPages /\ PageSize * k <= PageSize * NPages
    BY <1>1, PageOrder
  <2>3. PageSize * m \in Nat /\ PageSize * k \in Nat /\ PageSize * NPages \in Nat
    BY <1>1
  <2> QED BY <2>1, <2>2, <2>3
<1>5. (PageSize * m) % PageSize = 0
  BY <1>1, PageStart
<1> QED BY <1>3, <1>4, <1>5

\* The header the copy loop looks at is one of the file's PT_LOAD headers, or
\* it is not PT_LOAD.
LEMMA CopiedHeader ==
  ASSUME NEW im \in Images, NEW k \in 0..(Len(im.phdrs) - 1), CopyHeader(im, k).load
  PROVE  CopyHeader(im, k) \in LoadHeaders(im)
<1> DEFINE index == k * PhEntSize
<1>1. im.phdrs \in Seq(ProgramHeader) /\ ~im.beyond.load
  BY ImagesAssumption DEF Image, WellFormed
<1>2. index \in Nat
  BY <1>1 DEF PhEntSize
<1> HIDE DEF index
<1>3. CopyHeader(im, k) = IF index < Len(im.phdrs) THEN im.phdrs[index + 1] ELSE im.beyond
  BY DEF CopyHeader, index
<1>4. index \in 0..(Len(im.phdrs) - 1) /\ CopyHeader(im, k) = Header(im, index)
  BY <1>1, <1>2, <1>3 DEF Header
<1> QED BY <1>4 DEF LoadHeaders

\* EntryOf is an address.
LEMMA EntryType ==
  ASSUME NEW im \in Images
  PROVE  EntryOf(im) \in Int
<1> DEFINE hits == {k \in 0..(Len(im.phdrs) - 1) : Holds(Header(im, k), im.entry)}
           k == CHOOSE k \in hits : \A j \in hits : k <= j
<1>1. im.phdrs \in Seq(ProgramHeader) /\ im.entry \in Nat
  BY ImagesAssumption DEF Image, WellFormed
<1>2. hits \subseteq Nat /\ hits \subseteq 0..(Len(im.phdrs) - 1)
  BY <1>1
<1>3. EntryOf(im) = IF hits = {} THEN im.entry
                    ELSE Header(im, k).paddr + (im.entry - Header(im, k).vaddr)
  BY DEF EntryOf
<1> HIDE DEF hits
<1>4. CASE hits = {}
  BY <1>1, <1>3, <1>4
<1>5. CASE hits # {}
  <2>1. \E x \in hits : \A j \in hits : x <= j
    BY <1>2, <1>5, LeastElement
  <2>2. k \in hits
    BY <2>1
  <2> HIDE DEF k
  <2>3. k + 1 \in 1..Len(im.phdrs)
    BY <1>1, <1>2, <2>2
  <2>4. Header(im, k) \in ProgramHeader
    BY <1>1, <2>3 DEF Header
  <2> QED BY <1>1, <1>3, <1>5, <2>4 DEF ProgramHeader
<1> QED BY <1>4, <1>5

-----------------------------------------------------------------------------
(* The invariant holds initially and every step keeps it. *)

LEMMA InitIInv == LoadInit => IInv
<1> SUFFICES ASSUME LoadInit PROVE IInv
  OBVIOUS
<1>1. PageSize \in Nat /\ PageSize > 0 /\ NPages \in Nat /\ NPages > 0 /\ MaxLoads \in Nat
  BY BoundsAssumption
<1>2. DefaultStart \in Nat /\ 0 % PageSize = 0 /\ 0 \in Pages
  BY <1>1 DEF DefaultStart, Pages
<1>3. img.phdrs \in Seq(ProgramHeader)
  BY ImagesAssumption DEF LoadInit, Image
<1>4. LoadTypeOK
  BY <1>1, <1>2, <1>3 DEF LoadInit, LoadTypeOK, Free, Fw, Foreign, DefaultEnd
<1>5. Accounted
  BY <1>2 DEF LoadInit, Accounted, Succeeded, Fw
<1> QED BY <1>4, <1>5 DEF IInv

\* Firmware activity between two steps of the loader.
LEMMA FirmwareKeeps ==
  ASSUME IInv, NEW p \in Pages, FwAllocate(p) \/ FwFree(p)
  PROVE  IInv'
<1> USE DEF IInv
<1>1. UNCHANGED <<base, loads, lpc, img, seg, pages, i, lstatus, entry>>
  BY DEF FwAllocate, FwFree, locals
<1>2. /\ owner' \in [Pages -> {Free, Fw} \union 1..loads]
      /\ \A q \in Pages : owner'[q] # owner[q] => owner[q] \in {Free, Fw} /\ owner'[q] \in {Free, Fw}
      /\ owner'[0] = Fw
  <2>1. owner \in [Pages -> {Free, Fw} \union 1..loads] /\ owner[0] = Fw
    BY DEF LoadTypeOK, Accounted
  <2>2. 0 \in Pages
    BY BoundsAssumption DEF Pages
  <2>3. CASE FwAllocate(p)
    BY <2>1, <2>2, <2>3 DEF FwAllocate, Free, Fw
  <2>4. CASE FwFree(p)
    BY <2>1, <2>2, <2>4 DEF FwFree, Free, Fw
  <2> QED BY <2>3, <2>4
<1>3. ram' \in [Addrs -> Int]
  BY DEF FwAllocate, FwFree, LoadTypeOK, Foreign
<1>4. LoadTypeOK'
  BY <1>1, <1>2, <1>3 DEF LoadTypeOK
<1>5. ASSUME loads > 0, NEW q \in Pages PROVE owner'[q] = loads <=> owner[q] = loads
  BY <1>2, <1>5 DEF LoadTypeOK, Free, Fw
<1>6. loads > 0 => (HoldsNone' <=> HoldsNone) /\ (Holding' <=> Holding)
  BY <1>1, <1>5 DEF HoldsNone, Holding, Found
<1>7. Found' <=> Found
  BY <1>1 DEF Found
<1>8. Succeeded' <=> Succeeded
  BY <1>1 DEF Succeeded
<1>9. loads > 0 => (Failing' <=> Failing)
  BY <1>1, <1>6, <1>7 DEF Failing
<1>10. Accounted'
  BY <1>1, <1>2, <1>6, <1>7, <1>8, <1>9 DEF Accounted, Succeeded
<1> QED BY <1>4, <1>10

\* It does not touch the pages of the extent, nor what is in them.
LEMMA FirmwareKeepsImage ==
  ASSUME IInv, Holding, loads > 0, NEW p \in Pages, FwAllocate(p) \/ FwFree(p)
  PROVE  /\ Holding'
         /\ \A a \in Addrs : a >= seg.start /\ a < seg.end => ram'[a] = ram[a]
<1>1. UNCHANGED <<base, loads, lpc, img, seg, pages, i, lstatus>> /\ img \in Images
  BY DEF FwAllocate, FwFree, locals, IInv, LoadTypeOK
<1>2. \A q \in Pages : owner'[q] = loads <=> owner[q] = loads
  BY DEF FwAllocate, FwFree, Free, Fw, IInv, LoadTypeOK
<1>3. Holding'
  BY <1>1, <1>2 DEF Holding, Found
<1>4. ASSUME NEW a \in Addrs, a >= seg.start, a < seg.end
      PROVE  ram'[a] = ram[a]
  <2>1. PageOf(a) \in Span(base, pages) /\ Span(base, pages) \subseteq Pages
    BY <1>1, <1>4, FoundFacts DEF Holding
  <2>2. owner[PageOf(a)] = loads
    BY <2>1 DEF Holding
  <2>3. FwAllocate(p) => PageOf(a) # p
    BY <2>2 DEF FwAllocate, Free
  <2>4. ram \in [Addrs -> Int]
    BY DEF IInv, LoadTypeOK
  <2> QED BY <2>3, <2>4 DEF FwAllocate, FwFree
<1> QED BY <1>3, <1>4

LEMMA NewElfKeeps ==
  ASSUME IInv, NewElf
  PROVE  IInv'
<1> USE DEF IInv
<1>1. lpc = "idle" /\ UNCHANGED <<ram, owner, loads, lpc, img, seg, pages, i, lstatus, entry>> /\ base' = 0
  BY DEF NewElf, locals
<1>2. PageSize \in Nat /\ PageSize > 0 /\ DefaultStart \in Nat
  BY BoundsAssumption DEF DefaultStart
<1>3. LoadTypeOK'
  BY <1>1, <1>2 DEF LoadTypeOK
<1>4. HoldsNone' <=> HoldsNone
  BY <1>1 DEF HoldsNone
<1>5. Accounted'
  BY <1>1, <1>4 DEF Accounted, Succeeded
<1> QED BY <1>3, <1>5

LEMMA CallKeeps ==
  ASSUME IInv, NEW im \in Images, Call(im)
  PROVE  IInv'
<1> USE DEF IInv
<1>1. loads \in Nat /\ loads' = loads + 1 /\ loads' \in 0..MaxLoads
  BY BoundsAssumption DEF Call, LoadTypeOK
<1>2. DefaultStart \in Nat /\ NPages \in Nat
  BY BoundsAssumption DEF DefaultStart
<1>3. im.phdrs \in Seq(ProgramHeader)
  BY ImagesAssumption DEF Image, WellFormed
<1>4. owner' \in [Pages -> {Free, Fw} \union 1..loads']
  <2>1. 1..loads \subseteq 1..loads'
    BY <1>1
  <2> QED BY <2>1 DEF Call, LoadTypeOK
<1>5. LoadTypeOK'
  BY <1>1, <1>2, <1>3, <1>4 DEF Call, LoadTypeOK, DefaultEnd
<1>6. HoldsNone'
  BY <1>1 DEF HoldsNone, Call, LoadTypeOK, Free, Fw
<1>7. Accounted'
  BY <1>1, <1>6 DEF Call, Accounted, Succeeded
<1> QED BY <1>5, <1>7

LEMMA ValidateKeeps ==
  ASSUME IInv, ValidateElf
  PROVE  IInv'
<1> USE DEF IInv
<1>1. /\ UNCHANGED <<ram, owner, base, loads, img, seg, pages, i, entry>>
      /\ lpc = "validate"
      /\ \/ lpc' = "find" /\ lstatus' = lstatus
         \/ lpc' = "fail" /\ lstatus' # "EFI_SUCCESS"
  BY DEF ValidateElf, Fail
<1>2. LoadTypeOK'
  BY <1>1 DEF LoadTypeOK
<1>3. HoldsNone' <=> HoldsNone
  BY <1>1 DEF HoldsNone
<1>4. Accounted'
  BY <1>1, <1>3 DEF Accounted, Succeeded, Failing
<1> QED BY <1>2, <1>4

LEMMA FindKeeps ==
  ASSUME IInv, FindLOADSegment
  PROVE  IInv'
<1> USE DEF IInv
<1>1. /\ UNCHANGED <<ram, owner, loads, img, pages, i, entry>>
      /\ lpc = "find" /\ base' = seg'.start
  BY DEF FindLOADSegment
<1>2. HoldsNone' <=> HoldsNone
  BY <1>1 DEF HoldsNone
<1>3. CASE LoadHeaders(img) # {}
  <2>1. seg' = Extent(img) /\ lpc' = "allocate" /\ lstatus' = lstatus
    BY <1>3 DEF FindLOADSegment
  <2>2. Found'
    BY <1>1, <1>3, <2>1 DEF Found
  <2>3. seg' \in [start : 0..DefaultStart, end : 0..DefaultStart] /\ seg'.start % PageSize = 0
    BY <1>1, <1>3, <2>1, ExtentType DEF LoadTypeOK
  <2>4. LoadTypeOK'
    BY <1>1, <2>1, <2>3 DEF LoadTypeOK
  <2> QED BY <1>1, <1>2, <2>1, <2>2, <2>4 DEF Accounted, Succeeded
<1>4. CASE LoadHeaders(img) = {}
  <2>1. seg' = seg /\ lpc' = "fail" /\ lstatus' = "EFI_LOAD_ERROR"
    BY <1>4 DEF FindLOADSegment, Fail
  <2>2. DefaultStart \in Nat /\ DefaultStart % PageSize = 0
    <3>1. PageSize \in Nat /\ NPages \in Nat BY BoundsAssumption
    <3>2. DefaultStart = PageSize * NPages BY <3>1 DEF DefaultStart
    <3> QED BY <3>1, <3>2, PageStart
  <2>3. base' = DefaultStart
    BY <1>1, <2>1 DEF Accounted
  <2>4. LoadTypeOK'
    BY <1>1, <2>1, <2>2, <2>3 DEF LoadTypeOK
  <2> QED BY <1>1, <1>2, <2>1, <2>4 DEF Accounted, Succeeded, Failing
<1> QED BY <1>3, <1>4

LEMMA AllocateKeeps ==
  ASSUME IInv, AllocatePages
  PROVE  IInv'
<1> USE DEF IInv
<1>1. /\ UNCHANGED <<ram, base, loads, img, seg, i, entry>>
      /\ lpc = "allocate" /\ Found /\ HoldsNone /\ lstatus = "EFI_SUCCESS" /\ i = 0 /\ loads > 0
      /\ pages' = (seg.end - seg.start) \div PageSize
  BY DEF AllocatePages, Accounted
<1>2. /\ pages' \in 0..NPages
      /\ Span(base, pages') \subseteq Pages
      /\ base = 0 /\ pages' > 0 => 0 \in Span(base, pages')
  BY <1>1, FoundFacts DEF LoadTypeOK
<1>3. Found'
  BY <1>1 DEF Found
<1>4. CASE AllocatePagesOk(base, pages')
  <2>1. /\ owner' = [p \in Pages |-> IF p \in Span(base, pages') THEN loads ELSE owner[p]]
        /\ lpc' = "zero" /\ lstatus' = lstatus
    BY <1>4 DEF AllocatePages
  <2>2. pages' > 0 /\ \A p \in Span(base, pages') : owner[p] = Free
    BY <1>4 DEF AllocatePagesOk
  <2>3. 0 \notin Span(base, pages') /\ base # 0
    BY <1>2, <2>2 DEF Accounted, Fw, Free
  <2>4. owner' \in [Pages -> {Free, Fw} \union 1..loads']
    BY <1>1, <2>1 DEF LoadTypeOK
  <2>5. LoadTypeOK'
    BY <1>1, <1>2, <2>1, <2>4 DEF LoadTypeOK
  <2>6. \A p \in Pages : owner'[p] = loads <=> p \in Span(base, pages')
    BY <1>1, <2>1 DEF HoldsNone
  <2>7. Holding'
    BY <1>1, <1>3, <2>2, <2>3, <2>6 DEF Holding
  <2>8. owner'[0] = Fw
    <3>1. 0 \in Pages BY BoundsAssumption DEF Pages
    <3> QED BY <2>1, <2>3, <3>1 DEF Accounted
  <2> QED BY <1>1, <2>1, <2>5, <2>7, <2>8 DEF Accounted, Succeeded
<1>5. CASE ~AllocatePagesOk(base, pages')
  <2>1. owner' = owner /\ lpc' = "fail" /\ lstatus' = "EFI_NOT_FOUND"
    BY <1>5 DEF AllocatePages, Fail
  <2>2. HoldsNone'
    BY <1>1, <2>1 DEF HoldsNone
  <2>3. LoadTypeOK'
    BY <1>1, <1>2, <2>1 DEF LoadTypeOK
  <2>4. Failing'
    BY <1>1, <1>3, <2>1, <2>2 DEF Failing
  <2> QED BY <1>1, <2>1, <2>3, <2>4 DEF Accounted, Succeeded
<1> QED BY <1>4, <1>5

LEMMA SetMemKeeps ==
  ASSUME IInv, SetMem
  PROVE  IInv'
<1> USE DEF IInv
<1>1. /\ UNCHANGED <<owner, base, loads, img, seg, pages, i, lstatus, entry>>
      /\ lpc = "zero" /\ lpc' = "copy"
      /\ ram' = [a \in Addrs |-> IF a >= seg.start /\ a < seg.end THEN Zero ELSE ram[a]]
  BY DEF SetMem, locals
<1>2. ram' \in [Addrs -> Int]
  BY <1>1 DEF LoadTypeOK, Zero
<1>3. LoadTypeOK'
  BY <1>1, <1>2 DEF LoadTypeOK
<1>4. Holding' <=> Holding
  BY <1>1 DEF Holding, Found
<1> QED BY <1>1, <1>3, <1>4 DEF Accounted, Succeeded

LEMMA CopyKeeps ==
  ASSUME IInv, CopySegment
  PROVE  IInv'
<1> USE DEF IInv
<1> DEFINE p == CopyHeader(img, i)
<1>1. /\ UNCHANGED <<owner, base, loads, img, seg, pages, entry>>
      /\ lpc = "copy" /\ i < Len(img.phdrs)
      /\ \/ ~p.load /\ i' = i + 1 /\ UNCHANGED <<ram, lstatus, lpc>>
         \/ UNCHANGED <<ram, i>> /\ lpc' = "fail" /\ lstatus' = "EFI_LOAD_ERROR"
         \/ p.load /\ ram' = Copied(p) /\ i' = i + 1 /\ UNCHANGED <<lstatus, lpc>>
  BY DEF CopySegment, Fail
<1>2. i \in Nat /\ img.phdrs \in Seq(ProgramHeader)
  BY ImagesAssumption DEF LoadTypeOK, Image
<1>3. ASSUME p.load PROVE Copied(p) \in [Addrs -> Int]
  <2>1. p \in LoadHeaders(img)
    <3>1. i \in 0..(Len(img.phdrs) - 1)
      BY <1>1, <1>2
    <3> QED BY <1>3, <3>1, CopiedHeader DEF LoadTypeOK
  <2>2. p.offset \in Nat /\ p.paddr \in Nat
    BY <2>1, LoadHeadersWellFormed DEF LoadTypeOK
  <2>3. Addrs \subseteq Int
    BY BoundsAssumption DEF Addrs
  <2> HIDE DEF p
  <2> QED BY <2>2, <2>3 DEF Copied, LoadTypeOK
<1> HIDE DEF p
<1>4. LoadTypeOK'
  BY <1>1, <1>2, <1>3 DEF LoadTypeOK
<1>5. Holding' <=> Holding
  BY <1>1 DEF Holding, Found
<1>6. Holding /\ lstatus = "EFI_SUCCESS"
  BY <1>1 DEF Accounted
<1>7. lpc' = "fail" => Failing'
  BY <1>1, <1>5, <1>6 DEF Failing
<1>8. lpc' \in {"copy", "fail"} /\ (lpc' = "copy" => lstatus' = "EFI_SUCCESS")
  BY <1>1, <1>6
<1> QED BY <1>1, <1>4, <1>5, <1>6, <1>7, <1>8 DEF Accounted, Succeeded

LEMMA FindEntryKeeps ==
  ASSUME IInv, FindEntry
  PROVE  IInv'
<1> USE DEF IInv
<1>1. /\ UNCHANGED <<ram, owner, base, loads, img, seg, pages, i, lstatus>>
      /\ lpc = "copy" /\ lpc' = "done" /\ i = Len(img.phdrs) /\ entry' = EntryOf(img)
  BY DEF FindEntry
<1>2. LoadTypeOK'
  BY <1>1, EntryType DEF LoadTypeOK
<1>3. Holding' <=> Holding
  BY <1>1 DEF Holding, Found
<1> QED BY <1>1, <1>2, <1>3 DEF Accounted, Succeeded

\* The failure path gives the pages back; the firmware's page 0 is not among
\* them.
LEMMA FailKeeps ==
  ASSUME IInv, LoadImageFail
  PROVE  /\ IInv'
         /\ lstatus # "EFI_NOT_FOUND" => \A p \in Pages : owner'[p] # owner[p] => owner[p] = loads
<1> USE DEF IInv
<1>1. /\ UNCHANGED <<ram, base, loads, img, seg, pages, i, lstatus, entry>>
      /\ lpc = "fail" /\ lpc' = "done" /\ Failing /\ lstatus # "EFI_SUCCESS" /\ loads > 0
      /\ owner' = IF base # 0 THEN AfterFreePages(base, pages) ELSE owner
  BY DEF LoadImageFail, Accounted, Failing, locals
<1>2. owner \in [Pages -> {Free, Fw} \union 1..loads] /\ owner[0] = Fw /\ 0 \in Pages
  BY BoundsAssumption DEF LoadTypeOK, Accounted, Pages
<1>3. /\ owner' \in [Pages -> {Free, Fw} \union 1..loads]
      /\ \A p \in Pages : owner'[p] # owner[p] => owner'[p] = Free /\ p \in Span(base, pages) /\ base # 0 /\ pages > 0
  BY <1>1, <1>2 DEF AfterFreePages
<1>4. pages > 0 => Found /\ pages = (seg.end - seg.start) \div PageSize
  BY <1>1 DEF Failing, Holding
<1>5. owner'[0] = Fw
  <2>1. base # 0 /\ pages > 0 => 0 \notin Span(base, pages)
    BY <1>4, FoundFacts DEF LoadTypeOK
  <2> QED BY <1>2, <1>3, <2>1
<1>6. HoldsNone'
  <2>1. CASE HoldsNone
    <3> SUFFICES ASSUME NEW p \in Pages, owner'[p] = loads PROVE FALSE
      BY <1>1 DEF HoldsNone
    <3>1. owner'[p] = owner[p]
      BY <1>3, <1>1 DEF Free
    <3> QED BY <2>1, <3>1 DEF HoldsNone
  <2>2. CASE Holding
    <3>1. /\ pages > 0 /\ base # 0 /\ Span(base, pages) \subseteq Pages
          /\ \A p \in Pages : owner[p] = loads <=> p \in Span(base, pages)
      BY <2>2, <1>4, FoundFacts DEF Holding, LoadTypeOK
    <3>2. \A p \in Span(base, pages) : p \in Pages /\ owner[p] # Free
      BY <3>1, <1>1 DEF Free
    <3>3. owner' = [p \in Pages |-> IF p \in Span(base, pages) THEN Free ELSE owner[p]]
      BY <1>1, <3>1, <3>2 DEF AfterFreePages
    <3> SUFFICES ASSUME NEW p \in Pages PROVE owner'[p] # loads
      BY <1>1 DEF HoldsNone
    <3>4. CASE p \in Span(base, pages)
      BY <1>1, <3>3, <3>4 DEF Free
    <3>5. CASE p \notin Span(base, pages)
      BY <3>1, <3>3, <3>5
    <3> QED BY <3>4, <3>5
  <2> QED BY <1>1, <2>1, <2>2 DEF Failing
<1>7. LoadTypeOK'
  BY <1>1, <1>3 DEF LoadTypeOK
<1>8. Accounted'
  BY <1>1, <1>5, <1>6 DEF Accounted, Succeeded
<1>9. ASSUME lstatus # "EFI_NOT_FOUND", NEW p \in Pages, owner'[p] # owner[p] PROVE owner[p] = loads
  <2>1. pages > 0 /\ p \in Span(base, pages)
    BY <1>3, <1>9
  <2>2. Holding
    BY <1>1, <1>9, <2>1 DEF Failing
  <2> QED BY <2>1, <2>2 DEF Holding
<1> QED BY <1>7, <1>8, <1>9

LEMMA ReturnKeeps ==
  ASSUME IInv, LoadReturn
  PROVE  IInv'
<1> USE DEF IInv
<1>1. /\ UNCHANGED <<ram, owner, base, loads, img, seg, pages, i, lstatus, entry>>
      /\ lpc = "done" /\ lpc' = "idle"
  BY DEF LoadReturn, locals
<1>2. LoadTypeOK'
  BY <1>1 DEF LoadTypeOK
<1>3. HoldsNone' <=> HoldsNone
  BY <1>1 DEF HoldsNone
<1> QED BY <1>1, <1>2, <1>3 DEF Accounted, Succeeded

LEMMA NextIInv ==
  ASSUME IInv, [LoadNext]_loadVars
  PROVE  IInv'
<1>1. CASE UNCHANGED loadVars
  <2>1. UNCHANGED <<ram, owner, base, loads, lpc, img, seg, pages, i, lstatus, entry>>
    BY <1>1 DEF loadVars
  <2>2. LoadTypeOK'
    BY <2>1 DEF IInv, LoadTypeOK
  <2>3. (HoldsNone' <=> HoldsNone) /\ (Holding' <=> Holding) /\ (Found' <=> Found) /\ (Succeeded' <=> Succeeded)
    BY <2>1 DEF HoldsNone, Holding, Found, Succeeded
  <2>4. Failing' <=> Failing
    BY <2>1, <2>3 DEF Failing
  <2>5. Accounted'
    BY <2>1, <2>3, <2>4 DEF IInv, Accounted
  <2> QED BY <2>2, <2>5 DEF IInv
<1>2. CASE LoadStep
  BY <1>2, ValidateKeeps, FindKeeps, AllocateKeeps, SetMemKeeps, CopyKeeps,
     FindEntryKeeps, FailKeeps, ReturnKeeps DEF LoadStep
<1>3. CASE NewElf
  BY <1>3, NewElfKeeps
<1>4. CASE \E im \in Images : Call(im)
  BY <1>4, CallKeeps
<1>5. CASE \E p \in Pages : FwAllocate(p) \/ FwFree(p)
  BY <1>5, FirmwareKeeps
<1> QED BY <1>1, <1>2, <1>3, <1>4, <1>5 DEF LoadNext

\* The variables keep their types and the call's pages are accounted for, in
\* every state of every behaviour (LoadImage, lib/pickle/amoeba/elf.cc).
THEOREM ElfInvariant == LoadSpec => []IInv
<1> QED BY InitIInv, NextIInv, PTL DEF LoadSpec

-----------------------------------------------------------------------------
(* Pages are accounted for. *)

\* SetMem and CopyMem write inside the extent.
LEMMA StepWritesInside ==
  ASSUME IInv, LoadStep
  PROVE  WritesStayInside
<1> SUFFICES ASSUME NEW a \in Addrs, ram'[a] # ram[a] PROVE owner[PageOf(a)] = loads
  BY DEF WritesStayInside
<1> USE DEF IInv
<1>1. \/ lpc = "zero" /\ SetMem
      \/ lpc = "copy" /\ CopySegment
  <2>1. SetMem \/ CopySegment
    BY DEF LoadStep, ValidateElf, FindLOADSegment, AllocatePages, FindEntry, LoadImageFail, LoadReturn
  <2>2. SetMem => lpc = "zero" BY DEF SetMem
  <2>3. CopySegment => lpc = "copy" BY DEF CopySegment
  <2> QED BY <2>1, <2>2, <2>3
<1>2. Holding /\ img \in Images
  BY <1>1 DEF Accounted, LoadTypeOK
<1>3. a >= seg.start /\ a < seg.end
  <2>1. CASE SetMem
    BY <2>1 DEF SetMem, LoadTypeOK
  <2>2. CASE CopySegment
    <3> DEFINE p == CopyHeader(img, i)
    <3>1. p.load /\ ram' = Copied(p) /\ i \in 0..(Len(img.phdrs) - 1)
      <4>1. img.phdrs \in Seq(ProgramHeader)
        BY <1>2, ImagesAssumption DEF Image
      <4> QED BY <2>2, <4>1 DEF CopySegment, LoadTypeOK
    <3>2. p \in LoadHeaders(img)
      BY <1>2, <3>1, CopiedHeader
    <3> HIDE DEF p
    <3>3. a >= p.paddr /\ a < p.paddr + p.filesz
      BY <3>1 DEF Copied
    <3>4. seg.start <= p.paddr /\ p.paddr + p.memsz <= seg.end
      BY <1>2, <3>2, FoundFacts DEF Holding
    <3>5. p.paddr \in Nat /\ p.memsz \in Nat /\ p.filesz \in Nat /\ p.filesz <= p.memsz
      BY <1>2, <3>2, LoadHeadersWellFormed
    <3>6. a \in Int /\ seg.start \in Int /\ seg.end \in Int
      <4>1. Addrs \subseteq Int /\ DefaultStart \in Nat BY BoundsAssumption DEF Addrs, DefaultStart
      <4> QED BY <4>1 DEF LoadTypeOK
    <3> QED BY <3>3, <3>4, <3>5, <3>6
  <2> QED BY <1>1, <2>1, <2>2
<1>4. PageOf(a) \in Span(base, pages) /\ Span(base, pages) \subseteq Pages
  BY <1>2, <1>3, FoundFacts DEF Holding
<1> QED BY <1>2, <1>4 DEF Holding

\* Only AllocatePages and the failure path change owners.
LEMMA StepReleasesOwn ==
  ASSUME IInv, LoadStep
  PROVE  ReleasesOwnPages
<1> SUFFICES ASSUME lstatus # "EFI_NOT_FOUND", NEW p \in Pages, owner'[p] # owner[p]
             PROVE  owner[p] \in {Free, loads}
  BY DEF ReleasesOwnPages
<1>1. AllocatePages \/ LoadImageFail
  BY DEF LoadStep, ValidateElf, FindLOADSegment, SetMem, CopySegment, FindEntry, LoadReturn
<1>2. CASE AllocatePages
  <2>1. /\ AllocatePagesOk(base, pages')
        /\ owner' = [q \in Pages |-> IF q \in Span(base, pages') THEN loads ELSE owner[q]]
    BY <1>2 DEF AllocatePages
  <2> QED BY <2>1 DEF AllocatePagesOk
<1>3. CASE LoadImageFail
  BY <1>3, FailKeeps
<1> QED BY <1>1, <1>2, <1>3

\* LoadImage writes to and keeps pages of its own only, whichever of its steps
\* fails and whatever the firmware allocates and frees meanwhile; it also gives
\* back its own only, unless AllocatePages itself failed (EFI_NOT_FOUND): then
\* it frees pages it never got (elf.cc:206).
THEOREM PagesAccountedHolds == LoadSpec => PagesAccounted
<1>1. ASSUME IInv, [LoadNext]_loadVars, IInv'
      PROVE  [FailedLoadHoldsNothing' /\ WritesStayInside /\ ReleasesOwnPages]_loadVars
  <2>1. FailedLoadHoldsNothing'
    BY <1>1 DEF IInv, Accounted, HoldsNone, FailedLoadHoldsNothing
  <2>2. WritesStayInside
    BY <1>1, StepWritesInside DEF WritesStayInside
  <2>3. ReleasesOwnPages
    BY <1>1, StepReleasesOwn DEF ReleasesOwnPages
  <2> QED BY <2>1, <2>2, <2>3
<1> QED BY <1>1, ElfInvariant, PTL DEF LoadSpec, PagesAccounted

-----------------------------------------------------------------------------
(* The image is loaded. *)

\* The copy loop meets a PT_LOAD header only at its first iteration.
LEMMA OnlyFirstCopied ==
  ASSUME OnlyFirstLoads, NEW im \in Images, NEW k \in 0..(Len(im.phdrs) - 1)
  PROVE  /\ k = 0 => CopyHeader(im, k) = im.phdrs[1]
         /\ k > 0 => ~CopyHeader(im, k).load
<1>1. im.phdrs \in Seq(ProgramHeader) /\ ~im.beyond.load
  BY ImagesAssumption DEF Image, WellFormed
<1> DEFINE index == k * PhEntSize
<1>2. index \in Nat /\ (k = 0 => index = 0) /\ (k > 0 => index > 1)
  BY <1>1 DEF PhEntSize
<1> HIDE DEF index
<1>3. CopyHeader(im, k) = IF index < Len(im.phdrs) THEN im.phdrs[index + 1] ELSE im.beyond
  BY DEF CopyHeader, index
<1>4. CASE k = 0
  BY <1>1, <1>2, <1>3, <1>4
<1>5. CASE k > 0
  <2>1. CASE index < Len(im.phdrs)
    <3>1. index + 1 \in 2..Len(im.phdrs)
      BY <1>1, <1>2, <1>5, <2>1
    <3> QED BY <1>3, <1>5, <2>1, <3>1 DEF OnlyFirstLoads
  <2>2. CASE ~(index < Len(im.phdrs))
    BY <1>1, <1>3, <1>5, <2>2
  <2> QED BY <2>1, <2>2
<1> QED BY <1>4, <1>5

\* One iteration of the loop turns the content of memory at i into that at i + 1.
LEMMA CopyContent ==
  ASSUME OnlyFirstLoads, IInv, Content, CopySegment
  PROVE  Content'
<1>1. /\ UNCHANGED <<owner, base, loads, img, seg, pages, entry>>
      /\ lpc = "copy" /\ img \in Images /\ i \in 0..(Len(img.phdrs) - 1)
  <2>1. img.phdrs \in Seq(ProgramHeader)
    BY ImagesAssumption DEF IInv, LoadTypeOK, Image
  <2> QED BY <2>1 DEF CopySegment, IInv, LoadTypeOK
<1> DEFINE p == CopyHeader(img, i)
<1>2. (i = 0 => p = img.phdrs[1]) /\ (i > 0 => ~p.load)
  BY <1>1, OnlyFirstCopied
<1>3. \/ ~p.load /\ i' = i + 1 /\ UNCHANGED <<ram, lstatus, lpc>>
      \/ UNCHANGED <<ram, i>> /\ lpc' = "fail" /\ lstatus' = "EFI_LOAD_ERROR"
      \/ p.load /\ ram' = Copied(p) /\ i' = i + 1 /\ UNCHANGED <<lstatus, lpc>>
  BY DEF CopySegment, Fail
<1>4. \A a \in Addrs : a >= seg.start /\ a < seg.end => ram[a] = FirstSegment(a)
  BY <1>1 DEF Content
<1> HIDE DEF p
<1>5. CASE lpc' = "fail"
  BY <1>5 DEF Content, Succeeded
<1>6. CASE ~p.load /\ i' = i + 1 /\ UNCHANGED <<ram, lstatus, lpc>>
  <2>1. \A a \in Addrs : FirstSegment(a)' = FirstSegment(a)
    BY <1>1, <1>2, <1>6 DEF FirstSegment
  <2> QED BY <1>1, <1>4, <1>6, <2>1 DEF Content
<1>7. CASE p.load /\ ram' = Copied(p) /\ i' = i + 1 /\ UNCHANGED <<lstatus, lpc>>
  <2>1. i = 0 /\ i' = 1 /\ p = img.phdrs[1]
    BY <1>1, <1>2, <1>7
  <2>2. ASSUME NEW a \in Addrs, a >= seg.start /\ a < seg.end
        PROVE  ram'[a] = FirstSegment(a)'
    <3>1. ram[a] = Zero
      BY <1>4, <2>1, <2>2 DEF FirstSegment
    <3> QED BY <1>1, <1>7, <2>1, <3>1 DEF FirstSegment, Copied
  <2> QED BY <1>1, <2>2 DEF Content
<1> QED BY <1>3, <1>5, <1>6, <1>7

LEMMA NextContent ==
  ASSUME OnlyFirstLoads, IInv, Content, [LoadNext]_loadVars
  PROVE  Content'
<1>1. CASE CopySegment
  BY <1>1, CopyContent
<1>2. CASE SetMem
  <2>1. lpc' = "copy" /\ seg' = seg /\ i' = 0 /\ img' = img
    BY <1>2 DEF SetMem, locals, IInv, Accounted
  <2>2. \A a \in Addrs : FirstSegment(a)' = Zero
    BY <2>1 DEF FirstSegment
  <2>3. \A a \in Addrs : a >= seg.start /\ a < seg.end => ram'[a] = Zero
    BY <1>2 DEF SetMem
  <2> QED BY <2>1, <2>2, <2>3 DEF Content
<1>3. CASE FindEntry
  <2>1. UNCHANGED <<ram, img, seg, i>> /\ lpc = "copy"
    BY <1>3 DEF FindEntry
  <2> QED BY <2>1 DEF Content, FirstSegment
<1>4. ASSUME NEW p \in Pages, FwAllocate(p) \/ FwFree(p) PROVE Content'
  <2>1. UNCHANGED <<base, loads, lpc, img, seg, pages, i, lstatus>>
    BY <1>4 DEF FwAllocate, FwFree, locals
  <2>2. SUFFICES ASSUME lpc = "copy" \/ Succeeded, NEW a \in Addrs, a >= seg.start /\ a < seg.end
                 PROVE  ram'[a] = ram[a]
    BY <2>1 DEF Content, FirstSegment, Succeeded
  <2>3. Holding /\ loads > 0
    BY <2>2 DEF IInv, Accounted, Succeeded
  <2> QED BY <1>4, <2>2, <2>3, FirmwareKeepsImage
<1>5. CASE UNCHANGED loadVars
  BY <1>5 DEF loadVars, Content, FirstSegment, Succeeded
<1>6. CASE ValidateElf \/ FindLOADSegment \/ AllocatePages
  <2>1. lpc' \in {"find", "fail", "allocate", "zero"}
    BY <1>6 DEF ValidateElf, FindLOADSegment, AllocatePages, Fail
  <2> QED BY <2>1 DEF Content, Succeeded
<1>7. CASE LoadImageFail
  <2>1. lpc' = "done" /\ lstatus' # "EFI_SUCCESS"
    BY <1>7 DEF LoadImageFail, IInv, Accounted, Failing, locals
  <2> QED BY <2>1 DEF Content, Succeeded
<1>8. CASE LoadReturn \/ NewElf \/ \E im \in Images : Call(im)
  <2>1. lpc' \in {"idle", "validate"}
    BY <1>8 DEF LoadReturn, NewElf, Call
  <2> QED BY <2>1 DEF Content, Succeeded
<1> QED BY <1>1, <1>2, <1>3, <1>4, <1>5, <1>6, <1>7, <1>8 DEF LoadNext, LoadStep

\* With the loop finished, the first segment is the only one and it is there.
LEMMA ContentIsImage ==
  ASSUME OnlyFirstLoads, IInv, Content, Succeeded => EntryInPlace
  PROVE  LoadedImage
<1> SUFFICES ASSUME Succeeded, NEW p \in LoadHeaders(img), NEW a \in Target(p)
             PROVE  /\ owner[PageOf(a)] = loads
                    /\ ram[a] = IF a < p.paddr + p.filesz THEN p.offset + (a - p.paddr) ELSE Zero
  BY DEF LoadedImage, IInv
<1>1. Holding /\ i = Len(img.phdrs) /\ img \in Images
  BY DEF IInv, Accounted, LoadTypeOK
<1>2. img.phdrs \in Seq(ProgramHeader)
  BY <1>1, ImagesAssumption DEF Image
<1>3. p = img.phdrs[1] /\ p.load /\ i > 0
  <2>1. PICK k \in 0..(Len(img.phdrs) - 1) : p = img.phdrs[k + 1] /\ p.load
    BY DEF LoadHeaders, Header
  <2>2. k > 0 => k + 1 \in 2..Len(img.phdrs)
    BY <1>2
  <2>3. k = 0
    BY <1>1, <1>2, <2>1, <2>2 DEF OnlyFirstLoads
  <2> QED BY <1>1, <1>2, <2>1, <2>3
<1>4. /\ p.paddr \in Nat /\ p.memsz \in Nat /\ p.filesz \in Nat /\ p.offset \in Nat
      /\ p.filesz <= p.memsz /\ p.paddr + p.memsz <= DefaultStart
  BY <1>1, LoadHeadersWellFormed
<1>5. DefaultStart \in Nat /\ Addrs = 0..(DefaultStart - 1)
  BY BoundsAssumption DEF DefaultStart, Addrs
<1>6. a \in Addrs /\ a >= p.paddr /\ a < p.paddr + p.memsz
  BY <1>4, <1>5 DEF Target
<1>7. seg.start <= p.paddr /\ p.paddr + p.memsz <= seg.end
  BY <1>1, FoundFacts DEF Holding
<1>8. seg.start \in Int /\ seg.end \in Int
  BY <1>5 DEF IInv, LoadTypeOK
<1>9. a >= seg.start /\ a < seg.end
  BY <1>4, <1>5, <1>6, <1>7, <1>8
<1>10. PageOf(a) \in Span(base, pages) /\ Span(base, pages) \subseteq Pages
  BY <1>1, <1>6, <1>9, FoundFacts DEF Holding
<1>11. ram[a] = FirstSegment(a)
  BY <1>6, <1>9 DEF Content
<1> QED BY <1>1, <1>3, <1>6, <1>10, <1>11 DEF Holding, FirstSegment

\* The first segment around the entry point, if there is one, is the one
\* EntryOf takes.
LEMMA FindEntryPlaces ==
  ASSUME img \in Images, img' = img, entry' = EntryOf(img)
  PROVE  EntryInPlace'
<1> DEFINE P == img.phdrs
           hits == {k \in 0..(Len(P) - 1) : Holds(Header(img, k), img.entry)}
           first == CHOOSE k \in hits : \A j \in hits : k <= j
<1>1. P \in Seq(ProgramHeader) /\ img.entry \in Nat /\ Len(P) \in Nat /\ DOMAIN P = 1..Len(P)
  BY ImagesAssumption DEF Image, WellFormed
<1>2. entry' = IF hits = {} THEN img.entry
               ELSE Header(img, first).paddr + (img.entry - Header(img, first).vaddr)
  BY DEF EntryOf
<1>3. ASSUME NEW k \in DOMAIN P PROVE P[k] \in ProgramHeader /\ (Around(P[k]) <=> k - 1 \in hits)
  <2>1. P[k] \in ProgramHeader /\ k - 1 \in 0..(Len(P) - 1) /\ Header(img, k - 1) = P[k]
    BY <1>1, <1>3 DEF Header
  <2>3. P[k].vaddr \in Nat /\ P[k].memsz \in Nat /\ P[k].load \in BOOLEAN
    <3> HIDE DEF P, hits
    <3> QED BY <2>1 DEF ProgramHeader
  <2>2. Around(P[k]) <=> Holds(P[k], img.entry)
    <3> HIDE DEF P, hits
    <3> QED BY <1>1, <2>3 DEF Around, Holds
  <2> QED BY <2>1, <2>2
<1>4. hits \subseteq Nat /\ \A k \in hits : k + 1 \in DOMAIN P
  BY <1>1
<1> DEFINE NoneIn(n) == \A j \in 1..(n - 1) : ~Around(P[j])
<1>5. ASSUME NEW k \in DOMAIN P, Around(P[k]), NoneIn(k)
      PROVE  entry' - P[k].paddr = img.entry - P[k].vaddr
  <2>1. k - 1 \in hits
    BY <1>3, <1>5
  <2>2. ASSUME NEW j \in hits PROVE k - 1 <= j
    <3> SUFFICES ASSUME j + 1 < k PROVE FALSE
      BY <1>1, <1>4, <2>1, <2>2
    <3>1. j + 1 \in DOMAIN P /\ j + 1 \in 1..(k - 1) /\ (j + 1) - 1 = j
      BY <1>1, <1>4
    <3>2. Around(P[j + 1])
      <4> HIDE DEF hits
      <4> QED BY <1>3, <2>2, <3>1
    <3> QED BY <1>5, <3>1, <3>2
  <2>3. first = k - 1
    <3>1. first \in hits /\ \A j \in hits : first <= j
      <4> HIDE DEF hits
      <4> QED BY <2>1, <2>2
    <3> HIDE DEF first, hits
    <3>2. first \in Nat /\ k - 1 \in Nat /\ first <= k - 1 /\ k - 1 <= first
      BY <1>4, <2>1, <2>2, <3>1
    <3> QED BY <3>2
  <2>4. Header(img, first) = P[k] /\ P[k] \in ProgramHeader
    <3>1. k \in Nat /\ P[k] \in ProgramHeader
      BY <1>1, <1>3
    <3>2. first + 1 = k
      <4> HIDE DEF first
      <4> QED BY <2>3, <3>1
    <3> HIDE DEF first
    <3> QED BY <3>1, <3>2 DEF Header
  <2>5. entry' = P[k].paddr + (img.entry - P[k].vaddr)
    <3> HIDE DEF hits, first
    <3> QED BY <1>2, <2>1, <2>4
  <2>6. P[k].paddr \in Nat /\ P[k].vaddr \in Nat
    <3> HIDE DEF P, hits
    <3> QED BY <2>4 DEF ProgramHeader
  <2> HIDE DEF P, hits
  <2> QED BY <1>1, <2>5, <2>6
<1>6. (\A k \in DOMAIN P : ~Around(P[k])) => entry' = img.entry
  <2> SUFFICES ASSUME \A k \in DOMAIN P : ~Around(P[k]) PROVE hits = {}
    BY <1>2
  <2>1. ASSUME NEW k \in hits PROVE FALSE
    <3>1. k + 1 \in DOMAIN P /\ (k + 1) - 1 = k
      BY <1>4
    <3> HIDE DEF hits
    <3> QED BY <1>3, <2>1, <3>1
  <2> HIDE DEF hits
  <2> QED BY <2>1
<1>7. \A p : Around(p)' <=> Around(p)
  BY DEF Around
<1> QED BY <1>5, <1>6, <1>7 DEF EntryInPlace

\* Once found, the entry stays until the call returns.
LEMMA EntryKept ==
  ASSUME IInv, Succeeded => EntryInPlace, [LoadNext]_loadVars
  PROVE  (Succeeded => EntryInPlace)'
<1>1. CASE FindEntry
  BY <1>1, FindEntryPlaces DEF FindEntry, IInv, LoadTypeOK
<1>2. CASE (UNCHANGED loadVars) \/ \E p \in Pages : FwAllocate(p) \/ FwFree(p)
  <2>1. UNCHANGED <<lpc, img, lstatus, entry>>
    BY <1>2 DEF FwAllocate, FwFree, locals, loadVars
  <2> QED BY <2>1 DEF Succeeded, EntryInPlace, Around
<1>3. CASE ValidateElf \/ FindLOADSegment \/ AllocatePages \/ SetMem \/ CopySegment
  <2>1. lpc' # "done"
    BY <1>3 DEF ValidateElf, FindLOADSegment, AllocatePages, SetMem, CopySegment, Fail
  <2> QED BY <2>1 DEF Succeeded
<1>4. CASE LoadImageFail
  <2>1. lstatus' # "EFI_SUCCESS"
    BY <1>4 DEF LoadImageFail, IInv, Accounted, Failing, locals
  <2> QED BY <2>1 DEF Succeeded
<1>5. CASE LoadReturn \/ NewElf \/ \E im \in Images : Call(im)
  <2>1. lpc' \in {"idle", "validate"}
    BY <1>5 DEF LoadReturn, NewElf, Call
  <2> QED BY <2>1 DEF Succeeded
<1> QED BY <1>1, <1>2, <1>3, <1>4, <1>5 DEF LoadNext, LoadStep

\* When LoadImage returns success, the PT_LOAD segment of the file is in
\* memory at its physical address, in pages of this call, with .bss cleared,
\* and the entry address is where e_entry came to lie, for every file in which
\* only the first program header is PT_LOAD.  (For the others it does not
\* hold; see the run elf_two_segments.)
THEOREM LoadedImageHolds ==
  ASSUME OnlyFirstLoads
  PROVE  LoadSpec => []LoadedImage
<1>1. LoadInit => Content /\ (Succeeded => EntryInPlace)
  BY DEF LoadInit, Content, Succeeded
<1>2. IInv /\ Content /\ [LoadNext]_loadVars => Content'
  BY NextContent
<1>3. IInv /\ (Succeeded => EntryInPlace) /\ [LoadNext]_loadVars => (Succeeded => EntryInPlace)'
  BY EntryKept
<1>4. IInv /\ Content /\ (Succeeded => EntryInPlace) => LoadedImage
  BY ContentIsImage
<1> QED BY <1>1, <1>2, <1>3, <1>4, ElfInvariant, PTL DEF LoadSpec

=============================================================================
