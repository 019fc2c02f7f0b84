------------------------------ MODULE Strings -------------------------------
(***************************************************************************)
(* The memory and string functions (runtime/efirtlib.c, runtime/rtstr.c,   *)
(* str.c).  Memory is a sequence of cells, a pointer an index, a string    *)
(* the cells from its pointer up to a 0; characters are their codes.  A    *)
(* copy works cell by cell, so that overlapping operands behave as they do *)
(* in the code; leaving the memory gives Fault.  The arguments of a command *)
(* line (cmdline.c) are strings in a static buffer.                        *)
(***************************************************************************)
EXTENDS Arithmetic, FiniteSets

CONSTANTS
  UintnBits,   \* width of UINTN
  Fault,       \* what a read or write outside of the memory leads to
  MaxCmdlineSize,  \* MAX_CMDLINE_SIZE, in characters
  MaxCmdlineArgc   \* MAX_CMDLINE_ARGC

LOCAL Least(S) == CHOOSE n \in S: \A o \in S: n <= o

\* Cells written one after the other: writes is a sequence of <<to, from>>,
\* each reading the memory the earlier ones left.
Move(m, writes) ==
  FoldLeft(LAMBDA acc, w:
             IF acc = Fault \/ {w[1], w[2]} \ DOMAIN m # {} THEN Fault
             ELSE [acc EXCEPT ![w[1]] = acc[w[2]]],
           m, writes)
Put(m, p, v) == IF m = Fault \/ p \notin DOMAIN m THEN Fault ELSE [m EXCEPT ![p] = v]

RtSetMem(m, p, n, v) == FoldLeft(LAMBDA acc, i: Put(acc, p + i - 1, v), m, [i \in 1..n |-> i])
RtZeroMem(m, p, n) == FoldLeft(LAMBDA acc, i: Put(acc, p + i - 1, 0), m, [i \in 1..n |-> i])

\* Mutant: always from the front.
RtCopyMemForward(m, d, s, n) == Move(m, [i \in 1..n |-> <<d + i - 1, s + i - 1>>])

\* From the end when the destination starts inside of the source.
RtCopyMem(m, d, s, n) ==
  IF d = s THEN m
  ELSE IF d > s /\ d < s + n
  THEN Move(m, [i \in 1..n |-> <<d + n - i, s + n - i>>])
  ELSE Move(m, [i \in 1..n |-> <<d + i - 1, s + i - 1>>])
RtCopyMemC(m, d, s, n) == RtCopyMem(m, d, s, n)

RtCompareMem(m, d, s, n) ==
  LET differ == {i \in 0..(n - 1): m[d + i] # m[s + i]}
  IN IF differ = {} THEN 0 ELSE m[d + Least(differ)] - m[s + Least(differ)]

\* misc.c: the boot-time names; init.c: what the compiler's own calls get.  The
\* memcpy copies from the front, whether the areas overlap or not.
ZeroMem(m, p, n) == RtZeroMem(m, p, n)
SetMem(m, p, n, v) == RtSetMem(m, p, n, v)
CopyMem_1(m, d, s, n) == RtCopyMem(m, d, s, n)
CopyMemC(m, d, s, n) == RtCopyMemC(m, d, s, n)
CompareMem(m, d, s, n) == RtCompareMem(m, d, s, n)
memset(m, p, c, n) == FoldLeft(LAMBDA acc, i: Put(acc, p + i - 1, c % 256), m, [i \in 1..n |-> i])
memcpy(m, d, s, n) == Move(m, [i \in 1..n |-> <<d + i - 1, s + i - 1>>])

\* A GUID as four UINT32: their differences, modulo 2^32, ORed together.
RtCompareGuid(g, h) ==
  FoldLeft(LAMBDA r, i: OrWord(r, Sub(g[i], h[i])), Zero, <<1, 2, 3, 4>>) = Zero
RtIsZeroGuid(g) == RtCompareGuid(g, <<Zero, Zero, Zero, Zero>>)
CompareGuid_1(g, h) == RtCompareGuid(g, h)
IsZeroGuid(g) == RtIsZeroGuid(g)

-----------------------------------------------------------------------------
Zeros(m, p) == {i \in 0..(Len(m) - p): m[p + i] = 0}
IsString(m, p) == Zeros(m, p) # {}

RtStrLen(m, p) == Least(Zeros(m, p))
\* The cell behind the Len'th is read before the count is looked at.
RtStrnLen(m, p, n) == Least({n} \union Zeros(m, p))
RtStrSize(m, p) == (RtStrLen(m, p) + 1) * 2

\* The place where two strings differ, or the end of both.
Difference(m, a, b) ==
  Least({RtStrLen(m, a)} \union {i \in 0..Least({RtStrLen(m, a), RtStrLen(m, b)}): m[a + i] # m[b + i]})
RtStrCmp(m, a, b) ==
  LET at == Difference(m, a, b) IN m[a + at] - m[b + at]

\* The loop reads what it has just written when Dest lies inside of Src: it
\* then never meets the terminator.
RECURSIVE RtStpCpyFrom(_, _, _)
RtStpCpyFrom(m, d, s) ==
  IF m = Fault \/ {d, s} \ DOMAIN m # {} THEN [mem |-> Fault, end |-> d]
  ELSE IF m[s] = 0 THEN [mem |-> Put(m, d, 0), end |-> d]
  ELSE RtStpCpyFrom([m EXCEPT ![d] = m[s]], d + 1, s + 1)
RtStrCpy(m, d, s) == RtStpCpyFrom(m, d, s).mem
RtStpCpy(m, d, s) == RtStpCpyFrom(m, d, s)

\* The padding is written before the copy.
RtStrnCpy(m, d, s, n) ==
  LET size == RtStrnLen(m, s, n)
      padded == IF size # n THEN RtSetMem(m, d + size, n - size, 0) ELSE m
  IN IF padded = Fault THEN Fault ELSE RtCopyMemC(padded, d, s, size)
RtStpnCpy(m, d, s, n) == [mem |-> RtStrnCpy(m, d, s, n), end |-> d + RtStrnLen(m, s, n)]

RtStrCat(m, d, s) == RtStrCpy(m, d + RtStrLen(m, d), s)
RtStrnCat(m, d, s, n) ==
  LET destSize == RtStrLen(m, d)
      size == RtStrnLen(m, s, n)
  IN Put(RtCopyMemC(m, d + destSize, s, size), d + destSize + size, 0)

\* UINT8 arithmetic.
RtBCDtoDecimal(b) == ((b % 16) + (b \div 16) * 10) % 256
RtDecimaltoBCD(v) == ((v % 10) + (v \div 10) * 16) % 256

-----------------------------------------------------------------------------
\* str.c: the boot-time names of the same functions.
StrCmp(m, a, b) == RtStrCmp(m, a, b)
StrCpy(m, d, s) == RtStrCpy(m, d, s)
StrnCpy(m, d, s, n) == RtStrnCpy(m, d, s, n)
StpCpy(m, d, s) == RtStpCpy(m, d, s)
StpnCpy(m, d, s, n) == RtStpnCpy(m, d, s, n)
StrCat(m, d, s) == RtStrCat(m, d, s)
StrnCat(m, d, s, n) == RtStrnCat(m, d, s, n)
StrnLen(m, p, n) == RtStrnLen(m, p, n)
StrLen(m, p) == RtStrLen(m, p)
StrSize(m, p) == RtStrSize(m, p)

StrnCmp(m, a, b, n) ==
  LET at == Least({n, Difference(m, a, b)})
  IN IF at = n THEN 0 ELSE m[a + at] - m[b + at]

\* The copy is made in a new block, of StrSize bytes, when the pool has one.
StrDuplicate(m, s, pool) ==
  IF pool THEN RtCopyMemC(m \o [i \in 1..(RtStrSize(m, s) \div 2) |-> 0], Len(m) + 1, s, RtStrSize(m, s) \div 2)
  ELSE m

\* The CHAR8 functions return UINTN: a negative difference is a huge number.
AsciiStrLen(m, p) == RtStrLen(m, p)
AsciiStrCmp(m, a, b) == RtStrCmp(m, a, b) % 2^UintnBits
AsciiStrnCmp(m, a, b, n) == StrnCmp(m, a, b, n) % 2^UintnBits

\* UnicodeInterface: LibStubUnicodeInterface until the library finds the
\* firmware's collation protocol.  The stub compares exactly and changes no
\* case; the firmware folds a..z onto A..Z.
Upper(c) == IF c \in 97..122 THEN c - 32 ELSE c
Lower(c) == IF c \in 65..90 THEN c + 32 ELSE c
Folded(m, fold(_)) == [i \in DOMAIN m |-> fold(m[i])]
LibStubStriCmp(m, a, b) == StrCmp(m, a, b)
LibStubStrLwrUpr(m, p) == m
StriCmp(ui, m, a, b) == IF ui = "stub" THEN LibStubStriCmp(m, a, b) ELSE StrCmp(Folded(m, Upper), a, b)
OnString(m, p, fold(_)) == [i \in DOMAIN m |-> IF i \in p..(p + RtStrLen(m, p)) THEN fold(m[i]) ELSE m[i]]
StrLwr(ui, m, p) == IF ui = "stub" THEN LibStubStrLwrUpr(m, p) ELSE OnString(m, p, Lower)
StrUpr(ui, m, p) == IF ui = "stub" THEN LibStubStrLwrUpr(m, p) ELSE OnString(m, p, Upper)

-----------------------------------------------------------------------------
\* Numbers, read from a sequence of characters up to its end.
Space == 32
Digit(c) == c \in 48..57
HexDigit(c) == Digit(c) \/ c \in 65..70
HexValue(c) == IF c >= 65 THEN c - 55 ELSE c - 48

Unspaced(str) == SelectInSeq(str, LAMBDA c: c # Space)
Trimmed(str) == IF Unspaced(str) = 0 THEN <<>> ELSE SubSeq(str, Unspaced(str), Len(str))
Leading(str, Test(_)) ==
  LET stop == SelectInSeq(str, LAMBDA c: ~Test(c)) IN IF stop = 0 THEN str ELSE SubSeq(str, 1, stop - 1)

xtoi(str) ==
  LET upper == [i \in DOMAIN Trimmed(str) |-> IF Trimmed(str)[i] \in 97..102 THEN Trimmed(str)[i] - 32 ELSE Trimmed(str)[i]]
  IN FoldLeft(LAMBDA u, c: (u * 16 + HexValue(c)) % 2^UintnBits, 0, Leading(upper, HexDigit))

Atoi(str) ==
  FoldLeft(LAMBDA u, c: (u * 10 + c - 48) % 2^UintnBits, 0, Leading(Trimmed(str), Digit))

-----------------------------------------------------------------------------
\* MetaMatch of a string and a pattern, both without their terminator.
Star == 42
AnyOne == 63
Open == 91
Close == 93
Dash == 45

\* The set behind a '[', looked through for c from position i; l is the
\* character before.  <<"no">>: no match; <<"yes", j>>: a match, with j the
\* place behind the ']'; <<"beyond">>: the pattern ended inside of the set,
\* and the code goes on reading behind its terminator.
RECURSIVE SkipSet(_, _)
SkipSet(p, i) ==
  IF i > Len(p) THEN <<"beyond">>
  ELSE IF p[i] = Close THEN <<"yes", i + 1>> ELSE SkipSet(p, i + 1)

RECURSIVE ScanSet(_, _, _, _)
ScanSet(c, p, i, l) ==
  IF i > Len(p) THEN <<"beyond">>
  ELSE IF p[i] = Close THEN <<"no">>
  ELSE IF p[i] = Dash /\ (i = Len(p) \/ (i < Len(p) /\ p[i + 1] = Close)) THEN <<"no">>
  ELSE LET high == IF p[i] = Dash THEN p[i + 1] ELSE p[i]
       IN IF (p[i] = Dash /\ c \in l..high) \/ c = high
          THEN SkipSet(p, i + 1)
          ELSE ScanSet(c, p, i + 1, high)

From(s, i) == SubSeq(s, i, Len(s))

RECURSIVE MetaMatch(_, _)
MetaMatch(s, p) ==
  LET then(more) == IF more THEN "yes" ELSE "no"
  IN IF p = <<>> THEN then(s = <<>>)
     ELSE IF Head(p) = Star
     THEN LET tries == [i \in 1..(Len(s) + 1) |-> MetaMatch(From(s, i), Tail(p))]
              first == SelectInSeq(tries, LAMBDA r: r # "no")
          IN IF first = 0 THEN "no" ELSE tries[first]
     ELSE IF s = <<>> THEN "no"
     ELSE IF Head(p) = AnyOne THEN MetaMatch(Tail(s), Tail(p))
     ELSE IF Head(p) = Open
     THEN LET set == ScanSet(Head(s), p, 2, 0)
          IN IF set[1] = "yes" THEN MetaMatch(Tail(s), From(p, set[2])) ELSE set[1]
     ELSE IF Head(s) = Head(p) THEN MetaMatch(Tail(s), Tail(p)) ELSE "no"

LibStubMetaiMatch(s, p) == MetaMatch(s, p)
MetaiMatch(ui, s, p) ==
  IF ui = "stub" THEN LibStubMetaiMatch(s, p) ELSE MetaMatch(Folded(s, Upper), Folded(p, Upper))

-----------------------------------------------------------------------------
\* What the functions have to give, for the properties.
StringAt(m, p) == SubSeq(m, p, p + RtStrLen(m, p) - 1)
Apart(a, n, b, k) == a + n <= b \/ b + k <= a
Overwritten(m, p, cells) ==
  [i \in DOMAIN m |-> IF i \in p..(p + Len(cells) - 1) THEN cells[i - p + 1] ELSE m[i]]
SignOf(n) == IF n = 0 THEN 0 ELSE IF n < 0 THEN -1 ELSE 1

\* The order of two strings: a proper prefix is smaller.
Order(s, t) ==
  IF s = t THEN 0
  ELSE LET at == Least({i \in 1..(Len(s) + 1): i > Len(s) \/ i > Len(t) \/ s[i] # t[i]})
       IN IF at > Len(s) \/ (at <= Len(t) /\ s[at] < t[at]) THEN -1 ELSE 1
Prefix(s, n) == SubSeq(s, 1, Least({n, Len(s)}))

\* A pattern is the sequence of its parts, each a set of the sequences of
\* characters it stands for; it matches what can be cut accordingly.
PartEnd(p, i) == IF p[i] = Open THEN Least({j \in i..Len(p): p[j] = Close}) ELSE i
SetMembers(q) ==
  {q[i]: i \in {j \in DOMAIN q: q[j] # Dash}}
    \union UNION {q[i - 1]..q[i + 1]: i \in {j \in 2..(Len(q) - 1): q[j] = Dash}}
RECURSIVE Matches(_, _)
Matches(s, p) ==
  IF p = <<>> THEN s = <<>>
  ELSE LET end == PartEnd(p, 1)
           Fits(t) == IF Head(p) = Star THEN TRUE
                      ELSE /\ Len(t) = 1
                           /\ \/ Head(p) = AnyOne
                              \/ Head(p) = Open /\ t[1] \in SetMembers(SubSeq(p, 2, end - 1))
                              \/ Head(p) \notin {AnyOne, Open} /\ t[1] = Head(p)
       IN \E k \in 0..Len(s): Fits(SubSeq(s, 1, k)) /\ Matches(From(s, k + 1), From(p, end + 1))

\* Every set is closed and has no '-' at its ends.
RECURSIVE WellFormed(_)
WellFormed(p) ==
  IF p = <<>> THEN TRUE
  ELSE IF Head(p) # Open THEN WellFormed(Tail(p))
  ELSE /\ \E j \in DOMAIN p: p[j] = Close
       /\ LET q == SubSeq(p, 2, PartEnd(p, 1) - 1)
          IN \A i \in DOMAIN q: q[i] = Dash => i \in 2..(Len(q) - 1) /\ q[i - 1] # Dash /\ q[i + 1] # Dash
       /\ WellFormed(From(p, PartEnd(p, 1) + 1))

-----------------------------------------------------------------------------
\* Where the arguments of an application come from (cmdline.c).  ArgvContents
\* is the static buffer, MaxCmdlineSize characters that start as 0 and keep
\* what an earlier call left.

FreshContents == [i \in 1..MaxCmdlineSize |-> 0]

\* Mutant: the terminator comes one character early.
FilledShort(contents, options) ==
  [i \in 1..MaxCmdlineSize |->
     IF i >= MaxCmdlineSize - 1 THEN 0 ELSE IF i <= Len(options) THEN options[i] ELSE contents[i]]

\* CopyMem of LoadOptionsSize bytes, at most the size of the buffer, and the
\* terminator in its last character.
FilledContents(contents, options) ==
  [i \in 1..MaxCmdlineSize |->
     IF i = MaxCmdlineSize THEN 0 ELSE IF i <= Len(options) THEN options[i] ELSE contents[i]]

\* The loop at c: a space becomes the end of the argument that started at
\* ArgStart; arguments past the limit are dropped.
RECURSIVE SplitFrom(_, _, _, _)
SplitFrom(contents, c, start, argv) ==
  LET more == IF Len(argv) < MaxCmdlineArgc THEN Append(argv, start) ELSE argv
  IN IF contents[c] = Space THEN SplitFrom([contents EXCEPT ![c] = 0], c + 1, c + 1, more)
     ELSE IF contents[c] # 0 THEN SplitFrom(contents, c + 1, start, argv)
     ELSE [contents |-> contents, argv |-> IF contents[start] # 0 THEN more ELSE argv]

\* -1 when the image has no loaded-image protocol, or not even a terminator.
GetShellArgcArgvFromLoadedImage(contents, image) ==
  IF ~image.loaded \/ image.options = <<>> THEN [argc |-> -1, argv |-> <<>>, contents |-> contents]
  ELSE LET split == SplitFrom(FilledContents(contents, image.options), 1, 1, <<>>)
       IN [argc |-> Len(split.argv), contents |-> split.contents,
           argv |-> [i \in DOMAIN split.argv |-> StringAt(split.contents, split.argv[i])]]

\* Shell 2.0, else shell 1.0 (each an empty sequence when the image has no
\* such protocol), else the loaded image.
GetShellArgcArgv(contents, image) ==
  LET Given(argv) == [argc |-> Len(argv), argv |-> argv, contents |-> contents]
  IN IF image.parameters # <<>> THEN Given(image.parameters[1])
     ELSE IF image.interface # <<>> THEN Given(image.interface[1])
     ELSE GetShellArgcArgvFromLoadedImage(contents, image)

-----------------------------------------------------------------------------
\* What the split has to give, for the properties: the pieces of a text
\* between its spaces, the last one only if it is not empty.
Pieces(text) ==
  LET cuts == SetToSortSeq({0, Len(text) + 1} \union {i \in DOMAIN text: text[i] = Space}, <)
      all == [k \in 1..(Len(cuts) - 1) |-> SubSeq(text, cuts[k] + 1, cuts[k + 1] - 1)]
  IN IF all[Len(all)] = <<>> THEN SubSeq(all, 1, Len(all) - 1) ELSE all
UpToNull(options) == Leading(options, LAMBDA c: c # 0)
=============================================================================
