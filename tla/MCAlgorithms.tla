---------------------------- MODULE MCAlgorithms ----------------------------
(***************************************************************************)
(* Inputs for the pure functions: words at the boundaries of the routines, *)
(* all memories of five cells, patterns of all kinds, tables with and      *)
(* without what is looked for.                                             *)
(***************************************************************************)
EXTENDS Algorithms

MCWords32 == {Zero, One, <<0, 3>>, <<0, 10>>, <<0, 255>>, <<1, 0>>, <<4660, 22136>>, <<16384, 0>>,
              <<32767, 65535>>, <<32768, 0>>, <<32768, 1>>, <<65535, 65534>>, <<65535, 65535>>}
MCWords64 == {Zero, One, <<0, 10>>, <<4660, 22136>>, <<32768, 0>>, <<65535, 65535>>}

MCMemories == [1..5 -> 0..2]
MCNumberTexts == UNION {[1..n -> {32, 48, 57, 65, 70, 97, 103}]: n \in 0..4}
MCTexts == UNION {[1..n -> 97..99]: n \in 0..3}
MCPatterns ==
  UNION {[1..n -> {97, 98, Star, AnyOne, Open, Close, Dash}]: n \in 0..3}
    \union {<<Open, 97, Dash, 98, Close>>, <<Open, 97, Dash, 99, Close, Star>>, <<Star, 98, Star, 99>>,
            <<Open, 97, 98, Close, 99>>, <<Open, 98, Dash, 99, 97, Close, AnyOne>>, <<Star, Star, 97, AnyOne>>,
            <<Open, 97, Dash, Close>>, <<Open, 97, Dash, 98>>, <<Star, Open, 99, Close, Star>>}

\* Headers of 24 bytes, with a size that covers all, a part or nothing.
MCTables ==
  {[i \in 1..HeaderBytes |-> IF i = SizeAt THEN size ELSE IF i \in (SizeAt + 1)..(SizeAt + 3) THEN 0 ELSE (i * seed) % 256]:
     size \in {0, 16, 20, HeaderBytes}, seed \in {0, 7, 255}}

MCPartitions == [OSIndicator: {0, 1}, StartingLBA: {0, 1, 2, 4, 6}, SizeInLBA: {0, 1, 2, 3, 5}]
AllDisks ==
  [mbr: [Signature: {\hAA55}, Partition: [1..2 -> MCPartitions]], lastBlock: {3, 4, 7}]
    \union [mbr: [Signature: {\hAA55}, Partition: {<<p, q, r>>: p, q, r \in
             {[OSIndicator |-> 1, StartingLBA |-> a, SizeInLBA |-> n]: a \in {1, 2, 4}, n \in {0, 1, 3}}}],
            lastBlock: {5}]
    \union [mbr: [Signature: {0}, Partition: [1..1 -> MCPartitions]], lastBlock: {7}]

\* The disks ValidMBR is wrong about are kept apart: those on which a record
\* runs past the largest block number, and those on which a later record
\* begins before an earlier one and ends behind it.
Records(disk) == {i \in DOMAIN disk.mbr.Partition: Used(disk.mbr.Partition[i])}
RunsPast(disk) == \E i \in Records(disk): Wraps(disk.mbr.Partition[i])
Encloses(disk) ==
  \E i, j \in Records(disk):
    i < j /\ BlocksOf(disk.mbr.Partition[i]) \subseteq
               BlocksOf(disk.mbr.Partition[j]) \ {disk.mbr.Partition[j].StartingLBA, EndingLBA(disk.mbr.Partition[j])}
MCDisks == {d \in AllDisks: ~RunsPast(d) /\ ~Encloses(d)}
EnclosingDisks == {d \in AllDisks: ~RunsPast(d) /\ Encloses(d)}

System(bytes, number, strings) ==
  [type |-> 1, strings |-> strings,
   formatted |-> [i \in 1..bytes |-> IF i = SerialNumberAt - 1 THEN number ELSE 64 + i]]
MCRecords ==
  {[type |-> 0, formatted |-> <<1, 1>>, strings |-> s]: s \in {<<>>, <<<<5>>>>, <<<<5, 6>>, <<7>>>>}}
    \union {System(23, n, s): n \in 0..3, s \in {<<>>, <<<<5>>>>, <<<<5, 6>>, <<7>>>>}}
    \union {System(6, 1, <<<<5>>>>)}
MCSystems == UNION {[1..n -> MCRecords]: n \in 1..3}

UiEntries == {<<>>,
  <<<<"eng", "a">>, <<"NULL">>, <<"eng", "b">>, <<"fra", "c">>, <<"NULL">>, <<"NULL">>>>,
  <<<<"fra", "a">>, <<"eng", "d">>, <<"NULL">>, <<"NULL">>, <<"NULL">>>>}
MCUiHandles == {[entries |-> e, path |-> "device"]: e \in UiEntries}

MCImages ==
  {[contents |-> c, image |-> [loaded |-> l, options |-> o, parameters |-> p, interface |-> f]]:
     c \in {FreshContents, [i \in 1..MaxCmdlineSize |-> IF i = MaxCmdlineSize THEN 0 ELSE 66]},
     l \in BOOLEAN, o \in UNION {[1..n -> {0, 32, 65}]: n \in 0..6},
     p \in {<<>>, <<<<<<65>>>>>>}, f \in {<<>>, <<<<<<65>>, <<66>>>>>>}}

\* A node of each kind, with the length the firmware gives it: all zero, and
\* with values that choose the other branches.
NodeOf(type, sub, len, v) ==
  [k \in 1..len |-> CASE k = 1 -> type [] k = 2 -> sub [] k = 3 -> len [] k = 4 -> 0 [] OTHER -> v]
KindLengths ==
  {<<1, 1, 6>>, <<1, 2, 5>>, <<1, 3, 24>>, <<1, 4, 20>>, <<1, 5, 8>>, <<1, 9, 7>>, <<2, 1, 12>>, <<3, 1, 8>>,
   <<3, 2, 8>>, <<3, 3, 24>>, <<3, 4, 16>>, <<3, 5, 6>>, <<3, 6, 8>>, <<3, 9, 48>>, <<3, 10, 20>>,
   <<3, 11, 37>>, <<3, 12, 19>>, <<3, 12, 27>>, <<3, 13, 43>>, <<3, 13, 60>>, <<3, 14, 19>>, <<3, 18, 10>>,
   <<3, 24, 9>>, <<4, 1, 42>>, <<4, 2, 24>>, <<4, 3, 20>>, <<4, 4, 10>>, <<4, 5, 20>>, <<5, 1, 12>>}
MCNodes ==
  {NodeOf(n[1], n[2], n[3], v): n \in KindLengths, v \in 0..2}
    \union {[NodeOf(n[1], n[2], n[3], 65) EXCEPT ![n[3]] = 0]: n \in KindLengths}
    \union {<<2, 1, 12, 0, 208, 65, p[1], p[2], u, 0, 0, 0>>:
              p \in {<<1, 3>>, <<1, 5>>, <<3, 10>>, <<8, 10>>, <<9, 9>>}, u \in 0..1}
    \union {<<1, 4, 21, 0>> \o UnknownDevice \o <<128>>}

SalEntry0 == [type |-> 0, pal |-> "pal", sal |-> "sal", gp |-> "gp"]
SalEntries ==
  {[type |-> 1, memoryType |-> t, address |-> t]: t \in {2, 3}} \union {[type |-> t]: t \in 2..4}
    \union {[type |-> 5, vector |-> 240]}
MCSalTables ==
  {[count |-> 1 + Len(e), entries |-> <<first>> \o e, behind |-> b]:
     e \in UNION {[1..n -> SalEntries]: n \in 0..2}, first \in {SalEntry0, [type |-> 2]},
     b \in {[type |-> 1, memoryType |-> 3, address |-> -1], [type |-> 255]}}

=============================================================================
