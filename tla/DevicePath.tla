----------------------------- MODULE DevicePath -----------------------------
(***************************************************************************)
(* The device path functions of lib/dpath.c, on the memory they work on.   *)
(*                                                                         *)
(* Memory is a sequence of cells of the size of an end node.  A node       *)
(* occupies node.len cells: the first carries its header, and each cell    *)
(* knows the node it belongs to and its place in it.  A path is a run of   *)
(* instances of nodes, separated by Inst nodes and closed by an End node;  *)
(* all positions are found, as in the code, by adding up node lengths.     *)
(* NoPath is a null pointer: an argument that is not given, or the result  *)
(* of a function whose allocation failed.                                  *)
(*                                                                         *)
(* `insts' is what the path should mean: the sequence of its instances,    *)
(* each a sequence of nodes; it has none where there is no path.           *)
(***************************************************************************)
EXTENDS Naturals, Sequences, SequencesExt

CONSTANTS
  Nodes,        \* device nodes: records with a name and a len
  Align,        \* MIN_ALIGNMENT_SIZE, in cells
  Paths,        \* device paths of others: sequences of instances
  MultiAppend,  \* AppendDevicePath is also called with several instances in Src1
  LongInstance, \* LibDuplicateDevicePathInstance is called on any instance
  MaxCells      \* bound: the length of the path

VARIABLES
  path,         \* the cells of the program's device path
  allocated,    \* the size its block was allocated with
  unpacked,     \* the result of UnpackDevicePath, or NoPath
  insts         \* history: the instances the path should have

vars == <<path, allocated, unpacked, insts>>

-----------------------------------------------------------------------------
(* Memory. *)

NoPath == <<>>
End == [name |-> "End", len |-> 1]
Inst == [name |-> "EndInstance", len |-> 1]

Cell(n, i) == [node |-> n, at |-> i]
Cells(n) == [i \in 1..n.len |-> Cell(n, i)]

IsHeader(c) == c.at = 1
IsDevicePathEnd(c) == IsHeader(c) /\ c.node.name = "End"

\* A path in memory.
Memory(q) ==
  LET inst(i) == FlattenSeq([j \in 1..Len(q[i]) |-> Cells(q[i][j])])
  IN  FlattenSeq([i \in 1..Len(q) |-> inst(i) \o Cells(IF i = Len(q) THEN End ELSE Inst)])

\* The position of the first node from p on with one of the names.
Walk(m, p, names) ==
  LET next[i \in 1..Len(m)] == IF m[i].node.name \in names THEN i ELSE next[i + m[i].node.len]
  IN  next[p]

-----------------------------------------------------------------------------
(* The functions. *)

DevicePathSize(m) == Walk(m, 1, {"End"})

\* The instance at p: where it ends, and where the next one starts (0: there
\* is none).
DevicePathInstance(m, p) ==
  LET e == Walk(m, p, {"End", "EndInstance"})
  IN  [size |-> e - p, next |-> IF IsDevicePathEnd(m[e]) THEN 0 ELSE e + m[e].node.len]

\* All instances, as DevicePathInstance delivers them.
Instances(m) ==
  LET from[p \in 1..Len(m)] ==
        LET d == DevicePathInstance(m, p)
        IN  <<SubSeq(m, p, p + d.size - 1)>> \o IF d.next = 0 THEN <<>> ELSE from[d.next]
  IN  from[1]

DevicePathInstanceCount(m) == Len(Instances(m))

\* What is in a new block, and how large it was made.
Block(m, size) == [mem |-> m, size |-> size]

DuplicateDevicePath(m) == Block(SubSeq(m, 1, DevicePathSize(m)), DevicePathSize(m))

\* The other path where one is not given (the code reads address 0 where none
\* is); else Src2 with its end behind each instance, each time followed by an
\* Inst node, the last of which becomes the End.
AppendDevicePath(s1, s2) ==
  LET inst == Instances(s1)
      n == Len(inst)
      src2 == SubSeq(s2, 1, DevicePathSize(s2))
      each(i) == inst[i] \o src2 \o Cells(IF i = n THEN End ELSE Inst)
  IN  CASE s1 = NoPath -> DuplicateDevicePath(s2)
        [] s2 = NoPath -> DuplicateDevicePath(s1)
        [] OTHER -> Block(FlattenSeq([i \in 1..n |-> each(i)]), DevicePathSize(s1) * n + DevicePathSize(s2))

\* The node with an end behind it, as the functions put it together.
NodePath(node) == Cells(node) \o Cells(End)

AppendDevicePathNode(s1, node) == AppendDevicePath(s1, NodePath(node))

\* Mutant: the End stays between the instances.
AppendDevicePathInstanceKeepsEnd(m, q) ==
  LET e == DevicePathSize(m)
  IN  Block(SubSeq(m, 1, e) \o SubSeq(q, 1, DevicePathSize(q)), e + DevicePathSize(q))

\* Src with its End turned into an Inst, and the instance behind it.
AppendDevicePathInstance(m, q) ==
  LET e == DevicePathSize(m)
  IN  Block(SubSeq(m, 1, e - 1) \o Cells(Inst) \o SubSeq(q, 1, DevicePathSize(q)),
            e + DevicePathSize(q))

\* The first instance, with an end behind its first node; nothing of an
\* instance without nodes.
LibDuplicateDevicePathInstance(m) ==
  LET size == DevicePathInstance(m, 1).size
      copy == SubSeq(m, 1, size) \o Cells(End)
  IN  IF m = NoPath \/ size = 0 THEN Block(NoPath, 0)
      ELSE Block([i \in 1..Len(copy) |-> IF i = 1 + m[1].node.len THEN Cell(End, 1) ELSE copy[i]],
                 size + 1)

ALIGN_SIZE(a) == IF a % Align # 0 THEN Align - (a % Align) ELSE 0
Padded(n) == [n EXCEPT !.len = @ + ALIGN_SIZE(@)]

\* The first loop of UnpackDevicePath: the sizes, rounded after each node.
UnpackedSize(m) ==
  LET size[p \in 1..Len(m), s \in 0..(2 * Align * Len(m))] ==
        LET t == s + m[p].node.len
            r == t + ALIGN_SIZE(t)
        IN  IF IsDevicePathEnd(m[p]) THEN r ELSE size[p + m[p].node.len, r]
  IN  size[1, 0]

\* The second loop copies the nodes and pads each.
UnpackDevicePath(m) ==
  LET from[p \in 1..Len(m)] ==
        Cells(Padded(m[p].node))
          \o IF IsDevicePathEnd(m[p]) THEN <<>> ELSE from[p + m[p].node.len]
  IN  Block(from[1], UnpackedSize(m))

\* CompareMem of the instance, without its end, and the beginning of Single.
LibMatchDevicePaths(m, q) ==
  /\ m # NoPath /\ q # NoPath
  /\ \E i \in 1..DevicePathInstanceCount(m) : IsPrefix(Instances(m)[i], q)

\* One token for what the function found in DevPathTable writes for a node; each
\* writes something.
DumpNode(n) == IF n.name = "EndInstance" THEN "," ELSE n.name

\* The nodes of the unpacked path, with separators.
DevicePathToStr(m) ==
  LET u == UnpackDevicePath(m).mem
      from[p \in 1..Len(u)] ==
        IF IsDevicePathEnd(u[p]) THEN <<>>
        ELSE (IF p > 1 /\ u[p].node.name # "EndInstance" THEN <<"/">> ELSE <<>>)
               \o <<DumpNode(u[p].node)>> \o from[p + u[p].node.len]
  IN  from[1]

-----------------------------------------------------------------------------
(* A program builds a path, starting with that of a handle, or with none.  *)

\* The program goes on with a path, or without one.
Has(b, q) ==
  /\ Len(b.mem) <= MaxCells
  /\ path' = b.mem /\ allocated' = b.size /\ insts' = q
  /\ unpacked' = <<>>
Lacks == Has(Block(NoPath, 0), <<>>)

\* What a function returns: the block, or NULL when an allocation failed.
Returns(b, q) == Has(b, q) \/ Lacks

\* Each instance gets the nodes of q's first; q may bring further instances.
EachWith(q) ==
  IF insts = <<>> THEN q
  ELSE FlattenSeq([i \in 1..Len(insts) |-> <<insts[i] \o q[1]>> \o Tail(q)])

\* FileDevicePath with a device does the same with a file path node.
AppendNode(n) ==
  /\ MultiAppend \/ Len(insts) <= 1
  /\ Returns(AppendDevicePathNode(path, n), EachWith(<<<<n>>>>))

\* Without a device: a path of the file alone.
FileDevicePath(n) == Returns(Block(NodePath(n), Len(NodePath(n))), <<<<n>>>>)

AppendPath(q) ==
  /\ MultiAppend \/ Len(insts) <= 1
  /\ Returns(AppendDevicePath(path, Memory(q)), EachWith(q))

\* AppendDevicePath without Src2 is the same.
Duplicate == path # NoPath /\ Returns(DuplicateDevicePath(path), insts)

AppendInstance(q) ==
  IF path = NoPath THEN Returns(DuplicateDevicePath(Memory(q)), q)
  ELSE Has(AppendDevicePathInstance(path, Memory(q)), insts \o q)

\* ASSERT(DevPath) is nothing in a build without EFI_DEBUG: both paths are
\* written to address 0, which is then returned.  The memory there is not
\* modelled, and no property speaks of it.
AppendInstanceFails == path # NoPath /\ Lacks

DuplicateInstance ==
  /\ LongInstance \/ (insts # <<>> => Len(insts[1]) <= 1)
  /\ Returns(LibDuplicateDevicePathInstance(path),
             IF insts = <<>> \/ insts[1] = <<>> THEN <<>> ELSE <<insts[1]>>)

Unpack ==
  /\ path # NoPath
  /\ unpacked' \in {UnpackDevicePath(path).mem, NoPath}
  /\ UNCHANGED <<path, allocated, insts>>

Init ==
  /\ insts \in {<<>>} \union {<<<<n>>>> : n \in Nodes}
  /\ path = (IF insts = <<>> THEN NoPath ELSE Memory(insts)) /\ allocated = Len(path)
  /\ unpacked = NoPath

Next ==
  \/ \E n \in Nodes : AppendNode(n) \/ FileDevicePath(n)
  \/ \E q \in Paths : AppendPath(q) \/ AppendInstance(q)
  \/ AppendInstanceFails \/ Duplicate \/ DuplicateInstance \/ Unpack

Spec == Init /\ [][Next]_vars

-----------------------------------------------------------------------------
(* Properties. *)

\* The nodes of a run of cells.
Names(m) == LET h == SelectSeq(m, IsHeader) IN [i \in 1..Len(h) |-> h[i].node.name]
Meaning(m) == [i \in 1..DevicePathInstanceCount(m) |-> Names(Instances(m)[i])]
Wanted == [i \in 1..Len(insts) |-> [j \in 1..Len(insts[i]) |-> insts[i][j].name]]

TypeOK ==
  /\ path \in Seq([node : Nodes \union {End, Inst}, at : 1..MaxCells])
  /\ allocated \in Nat

\* The text of the instances: nodes behind slashes, instances behind commas.
Text(q) ==
  LET inst(i) == FlattenSeq([j \in 1..Len(q[i]) |-> <<"/", q[i][j]>>])
      all == FlattenSeq([i \in 1..Len(q) |-> inst(i) \o IF i = Len(q) THEN <<>> ELSE <<",">>])
  IN  IF all # <<>> /\ all[1] = "/" THEN Tail(all) ELSE all

\* Whatever was appended or copied, walking the path gives the instances that
\* were put together, each with its nodes in order; and DevicePathToStr names
\* them, an instance with nodes behind a comma starting with a slash.  After a
\* failure there is no path.
MeansItsInstances ==
  IF insts = <<>> THEN path = NoPath
  ELSE path # NoPath /\ Meaning(path) = Wanted /\ DevicePathToStr(path) = Text(Wanted)

\* The block was allocated large enough for what was written into it.
FitsAllocation == TypeOK /\ Len(path) <= allocated

\* Unpacking changes the place of the nodes only: each starts on an aligned
\* address, the path means the same, and the size computed by the first loop
\* is the one the second loop needs.
UnpackedIsAligned ==
  unpacked # NoPath =>
    /\ Meaning(unpacked) = Meaning(path)
    /\ \A i \in 1..Len(unpacked) : IsHeader(unpacked[i]) => (i - 1) % Align = 0
    /\ Len(unpacked) = UnpackedSize(path)

\* LibMatchDevicePaths finds a single path among the instances; it also
\* accepts one that only begins like an instance.
MatchesInstances ==
  \A q \in {<<insts[i]>> : i \in 1..Len(insts)} \union Paths :
    Len(q) = 1 =>
      (LibMatchDevicePaths(path, Memory(q)) <=> \E i \in 1..Len(insts) : IsPrefix(insts[i], q[1]))

=============================================================================
