------------------------------- MODULE MCFiles -------------------------------
(***************************************************************************)
(* The two ways the library reads files, one in each behaviour.            *)
(* A File object over two files of up to three cells, each of which may be *)
(* missing: three handles let a new file be open while the old one is      *)
(* still known, three blocks do the same for the two arrays.  And the      *)
(* simple read functions over a device with any of the protocols.          *)
(***************************************************************************)
EXTENDS File, TLC

CONSTANTS UserPaths, FileSizes, MaxUintn, Outside

\* SIMPLE_READ_HANDLE: the copy in memory or Null, and the file or Null.
SimpleReadHandles ==
  [source : Seq(Nat \union {Junk}) \union {Null}, sourceSize : Nat,
   freeBuffer : BOOLEAN, file : Nat \union {Null}]

\* Null is none of the objects a pointer may point at.
ASSUME SimpleReadAssumption ==
  /\ UserPaths \subseteq Seq({"dev", "file", "other"})
  /\ FileSizes \subseteq Nat /\ MaxUintn \in Nat
  /\ Null \notin Nat /\ Null \notin Seq(Nat \union {Junk}) /\ Null \notin SimpleReadHandles

VARIABLES
  turn,   \* "file" or "simple"
  offers, size, live, handles, pc, user, filePath, node, fileHandle, fhand, status, result

R == INSTANCE SimpleRead

rvars == <<offers, size, live, handles, pc, user, filePath, node, fileHandle, fhand, status, result>>
all == <<turn, fvars, rvars>>

ROff ==
  /\ offers = Null /\ size = Null /\ live = Null /\ handles = Null /\ pc = Null /\ user = Null
  /\ filePath = Null /\ node = Null /\ fileHandle = Null /\ fhand = Null /\ status = Null /\ result = Null
FOff ==
  /\ disk = Null /\ open = Null /\ path = Null /\ pos = Null /\ root = Null /\ file = Null
  /\ arr = Null /\ mem = Null /\ faults = Null /\ fpc = Null /\ req = Null /\ fstatus = Null
  /\ readSize = Null /\ opened = Null

AllInit ==
  \/ turn = "file" /\ Init /\ ROff
  \/ turn = "simple" /\ R!Init /\ FOff

FileObject == turn = "file" /\ Next /\ UNCHANGED <<turn, rvars>>
SimpleReads == turn = "simple" /\ R!Next /\ UNCHANGED <<turn, fvars>>
AllNext == FileObject \/ SimpleReads
AllSpec == AllInit /\ [][AllNext]_all

Symmetry == Permutations(Handles) \union Permutations(Blocks) \union Permutations(Paths)

\* Paths to the device alone, to one and two levels below it, to something that
\* is no file, and to another device.
SomePaths ==
  {<<>>, <<"dev">>, <<"dev", "file">>, <<"dev", "file", "file">>, <<"dev", "file", "other">>, <<"other", "file">>}

-----------------------------------------------------------------------------
\* File holds exactly the handles and blocks it knows of, and Size() is that of
\* the file that is open now (file.cc): see File.
OpenFileKnown == turn = "file" => ResourcesBalanced /\ SizeOfOpenFile

\* The simple read functions hold exactly what the caller's handle needs
\* (sread.c): see SimpleRead.
SimpleReadBalanced == turn = "simple" => R!SimpleReadBalanced

\* A successful simple read gives the cells of the file that were asked for
\* (sread.c): see SimpleRead.
ReadsTheFile == turn = "simple" => R!ReadsTheFile

=============================================================================
