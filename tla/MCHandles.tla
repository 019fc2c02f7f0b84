------------------------------ MODULE MCHandles ------------------------------
(***************************************************************************)
(* The library's functions on the handle database and on events, one group *)
(* of them in each behaviour: buffers that grow (GrowBuffer), lists of     *)
(* interfaces (ProtocolInterfaces), device paths (DevicePath),             *)
(* notifications (ProtocolNotify) and keys (ConsoleInput).  The variables  *)
(* of the groups that do not run stay Null; the first two share pc, status *)
(* and calls.                                                              *)
(***************************************************************************)
EXTENDS Naturals, Sequences, ProtocolNotify, TLC

CONSTANTS
  Values, Options, PathOf, Collating, GuessedSize, Blocks, MaxLen, MaxCalls, MaxChanges,   \* GrowBuffer
  Handles, Protocols, Ifaces, None, ArgLists, MaxInstalls,    \* ProtocolInterfaces
  Nodes, Align, Paths, MultiAppend, LongInstance, MaxCells,   \* DevicePath
  Chars, Enter, Backspace, Other, Lengths, Timeouts, MaxKeys, MaxSteals,   \* ConsoleInput
  Null,
  a, b, c, p, q, o, x, y

\* None is neither an interface nor a handle; an argument list names a
\* protocol, the interface to replace and the interface to install.
ASSUME InterfacesAssumption ==
  /\ None \notin Ifaces /\ None \notin Handles
  /\ ArgLists \subseteq Seq([p : Protocols, old : Ifaces, new : Ifaces])
  /\ MaxInstalls \in Nat

\* Null is none of the things a pointer may point at; objects list handles; and
\* MaxLen leaves room for one insertion by each call.
ASSUME BuffersAssumption ==
  /\ Null \notin Blocks \union DOMAIN PathOf \union {PathOf[h] : h \in DOMAIN PathOf}
  /\ Values \subseteq Seq(DOMAIN PathOf)
  /\ MaxLen \in Nat \ {0} /\ MaxCalls \in Nat
  /\ GuessedSize \in 0..MaxLen
  /\ \A v \in Values \union {<<>>} : Len(v) + MaxCalls <= MaxLen

\* The keys that IInput treats apart are no characters, and a buffer has room
\* for the terminating 0.
ASSUME ConsoleAssumption ==
  /\ {Enter, Backspace, Other} \cap Chars = {} /\ Enter # Backspace
  /\ Lengths \subseteq Nat \ {0} /\ MaxKeys \in Nat /\ MaxSteals \in Nat

VARIABLES
  turn,   \* the group of this behaviour
  bootOrder, other, pool, pc, fn, api, option, status, buffer, bufferSize, blockSize, content,
  newArray, scan, initialized, collation, given, dropped, seen, calls, changes,
  db, inUse, raised, args, handle, oldHandle, k, index, db0,
  path, allocated, unpacked, insts,
  queue, typed, steals, kpc, kfn, timeout, timer, wait, strLen, inStr, end, screen, readKeys, key

G == INSTANCE GrowBuffer
P == INSTANCE ProtocolInterfaces WITH MaxCalls <- MaxInstalls
D == INSTANCE DevicePath
C == INSTANCE ConsoleInput WITH pc <- kpc, fn <- kfn

gOnly == <<bootOrder, other, pool, fn, api, option, buffer, bufferSize, blockSize, content,
           newArray, scan, initialized, collation, given, dropped, seen, changes>>
pOnly == <<db, inUse, raised, args, handle, oldHandle, k, index, db0>>
shared == <<pc, status, calls>>
dVars == <<path, allocated, unpacked, insts>>
cVars == <<queue, typed, steals, kpc, kfn, timeout, timer, wait, strLen, inStr, end, screen, readKeys, key>>
all == <<turn, shared, gOnly, pOnly, dVars, vars, cVars>>

GOff ==
  /\ bootOrder = Null /\ other = Null /\ pool = Null /\ fn = Null /\ api = Null /\ option = Null
  /\ buffer = Null /\ bufferSize = Null /\ blockSize = Null /\ content = Null /\ newArray = Null
  /\ scan = Null /\ initialized = Null /\ collation = Null /\ given = Null /\ dropped = Null
  /\ seen = Null /\ changes = Null
POff ==
  /\ db = Null /\ inUse = Null /\ raised = Null /\ args = Null /\ handle = Null
  /\ oldHandle = Null /\ k = Null /\ index = Null /\ db0 = Null
DOff == path = Null /\ allocated = Null /\ unpacked = Null /\ insts = Null
NOff ==
  /\ npc = Null /\ event = Null /\ signalled = Null /\ installed = Null /\ noticed = Null
  /\ returned = Null
COff ==
  /\ queue = Null /\ typed = Null /\ steals = Null /\ kpc = Null /\ kfn = Null /\ timeout = Null /\ timer = Null
  /\ wait = Null /\ strLen = Null /\ inStr = Null /\ end = Null /\ screen = Null /\ readKeys = Null /\ key = Null
SharedOff == pc = "idle" /\ status = Null /\ calls = Null

AllInit ==
  \/ turn = "buffers" /\ G!Init /\ POff /\ DOff /\ NOff /\ COff
  \/ turn = "interfaces" /\ P!Init /\ GOff /\ DOff /\ NOff /\ COff
  \/ turn = "paths" /\ D!Init /\ GOff /\ POff /\ SharedOff /\ NOff /\ COff
  \/ turn = "notifications" /\ Init /\ GOff /\ POff /\ SharedOff /\ DOff /\ COff
  \/ turn = "input" /\ C!Init /\ GOff /\ POff /\ SharedOff /\ DOff /\ NOff

Buffers == turn = "buffers" /\ G!Next /\ UNCHANGED <<turn, pOnly, dVars, vars, cVars>>
BuffersStep == turn = "buffers" /\ G!Step /\ UNCHANGED <<turn, pOnly, dVars, vars, cVars>>
Interfaces == turn = "interfaces" /\ P!Next /\ UNCHANGED <<turn, gOnly, dVars, vars, cVars>>
InterfacesStep == turn = "interfaces" /\ P!Step /\ UNCHANGED <<turn, gOnly, dVars, vars, cVars>>
DevicePaths == turn = "paths" /\ D!Next /\ UNCHANGED <<turn, shared, gOnly, pOnly, vars, cVars>>
Notifications == turn = "notifications" /\ Next /\ UNCHANGED <<turn, shared, gOnly, pOnly, dVars, cVars>>
Inputs == turn = "input" /\ C!Next /\ UNCHANGED <<turn, shared, gOnly, pOnly, dVars, vars>>
InputStep == turn = "input" /\ C!Step /\ UNCHANGED <<turn, shared, gOnly, pOnly, dVars, vars>>
InputExpire == turn = "input" /\ C!Expire /\ UNCHANGED <<turn, shared, gOnly, pOnly, dVars, vars>>

AllNext == Buffers \/ Interfaces \/ DevicePaths \/ Notifications \/ Inputs
\* The library's functions run, and a timer that was set expires.
AllSpec ==
  /\ AllInit /\ [][AllNext]_all
  /\ WF_all(BuffersStep) /\ WF_all(InterfacesStep) /\ WF_all(InputStep) /\ WF_all(InputExpire)

-----------------------------------------------------------------------------
(* GrowBuffer: objects of one to three elements, buffers that start with   *)
(* two, so that the loop runs up to three times; two calls, two changes.   *)

\* a and c match; b has the node behind another of the disk.
SmallPathOf == (a :> <<"pci", "signature">>) @@ (b :> <<"pci", "harddrive", "signature">>)
               @@ (c :> <<"signature", "endinstance", "harddrive">>)
SmallValues == {<<b>>, <<c, a, b>>}

(* ProtocolInterfaces: lists of none, one or three interfaces; one names a *)
(* protocol twice, which the firmware refuses, so that the rollback also   *)
(* runs without a resource failure.                                        *)

Arg(pr, old, new) == [p |-> pr, old |-> old, new |-> new]
Lists ==
  {<<>>,
   <<Arg(q, x, y)>>,
   <<Arg(p, y, x), Arg(q, y, x), Arg(o, y, x)>>,
   <<Arg(o, x, y), Arg(o, y, x)>>}

(* DevicePath: nodes of one, two and three cells, aligned to two, and      *)
(* paths of one and two instances to append, one of them empty.            *)
(* MultiAppend and LongInstance are each on in the run that shows what     *)
(* becomes of a path then (MCHandlesAppend, MCHandlesInstance), and off in *)
(* the others.                                                             *)

Pci == [name |-> "Pci", len |-> 1]
Disk == [name |-> "Disk", len |-> 2]
File == [name |-> "File", len |-> 3]
DeviceNodes == {Pci, Disk, File}
OtherPaths == {<<<<Pci>>>>, <<<<Disk, File>>>>, <<<<File>>, <<Pci, Disk>>>>, <<<<>>>>}

-----------------------------------------------------------------------------
\* The readers give their callers the whole object or nothing, and no pool
\* block is lost, freed twice or used after it was freed, whatever fails,
\* and an insertion into the boot order puts the option behind an order that
\* was there (hand.c, misc.c, init.c): see GrowBuffer.
BuffersWhole == turn = "buffers" => G!PoolBalanced /\ G!WholeObjectOrNothing /\ G!BootOrderExtended

\* LibLocateHandleByDiskSignature finds the partition's handles and no others
\* (hand.c): see GrowBuffer.
PartitionFound == turn = "buffers" => G!FindsPartition

\* LibInstallProtocolInterfaces is all or nothing (hand.c): see
\* ProtocolInterfaces.
InstallAllOrNothing == turn = "interfaces" => P!InstallAllOrNothing

\* A device path means the instances it was put together from, in blocks large
\* enough, its unpacked form is the same path on aligned addresses, and
\* LibMatchDevicePaths finds a single path among the instances (dpath.c): see
\* DevicePath.
MeansItsInstances ==
  turn = "paths" =>
    D!MeansItsInstances /\ D!FitsAllocation /\ D!UnpackedIsAligned /\ D!MatchesInstances

\* IInput's buffer, the screen and the keys read agree at every key, the
\* string ends where it should, and WaitForSingleEvent closes its timer
\* (console.c, event.c): see ConsoleInput.
LineAsTyped == turn = "input" => C!LineTerminated /\ C!ShowsWhatItHolds /\ C!TimersClosed

\* A wait with a time limit ends, even if no key ever comes (event.c): see
\* ConsoleInput.
TimedWaitEnds == C!TimedWaitEnds

\* Every call of a library function returns: each further round of GrowBuffer
\* asks for a larger buffer than the one before, also when its own allocations
\* change the object, and a rollback ends at the first interface (misc.c, hand.c).
CallsReturn == G!CallsReturn

=============================================================================
