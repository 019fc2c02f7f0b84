------------------------------- MODULE Tools --------------------------------
(***************************************************************************)
(* The small programs of apps/ that change something of the machine:       *)
(* AllocPages and FreePages (pages), setdbg, unsetdbg, printenv and        *)
(* debughook (variables of the firmware), route80h (a register of the      *)
(* chipset), and setjmp, which jumps.  One runs at a time.                 *)
(*                                                                         *)
(* Addresses count in pages.  A PCI device is [id, opens, reads, rcba]:    *)
(* rcba is 0 if it is not mapped, otherwise which of the registers it is.  *)
(***************************************************************************)
EXTENDS Integers, Sequences, SequencesExt

CONSTANTS
  Pages,        \* the pages are 0..Pages - 1
  MaxNumPages,  \* MAX_NUM_PAGES
  MaxAddr,      \* MAX_ADDR, in pages
  Arguments,    \* argv of AllocPages and FreePages, behind the program's name
  Machines,     \* [store, bus, gcs]: variables, as [name, length], PCI devices, contents of registers
  NameBytes,    \* sizeof(name) in printenv
  PauseLimit    \* where debughook's loop ends

VARIABLES
  memory,       \* page to memory type, or Free
  store,        \* the variables of the firmware
  bus, gcs,     \* the PCI devices, and the registers they map
  tool          \* the running program, or what the last one did
vars == <<memory, store, bus, gcs, tool>>

NoTool == [name |-> "none", pc |-> "end"]
Free == -1
Ended == tool.pc = "end"
RPR == 2

Init ==
  /\ memory = [p \in 0..(Pages - 1) |-> Free]
  /\ \E m \in Machines: store = m.store /\ bus = m.bus /\ gcs = m.gcs
  /\ tool = NoTool

-----------------------------------------------------------------------------
(* AllocPages and FreePages. *)

\* The firmware's services, external: contiguous free pages anywhere, up to an
\* address, or at one.
Run(first, n) == first..(first + n - 1)
Places(allocType, n, addr) ==
  {f \in 0..(Pages - 1): /\ n > 0 /\ \A p \in Run(f, n): p \in DOMAIN memory /\ memory[p] = Free
                         /\ allocType = 1 => f + n - 1 <= addr
                         /\ allocType = 2 => f = addr}
Taken(first, n) == n > 0 /\ \A p \in Run(first, n): p \in DOMAIN memory /\ memory[p] # Free

\* An address is unsigned: a negative one is larger than MAX_ADDR.
AllocPagesValid(argv) ==
  /\ argv[1] \in 0..2 /\ argv[2] \in 0..13 /\ argv[3] \in 0..MaxNumPages
  /\ Len(argv) = 4 => argv[4] \in 0..MaxAddr

\* A wrong number of arguments is EFI_SUCCESS, a wrong argument is not.
AllocPages(argv) ==
  LET Result(status) == tool' = [name |-> "AllocPages", pc |-> "end", argv |-> argv, status |-> status, before |-> memory]
      addr == IF Len(argv) = 4 THEN argv[4] ELSE 0
  IN /\ Ended /\ UNCHANGED <<store, bus, gcs>>
     /\ \/ Len(argv) \notin 3..4 /\ Result("EFI_SUCCESS") /\ UNCHANGED memory
        \/ Len(argv) \in 3..4 /\ ~AllocPagesValid(argv) /\ Result("EFI_INVALID_PARAMETER") /\ UNCHANGED memory
        \/ /\ Len(argv) \in 3..4 /\ AllocPagesValid(argv)
           /\ \/ \E f \in Places(argv[1], argv[3], addr):
                   /\ memory' = [p \in DOMAIN memory |-> IF p \in Run(f, argv[3]) THEN argv[2] ELSE memory[p]]
                   /\ Result("EFI_SUCCESS")
              \/ Places(argv[1], argv[3], addr) = {} /\ Result("EFI_NOT_FOUND") /\ UNCHANGED memory

FreePagesValid(argv) == argv[2] \in 0..MaxNumPages /\ argv[1] \in 0..MaxAddr

\* Wrong arguments are EFI_SUCCESS too.
FreePages(argv) ==
  LET Result(status) == tool' = [name |-> "FreePages", pc |-> "end", argv |-> argv, status |-> status, before |-> memory]
  IN /\ Ended /\ UNCHANGED <<store, bus, gcs>>
     /\ IF Len(argv) # 2 \/ ~FreePagesValid(argv) THEN Result("EFI_SUCCESS") /\ UNCHANGED memory
        ELSE IF Taken(argv[1], argv[2])
        THEN /\ memory' = [p \in DOMAIN memory |-> IF p \in Run(argv[1], argv[2]) THEN Free ELSE memory[p]]
             /\ Result("EFI_SUCCESS")
        ELSE Result("EFI_NOT_FOUND") /\ UNCHANGED memory

-----------------------------------------------------------------------------
(* Variables of the firmware. *)

Position(name) == SelectInSeq(store, LAMBDA v: v.name = name)

\* setdbg sets GRUB_ENV, unsetdbg deletes SHIM_DEBUG: they do not undo each
\* other.  A failure is shown and ignored.
setdbg ==
  /\ Ended /\ tool' = [name |-> "setdbg", pc |-> "end"]
  /\ store' \in {store, IF Position("GRUB_ENV") # 0 THEN store
                        ELSE Append(store, [name |-> "GRUB_ENV", length |-> NameBytes])}
  /\ UNCHANGED <<memory, bus, gcs>>
unsetdbg ==
  /\ Ended /\ tool' = [name |-> "unsetdbg", pc |-> "end"]
  /\ store' \in {store, IF Position("SHIM_DEBUG") = 0 THEN store
                        ELSE RemoveAt(store, Position("SHIM_DEBUG"))}
  /\ UNCHANGED <<memory, bus, gcs>>

\* printenv goes from variable to variable, and shows a NULL value for one it
\* cannot read.  Only a name that fits the buffer is passed.
printenv ==
  /\ Ended /\ tool' = [name |-> "printenv", pc |-> "next", at |-> 0, size |-> NameBytes, shown |-> <<>>]
  /\ UNCHANGED <<memory, store, bus, gcs>>

\* Mutant: the size is what the last name left.
PrintNextShrinking ==
  /\ tool.name = "printenv" /\ tool.pc = "next"
  /\ LET k == tool.at + 1
     IN IF k > Len(store) \/ (k <= Len(store) /\ store[k].length > tool.size)
        THEN tool' = [tool EXCEPT !.pc = "end"]
        ELSE \E value \in {"value", "NULL"}:
               tool' = [tool EXCEPT !.at = k, !.size = store[k].length,
                                    !.shown = Append(@, <<store[k].name, value>>)]
  /\ UNCHANGED <<memory, store, bus, gcs>>
PrintNext ==
  /\ tool.name = "printenv" /\ tool.pc = "next"
  /\ LET k == tool.at + 1
         size == NameBytes
     IN IF k > Len(store) \/ (k <= Len(store) /\ store[k].length > size)
        THEN tool' = [tool EXCEPT !.pc = "end"]
        ELSE \E value \in {"value", "NULL"}:
               tool' = [tool EXCEPT !.at = k, !.size = store[k].length,
                                    !.shown = Append(@, <<store[k].name, value>>)]
  /\ UNCHANGED <<memory, store, bus, gcs>>

\* GetVariableAttr: the size is asked for, a buffer allocated, the value read
\* into it; a failure frees the buffer.
GetVariableAttr ==
  /\ Ended
  /\ \E allocated, got \in BOOLEAN:
       tool' = [name |-> "debughook", x |-> 1,
                pc |-> IF Position("DUMMY_DEBUG") # 0 /\ allocated /\ got THEN "pause" ELSE "end",
                data |-> Position("DUMMY_DEBUG") # 0 /\ allocated /\ got]
  /\ UNCHANGED <<memory, store, bus, gcs>>

\* Mutant: x is not counted.
DebugHookStuck ==
  /\ tool.name = "debughook" /\ tool.pc = "pause"
  /\ tool' = IF tool.x + 1 > PauseLimit THEN [tool EXCEPT !.x = 1, !.pc = "end"] ELSE tool
  /\ UNCHANGED <<memory, store, bus, gcs>>

\* One round of while (x++): it ends when x has passed the limit.
DebugHook ==
  /\ tool.name = "debughook" /\ tool.pc = "pause"
  /\ tool' = IF tool.x + 1 > PauseLimit THEN [tool EXCEPT !.x = 1, !.pc = "end"] ELSE [tool EXCEPT !.x = @ + 1]
  /\ UNCHANGED <<memory, store, bus, gcs>>

-----------------------------------------------------------------------------
(* route80h. *)

Lpcif == <<"ich10", "cougarpoint">>

\* What is_device reads is compared with the ids of the device looked for.
is_device(d, id) == d.reads /\ d.id = id
find_pci_device(id) ==
  LET at == SelectInSeq(bus, LAMBDA d: d.opens /\ is_device(d, id))
  IN IF at = 0 THEN <<"EFI_NOT_FOUND">> ELSE <<"EFI_SUCCESS", bus[at]>>

set_bit(flag, bit) == flag \union {bit}

\* Every device of the list is looked for; what counts is the last search.
route80h ==
  LET Result(status) == tool' = [name |-> "route80h", pc |-> "end", status |-> status, before |-> gcs]
      found == find_pci_device(Lpcif[Len(Lpcif)])
  IN /\ Ended /\ UNCHANGED <<memory, store, bus>>
     /\ \/ found[1] = "EFI_NOT_FOUND" /\ Result("EFI_NOT_FOUND") /\ UNCHANGED gcs
        \/ found[1] = "EFI_SUCCESS" /\ Result("EFI_DEVICE_ERROR") /\ UNCHANGED gcs
        \/ /\ found[1] = "EFI_SUCCESS" /\ found[2].rcba = 0
           /\ Result("EFI_UNSUPPORTED") /\ UNCHANGED gcs
        \/ /\ found[1] = "EFI_SUCCESS" /\ found[2].rcba # 0
           /\ gcs' = [gcs EXCEPT ![found[2].rcba] = set_bit(@, RPR)]
           /\ Result("EFI_SUCCESS")

-----------------------------------------------------------------------------
\* setjmp: longjmp(env, v) makes setjmp return v, or 1 if v is 0.
longjmp(v) == tool' = [tool EXCEPT !.rc = IF v = 0 THEN 1 ELSE v, !.returns = Append(@, tool.rc)]
SetjmpStart ==
  /\ Ended /\ tool' = [name |-> "setjmp", pc |-> "returned", rc |-> 0, returns |-> <<>>]
  /\ UNCHANGED <<memory, store, bus, gcs>>
SetjmpReturned ==
  /\ tool.name = "setjmp" /\ tool.pc = "returned"
  /\ CASE tool.rc = 3 -> longjmp(0)
       [] tool.rc = 1 -> tool' = [tool EXCEPT !.pc = "end"]
       [] OTHER -> longjmp(3)
  /\ UNCHANGED <<memory, store, bus, gcs>>

Begin == \/ \E argv \in Arguments: AllocPages(argv) \/ FreePages(argv)
         \/ setdbg \/ unsetdbg \/ printenv \/ GetVariableAttr \/ route80h \/ SetjmpStart
Step == PrintNext \/ DebugHook \/ SetjmpReturned
Next == Begin \/ Step
Spec == Init /\ [][Next]_vars /\ WF_vars(Step)

-----------------------------------------------------------------------------
\* AllocPages takes as many pages as it was asked for, free before, of the type
\* and at the place asked for, and FreePages gives back the pages named; with
\* any other status, or other arguments, memory stays as it was.
PagesAsAsked ==
  Ended /\ tool.name \in {"AllocPages", "FreePages"} =>
    LET changed == {p \in DOMAIN memory: memory[p] # tool.before[p]}
        a == tool.argv
        addr == IF Len(a) = 4 THEN a[4] ELSE 0
    IN changed # {} =>
         /\ tool.status = "EFI_SUCCESS"
         /\ \E f \in DOMAIN memory:
              IF tool.name = "AllocPages"
              THEN /\ changed = Run(f, a[3]) /\ (a[1] = 2 => f = addr) /\ (a[1] = 1 => f + a[3] - 1 <= addr)
                   /\ \A p \in changed: tool.before[p] = Free /\ memory[p] = a[2]
              ELSE changed = Run(a[1], a[2]) /\ \A p \in changed: memory[p] = Free

\* printenv ends having shown each variable up to the first whose name
\* its buffer cannot hold; debughook pauses for a variable that is there; the
\* jumps of setjmp come back as 0, 3 and 1.
ListsAndReturns ==
  /\ Ended /\ tool.name = "printenv" =>
       LET long == SelectInSeq(store, LAMBDA v: v.length > NameBytes)
           shown == IF long = 0 THEN store ELSE SubSeq(store, 1, long - 1)
       IN [k \in DOMAIN tool.shown |-> tool.shown[k][1]] = [k \in DOMAIN shown |-> shown[k].name]
  /\ tool.name = "debughook" /\ tool.pc = "pause" => Position("DUMMY_DEBUG") # 0 /\ tool.x <= PauseLimit
  /\ Ended /\ tool.name = "setjmp" => tool.returns = <<0, 3>> /\ tool.rc = 1

\* route80h sets the one bit, in the register of a device of its list,
\* and nothing else; with an error it changes nothing.
OneBitRouted ==
  Ended /\ tool.name = "route80h" =>
    IF tool.status # "EFI_SUCCESS" THEN gcs = tool.before
    ELSE \E k \in DOMAIN bus:
           /\ bus[k].id \in Range(Lpcif) /\ bus[k].rcba # 0
           /\ gcs = [tool.before EXCEPT ![bus[k].rcba] = @ \union {RPR}]

\* The programs do what they say of pages, variables, jumps and the register.
ToolsDoWhatTheySay == PagesAsAsked /\ ListsAndReturns /\ OneBitRouted

\* route80h routes port 80h on an ICH10, as its first comment says: with a
\* device that can be read and is mapped, it is never "not found".
Ich10Routed ==
  Ended /\ tool.name = "route80h" /\ (\E k \in DOMAIN bus: bus[k].opens /\ is_device(bus[k], "ich10")) =>
    tool.status # "EFI_NOT_FOUND"

=============================================================================
