----------------------------- MODULE MCPrograms -----------------------------
(***************************************************************************)
(* The programs that use the library, one in each behaviour: the start and *)
(* end of an image on every architecture, the graphics programs, drv0 and  *)
(* its user, and the small tools.  The variables of the programs that do   *)
(* not run stay Off; Startup and Drv0 both have an image.                  *)
(***************************************************************************)
EXTENDS Integers, Sequences, FiniteSets

CONSTANTS
  LdBase,                                       \* Startup
  ModeLists, FbSizes, Uint32, Box,              \* Graphics
  Drivers, MaxHello,                            \* Drv0
  Pages, MaxNumPages, MaxAddr, Arguments, Machines, NameBytes, PauseLimit,  \* Tools
  Archs, Images,
  Off

ASSUME DriversAssumption == IsFiniteSet(Drivers)

\* Sizes are UINT32, and a line of the frame buffer holds at least what it
\* shows.
ASSUME GraphicsAssumption ==
  /\ Uint32 \in Nat \ {0} /\ Box \in Nat \ {0} /\ FbSizes \subseteq Nat
  /\ \A l \in ModeLists:
       /\ l \in Seq([w: Nat, h: Nat, pitch: Nat, format: {"rgb", "bgr", "mask", "blt", "bad"}])
       /\ \A k \in DOMAIN l: l[k].w <= l[k].pitch /\ l[k].pitch < Uint32

\* Arguments are numbers, variables have names of some length, and the bus has
\* devices on it.
ASSUME ToolsAssumption ==
  /\ Pages \in Nat /\ PauseLimit \in Nat \ {0} /\ NameBytes \in Nat
  /\ Arguments \subseteq Seq(Int)
  /\ \A m \in Machines:
       /\ m.store \in Seq([name: STRING, length: Nat])
       /\ m.bus \in Seq([id: STRING, opens: BOOLEAN, reads: BOOLEAN, rcba: Nat])

VARIABLES
  turn,   \* the program of this behaviour
  arch, image, phase, at, regs, stack, pending, ran, given, pointers,
  program, gop, timer, pc, i, listed, held, outside, screen, watchdog,
  protocols, users, refused, Counter, said, todo, answers,
  memory, store, bus, gcs, tool

S == INSTANCE Startup
G == INSTANCE Graphics
D == INSTANCE Drv0
T == INSTANCE Tools

\* Images are linked as the linker scripts ask for: a relative entry has a cell
\* of its own, outside of the global offset table, and the addend the cell was
\* linked for; the other cells hold what they were linked for already; a table
\* that is there has the number of entries its size says; the two tags of the
\* global offset table, if consistent, name its cells.
ASSUME StartupAssumption ==
  /\ LdBase \in Int
  /\ Archs \subseteq {"x86_64", "ia32", "aarch64", "arm", "loongarch64", "riscv64", "mips64el"}
  /\ Images \subseteq
       [dyn: Seq(STRING \X Nat), rels: Seq([type: STRING, offset: Nat, addend: Int]), link: Seq(Int),
        inPlace: BOOLEAN, got: SUBSET Nat, cells: Seq(Int),
        init_array: Seq(STRING), ctors: Seq(STRING), dtors: Seq(STRING), fini_array: Seq(STRING)]
  /\ \A m \in Images:
       /\ Len(m.cells) = Len(m.link)
       /\ \A o \in DOMAIN m.cells: m.inPlace \/ o \notin S!Relative(m) => m.cells[o] = m.link[o]
       /\ \A k \in {j \in DOMAIN m.rels: m.rels[j].type = "RELATIVE"}:
            /\ m.rels[k].offset \in DOMAIN m.cells \ m.got
            /\ m.rels[k].addend = m.link[m.rels[k].offset]
            /\ \A j \in DOMAIN m.rels:
                 m.rels[j].type = "RELATIVE" /\ m.rels[j].offset = m.rels[k].offset => j = k
       /\ \A kind \in {S!Rel, S!Rela("addend")}:
            LET relsz == S!Tagged(m.dyn, kind.size)
                relent == S!Tagged(m.dyn, kind.entry)
            IN  S!Tagged(m.dyn, kind.table) # 0 =>
                  /\ relsz \in Nat
                  /\ relsz = 0 => m.rels = <<>>
                  /\ relent # 0 => S!Entries(relsz, relent) = Len(m.rels)
       /\ LET addr == S!Tagged(m.dyn, "DT_PLTGOT")
              gotsz == S!Tagged(m.dyn, "DT_MIPS_LOCAL_GOTNO")
          IN  S!Tagged(m.dyn, "DT_REL") # 0 /\ (addr = 0 => gotsz = 0) => m.got = addr..(addr + gotsz - 1)

sOnly == <<arch, phase, at, regs, stack, pending, ran, given, pointers>>
gVars == <<program, gop, timer, pc, i, listed, held, outside, screen, watchdog>>
dOnly == <<protocols, users, refused, Counter, said, todo, answers>>
tVars == <<memory, store, bus, gcs, tool>>
all == <<turn, image, sOnly, gVars, dOnly, tVars>>

SOff ==
  /\ arch = Off /\ phase = Off /\ at = Off /\ regs = Off /\ stack = Off
  /\ pending = Off /\ ran = Off /\ given = Off /\ pointers = Off
GOff ==
  /\ program = Off /\ gop = Off /\ timer = Off /\ pc = Off /\ i = Off
  /\ listed = Off /\ held = Off /\ outside = Off /\ screen = Off /\ watchdog = Off
DOff ==
  /\ protocols = Off /\ users = Off /\ refused = Off /\ Counter = Off
  /\ said = Off /\ todo = Off /\ answers = Off
TOff == memory = Off /\ store = Off /\ bus = Off /\ gcs = Off /\ tool = Off

Init ==
  \/ turn = "startup" /\ S!Init /\ GOff /\ DOff /\ TOff
  \/ turn = "graphics" /\ G!Init /\ SOff /\ image = Off /\ DOff /\ TOff
  \/ turn = "drv0" /\ D!Init /\ SOff /\ GOff /\ TOff
  \/ turn = "tools" /\ T!Init /\ SOff /\ image = Off /\ GOff /\ DOff

Startup == turn = "startup" /\ S!Next /\ UNCHANGED <<turn, gVars, dOnly, tVars>>
Graphics == turn = "graphics" /\ G!Next /\ UNCHANGED <<turn, image, sOnly, dOnly, tVars>>
GraphicsStep == turn = "graphics" /\ G!Step /\ UNCHANGED <<turn, image, sOnly, dOnly, tVars>>
Drv0 == turn = "drv0" /\ D!Next /\ UNCHANGED <<turn, sOnly, gVars, tVars>>
Tools == turn = "tools" /\ T!Next /\ UNCHANGED <<turn, image, sOnly, gVars, dOnly>>
ToolsStep == turn = "tools" /\ T!Step /\ UNCHANGED <<turn, image, sOnly, gVars, dOnly>>

Next == Startup \/ Graphics \/ Drv0 \/ Tools
Fairness == WF_all(Startup) /\ WF_all(GraphicsStep) /\ WF_all(ToolsStep)
Spec == Init /\ [][Next]_all /\ Fairness

-----------------------------------------------------------------------------
(* Startup: every architecture with images whose dynamic section is        *)
(* complete, empty or lacks a tag, and constructor arrays with a NULL.     *)

Link == <<5, 6, 7>>
Relative(o, a) == [type |-> "RELATIVE", offset |-> o, addend |-> a]
MCRels == {
  <<Relative(1, 5)>>,
  <<Relative(2, 6), [type |-> "NONE", offset |-> 1, addend |-> 0], Relative(1, 5)>>,
  <<[type |-> "OTHER", offset |-> 1, addend |-> 5], Relative(2, 6)>>}

\* The tags of both kinds of table, and of the global offset table in cell 3.
Complete(n) ==
  <<<<"DT_RELA", 8>>, <<"DT_RELASZ", 3 * n>>, <<"DT_RELAENT", 3>>,
    <<"DT_REL", 8>>, <<"DT_RELSZ", 3 * n>>, <<"DT_RELENT", 3>>,
    <<"DT_PLTGOT", 3>>, <<"DT_MIPS_LOCAL_GOTNO", 1>>>>
Lacking(n, tags) == SelectSeq(Complete(n), LAMBDA d: d[1] \notin tags)
Table2 == {"DT_RELA", "DT_REL"}
Entry2 == {"DT_RELAENT", "DT_RELENT"}
Got2 == {"DT_PLTGOT", "DT_MIPS_LOCAL_GOTNO"}
MCLacking == {{}, Table2, Entry2, Table2 \union Entry2, Table2 \union Entry2 \union Got2, {"DT_PLTGOT"}}

MCImages ==
  {[dyn |-> Lacking(Len(r), t), rels |-> r, link |-> Link, inPlace |-> p, got |-> {3},
    cells |-> [o \in 1..3 |-> IF p \/ (\A k \in DOMAIN r: r[k].type # "RELATIVE" \/ r[k].offset # o)
                              THEN Link[o] ELSE 0],
    init_array |-> <<"i1", "NULL", "i2">>, ctors |-> c, dtors |-> <<"NULL", "d1", "d2">>,
    fini_array |-> <<"f1", "f2">>]:
     r \in MCRels, t \in MCLacking, p \in BOOLEAN, c \in {<<>>, <<"c1", "c2", "NULL">>}}

-----------------------------------------------------------------------------
(* Graphics: one or two modes, with every pixel format and with lines      *)
(* longer than they show; frame buffers too small, large enough, and of    *)
(* more than a UINT32.                                                     *)

MCModes == [w: {3, 4}, h: {3, 4}, pitch: {4}, format: {"rgb"}] \union
  {[w |-> 3, h |-> 2, pitch |-> 5, format |-> f]: f \in {"rgb", "bgr", "mask", "blt", "bad"}}
MCModeLists ==
  {<<m>>: m \in MCModes} \union {<<m, n>>: m \in {k \in MCModes: k.w = 3}, n \in {k \in MCModes: k.format \in {"bgr", "blt"}}}

-----------------------------------------------------------------------------
(* Tools: too few, enough and too many arguments, each bad in some place;  *)
(* stores and buses with nothing, one and several things on them.          *)

MCArguments ==
  {<<>>, <<1>>, <<0, 3>>, <<1, 2>>, <<2, 1>>, <<1, -1>>, <<9, 1>>, <<1, 9>>, <<0, 3, 2>>, <<1, 3, 1>>, <<2, 1, 1>>,
   <<1, 3, 1, 2>>, <<2, 3, 2, 1>>, <<1, 3, 1, -1>>, <<-1, 1>>, <<3, 5, 1>>, <<0, 14, 1>>, <<0, 1, 9>>, <<0, 1, -1>>,
   <<2, 1, 1, 9>>, <<0, 0, 0>>, <<0, 1, 1, 1, 1>>}
V(n, l) == [name |-> n, length |-> l]
MCStores == {<<>>, <<V("A", 1), V("B", 4)>>, <<V("DUMMY_DEBUG", 3), V("LONG", 6), V("SHIM_DEBUG", 2)>>}
Bridge(id, o, r, b) == [id |-> id, opens |-> o, reads |-> r, rcba |-> b]
MCBuses ==
  {<<>>, <<Bridge("other", TRUE, TRUE, 1)>>, <<Bridge("ich10", TRUE, TRUE, 1)>>,
   <<Bridge("cougarpoint", TRUE, TRUE, 0)>>, <<Bridge("cougarpoint", FALSE, TRUE, 1)>>,
   <<Bridge("ich10", TRUE, TRUE, 1), Bridge("cougarpoint", TRUE, TRUE, 2)>>,
   <<Bridge("cougarpoint", TRUE, FALSE, 2)>>}
MCMachines ==
  [store: MCStores, bus: {<<>>}, gcs: {<<{}, {}>>}] \union
  [store: {<<>>}, bus: MCBuses, gcs: {<<{}, {0, 2}>>, <<{1}, {}>>, <<{2}, {1}>>}]

-----------------------------------------------------------------------------
\* The entry point runs on a relocated image with the firmware's arguments,
\* after the constructors, and the firmware gets back its stack and registers
\* (crt0-efi-*.S, reloc_*.c, entry.c): see Startup.
EntryReached == turn = "startup" => S!EntryReached /\ S!CallerKept

\* Every image that starts gives control back, or loses it where Over says so
\* (crt0-efi-*.S, entry.c, exit.c); the graphics programs end behind the last
\* mode or the one that is set; and every tool that takes several steps ends:
\* printenv behind the last variable, debughook at its limit, setjmp after its
\* second jump.
ProgramsEnd ==
  /\ turn = "startup" ~> turn = "startup" /\ S!Over
  /\ turn = "graphics" ~> turn = "graphics" /\ pc \in {"done", "missing"}
  /\ turn = "tools" /\ ~T!Ended ~> turn = "tools" /\ T!Ended

\* The grid programs paint the mode that is set, and write inside the frame
\* buffer and, where its size fits a UINT32, inside their pixel buffer
\* (bltgrid.c, lfbgrid.c): see Graphics.
GridDrawn == turn = "graphics" => G!GridDrawn

\* Whoever is offered the protocol of drv0 finds a resident driver behind it,
\* whose answer is the number of its calls (drv0.c, drv0_use.c): see Drv0.
DriversAnswer == turn = "drv0" => D!DriversAnswer

\* The tools allocate, free, list, set and route what they were asked to, and
\* report what the firmware answered (AllocPages.c to setjmp.c): see Tools.
ToolsDoWhatTheySay == turn = "tools" => T!ToolsDoWhatTheySay

\* route80h.c says that it works on an ICH10: port 80h is routed there when
\* the machine has one.
Ich10Routed == turn = "tools" => T!Ich10Routed

=============================================================================
