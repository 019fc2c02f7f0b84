--------------------------- MODULE ProgramsProofs ---------------------------
(***************************************************************************)
(* What the run of MCPrograms checks, for every image, argument, machine   *)
(* and number of drivers.  One program runs in each behaviour, so each has *)
(* an invariant of its own.                                                *)
(***************************************************************************)
EXTENDS MCPrograms, FiniteSets, FiniteSetTheorems, NaturalsInduction, WellFoundedInduction,
        SequenceTheorems, TLAPS

-----------------------------------------------------------------------------
(* drv0 and its user. *)

\* The handles drv0_use has before it or has asked already: each once, and all
\* of images that were resident when it looked for them, so that none of them
\* starts again.
Visited ==
  /\ \A j, k \in 1..Len(todo): todo[j] = todo[k] => j = k
  /\ \A j \in 1..Len(todo), k \in 1..Len(answers): todo[j] # answers[k][1]
  /\ \A j \in 1..Len(todo): image[todo[j]] \in {"resident", "unloaded"}
  /\ \A k \in 1..Len(answers): image[answers[k][1]] \in {"resident", "unloaded"}

DTypeOK ==
  /\ image \in [Drivers -> {"absent", "started", "resident", "unloaded"}]
  /\ protocols \subseteq Drivers /\ users \subseteq Drivers /\ refused \subseteq Drivers
  /\ Counter \in [Drivers -> Nat] /\ said \in [Drivers -> Nat]
  /\ todo \in Seq(Drivers) /\ answers \in Seq(Drivers \X Nat)

DInv ==
  /\ DTypeOK /\ Visited
  /\ Counter = said
  /\ \A d \in protocols: image[d] = "resident" \/ (d \in refused /\ image[d] = "unloaded")
  /\ \A k \in 1..Len(answers): answers[k][2] = said[answers[k][1]]
  /\ \A j, k \in 1..Len(answers): answers[j][1] = answers[k][1] => j = k

LEMMA DInitOK == D!Init => DInv
BY DEF D!Init, DInv, DTypeOK, Visited

LEMMA DElements ==
  ASSUME DTypeOK
  PROVE  /\ Len(todo) \in Nat /\ DOMAIN todo = 1..Len(todo)
         /\ \A j \in 1..Len(todo): todo[j] \in Drivers
         /\ Len(answers) \in Nat /\ DOMAIN answers = 1..Len(answers)
         /\ \A k \in 1..Len(answers): answers[k][1] \in Drivers /\ answers[k][2] \in Nat
<1>1. todo \in Seq(Drivers) /\ answers \in Seq(Drivers \X Nat)
  BY DEF DTypeOK
<1>2. \A k \in 1..Len(answers): answers[k] \in Drivers \X Nat
  BY <1>1, ElementOfSeq
<1> QED BY <1>1, <1>2, ElementOfSeq, LenProperties

LEMMA SameCardinality == \A A: D!Cardinality(A) = Cardinality(A)
BY DEF D!Cardinality, Cardinality

\* LibLocateHandle gives each handle that has the protocol once.
LEMMA EachOnce ==
  ASSUME protocols \subseteq Drivers
  PROVE  /\ D!SetToSeq(protocols) \in Seq(protocols)
         /\ \A j, k \in 1..Len(D!SetToSeq(protocols)):
              D!SetToSeq(protocols)[j] = D!SetToSeq(protocols)[k] => j = k
<1>1. IsFiniteSet(protocols)
  BY DriversAssumption, FS_Subset
<1>2. Cardinality(protocols) \in Nat
  BY <1>1, FS_CardinalityType
<1>3. \E f \in [1..Cardinality(protocols) -> protocols]: \A a, b \in DOMAIN f: f[a] = f[b] => a = b
  BY <1>1, FS_CardinalityType, FS_NatBijection DEF ExistsBijection, Bijection, Injection, IsInjective
<1> DEFINE f == D!SetToSeq(protocols)
<1>4. f \in [1..Cardinality(protocols) -> protocols] /\ \A a, b \in DOMAIN f: f[a] = f[b] => a = b
  BY <1>3, SameCardinality DEF D!SetToSeq, D!IsInjective
<1> HIDE DEF f
<1> QED BY <1>2, <1>4 DEF f

\* Nothing changes for drv0_use as long as the images it knows of stay.
LEMMA DSameUser ==
  ASSUME DInv, DTypeOK', UNCHANGED <<todo, answers>>, Counter' = said',
         \A d \in Drivers: image[d] \in {"resident", "unloaded"} =>
            image'[d] \in {"resident", "unloaded"} /\ said'[d] = said[d],
         \A d \in protocols': image'[d] = "resident" \/ (d \in refused' /\ image'[d] = "unloaded")
  PROVE  DInv'
<1>1. Visited'
  <2>1. \A k \in 1..Len(answers): image'[answers[k][1]] \in {"resident", "unloaded"}
    BY DElements DEF DInv, Visited
  <2>2. \A j \in 1..Len(todo): image'[todo[j]] \in {"resident", "unloaded"}
    BY DElements DEF DInv, Visited
  <2> QED BY <2>1, <2>2 DEF DInv, Visited
<1>2. \A k \in 1..Len(answers): answers[k][2] = said'[answers[k][1]]
  BY DElements DEF DInv, Visited
<1> QED BY <1>1, <1>2 DEF DInv

\* The firmware starts, keeps or unloads an instance.
LEMMA DFirmwareKeeps ==
  ASSUME DInv, NEW d \in Drivers,
         D!StartImage(d) \/ D!efi_main(d) \/ D!OtherOpens(d) \/ D!Drv0Unload(d)
  PROVE  DInv'
<1>1. /\ DTypeOK /\ Counter = said
      /\ \A e \in protocols: image[e] = "resident" \/ (e \in refused /\ image[e] = "unloaded")
  BY DEF DInv
<1>2. UNCHANGED <<todo, answers>>
  BY DEF D!StartImage, D!efi_main, D!OtherOpens, D!Drv0Unload, D!user
<1>3. CASE D!StartImage(d)
  BY <1>1, <1>2, <1>3, DSameUser DEF D!StartImage, DTypeOK
<1>4. CASE D!efi_main(d)
  BY <1>1, <1>2, <1>4, DSameUser DEF D!efi_main, DTypeOK
<1>5. CASE D!OtherOpens(d)
  BY <1>1, <1>2, <1>5, DSameUser DEF D!OtherOpens, DTypeOK
<1>6. CASE D!Drv0Unload(d)
  BY <1>1, <1>2, <1>6, DSameUser DEF D!Drv0Unload, DTypeOK
<1> QED BY <1>3, <1>4, <1>5, <1>6

LEMMA DUseKeeps == ASSUME DInv, D!use_main PROVE DInv'
<1> USE DEF DInv, DTypeOK, Visited
<1>1. /\ todo' \in Seq(protocols) /\ answers' = <<>>
      /\ \A j, k \in 1..Len(todo'): todo'[j] = todo'[k] => j = k
      /\ UNCHANGED <<image, protocols, users, refused, Counter, said>>
  BY EachOnce DEF D!use_main
<1>2. todo' \in Seq(Drivers) /\ \A j \in 1..Len(todo'): todo'[j] \in protocols
  BY <1>1, ElementOfSeq
<1> QED BY <1>1, <1>2

LEMMA DPlayKeeps == ASSUME DInv, D!PlayWithGnuEfiAppsDrv0Protocol PROVE DInv'
<1> USE DEF DInv, DTypeOK, Visited
<1> DEFINE d == Head(todo)
<1>0. /\ Len(todo) \in Nat /\ DOMAIN todo = 1..Len(todo)
      /\ \A j \in 1..Len(todo): todo[j] \in Drivers
      /\ Len(answers) \in Nat /\ DOMAIN answers = 1..Len(answers)
      /\ \A k \in 1..Len(answers): answers[k][1] \in Drivers /\ answers[k][2] \in Nat
  BY DElements
<1> USE <1>0
<1>1. /\ todo # <<>> /\ todo' = Tail(todo)
      /\ UNCHANGED <<image, protocols, users, refused>>
  BY DEF D!PlayWithGnuEfiAppsDrv0Protocol, D!Idle
<1>2. /\ todo' \in Seq(Drivers) /\ Len(todo) >= 1 /\ Len(todo') = Len(todo) - 1
      /\ \A j \in 1..Len(todo'): todo'[j] = todo[j + 1]
      /\ d \in Drivers /\ d = todo[1]
  BY <1>1, HeadTailProperties
<1>3. \A j \in 1..Len(todo'): todo'[j] # d
  BY <1>2
<1>4. /\ \A j, k \in 1..Len(todo'): todo'[j] = todo'[k] => j = k
      /\ \A j \in 1..Len(todo'), k \in 1..Len(answers): todo'[j] # answers[k][1]
      /\ \A j \in 1..Len(todo'): image[todo'[j]] \in {"resident", "unloaded"}
      /\ \A k \in 1..Len(answers): answers[k][1] # d
      /\ image[d] \in {"resident", "unloaded"}
  <2>1. \A j \in 1..Len(todo'): j + 1 \in 1..Len(todo)
    BY <1>2
  <2>2. 1 \in 1..Len(todo)
    BY <1>2
  <2> HIDE DEF d
  <2>3. \A j, k \in 1..Len(todo'): todo'[j] = todo'[k] => j = k
    <3> SUFFICES ASSUME NEW j \in 1..Len(todo'), NEW k \in 1..Len(todo'), todo'[j] = todo'[k] PROVE j = k
      OBVIOUS
    <3>1. todo[j + 1] = todo[k + 1] /\ j + 1 \in 1..Len(todo) /\ k + 1 \in 1..Len(todo)
      BY <1>2, <2>1
    <3>2. j + 1 = k + 1
      BY <3>1
    <3> QED BY <1>2, <3>2
  <2> QED BY <1>2, <2>1, <2>2, <2>3
<1> HIDE DEF d
<1>5. CASE UNCHANGED <<Counter, said, answers>>
  BY <1>1, <1>2, <1>4, <1>5
<1>6. CASE /\ said[d] < MaxHello /\ D!Drv0SayHello(d)
           /\ answers' = Append(answers, <<d, D!Drv0GetNumberOfHello(d)>>)
  <2>1. /\ Counter' = [Counter EXCEPT ![d] = @ + 1] /\ said' = [said EXCEPT ![d] = @ + 1]
        /\ answers' = Append(answers, <<d, Counter'[d]>>)
    BY <1>6 DEF D!Drv0SayHello, D!Drv0GetNumberOfHello
  <2>2. /\ Counter' = said' /\ Counter' \in [Drivers -> Nat] /\ said'[d] = said[d] + 1
        /\ \A e \in Drivers: e # d => said'[e] = said[e]
    BY <2>1, <1>2
  <2>3. /\ answers' \in Seq(Drivers \X Nat) /\ Len(answers') = Len(answers) + 1
        /\ \A k \in 1..Len(answers): answers'[k] = answers[k]
        /\ answers'[Len(answers) + 1] = <<d, said'[d]>>
    BY <2>1, <2>2, <1>2, AppendProperties
  <2>4. ASSUME NEW k \in 1..Len(answers')
        PROVE  \/ /\ k \in 1..Len(answers) /\ answers'[k] = answers[k]
                  /\ answers[k][1] \in Drivers \ {d} /\ answers[k][2] = said[answers[k][1]]
               \/ k = Len(answers) + 1 /\ answers'[k][1] = d /\ answers'[k][2] = said'[d]
    <3>1. CASE k \in 1..Len(answers)
      BY <1>4, <2>3, <3>1
    <3>2. CASE k \notin 1..Len(answers)
      <4>1. k = Len(answers) + 1
        BY <2>3, <3>2
      <4> QED BY <2>3, <4>1
    <3> QED BY <3>1, <3>2
  <2>5. ASSUME NEW k \in 1..Len(answers') PROVE answers'[k][2] = said'[answers'[k][1]]
    <3> HIDE DEF DInv, DTypeOK, Visited
    <3> QED BY <2>2, <2>4
  <2>6. \A j, k \in 1..Len(answers'): answers'[j][1] = answers'[k][1] => j = k
    BY <1>4, <2>4
  <2>7. Visited'
    <3>1. ASSUME NEW j \in 1..Len(todo'), NEW k \in 1..Len(answers') PROVE todo'[j] # answers'[k][1]
      <4> HIDE DEF DInv, DTypeOK, Visited
      <4> QED BY <1>3, <1>4, <2>4
    <3>2. \A k \in 1..Len(answers'): image[answers'[k][1]] \in {"resident", "unloaded"}
      BY <1>4, <2>4
    <3> QED BY <1>1, <1>4, <3>1, <3>2
  <2> QED BY <1>1, <1>2, <2>2, <2>3, <2>5, <2>6, <2>7
<1> QED BY <1>5, <1>6 DEF D!PlayWithGnuEfiAppsDrv0Protocol, d

\* The invariant of drv0 and its user, in the composition.
LEMMA DInvariant == Spec => [](turn = "drv0" => DInv)
<1> DEFINE I == turn = "drv0" => DInv
<1>1. Init => I
  BY DInitOK DEF Init
<1>2. I /\ [Next]_all => I'
  <2> SUFFICES ASSUME I, [Next]_all, turn' = "drv0" PROVE DInv'
    OBVIOUS
  <2>1. CASE Drv0
    <3>1. DInv /\ D!Next
      BY <2>1 DEF Drv0
    <3> QED BY <3>1, DFirmwareKeeps, DUseKeeps, DPlayKeeps DEF D!Next
  <2>2. CASE UNCHANGED all
    BY <2>2 DEF all, dOnly, DInv, DTypeOK, Visited
  <2> QED BY <2>1, <2>2 DEF Next, Startup, Graphics, Tools
<1> QED BY <1>1, <1>2, PTL DEF Spec

\* Whoever asks for the protocol of drv0 finds a resident instance behind each
\* handle, and hears from it how often that one was asked, for any number of
\* instances that come and go (drv0.c, drv0_use.c).
THEOREM DriversAnswerHolds == Spec => []DriversAnswer
<1>1. (turn = "drv0" => DInv) => DriversAnswer
  BY DElements DEF DriversAnswer, D!DriversAnswer, DInv
<1> QED BY <1>1, DInvariant, PTL

-----------------------------------------------------------------------------
(* The tools. *)

\* A set of numbers has a least one: induction without a predicate parameter.
LEMMA Least ==
  ASSUME NEW W \in SUBSET Nat, W # {}
  PROVE  \E x \in W: \A y \in W: x <= y
<1>1. PICK x \in W: \A y \in W: ~(<<y, x>> \in OpToRel(<, Nat))
  BY NatLessThanWellFounded, WFMin
<1>2. \A y \in W: ~(y < x)
  BY <1>1 DEF OpToRel
<1>3. x \in Nat
  BY <1>1
<1>4. ASSUME NEW y \in W PROVE x <= y
  <2>1. y \in Nat /\ ~(y < x)
    BY <1>2
  <2> QED BY <1>3, <2>1
<1> QED BY <1>1, <1>4

\* GRUB_ENV is a name like all others, which the provers have to be told.
Names == STRING \union {"GRUB_ENV"}
Store == Seq([name: Names, length: Nat])

LEMMA StoreElements ==
  ASSUME store \in Store
  PROVE  /\ Len(store) \in Nat /\ DOMAIN store = 1..Len(store)
         /\ \A k \in 1..Len(store): store[k].length \in Nat /\ store[k].name \in Names
<1> DEFINE Variable == [name: Names, length: Nat]
<1>1. store \in Seq(Variable)
  BY DEF Store
<1>2. \A k \in 1..Len(store): store[k] \in Variable
  <2> HIDE DEF Variable
  <2> QED BY <1>1, ElementOfSeq
<1>3. Len(store) \in Nat /\ DOMAIN store = 1..Len(store)
  <2> HIDE DEF Variable
  <2> QED BY <1>1, LenProperties
<1> QED BY <1>2, <1>3

\* Where the first name stands that is too long for printenv's buffer; 0 if
\* all fit.
FirstLong == T!SelectInSeq(store, LAMBDA v: v.length > NameBytes)

LEMMA FirstLongIs ==
  ASSUME store \in Store
  PROVE  /\ FirstLong = 0 => \A k \in 1..Len(store): store[k].length <= NameBytes
         /\ FirstLong # 0 => /\ FirstLong \in 1..Len(store) /\ store[FirstLong].length > NameBytes
                             /\ \A k \in 1..(FirstLong - 1): store[k].length <= NameBytes
<1> DEFINE W == {k \in 1..Len(store): store[k].length > NameBytes}
<1>1. Len(store) \in Nat /\ \A k \in 1..Len(store): store[k].length \in Nat
  BY StoreElements
<1>2. FirstLong = IF W # {} THEN CHOOSE x \in W: \A y \in W: x =< y ELSE 0
  BY DEF FirstLong, T!SelectInSeq, T!Min
<1>3. W \in SUBSET Nat
  BY <1>1
<1>4. CASE W = {}
  BY <1>1, <1>2, <1>4, ToolsAssumption
<1>5. CASE W # {}
  <2>1. \E x \in W: \A y \in W: x <= y
    BY <1>3, <1>5, Least
  <2>2. FirstLong \in W /\ \A y \in W: FirstLong <= y
    <3> HIDE DEF W
    <3> QED BY <1>2, <1>5, <2>1
  <2> QED BY <1>1, <2>2, ToolsAssumption
<1> QED BY <1>4, <1>5

Bus == Seq([id: STRING, opens: BOOLEAN, reads: BOOLEAN, rcba: Nat])

\* printenv has shown the variables up to where it is, all with names that
\* fit; it ends behind the last one or before one that does not.
PrintenvInv ==
  tool.name = "printenv" =>
    /\ tool \in [name: {"printenv"}, pc: {"next", "end"}, at: Nat, size: Nat,
                 shown: Seq(Names \X {"value", "NULL"})]
    /\ tool.at <= Len(store) /\ Len(tool.shown) = tool.at
    /\ \A k \in 1..tool.at: tool.shown[k][1] = store[k].name /\ store[k].length <= NameBytes
    /\ tool.pc = "end" => tool.at = Len(store) \/ store[tool.at + 1].length > NameBytes

\* debughook counts its pauses, for a variable that is there.
HookInv ==
  tool.name = "debughook" =>
    /\ {"name", "x", "pc"} \subseteq DOMAIN tool /\ tool.x \in Nat
    /\ tool.pc = "pause" => T!Position("DUMMY_DEBUG") # 0 /\ tool.x <= PauseLimit

\* setjmp returns 0, then 3, then 1.
Jumped(place, value, before) == [name |-> "setjmp", pc |-> place, rc |-> value, returns |-> before]
SetjmpInv ==
  tool.name = "setjmp" =>
    tool \in {Jumped("returned", 0, <<>>), Jumped("returned", 3, <<0>>),
              Jumped("returned", 1, <<0, 3>>), Jumped("end", 1, <<0, 3>>)}

TInv ==
  /\ memory \in [0..(Pages - 1) -> Int] /\ store \in Store /\ bus \in Bus
  /\ PrintenvInv /\ HookInv /\ SetjmpInv
  /\ T!PagesAsAsked /\ T!OneBitRouted

LEMMA TInitOK == T!Init => TInv
<1> SUFFICES ASSUME T!Init PROVE TInv
  OBVIOUS
<1>1. memory = [p \in 0..(Pages - 1) |-> -1] /\ tool = [name |-> "none", pc |-> "end"]
  BY DEF T!Init, T!NoTool, T!Free
<1>2. store \in Store /\ bus \in Bus
  <2>1. store \in Seq([name: STRING, length: Nat]) /\ bus \in Bus
    BY ToolsAssumption DEF T!Init, Bus
  <2>2. [name: STRING, length: Nat] \subseteq [name: Names, length: Nat]
    BY DEF Names
  <2>3. ASSUME NEW A, NEW B, A \subseteq B, NEW s \in Seq(A) PROVE s \in Seq(B)
    <3>1. Len(s) \in Nat /\ s \in [1..Len(s) -> A]
      BY <2>3, LenProperties
    <3> QED BY <2>3, <3>1
  <2> QED BY <2>1, <2>2, <2>3 DEF Store
<1>3. memory \in [0..(Pages - 1) -> Int]
  BY <1>1
<1> QED BY <1>1, <1>2, <1>3 DEF TInv, PrintenvInv, HookInv, SetjmpInv, T!PagesAsAsked, T!OneBitRouted

\* The other tools' invariants say nothing of a tool with another name.
LEMMA TOther ==
  ASSUME TInv, store' = store \/ store' \in Store, bus' = bus, memory' \in [0..(Pages - 1) -> Int],
         T!PagesAsAsked', T!OneBitRouted',
         tool'.name \notin {"printenv", "debughook", "setjmp"}
  PROVE  TInv'
BY DEF TInv, PrintenvInv, HookInv, SetjmpInv

\* AllocatePages: the pages that change are the ones that were found.
LEMMA AllocPagesKeeps == ASSUME TInv, NEW argv \in Arguments, T!AllocPages(argv) PROVE TInv'
<1> DEFINE addr == IF Len(argv) = 4 THEN argv[4] ELSE 0
           Result(status) == tool' = [name |-> "AllocPages", pc |-> "end", argv |-> argv, status |-> status, before |-> memory]
<1>1. memory \in [0..(Pages - 1) -> Int] /\ store \in Store /\ UNCHANGED <<store, bus, gcs>>
  BY DEF TInv, T!AllocPages
<1>2. argv \in Seq(Int) /\ Len(argv) \in Nat
  BY ToolsAssumption, LenProperties
<1>3. ASSUME NEW status, Result(status), UNCHANGED memory PROVE TInv'
  <2>1. T!PagesAsAsked' /\ T!OneBitRouted'
    BY <1>3 DEF T!PagesAsAsked, T!OneBitRouted
  <2> QED BY <1>1, <1>3, <2>1, TOther
<1>4. ASSUME Len(argv) \in 3..4, T!AllocPagesValid(argv), Result("EFI_SUCCESS"),
             NEW f \in T!Places(argv[1], argv[3], addr),
             memory' = [p \in DOMAIN memory |-> IF p \in T!Run(f, argv[3]) THEN argv[2] ELSE memory[p]]
      PROVE  TInv'
  <2>1. /\ argv[1] \in Int /\ argv[2] \in 0..13 /\ argv[3] \in Int
    BY <1>2, <1>4, ElementOfSeq DEF T!AllocPagesValid
  <2>2. /\ f \in 0..(Pages - 1)
        /\ \A p \in T!Run(f, argv[3]): p \in DOMAIN memory /\ memory[p] = -1
        /\ argv[1] = 1 => f + argv[3] - 1 <= addr
        /\ argv[1] = 2 => f = addr
    BY <1>4 DEF T!Places, T!Free
  <2>3. memory' \in [0..(Pages - 1) -> Int] /\ DOMAIN memory' = DOMAIN memory
    BY <1>1, <1>4, <2>1
  <2>4. {p \in DOMAIN memory': memory'[p] # memory[p]} = T!Run(f, argv[3])
    BY <1>1, <1>4, <2>1, <2>2
  <2>5. T!PagesAsAsked'
    <3>1. /\ tool'.name = "AllocPages" /\ tool'.before = memory /\ tool'.argv = argv /\ tool'.status = "EFI_SUCCESS"
      BY <1>4
    <3>2. \A p \in T!Run(f, argv[3]): memory[p] = T!Free /\ memory'[p] = argv[2]
      BY <1>4, <2>2 DEF T!Free
    <3> QED BY <1>1, <2>2, <2>3, <2>4, <3>1, <3>2 DEF T!PagesAsAsked, T!Run
  <2>6. T!OneBitRouted'
    BY <1>4 DEF T!OneBitRouted
  <2> QED BY <1>1, <1>4, <2>3, <2>5, <2>6, TOther
<1> QED BY <1>3, <1>4 DEF T!AllocPages

\* FreePages: the pages that change are the ones named, and none of them was
\* free.
LEMMA FreePagesKeeps == ASSUME TInv, NEW argv \in Arguments, T!FreePages(argv) PROVE TInv'
<1> DEFINE Result(status) == tool' = [name |-> "FreePages", pc |-> "end", argv |-> argv, status |-> status, before |-> memory]
<1>1. memory \in [0..(Pages - 1) -> Int] /\ store \in Store /\ UNCHANGED <<store, bus, gcs>>
  BY DEF TInv, T!FreePages
<1>2. argv \in Seq(Int) /\ Len(argv) \in Nat
  BY ToolsAssumption, LenProperties
<1>3. ASSUME NEW status, Result(status), UNCHANGED memory PROVE TInv'
  <2>1. T!PagesAsAsked' /\ T!OneBitRouted'
    BY <1>3 DEF T!PagesAsAsked, T!OneBitRouted
  <2> QED BY <1>1, <1>3, <2>1, TOther
<1>4. ASSUME Len(argv) = 2, Result("EFI_SUCCESS"), T!Taken(argv[1], argv[2]),
             memory' = [p \in DOMAIN memory |-> IF p \in T!Run(argv[1], argv[2]) THEN T!Free ELSE memory[p]]
      PROVE  TInv'
  <2>1. argv[1] \in Int /\ argv[2] \in Int
    BY <1>2, <1>4, ElementOfSeq
  <2>2. argv[2] > 0 /\ \A p \in T!Run(argv[1], argv[2]): p \in DOMAIN memory /\ memory[p] # T!Free
    BY <1>4 DEF T!Taken
  <2>3. memory' \in [0..(Pages - 1) -> Int] /\ DOMAIN memory' = DOMAIN memory
    BY <1>1, <1>4 DEF T!Free
  <2>4. {p \in DOMAIN memory': memory'[p] # memory[p]} = T!Run(argv[1], argv[2])
    BY <1>1, <1>4, <2>2
  <2>5. argv[1] \in DOMAIN memory'
    BY <2>1, <2>2, <2>3 DEF T!Run
  <2>6. T!PagesAsAsked'
    <3>1. tool'.name = "FreePages" /\ tool'.before = memory /\ tool'.argv = argv /\ tool'.status = "EFI_SUCCESS"
      BY <1>4
    <3>2. \A p \in T!Run(argv[1], argv[2]): memory'[p] = T!Free
      BY <1>4, <2>2
    <3> QED BY <2>4, <2>5, <3>1, <3>2 DEF T!PagesAsAsked, T!Run
  <2>7. T!OneBitRouted'
    BY <1>4 DEF T!OneBitRouted
  <2> QED BY <1>1, <1>4, <2>3, <2>6, <2>7, TOther
<1> QED BY <1>3, <1>4 DEF T!FreePages

\* Where a variable is in the store, 0 if it is not.
LEMMA PositionIn == ASSUME store \in Store, NEW name PROVE T!Position(name) \in 0..Len(store)
<1> DEFINE W == {k \in 1..Len(store): store[k].name = name}
           place == T!Position(name)
<1>1. Len(store) \in Nat
  BY StoreElements
<1>2. place = IF W # {} THEN CHOOSE x \in W: \A y \in W: x =< y ELSE 0
  BY DEF T!Position, T!SelectInSeq, T!Min
<1>3. W \in SUBSET Nat
  BY <1>1
<1>4. W # {} => \E x \in W: \A y \in W: x <= y
  <2> HIDE DEF W
  <2> QED BY <1>3, Least
<1>5. W \subseteq 1..Len(store)
  OBVIOUS
<1> HIDE DEF W, place
<1>6. place \in 0..Len(store)
  <2>1. CASE W = {}
    BY <1>1, <1>2, <2>1
  <2>2. CASE W # {}
    <3>1. place \in W
      BY <1>2, <1>4, <2>2
    <3> QED BY <1>1, <1>5, <3>1
  <2> QED BY <2>1, <2>2
<1> QED BY <1>6 DEF place

LEMMA VariablesKeep == ASSUME TInv, T!setdbg \/ T!unsetdbg PROVE TInv'
<1> DEFINE Variable == [name: Names, length: Nat]
<1>1. store \in Seq(Variable) /\ memory \in [0..(Pages - 1) -> Int]
  BY DEF TInv, Store
<1>2. [name |-> "GRUB_ENV", length |-> NameBytes] \in Variable
  <2>1. NameBytes \in Nat
    BY ToolsAssumption
  <2> QED BY <2>1 DEF Names
<1>3. store' \in Seq(Variable)
  <2>1. CASE T!setdbg
    <3> HIDE DEF Variable
    <3> QED BY <1>1, <1>2, <2>1, AppendProperties DEF T!setdbg
  <2>2. CASE T!unsetdbg
    <3> DEFINE k == T!Position("SHIM_DEBUG")
    <3> HIDE DEF Variable, k
    <3>1. store' \in {store, IF k = 0 THEN store ELSE SubSeq(store, 1, k - 1) \o SubSeq(store, k + 1, Len(store))}
      BY <2>2 DEF T!unsetdbg, T!RemoveAt, k
    <3>2. k \in 0..Len(store)
      BY PositionIn DEF TInv, k
    <3>3. Len(store) \in Nat
      BY <1>1, LenProperties
    <3>4. ASSUME k # 0 PROVE SubSeq(store, 1, k - 1) \in Seq(Variable) /\ SubSeq(store, k + 1, Len(store)) \in Seq(Variable)
      BY <1>1, <3>2, <3>3, <3>4, SubSeqProperties
    <3>5. ASSUME k # 0 PROVE SubSeq(store, 1, k - 1) \o SubSeq(store, k + 1, Len(store)) \in Seq(Variable)
      BY <3>4, <3>5, ConcatProperties
    <3> QED BY <1>1, <3>1, <3>5
  <2> QED BY <2>1, <2>2
<1>4. /\ UNCHANGED <<memory, bus>>
      /\ tool' = [name |-> "setdbg", pc |-> "end"] \/ tool' = [name |-> "unsetdbg", pc |-> "end"]
  BY DEF T!setdbg, T!unsetdbg
<1>5. T!PagesAsAsked' /\ T!OneBitRouted'
  BY <1>4 DEF T!PagesAsAsked, T!OneBitRouted
<1> QED BY <1>1, <1>3, <1>4, <1>5, TOther DEF Store

\* find_pci_device answers with a device of the bus that has the id.
LEMMA DeviceFound ==
  ASSUME bus \in Bus, NEW id
  PROVE  T!find_pci_device(id)[1] = "EFI_SUCCESS" =>
           \E k \in DOMAIN bus: T!find_pci_device(id)[2] = bus[k] /\ bus[k].id = id
<1> DEFINE W == {k \in 1..Len(bus): bus[k].opens /\ T!is_device(bus[k], id)}
           at0 == T!SelectInSeq(bus, LAMBDA d: d.opens /\ T!is_device(d, id))
<1>1. Len(bus) \in Nat /\ DOMAIN bus = 1..Len(bus)
  BY LenProperties DEF Bus
<1>2. at0 = IF W # {} THEN CHOOSE x \in W: \A y \in W: x =< y ELSE 0
  BY DEF T!SelectInSeq, T!Min
<1>3. CASE W = {}
  BY <1>2, <1>3 DEF T!find_pci_device
<1>4. CASE W # {}
  <2>1. W \in SUBSET Nat
    BY <1>1
  <2>2. at0 \in W
    <3> HIDE DEF W, at0
    <3>1. \E x \in W: \A y \in W: x <= y
      BY <1>4, <2>1, Least
    <3> QED BY <1>2, <1>4, <3>1
  <2>3. at0 \in DOMAIN bus /\ bus[at0].id = id /\ at0 # 0
    <3> HIDE DEF at0
    <3> QED BY <1>1, <2>2 DEF T!is_device
  <2>4. T!find_pci_device(id) = <<"EFI_SUCCESS", bus[at0]>>
    BY <2>3 DEF T!find_pci_device
  <2> HIDE DEF at0
  <2> QED BY <2>3, <2>4
<1> QED BY <1>3, <1>4

LEMMA RouteKeeps == ASSUME TInv, T!route80h PROVE TInv'
<1> DEFINE found == T!find_pci_device(T!Lpcif[Len(T!Lpcif)])
<1>1. memory \in [0..(Pages - 1) -> Int] /\ bus \in Bus /\ UNCHANGED <<memory, store, bus>>
  BY DEF TInv, T!route80h
<1>2. T!Lpcif[Len(T!Lpcif)] \in T!Range(T!Lpcif)
  BY DEF T!Lpcif, T!Range
<1>3. tool'.name = "route80h" /\ tool'.before = gcs
  BY DEF T!route80h
<1>4. T!OneBitRouted'
  <2>1. CASE tool'.status # "EFI_SUCCESS"
    BY <1>3, <2>1 DEF T!route80h, T!OneBitRouted
  <2>2. CASE tool'.status = "EFI_SUCCESS"
    <3>1. /\ found[1] = "EFI_SUCCESS" /\ found[2].rcba # 0
          /\ gcs' = [gcs EXCEPT ![found[2].rcba] = @ \union {T!RPR}]
      BY <2>2 DEF T!route80h, T!set_bit
    <3> HIDE DEF found
    <3>2. PICK k \in DOMAIN bus: found[2] = bus[k] /\ bus[k].id \in T!Range(T!Lpcif)
      BY <1>1, <1>2, <3>1, DeviceFound DEF found
    <3>3. /\ k \in DOMAIN bus' /\ bus'[k].id \in T!Range(T!Lpcif) /\ bus'[k].rcba # 0
          /\ gcs' = [tool'.before EXCEPT ![bus'[k].rcba] = @ \union {T!RPR}]
      BY <1>1, <1>3, <3>1, <3>2
    <3> QED BY <1>3, <2>2, <3>3 DEF T!OneBitRouted
  <2> QED BY <2>1, <2>2
<1>5. T!PagesAsAsked'
  BY <1>3 DEF T!PagesAsAsked
<1> QED BY <1>1, <1>3, <1>4, <1>5, TOther

\* A step that changes the tool alone, and that is none of the tools with a
\* result about pages or the register.
LEMMA TToolAlone ==
  ASSUME TInv, UNCHANGED <<memory, store, bus, gcs>>, PrintenvInv', HookInv', SetjmpInv',
         tool'.name \notin {"AllocPages", "FreePages", "route80h"}
  PROVE  TInv'
<1>1. T!PagesAsAsked' /\ T!OneBitRouted'
  BY DEF T!PagesAsAsked, T!OneBitRouted
<1> QED BY <1>1 DEF TInv

LEMMA PrintenvKeeps == ASSUME TInv, T!printenv PROVE TInv'
<1>1. /\ tool' = [name |-> "printenv", pc |-> "next", at |-> 0, size |-> NameBytes, shown |-> <<>>]
      /\ UNCHANGED <<memory, store, bus, gcs>> /\ Len(store) \in Nat
  BY StoreElements DEF T!printenv, TInv
<1>2. NameBytes \in Nat
  BY ToolsAssumption
<1>3. PrintenvInv'
  BY <1>1, <1>2 DEF PrintenvInv
<1>4. HookInv' /\ SetjmpInv'
  BY <1>1 DEF HookInv, SetjmpInv
<1> QED BY <1>1, <1>3, <1>4, TToolAlone

LEMMA PrintNextKeeps == ASSUME TInv, T!PrintNext PROVE TInv'
<1> DEFINE Shown == Names \X {"value", "NULL"}
           k == tool.at + 1
<1>1. /\ tool \in [name: {"printenv"}, pc: {"next", "end"}, at: Nat, size: Nat, shown: Seq(Shown)]
      /\ tool.at <= Len(store) /\ Len(tool.shown) = tool.at
      /\ \A j \in 1..tool.at: tool.shown[j][1] = store[j].name /\ store[j].length <= NameBytes
      /\ UNCHANGED <<memory, store, bus, gcs>>
  BY DEF T!PrintNext, TInv, PrintenvInv
<1>2. /\ Len(store) \in Nat /\ NameBytes \in Nat
      /\ \A j \in 1..Len(store): store[j].length \in Nat /\ store[j].name \in Names
  BY StoreElements, ToolsAssumption DEF TInv
<1>3. tool.at \in Nat /\ tool.shown \in Seq(Shown)
  <2> HIDE DEF Shown
  <2> QED BY <1>1
<1>4. CASE k > Len(store) \/ (k <= Len(store) /\ store[k].length > NameBytes)
  <2>1. tool' = [tool EXCEPT !.pc = "end"]
    BY <1>4 DEF T!PrintNext
  <2>2. tool.at = Len(store) \/ store[tool.at + 1].length > NameBytes
    BY <1>1, <1>2, <1>3, <1>4
  <2>3. /\ tool' \in [name: {"printenv"}, pc: {"next", "end"}, at: Nat, size: Nat, shown: Seq(Shown)]
        /\ tool'.name = "printenv" /\ tool'.at = tool.at /\ tool'.shown = tool.shown
    <3> HIDE DEF Shown, k
    <3> QED BY <1>1, <2>1
  <2>4. PrintenvInv' /\ HookInv' /\ SetjmpInv'
    <3>1. HookInv' /\ SetjmpInv'
      BY <2>3 DEF HookInv, SetjmpInv
    <3> QED BY <1>1, <2>2, <2>3, <3>1 DEF PrintenvInv
  <2> QED BY <1>1, <2>3, <2>4, TToolAlone
<1>5. CASE ~(k > Len(store) \/ (k <= Len(store) /\ store[k].length > NameBytes))
  <2>1. k \in 1..Len(store) /\ store[k].length <= NameBytes /\ store[k].length \in Nat /\ store[k].name \in Names
    BY <1>1, <1>2, <1>3, <1>5
  <2>2. PICK value \in {"value", "NULL"}:
          tool' = [tool EXCEPT !.at = k, !.size = store[k].length, !.shown = Append(@, <<store[k].name, value>>)]
    BY <1>5 DEF T!PrintNext
  <2>3. <<store[k].name, value>> \in Shown
    BY <2>1
  <2>4. /\ tool'.name = "printenv" /\ tool'.pc = "next" /\ tool'.at = k /\ tool'.size = store[k].length
        /\ tool'.shown = Append(tool.shown, <<store[k].name, value>>)
        /\ DOMAIN tool' = DOMAIN tool
    <3>1. tool.pc = "next"
      BY DEF T!PrintNext
    <3> HIDE DEF Shown, k
    <3> QED BY <1>1, <2>2, <3>1
  <2>5. /\ tool'.shown \in Seq(Shown) /\ Len(tool'.shown) = k
        /\ \A j \in 1..tool.at: tool'.shown[j] = tool.shown[j]
        /\ tool'.shown[k] = <<store[k].name, value>>
    <3> HIDE DEF Shown
    <3> QED BY <1>1, <1>3, <2>3, <2>4, AppendProperties
  <2>6. \A j \in 1..k: tool'.shown[j][1] = store[j].name /\ store[j].length <= NameBytes
    <3> SUFFICES ASSUME NEW j \in 1..k PROVE tool'.shown[j][1] = store[j].name /\ store[j].length <= NameBytes
      OBVIOUS
    <3>1. CASE j = k
      <4> HIDE DEF k
      <4> QED BY <2>1, <2>5, <3>1
    <3>2. CASE j # k
      <4>1. j \in 1..tool.at
        BY <1>3, <3>2
      <4> QED BY <1>1, <2>5, <4>1
    <3> QED BY <3>1, <3>2
  <2>7. tool' \in [name: {"printenv"}, pc: {"next", "end"}, at: Nat, size: Nat, shown: Seq(Shown)]
    <3>1. k \in Nat /\ store[k].length \in Nat
      BY <1>3, <2>1
    <3> HIDE DEF Shown, k
    <3> QED BY <1>1, <2>2, <2>4, <2>5, <3>1
  <2>8. k <= Len(store)
    BY <1>2, <2>1
  <2>9. HookInv' /\ SetjmpInv' /\ tool'.name = "printenv"
    BY <2>4 DEF HookInv, SetjmpInv
  <2>10. PrintenvInv'
    <3> HIDE DEF k
    <3> QED BY <1>1, <2>4, <2>5, <2>6, <2>7, <2>8 DEF PrintenvInv
  <2> QED BY <1>1, <2>9, <2>10, TToolAlone
<1> QED BY <1>4, <1>5

LEMMA PositionKept ==
  ASSUME UNCHANGED store PROVE T!Position("DUMMY_DEBUG")' = T!Position("DUMMY_DEBUG")
BY DEF T!Position, T!SelectInSeq, T!Min

LEMMA HookKeeps == ASSUME TInv, T!GetVariableAttr \/ T!DebugHook PROVE TInv'
<1>1. UNCHANGED <<memory, store, bus, gcs>>
  BY DEF T!GetVariableAttr, T!DebugHook
<1>2. T!Position("DUMMY_DEBUG")' = T!Position("DUMMY_DEBUG") /\ PauseLimit \in Nat \ {0}
  BY <1>1, PositionKept, ToolsAssumption
<1>3. tool'.name = "debughook" /\ HookInv'
  <2>1. CASE T!GetVariableAttr
    BY <1>2, <2>1 DEF T!GetVariableAttr, HookInv
  <2>2. CASE T!DebugHook
    <3>1. /\ {"name", "x", "pc"} \subseteq DOMAIN tool /\ tool.x \in Nat
          /\ T!Position("DUMMY_DEBUG") # 0
          /\ tool' = IF tool.x + 1 > PauseLimit THEN [tool EXCEPT !.x = 1, !.pc = "end"] ELSE [tool EXCEPT !.x = @ + 1]
      BY <2>2 DEF T!DebugHook, TInv, HookInv
    <3>2. tool.x \in Nat /\ tool.name = "debughook"
      BY <2>2, <3>1 DEF T!DebugHook
    <3>3. CASE tool.x + 1 > PauseLimit
      <4>1. tool' = [tool EXCEPT !.x = 1, !.pc = "end"]
        BY <3>1, <3>3
      <4>2. DOMAIN tool' = DOMAIN tool /\ tool'.name = "debughook" /\ tool'.x = 1 /\ tool'.pc = "end"
        BY <3>1, <3>2, <4>1
      <4> QED BY <3>1, <4>2 DEF HookInv
    <3>4. CASE ~(tool.x + 1 > PauseLimit)
      <4>1. tool' = [tool EXCEPT !.x = tool.x + 1]
        BY <3>1, <3>4
      <4>2. tool'.x = tool.x + 1 /\ tool'.name = "debughook"
            /\ DOMAIN tool' = DOMAIN tool
        BY <3>1, <3>2, <4>1
      <4>3. tool'.x <= PauseLimit
        BY <1>2, <3>2, <3>4, <4>2
      <4> QED BY <1>2, <3>1, <4>2, <4>3 DEF HookInv
    <3> QED BY <3>3, <3>4
  <2> QED BY <2>1, <2>2
<1>4. PrintenvInv' /\ SetjmpInv'
  BY <1>3 DEF PrintenvInv, SetjmpInv
<1> QED BY <1>1, <1>3, <1>4, TToolAlone

LEMMA SetjmpKeeps == ASSUME TInv, T!SetjmpStart \/ T!SetjmpReturned PROVE TInv'
<1>1. UNCHANGED <<memory, store, bus, gcs>>
  BY DEF T!SetjmpStart, T!SetjmpReturned
<1>2. tool'.name = "setjmp" /\ SetjmpInv'
  <2>1. CASE T!SetjmpStart
    BY <2>1 DEF T!SetjmpStart, SetjmpInv, Jumped
  <2>2. CASE T!SetjmpReturned
    <3>1. tool \in {Jumped("returned", 0, <<>>), Jumped("returned", 3, <<0>>), Jumped("returned", 1, <<0, 3>>)}
      BY <2>2 DEF T!SetjmpReturned, TInv, SetjmpInv, Jumped
    <3>2. CASE tool = Jumped("returned", 0, <<>>)
      <4>1. Append(<<>>, 0) = <<0>>
        OBVIOUS
      <4>2. tool.rc = 0 /\ tool.returns = <<>>
        BY <3>2 DEF Jumped
      <4>3. tool' = [tool EXCEPT !.rc = 3, !.returns = <<0>>]
        BY <2>2, <4>1, <4>2 DEF T!SetjmpReturned, T!longjmp
      <4>4. tool' = Jumped("returned", 3, <<0>>)
        BY <3>2, <4>3 DEF Jumped
      <4> QED BY <4>4 DEF SetjmpInv, Jumped
    <3>3. CASE tool = Jumped("returned", 3, <<0>>)
      <4>1. Append(<<0>>, 3) = <<0, 3>>
        <5>1. <<0>> \in Seq(Nat) /\ Len(<<0>>) = 1 /\ <<0>>[1] = 0
          OBVIOUS
        <5>2. ASSUME NEW s \in Seq(Nat), Len(s) = 1, s[1] = 0 PROVE Append(s, 3) = <<0, 3>>
          <6> DEFINE t == Append(s, 3)
          <6>1. t \in Seq(Nat) /\ Len(t) = 2 /\ t[1] = 0 /\ t[2] = 3
            <7>1. /\ t \in Seq(Nat) /\ Len(t) = Len(s) + 1
                  /\ \A k \in 1..Len(s): t[k] = s[k]
                  /\ t[Len(s) + 1] = 3
              BY AppendProperties
            <7> HIDE DEF t
            <7> QED BY <5>2, <7>1
          <6> HIDE DEF t
          <6>2. t = <<0, 3>>
            BY <6>1
          <6> QED BY <6>2 DEF t
        <5> QED BY <5>1, <5>2
      <4>2. tool.rc = 3 /\ tool.returns = <<0>>
        BY <3>3 DEF Jumped
      <4>3. tool' = [tool EXCEPT !.rc = 1, !.returns = <<0, 3>>]
        <5>1. tool' = [tool EXCEPT !.rc = 1, !.returns = Append(tool.returns, tool.rc)]
          BY <2>2, <4>2 DEF T!SetjmpReturned, T!longjmp
        <5> QED BY <4>1, <4>2, <5>1
      <4>4. tool' = Jumped("returned", 1, <<0, 3>>)
        BY <3>3, <4>3 DEF Jumped
      <4> QED BY <4>4 DEF SetjmpInv, Jumped
    <3>4. CASE tool = Jumped("returned", 1, <<0, 3>>)
      <4>1. tool' = Jumped("end", 1, <<0, 3>>)
        BY <2>2, <3>4 DEF T!SetjmpReturned, Jumped
      <4> QED BY <4>1 DEF SetjmpInv, Jumped
    <3> QED BY <3>1, <3>2, <3>3, <3>4
  <2> QED BY <2>1, <2>2
<1>3. PrintenvInv' /\ HookInv'
  BY <1>2 DEF PrintenvInv, HookInv
<1> QED BY <1>1, <1>2, <1>3, TToolAlone

\* The invariant of the tools, in the composition.
LEMMA TInvariant == Spec => [](turn = "tools" => TInv)
<1> DEFINE I == turn = "tools" => TInv
<1>1. Init => I
  BY TInitOK DEF Init
<1>2. I /\ [Next]_all => I'
  <2> SUFFICES ASSUME I, [Next]_all, turn' = "tools" PROVE TInv'
    OBVIOUS
  <2>1. CASE Tools
    <3>1. TInv /\ T!Next
      BY <2>1 DEF Tools
    <3> QED BY <3>1, AllocPagesKeeps, FreePagesKeeps, VariablesKeep, RouteKeeps, PrintenvKeeps, PrintNextKeeps,
               HookKeeps, SetjmpKeeps DEF T!Next, T!Begin, T!Step
  <2>2. CASE UNCHANGED all
    <3>1. UNCHANGED <<memory, store, bus, gcs, tool>> /\ turn = "tools"
      BY <2>2 DEF all, tVars
    <3>2. T!Position("DUMMY_DEBUG")' = T!Position("DUMMY_DEBUG")
      BY <3>1, PositionKept
    <3>3. PrintenvInv' /\ HookInv' /\ SetjmpInv'
      BY <3>1, <3>2 DEF TInv, PrintenvInv, HookInv, SetjmpInv
    <3>4. T!PagesAsAsked' /\ T!OneBitRouted'
      BY <3>1 DEF TInv, T!PagesAsAsked, T!OneBitRouted, T!Ended
    <3> QED BY <3>1, <3>3, <3>4 DEF TInv
  <2> QED BY <2>1, <2>2 DEF Next, Startup, Graphics, Drv0
<1> QED BY <1>1, <1>2, PTL DEF Spec

LEMMA ListedUpToLong == ASSUME TInv PROVE T!ListsAndReturns
<1>1. ASSUME T!Ended, tool.name = "printenv"
      PROVE  LET shown == IF FirstLong = 0 THEN store ELSE SubSeq(store, 1, FirstLong - 1)
             IN [k \in DOMAIN tool.shown |-> tool.shown[k][1]] = [k \in DOMAIN shown |-> shown[k].name]
  <2> DEFINE shown == IF FirstLong = 0 THEN store ELSE SubSeq(store, 1, FirstLong - 1)
             Shown == Names \X {"value", "NULL"}
  <2>1. /\ tool \in [name: {"printenv"}, pc: {"next", "end"}, at: Nat, size: Nat, shown: Seq(Shown)]
        /\ tool.at <= Len(store) /\ Len(tool.shown) = tool.at
        /\ \A k \in 1..tool.at: tool.shown[k][1] = store[k].name /\ store[k].length <= NameBytes
        /\ tool.at = Len(store) \/ store[tool.at + 1].length > NameBytes
    BY <1>1 DEF TInv, PrintenvInv, T!Ended
  <2>2. tool.at \in Nat /\ DOMAIN tool.shown = 1..tool.at
    <3> HIDE DEF Shown
    <3> QED BY <2>1, LenProperties
  <2>3. Len(store) \in Nat /\ DOMAIN store = 1..Len(store) /\ NameBytes \in Nat
        /\ \A k \in 1..Len(store): store[k].length \in Nat
    BY StoreElements, ToolsAssumption DEF TInv
  <2>4. DOMAIN shown = 1..tool.at /\ \A k \in 1..tool.at: shown[k] = store[k]
    <3>1. CASE FirstLong = 0
      <4>1. \A k \in 1..Len(store): store[k].length <= NameBytes
        BY <3>1, FirstLongIs DEF TInv
      <4>2. tool.at = Len(store)
        BY <2>1, <2>2, <2>3, <4>1
      <4> QED BY <2>3, <3>1, <4>2
    <3>2. CASE FirstLong # 0
      <4>1. /\ FirstLong \in 1..Len(store) /\ store[FirstLong].length > NameBytes
            /\ \A k \in 1..(FirstLong - 1): store[k].length <= NameBytes
        BY <3>2, FirstLongIs DEF TInv
      <4>2. tool.at = FirstLong - 1
        <5>1. ~(tool.at >= FirstLong)
          BY <2>1, <2>2, <2>3, <4>1
        <5>2. ~(tool.at < FirstLong - 1)
          BY <2>1, <2>2, <2>3, <4>1
        <5> QED BY <2>2, <4>1, <5>1, <5>2
      <4>3. DOMAIN SubSeq(store, 1, tool.at) = 1..tool.at /\ \A k \in 1..tool.at: SubSeq(store, 1, tool.at)[k] = store[k]
        BY <2>2, <2>3, <2>1
      <4> QED BY <3>2, <4>2, <4>3
    <3> QED BY <3>1, <3>2
  <2> HIDE DEF shown
  <2>5. [k \in DOMAIN tool.shown |-> tool.shown[k][1]] = [k \in DOMAIN shown |-> shown[k].name]
    BY <2>1, <2>2, <2>4
  <2> QED BY <2>5 DEF shown
<1>2. /\ tool.name = "debughook" /\ tool.pc = "pause" => T!Position("DUMMY_DEBUG") # 0 /\ tool.x <= PauseLimit
      /\ T!Ended /\ tool.name = "setjmp" => tool.returns = <<0, 3>> /\ tool.rc = 1
  BY DEF TInv, HookInv, SetjmpInv, T!Ended, Jumped
<1> QED BY <1>1, <1>2 DEF T!ListsAndReturns, FirstLong

\* The tools do what they were asked to with pages, variables, jumps and the
\* chipset's register, whatever the arguments, the variables of the firmware
\* and the devices of the machine, and in whatever order the tools are called
\* (AllocPages.c, FreePages.c, setdbg.c, unsetdbg.c, printenv.c, debughook.c,
\* route80h.c, setjmp.c).
THEOREM ToolsDoWhatTheySayHolds == Spec => []ToolsDoWhatTheySay
<1>1. (turn = "tools" => TInv) => ToolsDoWhatTheySay
  BY ListedUpToLong DEF ToolsDoWhatTheySay, T!ToolsDoWhatTheySay, TInv
<1> QED BY <1>1, TInvariant, PTL

-----------------------------------------------------------------------------
(* The graphics programs: arithmetic first. *)

LEMMA Division ==
  ASSUME NEW b \in Nat \ {0}, NEW n \in Nat
  PROVE  n = b * (n \div b) + (n % b) /\ n % b \in 0..(b - 1) /\ n \div b \in Nat
OBVIOUS

LEMMA DivisionUnique ==
  ASSUME NEW b \in Nat \ {0}, NEW n \in Nat, NEW q \in Nat, NEW r \in 0..(b - 1), n = b * q + r
  PROVE  n \div b = q /\ n % b = r
OBVIOUS

\* The next box begins where the place is a multiple of Box.
LEMMA NextBox ==
  ASSUME NEW n \in Nat
  PROVE  (n + 1) \div Box = IF (n + 1) % Box = 0 THEN (n \div Box) + 1 ELSE n \div Box
<1>1. Box \in Nat \ {0}
  BY GraphicsAssumption
<1> DEFINE q == n \div Box
           r == n % Box
<1>2. n = Box * q + r /\ r \in 0..(Box - 1) /\ q \in Nat
  BY <1>1, Division
<1> HIDE DEF q, r
<1>3. CASE r = Box - 1
  <2>1. n + 1 = Box * (q + 1) + 0
    BY <1>1, <1>2, <1>3
  <2>2. (n + 1) \div Box = q + 1 /\ (n + 1) % Box = 0
    BY <1>1, <1>2, <2>1, DivisionUnique
  <2> QED BY <2>2 DEF q
<1>4. CASE r # Box - 1
  <2>1. n + 1 = Box * q + (r + 1) /\ r + 1 \in 0..(Box - 1) /\ r + 1 # 0
    BY <1>1, <1>2, <1>4
  <2>2. (n + 1) \div Box = q /\ (n + 1) % Box = r + 1
    BY <1>1, <1>2, <2>1, DivisionUnique
  <2> QED BY <2>1, <2>2 DEF q
<1> QED BY <1>3, <1>4

\* fill_boxes, which changes the colour at each box of a row, paints the grid.
Changes(x) == {k \in 1..x: k % Box = 0 /\ k # 0}
LEMMA ColourIsGrid == ASSUME NEW x \in Nat, NEW y \in Nat PROVE G!ColourAt(x, y) = G!Grid(x, y)
<1> DEFINE Turn(f) == [n \in 0..x |-> IF n = 0 THEN G!RowColour(y)
                                      ELSE IF n \in Changes(x) THEN G!Other(f[n - 1]) ELSE f[n - 1]]
           t == CHOOSE f: f = Turn(f)
           g == [n \in 0..x |-> G!Grid(n, y)]
<1>1. G!ColourAt(x, y) = t[x]
  BY DEF G!ColourAt, Changes
<1>2. Box \in Nat \ {0} /\ 0 \div Box = 0 /\ y \div Box \in Nat
  <2>1. Box \in Nat \ {0}
    BY GraphicsAssumption
  <2>2. 0 = Box * 0 + 0 /\ 0 \in 0..(Box - 1)
    BY <2>1
  <2> QED BY <2>1, <2>2, Division, DivisionUnique
<1>3. G!RowColour(y) = G!Grid(0, y)
  BY <1>2 DEF G!RowColour, G!Grid
<1>4. ASSUME NEW n \in 1..x
      PROVE  G!Grid(n, y) = IF n \in Changes(x) THEN G!Other(G!Grid(n - 1, y)) ELSE G!Grid(n - 1, y)
  <2>1. n - 1 \in Nat /\ n = (n - 1) + 1
    OBVIOUS
  <2>2. n \div Box = IF n % Box = 0 THEN ((n - 1) \div Box) + 1 ELSE (n - 1) \div Box
    BY <2>1, NextBox
  <2>3. (n - 1) \div Box \in Nat
    BY <1>2, <2>1, Division
  <2>4. n \in Changes(x) <=> n % Box = 0
    BY DEF Changes
  <2> QED BY <1>2, <2>2, <2>3, <2>4 DEF G!Grid, G!Other, G!Red, G!Green
<1>5. g = Turn(g)
  <2>1. ASSUME NEW n \in 0..x PROVE g[n] = Turn(g)[n]
    <3>1. CASE n = 0
      BY <1>3, <3>1
    <3>2. CASE n # 0
      <4>1. n \in 1..x /\ n - 1 \in 0..x
        BY <3>2
      <4> QED BY <1>4, <4>1
    <3> QED BY <3>1, <3>2
  <2> QED BY <2>1
<1>6. t = Turn(t)
  <2> HIDE DEF g, Turn
  <2> QED BY <1>5
<1>7. \A n \in 0..x: t[n] = g[n]
  <2> DEFINE W == {n \in 0..x: t[n] # g[n]}
  <2> SUFFICES ASSUME W # {} PROVE FALSE
    OBVIOUS
  <2>0. W \in SUBSET Nat
    OBVIOUS
  <2>1. PICK n \in W: \A m \in W: n <= m
    <3> HIDE DEF W
    <3> QED BY <2>0, Least
  <2> HIDE DEF t
  <2>2. CASE n = 0
    BY <1>3, <1>6, <2>1, <2>2
  <2>3. CASE n # 0
    <3>1. n - 1 \in 0..x /\ n - 1 \notin W /\ n \in 1..x
      BY <2>1, <2>3
    <3>2. t[n - 1] = G!Grid(n - 1, y)
      BY <3>1
    <3>3. t[n] = IF n \in Changes(x) THEN G!Other(t[n - 1]) ELSE t[n - 1]
      BY <1>6, <3>1
    <3> QED BY <1>4, <2>1, <3>1, <3>2, <3>3
  <2> QED BY <2>2, <2>3
<1> HIDE DEF t
<1> QED BY <1>1, <1>7

\* A picture of w x h pixels in lines of a UINT32 length.
Layout(w, h, line) == w \in Nat /\ h \in Nat /\ line \in Nat /\ w <= line /\ line < Uint32
Size(line, h) == (4 * line * h) % Uint32

LEMMA UintIs == Uint32 \in Nat \ {0}
BY GraphicsAssumption

LEMMA SmallMod == ASSUME NEW n \in Nat, n < Uint32 PROVE n % Uint32 = n
<1>1. n = Uint32 * 0 + n /\ n \in 0..(Uint32 - 1) /\ Uint32 \in Nat \ {0}
  BY UintIs
<1> QED BY <1>1, DivisionUnique

LEMMA SizeIsUint == ASSUME NEW line \in Nat, NEW h \in Nat PROVE Size(line, h) \in 0..(Uint32 - 1)
<1>1. line * h \in Nat /\ 4 * line * h = 4 * (line * h)
  OBVIOUS
<1>2. 4 * line * h \in Nat
  BY <1>1
<1> QED BY <1>2, UintIs, Division DEF Size

LEMMA Product == ASSUME NEW a \in Nat, NEW b \in Nat PROVE a * b \in Nat
OBVIOUS

\* A buffer whose size fits UINT32 holds every pixel.
LEMMA InsideIfItFits ==
  ASSUME NEW w, NEW h, NEW line, Layout(w, h, line), 4 * line * h < Uint32,
         NEW x \in 0..(w - 1), NEW y \in 0..(h - 1)
  PROVE  (y * line + x) % Uint32 < Size(line, h) \div 4
<1>1. w \in Nat /\ h \in Nat /\ line \in Nat /\ w <= line /\ x \in Nat /\ y \in Nat /\ Uint32 \in Nat
  BY UintIs DEF Layout
<1> DEFINE a == y * line
           c == line * h
<1>2. a \in Nat /\ c \in Nat /\ 4 * line * h = 4 * c
  BY <1>1, Product
<1>3. a + line <= c
  <2>1. (y + 1) * line <= h * line
    BY <1>1
  <2> QED BY <1>1, <2>1
<1> HIDE DEF a, c
<1>4. a + x < c
  BY <1>1, <1>2, <1>3
<1>5. Size(line, h) = 4 * c /\ 4 * c \in Nat /\ 4 * c < Uint32
  BY <1>1, <1>2, SmallMod DEF Size
<1>6. Size(line, h) \div 4 = c
  BY <1>2, <1>5
<1>7. (a + x) % Uint32 = a + x
  BY <1>1, <1>2, <1>4, <1>5, SmallMod
<1> QED BY <1>4, <1>6, <1>7 DEF a

\* If no pixel is written behind the end of the buffer, then no index has
\* wrapped around: the first pixel of the second line is inside, so a line is
\* short, and no line that begins inside can pass the largest UINT32.
LEMMA InsideDoesNotWrap ==
  ASSUME NEW w, NEW h, NEW line, Layout(w, h, line),
         \A u \in 0..(w - 1), v \in 0..(h - 1): (v * line + u) % Uint32 < Size(line, h) \div 4,
         NEW x \in 0..(w - 1), NEW y \in 0..(h - 1)
  PROVE  y * line + x < Uint32
<1>1. /\ w \in Nat /\ h \in Nat /\ line \in Nat /\ w <= line /\ line < Uint32
      /\ x \in Nat /\ y \in Nat /\ Uint32 \in Nat \ {0}
  BY UintIs DEF Layout
<1> DEFINE s == Size(line, h) \div 4
<1>2. s \in Nat /\ 4 * s < Uint32
  <2>1. line * h \in Nat /\ 4 * line * h = 4 * (line * h)
    BY <1>1, Product
  <2>2. 4 * line * h \in Nat
    BY <2>1
  <2>3. Size(line, h) \in 0..(Uint32 - 1)
    BY <1>1, <2>2, Division DEF Size
  <2> HIDE DEF Size
  <2> QED BY <1>1, <2>3
<1> HIDE DEF s
<1> DEFINE Place(u, v) == (v * line + u) % Uint32
<1>3. \A u \in 0..(w - 1), v \in 0..(h - 1): Place(u, v) < s
  BY DEF s
<1> DEFINE W == {v \in 0..(h - 1): v * line + x >= Uint32}
<1> SUFFICES ASSUME W # {} PROVE FALSE
  <2>1. y \notin W
    OBVIOUS
  <2>2. y * line \in Nat
    BY <1>1, Product
  <2> QED BY <1>1, <2>1, <2>2
<1>4. W \in SUBSET Nat
  BY <1>1
<1>5. PICK v \in W: \A u \in W: v <= u
  <2> HIDE DEF W
  <2> QED BY <1>4, Least
<1>6. v \in 0..(h - 1) /\ v * line + x >= Uint32
  BY <1>5
<1>7. v # 0
  BY <1>1, <1>6
<1>8. line < s
  <2>1. Place(0, 1) < s
    <3>1. 0 \in 0..(w - 1) /\ 1 \in 0..(h - 1)
      BY <1>1, <1>6, <1>7
    <3> HIDE DEF Place
    <3> QED BY <1>3, <3>1
  <2>2. 1 * line + 0 = line /\ line % Uint32 = line
    BY <1>1, SmallMod
  <2> QED BY <2>1, <2>2
<1> DEFINE a == (v - 1) * line
<1>9. v - 1 \in 0..(h - 1) /\ v - 1 \notin W /\ a \in Nat /\ v * line = a + line
  <2>1. v - 1 \in Nat /\ v - 1 \in 0..(h - 1)
    BY <1>1, <1>6, <1>7
  <2>2. ~(v <= v - 1)
    BY <1>6
  <2>3. v - 1 \notin W
    <3> HIDE DEF W
    <3> QED BY <1>5, <2>2
  <2>4. (v - 1) * line \in Nat
    BY <1>1, <2>1, Product
  <2>5. v * line = (v - 1) * line + line
    BY <1>1, <1>6
  <2> QED BY <2>1, <2>3, <2>4, <2>5
<1>10. a + x < Uint32 /\ (a + x) % Uint32 < s
  <2>1. Place(x, v - 1) < s
    <3> HIDE DEF Place
    <3> QED BY <1>3, <1>9
  <2>2. ~((v - 1) * line + x >= Uint32)
    BY <1>9
  <2> QED BY <1>1, <1>9, <2>1, <2>2
<1> HIDE DEF a, W
<1>11. a + x < s
  BY <1>1, <1>9, <1>10, SmallMod
<1> QED BY <1>1, <1>2, <1>6, <1>8, <1>9, <1>11

\* Lines as long as what they show: no two pixels have one place.
LEMMA OnePlaceEach ==
  ASSUME NEW w, NEW h, NEW line, Layout(w, h, line),
         NEW x \in 0..(w - 1), NEW y \in 0..(h - 1), NEW u \in 0..(w - 1), NEW v \in 0..(h - 1),
         y * line + x = v * line + u
  PROVE  x = u /\ y = v
<1>1. /\ w \in Nat /\ h \in Nat /\ line \in Nat /\ w <= line /\ x \in Nat /\ y \in Nat /\ u \in Nat /\ v \in Nat
      /\ x < line /\ u < line /\ line \in Nat \ {0}
  BY DEF Layout
<1>2. y * line + x = line * y + x /\ v * line + u = line * v + u /\ y * line \in Nat
  BY <1>1, Product
<1>3. y = v /\ x = u
  <2> DEFINE n == y * line + x
  <2>1. n \in Nat /\ n = line * y + x /\ n = line * v + u /\ x \in 0..(line - 1) /\ u \in 0..(line - 1)
    BY <1>1, <1>2
  <2> HIDE DEF n
  <2>2. n \div line = y /\ n % line = x
    BY <1>1, <2>1, DivisionUnique
  <2>3. n \div line = v /\ n % line = u
    BY <1>1, <2>1, DivisionUnique
  <2> QED BY <2>2, <2>3
<1> QED BY <1>3

\* Then the buffer holds at each place the colour of its one pixel.
LEMMA FilledWithGrid ==
  ASSUME NEW m, NEW line, Layout(m.w, m.h, line),
         \A u \in 0..(m.w - 1), v \in 0..(m.h - 1): (v * line + u) % Uint32 < Size(line, m.h) \div 4,
         NEW x \in 0..(m.w - 1), NEW y \in 0..(m.h - 1)
  PROVE  G!Filled(m, line, y * line + x) = G!Grid(x, y)
<1> DEFINE k == y * line + x
           places == {p \in (0..(m.w - 1)) \X (0..(m.h - 1)): G!Index(p[1], p[2], line) = k}
<1>1. m.w \in Nat /\ m.h \in Nat /\ line \in Nat /\ x \in Nat /\ y \in Nat
  BY DEF Layout
<1>2. ASSUME NEW u \in 0..(m.w - 1), NEW v \in 0..(m.h - 1) PROVE G!Index(u, v, line) = v * line + u
  <2>1. v * line + u < Uint32
    BY InsideDoesNotWrap
  <2>2. u \in Nat /\ v * line \in Nat
    BY <1>1, Product
  <2>3. v * line + u \in Nat
    BY <2>2
  <2> QED BY <2>1, <2>3, SmallMod DEF G!Index
<1>3. ASSUME NEW p \in places PROVE p = <<x, y>>
  <2>1. p[1] \in 0..(m.w - 1) /\ p[2] \in 0..(m.h - 1) /\ p = <<p[1], p[2]>> /\ G!Index(p[1], p[2], line) = k
    OBVIOUS
  <2>2. y * line + x = p[2] * line + p[1]
    BY <1>2, <2>1
  <2>3. x = p[1] /\ y = p[2]
    BY <2>1, <2>2, OnePlaceEach
  <2> QED BY <2>1, <2>3
<1>4. <<x, y>> \in places
  BY <1>2
<1>5. places = {<<x, y>>}
  <2> HIDE DEF places
  <2> QED BY <1>3, <1>4
<1> DEFINE last == CHOOSE p \in places: \A q \in places: q[2] < p[2] \/ (q[2] = p[2] /\ q[1] <= p[1])
<1>6. last = <<x, y>>
  <2> HIDE DEF places
  <2> QED BY <1>1, <1>5
<1>7. G!Filled(m, line, k) = IF places = {} THEN G!Junk ELSE G!ColourAt(last[1], last[2])
  BY DEF G!Filled
<1> HIDE DEF places, last, k
<1>8. G!Filled(m, line, k) = G!ColourAt(x, y)
  BY <1>5, <1>6, <1>7
<1> QED BY <1>1, <1>8, ColourIsGrid DEF k

Known == {"rgb", "bgr", "mask"}
Picture(m) == (0..(m.w - 1)) \X (0..(m.h - 1))
IsMode(m) ==
  /\ m.w \in Nat /\ m.h \in Nat /\ m.pitch \in Nat /\ m.w <= m.pitch /\ m.pitch < Uint32
  /\ m.format \in Known \union {"blt", "bad"}

\* No pixel of the picture lies behind the end of the buffer.
AllInside(m, line) == \A k \in G!Written(m, line): k < Size(line, m.h) \div 4

GTypeOK ==
  /\ program \in {"bltgrid", "lfbgrid", "modelist"} /\ i \in Nat
  /\ {"modes", "current", "mode", "started", "fbSize"} = DOMAIN gop
  /\ gop.fbSize \in Nat /\ IsMode(G!Active)
  /\ held \subseteq {"info", "pixels"} \X Nat
  /\ DOMAIN screen = Picture(G!Active)

\* What the screen shows at the end.
Shown ==
  outside = {} /\ G!Active.format # "bad" =>
    \/ \A p \in DOMAIN screen: screen[p] = G!Dark
    \/ \A p \in DOMAIN screen:
         \/ screen[p] = G!Grid(p[1], p[2])
         \/ program = "lfbgrid" /\ screen[p] = G!Dark /\ 4 * (p[2] * G!Active.pitch + p[1]) + 4 > gop.fbSize

\* Nothing is drawn, or outside of its buffer, before a buffer was filled for
\* the active mode, and from then on the loop stays where it is.
GInv ==
  /\ GTypeOK
  /\ \A k \in Nat: <<"pixels", k>> \in held => program = "lfbgrid" \/ (pc = "blt" /\ k = i)
  /\ pc \notin {"finish", "done"} => \A p \in DOMAIN screen: screen[p] = G!Dark
  /\ outside \subseteq {"buffer"}
  /\ outside # {} => /\ pc \in {"blt", "copy", "finish", "done"} /\ G!Info = G!Active
                     /\ ~G!FitsUint32(G!Info, IF program = "bltgrid" THEN G!Info.w ELSE G!Info.pitch)
  /\ pc = "blt" => program = "bltgrid" /\ G!Info = G!Active /\ (outside = {} => AllInside(G!Info, G!Info.w))
  /\ pc = "copy" => /\ program = "lfbgrid" /\ G!Info = G!Active /\ G!Info.format # "blt"
                    /\ outside = {} /\ G!Info.format \in Known => AllInside(G!Info, G!Info.pitch)
  /\ Shown

LEMMA GInitOK == G!Init => GInv
<1> SUFFICES ASSUME G!Init PROVE GInv
  OBVIOUS
<1> DEFINE Mode == [w: Nat, h: Nat, pitch: Nat, format: {"rgb", "bgr", "mask", "blt", "bad"}]
<1>1. PICK l \in ModeLists, c \in 0..1, on \in BOOLEAN, s \in BOOLEAN, f \in FbSizes:
        gop = [modes |-> l, current |-> c, mode |-> on, started |-> s, fbSize |-> f]
  BY DEF G!Init
<1>2. gop.modes = l /\ gop.current = c /\ gop.fbSize = f /\ c < Len(l)
  BY <1>1 DEF G!Init
<1>3. l \in Seq(Mode) /\ \A k \in DOMAIN l: l[k].w <= l[k].pitch /\ l[k].pitch < Uint32
  BY GraphicsAssumption
<1>4. c + 1 \in 1..Len(l) /\ DOMAIN l = 1..Len(l)
  <2> HIDE DEF Mode
  <2>1. Len(l) \in Nat /\ DOMAIN l = 1..Len(l)
    BY <1>3, LenProperties
  <2> QED BY <1>2, <2>1
<1>5. l[c + 1] \in Mode
  <2> HIDE DEF Mode
  <2> QED BY <1>3, <1>4, ElementOfSeq
<1>6. G!Active = l[c + 1]
  BY <1>2 DEF G!Active
<1>7. IsMode(G!Active)
  <2> DEFINE a == l[c + 1]
  <2>1. a \in Mode /\ a.w <= a.pitch /\ a.pitch < Uint32
    BY <1>3, <1>4, <1>5
  <2> HIDE DEF a
  <2>2. a.w \in Nat /\ a.h \in Nat /\ a.pitch \in Nat /\ a.format \in Known \union {"blt", "bad"}
    BY <2>1 DEF Known
  <2> QED BY <1>6, <2>1, <2>2 DEF IsMode, a
<1>8. gop.fbSize \in Nat
  BY <1>2, GraphicsAssumption
<1>9. DOMAIN gop = {"modes", "current", "mode", "started", "fbSize"}
  BY <1>1
<1>10. /\ program \in {"bltgrid", "lfbgrid", "modelist"} /\ i = 0 /\ held = {} /\ outside = {} /\ pc = "start"
       /\ screen = [p \in Picture(G!Active) |-> G!Dark]
  BY DEF G!Init, Picture
<1>11. GTypeOK
  BY <1>7, <1>8, <1>9, <1>10 DEF GTypeOK
<1> QED BY <1>10, <1>11 DEF GInv, Shown

\* The device keeps its modes; of it only started changes.
LEMMA GDeviceKept ==
  ASSUME GTypeOK, NEW b, gop' = gop \/ gop' = [gop EXCEPT !.started = b]
  PROVE  /\ gop'.modes = gop.modes /\ gop'.current = gop.current /\ gop'.mode = gop.mode
         /\ gop'.fbSize = gop.fbSize /\ DOMAIN gop' = DOMAIN gop /\ G!Active' = G!Active
         /\ i' = i => G!Info' = G!Info
BY DEF GTypeOK, G!Active, G!Info

\* The steps before anything is drawn.
LEMMA GEarlierKeeps ==
  ASSUME GInv, pc \in {"start", "locate", "loop", "info"}, pc' \in {"locate", "missing", "loop", "info", "finish"},
         NEW b, gop' = gop \/ gop' = [gop EXCEPT !.started = b],
         i' \in {i, i + 1}, held' = held \/ held' = held \union {<<"info", i>>},
         UNCHANGED <<program, outside, screen>>
  PROVE  GInv'
<1>1. /\ GTypeOK /\ outside = {} /\ \A p \in DOMAIN screen: screen[p] = G!Dark
      /\ \A k \in Nat: <<"pixels", k>> \in held => program = "lfbgrid"
  BY DEF GInv
<1>2. gop'.fbSize = gop.fbSize /\ DOMAIN gop' = DOMAIN gop /\ G!Active' = G!Active
  BY <1>1, GDeviceKept
<1>3. GTypeOK'
  <2>1. i' \in Nat /\ held' \subseteq {"info", "pixels"} \X Nat
    BY <1>1 DEF GTypeOK
  <2> QED BY <1>1, <1>2, <2>1 DEF GTypeOK, IsMode, Picture
<1>4. \A k \in Nat: <<"pixels", k>> \in held' => program' = "lfbgrid"
  BY <1>1
<1>5. \A p \in DOMAIN screen': screen'[p] = G!Dark'
  BY <1>1 DEF G!Dark
<1> QED BY <1>1, <1>3, <1>4, <1>5 DEF GInv, Shown

LEMMA GLoopKeeps ==
  ASSUME GInv, G!StartProgram \/ G!NoGop \/ G!Located \/ G!QueryMode \/ G!EndOfModes \/ G!print_modes \/ G!AnotherMode
  PROVE  GInv'
<1>1. CASE G!StartProgram
  BY <1>1, GEarlierKeeps DEF G!StartProgram, G!Goto
<1>2. CASE G!NoGop
  BY <1>2, GEarlierKeeps DEF G!NoGop, G!Goto
<1>3. CASE G!Located
  BY <1>3, GEarlierKeeps DEF G!Located, G!Goto
<1>4. CASE G!QueryMode
  <2>1. PICK b \in BOOLEAN: gop' = [gop EXCEPT !.started = b]
    BY <1>4 DEF G!QueryMode
  <2> QED BY <1>4, <2>1, GEarlierKeeps DEF G!QueryMode, G!Goto
<1>5. CASE G!EndOfModes
  BY <1>5, GEarlierKeeps DEF G!EndOfModes, G!Goto
<1>6. CASE G!print_modes
  BY <1>6, GEarlierKeeps DEF G!print_modes, G!Goto
<1>7. CASE G!AnotherMode
  BY <1>7, GEarlierKeeps DEF G!AnotherMode, G!Goto
<1> QED BY <1>1, <1>2, <1>3, <1>4, <1>5, <1>6, <1>7

\* Pixels outside of the buffer are written only if its size does not fit.
LEMMA OutsideOnlyIfTooLarge ==
  ASSUME NEW m, NEW line, Layout(m.w, m.h, line), G!FitsUint32(m, line)
  PROVE  AllInside(m, line)
<1>1. ASSUME NEW x \in 0..(m.w - 1), NEW y \in 0..(m.h - 1) PROVE G!Index(x, y, line) < Size(line, m.h) \div 4
  BY <1>1, InsideIfItFits DEF G!FitsUint32, G!Pixel, G!Index
<1> QED BY <1>1 DEF AllInside, G!Written

LEMMA InsidePixels ==
  ASSUME NEW m, NEW line, AllInside(m, line)
  PROVE  \A u \in 0..(m.w - 1), v \in 0..(m.h - 1): (v * line + u) % Uint32 < Size(line, m.h) \div 4
BY DEF AllInside, G!Written, G!Index

LEMMA Layouts ==
  ASSUME NEW m, IsMode(m) PROVE Layout(m.w, m.h, m.w) /\ Layout(m.w, m.h, m.pitch)
BY UintIs DEF IsMode, Layout

LEMMA WrittenIsInt ==
  ASSUME NEW m, NEW line, Layout(m.w, m.h, line), NEW k \in G!Written(m, line)
  PROVE  k \in Int /\ Size(line, m.h) \div 4 \in Int
<1>1. m.w \in Nat /\ m.h \in Nat /\ line \in Nat /\ Uint32 \in Nat \ {0}
  BY UintIs DEF Layout
<1>2. PICK x \in 0..(m.w - 1), y \in 0..(m.h - 1): k = (y * line + x) % Uint32
  BY DEF G!Written, G!Index
<1>3. y * line \in Nat /\ x \in Nat /\ line * m.h \in Nat /\ 4 * line * m.h = 4 * (line * m.h)
  BY <1>1, Product
<1>4. y * line + x \in Nat /\ 4 * line * m.h \in Nat
  BY <1>3
<1>5. k \in Nat /\ Size(line, m.h) \in Nat
  BY <1>1, <1>2, <1>4, Division DEF Size
<1> QED BY <1>5

LEMMA GFailsKeeps ==
  ASSUME GInv, pc = "info", pc' = "finish", UNCHANGED <<program, gop, i, screen, held, outside>>
  PROVE  GInv'
BY GEarlierKeeps

LEMMA GBltBegins == ASSUME GInv, G!bltgrid_draw_boxes PROVE GInv'
<1>1. /\ program = "bltgrid" /\ pc = "info" /\ G!Info = G!Active /\ UNCHANGED <<program, gop, i, screen>>
      /\ \/ pc' = "finish" /\ UNCHANGED <<held, outside>>
         \/ /\ pc' = "blt" /\ held' = held \union {<<"pixels", i>>}
            /\ outside' = outside \union {m \in {"buffer"}: \E k \in G!Written(G!Info, G!Info.w): k >= Size(G!Info.w, G!Info.h) \div 4}
  BY DEF G!bltgrid_draw_boxes, G!DrawBegins, G!IsActive, G!Goto, G!Pixel, Size
<1>2. /\ GTypeOK /\ outside = {} /\ \A p \in DOMAIN screen: screen[p] = G!Dark
      /\ \A k \in Nat: <<"pixels", k>> \notin held
  BY <1>1 DEF GInv
<1>3. G!Info' = G!Info /\ G!Active' = G!Active
  BY <1>1, <1>2, GDeviceKept
<1>4. CASE pc' = "finish" /\ UNCHANGED <<held, outside>>
  BY <1>1, <1>4, GFailsKeeps
<1>5. CASE /\ pc' = "blt" /\ held' = held \union {<<"pixels", i>>}
           /\ outside' = outside \union {m \in {"buffer"}: \E k \in G!Written(G!Info, G!Info.w): k >= Size(G!Info.w, G!Info.h) \div 4}
  <2>1. GTypeOK'
    BY <1>1, <1>2, <1>3, <1>5 DEF GTypeOK, IsMode, Picture
  <2>2. \A k \in Nat: <<"pixels", k>> \in held' => k = i
    BY <1>2, <1>5
  <2>3. Layout(G!Info.w, G!Info.h, G!Info.w)
    BY <1>1, <1>2, Layouts DEF GTypeOK
  <2>4. outside' # {} => ~G!FitsUint32(G!Info, G!Info.w)
    <3> SUFFICES ASSUME G!FitsUint32(G!Info, G!Info.w), outside' # {} PROVE FALSE
      OBVIOUS
    <3>1. AllInside(G!Info, G!Info.w)
      BY <2>3, OutsideOnlyIfTooLarge
    <3>2. PICK k \in G!Written(G!Info, G!Info.w): k >= Size(G!Info.w, G!Info.h) \div 4
      BY <1>2, <1>5
    <3>3. k \in Int /\ Size(G!Info.w, G!Info.h) \div 4 \in Int
      BY <2>3, <3>2, WrittenIsInt
    <3> QED BY <3>1, <3>2, <3>3 DEF AllInside
  <2>5. outside' = {} => AllInside(G!Info, G!Info.w)
    <3> SUFFICES ASSUME outside' = {}, NEW k \in G!Written(G!Info, G!Info.w) PROVE k < Size(G!Info.w, G!Info.h) \div 4
      BY DEF AllInside
    <3>1. k \in Int /\ Size(G!Info.w, G!Info.h) \div 4 \in Int
      BY <2>3, WrittenIsInt
    <3>2. ~(k >= Size(G!Info.w, G!Info.h) \div 4)
      BY <1>5, Zenon
    <3> QED BY <3>1, <3>2
  <2>6. AllInside(G!Info, G!Info.w)' <=> AllInside(G!Info, G!Info.w)
    BY <1>3 DEF AllInside, G!Written, G!Index
  <2>7. G!FitsUint32(G!Info, G!Info.w)' <=> G!FitsUint32(G!Info, G!Info.w)
    BY <1>3 DEF G!FitsUint32
  <2>8. Shown' /\ \A p \in DOMAIN screen': screen'[p] = G!Dark'
    BY <1>1, <1>2 DEF Shown, G!Dark
  <2> QED BY <1>1, <1>3, <1>5, <2>1, <2>2, <2>4, <2>5, <2>6, <2>7, <2>8 DEF GInv
<1> QED BY <1>1, <1>4, <1>5

LEMMA GLfbBegins == ASSUME GInv, G!lfbgrid_draw_boxes PROVE GInv'
<1> DEFINE W == IF G!Info.format \in Known THEN G!Written(G!Info, G!Info.pitch) ELSE {}
<1>1. /\ program = "lfbgrid" /\ pc = "info" /\ G!Info = G!Active /\ UNCHANGED <<program, gop, i, screen>>
      /\ \/ pc' = "finish" /\ UNCHANGED <<held, outside>>
         \/ /\ pc' = (IF G!Info.format = "blt" THEN "finish" ELSE "copy") /\ held' = held \union {<<"pixels", i>>}
            /\ outside' = outside \union {m \in {"buffer"}: \E k \in W: k >= Size(G!Info.pitch, G!Info.h) \div 4}
  BY DEF G!lfbgrid_draw_boxes, G!DrawBegins, G!IsActive, G!Goto, G!Pixel, Size, Known
<1>2. GTypeOK /\ outside = {} /\ \A p \in DOMAIN screen: screen[p] = G!Dark
  BY <1>1 DEF GInv
<1>3. G!Info' = G!Info /\ G!Active' = G!Active
  BY <1>1, <1>2, GDeviceKept
<1>4. CASE pc' = "finish" /\ UNCHANGED <<held, outside>>
  BY <1>1, <1>4, GFailsKeeps
<1>5. CASE /\ pc' = (IF G!Info.format = "blt" THEN "finish" ELSE "copy") /\ held' = held \union {<<"pixels", i>>}
           /\ outside' = outside \union {m \in {"buffer"}: \E k \in W: k >= Size(G!Info.pitch, G!Info.h) \div 4}
  <2>1. GTypeOK'
    BY <1>1, <1>2, <1>3, <1>5 DEF GTypeOK, IsMode, Picture
  <2>2. Layout(G!Info.w, G!Info.h, G!Info.pitch)
    BY <1>1, <1>2, Layouts DEF GTypeOK
  <2>3. outside' # {} => ~G!FitsUint32(G!Info, G!Info.pitch)
    <3> SUFFICES ASSUME G!FitsUint32(G!Info, G!Info.pitch), outside' # {} PROVE FALSE
      OBVIOUS
    <3>1. AllInside(G!Info, G!Info.pitch)
      BY <2>2, OutsideOnlyIfTooLarge
    <3>2. PICK k \in W: k >= Size(G!Info.pitch, G!Info.h) \div 4
      BY <1>2, <1>5
    <3>3. k \in G!Written(G!Info, G!Info.pitch)
      BY <3>2
    <3>4. k \in Int /\ Size(G!Info.pitch, G!Info.h) \div 4 \in Int
      BY <2>2, <3>3, WrittenIsInt
    <3> QED BY <3>1, <3>2, <3>3, <3>4 DEF AllInside
  <2>4. outside' = {} /\ G!Info.format \in Known => AllInside(G!Info, G!Info.pitch)
    <3> SUFFICES ASSUME outside' = {}, G!Info.format \in Known, NEW k \in G!Written(G!Info, G!Info.pitch)
                 PROVE  k < Size(G!Info.pitch, G!Info.h) \div 4
      BY DEF AllInside
    <3>1. k \in Int /\ Size(G!Info.pitch, G!Info.h) \div 4 \in Int
      BY <2>2, WrittenIsInt
    <3>2. k \in W
      OBVIOUS
    <3>3. ~(k >= Size(G!Info.pitch, G!Info.h) \div 4)
      <4> HIDE DEF W
      <4> QED BY <1>5, <3>2, Zenon
    <3> QED BY <3>1, <3>3
  <2>5. AllInside(G!Info, G!Info.pitch)' <=> AllInside(G!Info, G!Info.pitch)
    BY <1>3 DEF AllInside, G!Written, G!Index
  <2>6. G!FitsUint32(G!Info, G!Info.pitch)' <=> G!FitsUint32(G!Info, G!Info.pitch)
    BY <1>3 DEF G!FitsUint32
  <2>7. Shown' /\ \A p \in DOMAIN screen': screen'[p] = G!Dark'
    BY <1>1, <1>2 DEF Shown, G!Dark
  <2> HIDE DEF W
  <2> QED BY <1>1, <1>3, <1>5, <2>1, <2>3, <2>4, <2>5, <2>6, <2>7 DEF GInv
<1> QED BY <1>1, <1>4, <1>5

\* Blt shows the buffer, which is the grid if the pixels were inside.
LEMMA GBltKeeps == ASSUME GInv, G!Blt PROVE GInv'
<1>1. /\ pc = "blt" /\ pc' = "finish" /\ held' = held \ {<<"pixels", i>>}
      /\ screen' = [p \in DOMAIN screen |-> G!bltgrid_fill_boxes(G!Info, p[2] * G!Info.w + p[1])]
      /\ UNCHANGED <<program, gop, i, outside>>
  BY DEF G!Blt, G!Goto
<1>2. /\ GTypeOK /\ program = "bltgrid" /\ G!Info = G!Active /\ (outside = {} => AllInside(G!Info, G!Info.w))
      /\ \A k \in Nat: <<"pixels", k>> \in held => k = i
      /\ outside \subseteq {"buffer"} /\ (outside # {} => ~G!FitsUint32(G!Info, G!Info.w))
  BY <1>1 DEF GInv
<1>3. G!Info' = G!Info /\ G!Active' = G!Active
  BY <1>1, <1>2, GDeviceKept
<1>4. GTypeOK'
  BY <1>1, <1>2, <1>3 DEF GTypeOK, IsMode, Picture
<1>5. \A k \in Nat: <<"pixels", k>> \notin held'
  BY <1>1, <1>2
<1>6. ASSUME outside = {}, NEW p \in DOMAIN screen PROVE screen'[p] = G!Grid(p[1], p[2])
  <2>1. p[1] \in 0..(G!Info.w - 1) /\ p[2] \in 0..(G!Info.h - 1)
    BY <1>2, <1>6 DEF GTypeOK, Picture
  <2>2. Layout(G!Info.w, G!Info.h, G!Info.w) /\ AllInside(G!Info, G!Info.w)
    BY <1>2, <1>6, Layouts DEF GTypeOK
  <2>3. G!Filled(G!Info, G!Info.w, p[2] * G!Info.w + p[1]) = G!Grid(p[1], p[2])
    BY <2>1, <2>2, InsidePixels, FilledWithGrid
  <2> QED BY <1>1, <2>3 DEF G!bltgrid_fill_boxes
<1>7. Shown'
  <2>1. \A p \in DOMAIN screen': outside = {} => screen'[p] = G!Grid(p[1], p[2])
    BY <1>1, <1>6
  <2>2. \A x, y: G!Grid(x, y)' = G!Grid(x, y)
    BY DEF G!Grid, G!Red, G!Green
  <2> QED BY <1>1, <2>1, <2>2 DEF Shown
<1>8. G!FitsUint32(G!Info, G!Info.w)' <=> G!FitsUint32(G!Info, G!Info.w)
  BY <1>3 DEF G!FitsUint32
<1> QED BY <1>1, <1>2, <1>3, <1>4, <1>5, <1>7, <1>8 DEF GInv

\* What is not copied lies behind the end of the frame buffer.
LEMMA GCopyKeeps == ASSUME GInv, G!CopyToFrameBuffer PROVE GInv'
<1> DEFINE Place(p) == p[2] * G!Info.pitch + p[1]
<1>0. ~(G!CopySize > gop.fbSize)
  <2>1. G!Info.pitch \in Nat /\ G!Info.h \in Nat /\ Uint32 \in Nat \ {0} /\ gop.fbSize \in Nat
    BY UintIs DEF GInv, GTypeOK, IsMode, G!CopyToFrameBuffer
  <2>2. G!LfbSize \in 0..(Uint32 - 1)
    BY <2>1, SizeIsUint DEF G!LfbSize, G!Pixel, Size
  <2>3. CASE G!LfbSize < gop.fbSize
    BY <2>1, <2>2, <2>3 DEF G!CopySize
  <2>4. CASE ~(G!LfbSize < gop.fbSize)
    <3>1. gop.fbSize % Uint32 = gop.fbSize
      BY <2>1, <2>2, <2>4, SmallMod
    <3> QED BY <2>1, <2>4, <3>1 DEF G!CopySize
  <2> QED BY <2>3, <2>4
<1>1. /\ pc = "copy" /\ pc' = "finish" /\ UNCHANGED <<program, gop, i, held, outside>>
      /\ screen' = [p \in DOMAIN screen |->
           IF Place(p) < G!CopySize \div 4 THEN G!lfbgrid_fill_boxes(G!Info, Place(p)) ELSE screen[p]]
  BY <1>0 DEF G!CopyToFrameBuffer, G!Goto, G!Pixel
<1>2. /\ GTypeOK /\ program = "lfbgrid" /\ G!Info = G!Active /\ G!Info.format # "blt"
      /\ outside = {} /\ G!Info.format \in Known => AllInside(G!Info, G!Info.pitch)
      /\ outside \subseteq {"buffer"} /\ (outside # {} => ~G!FitsUint32(G!Info, G!Info.pitch))
      /\ \A p \in DOMAIN screen: screen[p] = G!Dark
  BY <1>1 DEF GInv
<1>3. G!Info' = G!Info /\ G!Active' = G!Active
  BY <1>1, <1>2, GDeviceKept
<1>4. GTypeOK'
  BY <1>1, <1>2, <1>3 DEF GTypeOK, IsMode, Picture
<1>5. ASSUME outside = {}, G!Active.format # "bad", NEW p \in DOMAIN screen
      PROVE  \/ screen'[p] = G!Grid(p[1], p[2])
             \/ screen'[p] = G!Dark /\ 4 * (p[2] * G!Active.pitch + p[1]) + 4 > gop.fbSize
  <2>1. p[1] \in 0..(G!Info.w - 1) /\ p[2] \in 0..(G!Info.h - 1) /\ IsMode(G!Info) /\ G!Info.format \in Known
    BY <1>2, <1>5 DEF GTypeOK, Picture, IsMode
  <2>2. Layout(G!Info.w, G!Info.h, G!Info.pitch) /\ AllInside(G!Info, G!Info.pitch)
    BY <1>2, <1>5, <2>1, Layouts
  <2>3. CASE Place(p) < G!CopySize \div 4
    <3>1. G!Filled(G!Info, G!Info.pitch, Place(p)) = G!Grid(p[1], p[2])
      BY <2>1, <2>2, InsidePixels, FilledWithGrid
    <3> QED BY <1>1, <2>1, <2>3, <3>1 DEF G!lfbgrid_fill_boxes, Known
  <2>4. CASE ~(Place(p) < G!CopySize \div 4)
    <3>1. screen'[p] = G!Dark
      BY <1>1, <1>2, <2>4
    <3> DEFINE b == Size(G!Info.pitch, G!Info.h)
               k == Place(p)
               f == gop.fbSize
    <3>2. /\ G!Info.pitch \in Nat /\ G!Info.h \in Nat /\ p[1] \in Nat /\ p[2] \in Nat /\ Uint32 \in Nat \ {0}
          /\ f \in Nat
      BY <1>2, <2>1, UintIs DEF IsMode, GTypeOK
    <3>3. k \in Nat /\ b \in Nat /\ b < Uint32
      <4>1. p[2] * G!Info.pitch \in Nat
        BY <3>2, Product
      <4>2. b \in 0..(Uint32 - 1)
        <5> HIDE DEF b
        <5> QED BY <3>2, SizeIsUint DEF b
      <4> QED BY <3>2, <4>1, <4>2
    <3>4. k < b \div 4
      <4>1. k < Uint32 /\ k % Uint32 < b \div 4
        BY <2>1, <2>2, InsidePixels, InsideDoesNotWrap
      <4>2. k % Uint32 = k
        <5> HIDE DEF k
        <5> QED BY <3>3, <4>1, SmallMod
      <4> QED BY <4>1, <4>2
    <3>5. G!CopySize = IF b < f THEN b ELSE f % Uint32
      BY DEF G!CopySize, G!LfbSize, G!Pixel, Size
    <3>6. ~(b < f) => f % Uint32 = f
      <4> HIDE DEF b, f
      <4> QED BY <3>2, <3>3, SmallMod
    <3>7. ~(k < G!CopySize \div 4)
      BY <2>4
    <3> HIDE DEF b, k, f
    <3>8. 4 * k + 4 > f
      BY <3>2, <3>3, <3>4, <3>5, <3>6, <3>7
    <3> QED BY <1>2, <3>1, <3>8 DEF k, f
  <2> QED BY <2>3, <2>4
<1>6. Shown'
  <2>1. \A x, y: G!Grid(x, y)' = G!Grid(x, y)
    BY DEF G!Grid, G!Red, G!Green
  <2>2. DOMAIN screen' = DOMAIN screen /\ G!Dark' = G!Dark
    BY <1>1 DEF G!Dark
  <2> SUFFICES ASSUME outside' = {}, G!Active'.format # "bad", NEW p \in DOMAIN screen'
               PROVE  \/ screen'[p] = G!Grid(p[1], p[2])'
                      \/ program' = "lfbgrid" /\ screen'[p] = G!Dark'
                         /\ 4 * (p[2] * G!Active'.pitch + p[1]) + 4 > gop'.fbSize
    BY DEF Shown
  <2> QED BY <1>1, <1>2, <1>3, <1>5, <2>1, <2>2
<1>7. G!FitsUint32(G!Info, G!Info.pitch)' <=> G!FitsUint32(G!Info, G!Info.pitch)
  BY <1>3 DEF G!FitsUint32
<1> QED BY <1>1, <1>2, <1>3, <1>4, <1>6, <1>7 DEF GInv

\* Nothing the invariant is about changes but pc, at the end or not at all.
LEMMA GSame ==
  ASSUME GInv, UNCHANGED <<program, gop, i, held, outside, screen>>,
         pc' = pc \/ (pc = "finish" /\ pc' = "done")
  PROVE  GInv'
<1>1. G!Info' = G!Info /\ G!Active' = G!Active /\ GTypeOK
  BY GDeviceKept DEF GInv
<1>2. GTypeOK'
  BY <1>1 DEF GTypeOK, IsMode, Picture
<1>3. \A m, line: /\ AllInside(m, line)' <=> AllInside(m, line)
                  /\ G!FitsUint32(m, line)' <=> G!FitsUint32(m, line)
  BY DEF AllInside, G!Written, G!Index, G!FitsUint32
<1>4. Shown'
  <2>1. \A x, y: G!Grid(x, y)' = G!Grid(x, y)
    BY DEF G!Grid, G!Red, G!Green
  <2> QED BY <1>1, <2>1 DEF GInv, Shown, G!Dark
<1> QED BY <1>1, <1>2, <1>3, <1>4 DEF GInv, G!Dark

\* The invariant of the graphics programs, in the composition.
LEMMA GInvariant == Spec => [](turn = "graphics" => GInv)
<1> DEFINE I == turn = "graphics" => GInv
<1>1. Init => I
  BY GInitOK DEF Init
<1>2. I /\ [Next]_all => I'
  <2> SUFFICES ASSUME I, [Next]_all, turn' = "graphics" PROVE GInv'
    OBVIOUS
  <2>1. CASE Graphics
    <3>1. GInv /\ G!Next
      BY <2>1 DEF Graphics
    <3>2. CASE G!FinishProgram
      BY <3>1, <3>2, GSame DEF G!FinishProgram, G!Goto
    <3>3. CASE UNCHANGED G!vars
      BY <3>1, <3>3, GSame DEF G!vars
    <3> QED BY <3>1, <3>2, <3>3, GLoopKeeps, GBltBegins, GLfbBegins, GBltKeeps, GCopyKeeps DEF G!Next, G!Step
  <2>2. CASE UNCHANGED all
    BY <2>2, GSame DEF all, gVars
  <2> QED BY <2>1, <2>2 DEF Next, Startup, Drv0, Tools
<1> QED BY <1>1, <1>2, PTL DEF Spec

\* The grid programs show the whole grid or nothing, in any mode with lines of
\* any length, boxes of any size and a frame buffer of any size: nothing is
\* written behind the end of the frame buffer, and behind the end of the pixel
\* buffer only when its size in bytes exceeds UINT32 (bltgrid.c, lfbgrid.c).
THEOREM GridDrawnHolds == Spec => []GridDrawn
<1>1. (turn = "graphics" => GInv) => GridDrawn
  <2> SUFFICES ASSUME GInv PROVE G!GridDrawn
    BY DEF GridDrawn
  <2>1. i \in Nat /\ (pc = "done" /\ <<"pixels", i>> \in held => program = "lfbgrid")
    BY DEF GInv, GTypeOK
  <2> QED BY <2>1 DEF GInv, Shown, G!GridDrawn, G!Pixel
<1> QED BY <1>1, GInvariant, PTL

-----------------------------------------------------------------------------
(* The start and end of an image: the relocators first. *)

\* The facts about an image that the relocators rest on.
Linked(m) ==
  /\ m.rels \in Seq([type: STRING, offset: Nat, addend: Int])
  /\ Len(m.rels) \in Nat /\ DOMAIN m.rels = 1..Len(m.rels)
  /\ \A k \in 1..Len(m.rels): m.rels[k].type = "RELATIVE" =>
       /\ m.rels[k].offset \in DOMAIN m.cells \ m.got
       /\ m.rels[k].addend = m.link[m.rels[k].offset]
       /\ \A j \in 1..Len(m.rels):
            m.rels[j].type = "RELATIVE" /\ m.rels[j].offset = m.rels[k].offset => j = k

\* Every image is linked so.
LEMMA ImagesLinked == ASSUME NEW m \in Images PROVE Linked(m)
<1>1. m.rels \in Seq([type: STRING, offset: Nat, addend: Int])
  BY StartupAssumption
<1>2. Len(m.rels) \in Nat /\ DOMAIN m.rels = 1..Len(m.rels)
  BY <1>1
<1>3. \A k \in {j \in DOMAIN m.rels: m.rels[j].type = "RELATIVE"}:
            /\ m.rels[k].offset \in DOMAIN m.cells \ m.got
            /\ m.rels[k].addend = m.link[m.rels[k].offset]
            /\ \A j \in DOMAIN m.rels:
                 m.rels[j].type = "RELATIVE" /\ m.rels[j].offset = m.rels[k].offset => j = k
  BY StartupAssumption
<1> QED BY <1>1, <1>2, <1>3 DEF Linked

\* The cells c after the first j entries.
UpTo(m, c, j) ==
  [o \in DOMAIN c |->
     IF \E k \in 1..j: m.rels[k].type = "RELATIVE" /\ m.rels[k].offset = o THEN LdBase + m.link[o] ELSE c[o]]

\* How a relocator gets at the address a cell was linked for.
Available(kind, m, c) == kind.patch = "addend" \/ \A o \in S!Relative(m): c[o] = m.link[o]

\* One entry more.
LEMMA PatchedStep ==
  ASSUME NEW m, Linked(m), NEW kind, NEW c, DOMAIN c = DOMAIN m.cells, Available(kind, m, c),
         NEW j \in 1..Len(m.rels)
  PROVE  S!Patched(kind, UpTo(m, c, j - 1), m.rels[j]) = UpTo(m, c, j)
<1> DEFINE u == UpTo(m, c, j - 1)
           v == UpTo(m, c, j)
           r == m.rels[j]
           Hit(n, o) == \E k \in 1..n: m.rels[k].type = "RELATIVE" /\ m.rels[k].offset = o
<1>0. Len(m.rels) \in Nat /\ j \in Nat /\ j - 1 \in Nat /\ j <= Len(m.rels)
  BY DEF Linked
<1>1. ASSUME NEW o PROVE Hit(j, o) <=> Hit(j - 1, o) \/ (r.type = "RELATIVE" /\ r.offset = o)
  <2>1. 1..j = (1..(j - 1)) \union {j}
    BY <1>0
  <2> QED BY <2>1
<1>2. /\ u = [o \in DOMAIN c |-> IF Hit(j - 1, o) THEN LdBase + m.link[o] ELSE c[o]]
      /\ v = [o \in DOMAIN c |-> IF Hit(j, o) THEN LdBase + m.link[o] ELSE c[o]]
  BY DEF UpTo
<1>3. CASE r.type # "RELATIVE"
  <2>1. \A o: Hit(j, o) <=> Hit(j - 1, o)
    BY <1>1, <1>3
  <2> HIDE DEF Hit
  <2>2. u = v
    BY <1>2, <2>1
  <2> QED BY <1>3, <2>2 DEF S!Patched
<1>4. CASE r.type = "RELATIVE"
  <2>1. r.offset \in DOMAIN c /\ r.addend = m.link[r.offset]
    BY <1>4 DEF Linked
  <2>2. ~Hit(j - 1, r.offset)
    <3>1. ASSUME NEW k \in 1..(j - 1), m.rels[k].type = "RELATIVE", m.rels[k].offset = r.offset PROVE FALSE
      <4>1. k \in 1..Len(m.rels) /\ k # j
        BY <1>0
      <4> QED BY <1>4, <3>1, <4>1 DEF Linked
    <3> QED BY <3>1
  <2>3. kind.patch = "addend" \/ c[r.offset] = m.link[r.offset]
    <3>1. r.offset \in S!Relative(m)
      BY <1>4 DEF S!Relative, Linked
    <3> QED BY <3>1 DEF Available
  <2> HIDE DEF Hit
  <2>4. u[r.offset] = c[r.offset]
    BY <1>2, <2>1, <2>2
  <2>5. S!Patched(kind, u, r) = [u EXCEPT ![r.offset] = LdBase + m.link[r.offset]]
    BY <1>4, <2>1, <2>3, <2>4 DEF S!Patched
  <2>6. [u EXCEPT ![r.offset] = LdBase + m.link[r.offset]] = v
    <3> HIDE DEF r
    <3> QED BY <1>1, <1>2, <1>4, <2>1
  <2> QED BY <2>5, <2>6
<1> QED BY <1>3, <1>4

\* f gives the cells after each entry.
Patches(f, kind, c, rels, n) == f = [j \in 0..n |-> IF j = 0 THEN c ELSE S!Patched(kind, f[j - 1], rels[j])]

\* The loop of a relocator, over n entries.
Looped(kind, c, rels, n) == (CHOOSE f: Patches(f, kind, c, rels, n))[n]

\* The loop is a recursive function, and there is one.
LEMMA LoopRuns ==
  ASSUME NEW m, Linked(m), NEW kind, NEW c, DOMAIN c = DOMAIN m.cells, c = [o \in DOMAIN c |-> c[o]],
         Available(kind, m, c)
  PROVE  \E f: Patches(f, kind, c, m.rels, Len(m.rels))
<1> DEFINE n == Len(m.rels)
           f == [j \in 0..n |-> UpTo(m, c, j)]
<1>1. n \in Nat
  BY DEF Linked
<1>2. ASSUME NEW j \in 0..n PROVE f[j] = IF j = 0 THEN c ELSE S!Patched(kind, f[j - 1], m.rels[j])
  <2>1. CASE j = 0
    BY <2>1 DEF UpTo
  <2>2. CASE j # 0
    <3>1. j \in 1..n /\ j - 1 \in 0..n
      BY <1>1, <2>2
    <3> QED BY <2>2, <3>1, PatchedStep
  <2> QED BY <2>1, <2>2
<1>3. f = [j \in 0..n |-> f[j]]
  OBVIOUS
<1> HIDE DEF f, n
<1>4. Patches(f, kind, c, m.rels, n)
  BY <1>2, <1>3 DEF Patches
<1> QED BY <1>4 DEF n

\* Induction over the entries: after all of them, every relative cell is done.
LEMMA LoopPatches ==
  ASSUME NEW m, Linked(m), NEW kind, NEW c, DOMAIN c = DOMAIN m.cells, c = [o \in DOMAIN c |-> c[o]],
         Available(kind, m, c), NEW f, Patches(f, kind, c, m.rels, Len(m.rels))
  PROVE  f[Len(m.rels)] = UpTo(m, c, Len(m.rels))
<1> DEFINE n == Len(m.rels)
           W == {j \in 0..n: f[j] # UpTo(m, c, j)}
<1>1. n \in Nat
  BY DEF Linked
<1>2. \A j \in 0..n: f[j] = IF j = 0 THEN c ELSE S!Patched(kind, f[j - 1], m.rels[j])
  BY DEF Patches
<1>3. \A j \in 1..n: S!Patched(kind, UpTo(m, c, j - 1), m.rels[j]) = UpTo(m, c, j)
  BY PatchedStep
<1>4. UpTo(m, c, 0) = c
  BY DEF UpTo
<1>5. SUFFICES ASSUME f[n] # UpTo(m, c, n) PROVE FALSE
  OBVIOUS
<1> HIDE DEF n
<1>6. PICK j \in W: \A l \in W: j <= l
  <2>1. W \in SUBSET Nat /\ W # {}
    BY <1>1, <1>5
  <2> HIDE DEF W
  <2> QED BY <2>1, Least
<1>7. j \in 1..n
  BY <1>1, <1>2, <1>4, <1>6
<1>8. j - 1 \in 0..n /\ ~(j <= j - 1)
  BY <1>1, <1>7
<1>9. f[j - 1] = UpTo(m, c, j - 1)
  BY <1>6, <1>8
<1> QED BY <1>2, <1>3, <1>6, <1>7, <1>9

\* So that is what the loop leaves.
LEMMA LoopedIs ==
  ASSUME NEW m, Linked(m), NEW kind, NEW c, DOMAIN c = DOMAIN m.cells, c = [o \in DOMAIN c |-> c[o]],
         Available(kind, m, c)
  PROVE  Looped(kind, c, m.rels, Len(m.rels)) = UpTo(m, c, Len(m.rels))
<1> DEFINE f == CHOOSE g: Patches(g, kind, c, m.rels, Len(m.rels))
<1>1. Patches(f, kind, c, m.rels, Len(m.rels))
  BY LoopRuns, Zenon
<1>2. Looped(kind, c, m.rels, Len(m.rels)) = f[Len(m.rels)]
  BY Zenon DEF Looped
<1> HIDE DEF f
<1> QED BY <1>1, <1>2, LoopPatches

\* Table, with its function named.
LEMMA TableIs ==
  ASSUME NEW kind, NEW c, NEW rels, NEW relsz, NEW relent
  PROVE  S!Table(kind, c, rels, relsz, relent) =
           IF relsz <= 0 THEN [status |-> 0, cells |-> c]
           ELSE IF relent = 0 THEN [status |-> S!Never, cells |-> c]
           ELSE [status |-> 0,
                 cells |-> Looped(kind, c, rels, S!Entries(relsz, relent))]
BY Zenon DEF S!Table, Patches, Looped

\* What the relocators have in common.
LEMMA Kinds ==
  ASSUME NEW a \in Archs
  PROVE  LET kind == S!Start[a].reloc IN
         /\ kind.got <=> a = "mips64el"
         /\ kind.patch = "addend" \/ a = "loongarch64" \/ kind.table = "DT_REL"
         /\ \/ kind.table = "DT_REL" /\ kind.size = "DT_RELSZ" /\ kind.entry = "DT_RELENT"
            \/ kind.table = "DT_RELA" /\ kind.size = "DT_RELASZ" /\ kind.entry = "DT_RELAENT"
         /\ a = "mips64el" => kind.table = "DT_REL"
<1>1. a \in {"x86_64", "ia32", "aarch64", "arm", "loongarch64", "riscv64", "mips64el"}
  BY StartupAssumption
<1> USE DEF S!Start, S!Rela, S!Rel
<1>2. CASE a = "x86_64"
  BY <1>2 DEF S!start_x86_64, S!reloc_x86_64
<1>3. CASE a = "ia32"
  BY <1>3 DEF S!start_ia32, S!reloc_ia32
<1>4. CASE a = "aarch64"
  BY <1>4 DEF S!start_aarch64, S!reloc_aarch64
<1>5. CASE a = "arm"
  BY <1>5 DEF S!start_arm, S!reloc_arm
<1>6. CASE a = "loongarch64"
  BY <1>6 DEF S!start_loongarch64, S!reloc_loongarch64
<1>7. CASE a = "riscv64"
  BY <1>7 DEF S!start_riscv64, S!reloc_riscv64
<1>8. CASE a = "mips64el"
  BY <1>8 DEF S!start_mips64el, S!reloc_mips64el
<1> QED BY <1>1, <1>2, <1>3, <1>4, <1>5, <1>6, <1>7, <1>8

\* What a relocation that succeeds leaves in the cells of image m.
Placed(a, m, cells) ==
  \A o \in DOMAIN cells:
    cells[o] = IF o \in S!Relative(m) \/ (a = "mips64el" /\ o \in m.got) THEN LdBase + m.link[o] ELSE m.link[o]

\* The loop, whatever it is given the cells of.
LEMMA TableFills ==
  ASSUME NEW m \in Images, NEW kind, NEW c, DOMAIN c = DOMAIN m.cells, c = [o \in DOMAIN c |-> c[o]],
         Available(kind, m, c),
         NEW relsz \in Nat, NEW relent, relsz = 0 => m.rels = <<>>,
         relent # 0 => S!Entries(relsz, relent) = Len(m.rels),
         NEW t, t = S!Table(kind, c, m.rels, relsz, relent), t.status = 0
  PROVE  t.cells = [o \in DOMAIN c |-> IF o \in S!Relative(m) THEN LdBase + m.link[o] ELSE c[o]]
<1>1. Linked(m)
  BY ImagesLinked
<1>2. UpTo(m, c, Len(m.rels)) = [o \in DOMAIN c |-> IF o \in S!Relative(m) THEN LdBase + m.link[o] ELSE c[o]]
  <2>1. DOMAIN m.rels = 1..Len(m.rels)
    BY <1>1 DEF Linked
  <2>2. \A o: (\E k \in 1..Len(m.rels): m.rels[k].type = "RELATIVE" /\ m.rels[k].offset = o) <=> o \in S!Relative(m)
    BY <2>1 DEF S!Relative
  <2> QED BY <2>2 DEF UpTo
<1>3. CASE relsz <= 0
  <2>1. t.cells = c /\ Len(m.rels) = 0
    BY <1>3, TableIs
  <2>2. UpTo(m, c, 0) = c
    BY DEF UpTo
  <2> QED BY <1>2, <2>1, <2>2
<1>4. CASE ~(relsz <= 0) /\ relent = 0
  BY <1>4, TableIs DEF S!Never
<1>5. CASE ~(relsz <= 0) /\ relent # 0
  <2>1. t.cells = Looped(kind, c, m.rels, Len(m.rels))
    BY <1>5, TableIs
  <2> QED BY <1>1, <1>2, <2>1, LoopedIs
<1> QED BY <1>3, <1>4, <1>5

\* _relocate, for every image and architecture: its answers, and what an answer
\* of 0 means.
LEMMA RelocateIs ==
  ASSUME NEW a \in Archs, NEW m \in Images, S!Start[a].reloc.table = "DT_REL" => m.inPlace,
         NEW r, r = S!Relocate(S!Start[a].reloc, m)
  PROVE  /\ r.status \in {0, S!LoadError, S!Never}
         /\ r.status = S!Never => a = "mips64el"
         /\ r.status = 0 /\ S!Tagged(m.dyn, S!Start[a].reloc.table) # 0 /\ (a = "loongarch64" => m.inPlace) =>
              Placed(a, m, r.cells)
<1> DEFINE kind == S!Start[a].reloc
           relsz == S!Tagged(m.dyn, kind.size)
           relent == S!Tagged(m.dyn, kind.entry)
           addr == S!Tagged(m.dyn, "DT_PLTGOT")
           gotsz == S!Tagged(m.dyn, "DT_MIPS_LOCAL_GOTNO")
           rel == S!Tagged(m.dyn, kind.table)
           c == IF kind.got THEN S!GotPatched(m.cells, addr, gotsz) ELSE m.cells
           t == S!Table(kind, c, m.rels, relsz, relent)
<1>1. /\ kind.got <=> a = "mips64el"
      /\ kind.patch = "addend" \/ a = "loongarch64" \/ kind.table = "DT_REL"
      /\ a = "mips64el" => kind.table = "DT_REL"
  BY Kinds
<1>2. rel # 0 => /\ relsz \in Nat
                 /\ relsz = 0 => m.rels = <<>>
                 /\ relent # 0 => S!Entries(relsz, relent) = Len(m.rels)
  <2>1. \/ kind.table = S!Rel.table /\ kind.size = S!Rel.size /\ kind.entry = S!Rel.entry
        \/ kind.table = S!Rela("addend").table /\ kind.size = S!Rela("addend").size /\ kind.entry = S!Rela("addend").entry
    BY Kinds DEF S!Rel, S!Rela
  <2>2. \A k \in {S!Rel, S!Rela("addend")}:
          S!Tagged(m.dyn, k.table) # 0 =>
            /\ S!Tagged(m.dyn, k.size) \in Nat
            /\ S!Tagged(m.dyn, k.size) = 0 => m.rels = <<>>
            /\ S!Tagged(m.dyn, k.entry) # 0 => S!Entries(S!Tagged(m.dyn, k.size), S!Tagged(m.dyn, k.entry)) = Len(m.rels)
    BY StartupAssumption
  <2> HIDE DEF kind
  <2> QED BY <2>1, <2>2
<1>3. /\ m.cells \in Seq(Int) /\ DOMAIN m.cells = 1..Len(m.cells)
      /\ \A o \in DOMAIN m.cells: m.inPlace \/ o \notin S!Relative(m) => m.cells[o] = m.link[o]
      /\ \A o \in S!Relative(m): o \in DOMAIN m.cells /\ o \notin m.got
  <2>1. Linked(m) /\ m.cells \in Seq(Int)
    BY ImagesLinked, StartupAssumption
  <2>2. \A o \in DOMAIN m.cells: m.inPlace \/ o \notin S!Relative(m) => m.cells[o] = m.link[o]
    BY StartupAssumption
  <2> QED BY <2>1, <2>2 DEF Linked, S!Relative
<1>4. rel # 0 /\ (addr = 0 => gotsz = 0) /\ kind.got => m.got = addr..(addr + gotsz - 1)
  BY <1>1, StartupAssumption
<1>5. r = IF kind.got
          THEN IF rel = 0 /\ relent = 0 /\ addr = 0 /\ gotsz = 0 THEN [status |-> 0, cells |-> m.cells]
               ELSE IF (rel = 0 /\ relent # 0) \/ (addr = 0 /\ gotsz # 0) THEN [status |-> S!LoadError, cells |-> m.cells]
               ELSE t
          ELSE IF rel = 0 /\ relent = 0 THEN [status |-> 0, cells |-> m.cells]
               ELSE IF rel = 0 \/ relent = 0 THEN [status |-> S!LoadError, cells |-> m.cells]
               ELSE t
  BY DEF S!Relocate
<1>6. /\ t.status \in {0, S!Never}
      /\ t.status = S!Never => relent = 0
  <2> HIDE DEF kind, c, relsz, relent
  <2> QED BY TableIs DEF S!Never
<1>7. /\ c = [o \in DOMAIN c |-> c[o]] /\ DOMAIN c = DOMAIN m.cells
      /\ \A o \in DOMAIN m.cells: c[o] = IF kind.got /\ o \in addr..(addr + gotsz - 1) THEN m.cells[o] + LdBase ELSE m.cells[o]
  <2> HIDE DEF addr, gotsz, kind
  <2>1. S!GotPatched(m.cells, addr, gotsz) =
          [o \in DOMAIN m.cells |-> IF o \in addr..(addr + gotsz - 1) THEN m.cells[o] + LdBase ELSE m.cells[o]]
    BY DEF S!GotPatched
  <2>2. m.cells = [o \in DOMAIN m.cells |-> m.cells[o]]
    BY <1>3
  <2>3. CASE kind.got
    BY <2>1, <2>3
  <2>4. CASE ~kind.got
    BY <2>2, <2>4
  <2> QED BY <2>3, <2>4
<1> HIDE DEF kind, relsz, relent, addr, gotsz, rel, c, t
<1>8. r.status \in {0, S!LoadError, S!Never} /\ (r.status = S!Never => a = "mips64el")
  BY <1>1, <1>5, <1>6 DEF S!LoadError, S!Never
<1>9. ASSUME r.status = 0, rel # 0, a = "loongarch64" => m.inPlace PROVE Placed(a, m, r.cells)
  <2>1. r = t /\ (kind.got => (addr = 0 => gotsz = 0))
    BY <1>5, <1>9 DEF S!LoadError
  <2>2. \A o \in DOMAIN m.cells: c[o] = IF a = "mips64el" /\ o \in m.got THEN m.cells[o] + LdBase ELSE m.cells[o]
    BY <1>1, <1>4, <1>7, <1>9, <2>1
  <2>3. Available(kind, m, c)
    <3>1. CASE kind.patch = "addend"
      BY <3>1 DEF Available
    <3>2. CASE m.inPlace
      BY <1>3, <2>2, <3>2 DEF Available
    <3> QED BY <1>1, <1>9, <3>1, <3>2 DEF kind
  <2>4. r.cells = [o \in DOMAIN c |-> IF o \in S!Relative(m) THEN LdBase + m.link[o] ELSE c[o]]
    BY <1>2, <1>7, <1>9, <2>1, <2>3, TableFills DEF t
  <2>5. \A o \in DOMAIN m.cells: m.link[o] \in Int /\ LdBase \in Int
    BY <1>3, StartupAssumption
  <2> QED BY <1>3, <1>7, <2>2, <2>4, <2>5 DEF Placed
<1> QED BY <1>8, <1>9 DEF rel, kind

-----------------------------------------------------------------------------
(* The machine, instruction by instruction. *)

\* Sequences of anything.
IsStack(s) == \E W: s \in Seq(W)

\* The stack is used by its length and its words only.
LEMMA IsStackIs == ASSUME NEW s, IsStack(s) PROVE Len(s) \in Nat /\ DOMAIN s = 1..Len(s)
BY DEF IsStack

\* A word more, several words more, and fewer words.
LEMMA Pushed ==
  ASSUME NEW s, IsStack(s), NEW x
  PROVE  LET t == Append(s, x) IN
         IsStack(t) /\ Len(t) = Len(s) + 1 /\ t[Len(s) + 1] = x /\ \A j \in 1..Len(s): t[j] = s[j]
<1>1. PICK W: s \in Seq(W)
  BY DEF IsStack
<1> DEFINE Words == W \union {x}
<1>2. s \in Seq(Words)
  BY <1>1
<1>3. x \in Words
  OBVIOUS
<1> HIDE DEF Words
<1> QED BY <1>2, <1>3 DEF IsStack

LEMMA Reserved ==
  ASSUME NEW s, IsStack(s), NEW n \in Nat, NEW x
  PROVE  LET t == s \o [k \in 1..n |-> x] IN
         IsStack(t) /\ Len(t) = Len(s) + n /\ \A j \in 1..Len(s): t[j] = s[j]
<1>1. PICK W: s \in Seq(W)
  BY DEF IsStack
<1> DEFINE Words == W \union {x}
           u == [k \in 1..n |-> x]
<1>2. s \in Seq(Words)
  BY <1>1
<1>3. u \in Seq(Words) /\ Len(u) = n
  OBVIOUS
<1> HIDE DEF Words, u
<1> QED BY <1>2, <1>3 DEF IsStack, u

LEMMA Shortened ==
  ASSUME NEW s, IsStack(s), NEW n \in 0..Len(s)
  PROVE  LET t == SubSeq(s, 1, n) IN
         IsStack(t) /\ Len(t) = n /\ \A j \in 1..n: t[j] = s[j]
<1>1. PICK W: s \in Seq(W)
  BY DEF IsStack
<1> QED BY <1>1 DEF IsStack

-----------------------------------------------------------------------------
\* Registers and a stack; what a step of the code leaves alone, and how it
\* changes a register or the stack.
Machine == IsStack(stack) /\ DOMAIN regs = S!Registers
Moves == phase' = "code" /\ UNCHANGED <<arch, image, pending, ran, given, pointers>>
Stepped == at' = at + 1 /\ Moves
NewReg(x, v) ==
  /\ stack' = stack /\ DOMAIN regs' = S!Registers /\ regs'[x] = v
  /\ \A r \in S!Registers: r # x => regs'[r] = regs[r]
NewStack(n, m) ==
  /\ regs' = regs /\ IsStack(stack') /\ Len(stack') = n
  /\ \A j \in 1..m: stack'[j] = stack[j]

\* The code is executed by these actions, each with instructions of its own.
LEMMA CodeStep ==
  ASSUME S!Next, phase = "code"
  PROVE  /\ S!Op[1] \notin {"jnz", "ret", "call", "callby"} => S!Instruction
         /\ S!Op[1] = "jnz" => S!Jump
         /\ S!Op[1] = "ret" => S!Ret
         /\ S!Op[1] \in {"call", "callby"} => S!CallRelocate \/ S!CallAnywhere \/ S!CallEntry
<1>1. S!Instruction \/ S!Jump \/ S!Ret \/ S!CallRelocate \/ S!CallAnywhere \/ S!CallEntry
  BY DEF S!Next, S!Construct, S!Destruct, S!CallFunction, S!MainReturns, S!Exit, S!EntryReturns,
         S!RtLibEnableVirtualMappings, S!Stay, S!Done
<1> QED BY <1>1 DEF S!Instruction, S!Jump, S!Ret, S!CallRelocate, S!CallAnywhere, S!CallEntry, S!Calls

\* A word taken off into a register, and one overwritten.
Popped(x, n) ==
  /\ IsStack(stack') /\ Len(stack') = n - 1
  /\ \A j \in 1..(n - 1): stack'[j] = stack[j]
  /\ DOMAIN regs' = S!Registers /\ regs'[x] = stack[n]
  /\ \A r \in S!Registers: r # x => regs'[r] = regs[r]
StoredAt(k, v) ==
  /\ regs' = regs /\ IsStack(stack') /\ Len(stack') = Len(stack) /\ stack'[k] = v
  /\ \A j \in 1..Len(stack): j # k => stack'[j] = stack[j]

\* The next step executes op.
Does(op) == S!Next /\ phase = "code" /\ Machine /\ S!Op = op

\* What each instruction does.
LEMMA DoAlloc ==
  ASSUME NEW n \in Nat, Does(<<"alloc", n>>)
  PROVE  Stepped /\ NewStack(Len(stack) + n, Len(stack))
<1>1. Stepped /\ regs' = regs /\ stack' = stack \o [k \in 1..n |-> S!AnyValue]
  BY CodeStep DEF Does, Stepped, Moves, S!Instruction, S!Go
<1> QED BY <1>1, Reserved DEF Does, Machine, NewStack

LEMMA DoFree ==
  ASSUME NEW n \in Nat, Does(<<"free", n>>)
  PROVE  /\ n <= Len(stack) => Stepped /\ NewStack(Len(stack) - n, Len(stack) - n)
         /\ n > Len(stack) => /\ phase' = "lost" /\ UNCHANGED <<arch, image, pending, ran, given, pointers>>
<1>0. Len(stack) \in Nat
  BY IsStackIs DEF Does, Machine
<1>1. \/ n <= Len(stack) /\ Stepped /\ regs' = regs /\ stack' = SubSeq(stack, 1, Len(stack) - n)
      \/ n > Len(stack) /\ phase' = "lost" /\ UNCHANGED <<arch, image, pending, ran, given, pointers>>
  BY <1>0, CodeStep DEF Does, Stepped, Moves, S!Instruction, S!Go, S!Leave
<1>2. n <= Len(stack) => Len(stack) - n \in 0..Len(stack)
  BY <1>0
<1>3. n <= Len(stack) => NewStack(Len(stack) - n, Len(stack) - n)
  <2> DEFINE m == Len(stack) - n
  <2> SUFFICES ASSUME n <= Len(stack) PROVE NewStack(m, m)
    OBVIOUS
  <2>1. m \in 0..Len(stack) /\ stack' = SubSeq(stack, 1, m) /\ regs' = regs
    BY <1>0, <1>1, <1>2
  <2> HIDE DEF m
  <2> QED BY <2>1, Shortened DEF Does, Machine, NewStack
<1> QED BY <1>0, <1>1, <1>3

LEMMA DoPush ==
  ASSUME NEW x, Does(<<"push", x>>)
  PROVE  Stepped /\ NewStack(Len(stack) + 1, Len(stack)) /\ stack'[Len(stack) + 1] = regs[x]
<1>1. Stepped /\ regs' = regs /\ stack' = Append(stack, regs[x])
  BY CodeStep DEF Does, Stepped, Moves, S!Instruction, S!Go
<1> QED BY <1>1, Pushed DEF Does, Machine, NewStack

LEMMA DoPop ==
  ASSUME NEW x \in S!Registers, Does(<<"pop", x>>), Len(stack) > 0
  PROVE  Stepped /\ Popped(x, Len(stack))
<1>0. Len(stack) \in Nat /\ Len(stack) - 1 \in 0..Len(stack)
  BY IsStackIs DEF Does, Machine
<1>1. Stepped /\ regs' = [regs EXCEPT ![x] = stack[Len(stack)]] /\ stack' = SubSeq(stack, 1, Len(stack) - 1)
  BY CodeStep DEF Does, Stepped, Moves, S!Instruction, S!Go, S!Last, S!Front
<1>2. /\ IsStack(stack') /\ Len(stack') = Len(stack) - 1
      /\ \A j \in 1..(Len(stack) - 1): stack'[j] = stack[j]
  BY <1>0, <1>1, Shortened DEF Does, Machine
<1> QED BY <1>1, <1>2 DEF Does, Machine, Popped

LEMMA DoStore ==
  ASSUME NEW x, NEW k \in Nat, k < Len(stack), Does(<<"store", x, k>>)
  PROVE  Stepped /\ StoredAt(Len(stack) - k, regs[x])
<1> DEFINE slot == Len(stack) - k
<1>0. slot \in 1..Len(stack)
  BY IsStackIs DEF Does, Machine
<1>1. Stepped /\ regs' = regs /\ stack' = [stack EXCEPT ![slot] = regs[x]]
  BY CodeStep DEF Does, Stepped, Moves, S!Instruction, S!Go, S!Slot
<1> HIDE DEF slot
<1>2. /\ IsStack(stack') /\ Len(stack') = Len(stack) /\ stack'[slot] = regs[x]
      /\ \A j \in 1..Len(stack): j # slot => stack'[j] = stack[j]
  <2>1. PICK W: stack \in Seq(W)
    BY DEF Does, Machine, IsStack
  <2> DEFINE Words == W \union {regs[x]}
  <2>2. stack \in Seq(Words) /\ regs[x] \in Words
    BY <2>1
  <2> HIDE DEF Words
  <2>3. stack' \in Seq(Words)
    BY <1>0, <1>1, <2>2
  <2> QED BY <1>0, <1>1, <2>2, <2>3 DEF IsStack
<1> QED BY <1>1, <1>2 DEF slot, StoredAt

LEMMA DoLoad ==
  ASSUME NEW x \in S!Registers, NEW k, Does(<<"load", x, k>>)
  PROVE  Stepped /\ NewReg(x, stack[Len(stack) - k])
<1>1. Stepped /\ stack' = stack /\ regs' = [regs EXCEPT ![x] = stack[Len(stack) - k]]
  BY CodeStep DEF Does, Stepped, Moves, S!Instruction, S!Go, S!Slot
<1> QED BY <1>1 DEF Does, Machine, NewReg

LEMMA DoSet ==
  ASSUME NEW x \in S!Registers, NEW v, Does(<<"set", x, v>>)
  PROVE  Stepped /\ NewReg(x, <<v>>)
<1>1. Stepped /\ stack' = stack /\ regs' = [regs EXCEPT ![x] = <<v>>]
  BY CodeStep DEF Does, Stepped, Moves, S!Instruction, S!Go
<1> QED BY <1>1 DEF Does, Machine, NewReg

LEMMA DoFrame ==
  ASSUME NEW x \in S!Registers, Does(<<"frame", x>>)
  PROVE  Stepped /\ NewReg(x, <<"top", Len(stack)>>)
<1>1. Stepped /\ stack' = stack /\ regs' = [regs EXCEPT ![x] = <<"top", Len(stack)>>]
  BY CodeStep DEF Does, Stepped, Moves, S!Instruction, S!Go
<1> QED BY <1>1 DEF Does, Machine, NewReg

LEMMA DoPushFrame ==
  ASSUME NEW x, NEW k, NEW n, regs[x] = <<"top", n>>, Does(<<"pushframe", x, k>>)
  PROVE  Stepped /\ NewStack(Len(stack) + 1, Len(stack)) /\ stack'[Len(stack) + 1] = stack[n - k]
<1>1. Stepped /\ regs' = regs /\ stack' = Append(stack, stack[n - k])
  BY CodeStep DEF Does, Stepped, Moves, S!Instruction, S!Go
<1> QED BY <1>1, Pushed DEF Does, Machine, NewStack

LEMMA DoLeave ==
  ASSUME NEW x \in S!Registers, NEW n \in 1..Len(stack), regs[x] = <<"top", n>>, Does(<<"leave", x>>)
  PROVE  Stepped /\ Popped(x, n)
<1>0. Len(stack) \in Nat /\ n - 1 \in 0..Len(stack)
  BY IsStackIs DEF Does, Machine
<1>1. Stepped /\ regs' = [regs EXCEPT ![x] = stack[n]] /\ stack' = SubSeq(stack, 1, n - 1)
  BY CodeStep DEF Does, Stepped, Moves, S!Instruction, S!Go
<1>2. /\ IsStack(stack') /\ Len(stack') = n - 1
      /\ \A j \in 1..(n - 1): stack'[j] = stack[j]
  BY <1>0, <1>1, Shortened DEF Does, Machine
<1> QED BY <1>1, <1>2 DEF Does, Machine, Popped

LEMMA DoBal ==
  ASSUME Does(<<"bal">>)
  PROVE  Stepped /\ NewReg("ra", <<"_pc">>)
<1>1. Stepped /\ stack' = stack /\ regs' = [regs EXCEPT !["ra"] = <<"_pc">>]
  BY CodeStep DEF Does, Stepped, Moves, S!Instruction, S!Go
<1> QED BY <1>1 DEF Does, Machine, NewReg, S!Registers

LEMMA DoRelative ==
  ASSUME NEW x \in S!Registers, NEW v, Does(<<"relative", x, v>>)
  PROVE  Stepped /\ NewReg(x, IF regs["ra"] = <<"_pc">> THEN <<v>> ELSE S!AnyValue)
<1>1. Stepped /\ stack' = stack /\ regs' = [regs EXCEPT ![x] = IF regs["ra"] = <<"_pc">> THEN <<v>> ELSE S!AnyValue]
  BY CodeStep DEF Does, Stepped, Moves, S!Instruction, S!Go
<1> QED BY <1>1 DEF Does, Machine, NewReg

LEMMA DoJump ==
  ASSUME NEW x, NEW k, Does(<<"jnz", x, k>>)
  PROVE  at' = (IF regs[x] # <<"status", 0>> THEN k ELSE at + 1) /\ Moves /\ UNCHANGED <<regs, stack>>
BY CodeStep DEF Does, Moves, S!Jump

\* Where a call leaves what the callers look at.
LEMMA DoRelocate ==
  ASSUME Does(<<"call", "_relocate">>) \/ (\E x: Does(<<"callby", x>>) /\ regs[x] = <<"_relocate">>)
  PROVE  LET r == S!Relocate(S!S.reloc, image) IN
         /\ image' = [image EXCEPT !.cells = r.cells]
         /\ given' = [given EXCEPT !.status = r.status]
         /\ r.status = S!Never => phase' = "hangs"
         /\ r.status # S!Never => /\ phase' = "code" /\ at' = at + 1 /\ stack' = stack
                                  /\ regs' = S!AfterCall(r.status)
         /\ UNCHANGED <<arch, pending, ran, pointers>>
<1>1. S!CallRelocate
  BY CodeStep DEF Does, S!CallAnywhere, S!CallEntry, S!Calls
<1> QED BY <1>1 DEF S!CallRelocate, S!Go, S!Leave, Does

LEMMA DoAnywhere ==
  ASSUME NEW x, Does(<<"callby", x>>), regs[x] = S!AnyValue
  PROVE  phase' = "lost" /\ UNCHANGED <<arch, image, pending, ran, given, pointers>>
<1>1. S!CallAnywhere
  BY CodeStep DEF Does, S!CallRelocate, S!CallEntry, S!Calls, S!AnyValue
<1> QED BY <1>1 DEF S!CallAnywhere, S!Leave

LEMMA DoEntry == ASSUME Does(<<"call", "_entry">>) PROVE S!CallEntry
BY CodeStep DEF Does, S!CallRelocate, S!CallAnywhere, S!Calls

\* Where ret goes.
LEMMA DoRet ==
  ASSUME Does(<<"ret">>), Len(stack) > 0,
         NEW target, target = IF S!S.link = "stack" THEN stack[Len(stack)] ELSE regs[S!S.link]
  PROVE  /\ stack' = IF S!S.link = "stack" THEN S!Front(stack) ELSE stack
         /\ target = S!Firmware => phase' = "returned"
         /\ \A k: target = <<"behind", k>> => phase' = "code" /\ at' = k
         /\ UNCHANGED <<arch, image, regs, pending, ran, given, pointers>>
<1>1. S!Ret
  BY CodeStep DEF Does
<1> QED BY <1>1 DEF S!Ret, S!Last, Does, S!Firmware

\* Before the relocator was called, and what its success means.
Fresh == image \in Images /\ (S!S.reloc.table = "DT_REL" => image.inPlace) /\ given.status = 0
PlacedNow ==
  given.status = 0 /\ S!Tagged(image.dyn, S!S.reloc.table) # 0 /\ (arch = "loongarch64" => image.inPlace) =>
    Placed(arch, image, image.cells)
Ctors == S!ctors(image)
Dtors == S!dtors(image)

\* What _entry is to be given, and when it runs.
Passed == <<S!Handle, S!SystemTable>>
GivenOK == DOMAIN given = {"status", "args"} /\ given.args \in {<<>>, Passed}
InEntry == phase \in {"constructing", "destructing"}

\* They depend on the architecture, the image and what was given only.
LEMMA FreshKept ==
  ASSUME UNCHANGED <<arch, image, given>>
  PROVE  (Fresh' <=> Fresh) /\ (PlacedNow' <=> PlacedNow) /\ Ctors' = Ctors /\ Dtors' = Dtors
BY DEF Fresh, PlacedNow, Placed, S!S, S!Relative, Ctors, Dtors, S!ctors, S!dtors

\* The registers after a call.
LEMMA AfterCallIs ==
  ASSUME NEW status, NEW v, v = S!AfterCall(status)
  PROVE  /\ DOMAIN v = S!Registers
         /\ S!S.result \in S!Registers => v[S!S.result] = <<"status", status>>
         /\ S!S.link \in S!Registers /\ S!S.link # S!S.result => v[S!S.link] = <<"behind", at + 1>>
         /\ \A r \in S!Registers:
              r # S!S.result /\ r # S!S.link /\ r \notin {S!S.args[k]: k \in DOMAIN S!S.args} => v[r] = regs[r]
BY DEF S!AfterCall

\* What the code does at a call of the relocator.
LEMMA Relocates ==
  ASSUME Fresh, arch \in Archs, GivenOK,
         Does(<<"call", "_relocate">>) \/ (\E x: Does(<<"callby", x>>) /\ regs[x] = <<"_relocate">>)
  PROVE  /\ PlacedNow' /\ GivenOK' /\ given'.args = given.args /\ Ctors' = Ctors /\ Dtors' = Dtors
         /\ UNCHANGED <<arch, pending, ran, pointers>>
         /\ \/ arch = "mips64el" /\ phase' = "hangs"
            \/ /\ phase' = "code" /\ at' = at + 1 /\ stack' = stack
               /\ regs' = S!AfterCall(given'.status)
<1> DEFINE r == S!Relocate(S!S.reloc, image)
<1>1. /\ image' = [image EXCEPT !.cells = r.cells]
      /\ given' = [given EXCEPT !.status = r.status]
      /\ r.status = S!Never => phase' = "hangs"
      /\ r.status # S!Never => /\ phase' = "code" /\ at' = at + 1 /\ stack' = stack
                               /\ regs' = S!AfterCall(r.status)
      /\ UNCHANGED <<arch, pending, ran, pointers>>
  BY DoRelocate
<1>2. /\ r.status = S!Never => arch = "mips64el"
      /\ r.status = 0 /\ S!Tagged(image.dyn, S!S.reloc.table) # 0 /\ (arch = "loongarch64" => image.inPlace) =>
           Placed(arch, image, r.cells)
  BY RelocateIs DEF Fresh, S!S
<1> HIDE DEF r
<1>3. /\ given'.status = r.status /\ given'.args = given.args /\ GivenOK'
  BY <1>1 DEF GivenOK
<1>4. /\ image'.cells = r.cells
      /\ image'.dyn = image.dyn /\ image'.rels = image.rels /\ image'.link = image.link
      /\ image'.inPlace = image.inPlace /\ image'.got = image.got
      /\ image'.init_array = image.init_array /\ image'.ctors = image.ctors
      /\ image'.dtors = image.dtors /\ image'.fini_array = image.fini_array
  <2>1. image \in [dyn: Seq(STRING \X Nat), rels: Seq([type: STRING, offset: Nat, addend: Int]), link: Seq(Int),
                   inPlace: BOOLEAN, got: SUBSET Nat, cells: Seq(Int),
                   init_array: Seq(STRING), ctors: Seq(STRING), dtors: Seq(STRING), fini_array: Seq(STRING)]
    BY StartupAssumption DEF Fresh
  <2> QED BY <1>1, <2>1
<1>5. PlacedNow'
  <2>1. S!Relative(image)' = S!Relative(image) /\ S!S' = S!S
    BY <1>1, <1>4 DEF S!Relative, S!S
  <2>2. Placed(arch, image, image.cells)' <=> Placed(arch, image, r.cells)
    BY <1>1, <1>4, <2>1 DEF Placed
  <2> QED BY <1>1, <1>2, <1>3, <1>4, <2>1, <2>2 DEF PlacedNow
<1>6. Ctors' = Ctors /\ Dtors' = Dtors
  BY <1>4 DEF Ctors, Dtors, S!ctors, S!dtors
<1> QED BY <1>1, <1>2, <1>3, <1>5, <1>6

\* The parts of the state the code does not work on.
Same ==
  /\ UNCHANGED <<arch, pending, ran, pointers>> /\ GivenOK' /\ given'.args = given.args
  /\ Ctors' = Ctors /\ Dtors' = Dtors
  /\ given.args # <<>> => UNCHANGED <<image, given>>

\* What CallerKept says of the stack and the registers.
Back ==
  /\ stack = IF S!S.link = "stack" THEN S!Front(S!Caller(arch)) ELSE S!Caller(arch)
  /\ \A r \in S!S.kept:
       regs[r] = S!Kept \/ <<arch, r>> \in {<<"x86_64", "rdi">>, <<"x86_64", "rsi">>, <<"ia32", "ebx">>}

\* Where a step of the code leads; kept is the invariant of the architecture
\* after it.
Outcome(kept) ==
  \/ phase' = "code" /\ Same /\ Machine' /\ kept
  \/ /\ S!CallEntry /\ Machine' /\ kept /\ given.args = <<>>
     /\ given' = [given EXCEPT !.args = Passed] /\ PlacedNow /\ (given.status # 0 => arch = "x86_64")
  \/ phase' = "returned" /\ Same /\ Back'
  \/ phase' = "lost" /\ Same /\ arch \in {"riscv64", "mips64el"} /\ given'.status # 0
  \/ phase' = "hangs" /\ Same /\ arch = "mips64el"

\* Most steps leave all of that alone.
LEMMA SameIf ==
  ASSUME UNCHANGED <<arch, image, pending, ran, given, pointers>>, GivenOK PROVE Same
BY FreshKept DEF Same, GivenOK, Passed, S!Handle, S!SystemTable

LEMMA MovesSame == ASSUME Moves, GivenOK PROVE phase' = "code" /\ Same
BY SameIf DEF Moves

\* _entry is given what the code put where the convention has it.
LEMMA EntryKeeps ==
  ASSUME given' = [given EXCEPT !.args = Passed], UNCHANGED <<arch, image>>, GivenOK
  PROVE  /\ given'.args = Passed /\ given'.status = given.status /\ GivenOK'
         /\ (PlacedNow' <=> PlacedNow) /\ Ctors' = Ctors /\ Dtors' = Dtors
<1>1. given'.args = Passed /\ given'.status = given.status /\ DOMAIN given' = {"status", "args"}
  BY DEF GivenOK
<1> QED BY <1>1 DEF PlacedNow, Placed, S!S, S!Relative, Ctors, Dtors, S!ctors, S!dtors, GivenOK, Passed,
               S!Handle, S!SystemTable

\* A stack of a known length is a tuple.
LEMMA Tuple1 == ASSUME NEW s, IsStack(s), Len(s) = 1 PROVE s = <<s[1]>>
BY DEF IsStack
LEMMA Tuple2 == ASSUME NEW s, IsStack(s), Len(s) = 2 PROVE s = <<s[1], s[2]>>
BY DEF IsStack
LEMMA Tuple4 == ASSUME NEW s, IsStack(s), Len(s) = 4 PROVE s = <<s[1], s[2], s[3], s[4]>>
BY DEF IsStack

-----------------------------------------------------------------------------
\* crt0-efi-x86_64.S.
X86 ==
  /\ at \in 1..15 /\ (InEntry => at = 13)
  /\ phase = "code" /\ at <= 13 => given.args = <<>>
  /\ at <= 10 => Fresh
  /\ at > 10 => PlacedNow
  /\ Len(stack) = IF at \in {1, 15} THEN 2 ELSE IF at \in {2, 8, 13, 14} THEN 3 ELSE IF at \in {3, 7, 9, 12} THEN 4 ELSE 5
  /\ stack[1] = S!Frame /\ stack[2] = S!Firmware
  /\ at \in 3..7 => stack[4] = S!Handle
  /\ at \in 9..12 => stack[4] = S!SystemTable
  /\ at \in 4..6 => stack[5] = S!SystemTable
  /\ at \in 10..11 => stack[5] = S!Handle
  /\ at <= 6 => regs["rcx"] = S!Handle
  /\ at \in 7..10 => regs["rcx"] = S!SystemTable
  /\ at <= 7 => regs["rdx"] = S!SystemTable
  /\ at \in 8..10 => regs["rdx"] = S!Handle
  /\ at \in 12..13 => regs["rdi"] = S!Handle
  /\ at = 13 => regs["rsi"] = S!SystemTable

LEMMA X86Code ==
  ASSUME arch = "x86_64", X86, phase = "code", S!Next, Machine
  PROVE  /\ at = 1 => Does(<<"alloc", 1>>)
         /\ at \in {2, 8} => Does(<<"push", "rcx">>)
         /\ at \in {3, 9} => Does(<<"push", "rdx">>)
         /\ at = 4 => Does(<<"set", "rdi", "ImageBase">>)
         /\ at = 5 => Does(<<"set", "rsi", "_DYNAMIC">>)
         /\ at = 6 => Does(<<"pop", "rcx">>)
         /\ at = 7 => Does(<<"pop", "rdx">>)
         /\ at = 10 => Does(<<"call", "_relocate">>)
         /\ at = 11 => Does(<<"pop", "rdi">>)
         /\ at = 12 => Does(<<"pop", "rsi">>)
         /\ at = 13 => Does(<<"call", "_entry">>)
         /\ at = 14 => Does(<<"free", 1>>)
         /\ at = 15 => Does(<<"ret">>)
<1>1. S!Op = S!start_x86_64.code[at] /\ Does(S!Op)
  BY DEF S!Op, S!S, S!Start, Does
<1> QED BY <1>1 DEF S!start_x86_64

LEMMA X86Step ==
  ASSUME X86, arch = "x86_64", S!Next, phase = "code", Machine, at \notin {10, 13, 15}
  PROVE  Moves /\ Machine' /\ X86'
<1>1. Len(stack) \in Nat
  BY IsStackIs DEF Machine
<1>2. {"rcx", "rdx", "rdi", "rsi"} \subseteq S!Registers
  BY DEF S!Registers
<1>3. Moves => (Fresh' <=> Fresh) /\ (PlacedNow' <=> PlacedNow)
  BY FreshKept DEF Moves
<1>4. CASE at = 1
  <2>1. Stepped /\ NewStack(Len(stack) + 1, Len(stack))
    BY <1>4, X86Code, DoAlloc
  <2> QED BY <1>1, <1>3, <1>4, <2>1 DEF X86, Stepped, Moves, NewStack, Machine, InEntry
<1>5. CASE at \in {2, 3, 8, 9}
  <2> DEFINE x == IF at \in {2, 8} THEN "rcx" ELSE "rdx"
  <2>1. Stepped /\ NewStack(Len(stack) + 1, Len(stack)) /\ stack'[Len(stack) + 1] = regs[x]
    BY <1>5, X86Code, DoPush
  <2> QED BY <1>1, <1>3, <1>5, <2>1 DEF X86, Stepped, Moves, NewStack, Machine, InEntry
<1>6. CASE at \in {4, 5}
  <2>1. Stepped /\ NewReg(IF at = 4 THEN "rdi" ELSE "rsi", <<IF at = 4 THEN "ImageBase" ELSE "_DYNAMIC">>)
    BY <1>2, <1>6, X86Code, DoSet
  <2> QED BY <1>1, <1>2, <1>3, <1>6, <2>1 DEF X86, Stepped, Moves, NewReg, Machine, InEntry
<1>7. CASE at \in {6, 7, 11, 12}
  <2> DEFINE x == IF at = 6 THEN "rcx" ELSE IF at = 7 THEN "rdx" ELSE IF at = 11 THEN "rdi" ELSE "rsi"
  <2>1. Len(stack) > 0
    BY <1>7 DEF X86
  <2>2. Stepped /\ Popped(x, Len(stack))
    BY <1>2, <1>7, <2>1, X86Code, DoPop
  <2> QED BY <1>1, <1>2, <1>3, <1>7, <2>2 DEF X86, Stepped, Moves, Popped, Machine, InEntry
<1>8. CASE at = 14
  <2>1. Stepped /\ NewStack(Len(stack) - 1, Len(stack) - 1)
    BY <1>1, <1>8, X86Code, DoFree DEF X86
  <2> QED BY <1>1, <1>3, <1>8, <2>1 DEF X86, Stepped, Moves, NewStack, Machine, InEntry
<1> QED BY <1>4, <1>5, <1>6, <1>7, <1>8 DEF X86

\* Its calls and its return.
LEMMA X86Keeps ==
  ASSUME X86, arch = "x86_64", arch \in Archs, S!Next, phase = "code", Machine, GivenOK
  PROVE  Outcome(X86')
<1>1. S!S.args = <<"rdi", "rsi">> /\ S!S.link = "stack" /\ S!S.result = "rax" /\ S!S.kept = {"rdi", "rsi"}
  BY DEF S!S, S!Start, S!start_x86_64
<1>2. CASE at \notin {10, 13, 15}
  BY <1>2, X86Step, MovesSame DEF Outcome
<1>3. CASE at = 10
  <2>1. Does(<<"call", "_relocate">>) /\ Fresh
    BY <1>3, X86Code DEF X86
  <2>2. /\ PlacedNow' /\ GivenOK' /\ given'.args = given.args /\ Ctors' = Ctors /\ Dtors' = Dtors
        /\ UNCHANGED <<arch, pending, ran, pointers>>
        /\ phase' = "code" /\ at' = 11 /\ stack' = stack /\ regs' = S!AfterCall(given'.status)
    BY <1>3, <2>1, Relocates
  <2>3. DOMAIN regs' = S!Registers
    BY <1>1, <1>3, <2>2, AfterCallIs DEF S!Registers
  <2> QED BY <1>3, <2>2, <2>3 DEF X86, Same, Machine, InEntry, Outcome
<1>4. CASE at = 13
  <2>1. S!CallEntry
    BY <1>4, X86Code, DoEntry
  <2>2. given' = [given EXCEPT !.args = Passed]
    BY <1>1, <1>4, <2>1 DEF S!CallEntry, X86, Passed
  <2>3. phase' = "constructing" /\ UNCHANGED <<arch, image, at, regs, stack, ran>>
    BY <2>1 DEF S!CallEntry
  <2> QED BY <1>4, <2>1, <2>2, <2>3, EntryKeeps DEF X86, InEntry, Machine, Outcome
<1>5. CASE at = 15
  <2>1. stack = <<S!Frame, S!Firmware>> /\ Len(stack) = 2
    BY <1>5, Tuple2 DEF X86, Machine
  <2>2. S!Caller(arch) = <<S!Frame, S!Firmware>>
    BY DEF S!Caller, S!Start, S!start_x86_64
  <2>3. stack[Len(stack)] = S!Firmware
    BY <1>1, <1>5 DEF X86
  <2>4. /\ stack' = S!Front(stack) /\ phase' = "returned"
        /\ UNCHANGED <<arch, image, regs, pending, ran, given, pointers>>
    BY <1>1, <1>5, <2>1, <2>3, X86Code, DoRet
  <2>5. Back'
    BY <1>1, <1>5, <2>1, <2>2, <2>4 DEF Back, S!S, S!Caller, X86
  <2> QED BY <2>4, <2>5, SameIf DEF Outcome
<1> QED BY <1>2, <1>3, <1>4, <1>5

LEMMA X86Returns ==
  ASSUME X86, arch = "x86_64", S!EntryReturns, Machine PROVE Machine' /\ X86'
<1>1. at = 13 /\ at' = 14 /\ phase' = "code" /\ stack' = stack /\ UNCHANGED <<arch, image, given>>
  BY DEF S!EntryReturns, X86, InEntry
<1>2. DOMAIN regs' = S!Registers
  BY AfterCallIs DEF S!EntryReturns
<1> QED BY <1>1, <1>2, FreshKept DEF X86, Machine, InEntry

-----------------------------------------------------------------------------
\* crt0-efi-ia32.S.
IA32 ==
  /\ at \in 1..15 /\ (InEntry => at = 13)
  /\ phase = "code" /\ at <= 13 => given.args = <<>>
  /\ at <= 9 => Fresh
  /\ at > 9 => PlacedNow
  /\ at \in 10..12 => regs["eax"] = <<"status", given.status>>
  /\ at = 13 => given.status = 0
  /\ Len(stack) = IF at \in {1, 15} THEN 4 ELSE IF at \in {2, 3} THEN 5 ELSE IF at = 4 THEN 6
                  ELSE IF at \in {8, 11} THEN 8 ELSE IF at \in {9, 10} THEN 9 ELSE 7
  /\ stack[1] = S!Frame /\ stack[2] = S!SystemTable /\ stack[3] = S!Handle /\ stack[4] = S!Firmware
  /\ at \in 2..14 => stack[5] = S!Kept
  /\ at \in 4..14 => stack[6] = S!SystemTable
  /\ at \in 5..14 => stack[7] = S!Handle
  /\ at \in {1, 15} => regs["ebp"] = S!Kept
  /\ at \in 3..14 => regs["ebp"] = <<"top", 5>>

LEMMA IA32Code ==
  ASSUME arch = "ia32", IA32, phase = "code", S!Next, Machine
  PROVE  /\ at = 1 => Does(<<"push", "ebp">>)
         /\ at = 2 => Does(<<"frame", "ebp">>)
         /\ at = 3 => Does(<<"pushframe", "ebp", 3>>)
         /\ at = 4 => Does(<<"pushframe", "ebp", 2>>)
         /\ at = 5 => Does(<<"set", "eax", "ImageBase">>)
         /\ at = 6 => Does(<<"set", "ebx", "_DYNAMIC">>)
         /\ at = 7 => Does(<<"push", "ebx">>)
         /\ at = 8 => Does(<<"push", "eax">>)
         /\ at = 9 => Does(<<"call", "_relocate">>)
         /\ at \in {10, 11} => Does(<<"pop", "ebx">>)
         /\ at = 12 => Does(<<"jnz", "eax", 14>>)
         /\ at = 13 => Does(<<"call", "_entry">>)
         /\ at = 14 => Does(<<"leave", "ebp">>)
         /\ at = 15 => Does(<<"ret">>)
<1>1. S!Op = S!start_ia32.code[at] /\ Does(S!Op)
  BY DEF S!Op, S!S, S!Start, Does
<1> QED BY <1>1 DEF S!start_ia32

LEMMA IA32Step ==
  ASSUME IA32, arch = "ia32", S!Next, phase = "code", Machine, at \notin {9, 13, 15}
  PROVE  Moves /\ Machine' /\ IA32'
<1>1. Len(stack) \in Nat
  BY IsStackIs DEF Machine
<1>2. {"eax", "ebx", "ebp"} \subseteq S!Registers
  BY DEF S!Registers
<1>3. Moves => (Fresh' <=> Fresh) /\ (PlacedNow' <=> PlacedNow)
  BY FreshKept DEF Moves
<1>4. CASE at \in {1, 7, 8}
  <2> DEFINE x == IF at = 1 THEN "ebp" ELSE IF at = 7 THEN "ebx" ELSE "eax"
  <2>1. Stepped /\ NewStack(Len(stack) + 1, Len(stack)) /\ stack'[Len(stack) + 1] = regs[x]
    BY <1>4, IA32Code, DoPush
  <2> QED BY <1>1, <1>3, <1>4, <2>1 DEF IA32, Stepped, Moves, NewStack, Machine, InEntry
<1>5. CASE at = 2
  <2>1. Stepped /\ NewReg("ebp", <<"top", Len(stack)>>)
    BY <1>2, <1>5, IA32Code, DoFrame
  <2> QED BY <1>1, <1>2, <1>3, <1>5, <2>1 DEF IA32, Stepped, Moves, NewReg, Machine, InEntry
<1>6. CASE at \in {3, 4}
  <2> DEFINE k == IF at = 3 THEN 3 ELSE 2
  <2>1. regs["ebp"] = <<"top", 5>>
    BY <1>6 DEF IA32
  <2>2. Stepped /\ NewStack(Len(stack) + 1, Len(stack)) /\ stack'[Len(stack) + 1] = stack[5 - k]
    BY <1>6, <2>1, IA32Code, DoPushFrame
  <2> QED BY <1>1, <1>3, <1>6, <2>2 DEF IA32, Stepped, Moves, NewStack, Machine, InEntry
<1>7. CASE at \in {5, 6}
  <2>1. Stepped /\ NewReg(IF at = 5 THEN "eax" ELSE "ebx", <<IF at = 5 THEN "ImageBase" ELSE "_DYNAMIC">>)
    BY <1>2, <1>7, IA32Code, DoSet
  <2> QED BY <1>1, <1>2, <1>3, <1>7, <2>1 DEF IA32, Stepped, Moves, NewReg, Machine, InEntry
<1>8. CASE at \in {10, 11}
  <2> DEFINE x == "ebx"
  <2>1. Len(stack) > 0
    BY <1>8 DEF IA32
  <2>2. Stepped /\ Popped(x, Len(stack))
    BY <1>2, <1>8, <2>1, IA32Code, DoPop
  <2> QED BY <1>1, <1>2, <1>3, <1>8, <2>2 DEF IA32, Stepped, Moves, Popped, Machine, InEntry
<1>9. CASE at = 12
  <2>1. at' = (IF regs["eax"] # <<"status", 0>> THEN 14 ELSE at + 1) /\ Moves /\ UNCHANGED <<regs, stack>>
    BY <1>9, IA32Code, DoJump
  <2> QED BY <1>1, <1>3, <1>9, <2>1 DEF IA32, Moves, Machine, InEntry
<1>10. CASE at = 14
  <2>1. Len(stack) = 7 /\ 5 \in 1..Len(stack) /\ regs["ebp"] = <<"top", 5>>
    BY <1>10 DEF IA32
  <2>2. Stepped /\ Popped("ebp", 5)
    BY <1>2, <1>10, <2>1, IA32Code, DoLeave
  <2> QED BY <1>1, <1>2, <1>3, <1>10, <2>1, <2>2 DEF IA32, Stepped, Moves, Popped, Machine, InEntry
<1> QED BY <1>4, <1>5, <1>6, <1>7, <1>8, <1>9, <1>10 DEF IA32

\* Its calls and its return.
LEMMA IA32Keeps ==
  ASSUME IA32, arch = "ia32", arch \in Archs, S!Next, phase = "code", Machine, GivenOK
  PROVE  Outcome(IA32')
<1>1. S!S.args = <<>> /\ S!S.link = "stack" /\ S!S.result = "eax" /\ S!S.kept = {"ebx", "ebp"}
  BY DEF S!S, S!Start, S!start_ia32
<1>2. CASE at \notin {9, 13, 15}
  BY <1>2, IA32Step, MovesSame DEF Outcome
<1>3. CASE at = 9
  <2>1. Does(<<"call", "_relocate">>) /\ Fresh
    BY <1>3, IA32Code DEF IA32
  <2>2. /\ PlacedNow' /\ GivenOK' /\ given'.args = given.args /\ Ctors' = Ctors /\ Dtors' = Dtors
        /\ UNCHANGED <<arch, pending, ran, pointers>>
        /\ phase' = "code" /\ at' = 10 /\ stack' = stack /\ regs' = S!AfterCall(given'.status)
    BY <1>3, <2>1, Relocates
  <2>3. DOMAIN regs' = S!Registers /\ regs'["eax"] = <<"status", given'.status>> /\ regs'["ebp"] = regs["ebp"]
    BY <1>1, <1>3, <2>2, AfterCallIs DEF S!Registers
  <2> QED BY <1>3, <2>2, <2>3 DEF IA32, Same, Machine, InEntry, Outcome
<1>4. CASE at = 13
  <2>1. S!CallEntry
    BY <1>4, IA32Code, DoEntry
  <2>2. given' = [given EXCEPT !.args = Passed]
    BY <1>1, <1>4, <2>1 DEF S!CallEntry, IA32, Passed, S!Slot
  <2>3. phase' = "constructing" /\ UNCHANGED <<arch, image, at, regs, stack, ran>>
    BY <2>1 DEF S!CallEntry
  <2> QED BY <1>4, <2>1, <2>2, <2>3, EntryKeeps DEF IA32, InEntry, Machine, Outcome
<1>5. CASE at = 15
  <2>1. stack = <<S!Frame, S!SystemTable, S!Handle, S!Firmware>> /\ Len(stack) = 4
    BY <1>5, Tuple4 DEF IA32, Machine
  <2>2. S!Caller(arch) = <<S!Frame, S!SystemTable, S!Handle, S!Firmware>>
    BY DEF S!Caller, S!Start, S!start_ia32
  <2>3. stack[Len(stack)] = S!Firmware
    BY <1>1, <1>5 DEF IA32
  <2>4. /\ stack' = S!Front(stack) /\ phase' = "returned"
        /\ UNCHANGED <<arch, image, regs, pending, ran, given, pointers>>
    BY <1>1, <1>5, <2>1, <2>3, IA32Code, DoRet
  <2>5. Back'
    BY <1>1, <1>5, <2>1, <2>2, <2>4 DEF Back, S!S, S!Caller, IA32
  <2> QED BY <2>4, <2>5, SameIf DEF Outcome
<1> QED BY <1>2, <1>3, <1>4, <1>5

LEMMA IA32Returns ==
  ASSUME IA32, arch = "ia32", S!EntryReturns, Machine PROVE Machine' /\ IA32'
<1>1. at = 13 /\ at' = 14 /\ phase' = "code" /\ stack' = stack /\ UNCHANGED <<arch, image, given>>
  BY DEF S!EntryReturns, IA32, InEntry
<1>3. S!S.args = <<>> /\ S!S.link = "stack" /\ S!S.result = "eax" /\ "ebp" \in S!Registers
  BY DEF S!S, S!Start, S!start_ia32, S!Registers
<1>2. DOMAIN regs' = S!Registers /\ regs'["ebp"] = regs["ebp"]
  BY <1>3, AfterCallIs DEF S!EntryReturns
<1> QED BY <1>1, <1>2, FreshKept DEF IA32, Machine, InEntry

-----------------------------------------------------------------------------
\* crt0-efi-aarch64.S.
AArch64 ==
  /\ at \in 1..17 /\ (InEntry => at = 13)
  /\ phase = "code" /\ at <= 13 => given.args = <<>>
  /\ at <= 9 => Fresh
  /\ at > 9 => PlacedNow
  /\ at = 10 => regs["x0"] = <<"status", given.status>>
  /\ at \in 11..13 => given.status = 0
  /\ Len(stack) = IF at \in {1, 17} THEN 1 ELSE 5
  /\ stack[1] = S!Frame
  /\ at \in 3..16 => stack[5] = S!Kept
  /\ at \in 4..16 => stack[4] = S!Firmware
  /\ at \in 6..16 => stack[3] = S!Handle
  /\ at \in 7..16 => stack[2] = S!SystemTable
  /\ at \in {1, 2, 15, 16, 17} => regs["x29"] = S!Kept
  /\ at \in {1, 2, 3, 16, 17} => regs["x30"] = S!Firmware
  /\ at \in {1, 2, 3, 4, 5, 12, 13} => regs["x0"] = S!Handle
  /\ at \in {1, 2, 3, 4, 5, 6, 13} => regs["x1"] = S!SystemTable

LEMMA AArch64Code ==
  ASSUME arch = "aarch64", AArch64, phase = "code", S!Next, Machine
  PROVE  /\ at = 1 => Does(<<"alloc", 4>>)
         /\ at = 2 => Does(<<"store", "x29", 0>>)
         /\ at = 3 => Does(<<"store", "x30", 1>>)
         /\ at = 4 => Does(<<"frame", "x29">>)
         /\ at = 5 => Does(<<"store", "x0", 2>>)
         /\ at = 6 => Does(<<"store", "x1", 3>>)
         /\ at = 7 => Does(<<"set", "x0", "ImageBase">>)
         /\ at = 8 => Does(<<"set", "x1", "_DYNAMIC">>)
         /\ at = 9 => Does(<<"call", "_relocate">>)
         /\ at = 10 => Does(<<"jnz", "x0", 14>>)
         /\ at = 11 => Does(<<"load", "x0", 2>>)
         /\ at = 12 => Does(<<"load", "x1", 3>>)
         /\ at = 13 => Does(<<"call", "_entry">>)
         /\ at = 14 => Does(<<"load", "x29", 0>>)
         /\ at = 15 => Does(<<"load", "x30", 1>>)
         /\ at = 16 => Does(<<"free", 4>>)
         /\ at = 17 => Does(<<"ret">>)
<1>1. S!Op = S!start_aarch64.code[at] /\ Does(S!Op)
  BY DEF S!Op, S!S, S!Start, Does
<1> DEFINE code == S!start_aarch64.code
<1>2. /\ code[1] = <<"alloc", 4>> /\ code[2] = <<"store", "x29", 0>> /\ code[3] = <<"store", "x30", 1>>
      /\ code[4] = <<"frame", "x29">> /\ code[5] = <<"store", "x0", 2>> /\ code[6] = <<"store", "x1", 3>>
  BY DEF S!start_aarch64
<1>3. /\ code[7] = <<"set", "x0", "ImageBase">> /\ code[8] = <<"set", "x1", "_DYNAMIC">>
      /\ code[9] = <<"call", "_relocate">> /\ code[10] = <<"jnz", "x0", 14>> /\ code[11] = <<"load", "x0", 2>>
  BY DEF S!start_aarch64
<1>4. /\ code[12] = <<"load", "x1", 3>> /\ code[13] = <<"call", "_entry">> /\ code[14] = <<"load", "x29", 0>>
      /\ code[15] = <<"load", "x30", 1>> /\ code[16] = <<"free", 4>> /\ code[17] = <<"ret">>
  BY DEF S!start_aarch64
<1>5. S!Op = code[at]
  BY <1>1
<1> HIDE DEF code
<1> QED BY <1>1, <1>2, <1>3, <1>4, <1>5

LEMMA AArch64Step ==
  ASSUME AArch64, arch = "aarch64", S!Next, phase = "code", Machine, at \notin {9, 13, 17}
  PROVE  Moves /\ Machine' /\ AArch64'
<1>1. Len(stack) \in Nat
  BY IsStackIs DEF Machine
<1>2. {"x0", "x1", "x29", "x30"} \subseteq S!Registers
  BY DEF S!Registers
<1>3. Moves => (Fresh' <=> Fresh) /\ (PlacedNow' <=> PlacedNow)
  BY FreshKept DEF Moves
<1>4. CASE at = 1
  <2>1. Stepped /\ NewStack(Len(stack) + 4, Len(stack))
    BY <1>4, AArch64Code, DoAlloc
  <2> QED BY <1>1, <1>3, <1>4, <2>1 DEF AArch64, Stepped, Moves, NewStack, Machine, InEntry
<1>5. CASE at \in {2, 3, 5, 6}
  <2> DEFINE x == IF at = 2 THEN "x29" ELSE IF at = 3 THEN "x30" ELSE IF at = 5 THEN "x0" ELSE "x1"
             k == IF at = 2 THEN 0 ELSE IF at = 3 THEN 1 ELSE IF at = 5 THEN 2 ELSE 3
  <2>1. k \in Nat /\ k < Len(stack)
    BY <1>5 DEF AArch64
  <2>2. Stepped /\ StoredAt(Len(stack) - k, regs[x])
    BY <1>5, <2>1, AArch64Code, DoStore
  <2> QED BY <1>1, <1>3, <1>5, <2>2 DEF AArch64, Stepped, Moves, StoredAt, Machine, InEntry
<1>6. CASE at = 4
  <2>1. Stepped /\ NewReg("x29", <<"top", Len(stack)>>)
    BY <1>2, <1>6, AArch64Code, DoFrame
  <2> QED BY <1>1, <1>2, <1>3, <1>6, <2>1 DEF AArch64, Stepped, Moves, NewReg, Machine, InEntry
<1>7. CASE at \in {7, 8}
  <2>1. Stepped /\ NewReg(IF at = 7 THEN "x0" ELSE "x1", <<IF at = 7 THEN "ImageBase" ELSE "_DYNAMIC">>)
    BY <1>2, <1>7, AArch64Code, DoSet
  <2> QED BY <1>1, <1>2, <1>3, <1>7, <2>1 DEF AArch64, Stepped, Moves, NewReg, Machine, InEntry
<1>8. CASE at = 10
  <2>1. at' = (IF regs["x0"] # <<"status", 0>> THEN 14 ELSE at + 1) /\ Moves /\ UNCHANGED <<regs, stack>>
    BY <1>8, AArch64Code, DoJump
  <2> QED BY <1>1, <1>3, <1>8, <2>1 DEF AArch64, Moves, Machine, InEntry
<1>9. CASE at \in {11, 12, 14, 15}
  <2> DEFINE x == IF at = 11 THEN "x0" ELSE IF at = 12 THEN "x1" ELSE IF at = 14 THEN "x29" ELSE "x30"
             k == IF at = 11 THEN 2 ELSE IF at = 12 THEN 3 ELSE IF at = 14 THEN 0 ELSE 1
  <2>1. Stepped /\ NewReg(x, stack[Len(stack) - k])
    BY <1>2, <1>9, AArch64Code, DoLoad
  <2> QED BY <1>1, <1>2, <1>3, <1>9, <2>1 DEF AArch64, Stepped, Moves, NewReg, Machine, InEntry
<1>10. CASE at = 16
  <2>1. Stepped /\ NewStack(Len(stack) - 4, Len(stack) - 4)
    BY <1>1, <1>10, AArch64Code, DoFree DEF AArch64
  <2> QED BY <1>1, <1>3, <1>10, <2>1 DEF AArch64, Stepped, Moves, NewStack, Machine, InEntry
<1> QED BY <1>4, <1>5, <1>6, <1>7, <1>8, <1>9, <1>10 DEF AArch64

\* Its calls and its return.
LEMMA AArch64Keeps ==
  ASSUME AArch64, arch = "aarch64", arch \in Archs, S!Next, phase = "code", Machine, GivenOK
  PROVE  Outcome(AArch64')
<1>1. S!S.args = <<"x0", "x1">> /\ S!S.link = "x30" /\ S!S.result = "x0" /\ S!S.kept = {"x29"}
  BY DEF S!S, S!Start, S!start_aarch64
<1>2. CASE at \notin {9, 13, 17}
  BY <1>2, AArch64Step, MovesSame DEF Outcome
<1>3. CASE at = 9
  <2>1. Does(<<"call", "_relocate">>) /\ Fresh
    BY <1>3, AArch64Code DEF AArch64
  <2>2. /\ PlacedNow' /\ GivenOK' /\ given'.args = given.args /\ Ctors' = Ctors /\ Dtors' = Dtors
        /\ UNCHANGED <<arch, pending, ran, pointers>>
        /\ phase' = "code" /\ at' = 10 /\ stack' = stack /\ regs' = S!AfterCall(given'.status)
    BY <1>3, <2>1, Relocates
  <2>3. DOMAIN regs' = S!Registers /\ regs'["x0"] = <<"status", given'.status>>
    BY <1>1, <1>3, <2>2, AfterCallIs DEF S!Registers
  <2> QED BY <1>3, <2>2, <2>3 DEF AArch64, Same, Machine, InEntry, Outcome
<1>4. CASE at = 13
  <2>1. S!CallEntry
    BY <1>4, AArch64Code, DoEntry
  <2>2. given' = [given EXCEPT !.args = Passed]
    BY <1>1, <1>4, <2>1 DEF S!CallEntry, AArch64, Passed
  <2>3. phase' = "constructing" /\ UNCHANGED <<arch, image, at, regs, stack, ran>>
    BY <2>1 DEF S!CallEntry
  <2> QED BY <1>4, <2>1, <2>2, <2>3, EntryKeeps DEF AArch64, InEntry, Machine, Outcome
<1>5. CASE at = 17
  <2>1. stack = <<S!Frame>> /\ Len(stack) = 1
    BY <1>5, Tuple1 DEF AArch64, Machine
  <2>2. S!Caller(arch) = <<S!Frame>>
    BY DEF S!Caller, S!Start, S!start_aarch64
  <2>3. regs["x30"] = S!Firmware
    BY <1>1, <1>5 DEF AArch64
  <2>4. /\ stack' = stack /\ phase' = "returned"
        /\ UNCHANGED <<arch, image, regs, pending, ran, given, pointers>>
    BY <1>1, <1>5, <2>1, <2>3, AArch64Code, DoRet
  <2>5. Back'
    BY <1>1, <1>5, <2>1, <2>2, <2>4 DEF Back, S!S, S!Caller, AArch64
  <2> QED BY <2>4, <2>5, SameIf DEF Outcome
<1> QED BY <1>2, <1>3, <1>4, <1>5

LEMMA AArch64Returns ==
  ASSUME AArch64, arch = "aarch64", S!EntryReturns, Machine PROVE Machine' /\ AArch64'
<1>1. at = 13 /\ at' = 14 /\ phase' = "code" /\ stack' = stack /\ UNCHANGED <<arch, image, given>>
  BY DEF S!EntryReturns, AArch64, InEntry
<1>2. DOMAIN regs' = S!Registers
  BY AfterCallIs DEF S!EntryReturns
<1> QED BY <1>1, <1>2, FreshKept DEF AArch64, Machine, InEntry

-----------------------------------------------------------------------------
\* crt0-efi-arm.S.
Arm ==
  /\ at \in 1..14 /\ (InEntry => at = 11)
  /\ phase = "code" /\ at <= 11 => given.args = <<>>
  /\ at <= 7 => Fresh
  /\ at > 7 => PlacedNow
  /\ at = 8 => regs["r0"] = <<"status", given.status>>
  /\ at \in 9..11 => given.status = 0
  /\ Len(stack) = IF at \in {1, 14} THEN 1 ELSE IF at \in {2, 13} THEN 2 ELSE IF at = 3 THEN 3 ELSE IF at = 4 THEN 4 ELSE 5
  /\ stack[1] = S!Frame
  /\ at \in 2..13 => stack[2] = S!Firmware
  /\ at \in 4..12 => stack[4] = S!SystemTable
  /\ at \in 5..12 => stack[5] = S!Handle
  /\ at \in {1, 14} => regs["lr"] = S!Firmware
  /\ at \in {1, 2, 3, 4, 10, 11} => regs["r0"] = S!Handle
  /\ at \in {1, 2, 3, 11} => regs["r1"] = S!SystemTable

LEMMA ArmCode ==
  ASSUME arch = "arm", Arm, phase = "code", S!Next, Machine
  PROVE  /\ at = 1 => Does(<<"push", "lr">>)
         /\ at = 2 => Does(<<"push", "r2">>)
         /\ at = 3 => Does(<<"push", "r1">>)
         /\ at = 4 => Does(<<"push", "r0">>)
         /\ at = 5 => Does(<<"set", "r0", "ImageBase">>)
         /\ at = 6 => Does(<<"set", "r1", "_DYNAMIC">>)
         /\ at = 7 => Does(<<"call", "_relocate">>)
         /\ at = 8 => Does(<<"jnz", "r0", 12>>)
         /\ at = 9 => Does(<<"load", "r0", 0>>)
         /\ at = 10 => Does(<<"load", "r1", 1>>)
         /\ at = 11 => Does(<<"call", "_entry">>)
         /\ at = 12 => Does(<<"free", 3>>)
         /\ at = 13 => Does(<<"pop", "lr">>)
         /\ at = 14 => Does(<<"ret">>)
<1>1. S!Op = S!start_arm.code[at] /\ Does(S!Op)
  BY DEF S!Op, S!S, S!Start, Does
<1> QED BY <1>1 DEF S!start_arm

LEMMA ArmStep ==
  ASSUME Arm, arch = "arm", S!Next, phase = "code", Machine, at \notin {7, 11, 14}
  PROVE  Moves /\ Machine' /\ Arm'
<1>1. Len(stack) \in Nat
  BY IsStackIs DEF Machine
<1>2. {"r0", "r1", "r2", "lr"} \subseteq S!Registers
  BY DEF S!Registers
<1>3. Moves => (Fresh' <=> Fresh) /\ (PlacedNow' <=> PlacedNow)
  BY FreshKept DEF Moves
<1>4. CASE at \in {1, 2, 3, 4}
  <2> DEFINE x == IF at = 1 THEN "lr" ELSE IF at = 2 THEN "r2" ELSE IF at = 3 THEN "r1" ELSE "r0"
  <2>1. Stepped /\ NewStack(Len(stack) + 1, Len(stack)) /\ stack'[Len(stack) + 1] = regs[x]
    BY <1>4, ArmCode, DoPush
  <2> QED BY <1>1, <1>3, <1>4, <2>1 DEF Arm, Stepped, Moves, NewStack, Machine, InEntry
<1>5. CASE at \in {5, 6}
  <2>1. Stepped /\ NewReg(IF at = 5 THEN "r0" ELSE "r1", <<IF at = 5 THEN "ImageBase" ELSE "_DYNAMIC">>)
    BY <1>2, <1>5, ArmCode, DoSet
  <2> QED BY <1>1, <1>2, <1>3, <1>5, <2>1 DEF Arm, Stepped, Moves, NewReg, Machine, InEntry
<1>6. CASE at = 8
  <2>1. at' = (IF regs["r0"] # <<"status", 0>> THEN 12 ELSE at + 1) /\ Moves /\ UNCHANGED <<regs, stack>>
    BY <1>6, ArmCode, DoJump
  <2> QED BY <1>1, <1>3, <1>6, <2>1 DEF Arm, Moves, Machine, InEntry
<1>7. CASE at \in {9, 10}
  <2> DEFINE x == IF at = 9 THEN "r0" ELSE "r1"
             k == IF at = 9 THEN 0 ELSE 1
  <2>1. Stepped /\ NewReg(x, stack[Len(stack) - k])
    BY <1>2, <1>7, ArmCode, DoLoad
  <2> QED BY <1>1, <1>2, <1>3, <1>7, <2>1 DEF Arm, Stepped, Moves, NewReg, Machine, InEntry
<1>8. CASE at = 12
  <2>1. Stepped /\ NewStack(Len(stack) - 3, Len(stack) - 3)
    BY <1>1, <1>8, ArmCode, DoFree DEF Arm
  <2> QED BY <1>1, <1>3, <1>8, <2>1 DEF Arm, Stepped, Moves, NewStack, Machine, InEntry
<1>9. CASE at = 13
  <2> DEFINE x == "lr"
  <2>1. Len(stack) > 0
    BY <1>9 DEF Arm
  <2>2. Stepped /\ Popped(x, Len(stack))
    BY <1>2, <1>9, <2>1, ArmCode, DoPop
  <2> QED BY <1>1, <1>2, <1>3, <1>9, <2>2 DEF Arm, Stepped, Moves, Popped, Machine, InEntry
<1> QED BY <1>4, <1>5, <1>6, <1>7, <1>8, <1>9 DEF Arm

\* Its calls and its return.
LEMMA ArmKeeps ==
  ASSUME Arm, arch = "arm", arch \in Archs, S!Next, phase = "code", Machine, GivenOK
  PROVE  Outcome(Arm')
<1>1. S!S.args = <<"r0", "r1">> /\ S!S.link = "lr" /\ S!S.result = "r0" /\ S!S.kept = {}
  BY DEF S!S, S!Start, S!start_arm
<1>2. CASE at \notin {7, 11, 14}
  BY <1>2, ArmStep, MovesSame DEF Outcome
<1>3. CASE at = 7
  <2>1. Does(<<"call", "_relocate">>) /\ Fresh
    BY <1>3, ArmCode DEF Arm
  <2>2. /\ PlacedNow' /\ GivenOK' /\ given'.args = given.args /\ Ctors' = Ctors /\ Dtors' = Dtors
        /\ UNCHANGED <<arch, pending, ran, pointers>>
        /\ phase' = "code" /\ at' = 8 /\ stack' = stack /\ regs' = S!AfterCall(given'.status)
    BY <1>3, <2>1, Relocates
  <2>3. DOMAIN regs' = S!Registers /\ regs'["r0"] = <<"status", given'.status>>
    BY <1>1, <1>3, <2>2, AfterCallIs DEF S!Registers
  <2> QED BY <1>3, <2>2, <2>3 DEF Arm, Same, Machine, InEntry, Outcome
<1>4. CASE at = 11
  <2>1. S!CallEntry
    BY <1>4, ArmCode, DoEntry
  <2>2. given' = [given EXCEPT !.args = Passed]
    BY <1>1, <1>4, <2>1 DEF S!CallEntry, Arm, Passed
  <2>3. phase' = "constructing" /\ UNCHANGED <<arch, image, at, regs, stack, ran>>
    BY <2>1 DEF S!CallEntry
  <2> QED BY <1>4, <2>1, <2>2, <2>3, EntryKeeps DEF Arm, InEntry, Machine, Outcome
<1>5. CASE at = 14
  <2>1. stack = <<S!Frame>> /\ Len(stack) = 1
    BY <1>5, Tuple1 DEF Arm, Machine
  <2>2. S!Caller(arch) = <<S!Frame>>
    BY DEF S!Caller, S!Start, S!start_arm
  <2>3. regs["lr"] = S!Firmware
    BY <1>1, <1>5 DEF Arm
  <2>4. /\ stack' = stack /\ phase' = "returned"
        /\ UNCHANGED <<arch, image, regs, pending, ran, given, pointers>>
    BY <1>1, <1>5, <2>1, <2>3, ArmCode, DoRet
  <2>5. Back'
    BY <1>1, <1>5, <2>1, <2>2, <2>4 DEF Back, S!S, S!Caller, Arm
  <2> QED BY <2>4, <2>5, SameIf DEF Outcome
<1> QED BY <1>2, <1>3, <1>4, <1>5

LEMMA ArmReturns ==
  ASSUME Arm, arch = "arm", S!EntryReturns, Machine PROVE Machine' /\ Arm'
<1>1. at = 11 /\ at' = 12 /\ phase' = "code" /\ stack' = stack /\ UNCHANGED <<arch, image, given>>
  BY DEF S!EntryReturns, Arm, InEntry
<1>2. DOMAIN regs' = S!Registers
  BY AfterCallIs DEF S!EntryReturns
<1> QED BY <1>1, <1>2, FreshKept DEF Arm, Machine, InEntry

-----------------------------------------------------------------------------
\* crt0-efi-loongarch64.S.
LoongArch64 ==
  /\ at \in 1..14 /\ (InEntry => at = 11)
  /\ phase = "code" /\ at <= 11 => given.args = <<>>
  /\ at <= 7 => Fresh
  /\ at > 7 => PlacedNow
  /\ at = 8 => regs["a0"] = <<"status", given.status>>
  /\ at \in 9..11 => given.status = 0
  /\ Len(stack) = IF at \in {1, 14} THEN 1 ELSE 4
  /\ stack[1] = S!Frame
  /\ at \in 3..13 => stack[4] = S!Firmware
  /\ at \in 4..13 => stack[3] = S!Handle
  /\ at \in 5..13 => stack[2] = S!SystemTable
  /\ at \in {1, 2, 13, 14} => regs["ra"] = S!Firmware
  /\ at \in {1, 2, 3, 10, 11} => regs["a0"] = S!Handle
  /\ at \in {1, 2, 3, 4, 11} => regs["a1"] = S!SystemTable

LEMMA LoongArch64Code ==
  ASSUME arch = "loongarch64", LoongArch64, phase = "code", S!Next, Machine
  PROVE  /\ at = 1 => Does(<<"alloc", 3>>)
         /\ at = 2 => Does(<<"store", "ra", 0>>)
         /\ at = 3 => Does(<<"store", "a0", 1>>)
         /\ at = 4 => Does(<<"store", "a1", 2>>)
         /\ at = 5 => Does(<<"set", "a0", "ImageBase">>)
         /\ at = 6 => Does(<<"set", "a1", "_DYNAMIC">>)
         /\ at = 7 => Does(<<"call", "_relocate">>)
         /\ at = 8 => Does(<<"jnz", "a0", 12>>)
         /\ at = 9 => Does(<<"load", "a0", 1>>)
         /\ at = 10 => Does(<<"load", "a1", 2>>)
         /\ at = 11 => Does(<<"call", "_entry">>)
         /\ at = 12 => Does(<<"load", "ra", 0>>)
         /\ at = 13 => Does(<<"free", 3>>)
         /\ at = 14 => Does(<<"ret">>)
<1>1. S!Op = S!start_loongarch64.code[at] /\ Does(S!Op)
  BY DEF S!Op, S!S, S!Start, Does
<1> QED BY <1>1 DEF S!start_loongarch64

LEMMA LoongArch64Step ==
  ASSUME LoongArch64, arch = "loongarch64", S!Next, phase = "code", Machine, at \notin {7, 11, 14}
  PROVE  Moves /\ Machine' /\ LoongArch64'
<1>1. Len(stack) \in Nat
  BY IsStackIs DEF Machine
<1>2. {"a0", "a1", "ra"} \subseteq S!Registers
  BY DEF S!Registers
<1>3. Moves => (Fresh' <=> Fresh) /\ (PlacedNow' <=> PlacedNow)
  BY FreshKept DEF Moves
<1>4. CASE at = 1
  <2>1. Stepped /\ NewStack(Len(stack) + 3, Len(stack))
    BY <1>4, LoongArch64Code, DoAlloc
  <2> QED BY <1>1, <1>3, <1>4, <2>1 DEF LoongArch64, Stepped, Moves, NewStack, Machine, InEntry
<1>5. CASE at \in {2, 3, 4}
  <2> DEFINE x == IF at = 2 THEN "ra" ELSE IF at = 3 THEN "a0" ELSE "a1"
             k == IF at = 2 THEN 0 ELSE IF at = 3 THEN 1 ELSE 2
  <2>1. k \in Nat /\ k < Len(stack)
    BY <1>5 DEF LoongArch64
  <2>2. Stepped /\ StoredAt(Len(stack) - k, regs[x])
    BY <1>5, <2>1, LoongArch64Code, DoStore
  <2> QED BY <1>1, <1>3, <1>5, <2>2 DEF LoongArch64, Stepped, Moves, StoredAt, Machine, InEntry
<1>6. CASE at \in {5, 6}
  <2>1. Stepped /\ NewReg(IF at = 5 THEN "a0" ELSE "a1", <<IF at = 5 THEN "ImageBase" ELSE "_DYNAMIC">>)
    BY <1>2, <1>6, LoongArch64Code, DoSet
  <2> QED BY <1>1, <1>2, <1>3, <1>6, <2>1 DEF LoongArch64, Stepped, Moves, NewReg, Machine, InEntry
<1>7. CASE at = 8
  <2>1. at' = (IF regs["a0"] # <<"status", 0>> THEN 12 ELSE at + 1) /\ Moves /\ UNCHANGED <<regs, stack>>
    BY <1>7, LoongArch64Code, DoJump
  <2> QED BY <1>1, <1>3, <1>7, <2>1 DEF LoongArch64, Moves, Machine, InEntry
<1>8. CASE at \in {9, 10, 12}
  <2> DEFINE x == IF at = 9 THEN "a0" ELSE IF at = 10 THEN "a1" ELSE "ra"
             k == IF at = 9 THEN 1 ELSE IF at = 10 THEN 2 ELSE 0
  <2>1. Stepped /\ NewReg(x, stack[Len(stack) - k])
    BY <1>2, <1>8, LoongArch64Code, DoLoad
  <2> QED BY <1>1, <1>2, <1>3, <1>8, <2>1 DEF LoongArch64, Stepped, Moves, NewReg, Machine, InEntry
<1>9. CASE at = 13
  <2>1. Stepped /\ NewStack(Len(stack) - 3, Len(stack) - 3)
    BY <1>1, <1>9, LoongArch64Code, DoFree DEF LoongArch64
  <2> QED BY <1>1, <1>3, <1>9, <2>1 DEF LoongArch64, Stepped, Moves, NewStack, Machine, InEntry
<1> QED BY <1>4, <1>5, <1>6, <1>7, <1>8, <1>9 DEF LoongArch64

\* Its calls and its return.
LEMMA LoongArch64Keeps ==
  ASSUME LoongArch64, arch = "loongarch64", arch \in Archs, S!Next, phase = "code", Machine, GivenOK
  PROVE  Outcome(LoongArch64')
<1>1. S!S.args = <<"a0", "a1">> /\ S!S.link = "ra" /\ S!S.result = "a0" /\ S!S.kept = {}
  BY DEF S!S, S!Start, S!start_loongarch64
<1>2. CASE at \notin {7, 11, 14}
  BY <1>2, LoongArch64Step, MovesSame DEF Outcome
<1>3. CASE at = 7
  <2>1. Does(<<"call", "_relocate">>) /\ Fresh
    BY <1>3, LoongArch64Code DEF LoongArch64
  <2>2. /\ PlacedNow' /\ GivenOK' /\ given'.args = given.args /\ Ctors' = Ctors /\ Dtors' = Dtors
        /\ UNCHANGED <<arch, pending, ran, pointers>>
        /\ phase' = "code" /\ at' = 8 /\ stack' = stack /\ regs' = S!AfterCall(given'.status)
    BY <1>3, <2>1, Relocates
  <2>3. DOMAIN regs' = S!Registers /\ regs'["a0"] = <<"status", given'.status>>
    BY <1>1, <1>3, <2>2, AfterCallIs DEF S!Registers
  <2> QED BY <1>3, <2>2, <2>3 DEF LoongArch64, Same, Machine, InEntry, Outcome
<1>4. CASE at = 11
  <2>1. S!CallEntry
    BY <1>4, LoongArch64Code, DoEntry
  <2>2. given' = [given EXCEPT !.args = Passed]
    BY <1>1, <1>4, <2>1 DEF S!CallEntry, LoongArch64, Passed
  <2>3. phase' = "constructing" /\ UNCHANGED <<arch, image, at, regs, stack, ran>>
    BY <2>1 DEF S!CallEntry
  <2> QED BY <1>4, <2>1, <2>2, <2>3, EntryKeeps DEF LoongArch64, InEntry, Machine, Outcome
<1>5. CASE at = 14
  <2>1. stack = <<S!Frame>> /\ Len(stack) = 1
    BY <1>5, Tuple1 DEF LoongArch64, Machine
  <2>2. S!Caller(arch) = <<S!Frame>>
    BY DEF S!Caller, S!Start, S!start_loongarch64
  <2>3. regs["ra"] = S!Firmware
    BY <1>1, <1>5 DEF LoongArch64
  <2>4. /\ stack' = stack /\ phase' = "returned"
        /\ UNCHANGED <<arch, image, regs, pending, ran, given, pointers>>
    BY <1>1, <1>5, <2>1, <2>3, LoongArch64Code, DoRet
  <2>5. Back'
    BY <1>1, <1>5, <2>1, <2>2, <2>4 DEF Back, S!S, S!Caller, LoongArch64
  <2> QED BY <2>4, <2>5, SameIf DEF Outcome
<1> QED BY <1>2, <1>3, <1>4, <1>5

LEMMA LoongArch64Returns ==
  ASSUME LoongArch64, arch = "loongarch64", S!EntryReturns, Machine PROVE Machine' /\ LoongArch64'
<1>1. at = 11 /\ at' = 12 /\ phase' = "code" /\ stack' = stack /\ UNCHANGED <<arch, image, given>>
  BY DEF S!EntryReturns, LoongArch64, InEntry
<1>2. DOMAIN regs' = S!Registers
  BY AfterCallIs DEF S!EntryReturns
<1> QED BY <1>1, <1>2, FreshKept DEF LoongArch64, Machine, InEntry

-----------------------------------------------------------------------------
\* crt0-efi-riscv64.S.  When relocation fails, ra still points behind the call,
\* and ret leads there once more, with the stack already freed.
RiscV64 ==
  /\ at \in 1..14 /\ (InEntry => at = 11)
  /\ phase = "code" /\ at <= 11 => given.args = <<>>
  /\ at <= 7 => Fresh
  /\ at > 7 => PlacedNow
  /\ at = 8 => regs["a0"] = <<"status", given.status>> /\ regs["ra"] = <<"behind", 8>>
  /\ at \in 9..12 => given.status = 0
  /\ at >= 13 =>
       \/ regs["ra"] = S!Firmware
       \/ /\ given.status # 0 /\ given.args = <<>>
          /\ regs["a0"] = <<"status", given.status>> /\ regs["ra"] = <<"behind", 8>>
  /\ at \notin {8, 13} => Len(stack) = IF at \in {1, 14} THEN 1 ELSE 4
  /\ at \in {8, 13} => Len(stack) = 4 \/ (Len(stack) = 1 /\ given.status # 0)
  /\ stack[1] = S!Frame
  /\ at \in 3..12 /\ given.status = 0 => stack[4] = S!Handle
  /\ at \in 4..12 /\ given.status = 0 => stack[3] = S!SystemTable
  /\ at \in 5..12 /\ given.status = 0 => stack[2] = S!Firmware
  /\ at <= 4 => regs["ra"] = S!Firmware
  /\ at \in {1, 2, 11} => regs["a0"] = S!Handle
  /\ at \in {1, 2, 3, 10, 11} => regs["a1"] = S!SystemTable

LEMMA RiscV64Code ==
  ASSUME arch = "riscv64", RiscV64, phase = "code", S!Next, Machine
  PROVE  /\ at = 1 => Does(<<"alloc", 3>>)
         /\ at = 2 => Does(<<"store", "a0", 0>>)
         /\ at = 3 => Does(<<"store", "a1", 1>>)
         /\ at = 4 => Does(<<"store", "ra", 2>>)
         /\ at = 5 => Does(<<"set", "a0", "ImageBase">>)
         /\ at = 6 => Does(<<"set", "a1", "_DYNAMIC">>)
         /\ at = 7 => Does(<<"call", "_relocate">>)
         /\ at = 8 => Does(<<"jnz", "a0", 13>>)
         /\ at = 9 => Does(<<"load", "a1", 1>>)
         /\ at = 10 => Does(<<"load", "a0", 0>>)
         /\ at = 11 => Does(<<"call", "_entry">>)
         /\ at = 12 => Does(<<"load", "ra", 2>>)
         /\ at = 13 => Does(<<"free", 3>>)
         /\ at = 14 => Does(<<"ret">>)
<1>1. S!Op = S!start_riscv64.code[at] /\ Does(S!Op)
  BY DEF S!Op, S!S, S!Start, Does
<1> QED BY <1>1 DEF S!start_riscv64

LEMMA RiscV64Step ==
  ASSUME RiscV64, arch = "riscv64", S!Next, phase = "code", Machine, at \notin {7, 11, 13, 14}
  PROVE  Moves /\ Machine' /\ RiscV64'
<1>1. Len(stack) \in Nat
  BY IsStackIs DEF Machine
<1>2. {"a0", "a1", "ra"} \subseteq S!Registers
  BY DEF S!Registers
<1>3. Moves => (Fresh' <=> Fresh) /\ (PlacedNow' <=> PlacedNow)
  BY FreshKept DEF Moves
<1>4. CASE at = 1
  <2>0. Len(stack) = 1
    BY <1>4 DEF RiscV64
  <2>1. Stepped /\ NewStack(Len(stack) + 3, Len(stack))
    BY <1>4, RiscV64Code, DoAlloc
  <2> QED BY <1>1, <1>3, <1>4, <2>0, <2>1 DEF RiscV64, Stepped, Moves, NewStack, Machine, InEntry
<1>5. CASE at \in {2, 3, 4}
  <2>0. Len(stack) = 4
    BY <1>5 DEF RiscV64
  <2> DEFINE x == IF at = 2 THEN "a0" ELSE IF at = 3 THEN "a1" ELSE "ra"
             k == IF at = 2 THEN 0 ELSE IF at = 3 THEN 1 ELSE 2
  <2>1. k \in Nat /\ k < Len(stack)
    BY <1>5, <2>0 DEF RiscV64
  <2>2. Stepped /\ StoredAt(Len(stack) - k, regs[x])
    BY <1>5, <2>1, RiscV64Code, DoStore
  <2> QED BY <1>1, <1>3, <1>5, <2>0, <2>2 DEF RiscV64, Stepped, Moves, StoredAt, Machine, InEntry
<1>6. CASE at \in {5, 6}
  <2>0. Len(stack) = 4
    BY <1>6 DEF RiscV64
  <2>1. Stepped /\ NewReg(IF at = 5 THEN "a0" ELSE "a1", <<IF at = 5 THEN "ImageBase" ELSE "_DYNAMIC">>)
    BY <1>2, <1>6, RiscV64Code, DoSet
  <2> QED BY <1>1, <1>2, <1>3, <1>6, <2>0, <2>1 DEF RiscV64, Stepped, Moves, NewReg, Machine, InEntry
<1>7. CASE at = 8
  <2>1. at' = (IF regs["a0"] # <<"status", 0>> THEN 13 ELSE at + 1) /\ Moves /\ UNCHANGED <<regs, stack>>
    BY <1>7, RiscV64Code, DoJump
  <2> QED BY <1>1, <1>3, <1>7, <2>1 DEF RiscV64, Moves, Machine, InEntry
<1>8. CASE at \in {9, 10, 12}
  <2>0. Len(stack) = 4
    BY <1>8 DEF RiscV64
  <2> DEFINE x == IF at = 9 THEN "a1" ELSE IF at = 10 THEN "a0" ELSE "ra"
             k == IF at = 9 THEN 1 ELSE IF at = 10 THEN 0 ELSE 2
  <2>1. Stepped /\ NewReg(x, stack[Len(stack) - k])
    BY <1>2, <1>8, RiscV64Code, DoLoad
  <2> QED BY <1>1, <1>2, <1>3, <1>8, <2>0, <2>1 DEF RiscV64, Stepped, Moves, NewReg, Machine, InEntry
<1> QED BY <1>4, <1>5, <1>6, <1>7, <1>8 DEF RiscV64

\* Its calls and its return.
LEMMA RiscV64Keeps ==
  ASSUME RiscV64, arch = "riscv64", arch \in Archs, S!Next, phase = "code", Machine, GivenOK
  PROVE  Outcome(RiscV64')
<1>1. S!S.args = <<"a0", "a1">> /\ S!S.link = "ra" /\ S!S.result = "a0" /\ S!S.kept = {}
  BY DEF S!S, S!Start, S!start_riscv64
<1>2. CASE at \notin {7, 11, 13, 14}
  BY <1>2, RiscV64Step, MovesSame DEF Outcome
<1>3. CASE at = 7
  <2>1. Does(<<"call", "_relocate">>) /\ Fresh
    BY <1>3, RiscV64Code DEF RiscV64
  <2>2. /\ PlacedNow' /\ GivenOK' /\ given'.args = given.args /\ Ctors' = Ctors /\ Dtors' = Dtors
        /\ UNCHANGED <<arch, pending, ran, pointers>>
        /\ phase' = "code" /\ at' = 8 /\ stack' = stack /\ regs' = S!AfterCall(given'.status)
    BY <1>3, <2>1, Relocates
  <2>3. DOMAIN regs' = S!Registers /\ regs'["a0"] = <<"status", given'.status>> /\ regs'["ra"] = <<"behind", 8>>
    BY <1>1, <1>3, <2>2, AfterCallIs DEF S!Registers
  <2>4. Len(stack) = 4 /\ stack[4] = S!Handle /\ stack[3] = S!SystemTable /\ stack[2] = S!Firmware
    BY <1>3, <2>1 DEF RiscV64, Fresh
  <2> QED BY <1>3, <2>2, <2>3, <2>4 DEF RiscV64, Same, Machine, InEntry, Outcome
<1>4. CASE at = 11
  <2>1. S!CallEntry
    BY <1>4, RiscV64Code, DoEntry
  <2>2. given' = [given EXCEPT !.args = Passed]
    BY <1>1, <1>4, <2>1 DEF S!CallEntry, RiscV64, Passed
  <2>3. phase' = "constructing" /\ UNCHANGED <<arch, image, at, regs, stack, ran>>
    BY <2>1 DEF S!CallEntry
  <2> QED BY <1>4, <2>1, <2>2, <2>3, EntryKeeps DEF RiscV64, InEntry, Machine, Outcome
<1>5. CASE at = 14 /\ regs["ra"] = S!Firmware
  <2>1. stack = <<S!Frame>> /\ Len(stack) = 1
    BY <1>5, Tuple1 DEF RiscV64, Machine
  <2>2. S!Caller(arch) = <<S!Frame>>
    BY DEF S!Caller, S!Start, S!start_riscv64
  <2>3. regs["ra"] = S!Firmware
    BY <1>1, <1>5 DEF RiscV64
  <2>4. /\ stack' = stack /\ phase' = "returned"
        /\ UNCHANGED <<arch, image, regs, pending, ran, given, pointers>>
    BY <1>1, <1>5, <2>1, <2>3, RiscV64Code, DoRet
  <2>5. Back'
    BY <1>1, <1>5, <2>1, <2>2, <2>4 DEF Back, S!S, S!Caller, RiscV64
  <2> QED BY <2>4, <2>5, SameIf DEF Outcome
<1>6. CASE at = 14 /\ regs["ra"] # S!Firmware
  <2>1. /\ given.status # 0 /\ given.args = <<>> /\ Len(stack) = 1
        /\ regs["a0"] = <<"status", given.status>> /\ regs["ra"] = <<"behind", 8>>
    BY <1>6 DEF RiscV64
  <2>5. Does(<<"ret">>) /\ Len(stack) > 0 /\ S!S.link # "stack" /\ S!S.link = "ra"
    BY <1>1, <1>6, <2>1, RiscV64Code
  <2>4. /\ stack' = stack /\ UNCHANGED <<arch, image, regs, pending, ran, given, pointers>>
        /\ \A k: regs["ra"] = <<"behind", k>> => phase' = "code" /\ at' = k
    BY ONLY <2>5, DoRet
  <2>2. at' = 8 /\ Moves /\ UNCHANGED <<regs, stack>>
    BY <2>1, <2>4 DEF Moves
  <2>3. PlacedNow'
    BY <1>6, <2>2, FreshKept DEF RiscV64, Moves
  <2> QED BY <1>6, <2>1, <2>2, <2>3, MovesSame DEF RiscV64, Moves, Machine, InEntry, Outcome
<1>7. CASE at = 13
  <2>1. Len(stack) \in Nat
    BY IsStackIs DEF Machine
  <2>2. CASE Len(stack) = 4
    <3>1. Stepped /\ NewStack(Len(stack) - 3, Len(stack) - 3)
      BY <1>7, <2>1, <2>2, RiscV64Code, DoFree
    <3>2. PlacedNow'
      BY <1>7, <3>1, FreshKept DEF RiscV64, Stepped, Moves
    <3>3. RiscV64' /\ Machine'
      BY <1>7, <2>2, <3>1, <3>2 DEF RiscV64, Stepped, Moves, NewStack, Machine, InEntry
    <3> QED BY <3>1, <3>3, MovesSame DEF Stepped, Outcome
  <2>3. CASE Len(stack) = 1
    <3>1. given.status # 0
      BY <1>7, <2>3 DEF RiscV64
    <3>2. phase' = "lost" /\ UNCHANGED <<arch, image, pending, ran, given, pointers>>
      BY <1>7, <2>1, <2>3, RiscV64Code, DoFree
    <3> QED BY <3>1, <3>2, SameIf DEF Outcome
  <2> QED BY <1>7, <2>2, <2>3 DEF RiscV64
<1> QED BY <1>2, <1>3, <1>4, <1>5, <1>6, <1>7

LEMMA RiscV64Returns ==
  ASSUME RiscV64, arch = "riscv64", S!EntryReturns, Machine PROVE Machine' /\ RiscV64'
<1>1. at = 11 /\ at' = 12 /\ phase' = "code" /\ stack' = stack /\ UNCHANGED <<arch, image, given>>
  BY DEF S!EntryReturns, RiscV64, InEntry
<1>2. DOMAIN regs' = S!Registers
  BY AfterCallIs DEF S!EntryReturns
<1> QED BY <1>1, <1>2, FreshKept DEF RiscV64, Machine, InEntry

-----------------------------------------------------------------------------
\* crt0-efi-mips64el.S.  When relocation fails, the code is run again from the
\* fifth instruction on, with ra behind the call.
FirstPass ==
  /\ Fresh
  /\ at >= 4 => regs["ra"] = <<"_pc">>
  /\ at <= 6 => regs["a0"] = S!Handle
  /\ at <= 7 => regs["a1"] = S!SystemTable
  /\ at >= 7 => stack[3] = S!Handle
  /\ at >= 8 => stack[2] = S!SystemTable
  /\ at = 11 => regs["t9"] = <<"_relocate">>
SecondPass == at >= 5 /\ given.status # 0 /\ regs["ra"] = <<"behind", 12>> /\ (at = 11 => regs["t9"] = S!AnyValue)
Mips64el ==
  /\ at \in 1..19 /\ (InEntry => at = 15)
  /\ phase = "code" /\ at <= 15 => given.args = <<>>
  /\ at <= 11 => FirstPass \/ SecondPass
  /\ at > 11 => PlacedNow
  /\ at = 12 => regs["v0"] = <<"status", given.status>> /\ regs["ra"] = <<"behind", 12>>
  /\ at \in 13..15 => given.status = 0
  /\ Len(stack) = IF at \in {1, 19} THEN 1 ELSE 5
  /\ stack[1] = S!Frame
  /\ at \in 3..18 => stack[5] = S!Firmware
  /\ at \in 5..18 => stack[4] = S!Kept
  /\ at \in 12..15 => stack[3] = S!Handle /\ stack[2] = S!SystemTable
  /\ at \in {1, 2, 18, 19} => regs["ra"] = S!Firmware
  /\ at \in {1, 2, 3, 4, 17, 18, 19} => regs["gp"] = S!Kept
  /\ at \in {14, 15} => regs["a0"] = S!Handle
  /\ at = 15 => regs["a1"] = S!SystemTable

LEMMA Mips64elCode ==
  ASSUME arch = "mips64el", Mips64el, phase = "code", S!Next, Machine
  PROVE  /\ at = 1 => Does(<<"alloc", 4>>)
         /\ at = 2 => Does(<<"store", "ra", 0>>)
         /\ at = 3 => Does(<<"bal">>)
         /\ at = 4 => Does(<<"store", "gp", 1>>)
         /\ at = 5 => Does(<<"relative", "gp", "_gp">>)
         /\ at = 6 => Does(<<"store", "a0", 2>>)
         /\ at = 7 => Does(<<"store", "a1", 3>>)
         /\ at = 8 => Does(<<"relative", "a0", "ImageBase">>)
         /\ at = 9 => Does(<<"relative", "a1", "_DYNAMIC">>)
         /\ at = 10 => Does(<<"relative", "t9", "_relocate">>)
         /\ at = 11 => Does(<<"callby", "t9">>)
         /\ at = 12 => Does(<<"jnz", "v0", 5>>)
         /\ at = 13 => Does(<<"load", "a0", 2>>)
         /\ at = 14 => Does(<<"load", "a1", 3>>)
         /\ at = 15 => Does(<<"call", "_entry">>)
         /\ at = 16 => Does(<<"load", "gp", 1>>)
         /\ at = 17 => Does(<<"load", "ra", 0>>)
         /\ at = 18 => Does(<<"free", 4>>)
         /\ at = 19 => Does(<<"ret">>)
<1>1. S!Op = S!start_mips64el.code[at] /\ Does(S!Op)
  BY DEF S!Op, S!S, S!Start, Does
<1> QED BY <1>1, SMTT(40) DEF S!start_mips64el

LEMMA Mips64elStep ==
  ASSUME Mips64el, arch = "mips64el", S!Next, phase = "code", Machine, at \notin {11, 15, 19}
  PROVE  Moves /\ Machine' /\ Mips64el'
<1>1. Len(stack) \in Nat
  BY IsStackIs DEF Machine
<1>2. {"a0", "a1", "ra", "v0", "gp", "t9"} \subseteq S!Registers
  BY DEF S!Registers
<1>3. Moves => (Fresh' <=> Fresh) /\ (PlacedNow' <=> PlacedNow)
  BY FreshKept DEF Moves
<1>4. CASE at = 1
  <2>1. Stepped /\ NewStack(Len(stack) + 4, Len(stack))
    BY <1>4, Mips64elCode, DoAlloc
  <2> QED BY <1>1, <1>3, <1>4, <2>1 DEF Mips64el, FirstPass, SecondPass, Stepped, Moves, NewStack, Machine, InEntry
<1>5. CASE at \in {2, 4, 6, 7}
  <2> DEFINE x == IF at = 2 THEN "ra" ELSE IF at = 4 THEN "gp" ELSE IF at = 6 THEN "a0" ELSE "a1"
             k == IF at = 2 THEN 0 ELSE IF at = 4 THEN 1 ELSE IF at = 6 THEN 2 ELSE 3
  <2>1. k \in Nat /\ k < Len(stack)
    BY <1>5 DEF Mips64el
  <2>2. Stepped /\ StoredAt(Len(stack) - k, regs[x])
    BY <1>5, <2>1, Mips64elCode, DoStore
  <2> QED BY <1>1, <1>3, <1>5, <2>2 DEF Mips64el, FirstPass, SecondPass, Stepped, Moves, StoredAt, Machine, InEntry
<1>6. CASE at = 3
  <2>1. Stepped /\ NewReg("ra", <<"_pc">>)
    BY <1>6, Mips64elCode, DoBal
  <2> QED BY <1>1, <1>2, <1>3, <1>6, <2>1 DEF Mips64el, FirstPass, SecondPass, Stepped, Moves, NewReg, Machine, InEntry
<1>7. CASE at \in {5, 8, 9, 10}
  <2>1. Stepped /\ NewReg(IF at = 5 THEN "gp" ELSE IF at = 8 THEN "a0" ELSE IF at = 9 THEN "a1" ELSE "t9",
                          IF regs["ra"] = <<"_pc">>
                          THEN <<IF at = 5 THEN "_gp" ELSE IF at = 8 THEN "ImageBase"
                                 ELSE IF at = 9 THEN "_DYNAMIC" ELSE "_relocate">>
                          ELSE S!AnyValue)
    BY <1>2, <1>7, Mips64elCode, DoRelative
  <2> QED BY <1>1, <1>2, <1>3, <1>7, <2>1
          DEF Mips64el, FirstPass, SecondPass, Stepped, Moves, NewReg, Machine, InEntry, S!AnyValue
<1>8. CASE at = 12
  <2>1. at' = (IF regs["v0"] # <<"status", 0>> THEN 5 ELSE at + 1) /\ Moves /\ UNCHANGED <<regs, stack>>
    BY <1>8, Mips64elCode, DoJump
  <2> QED BY <1>1, <1>3, <1>8, <2>1 DEF Mips64el, FirstPass, SecondPass, Moves, Machine, InEntry
<1>9. CASE at \in {13, 14, 16, 17}
  <2> DEFINE x == IF at = 13 THEN "a0" ELSE IF at = 14 THEN "a1" ELSE IF at = 16 THEN "gp" ELSE "ra"
             k == IF at = 13 THEN 2 ELSE IF at = 14 THEN 3 ELSE IF at = 16 THEN 1 ELSE 0
  <2>1. Stepped /\ NewReg(x, stack[Len(stack) - k])
    BY <1>2, <1>9, Mips64elCode, DoLoad
  <2> QED BY <1>1, <1>2, <1>3, <1>9, <2>1 DEF Mips64el, FirstPass, SecondPass, Stepped, Moves, NewReg, Machine, InEntry
<1>10. CASE at = 18
  <2>1. Stepped /\ NewStack(Len(stack) - 4, Len(stack) - 4)
    BY <1>1, <1>10, Mips64elCode, DoFree DEF Mips64el
  <2> QED BY <1>1, <1>3, <1>10, <2>1 DEF Mips64el, FirstPass, SecondPass, Stepped, Moves, NewStack, Machine, InEntry
<1> QED BY <1>4, <1>5, <1>6, <1>7, <1>8, <1>9, <1>10 DEF Mips64el

\* Its calls and its return.
LEMMA Mips64elKeeps ==
  ASSUME Mips64el, arch = "mips64el", arch \in Archs, S!Next, phase = "code", Machine, GivenOK
  PROVE  Outcome(Mips64el')
<1>1. S!S.args = <<"a0", "a1">> /\ S!S.link = "ra" /\ S!S.result = "v0" /\ S!S.kept = {"gp"}
  BY DEF S!S, S!Start, S!start_mips64el
<1>2. CASE at \notin {11, 15, 19}
  BY <1>2, Mips64elStep, MovesSame DEF Outcome
<1>3. CASE at = 11 /\ FirstPass
  <2>1. Does(<<"callby", "t9">>) /\ regs["t9"] = <<"_relocate">> /\ Fresh /\ given.args = <<>>
    BY <1>3, Mips64elCode DEF Mips64el, FirstPass
  <2>2. /\ PlacedNow' /\ GivenOK' /\ given'.args = given.args /\ Ctors' = Ctors /\ Dtors' = Dtors
        /\ UNCHANGED <<arch, pending, ran, pointers>>
        /\ \/ phase' = "hangs"
           \/ phase' = "code" /\ at' = at + 1 /\ stack' = stack /\ regs' = S!AfterCall(given'.status)
    BY <2>1, Relocates
  <2>3. CASE phase' = "hangs"
    BY <2>1, <2>2, <2>3 DEF Same, Outcome
  <2>4. CASE phase' = "code" /\ at' = at + 1 /\ stack' = stack /\ regs' = S!AfterCall(given'.status)
    <3>1. /\ DOMAIN regs' = S!Registers /\ regs'["v0"] = <<"status", given'.status>>
          /\ regs'["ra"] = <<"behind", 12>>
      BY <1>1, <1>3, <2>4, AfterCallIs DEF S!Registers
    <3> QED BY <1>3, <2>1, <2>2, <2>4, <3>1 DEF Mips64el, FirstPass, Same, Machine, InEntry, Outcome
  <2> QED BY <2>2, <2>3, <2>4
<1>6. CASE at = 11 /\ SecondPass
  <2>1. Does(<<"callby", "t9">>) /\ regs["t9"] = S!AnyValue /\ given.status # 0
    BY <1>6, Mips64elCode DEF SecondPass
  <2>2. phase' = "lost" /\ UNCHANGED <<arch, image, pending, ran, given, pointers>>
    BY <2>1, DoAnywhere
  <2> QED BY <2>1, <2>2, SameIf DEF Outcome
<1>4. CASE at = 15
  <2>1. S!CallEntry
    BY <1>4, Mips64elCode, DoEntry
  <2>2. given' = [given EXCEPT !.args = Passed]
    BY <1>1, <1>4, <2>1 DEF S!CallEntry, Mips64el, Passed
  <2>3. phase' = "constructing" /\ UNCHANGED <<arch, image, at, regs, stack, ran>>
    BY <2>1 DEF S!CallEntry
  <2> QED BY <1>4, <2>1, <2>2, <2>3, EntryKeeps DEF Mips64el, InEntry, Machine, Outcome
<1>5. CASE at = 19
  <2>1. stack = <<S!Frame>> /\ Len(stack) = 1
    BY <1>5, Tuple1 DEF Mips64el, Machine
  <2>2. S!Caller(arch) = <<S!Frame>>
    BY DEF S!Caller, S!Start, S!start_mips64el
  <2>3. regs["ra"] = S!Firmware
    BY <1>1, <1>5 DEF Mips64el
  <2>4. /\ stack' = stack /\ phase' = "returned"
        /\ UNCHANGED <<arch, image, regs, pending, ran, given, pointers>>
    BY <1>1, <1>5, <2>1, <2>3, Mips64elCode, DoRet
  <2>5. Back'
    BY <1>1, <1>5, <2>1, <2>2, <2>4 DEF Back, S!S, S!Caller, Mips64el
  <2> QED BY <2>4, <2>5, SameIf DEF Outcome
<1>7. at = 11 => FirstPass \/ SecondPass
  BY DEF Mips64el
<1> QED BY <1>2, <1>3, <1>4, <1>5, <1>6, <1>7

LEMMA Mips64elReturns ==
  ASSUME Mips64el, arch = "mips64el", S!EntryReturns, Machine PROVE Machine' /\ Mips64el'
<1>1. at = 15 /\ at' = 16 /\ phase' = "code" /\ stack' = stack /\ UNCHANGED <<arch, image, given>>
  BY DEF S!EntryReturns, Mips64el, InEntry
<1>2. DOMAIN regs' = S!Registers
  BY AfterCallIs DEF S!EntryReturns
<1> QED BY <1>1, <1>2, FreshKept DEF Mips64el, Machine, InEntry

-----------------------------------------------------------------------------
(* _entry, its constructors and its destructors. *)

\* f selects from the first n functions.
Selects(f, fs, n) ==
  f = [j \in 0..n |-> IF j = 0 THEN <<>> ELSE IF fs[j] = "NULL" THEN f[j - 1] ELSE Append(f[j - 1], fs[j])]

\* Called, with its function named.
LEMMA CalledIs == ASSUME NEW fs PROVE S!Called(fs) = (CHOOSE f: Selects(f, fs, Len(fs)))[Len(fs)]
BY Zenon DEF S!Called, Selects

\* There is such a function, by induction over its length.
LEMMA SelectsOneMore ==
  ASSUME NEW fs, NEW n \in Nat \ {0}, NEW f, Selects(f, fs, n - 1) PROVE \E g: Selects(g, fs, n)
<1> DEFINE last == IF fs[n] = "NULL" THEN f[n - 1] ELSE Append(f[n - 1], fs[n])
           g == [j \in 0..n |-> IF j < n THEN f[j] ELSE last]
<1>1. \A j \in 0..(n - 1): f[j] = IF j = 0 THEN <<>> ELSE IF fs[j] = "NULL" THEN f[j - 1] ELSE Append(f[j - 1], fs[j])
  BY DEF Selects
<1>2. ASSUME NEW j \in 0..n
      PROVE  g[j] = IF j = 0 THEN <<>> ELSE IF fs[j] = "NULL" THEN g[j - 1] ELSE Append(g[j - 1], fs[j])
  <2>1. CASE j = 0
    BY <1>1, <2>1
  <2>2. CASE j # 0 /\ j < n
    <3>1. g[j] = f[j] /\ g[j - 1] = f[j - 1] /\ j \in 0..(n - 1)
      BY <2>2
    <3> HIDE DEF g
    <3> QED BY <1>1, <2>2, <3>1
  <2>3. CASE j = n
    <3>1. g[j] = last /\ g[j - 1] = f[n - 1]
      BY <2>3
    <3> HIDE DEF g
    <3> QED BY <2>3, <3>1
  <2> QED BY <2>1, <2>2, <2>3
<1>3. g = [j \in 0..n |-> g[j]]
  OBVIOUS
<1> HIDE DEF g
<1>4. Selects(g, fs, n)
  BY <1>2, <1>3 DEF Selects
<1> QED BY <1>4

LEMMA SelectsAll == ASSUME NEW fs, Len(fs) \in Nat PROVE \E f: Selects(f, fs, Len(fs))
<1> DEFINE W == {n \in 0..Len(fs): ~\E f: Selects(f, fs, n)}
<1>1. SUFFICES ASSUME W # {} PROVE FALSE
  OBVIOUS
<1>2. PICK n \in W: \A k \in W: n <= k
  <2>1. W \in SUBSET Nat
    OBVIOUS
  <2> HIDE DEF W
  <2> QED BY <1>1, <2>1, Least
<1>3. n \in 0..Len(fs) /\ ~\E f: Selects(f, fs, n)
  BY <1>2
<1>4. n # 0
  <2>1. Selects([j \in 0..0 |-> <<>>], fs, 0)
    BY DEF Selects
  <2> QED BY <1>3, <2>1
<1>5. n - 1 \in 0..Len(fs) /\ ~(n <= n - 1) /\ n \in Nat \ {0}
  BY <1>3, <1>4
<1>6. n - 1 \notin W
  <2> HIDE DEF W
  <2> QED BY <1>2, <1>5
<1> QED BY <1>3, <1>5, <1>6, SelectsOneMore

\* Called gives a sequence of the functions it is given.
LEMMA CalledSeq == ASSUME NEW T0, NEW fs \in Seq(T0) PROVE S!Called(fs) \in Seq(T0)
<1> DEFINE f == CHOOSE g: Selects(g, fs, Len(fs))
           W == {j \in 0..Len(fs): f[j] \notin Seq(T0)}
<1>1. Len(fs) \in Nat /\ \A j \in 1..Len(fs): fs[j] \in T0
  BY ElementOfSeq, LenProperties
<1>2. Selects(f, fs, Len(fs))
  BY <1>1, SelectsAll, Zenon
<1>3. S!Called(fs) = f[Len(fs)]
  BY CalledIs, Zenon
<1> HIDE DEF f
<1>4. \A j \in 0..Len(fs): f[j] = IF j = 0 THEN <<>> ELSE IF fs[j] = "NULL" THEN f[j - 1] ELSE Append(f[j - 1], fs[j])
  BY <1>2 DEF Selects
<1>5. SUFFICES ASSUME W # {} PROVE FALSE
  BY <1>1, <1>3
<1>6. PICK j \in W: \A k \in W: j <= k
  <2>1. W \in SUBSET Nat
    BY <1>1
  <2> HIDE DEF W
  <2> QED BY <1>5, <2>1, Least
<1>11. j \in 0..Len(fs) /\ f[j] \notin Seq(T0)
  BY <1>6
<1>7. j \in 1..Len(fs)
  <2>1. f[0] = <<>>
    BY <1>1, <1>4
  <2>2. <<>> \in Seq(T0)
    OBVIOUS
  <2>3. j # 0
    BY <1>11, <2>1, <2>2
  <2> QED BY <1>1, <1>11, <2>3
<1>8. j - 1 \in 0..Len(fs) /\ ~(j <= j - 1) /\ j \in 0..Len(fs)
  BY <1>1, <1>7
<1>9. f[j - 1] \in Seq(T0)
  BY <1>6, <1>8
<1>10. fs[j] \in T0
  BY <1>1, <1>7
<1>12. f[j] = IF fs[j] = "NULL" THEN f[j - 1] ELSE Append(f[j - 1], fs[j])
  BY <1>4, <1>7, <1>8
<1>13. Append(f[j - 1], fs[j]) \in Seq(T0)
  BY <1>9, <1>10
<1> QED BY <1>9, <1>11, <1>12, <1>13

\* The names of functions.
Functions == STRING \union {"efi_main"}

\* The constructors and destructors of an image.
LEMMA FunctionsOfImages == ASSUME NEW m \in Images PROVE S!ctors(m) \in Seq(Functions) /\ S!dtors(m) \in Seq(Functions)
<1>1. /\ m.init_array \in Seq(STRING) /\ m.ctors \in Seq(STRING)
      /\ m.dtors \in Seq(STRING) /\ m.fini_array \in Seq(STRING)
  BY StartupAssumption
<1>2. /\ m.init_array \in Seq(Functions) /\ m.ctors \in Seq(Functions)
      /\ m.dtors \in Seq(Functions) /\ m.fini_array \in Seq(Functions)
  BY <1>1 DEF Functions
<1>3. \A s \in Seq(Functions): S!Reverse(s) \in Seq(Functions)
  <2> SUFFICES ASSUME NEW s \in Seq(Functions) PROVE S!Reverse(s) \in Seq(Functions)
    OBVIOUS
  <2>1. Len(s) \in Nat /\ \A j \in 1..Len(s): s[(Len(s) - j) + 1] \in Functions
    OBVIOUS
  <2> QED BY <2>1 DEF S!Reverse
<1>4. /\ S!Called(m.init_array) \in Seq(Functions) /\ S!Called(S!Reverse(m.ctors)) \in Seq(Functions)
      /\ S!Called(m.dtors) \in Seq(Functions) /\ S!Called(S!Reverse(m.fini_array)) \in Seq(Functions)
  BY <1>2, <1>3, CalledSeq
<1> QED BY <1>4 DEF S!ctors, S!dtors

-----------------------------------------------------------------------------
\* Everything _entry calls, in order.
All == Ctors \o <<"efi_main">> \o Dtors

\* Called so far and still to call, phase by phase.
FInv ==
  /\ Ctors \in Seq(Functions) /\ Dtors \in Seq(Functions)
  /\ ran \in Seq(Functions) /\ pending \in Seq(Functions)
  /\ phase \in {"code", "returned", "virtual"} => pending = <<>> /\ ran = IF given.args = <<>> THEN <<>> ELSE All
  /\ phase \in {"lost", "hangs"} => ran = IF given.args = <<>> THEN <<>> ELSE All
  /\ phase = "constructing" => ran \o pending = Ctors
  /\ phase = "destructing" => ran \o pending = All
  /\ phase = "exited" => ran = Append(Ctors, "efi_main")
  /\ phase \in {"constructing", "destructing", "exited"} => given.args = Passed

\* No pointer is converted twice.
PInv ==
  /\ phase # "virtual" => \A p \in DOMAIN pointers: pointers[p] \in {"NULL", "physical"}
  /\ phase = "virtual" => \A p \in DOMAIN pointers: pointers[p] \in {"NULL", "virtual"}

\* The invariant of the architecture.
CodeInv ==
  /\ arch = "x86_64" => X86
  /\ arch = "ia32" => IA32
  /\ arch = "aarch64" => AArch64
  /\ arch = "arm" => Arm
  /\ arch = "loongarch64" => LoongArch64
  /\ arch = "riscv64" => RiscV64
  /\ arch = "mips64el" => Mips64el

\* What held when _entry was called.
Reached == given.args # <<>> => PlacedNow /\ (given.status # 0 => arch = "x86_64")

\* The invariant of an image from _start to its end.
SInv ==
  /\ arch \in Archs /\ GivenOK
  /\ phase \in {"code", "constructing", "destructing", "returned", "virtual", "exited", "hangs", "lost"}
  /\ phase \in {"code", "constructing", "destructing"} => Machine /\ CodeInv
  /\ phase \in {"returned", "virtual"} => Back
  /\ phase = "lost" => arch \in {"riscv64", "mips64el"} /\ given.status # 0
  /\ phase = "hangs" => arch = "mips64el"
  /\ Reached /\ FInv /\ PInv

\* The invariant of the architecture does not look at the functions, and looks
\* at the phase only for whether _entry runs.
LEMMA CodeKept ==
  ASSUME CodeInv, Machine, InEntry, InEntry', UNCHANGED <<arch, image, at, regs, stack, given>>
  PROVE  CodeInv' /\ Machine'
<1>1. (Fresh' <=> Fresh) /\ (PlacedNow' <=> PlacedNow)
  BY FreshKept
<1>2. phase # "code" /\ phase' # "code"
  BY DEF InEntry
<1>3. Machine'
  BY DEF Machine, IsStack
<1>4. X86 => X86'
  BY <1>1, <1>2 DEF X86
<1>5. IA32 => IA32'
  BY <1>1, <1>2 DEF IA32
<1>6. AArch64 => AArch64'
  BY <1>1, <1>2 DEF AArch64
<1>7. Arm => Arm'
  BY <1>1, <1>2 DEF Arm
<1>8. LoongArch64 => LoongArch64'
  BY <1>1, <1>2 DEF LoongArch64
<1>9. RiscV64 => RiscV64'
  BY <1>1, <1>2 DEF RiscV64
<1>10. Mips64el => Mips64el'
  BY <1>1, <1>2 DEF Mips64el, FirstPass, SecondPass
<1> QED BY <1>3, <1>4, <1>5, <1>6, <1>7, <1>8, <1>9, <1>10 DEF CodeInv

\* The stacks the firmware calls with.
LEMMA WordsAreStack ==
  ASSUME NEW a, NEW b, NEW c, NEW d
  PROVE  IsStack(<<a>>) /\ IsStack(<<a, b>>) /\ IsStack(<<a, b, c, d>>)
<1> DEFINE W == {a, b, c, d}
<1>1. a \in W /\ b \in W /\ c \in W /\ d \in W
  OBVIOUS
<1> HIDE DEF W
<1>2. <<a>> \in Seq(W) /\ <<a, b>> \in Seq(W) /\ <<a, b, c, d>> \in Seq(W)
  BY <1>1
<1> QED BY <1>2 DEF IsStack

\* The registers it calls with, when it passes the arguments in them.
LEMMA FirstRegsAre ==
  ASSUME NEW a, NEW x \in S!Registers, NEW y \in S!Registers, x # y, S!Start[a].regs = <<x, y>>
  PROVE  /\ S!FirstRegs(a)[x] = S!Handle /\ S!FirstRegs(a)[y] = S!SystemTable
         /\ \A r \in S!Registers \ {x, y}:
              S!FirstRegs(a)[r] = IF r = S!Start[a].link THEN S!Firmware
                                  ELSE IF r \in S!Start[a].kept THEN S!Kept ELSE S!AnyValue
<1>1. DOMAIN <<x, y>> = 1..2 /\ <<x, y>>[1] = x /\ <<x, y>>[2] = y
  OBVIOUS
<1>2. \A r \in S!Registers: (\E k \in DOMAIN S!Start[a].regs: S!Start[a].regs[k] = r) <=> r \in {x, y}
  BY <1>1
<1> QED BY <1>1, <1>2 DEF S!FirstRegs

\* The firmware's call.
LEMMA FirstCode == ASSUME S!Init PROVE Machine /\ CodeInv
<1>1. /\ arch \in {"x86_64", "ia32", "aarch64", "arm", "loongarch64", "riscv64", "mips64el"}
      /\ phase = "code" /\ at = 1 /\ given.args = <<>> /\ Fresh
  BY StartupAssumption DEF S!Init, Fresh, S!S
<1>2. DOMAIN regs = S!Registers /\ \A r \in S!Registers: regs[r] = S!FirstRegs(arch)[r]
  BY DEF S!Init, S!FirstRegs
<1>3. stack = S!Caller(arch)
  BY DEF S!Init
<1>4. ~InEntry
  BY <1>1 DEF InEntry
<1>5. CASE arch = "x86_64"
  <2>1. stack = <<S!Frame, S!Firmware>>
    BY <1>3, <1>5 DEF S!Caller, S!Start, S!start_x86_64
  <2>2. IsStack(stack)
    BY <2>1, WordsAreStack
  <2>3. regs["rcx"] = S!Handle /\ regs["rdx"] = S!SystemTable
    <3>1. S!Start[arch].regs = <<"rcx", "rdx">> /\ S!Start[arch].link = "stack"
      BY <1>5 DEF S!Start, S!start_x86_64
    <3>2. {"rcx", "rdx"} \subseteq S!Registers
      BY DEF S!Registers
    <3> QED BY <1>2, <3>1, <3>2, FirstRegsAre
  <2> QED BY <1>1, <1>2, <1>4, <1>5, <2>1, <2>2, <2>3 DEF Machine, CodeInv, X86
<1>6. CASE arch = "ia32"
  <2>1. stack = <<S!Frame, S!SystemTable, S!Handle, S!Firmware>>
    BY <1>3, <1>6 DEF S!Caller, S!Start, S!start_ia32
  <2>2. IsStack(stack)
    BY <2>1, WordsAreStack
  <2>3. regs["ebp"] = S!Kept
    <3>1. S!Start[arch].regs = <<>> /\ S!Start[arch].link = "stack" /\ S!Start[arch].kept = {"ebx", "ebp"}
      BY <1>6 DEF S!Start, S!start_ia32
    <3>2. "ebp" \in S!Registers
      BY DEF S!Registers
    <3> QED BY <1>2, <3>1, <3>2 DEF S!FirstRegs
  <2> QED BY <1>1, <1>2, <1>4, <1>6, <2>1, <2>2, <2>3 DEF Machine, CodeInv, IA32
<1>7. CASE arch = "aarch64"
  <2>1. stack = <<S!Frame>>
    BY <1>3, <1>7 DEF S!Caller, S!Start, S!start_aarch64
  <2>2. IsStack(stack)
    BY <2>1, WordsAreStack
  <2>3. regs["x0"] = S!Handle /\ regs["x1"] = S!SystemTable /\ regs["x29"] = S!Kept /\ regs["x30"] = S!Firmware
    <3>1. S!Start[arch].regs = <<"x0", "x1">> /\ S!Start[arch].link = "x30" /\ S!Start[arch].kept = {"x29"}
      BY <1>7 DEF S!Start, S!start_aarch64
    <3>2. {"x0", "x1", "x29", "x30"} \subseteq S!Registers
      BY DEF S!Registers
    <3> QED BY <1>2, <3>1, <3>2, FirstRegsAre
  <2> QED BY <1>1, <1>2, <1>4, <1>7, <2>1, <2>2, <2>3 DEF Machine, CodeInv, AArch64
<1>8. CASE arch = "arm"
  <2>1. stack = <<S!Frame>>
    BY <1>3, <1>8 DEF S!Caller, S!Start, S!start_arm
  <2>2. IsStack(stack)
    BY <2>1, WordsAreStack
  <2>3. regs["r0"] = S!Handle /\ regs["r1"] = S!SystemTable /\ regs["lr"] = S!Firmware
    <3>1. S!Start[arch].regs = <<"r0", "r1">> /\ S!Start[arch].link = "lr"
      BY <1>8 DEF S!Start, S!start_arm
    <3>2. {"r0", "r1", "lr"} \subseteq S!Registers
      BY DEF S!Registers
    <3> QED BY <1>2, <3>1, <3>2, FirstRegsAre
  <2> QED BY <1>1, <1>2, <1>4, <1>8, <2>1, <2>2, <2>3 DEF Machine, CodeInv, Arm
<1>9. CASE arch \in {"loongarch64", "riscv64", "mips64el"}
  <2>1. stack = <<S!Frame>>
    BY <1>3, <1>9 DEF S!Caller, S!Start, S!start_loongarch64, S!start_riscv64, S!start_mips64el
  <2>2. IsStack(stack)
    BY <2>1, WordsAreStack
  <2>3. /\ S!Start[arch].regs = <<"a0", "a1">> /\ S!Start[arch].link = "ra"
        /\ arch = "mips64el" => S!Start[arch].kept = {"gp"}
    <3>1. CASE arch = "loongarch64"
      BY <3>1 DEF S!Start, S!start_loongarch64
    <3>2. CASE arch = "riscv64"
      BY <3>2 DEF S!Start, S!start_riscv64
    <3>3. CASE arch = "mips64el"
      BY <3>3 DEF S!Start, S!start_mips64el
    <3> QED BY <1>9, <3>1, <3>2, <3>3
  <2>4. {"a0", "a1", "ra", "gp"} \subseteq S!Registers
    BY DEF S!Registers
  <2>5. regs["a0"] = S!Handle /\ regs["a1"] = S!SystemTable /\ regs["ra"] = S!Firmware
    BY <1>2, <2>3, <2>4, FirstRegsAre
  <2>6. arch = "mips64el" => regs["gp"] = S!Kept
    BY <1>2, <2>3, <2>4, FirstRegsAre
  <2>7. given.status = 0
    BY DEF S!Init
  <2> QED BY <1>1, <1>2, <1>4, <1>9, <2>1, <2>2, <2>5, <2>6, <2>7
          DEF Machine, CodeInv, LoongArch64, RiscV64, Mips64el, FirstPass
<1> QED BY <1>1, <1>5, <1>6, <1>7, <1>8, <1>9

\* The invariant holds at first ...
LEMMA SInitOK == ASSUME S!Init PROVE SInv
<1>1. Machine /\ CodeInv
  BY FirstCode
<1>2. /\ arch \in Archs /\ image \in Images /\ phase = "code" /\ ran = <<>> /\ pending = <<>>
      /\ given = [status |-> 0, args |-> <<>>]
      /\ pointers = [p \in {"RT", "LibRuntimeDebugOut", "LibRuntimeRaiseTPL", "LibRuntimeRestoreTPL"} |-> "NULL"]
  BY DEF S!Init
<1>3. GivenOK /\ given.args = <<>>
  BY <1>2 DEF GivenOK
<1>4. Reached
  BY <1>3 DEF Reached
<1>5. FInv
  BY <1>2, <1>3, FunctionsOfImages DEF FInv, Ctors, Dtors
<1>6. PInv
  BY <1>2 DEF PInv
<1> QED BY <1>1, <1>2, <1>3, <1>4, <1>5, <1>6 DEF SInv

\* A step of the start-up code.
LEMMA CodeOutcome ==
  ASSUME SInv, S!Next, phase = "code" PROVE Outcome(CodeInv')
<1>1. /\ Machine /\ CodeInv /\ GivenOK /\ arch \in Archs
      /\ arch \in {"x86_64", "ia32", "aarch64", "arm", "loongarch64", "riscv64", "mips64el"}
  BY StartupAssumption DEF SInv
<1>2. arch' = arch
  BY DEF S!Next, S!Instruction, S!Jump, S!Ret, S!CallRelocate, S!CallAnywhere, S!CallEntry, S!Construct, S!Destruct,
         S!CallFunction, S!MainReturns, S!Exit, S!EntryReturns, S!RtLibEnableVirtualMappings, S!Stay, S!vars
<1>3. CASE arch = "x86_64"
  <2>1. Outcome(X86')
    BY <1>1, <1>3, X86Keeps DEF CodeInv
  <2>2. X86' => CodeInv'
    BY <1>2, <1>3 DEF CodeInv
  <2> QED BY <2>1, <2>2 DEF Outcome
<1>4. CASE arch = "ia32"
  <2>1. Outcome(IA32')
    BY <1>1, <1>4, IA32Keeps DEF CodeInv
  <2>2. IA32' => CodeInv'
    BY <1>2, <1>4 DEF CodeInv
  <2> QED BY <2>1, <2>2 DEF Outcome
<1>5. CASE arch = "aarch64"
  <2>1. Outcome(AArch64')
    BY <1>1, <1>5, AArch64Keeps DEF CodeInv
  <2>2. AArch64' => CodeInv'
    BY <1>2, <1>5 DEF CodeInv
  <2> QED BY <2>1, <2>2 DEF Outcome
<1>6. CASE arch = "arm"
  <2>1. Outcome(Arm')
    BY <1>1, <1>6, ArmKeeps DEF CodeInv
  <2>2. Arm' => CodeInv'
    BY <1>2, <1>6 DEF CodeInv
  <2> QED BY <2>1, <2>2 DEF Outcome
<1>7. CASE arch = "loongarch64"
  <2>1. Outcome(LoongArch64')
    BY <1>1, <1>7, LoongArch64Keeps DEF CodeInv
  <2>2. LoongArch64' => CodeInv'
    BY <1>2, <1>7 DEF CodeInv
  <2> QED BY <2>1, <2>2 DEF Outcome
<1>8. CASE arch = "riscv64"
  <2>1. Outcome(RiscV64')
    BY <1>1, <1>8, RiscV64Keeps DEF CodeInv
  <2>2. RiscV64' => CodeInv'
    BY <1>2, <1>8 DEF CodeInv
  <2> QED BY <2>1, <2>2 DEF Outcome
<1>9. CASE arch = "mips64el"
  <2>1. Outcome(Mips64el')
    BY <1>1, <1>9, Mips64elKeeps DEF CodeInv
  <2>2. Mips64el' => CodeInv'
    BY <1>2, <1>9 DEF CodeInv
  <2> QED BY <2>1, <2>2 DEF Outcome
<1> QED BY <1>1, <1>3, <1>4, <1>5, <1>6, <1>7, <1>8, <1>9

\* ... and _entry's return to it.
LEMMA CodeReturns ==
  ASSUME SInv, S!EntryReturns PROVE Machine' /\ CodeInv'
<1>1. /\ Machine /\ CodeInv
      /\ arch \in {"x86_64", "ia32", "aarch64", "arm", "loongarch64", "riscv64", "mips64el"}
  BY StartupAssumption DEF SInv, S!EntryReturns
<1>2. arch' = arch
  BY DEF S!EntryReturns
<1>3. CASE arch = "x86_64"
  BY <1>1, <1>2, <1>3, X86Returns DEF CodeInv
<1>4. CASE arch = "ia32"
  BY <1>1, <1>2, <1>4, IA32Returns DEF CodeInv
<1>5. CASE arch = "aarch64"
  BY <1>1, <1>2, <1>5, AArch64Returns DEF CodeInv
<1>6. CASE arch = "arm"
  BY <1>1, <1>2, <1>6, ArmReturns DEF CodeInv
<1>7. CASE arch = "loongarch64"
  BY <1>1, <1>2, <1>7, LoongArch64Returns DEF CodeInv
<1>8. CASE arch = "riscv64"
  BY <1>1, <1>2, <1>8, RiscV64Returns DEF CodeInv
<1>9. CASE arch = "mips64el"
  BY <1>1, <1>2, <1>9, Mips64elReturns DEF CodeInv
<1> QED BY <1>1, <1>3, <1>4, <1>5, <1>6, <1>7, <1>8, <1>9

\* The rest of the invariant, when the code goes on or is left.
LEMMA SameKeeps ==
  ASSUME SInv, Same, phase = "code", phase' \in {"code", "returned", "lost", "hangs"}
  PROVE  Reached' /\ FInv' /\ PInv' /\ GivenOK' /\ arch' \in Archs
<1>1. /\ UNCHANGED <<arch, pending, ran, pointers>> /\ GivenOK' /\ given'.args = given.args
      /\ Ctors' = Ctors /\ Dtors' = Dtors
      /\ given.args # <<>> => UNCHANGED <<image, given>>
  BY DEF Same
<1>2. given.args # <<>> => (PlacedNow' <=> PlacedNow)
  BY <1>1, FreshKept
<1>3. Reached'
  BY <1>1, <1>2 DEF SInv, Reached
<1>4. All' = All
  BY <1>1 DEF All
<1>5. FInv'
  BY <1>1, <1>4 DEF SInv, FInv
<1>6. PInv'
  BY <1>1 DEF SInv, PInv
<1> QED BY <1>1, <1>3, <1>5, <1>6 DEF SInv

\* ... through every step of the start-up code ...
LEMMA SCode == ASSUME SInv, S!Next, phase = "code" PROVE SInv'
<1>1. Outcome(CodeInv')
  BY CodeOutcome
<1>2. CASE phase' = "code" /\ Same /\ Machine' /\ CodeInv'
  BY <1>2, SameKeeps DEF SInv
<1>3. CASE /\ S!CallEntry /\ Machine' /\ CodeInv' /\ given.args = <<>>
           /\ given' = [given EXCEPT !.args = Passed] /\ PlacedNow /\ (given.status # 0 => arch = "x86_64")
  <2>1. /\ pointers' = [pointers EXCEPT !["RT"] = "physical"] /\ pending' = Ctors /\ phase' = "constructing"
        /\ UNCHANGED <<arch, image, at, regs, stack, ran>>
    BY <1>3 DEF S!CallEntry, Ctors
  <2>2. /\ given'.args = Passed /\ given'.status = given.status /\ GivenOK'
        /\ (PlacedNow' <=> PlacedNow) /\ Ctors' = Ctors /\ Dtors' = Dtors
    BY <1>3, <2>1, EntryKeeps DEF SInv
  <2>3. Reached'
    BY <1>3, <2>1, <2>2 DEF Reached
  <2>4. PInv'
    BY <2>1 DEF SInv, PInv
  <2>5. ran = <<>>
    BY <1>3 DEF SInv, FInv
  <2>6. ran' \o pending' = Ctors
    BY <2>1, <2>5 DEF SInv, FInv
  <2>7. FInv'
    BY <2>1, <2>2, <2>5, <2>6 DEF SInv, FInv
  <2> QED BY <1>3, <2>1, <2>2, <2>3, <2>4, <2>7 DEF SInv
<1>4. CASE phase' = "returned" /\ Same /\ Back'
  BY <1>4, SameKeeps DEF SInv
<1>5. CASE phase' = "lost" /\ Same /\ arch \in {"riscv64", "mips64el"} /\ given'.status # 0
  BY <1>5, SameKeeps DEF SInv, Same
<1>6. CASE phase' = "hangs" /\ Same /\ arch = "mips64el"
  BY <1>6, SameKeeps DEF SInv, Same
<1> QED BY <1>1, <1>2, <1>3, <1>4, <1>5, <1>6 DEF Outcome

\* The functions that have run and the ones still to run stay in order.
LEMMA Shifted ==
  ASSUME NEW s \in Seq(Functions), NEW t \in Seq(Functions), t # <<>>
  PROVE  /\ Append(s, Head(t)) \in Seq(Functions) /\ Tail(t) \in Seq(Functions)
         /\ Append(s, Head(t)) \o Tail(t) = s \o t
<1>1. Head(t) \in Functions /\ Tail(t) \in Seq(Functions) /\ Len(Tail(t)) = Len(t) - 1 /\ Len(t) \in Nat \ {0}
  OBVIOUS
<1>2. Append(s, Head(t)) \in Seq(Functions) /\ Len(Append(s, Head(t))) = Len(s) + 1 /\ Len(s) \in Nat
  BY <1>1
<1> DEFINE u == Append(s, Head(t)) \o Tail(t)
           v == s \o t
<1>3. u \in Seq(Functions) /\ v \in Seq(Functions) /\ Len(u) = Len(s) + Len(t) /\ Len(v) = Len(s) + Len(t)
  BY <1>1, <1>2
<1>4. ASSUME NEW j \in 1..(Len(s) + Len(t)) PROVE u[j] = v[j]
  <2>1. CASE j <= Len(s)
    BY <1>1, <1>2, <2>1
  <2>2. CASE j = Len(s) + 1
    BY <1>1, <1>2, <2>2
  <2>3. CASE j > Len(s) + 1
    BY <1>1, <1>2, <2>3
  <2> QED BY <1>1, <1>2, <2>1, <2>2, <2>3
<1> HIDE DEF u, v
<1>5. u = v
  BY <1>3, <1>4, SeqEqual
<1> QED BY <1>1, <1>2, <1>5 DEF u, v

\* A step within _entry that only the functions and the pointers take part in.
LEMMA EntryStep ==
  ASSUME SInv, InEntry, UNCHANGED <<arch, image, at, regs, stack, given>>
  PROVE  /\ GivenOK' /\ arch' \in Archs /\ Reached' /\ Ctors' = Ctors /\ Dtors' = Dtors /\ All' = All
         /\ InEntry' => Machine' /\ CodeInv'
<1>1. Machine /\ CodeInv
  BY DEF SInv, InEntry
<1>2. InEntry' => Machine' /\ CodeInv'
  BY <1>1, CodeKept
<1>3. (PlacedNow' <=> PlacedNow) /\ Ctors' = Ctors /\ Dtors' = Dtors
  BY FreshKept
<1>4. All' = All
  BY <1>3 DEF All
<1>5. Reached'
  BY <1>3 DEF SInv, Reached
<1>6. GivenOK' /\ arch' \in Archs
  BY DEF SInv, GivenOK, Passed, S!Handle, S!SystemTable
<1> QED BY <1>2, <1>3, <1>4, <1>5, <1>6

\* ... every constructor and destructor ...
LEMMA SFunction ==
  ASSUME SInv, S!Construct \/ S!Destruct PROVE SInv'
<1>1. /\ phase \in {"constructing", "destructing"} /\ phase' = phase /\ pending # <<>>
      /\ ran' = Append(ran, Head(pending)) /\ pending' = Tail(pending)
      /\ UNCHANGED <<arch, image, at, regs, stack, given, pointers>>
  BY DEF S!Construct, S!Destruct, S!CallFunction
<1>2. InEntry /\ InEntry'
  BY <1>1 DEF InEntry
<1>3. /\ GivenOK' /\ arch' \in Archs /\ Reached' /\ Ctors' = Ctors /\ Dtors' = Dtors /\ All' = All
      /\ Machine' /\ CodeInv'
  BY <1>1, <1>2, EntryStep
<1>4. ran' \in Seq(Functions) /\ pending' \in Seq(Functions) /\ ran' \o pending' = ran \o pending
  <2>1. ran \in Seq(Functions) /\ pending \in Seq(Functions)
    BY DEF SInv, FInv
  <2> QED BY <1>1, <2>1, Shifted
<1>5. FInv'
  BY <1>1, <1>3, <1>4 DEF SInv, FInv, Passed, S!Handle, S!SystemTable
<1>6. PInv'
  BY <1>1 DEF SInv, PInv
<1> QED BY <1>1, <1>3, <1>5, <1>6 DEF SInv

\* ... efi_main ...
LEMMA SMain ==
  ASSUME SInv, S!MainReturns \/ S!Exit PROVE SInv'
<1>1. /\ phase = "constructing" /\ pending = <<>> /\ ran' = Append(ran, "efi_main")
      /\ UNCHANGED <<arch, image, at, regs, stack, given>>
  BY DEF S!MainReturns, S!Exit
<1>2. InEntry
  BY <1>1 DEF InEntry
<1>3. /\ GivenOK' /\ arch' \in Archs /\ Reached' /\ Ctors' = Ctors /\ Dtors' = Dtors /\ All' = All
      /\ InEntry' => Machine' /\ CodeInv'
  BY <1>1, <1>2, EntryStep
<1>4. Ctors \in Seq(Functions) /\ Dtors \in Seq(Functions) /\ "efi_main" \in Functions /\ given.args = Passed
  BY <1>1 DEF SInv, FInv, Functions
<1>5. ran = Ctors
  BY <1>1 DEF SInv, FInv
<1>6. ran' = Append(Ctors, "efi_main") /\ ran' \in Seq(Functions)
  BY <1>1, <1>4, <1>5
<1>7. ran' \o Dtors = All
  <2>1. Append(Ctors, "efi_main") = Ctors \o <<"efi_main">>
    BY <1>4
  <2> QED BY <1>6, <2>1 DEF All
<1>8. given'.args = Passed'
  BY <1>1, <1>4 DEF Passed, S!Handle, S!SystemTable
<1>9. CASE S!MainReturns
  <2>1. phase' = "destructing" /\ pending' = Dtors
    BY <1>9 DEF S!MainReturns, Dtors
  <2>2. InEntry'
    BY <2>1 DEF InEntry
  <2>3. FInv'
    BY <1>3, <1>4, <1>6, <1>7, <1>8, <2>1 DEF FInv
  <2>4. PInv'
    BY <1>1, <1>9, <2>1 DEF S!MainReturns, SInv, PInv
  <2> QED BY <1>3, <2>1, <2>2, <2>3, <2>4 DEF SInv
<1>10. CASE S!Exit
  <2>1. phase' = "exited" /\ pending' = pending /\ pointers' = pointers
    BY <1>10 DEF S!Exit
  <2>2. FInv'
    BY <1>1, <1>3, <1>4, <1>6, <1>8, <2>1 DEF FInv
  <2>3. PInv'
    BY <1>1, <2>1 DEF SInv, PInv
  <2> QED BY <1>3, <2>1, <2>2, <2>3 DEF SInv
<1> QED BY <1>9, <1>10

\* ... and the return of _entry.
LEMMA SReturns == ASSUME SInv, S!EntryReturns PROVE SInv'
<1>1. /\ phase = "destructing" /\ phase' = "code" /\ pending = <<>>
      /\ UNCHANGED <<arch, image, stack, pending, ran, given, pointers>>
  BY DEF S!EntryReturns
<1>2. Machine' /\ CodeInv'
  BY CodeReturns
<1>3. (PlacedNow' <=> PlacedNow) /\ Ctors' = Ctors /\ Dtors' = Dtors
  BY <1>1, FreshKept
<1>4. All' = All
  BY <1>3 DEF All
<1>5. ran = All
  <2>1. ran \o pending = All /\ ran \in Seq(Functions)
    BY <1>1 DEF SInv, FInv
  <2> QED BY <1>1, <2>1
<1>6. given.args # <<>>
  <2>1. Passed # <<>>
    BY DEF Passed
  <2> QED BY <1>1, <2>1 DEF SInv, FInv
<1>7. FInv'
  BY <1>1, <1>3, <1>4, <1>5, <1>6 DEF SInv, FInv
<1>8. PInv'
  BY <1>1 DEF SInv, PInv
<1>9. Reached' /\ GivenOK' /\ arch' \in Archs
  BY <1>1, <1>3 DEF SInv, Reached, GivenOK, Passed, S!Handle, S!SystemTable
<1> QED BY <1>1, <1>2, <1>7, <1>8, <1>9 DEF SInv

\* The runtime driver's switch.
LEMMA SVirtual == ASSUME SInv, S!RtLibEnableVirtualMappings PROVE SInv'
<1>1. /\ phase = "returned" /\ phase' = "virtual"
      /\ pointers' = [p \in DOMAIN pointers |-> S!Converted(pointers[p])]
      /\ UNCHANGED <<arch, image, at, regs, stack, pending, ran, given>>
  BY DEF S!RtLibEnableVirtualMappings
<1>2. (PlacedNow' <=> PlacedNow) /\ Ctors' = Ctors /\ Dtors' = Dtors
  BY <1>1, FreshKept
<1>3. All' = All
  BY <1>2 DEF All
<1>4. FInv'
  BY <1>1, <1>2, <1>3 DEF SInv, FInv
<1>5. PInv'
  BY <1>1 DEF SInv, PInv, S!Converted
<1>6. Reached' /\ GivenOK' /\ arch' \in Archs
  BY <1>1, <1>2 DEF SInv, Reached, GivenOK, Passed, S!Handle, S!SystemTable
<1>7. Back'
  BY <1>1 DEF SInv, Back, S!S, S!Caller, S!Kept, S!Frame, S!SystemTable, S!Handle, S!Firmware
<1> QED BY <1>1, <1>4, <1>5, <1>6, <1>7 DEF SInv

\* Nothing else changes it.
LEMMA SStays == ASSUME SInv, UNCHANGED S!vars PROVE SInv'
<1>1. UNCHANGED <<arch, image, phase, at, regs, stack, pending, ran, given, pointers>>
  BY DEF S!vars
<1>2. (Fresh' <=> Fresh) /\ (PlacedNow' <=> PlacedNow) /\ Ctors' = Ctors /\ Dtors' = Dtors
  BY <1>1, FreshKept
<1>3. CodeInv => CodeInv'
  <2>1. (X86 => X86') /\ (IA32 => IA32')
    BY <1>1, <1>2 DEF X86, IA32, InEntry
  <2>2. (AArch64 => AArch64') /\ (Arm => Arm')
    BY <1>1, <1>2 DEF AArch64, Arm, InEntry
  <2>3. (LoongArch64 => LoongArch64') /\ (RiscV64 => RiscV64')
    BY <1>1, <1>2 DEF LoongArch64, RiscV64, InEntry
  <2>4. Mips64el => Mips64el'
    BY <1>1, <1>2 DEF Mips64el, FirstPass, SecondPass, InEntry
  <2> QED BY <1>1, <2>1, <2>2, <2>3, <2>4 DEF CodeInv
<1>4. Machine => Machine'
  BY <1>1 DEF Machine, IsStack
<1>5. FInv'
  BY <1>1, <1>2 DEF SInv, FInv, All, Passed
<1>6. PInv'
  BY <1>1 DEF SInv, PInv
<1>7. Reached' /\ GivenOK'
  BY <1>1, <1>2 DEF SInv, Reached, GivenOK, Passed
<1>8. Back => Back'
  BY <1>1 DEF Back, S!S, S!Caller
<1> QED BY <1>1, <1>3, <1>4, <1>5, <1>6, <1>7, <1>8 DEF SInv

\* In every behaviour that starts an image.
LEMMA SInvariant == Spec => [](turn = "startup" => SInv)
<1> DEFINE I == turn = "startup" => SInv
<1>1. Init => I
  BY SInitOK DEF Init
<1>2. I /\ [Next]_all => I'
  <2> SUFFICES ASSUME I, [Next]_all, turn' = "startup" PROVE SInv'
    OBVIOUS
  <2>1. CASE Startup
    <3>1. SInv /\ S!Next
      BY <2>1 DEF Startup
    <3>2. CASE phase = "code"
      BY <3>1, <3>2, SCode
    <3>3. CASE S!Stay
      BY <3>1, <3>3, SStays DEF S!Stay
    <3>4. CASE phase # "code" /\ ~S!Stay
      <4>1. \/ S!Construct \/ S!Destruct \/ S!MainReturns \/ S!Exit \/ S!EntryReturns
            \/ S!RtLibEnableVirtualMappings
        BY <3>1, <3>4 DEF S!Next, S!Instruction, S!Jump, S!Ret, S!CallRelocate, S!CallAnywhere, S!CallEntry
      <4> QED BY <3>1, <4>1, SFunction, SMain, SReturns, SVirtual
    <3> QED BY <3>2, <3>3, <3>4
  <2>2. CASE UNCHANGED all
    BY <2>2, SStays DEF all, sOnly, S!vars
  <2> QED BY <2>1, <2>2 DEF Next, Graphics, Drv0, Tools
<1> QED BY <1>1, <1>2, PTL DEF Spec

\* On each of the seven architectures, for every image linked as the linker
\* scripts ask for: efi_main and the constructors run with the firmware's
\* handle and system table and with every cell relocated once, and back in the
\* firmware its stack, its registers and the order of the functions are as
\* promised, with the exceptions named there (crt0-efi-*.S, reloc_*.c, entry.c,
\* exit.c, vm.c).
THEOREM EntryReachedHolds == Spec => []EntryReached
<1>1. SInv => S!EntryReached
  <2> SUFFICES ASSUME SInv, ran # <<>> PROVE S!EntryReached
    BY DEF S!EntryReached
  <2>1. given.args # <<>>
    <3>1. Passed # <<>>
      BY DEF Passed
    <3> QED BY <3>1 DEF SInv, FInv
  <2>2. given.args = Passed /\ PlacedNow /\ (given.status # 0 => arch = "x86_64")
    BY <2>1 DEF SInv, GivenOK, Reached
  <2> QED BY <2>2 DEF S!EntryReached, Passed, PlacedNow, Placed, S!LinkedFor, S!S
<1>2. SInv => S!CallerKept
  <2> SUFFICES ASSUME SInv PROVE S!CallerKept
    OBVIOUS
  <2>1. All = S!ctors(image) \o <<"efi_main">> \o S!dtors(image) /\ Ctors = S!ctors(image)
    BY DEF All, Ctors, Dtors
  <2>2. phase \in {"returned", "virtual"} =>
          Back /\ ran = IF given.args = <<>> THEN <<>> ELSE S!ctors(image) \o <<"efi_main">> \o S!dtors(image)
    BY <2>1 DEF SInv, FInv
  <2>3. phase = "exited" => ran = Append(S!ctors(image), "efi_main")
    BY <2>1 DEF SInv, FInv
  <2>4. phase = "virtual" => \A p \in DOMAIN pointers: pointers[p] \in {"NULL", "virtual"}
    BY DEF SInv, PInv
  <2> QED BY <2>2, <2>3, <2>4 DEF SInv, Back, S!CallerKept
<1>3. (turn = "startup" => SInv) => EntryReached
  BY <1>1, <1>2 DEF EntryReached
<1> QED BY <1>3, SInvariant, PTL

=============================================================================
