------------------------------- MODULE Startup ------------------------------
(***************************************************************************)
(* From the firmware's call of _start to its return: the start-up code of  *)
(* each architecture (gnuefi/crt0-efi-*.S), the relocator it calls         *)
(* (gnuefi/reloc_*.c), _entry with its constructors and destructors        *)
(* (lib/entry.c), Exit (lib/exit.c), and the later switch of a runtime     *)
(* driver to virtual addresses (runtime/vm.c).                             *)
(*                                                                         *)
(* The start-up code runs on a small machine: registers that hold named    *)
(* values, a stack of words with its top at the end, and the index of the  *)
(* next instruction.                                                       *)
(***************************************************************************)
EXTENDS Integers, Sequences, SequencesExt

CONSTANTS
  Archs,   \* the architectures to run
  Images,  \* the images they load (see Relocate)
  LdBase   \* where the image was loaded

-----------------------------------------------------------------------------
\* The relocators.  An image has its dynamic section, dyn, as <<tag, value>>
\* pairs, its relocation table, rels, as [type, offset, addend] (the type
\* decoded), and the cells the offsets name; link is what each was linked
\* for, got the cells of the global offset table, and inPlace whether the
\* linker has stored the addends in the cells of a DT_RELA table too.
Tagged(dyn, tag) ==
  LET at == SelectLastInSeq(dyn, LAMBDA d: d[1] = tag) IN IF at = 0 THEN 0 ELSE dyn[at][2]

\* What an architecture's relocator looks for and does with an entry.
Rela(patch) == [table |-> "DT_RELA", size |-> "DT_RELASZ", entry |-> "DT_RELAENT", patch |-> patch, got |-> FALSE]
Rel == [table |-> "DT_REL", size |-> "DT_RELSZ", entry |-> "DT_RELENT", patch |-> "in place", got |-> FALSE]
reloc_x86_64 == Rela("addend")
reloc_aarch64 == Rela("addend")
reloc_riscv64 == Rela("addend")
reloc_loongarch64 == Rela("in place")
reloc_ia32 == Rel
reloc_arm == Rel
reloc_mips64el == [Rel EXCEPT !.got = TRUE]

\* Mutant: the type of the relocation is not looked at.
PatchedAlways(kind, cells, r) ==
  [cells EXCEPT ![r.offset] = LdBase + (IF kind.patch = "addend" THEN r.addend ELSE @)]

\* *addr = ldbase + addend, or *addr += ldbase.
Patched(kind, cells, r) ==
  IF r.type # "RELATIVE" THEN cells
  ELSE [cells EXCEPT ![r.offset] = LdBase + (IF kind.patch = "addend" THEN r.addend ELSE @)]

LoadError == 1
Never == -1

\* while (relsz > 0): entries are relent apart; with a relent of 0 the loop
\* never ends.
Entries(relsz, relent) == (relsz + relent - 1) \div relent
Table(kind, cells, rels, relsz, relent) ==
  IF relsz <= 0 THEN [status |-> 0, cells |-> cells]
  ELSE IF relent = 0 THEN [status |-> Never, cells |-> cells]
  ELSE LET after[n \in 0..Entries(relsz, relent)] ==
             IF n = 0 THEN cells ELSE Patched(kind, after[n - 1], rels[n])
       IN  [status |-> 0, cells |-> after[Entries(relsz, relent)]]

\* The local part of the global offset table, on mips64el.
GotPatched(cells, addr, gotsz) ==
  [o \in DOMAIN cells |-> IF o \in addr..(addr + gotsz - 1) THEN cells[o] + LdBase ELSE cells[o]]

Relocate(kind, image) ==
  LET rel == Tagged(image.dyn, kind.table)
      relsz == Tagged(image.dyn, kind.size)
      relent == Tagged(image.dyn, kind.entry)
      addr == Tagged(image.dyn, "DT_PLTGOT")
      gotsz == Tagged(image.dyn, "DT_MIPS_LOCAL_GOTNO")
      nothing == [status |-> 0, cells |-> image.cells]
      refused == [status |-> LoadError, cells |-> image.cells]
  IN IF kind.got
     THEN IF rel = 0 /\ relent = 0 /\ addr = 0 /\ gotsz = 0 THEN nothing
          ELSE IF (rel = 0 /\ relent # 0) \/ (addr = 0 /\ gotsz # 0) THEN refused
          ELSE Table(kind, GotPatched(image.cells, addr, gotsz), image.rels, relsz, relent)
     ELSE IF rel = 0 /\ relent = 0 THEN nothing
          ELSE IF rel = 0 \/ relent = 0 THEN refused
          ELSE Table(kind, image.cells, image.rels, relsz, relent)

-----------------------------------------------------------------------------
\* The start-up code.  regs: how the firmware passes the image handle and the
\* system table; kept: registers that belong to the caller; link: where the
\* return address is; result: where a call leaves its status; code.
start_x86_64 == [
  regs |-> <<"rcx", "rdx">>, args |-> <<"rdi", "rsi">>, kept |-> {"rdi", "rsi"}, link |-> "stack", result |-> "rax",
  reloc |-> reloc_x86_64,
  code |-> <<<<"alloc", 1>>, <<"push", "rcx">>, <<"push", "rdx">>,
             <<"set", "rdi", "ImageBase">>, <<"set", "rsi", "_DYNAMIC">>,
             <<"pop", "rcx">>, <<"pop", "rdx">>, <<"push", "rcx">>, <<"push", "rdx">>,
             <<"call", "_relocate">>, <<"pop", "rdi">>, <<"pop", "rsi">>,
             <<"call", "_entry">>, <<"free", 1>>, <<"ret">>>>]

start_ia32 == [
  regs |-> <<>>, args |-> <<>>, kept |-> {"ebx", "ebp"}, link |-> "stack", result |-> "eax",
  reloc |-> reloc_ia32,
  code |-> <<<<"push", "ebp">>, <<"frame", "ebp">>, <<"pushframe", "ebp", 3>>, <<"pushframe", "ebp", 2>>,
             <<"set", "eax", "ImageBase">>, <<"set", "ebx", "_DYNAMIC">>,
             <<"push", "ebx">>, <<"push", "eax">>, <<"call", "_relocate">>, <<"pop", "ebx">>, <<"pop", "ebx">>,
             <<"jnz", "eax", 14>>, <<"call", "_entry">>, <<"leave", "ebp">>, <<"ret">>>>]

start_aarch64 == [
  regs |-> <<"x0", "x1">>, args |-> <<"x0", "x1">>, kept |-> {"x29"}, link |-> "x30", result |-> "x0",
  reloc |-> reloc_aarch64,
  code |-> <<<<"alloc", 4>>, <<"store", "x29", 0>>, <<"store", "x30", 1>>, <<"frame", "x29">>,
             <<"store", "x0", 2>>, <<"store", "x1", 3>>, <<"set", "x0", "ImageBase">>, <<"set", "x1", "_DYNAMIC">>,
             <<"call", "_relocate">>, <<"jnz", "x0", 14>>, <<"load", "x0", 2>>, <<"load", "x1", 3>>,
             <<"call", "_entry">>, <<"load", "x29", 0>>, <<"load", "x30", 1>>, <<"free", 4>>, <<"ret">>>>]

start_arm == [
  regs |-> <<"r0", "r1">>, args |-> <<"r0", "r1">>, kept |-> {}, link |-> "lr", result |-> "r0",
  reloc |-> reloc_arm,
  code |-> <<<<"push", "lr">>, <<"push", "r2">>, <<"push", "r1">>, <<"push", "r0">>,
             <<"set", "r0", "ImageBase">>, <<"set", "r1", "_DYNAMIC">>, <<"call", "_relocate">>,
             <<"jnz", "r0", 12>>, <<"load", "r0", 0>>, <<"load", "r1", 1>>, <<"call", "_entry">>,
             <<"free", 3>>, <<"pop", "lr">>, <<"ret">>>>]

start_loongarch64 == [
  regs |-> <<"a0", "a1">>, args |-> <<"a0", "a1">>, kept |-> {}, link |-> "ra", result |-> "a0",
  reloc |-> reloc_loongarch64,
  code |-> <<<<"alloc", 3>>, <<"store", "ra", 0>>, <<"store", "a0", 1>>, <<"store", "a1", 2>>,
             <<"set", "a0", "ImageBase">>, <<"set", "a1", "_DYNAMIC">>, <<"call", "_relocate">>,
             <<"jnz", "a0", 12>>, <<"load", "a0", 1>>, <<"load", "a1", 2>>, <<"call", "_entry">>,
             <<"load", "ra", 0>>, <<"free", 3>>, <<"ret">>>>]

\* The failing path skips the reload of ra.
start_riscv64 == [
  regs |-> <<"a0", "a1">>, args |-> <<"a0", "a1">>, kept |-> {}, link |-> "ra", result |-> "a0",
  reloc |-> reloc_riscv64,
  code |-> <<<<"alloc", 3>>, <<"store", "a0", 0>>, <<"store", "a1", 1>>, <<"store", "ra", 2>>,
             <<"set", "a0", "ImageBase">>, <<"set", "a1", "_DYNAMIC">>, <<"call", "_relocate">>,
             <<"jnz", "a0", 13>>, <<"load", "a1", 1>>, <<"load", "a0", 0>>, <<"call", "_entry">>,
             <<"load", "ra", 2>>, <<"free", 3>>, <<"ret">>>>]

\* Addresses are taken relative to ra, which bal leaves pointing at _pc; the
\* failing path branches back to the first label 1.
start_mips64el == [
  regs |-> <<"a0", "a1">>, args |-> <<"a0", "a1">>, kept |-> {"gp"}, link |-> "ra", result |-> "v0",
  reloc |-> reloc_mips64el,
  code |-> <<<<"alloc", 4>>, <<"store", "ra", 0>>, <<"bal">>, <<"store", "gp", 1>>,
             <<"relative", "gp", "_gp">>, <<"store", "a0", 2>>, <<"store", "a1", 3>>,
             <<"relative", "a0", "ImageBase">>, <<"relative", "a1", "_DYNAMIC">>,
             <<"relative", "t9", "_relocate">>, <<"callby", "t9">>, <<"jnz", "v0", 5>>,
             <<"load", "a0", 2>>, <<"load", "a1", 3>>, <<"call", "_entry">>,
             <<"load", "gp", 1>>, <<"load", "ra", 0>>, <<"free", 4>>, <<"ret">>>>]

Start == [x86_64 |-> start_x86_64, ia32 |-> start_ia32, aarch64 |-> start_aarch64, arm |-> start_arm,
          loongarch64 |-> start_loongarch64, riscv64 |-> start_riscv64, mips64el |-> start_mips64el]
Registers == {"rcx", "rdx", "rdi", "rsi", "rax", "eax", "ebx", "ebp", "x0", "x1", "x29", "x30",
              "r0", "r1", "r2", "lr", "a0", "a1", "ra", "v0", "gp", "t9"}

-----------------------------------------------------------------------------
VARIABLES
  arch,     \* the architecture
  image,    \* the image, with its cells as they are now
  phase,    \* "code", "constructing", "main", "destructing", "returned",
            \* "virtual", "exited", "hangs", "lost"
  at,       \* index of the next instruction
  regs,     \* registers; a value is a tuple that starts with its kind
  stack,    \* words from the firmware's frame on
  pending,  \* functions _entry still has to call
  ran,      \* functions it has called
  given,    \* the relocator's answer, and what _entry was given
  pointers  \* the library's runtime pointers: "NULL", "physical" or "virtual"

vars == <<arch, image, phase, at, regs, stack, pending, ran, given, pointers>>

S == Start[arch]
Frame == <<"frame">>
Handle == <<"image">>
SystemTable == <<"systab">>
Firmware == <<"firmware">>
Kept == <<"kept">>
AnyValue == <<"any">>

\* How the firmware calls: arguments on the stack or in registers.
Caller(a) == IF Start[a].regs = <<>> THEN <<Frame, SystemTable, Handle, Firmware>>
             ELSE IF Start[a].link = "stack" THEN <<Frame, Firmware>> ELSE <<Frame>>
FirstRegs(a) ==
  [r \in Registers |->
     IF \E i \in DOMAIN Start[a].regs: Start[a].regs[i] = r
     THEN IF r = Start[a].regs[1] THEN Handle ELSE SystemTable
     ELSE IF r = Start[a].link THEN Firmware ELSE IF r \in Start[a].kept THEN Kept ELSE AnyValue]

Init ==
  /\ arch \in Archs
  /\ image \in Images
  /\ Start[arch].reloc.table = "DT_REL" => image.inPlace
  /\ phase = "code" /\ at = 1
  /\ regs = FirstRegs(arch)
  /\ stack = Caller(arch)
  /\ pending = <<>> /\ ran = <<>>
  /\ given = [status |-> 0, args |-> <<>>]
  /\ pointers = [p \in {"RT", "LibRuntimeDebugOut", "LibRuntimeRaiseTPL", "LibRuntimeRestoreTPL"} |-> "NULL"]

-----------------------------------------------------------------------------
Op == S.code[at]
Slot(k) == Len(stack) - k
Go(newRegs, newStack) == regs' = newRegs /\ stack' = newStack /\ at' = at + 1 /\ UNCHANGED phase
Leave(newPhase) == phase' = newPhase /\ UNCHANGED <<at, regs, stack>>

\* One instruction that is neither a call nor a jump.  frame keeps the place
\* of the top of the stack, relative an address found from ra.
Instruction ==
  /\ phase = "code"
  /\ \/ Op[1] = "alloc" /\ Go(regs, stack \o [i \in 1..Op[2] |-> AnyValue])
     \/ Op[1] = "free" /\ Len(stack) >= Op[2] /\ Go(regs, SubSeq(stack, 1, Len(stack) - Op[2]))
     \/ Op[1] = "free" /\ Len(stack) < Op[2] /\ Leave("lost")
     \/ Op[1] = "push" /\ Go(regs, Append(stack, regs[Op[2]]))
     \/ Op[1] = "pop" /\ Go([regs EXCEPT ![Op[2]] = Last(stack)], Front(stack))
     \/ Op[1] = "store" /\ Go(regs, [stack EXCEPT ![Slot(Op[3])] = regs[Op[2]]])
     \/ Op[1] = "load" /\ Go([regs EXCEPT ![Op[2]] = stack[Slot(Op[3])]], stack)
     \/ Op[1] = "set" /\ Go([regs EXCEPT ![Op[2]] = <<Op[3]>>], stack)
     \/ Op[1] = "frame" /\ Go([regs EXCEPT ![Op[2]] = <<"top", Len(stack)>>], stack)
     \/ Op[1] = "pushframe" /\ Go(regs, Append(stack, stack[regs[Op[2]][2] - Op[3]]))
     \/ Op[1] = "leave" /\ Go([regs EXCEPT ![Op[2]] = stack[regs[Op[2]][2]]], SubSeq(stack, 1, regs[Op[2]][2] - 1))
     \/ Op[1] = "bal" /\ Go([regs EXCEPT !["ra"] = <<"_pc">>], stack)
     \/ Op[1] = "relative" /\ Go([regs EXCEPT ![Op[2]] = IF regs["ra"] = <<"_pc">> THEN <<Op[3]>> ELSE AnyValue], stack)
  /\ UNCHANGED <<arch, image, pending, ran, given, pointers>>

Jump ==
  /\ phase = "code" /\ Op[1] = "jnz"
  /\ at' = IF regs[Op[2]] # <<"status", 0>> THEN Op[3] ELSE at + 1
  /\ UNCHANGED <<arch, image, phase, regs, stack, pending, ran, given, pointers>>

\* ret: to the firmware, or wherever the link register points.
Ret ==
  /\ phase = "code" /\ Op[1] = "ret"
  /\ LET target == IF S.link = "stack" THEN Last(stack) ELSE regs[S.link]
     IN /\ stack' = IF S.link = "stack" THEN Front(stack) ELSE stack
        /\ at' = IF target[1] = "behind" THEN target[2] ELSE at
        /\ phase' = IF target = Firmware THEN "returned" ELSE IF target[1] = "behind" THEN phase ELSE "lost"
  /\ UNCHANGED <<arch, image, regs, pending, ran, given, pointers>>

\* A call leaves any value in the argument registers, its status in the result
\* register and the place behind it in the link register.
AfterCall(status) ==
  [r \in Registers |->
     IF r = S.result THEN <<"status", status>>
     ELSE IF r = S.link THEN <<"behind", at + 1>>
     ELSE IF r \in {S.args[i]: i \in DOMAIN S.args} THEN AnyValue ELSE regs[r]]

\* _relocate; through a register that does not hold its address, control goes
\* anywhere.
Calls(f) == Op = <<"call", f>> \/ (Op[1] = "callby" /\ regs[Op[2]] = <<f>>)
CallRelocate ==
  /\ phase = "code" /\ Calls("_relocate")
  /\ LET r == Relocate(S.reloc, image)
     IN /\ image' = [image EXCEPT !.cells = r.cells]
        /\ given' = [given EXCEPT !.status = r.status]
        /\ IF r.status = Never THEN Leave("hangs") ELSE Go(AfterCall(r.status), stack)
  /\ UNCHANGED <<arch, pending, ran, pointers>>
CallAnywhere ==
  /\ phase = "code" /\ Op[1] = "callby" /\ ~Calls("_relocate")
  /\ Leave("lost")
  /\ UNCHANGED <<arch, image, pending, ran, given, pointers>>

-----------------------------------------------------------------------------
\* lib/entry.c.  A NULL in an array is passed over.
Called(functions) ==
  LET upTo[n \in 0..Len(functions)] ==
        IF n = 0 THEN <<>>
        ELSE IF functions[n] = "NULL" THEN upTo[n - 1] ELSE Append(upTo[n - 1], functions[n])
  IN  upTo[Len(functions)]
ctors(i) == Called(i.init_array) \o Called(Reverse(i.ctors))
dtors(i) == Called(i.dtors) \o Called(Reverse(i.fini_array))

\* _entry: InitializeLib, which sets RT, then the constructors.
CallEntry ==
  /\ phase = "code" /\ Calls("_entry")
  /\ given' = [given EXCEPT !.args =
       IF S.args = <<>> THEN <<stack[Slot(0)], stack[Slot(1)]>> ELSE <<regs[S.args[1]], regs[S.args[2]]>>]
  /\ pointers' = [pointers EXCEPT !["RT"] = "physical"]
  /\ pending' = ctors(image)
  /\ phase' = "constructing"
  /\ UNCHANGED <<arch, image, at, regs, stack, ran>>

CallFunction(during) ==
  /\ phase = during /\ pending # <<>>
  /\ ran' = Append(ran, Head(pending))
  /\ pending' = Tail(pending)
  /\ UNCHANGED <<arch, image, phase, at, regs, stack, given, pointers>>
Construct == CallFunction("constructing")
Destruct == CallFunction("destructing")

\* efi_main may take locks first (InitializeLock keeps the TPL functions) and
\* set a debug device; it returns a status, and the destructors follow ...
MainReturns ==
  /\ phase = "constructing" /\ pending = <<>>
  /\ ran' = Append(ran, "efi_main")
  /\ \E locks, debug \in BOOLEAN:
       pointers' = [pointers EXCEPT !["LibRuntimeRaiseTPL"] = IF locks THEN "physical" ELSE @,
                                    !["LibRuntimeRestoreTPL"] = IF locks THEN "physical" ELSE @,
                                    !["LibRuntimeDebugOut"] = IF debug THEN "physical" ELSE @]
  /\ pending' = dtors(image)
  /\ phase' = "destructing"
  /\ UNCHANGED <<arch, image, at, regs, stack, given>>
\* ... or calls Exit, from which BS->Exit does not come back.
Exit ==
  /\ phase = "constructing" /\ pending = <<>>
  /\ ran' = Append(ran, "efi_main")
  /\ phase' = "exited"
  /\ UNCHANGED <<arch, image, at, regs, stack, pending, given, pointers>>

EntryReturns ==
  /\ phase = "destructing" /\ pending = <<>>
  /\ phase' = "code"
  /\ \E status \in {0, 1}: regs' = AfterCall(status)
  /\ at' = at + 1
  /\ UNCHANGED <<arch, image, stack, pending, ran, given, pointers>>

\* runtime/vm.c, for a driver that stays: ConvertPointer of each pointer, by
\* way of the RT that was read before.  A NULL stays what it is, as an error
\* for the ones not marked optional.
Converted(p) == IF p = "physical" THEN "virtual" ELSE IF p = "virtual" THEN "wild" ELSE p
RtLibEnableVirtualMappings ==
  /\ phase = "returned" /\ given.args # <<>>
  /\ pointers' = [p \in DOMAIN pointers |-> Converted(pointers[p])]
  /\ phase' = "virtual"
  /\ UNCHANGED <<arch, image, at, regs, stack, pending, ran, given>>

Done == phase \in {"virtual", "exited", "hangs", "lost"} \/ (phase = "returned" /\ given.args = <<>>)
Stay == Done /\ UNCHANGED vars

Next ==
  \/ Instruction \/ Jump \/ Ret \/ CallRelocate \/ CallAnywhere
  \/ CallEntry \/ Construct \/ MainReturns \/ Exit \/ Destruct \/ EntryReturns
  \/ RtLibEnableVirtualMappings \/ Stay

\* The processor goes on executing.
Fairness == WF_vars(Next)
Spec == Init /\ [][Next]_vars /\ Fairness

-----------------------------------------------------------------------------
\* The value a cell was linked for.
LinkedFor(i, o) == i.link[o]
Relative(i) == {i.rels[k].offset: k \in {j \in DOMAIN i.rels: i.rels[j].type = "RELATIVE"}}

\* When the program's own code runs, _entry was given the firmware's handle and
\* system table, whichever registers and stack slots they went through, and
\* every relative cell holds its address in the loaded image and no other
\* cell has changed: if relocation succeeded, and on loongarch64, which adds
\* in place, if the linker left the addends there.  Only x86_64 runs the
\* program after a relocation that failed.
EntryReached ==
  ran # <<>> =>
    /\ given.args = <<Handle, SystemTable>>
    /\ given.status # 0 => arch = "x86_64"
    /\ given.status = 0 /\ Tagged(image.dyn, S.reloc.table) # 0 /\ (arch = "loongarch64" => image.inPlace) =>
         \A o \in DOMAIN image.cells:
           image.cells[o] = IF o \in Relative(image) \/ (arch = "mips64el" /\ o \in image.got)
                            THEN LdBase + LinkedFor(image, o) ELSE LinkedFor(image, o)

\* Back in the firmware its stack is as it was, and so are the registers it
\* counts on, except rdi and rsi on x86_64 and ebx on ia32, which _start uses
\* without saving; every constructor has run once, before efi_main, and every
\* destructor once, after it, unless it left by Exit; afterwards each runtime
\* pointer is converted exactly once.  Control is lost only on riscv64 and
\* mips64el, when relocation fails.
CallerKept ==
  /\ phase \in {"returned", "virtual"} =>
       /\ stack = IF S.link = "stack" THEN Front(Caller(arch)) ELSE Caller(arch)
       /\ \A r \in S.kept: regs[r] = Kept \/ <<arch, r>> \in {<<"x86_64", "rdi">>, <<"x86_64", "rsi">>, <<"ia32", "ebx">>}
       /\ ran = IF given.args = <<>> THEN <<>> ELSE ctors(image) \o <<"efi_main">> \o dtors(image)
  /\ phase = "exited" => ran = Append(ctors(image), "efi_main")
  /\ phase = "virtual" => \A p \in DOMAIN pointers: pointers[p] \in {"NULL", "virtual"}
  /\ phase = "lost" => arch \in {"riscv64", "mips64el"} /\ given.status # 0
  /\ phase = "hangs" => arch = "mips64el"

\* Control has come back: the firmware is returned to, or left by Exit, except
\* on the two architectures that lose it when relocation fails.
Over ==
  \/ phase \in {"virtual", "exited"}
  \/ phase = "returned" /\ given.args = <<>>
  \/ phase \in {"hangs", "lost"} /\ arch \in {"riscv64", "mips64el"}

=============================================================================
