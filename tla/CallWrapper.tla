---------------------------- MODULE CallWrapper -----------------------------
(***************************************************************************)
(* Calls from code with the ELF calling convention of x86_64 to functions  *)
(* with the one of the firmware: uefi_call_wrapper (inc/x86_64/efibind.h), *)
(* the trampolines efi_call0..efi_call10 (lib/x86_64/efi_stub.S) and       *)
(* apps/tcc.c, which tries them.                                           *)
(*                                                                         *)
(* A machine is [reg, mem, rsp]: registers by name, the stack by address   *)
(* in bytes, 0 being rsp in the trampoline, where the return address lies. *)
(* The port and PCI accesses of lib/hw.c, which are made through such      *)
(* calls, come last.                                                       *)
(***************************************************************************)
LOCAL INSTANCE Integers
LOCAL INSTANCE Sequences
LOCAL INSTANCE SequencesExt

-----------------------------------------------------------------------------
(* The macros. *)

__RSEQ_N == <<10, 9, 8, 7, 6, 5, 4, 3, 2, 1, 0>>

\* The twelfth of _0, the arguments, and the numbers from 10 down.
__VA_NARG__(args) == (<<"_0">> \o args \o __RSEQ_N)[12]

-----------------------------------------------------------------------------
(* The two conventions. *)

SysV == <<"rdi", "rsi", "rdx", "rcx", "r8", "r9">>
MsAbi == <<"rcx", "rdx", "r8", "r9">>
Scratch == {"rax", "rdi", "rsi", "rdx", "rcx", "r8", "r9"}
Junk == "junk"

\* What the caller of the trampoline leaves: the function and its arguments in
\* the ELF order; 8(%rsp) and on hold those the registers do not.
CallerState(func, args) ==
  LET all == <<func>> \o args
  IN  [reg |-> [r \in Scratch |-> LET k == SelectInSeq(SysV, LAMBDA s: s = r)
                                  IN  IF k \in DOMAIN all THEN all[k] ELSE Junk],
       mem |-> [a \in {8 * k: k \in (-20)..12} |->
                  IF a = 0 THEN "return" ELSE IF a > 0 /\ 6 + a \div 8 \in DOMAIN all THEN all[6 + a \div 8] ELSE Junk],
       rsp |-> 0]

\* What a function of each convention finds, right after the call.
ReadSysV(m, i) == IF i <= Len(SysV) THEN m.reg[SysV[i]] ELSE m.mem[m.rsp + 8 * (i - Len(SysV))]
ReadMsAbi(m, i) == IF i <= Len(MsAbi) THEN m.reg[MsAbi[i]] ELSE m.mem[m.rsp + 8 * i]

-----------------------------------------------------------------------------
(* The trampolines. *)

Load(m, offset, r) == [m EXCEPT !.reg[r] = m.mem[m.rsp + offset]]
Store(m, r, offset) == [m EXCEPT !.mem[m.rsp + offset] = m.reg[r]]
Mov(m, from, to) == [m EXCEPT !.reg[to] = m.reg[from]]

FrameOf(n) == CASE n <= 5 -> 40 [] n \in {6, 7} -> 56 [] n \in {8, 9} -> 72 [] n = 10 -> 88

\* Arguments are moved from the last to the first: those from the stack by way
\* of %rax, then %r9, %r8, %rcx and %rsi.
MoveStack(m, n) ==
  FoldLeft(LAMBDA s, k: Store(Load(s, FrameOf(n) + 8 * (k - 5), "rax"), "rax", 8 * (k - 1)),
           m, [k \in 1..(n - 5) |-> n + 1 - k])
MoveFifth(m, n) == IF n >= 5 THEN Store(m, "r9", 32) ELSE m

\* Mutant: the registers are moved from the first to the last.
MoveRegistersUp(m, n) ==
  LET a == IF n >= 1 THEN Mov(m, "rsi", "rcx") ELSE m
      b == IF n >= 3 THEN Mov(a, "rcx", "r8") ELSE a
  IN  IF n >= 4 THEN Mov(b, "r8", "r9") ELSE b

MoveRegisters(m, n) ==
  LET a == IF n >= 4 THEN Mov(m, "r8", "r9") ELSE m
      b == IF n >= 3 THEN Mov(a, "rcx", "r8") ELSE a
  IN  IF n >= 1 THEN Mov(b, "rsi", "rcx") ELSE b

\* subq, the moves, and call *%rdi, which pushes the return address.
efi_call(m, n) ==
  LET lowered == [m EXCEPT !.rsp = @ - FrameOf(n)]
      moved == MoveRegisters(MoveFifth(MoveStack(lowered, n), n), n)
  IN  [moved EXCEPT !.rsp = @ - 8, !.mem[moved.rsp - 8] = "trampoline"]

\* addq and ret, after the function has put its result in %rax.
efi_return(m, n, result) == [m EXCEPT !.rsp = @ + 8 + FrameOf(n), !.reg["rax"] = result]

\* The machine the function starts on.  With HAVE_USE_MS_ABI the compiler
\* makes the firmware's call itself.
DirectCall(args) ==
  [reg |-> [r \in Scratch |-> LET k == SelectInSeq(MsAbi, LAMBDA s: s = r)
                              IN  IF k \in DOMAIN args THEN args[k] ELSE Junk],
   mem |-> [a \in {8 * k: k \in 0..12} |-> IF a > 32 /\ a \div 8 \in DOMAIN args THEN args[a \div 8] ELSE Junk],
   rsp |-> 0]
uefi_call_wrapper(msAbi, func, args) ==
  IF msAbi THEN DirectCall(args) ELSE efi_call(CallerState(func, args), __VA_NARG__(args))

-----------------------------------------------------------------------------
(* apps/tcc.c: functions of 0 to 10 arguments, each compared with its      *)
(* constant, and an error that tells which one is wrong.                   *)

TestArguments == <<"12345678", "23456789", "3456789a", "456789ab", "56789abc",
                   "6789abcd", "789abcde", "89abcdef", "9abcdef0", "abcdef01">>
TestErrors == <<"EFI_LOAD_ERROR", "EFI_INVALID_PARAMETER", "EFI_UNSUPPORTED", "EFI_BAD_BUFFER_SIZE",
                "EFI_BUFFER_TOO_SMALL", "EFI_NOT_READY", "EFI_DEVICE_ERROR", "EFI_WRITE_PROTECTED",
                "EFI_OUT_OF_RESOURCES", "EFI_VOLUME_CORRUPTED">>

\* EFI_FUNCTION, the convention of the callbacks, is the firmware's with
\* HAVE_USE_MS_ABI only.
test_callback(msAbi, m, n) ==
  LET Read(i) == IF msAbi THEN ReadMsAbi(m, i) ELSE ReadSysV(m, i)
      wrong == {i \in 1..n: Read(i) # TestArguments[i]}
  IN  IF wrong = {} THEN "EFI_SUCCESS" ELSE TestErrors[CHOOSE i \in wrong: \A j \in wrong: i <= j]
test_call(msAbi, n) ==
  test_callback(msAbi, uefi_call_wrapper(msAbi, "test_callback", SubSeq(TestArguments, 1, n)), n)

\* efi_main: test_failure's EFI_UNSUPPORTED comes back through %rax; then the
\* first test that fails ends it.
tcc_main(msAbi) ==
  LET failed == {n \in 0..10: test_call(msAbi, n) # "EFI_SUCCESS"}
  IN  IF failed = {} THEN "EFI_SUCCESS" ELSE test_call(msAbi, CHOOSE n \in failed: \A k \in failed: n <= k)

-----------------------------------------------------------------------------
(* Hardware access (hw.c): InitializeGlobalIoDevice finds the device I/O   *)
(* protocol of a device, ReadPort, WritePort, ReadPciConfig and            *)
(* WritePciConfig call the firmware through it.  A device is a function    *)
(* from addresses to bytes; the bytes of a number come least significant   *)
(* first.  Data of the reads is a local UINT32 without an initial value:   *)
(* before holds its bytes and, behind them, the cells of the stack that    *)
(* follow.                                                                 *)

\* External: EFI_IO_WIDTH, 8 to 64 bits.
IoUint8 == 0
IoUint64 == 3
BytesOfWidth(width) == 2^width
UINT32Bytes == 4

\* External: Io.Read and Pci.Read write as many bytes as the width has to the
\* buffer, Io.Write and Pci.Write take as many from it; a refused access does
\* nothing.
FetchBytes(device, width, address, ok, buffer) ==
  IF ok THEN [i \in DOMAIN buffer |-> IF i <= BytesOfWidth(width) THEN device[address + i - 1] ELSE buffer[i]]
  ELSE buffer
StoreBytes(device, width, address, ok, buffer) ==
  IF ok THEN [a \in DOMAIN device |-> IF a \in address..(address + BytesOfWidth(width) - 1)
                                      THEN buffer[a - address + 1] ELSE device[a]]
  ELSE device

\* What the function returns, and the cells behind Data when it does.  The
\* status is looked at by ASSERT only, which is nothing in a release build.
Returned(stack) ==
  [Data |-> SubSeq(stack, 1, UINT32Bytes), behind |-> SubSeq(stack, UINT32Bytes + 1, Len(stack))]

ReadPort(device, width, port, ok, before) == Returned(FetchBytes(device, width, port, ok, before))
ReadPciConfig(device, width, address, ok, before) == Returned(FetchBytes(device, width, address, ok, before))

\* Data is a UINTN, of which the low half is returned whatever became of the
\* access.
Written(device, width, address, ok, Data) ==
  [device |-> StoreBytes(device, width, address, ok, Data), Data |-> SubSeq(Data, 1, UINT32Bytes)]

\* Mutant: the value is written with the width of a UINTN.
WritePortWide(device, width, port, ok, Data) == Written(device, IoUint64, port, ok, Data)

WritePort(device, width, port, ok, Data) == Written(device, width, port, ok, Data)
WritePciConfig(device, width, address, ok, Data) == Written(device, width, address, ok, Data)

\* The protocols found on the path: Protocol itself means that the driver is
\* loaded already; the device I/O protocol, whose interface HandleProtocol gives
\* unless it fails.  The first search leaves DevicePath alone when it fails.
InitializeGlobalIoDevice(onPath, Protocol, interfaceOk) ==
  IF Protocol \in onPath THEN <<"EFI_LOAD_ERROR">>
  ELSE IF "DeviceIoProtocol" \notin onPath THEN <<"EFI_NOT_FOUND">>
  ELSE IF ~interfaceOk THEN <<"EFI_UNSUPPORTED">>
  ELSE <<"EFI_SUCCESS", "DeviceIoProtocol">>
=============================================================================
