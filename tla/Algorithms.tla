----------------------------- MODULE Algorithms -----------------------------
(***************************************************************************)
(* Calls of the library's pure functions.  `call` is the call made last:   *)
(* its inputs and its result; the next one starts from none.  The inputs   *)
(* are constants, and the properties compare each result with a definition *)
(* of what the function is for.                                            *)
(***************************************************************************)
EXTENDS Arithmetic, FirmwareTables, DevicePathText, CallWrapper

CONSTANTS
  None,         \* the None_t value of an Optional
  Words32,      \* operands of the 32-bit routines
  Words64,      \* halves of the operands of the 64-bit routines
  Memories,     \* memories for the string functions
  NumberTexts,  \* texts for xtoi and Atoi
  Texts,        \* strings for MetaMatch
  Patterns,     \* patterns for MetaMatch
  Tables,       \* firmware tables for the checksum
  Disks,        \* [mbr, lastBlock]
  Systems,      \* SMBIOS tables, as sequences of records
  UiHandles,    \* handles for LibGetUiString
  Images,       \* [contents, image] for GetShellArgcArgv
  Nodes,        \* device path nodes, as bytes
  SalTables,    \* SAL system tables
  DumpSizes     \* numbers of bytes for DumpHex

-----------------------------------------------------------------------------
(* Pickle's Optional (inc/pickle/util/optional.h).  It has no constructor: *)
(* a new one holds whatever the memory held.  Assignments are sequences of *)
(* None and values; AsBool is the explicit conversion to bool, which gives *)
(* the null flag itself.                                                   *)

Assign(opt, v) ==
  IF v = None THEN [opt EXCEPT !.isNullOpt = TRUE] ELSE [isNullOpt |-> FALSE, val |-> v]

EqualsNone(opt) == opt.isNullOpt
DiffersFromNone(opt) == ~opt.isNullOpt
AsBool(opt) == opt.isNullOpt
AsValue(opt) == opt.val
Value(opt) == opt.val
ValueOr(opt, default) == IF opt.isNullOpt THEN default ELSE opt.val

-----------------------------------------------------------------------------
VARIABLE call
vars == <<call>>

NoCall == [fn |-> "none"]
Init == call = NoCall

Divide32 ==
  \E n, d \in Words32:
    /\ d # Zero
    /\ call' = [fn |-> "Divide32", n |-> n, d |-> d,
                unsigned |-> aeabi_uidivmod(n, d), signed |-> aeabi_idivmod(n, d)]

Divide64 ==
  \E a, b, c, e \in Words64:
    LET n == Long(a, b)
        d == Long(c, e)
    IN /\ d # Long(Zero, Zero)
       /\ call' = [fn |-> "Divide64", n |-> n, d |-> d,
                   unsigned |-> aeabi_uldivmod(n, d), signed |-> aeabi_ldivmod(n, d)]

\* DivU64x32 of ia32.
DivideBitByBit ==
  \E a, b \in Words64, d \in Words32:
    /\ d # Zero
    /\ call' = [fn |-> "DivU64x32", n |-> Long(a, b), d |-> d, result |-> ia32_DivU64x32(Long(a, b), d)]

Shift ==
  \E a, b \in Words64, k \in 0..63, t \in Targets:
    call' = [fn |-> "Shift", x |-> Long(a, b), k |-> k,
             left |-> {LShiftU64(t, Long(a, b), k), asm_LShiftU64(Long(a, b), k)},
             right |-> {RShiftU64(t, Long(a, b), k), asm_RShiftU64(Long(a, b), k)}]

Multiply ==
  \E a, b, c, e \in Words64:
    LET x == Long(a, b)
        y == Long(c, e)
    IN call' = [fn |-> "Multiply", x |-> x, y |-> y, product |-> aeabi_lmul(x, y),
                byWord |-> {MultU64x32(x, e), asm_MultU64x32(x, e)}]

-----------------------------------------------------------------------------
CopyMemory ==
  \E m \in Memories: \E d, s \in DOMAIN m, n \in 0..Len(m), v \in {0, 7}:
    /\ d + n - 1 <= Len(m) /\ s + n - 1 <= Len(m)
    /\ call' = [fn |-> "CopyMem", m |-> m, d |-> d, s |-> s, n |-> n, v |-> v,
                copy |-> CopyMem_1(m, d, s, n), copyC |-> CopyMemC(m, d, s, n), memcpy |-> memcpy(m, d, s, n),
                set |-> SetMem(m, d, n, v), memset |-> memset(m, d, v + 256, n),
                zero |-> ZeroMem(m, d, n), compare |-> CompareMem(m, d, s, n)]

\* Dest and Src, both strings.
CopyString ==
  \E m \in Memories: \E d, s \in DOMAIN m, n \in 1..Len(m):
    /\ IsString(m, d) /\ IsString(m, s)
    /\ call' = [fn |-> "StrCpy", m |-> m, d |-> d, s |-> s, n |-> n,
                cpy |-> StpCpy(m, d, s), ncpy |-> StpnCpy(m, d, s, n),
                cat |-> StrCat(m, d, s), ncat |-> StrnCat(m, d, s, n),
                cmp |-> StrCmp(m, d, s), ncmp |-> StrnCmp(m, d, s, n),
                strncpy |-> StrnCpy(m, d, s, n), ascii |-> AsciiStrCmp(m, d, s), asciiN |-> AsciiStrnCmp(m, d, s, n),
                lengths |-> <<StrLen(m, s), AsciiStrLen(m, s), StrnLen(m, s, n)>>,
                dup |-> StrDuplicate(m, s, TRUE), size |-> StrSize(m, s)]

\* Two strings with letters of both cases, before and after the library has
\* found the firmware's collation driver.
FoldCase ==
  \E ui \in {"stub", "firmware"}, m \in [1..4 -> {0, 65, 97, 98}]: \E a, b \in DOMAIN m:
    /\ IsString(m, a) /\ IsString(m, b)
    /\ call' = [fn |-> "Case", ui |-> ui, m |-> m, a |-> a, b |-> b, cmp |-> StriCmp(ui, m, a, b),
                lower |-> StrLwr(ui, m, a), upper |-> StrUpr(ui, m, a)]

ReadNumber ==
  \E t \in NumberTexts: call' = [fn |-> "Atoi", text |-> t, decimal |-> Atoi(t), hex |-> xtoi(t)]

ConvertByte ==
  \E v \in 0..255: call' = [fn |-> "BCD", v |-> v, back |-> BCDtoDecimal(DecimaltoBCD(v))]

MatchPattern ==
  \E s \in Texts, p \in Patterns:
    call' = [fn |-> "MetaMatch", s |-> s, p |-> p, result |-> MetaMatch(s, p),
             stub |-> MetaiMatch("stub", s, p), firmware |-> MetaiMatch("firmware", s, p)]

-----------------------------------------------------------------------------
Checksum ==
  \E b \in 0..255, more \in {<<>>, <<1>>, <<200, 3>>}:
    call' = [fn |-> "Crc", bytes |-> <<b>> \o more, crc |-> CalculateCrc(<<b>> \o more, 1 + Len(more))]

ProtectTable ==
  \E t \in Tables, at \in (1..HeaderBytes) \ (SizeAt..(SizeAt + 3)), v \in {0, 1, 255}, max \in {0, HeaderBytes - 1, HeaderBytes}:
    LET set == SetCrc(t)
        changed == [set EXCEPT ![at] = v]
    IN call' = [fn |-> "SetCrc", table |-> t, set |-> set, changed |-> changed, max |-> max,
                kept |-> CheckCrc(max, set), found |-> CheckCrc(max, changed)]

CheckDisk ==
  \E disk \in Disks:
    call' = [fn |-> "ValidMBR", mbr |-> disk.mbr, lastBlock |-> disk.lastBlock,
             valid |-> ValidMBR(disk.mbr, disk.lastBlock)]

FindSystem ==
  \E records \in Systems:
    LET bytes == TableBytes(records)
        table == [memory |-> <<0>> \o bytes \o <<0>>, address |-> 2, length |-> Len(bytes)]
    IN call' = [fn |-> "Smbios", records |-> records, memory |-> table.memory,
                result |-> LibGetSmbiosSystemGuidAndSerialNumber(
                             <<<<GuidValues["AcpiTableGuid"], "acpi">>,
                               <<GuidValues["gEfiSmbiosTableGuid"], table>>>>)]

FindUiString ==
  \E h \in UiHandles, type \in 0..1, language \in {"eng", "fra"}, path \in BOOLEAN:
    call' = [fn |-> "UiString", handle |-> h, type |-> type, language |-> language, path |-> path,
             result |-> LibGetUiString(h, type, language, path)]

FindName ==
  \/ \E g \in {KnownGuids[i][1]: i \in DOMAIN KnownGuids} \union DOMAIN GuidValues:
       call' = [fn |-> "GuidToString", of |-> g, result |-> GuidToString(GuidOf(g)), zero |-> IsZeroGuid(GuidOf(g)),
                same |-> {h \in DOMAIN GuidValues: CompareGuid_1(GuidOf(g), GuidOf(h))}]
  \/ \E s \in DOMAIN EfiErr \union DOMAIN EfiWarn:
       call' = [fn |-> "StatusToString", of |-> s, result |-> StatusToString(StatusCode(s))]
  \/ \E c \in DOMAIN TextGraphics:
       call' = [fn |-> "TextGraphics", of |-> c, result |-> LibIsValidTextGraphics(TextGraphics[c])]

SplitArguments ==
  \E i \in Images:
    call' = [fn |-> "Argv", contents |-> i.contents, image |-> i.image,
             result |-> GetShellArgcArgv(i.contents, i.image)]

ReadSal ==
  \E t \in SalTables, installed \in BOOLEAN, type \in 0..5, half \in {0, 255}:
    LET index == 256 * type + half
        tables == <<<<GuidValues["AcpiTableGuid"], "acpi">>>> \o
                  IF installed THEN <<<<GuidValues["SalSystemTableGuid"], t>>>> ELSE <<>>
        procs == LibInitSalAndPalProc(tables)
    IN call' = [fn |-> "Sal", table |-> t, installed |-> installed, type |-> type, index |-> index, procs |-> procs,
                sal |-> LibSalProc(procs), pal |-> LibPalProc(procs, index),
                io |-> LibGetSalIoPortMapping(tables), ipi |-> LibGetSalIpiBlock(tables),
                entry |-> LibSearchSalSystemTable(tables, type), vector |-> LibGetSalWakeupVector(tables)]

\* A node, and the same node with one byte behind the header changed; the
\* copy lies at one address or another, and the memory behind it holds one
\* thing or another.
DumpDeviceNode ==
  \E node \in Nodes, minAlign \in {4, 8}: \E at \in 5..Len(node):
    LET Text(bytes, pool, v) == DumpNode(Unpacked(bytes, minAlign, pool, [k \in 1..64 |-> v]))
    IN call' = [fn |-> "DumpNode", node |-> node, at |-> at, padded |-> RoundUp(Len(node), minAlign),
                text |-> Text(node, 0, 0), elsewhere |-> Text(node, 64, 170),
                changed |-> Text([node EXCEPT ![at] = 255 - @], 0, 0)]

\* n bytes that differ, on a console of some number of lines.
DumpMemory ==
  \E n \in DumpSizes, rows \in 1..4, offset \in {0, 2^UintnBits - RowBytes}:
    LET data == [i \in 1..n |-> (7 * i) % 256]
    IN call' = [fn |-> "DumpHex", data |-> data, rows |-> rows, offset |-> offset,
                dump |-> DumpHex(offset, data, rows, UintnBits)]

\* A value is written to a device of different bytes and read back.
AccessDevice ==
  \E width \in IoUint8..IoUint64, port \in 0..1, wrote, read \in BOOLEAN, junk \in {0, 170}:
    LET device == [a \in 0..15 |-> a]
        value == [i \in 1..8 |-> 240 + i]
        stack == [i \in 1..12 |-> junk]
        io == WritePort(device, width, port, wrote, value)
        pci == WritePciConfig(device, width, port, wrote, value)
    IN call' = [fn |-> "Port", width |-> width, port |-> port, wrote |-> wrote, read |-> read, junk |-> junk,
                device |-> device, value |-> value, io |-> io, pci |-> pci,
                ioRead |-> ReadPort(io.device, width, port, read, stack),
                pciRead |-> ReadPciConfig(pci.device, width, port, read, stack)]

OpenDevice ==
  \E onPath \in SUBSET {"DiskIo", "DeviceIoProtocol"}, interface \in BOOLEAN:
    call' = [fn |-> "IoDevice", onPath |-> onPath, interface |-> interface,
             result |-> InitializeGlobalIoDevice(onPath, "DiskIo", interface)]

\* A new Optional, whatever its memory held, and some assignments.
AssignOptional ==
  \E n \in 0..3, flag \in BOOLEAN: \E given \in [1..n -> {None, 1, 2}]:
    LET opt == FoldLeft(Assign, [isNullOpt |-> flag, val |-> 0], given)
    IN call' = [fn |-> "Optional", given |-> given, flag |-> flag, none |-> EqualsNone(opt), some |-> DiffersFromNone(opt),
                bool |-> AsBool(opt), value |-> {AsValue(opt), Value(opt)}, or |-> ValueOr(opt, 9)]

\* A firmware function of n arguments, called by way of uefi_call_wrapper.
CallFirmware ==
  \E n \in 0..10, msAbi \in BOOLEAN:
    LET args == SubSeq(TestArguments, 1, n)
        start == uefi_call_wrapper(msAbi, "function", args)
    IN call' = [fn |-> "Wrapper", n |-> n, msAbi |-> msAbi, args |-> args, start |-> start,
                end |-> IF msAbi THEN start ELSE efi_return(start, n, "status"), tcc |-> tcc_main(msAbi)]

Return == call # NoCall /\ call' = NoCall

Next ==
  \/ call = NoCall /\ (Divide32 \/ Divide64 \/ DivideBitByBit \/ Shift \/ Multiply)
  \/ call = NoCall /\ (CopyMemory \/ CopyString \/ FoldCase \/ ReadNumber \/ ConvertByte \/ MatchPattern)
  \/ call = NoCall /\ (Checksum \/ ProtectTable \/ CheckDisk \/ FindSystem \/ FindUiString \/ FindName)
  \/ call = NoCall /\ (SplitArguments \/ DumpDeviceNode \/ CallFirmware \/ ReadSal)
  \/ call = NoCall /\ (DumpMemory \/ AccessDevice \/ OpenDevice \/ AssignOptional)
  \/ Return

Spec == Init /\ [][Next]_vars
-----------------------------------------------------------------------------
\* The value of a digit string in a base, the remainder of the bytes by the
\* polynomial, and the entry of a table.
RECURSIVE Number(_, _)
Number(digits, base) ==
  IF digits = <<>> THEN 0 ELSE (Number(Front(digits), base) * base + HexValue(Last(digits))) % 2^UintnBits
BitByBit(bytes) == FoldLeft(LAMBDA w, b: Reduced(XorWord(w, <<0, b>>), 8), AllOnes, bytes)
Entry(table, name) == table[SelectInSeq(table, LAMBDA e: e[1] = name)]
UpperHex(text) == [i \in DOMAIN text |-> IF text[i] \in 97..102 THEN text[i] - 32 ELSE text[i]]

\* Every division gives the quotient and remainder of exact arithmetic,
\* rounded towards zero: the ARM helpers for all operands but a divisor of 0,
\* the bit-by-bit division of ia32 up to a divisor of 2^31 (above it the bit
\* that leaves the remainder is lost).  Shifts move each bit by the count and
\* fill with 0, on every target and in both spellings of ia32; products are
\* the low 64 bits of the exact ones.
ArithmeticExact ==
  /\ call.fn = "Divide32" =>
       /\ Divides(Extended(call.n), Extended(call.d), Extended(call.unsigned.r0), Extended(call.unsigned.r1))
       /\ DividesSigned(Widened(call.n), Widened(call.d), Widened(call.signed.r0), Widened(call.signed.r1),
                        Widened(<<32768, 0>>))
  /\ call.fn = "Divide64" =>
       /\ Divides(call.n, call.d, call.unsigned.quotient, call.unsigned.remainder)
       /\ DividesSigned(call.n, call.d, call.signed.quotient, call.signed.remainder, Long(<<32768, 0>>, Zero))
  /\ call.fn = "DivU64x32" /\ AtMost(call.d, <<32768, 0>>) =>
       Divides(call.n, Extended(call.d), call.result.quotient, call.result.remainder)
  /\ call.fn = "Shift" =>
       /\ \A r \in call.left: \A i \in 0..63: BitOf(r, i) = BitOf(call.x, i - call.k)
       /\ \A r \in call.right: \A i \in 0..63: BitOf(r, i) = BitOf(call.x, i + call.k)
  /\ call.fn = "Multiply" =>
       LET Low(y) == SubSeq(Product(BytesOfLong(call.x), y), 1, 8)
       IN /\ BytesOfLong(call.product) = Low(BytesOfLong(call.y))
          /\ \A r \in call.byWord: BytesOfLong(r) = Low(BytesOf(call.y.lo))

\* CopyMem moves its bytes intact however the two areas overlap, and changes
\* nothing else, and memcpy does so unless it copies upwards into its source;
\* the string copies and concatenations give the string they promise, with its
\* terminator, whenever the areas they read and write are apart, and the
\* comparisons follow the order of the strings.  A copy to a place inside of
\* its own source never meets the terminator.  The functions that ignore case
\* do so once the firmware's driver is found, and change one string only.
\* Numbers are the value of their leading digits, modulo the width of UINTN, and
\* a byte comes back from BCD up to 159.
StringsAgree ==
  /\ call.fn = "CopyMem" =>
       LET m == call.m  d == call.d  n == call.n
           source == SubSeq(m, call.s, call.s + n - 1)
       IN /\ call.copy = Overwritten(m, d, source)
          /\ call.copyC = call.copy
          /\ d <= call.s \/ Apart(d, n, call.s, n) => call.memcpy = call.copy
          /\ call.set = Overwritten(m, d, [i \in 1..n |-> call.v]) /\ call.memset = call.set
          /\ call.zero = Overwritten(m, d, [i \in 1..n |-> 0])
          /\ (call.compare = 0) = (SubSeq(m, d, d + n - 1) = source)
  /\ call.fn = "StrCpy" =>
       LET m == call.m  d == call.d  s == call.s  n == call.n
           src == StringAt(m, s)
           dst == StringAt(m, d)
           taken == Prefix(src, n)
           padded == taken \o [i \in 1..(n - Len(taken)) |-> 0]
           Fits(p, cells) == p + Len(cells) - 1 <= Len(m)
           Write(p, cells) == IF Fits(p, cells) THEN Overwritten(m, p, cells) ELSE Fault
       IN /\ Apart(d, Len(src) + 1, s, Len(src) + 1) =>
               /\ call.cpy.mem = Write(d, Append(src, 0))
               /\ call.cpy.mem # Fault => call.cpy.end = d + Len(src)
          /\ d \in (s + 1)..(s + Len(src)) => call.cpy.mem = Fault
          /\ Apart(d, n, s, Len(src) + 1) => call.ncpy = [mem |-> Write(d, padded), end |-> d + Len(taken)]
          /\ Apart(d, Len(dst) + Len(src) + 1, s, Len(src) + 1) =>
               /\ call.cat = Write(d, dst \o Append(src, 0))
               /\ call.ncat = Write(d, dst \o Append(taken, 0))
          /\ SignOf(call.cmp) = Order(dst, src)
          /\ SignOf(call.ncmp) = Order(Prefix(dst, n), taken)
          /\ call.dup = m \o Append(src, 0)
          /\ call.size = 2 * Len(Append(src, 0))
          /\ call.strncpy = call.ncpy.mem
          /\ call.lengths = <<Len(src), Len(src), Len(taken)>>
          /\ (call.ascii = 0) = (dst = src) /\ (call.asciiN = 0) = (Prefix(dst, n) = taken)
  /\ call.fn = "Case" =>
       LET Text(m) == StringAt(m, call.a)
           Alike(t) == IF call.ui = "stub" THEN t ELSE Folded(t, Upper)
       IN /\ (call.cmp = 0) = (Alike(Text(call.m)) = Alike(StringAt(call.m, call.b)))
          /\ \A m \in {call.lower, call.upper}:
               /\ Alike(Text(m)) = Alike(Text(call.m))
               /\ \A i \in DOMAIN m: i \notin call.a..(call.a + Len(Text(m))) => m[i] = call.m[i]
          /\ call.ui = "firmware" =>
               \A i \in 1..Len(Text(call.m)): Text(call.lower)[i] \notin 65..90 /\ Text(call.upper)[i] \notin 97..122
  /\ call.fn = "BCD" /\ call.v < 160 => call.back = call.v
  /\ call.fn = "Atoi" =>
       /\ call.decimal = Number(Leading(Trimmed(call.text), Digit), 10)
       /\ call.hex = Number(Leading(UpperHex(Trimmed(call.text)), HexDigit), 16)

\* MetaMatch accepts exactly the strings the pattern stands for, when every
\* set of the pattern is closed; only an open set takes it behind the end.
PatternsMatch ==
  call.fn = "MetaMatch" =>
    /\ WellFormed(call.p) => (call.result = "yes") = Matches(call.s, call.p)
    /\ WellFormed(call.p) => call.result # "beyond"
    /\ call.stub = call.result
    /\ WellFormed(call.p) /\ call.result = "yes" => call.firmware = "yes"

\* The string and pattern functions do what their names say: see the two
\* above (efirtlib.c, rtstr.c, str.c).
StringsAndPatterns == StringsAgree /\ PatternsMatch

\* The checksum is the CRC32 of the bytes, computed bit by bit from its
\* polynomial.  A table that SetCrc has signed passes CheckCrc within
\* its largest size, one changed byte under the checksum makes it fail, and
\* the check leaves the table as it was.
ChecksumDetects ==
  /\ call.fn = "Crc" => call.crc = Complement(BitByBit(call.bytes))
  /\ call.fn = "SetCrc" =>
       LET size == HeaderSize(call.table)
           covered == size # 0 /\ (call.max = 0 \/ size <= call.max)
           under == (1..size) \union (CrcAt..(CrcAt + 3))
       IN /\ call.kept = [ok |-> covered, table |-> call.set]
          /\ call.found.table = call.changed
          /\ (\E i \in under: call.changed[i] # call.set[i]) => ~call.found.ok

\* A disk that ValidMBR accepts has records no two of which share a block, and
\* each ends on the disk, or on the pad behind a disk that is not very small
\* ("Non of the regions overlapped so MBR is O.K.", misc.c).  Records that
\* are apart and end on the disk are accepted.
RecordsApart ==
  call.fn = "ValidMBR" =>
    LET P == call.mbr.Partition
        used == {i \in DOMAIN P: Used(P[i])}
        pad == IF call.lastBlock < MinMbrDeviceSize THEN 0 ELSE MbrErrataPad
        apart == \A i, j \in used: i # j => BlocksOf(P[i]) \intersect BlocksOf(P[j]) = {}
    IN /\ call.valid => apart /\ \A i \in used: BlocksOf(P[i]) \subseteq 0..(call.lastBlock + pad)
       /\ /\ call.mbr.Signature = \hAA55 /\ used # {} /\ apart
          /\ \A i \in used: ~Wraps(P[i]) /\ BlocksOf(P[i]) \subseteq 0..call.lastBlock
          => call.valid

\* The lookups give what the table holds: the identity and the serial number
\* of the first system record, if it is long enough for them, and never one
\* from another record; the interface string, when the search ends at all
\* (it does not when the section starts with another language); and
\* every GUID, status and drawing character a name of its own.
TablesFound ==
  /\ call.fn = "Smbios" =>
       LET systems == SelectSeq(call.records, LAMBDA r: r.type = 1)
           first == systems[1]
           number == first.formatted[SerialNumberAt - 1]
           serial == call.result.serial
       IN /\ call.result.status = "EFI_SUCCESS"
          /\ call.result.found = (systems # <<>> /\ Len(first.formatted) + 2 >= 25)
          /\ call.result.found =>
               /\ call.result.guid = SubSeq(first.formatted, UuidAt - 1, UuidAt + UuidBytes - 2)
               /\ IF number \in DOMAIN first.strings
                  THEN StringAt(call.memory, serial) = first.strings[number]
                  ELSE serial = NullPointer \/ (number = 1 /\ StringAt(call.memory, serial) = <<>>)
  /\ call.fn = "UiString" =>
       /\ call.result[1] = "string" =>
            \E i \in DOMAIN call.handle.entries:
              /\ call.handle.entries[i] = <<call.language, call.result[2]>>
              /\ Len(SelectSeq(SubSeq(call.handle.entries, 1, i), LAMBDA e: e[1] = "NULL")) = call.type
       /\ call.result[1] = "path" => call.path
       /\ call.result[1] = "hangs" => \E i \in DOMAIN call.handle.entries:
                                        call.handle.entries[i][1] \notin {"NULL", call.language}
  /\ call.fn = "GuidToString" =>
       /\ call.result = IF \E k \in DOMAIN KnownGuids: KnownGuids[k][1] = call.of
                        THEN <<"name", Entry(KnownGuids, call.of)[2]>> ELSE <<"dump", GuidOf(call.of)>>
       /\ call.same = {h \in DOMAIN GuidValues: GuidOf(h) = GuidOf(call.of)}
       /\ call.zero = (GuidOf(call.of) = <<Zero, Zero, Zero, Zero>>)
  /\ call.fn = "StatusToString" => \E k \in DOMAIN ErrorCodeTable:
       /\ call.result = <<"text", ErrorCodeTable[k][2]>>
       /\ \A j \in DOMAIN ErrorCodeTable \ {k}: ErrorCodeTable[j][2] # ErrorCodeTable[k][2]
       /\ StatusCode(ErrorCodeTable[k][1]) = StatusCode(call.of)
  /\ call.fn = "TextGraphics" =>
       /\ call.result.valid
       /\ call.result.PcAnsi = Entry(UnicodeToPcAnsiOrAscii, call.of)[2]
       /\ IsValidAscii(call.result.Ascii)

\* The arguments are the pieces of the load options between single spaces, at
\* most MAX_CMDLINE_ARGC of them, cut to the buffer, whatever an earlier call
\* left in it, as long as the options end with a terminator; without one, on
\* the first call only.  A shell's own arguments come first.
ArgumentsSplit ==
  call.fn = "Argv" =>
    LET i == call.image
        text == Prefix(UpToNull(i.options), MaxCmdlineSize - 1)
        ended == \/ \E k \in DOMAIN i.options: i.options[k] = 0
                 \/ Len(i.options) >= MaxCmdlineSize - 1
                 \/ call.contents = FreshContents
    IN CASE i.parameters # <<>> -> call.result.argv = i.parameters[1]
         [] i.parameters = <<>> /\ i.interface # <<>> -> call.result.argv = i.interface[1]
         [] i.parameters = <<>> /\ i.interface = <<>> /\ (~i.loaded \/ i.options = <<>>) ->
              call.result.argc = -1
         [] OTHER -> ended => /\ call.result.argv = Prefix(Pieces(text), MaxCmdlineArgc)
                              /\ call.result.argc = Len(call.result.argv)

\* The fields each kind of node shows: all of the value, or something of it
\* (a word for it, its first bytes, or the value in some nodes only).
Shown(type, sub) ==
  CASE <<type, sub>> = <<1, 1>> -> <<PCI_DEVICE_PATH, {"Function", "Device"}, {}>>
    [] <<type, sub>> = <<1, 2>> -> <<PCCARD_DEVICE_PATH, {"FunctionNumber"}, {}>>
    [] <<type, sub>> = <<1, 3>> -> <<MEMMAP_DEVICE_PATH, {"MemoryType"}, {"StartingAddress", "EndingAddress"}>>
    [] <<type, sub>> \in {<<1, 4>>, <<3, 10>>, <<4, 3>>} ->
         <<UNKNOWN_DEVICE_VENDOR_DEVICE_PATH, {"Guid"}, {"LegacyDriveLetter"}>>
    [] <<type, sub>> = <<1, 5>> -> <<CONTROLLER_DEVICE_PATH, {"Controller"}, {}>>
    [] <<type, sub>> = <<2, 1>> -> <<ACPI_HID_DEVICE_PATH, {"HID", "UID"}, {}>>
    [] <<type, sub>> = <<3, 1>> -> <<ATAPI_DEVICE_PATH, {}, {"PrimarySecondary", "SlaveMaster"}>>
    [] <<type, sub>> = <<3, 2>> -> <<SCSI_DEVICE_PATH, {"Pun", "Lun"}, {}>>
    [] <<type, sub>> = <<3, 3>> -> <<FIBRECHANNEL_DEVICE_PATH, {"WWN", "Lun"}, {}>>
    [] <<type, sub>> = <<3, 4>> -> <<F1394_DEVICE_PATH, {"Guid"}, {}>>
    [] <<type, sub>> = <<3, 5>> -> <<USB_DEVICE_PATH, {"Port", "Endpoint"}, {}>>
    [] <<type, sub>> = <<3, 6>> -> <<I2O_DEVICE_PATH, {"Tid"}, {}>>
    [] <<type, sub>> = <<3, 9>> ->
         <<INFINIBAND_DEVICE_PATH, {"ResourceFlags", "PortGid", "ServiceId", "TargetPortId", "DeviceId"}, {}>>
    [] <<type, sub>> = <<3, 11>> -> <<MAC_ADDR_DEVICE_PATH, {"IfType"}, {"MacAddress"}>>
    [] <<type, sub>> = <<3, 12>> -> <<IPv4_DEVICE_PATH, {"LocalIpAddress", "RemoteIpAddress", "Protocol"},
                                      {"StaticIpAddress", "GatewayIpAddress", "SubnetMask"}>>
    [] <<type, sub>> = <<3, 13>> -> <<IPv6_DEVICE_PATH, {"LocalIpAddress", "RemoteIpAddress", "Protocol"},
                                      {"IPAddressOrigin", "GatewayIpAddress"}>>
    [] <<type, sub>> = <<3, 14>> -> <<UART_DEVICE_PATH, {"BaudRate", "DataBits"}, {"Parity", "StopBits"}>>
    [] <<type, sub>> = <<3, 18>> -> <<SATA_DEVICE_PATH, {"HBAPortNumber", "PortMultiplierPortNumber", "Lun"}, {}>>
    [] <<type, sub>> = <<4, 1>> -> <<HARDDRIVE_DEVICE_PATH, {"PartitionNumber", "SignatureType"}, {"Signature"}>>
    [] <<type, sub>> = <<4, 2>> -> <<CDROM_DEVICE_PATH, {"BootEntry"}, {}>>
    [] <<type, sub>> = <<4, 5>> -> <<MEDIA_PROTOCOL_DEVICE_PATH, {"Protocol"}, {}>>
    [] OTHER -> <<Header, {}, {}>>

\* The field a byte is in.
FieldAt(struct, at) ==
  {f \in DOMAIN struct: at - 1 \in Laid(struct).offsets[f]..(Laid(struct).offsets[f] + struct[f][3] - 1)}

\* The text of a node tells it apart from every node that differs from it in
\* a field the text gives in full, and depends on nothing else: not on the
\* other fields, not on the memory behind the node, and not on where the
\* node lies.  The exceptions are texts, which run to their terminator,
\* interface types other than Ethernet, which take the rounded length for
\* their own, kinds without a function, which show four bytes too many, and
\* long IPv6 nodes, which show where in memory their prefix length is.
TextFollowsNode ==
  call.fn = "DumpNode" =>
    LET type == call.node[1]
        sub == call.node[2]
        kind == Shown(type, sub)
        fields == {kind[1][f][1]: f \in FieldAt(kind[1], call.at)}
        text == <<type, sub>> \in {<<3, 24>>, <<4, 4>>, <<5, 1>>}
        terminated == call.node[Len(call.node)] = 0
        hardware == <<type, sub>> = <<3, 11>> /\ call.node[Len(call.node)] > 1
        unknown == kind[1] = Header /\ ~text
        located == <<type, sub>> = <<3, 13>> /\ call.padded = SizeOf(IPv6_DEVICE_PATH)
    IN /\ fields \intersect kind[2] # {} \/ unknown => call.changed # call.text
       /\ call.changed # call.text => fields \intersect (kind[2] \union kind[3]) # {} \/ text \/ unknown
       /\ ~unknown /\ ~hardware /\ ~located /\ (text => terminated) => call.elsewhere = call.text

\* The function finds each argument where its convention has it, the stack
\* aligned, and 32 bytes of its own above the return address; the caller's
\* part of the stack is as it was, and comes back with the result.  The test
\* program finds no wrong argument where its functions follow the firmware's
\* convention.
ArgumentsPassed ==
  call.fn = "Wrapper" =>
    /\ \A i \in 1..call.n: ReadMsAbi(call.start, i) = call.args[i]
    /\ ~call.msAbi =>
         LET before == CallerState("function", call.args)
             rsp == call.start.rsp
         IN /\ call.start.reg["rdi"] = "function"
            /\ rsp % 16 = 0
            /\ rsp + 8 + 32 <= 0 /\ rsp + 8 + 8 * call.n <= 0
            /\ \A a \in DOMAIN before.mem: a >= 0 => call.end.mem[a] = before.mem[a]
            /\ call.end.rsp = 0 /\ call.end.reg["rax"] = "status"
    /\ call.msAbi => call.tcc = "EFI_SUCCESS"

\* Every search of the SAL table gives the first entry of the kind, whatever
\* entries lie before it; the memory descriptors are found where they come
\* right behind Entry0, and nothing behind the last of them is taken for one
\* as long as another entry ends them.  SAL and PAL are called once the table
\* has given their entry points, and fail before.
SalTableRead ==
  call.fn = "Sal" =>
    LET entries == call.table.entries
        counted == SubSeq(entries, 1, call.table.count)
        First(s, Test(_)) == LET k == SelectInSeq(s, Test) IN IF k = 0 THEN <<>> ELSE <<s[k]>>
        start == call.installed /\ entries[1].type = SAL_ST_ENTRY_POINT
        last == SelectInSeq(entries, LAMBDA e: e.type > SAL_ST_MEMORY_DESCRIPTOR)
        Memory(m) == First(SubSeq(entries, 1, last - 1), LAMBDA e: e.type = SAL_ST_MEMORY_DESCRIPTOR /\ e.memoryType = m)
        Found(m) == IF start /\ Memory(m) # <<>> THEN <<"EFI_SUCCESS", Memory(m)[1].address>> ELSE <<"EFI_UNSUPPORTED">>
        Searched(type) == IF call.installed THEN First(counted, LAMBDA e: e.type = type) ELSE <<>>
        wakeup == Searched(SAL_ST_AP_WAKEUP)
    IN /\ call.entry = IF Searched(call.type) = <<>> THEN <<"NULL">> ELSE <<"entry", Searched(call.type)[1]>>
       /\ call.vector = IF wakeup = <<>> THEN <<"EFI_UNSUPPORTED", -1>> ELSE <<"EFI_SUCCESS", wakeup[1].vector>>
       /\ last # 0 \/ ~start => call.io = Found(SAL_IO_PORT_MAPPING) /\ call.ipi = Found(SAL_SAPIC_IPI_BLOCK)
       /\ (call.sal = "SAL") = start /\ (call.pal = "error") = ~start
       /\ start /\ call.index # 255 =>
            (call.pal = "MakeStackedPALCall") = (call.index \div 256 \in {1, 3})

\* Every lookup in the tables of the firmware and of the disk gives what the
\* table holds: see RecordsApart (misc.c), TablesFound (smbios.c, misc.c,
\* guid.c, error.c, data.c) and SalTableRead (salpal.c).
TablesRead == RecordsApart /\ TablesFound /\ SalTableRead

\* A dump shows every byte once, at its offset, and the printable ones as
\* themselves; on a console of more than two lines no more than a screen of
\* rows passes without a pause, and there is a pause only behind a full one.
DumpComplete ==
  call.fn = "DumpHex" =>
    LET rows == SelectSeq(call.dump, LAMBDA e: e.kind = "row")
        bytes == FlattenSeq([k \in DOMAIN rows |-> [i \in DOMAIN rows[k].Val |-> 16 * rows[k].Val[i][1] + rows[k].Val[i][2]]])
        pauses == {0} \union {k \in DOMAIN call.dump: call.dump[k] = Pause}
    IN /\ bytes = call.data
       /\ \A k \in DOMAIN rows: rows[k].offset = (call.offset + 16 * (k - 1)) % 2^UintnBits
       /\ FlattenSeq([k \in DOMAIN rows |-> rows[k].Str]) = [i \in DOMAIN bytes |-> Visible(bytes[i])]
       /\ call.rows > 2 =>
            \A k \in DOMAIN call.dump:
              LET before == {q \in pauses: q < k}
                  passed == k - 1 - (CHOOSE q \in before: \A o \in before: o <= q)
              IN IF call.dump[k] = Pause THEN passed = call.rows - 2 ELSE passed < call.rows - 2

\* What was written to a device is read back, and nothing beside it changes,
\* on the device or behind Data; ReadPort's Data has room for 32 bits.  The
\* device is opened only where it is not driven already.
DeviceAccessed ==
  /\ call.fn = "Port" =>
       LET n == BytesOfWidth(call.width)
           at == call.port..(call.port + n - 1)
       IN /\ call.io = call.pci /\ call.ioRead = call.pciRead
          /\ \A a \in DOMAIN call.device \ at: call.io.device[a] = call.device[a]
          /\ call.io.Data = SubSeq(call.value, 1, 4)
          /\ call.read => \A i \in {k \in 1..4: k <= n}:
               call.ioRead.Data[i] = IF call.wrote THEN call.value[i] ELSE call.device[call.port + i - 1]
          /\ n <= 4 => \A i \in DOMAIN call.ioRead.behind: call.ioRead.behind[i] = call.junk
  /\ call.fn = "IoDevice" =>
       (call.result[1] = "EFI_SUCCESS") = (call.onPath = {"DeviceIoProtocol"} /\ call.interface)

\* An Optional holds what was assigned last, and after None the default takes
\* its place; before the first assignment it holds anything.
OptionalHolds ==
  call.fn = "Optional" =>
    /\ call.some = ~call.none
    /\ call.given # <<>> =>
         LET last == Last(call.given)
         IN /\ call.none = (last = None)
            /\ call.or = IF last = None THEN 9 ELSE last
            /\ last # None => call.value = {last}

\* What goes in comes out again: see the three above (print.c, hw.c,
\* pickle/util/optional.h).
ValuesReadBack == DumpComplete /\ DeviceAccessed /\ OptionalHolds

=============================================================================
