----------------------------- MODULE Arithmetic -----------------------------
(***************************************************************************)
(* The integer arithmetic the library brings along: the division, shift    *)
(* and multiplication helpers a 32-bit ARM compiler calls (lib/arm/*.S),   *)
(* and the shifts, product and division of lib/<arch>/math.c.  Registers   *)
(* are words; a 64-bit number is [hi, lo].                                 *)
(***************************************************************************)
EXTENDS Integers, Sequences, SequencesExt, Bitwise

-----------------------------------------------------------------------------
\* 32-bit words as pairs <<high, low>> of 16-bit halves, and bytes of a number
\* in little-endian order.

Half == 65536
Zero == <<0, 0>>
One == <<0, 1>>
WordOf(n) == <<n \div Half, n % Half>>
AllOnes == <<Half - 1, Half - 1>>

\* The sum of two words and a carry, with the carry it leaves.
AddCarry(a, b, c) ==
  LET low == a[2] + b[2] + c
      high == a[1] + b[1] + low \div Half
  IN [value |-> <<high % Half, low % Half>>, carry |-> high \div Half]

Complement(a) == <<Half - 1 - a[1], Half - 1 - a[2]>>
Add(a, b) == AddCarry(a, b, 0).value

\* Subtraction with the carry of ARM: 1 means that nothing was borrowed.
SubCarry(a, b, c) == AddCarry(a, Complement(b), c)
Sub(a, b) == SubCarry(a, b, 1).value
Negate(a) == Sub(Zero, a)
AtMost(a, b) == SubCarry(b, a, 1).carry = 1

\* Logical shifts; a count of 32 or more leaves nothing.
Shl(a, k) ==
  IF k >= 32 THEN Zero
  ELSE IF k >= 16 THEN <<(a[2] * 2^(k - 16)) % Half, 0>>
  ELSE <<(a[1] * 2^k + a[2] \div 2^(16 - k)) % Half, (a[2] * 2^k) % Half>>

Shr(a, k) ==
  IF k >= 32 THEN Zero
  ELSE IF k >= 16 THEN <<0, a[1] \div 2^(k - 16)>>
  ELSE <<a[1] \div 2^k, a[2] \div 2^k + (a[1] % 2^k) * 2^(16 - k)>>

XorWord(a, b) == <<a[1] ^^ b[1], a[2] ^^ b[2]>>
OrWord(a, b) == <<a[1] | b[1], a[2] | b[2]>>
Ror(a, k) == IF k % 32 = 0 THEN a ELSE OrWord(Shr(a, k % 32), Shl(a, 32 - (k % 32)))

Bit(a, i) == Shr(a, i)[2] % 2
Top(a) == Bit(a, 31)

-----------------------------------------------------------------------------
\* Exact products, byte by byte: a number is a sequence of bytes, low first.
BytesOf(w) == <<w[2] % 256, w[2] \div 256, w[1] % 256, w[1] \div 256>>
WordAt(bytes, i) == <<bytes[i + 2] + 256 * bytes[i + 3], bytes[i] + 256 * bytes[i + 1]>>

\* Column k of the long multiplication and the carries that run through them.
Columns(x, y) ==
  [k \in 1..(Len(x) + Len(y)) |->
     FoldLeft(+, 0, [i \in 1..Len(x) |-> IF k - i + 1 \in 1..Len(y) THEN x[i] * y[k - i + 1] ELSE 0])]

Carried(columns) ==
  FoldLeft(LAMBDA acc, c: [digits |-> Append(acc.digits, (c + acc.carry) % 256),
                           carry |-> (c + acc.carry) \div 256],
           [digits |-> <<>>, carry |-> 0], columns).digits

Product(x, y) == Carried(Columns(x, y))

-----------------------------------------------------------------------------
\* 64-bit numbers.

Long(hi, lo) == [hi |-> hi, lo |-> lo]
NegateLong(x) ==
  LET low == SubCarry(Zero, x.lo, 1) IN Long(SubCarry(Zero, x.hi, low.carry).value, low.value)

-----------------------------------------------------------------------------
\* lib/arm/div.S.  s is [r0, r1, r2, r3, c]: the dividend that becomes the
\* remainder, the divisor, the quotient, the signs, and the carry flag.

\* rsbs r12,r1,r0 LSR #k: is the divisor shifted by k still below r0?
Below(s, k) == ~AtMost(s.r1, Shr(s.r0, k))

\* One bit of the quotient: rsbs, subcs, adc(s).
TryBit(s, k) ==
  LET fits == ~Below(s, k)
      doubled == AddCarry(s.r2, s.r2, IF fits THEN 1 ELSE 0)
  IN [s EXCEPT !.r0 = IF fits THEN Sub(@, Shl(s.r1, k)) ELSE @,
               !.r2 = doubled.value, !.c = doubled.carry]

TryBits(s, ks) == FoldLeft(TryBit, s, ks)

\* Mutant: the divisor is not subtracted when it equals what is left.
LastBitStrict(s) ==
  LET fits == ~AtMost(s.r0, s.r1)
  IN [s EXCEPT !.r1 = IF fits THEN Sub(s.r0, s.r1) ELSE s.r0,
               !.r0 = AddCarry(s.r2, s.r2, IF fits THEN 1 ELSE 0).value]

\* Subtract once more: the remainder goes to r1 and the quotient to r0.
LastBit(s) ==
  LET fits == AtMost(s.r1, s.r0)
  IN [s EXCEPT !.r1 = IF fits THEN Sub(s.r0, s.r1) ELSE s.r0,
               !.r0 = AddCarry(s.r2, s.r2, IF fits THEN 1 ELSE 0).value]

arm_div1(s) == LastBit(s)
arm_div4(s) == arm_div1(TryBits(s, <<3, 2, 1>>))
arm_div8(s) == arm_div4(TryBits(s, <<7, 6, 5, 4>>))

\* The end of label1: bit 31 of r3 is the sign of the quotient, bit 30 that
\* of the remainder.
SignResults(s) ==
  [s EXCEPT !.r0 = IF Top(s.r3) = 1 THEN Negate(@) ELSE @,
            !.r1 = IF Bit(s.r3, 30) = 1 THEN Negate(@) ELSE @]

\* label3, label2 and label1: six bits a round, while the ones shifted into
\* r2 by __arm_div_large run out of it.
RECURSIVE label1(_)
label1(s) ==
  LET t == TryBits(s, <<3, 2>>)
  IN IF t.c = 1
     THEN label1(TryBits([t EXCEPT !.r1 = Shr(@, 6)], <<7, 6, 5, 4>>))
     ELSE SignResults(LastBit(TryBit(t, 1)))
label2(s) == label1(TryBits(s, <<7, 6, 5, 4>>))
label3(s) == label2([s EXCEPT !.r1 = Shr(@, 6)])

\* The divisor is shifted up by six while it stays below the dividend; each
\* shift leaves six ones in r2.  Without a carry at the end (divisor 0) the
\* routine gives up and returns what the registers hold.
arm_div_large(s) ==
  LET a == [s EXCEPT !.r1 = Shl(@, 6), !.r2 = OrWord(@, <<64512, 0>>)]
      b == [a EXCEPT !.r1 = Shl(@, 6), !.r2 = OrWord(@, <<1008, 0>>)]
      c == [b EXCEPT !.r1 = Shl(@, 6), !.r2 = OrWord(@, <<15, 49152>>)]
      d == IF Below(c, 8) THEN c ELSE [c EXCEPT !.r1 = Shl(@, 6), !.r2 = OrWord(@, <<0, 16128>>)]
  IN IF Below(a, 8) THEN label2(a)
     ELSE IF Below(b, 8) THEN label2(b)
     ELSE IF d.r1 = Zero THEN d
     ELSE label2(d)

Registers(n, d) == [r0 |-> n, r1 |-> d, r2 |-> Zero, r3 |-> Zero, c |-> 0]

aeabi_uidivmod(n, d) ==
  LET s == Registers(n, d)
  IN IF Below(s, 4) THEN arm_div4(s) ELSE IF Below(s, 8) THEN arm_div8(s) ELSE arm_div_large(s)

\* The magnitudes are divided; r3 remembers both signs.
arm_div_negative(n, d) ==
  LET sign == IF Top(d) = 1 THEN <<32768, 0>> ELSE Zero
      spread == IF Top(n) = 1 THEN AllOnes ELSE Zero
      s == [Registers(IF Top(n) = 1 THEN Negate(n) ELSE n, IF Top(d) = 1 THEN Negate(d) ELSE d)
              EXCEPT !.r2 = sign, !.r3 = XorWord(sign, spread)]
  IN IF Below(s, 4) THEN label1(s) ELSE IF Below(s, 8) THEN label2(s) ELSE arm_div_large(s)

aeabi_idivmod(n, d) ==
  LET s == Registers(n, d)
  IN IF Top(OrWord(n, d)) = 1 THEN arm_div_negative(n, d)
     ELSE IF Below(s, 1) THEN arm_div1(s)
     ELSE IF Below(s, 4) THEN arm_div4(s)
     ELSE IF Below(s, 8) THEN arm_div8(s)
     ELSE arm_div_large(s)

-----------------------------------------------------------------------------
\* lib/arm/uldiv.S.  The divisor is shifted up until bit 30 of its high word
\* is set (or, when it fits in one word, of that word); `shift` is r6.

\* movs lr,ip,lsr #bits; moveq ip,ip,lsl #k; addeq r6,r6,#k
Lift(s, step) ==
  IF Shr(s.ip, step[1]) = Zero
  THEN [ip |-> Shl(s.ip, step[2]), r6 |-> s.r6 + step[2]]
  ELSE s

Normalise(w) ==
  LET r6 == IF Shr(w, 15) = Zero THEN 16 ELSE 0
  IN FoldLeft(Lift, [ip |-> Shl(w, r6), r6 |-> r6], <<<<23, 8>>, <<27, 4>>, <<29, 2>>, <<30, 1>>>>)

\* Take 16 and 8 of `left` iterations at once when their quotient bits are 0.
Skip(s, k, bits) ==
  IF s.left >= k /\ Shr(s.r4, bits) = Zero
  THEN [s EXCEPT !.r4 = Shl(@, k), !.skipped = @ + k, !.left = @ - k]
  ELSE s
Skips(r4, r5, left) ==
  LET s == Skip(Skip([r4 |-> r4, skipped |-> 0, left |-> left], 16, 14), 8, 22)
  IN [r4 |-> OrWord(s.r4, Shr(r5, 32 - s.skipped)), r5 |-> Shl(r5, s.skipped),
      c |-> 0, left |-> s.left]

\* One iteration of _ll_udiv_small_label4; minus is the negated divisor.
SmallStep(s, minus) ==
  LET low == AddCarry(s.r5, s.r5, s.c)
      high == AddCarry(minus, Shl(s.r4, 1), low.carry)
  IN [r5 |-> low.value, c |-> high.carry, left |-> s.left - 1,
      r4 |-> IF high.carry = 1 THEN high.value ELSE Sub(high.value, minus)]
RECURSIVE SmallLoop(_, _)
SmallLoop(s, minus) == IF s.left = 0 THEN s ELSE SmallLoop(SmallStep(s, minus), minus)

ll_udiv_small(high, low, div) ==
  LET ip == div.ip
      twice == IF AtMost(Shl(ip, 1), high) THEN [r4 |-> Sub(high, Shl(ip, 1)), r3 |-> 2]
                                           ELSE [r4 |-> high, r3 |-> 0]
      once == IF AtMost(ip, twice.r4) THEN [r4 |-> Sub(twice.r4, ip), r3 |-> twice.r3 + 1] ELSE twice
      short == OrWord(once.r4, Shr(low, 30)) = Zero
      s == IF short THEN Skips(low, Zero, div.r6) ELSE Skips(once.r4, low, div.r6 + 32)
      t == SmallLoop(s, Negate(ip))
      rest == Shr(t.r4, div.r6)
      r4 == Sub(t.r4, Shl(rest, div.r6))
      r0 == AddCarry(t.r5, t.r5, t.c)
      r1 == AddCarry(r4, r4, r0.carry).value
  IN [quotient |-> Long(Add(r1, Shl(WordOf(once.r3), div.r6)), r0.value),
      remainder |-> Long(Zero, rest)]

\* subs r0,r5,lr; sbcs r1,r4,ip; movcs; adcs r3: subtract the divisor once.
TakeOnce(s, ip, lr) ==
  LET low == SubCarry(s.r5, lr, 1)
      high == SubCarry(s.r4, ip, low.carry)
  IN IF high.carry = 1 THEN [r5 |-> low.value, r4 |-> high.value, r3 |-> s.r3 + 1] ELSE s

\* One iteration of _ll_udiv_big_label3, with the negated divisor.
BigStep(s, minus) ==
  LET r5 == AddCarry(s.r5, s.r5, s.c)
      r4 == AddCarry(s.r4, s.r4, r5.carry)
      low == AddCarry(minus.lo, r5.value, r4.carry)
      high == AddCarry(minus.hi, r4.value, low.carry)
  IN IF high.carry = 1
     THEN [r5 |-> low.value, r4 |-> high.value, c |-> 1, left |-> s.left - 1]
     ELSE [r5 |-> r5.value, r4 |-> r4.value, c |-> 0, left |-> s.left - 1]
RECURSIVE BigLoop(_, _)
BigLoop(s, minus) == IF s.left = 0 THEN s ELSE BigLoop(BigStep(s, minus), minus)

ll_udiv_big(high, low, ip, lr, r6) ==
  LET first == TakeOnce(TakeOnce(TakeOnce([r5 |-> low, r4 |-> high, r3 |-> 0], ip, lr), ip, lr), ip, lr)
      s == Skips(first.r4, first.r5, r6)
      t == BigLoop(s, NegateLong(Long(ip, lr)))
      r2 == Shr(t.r5, r6)
      r5 == Sub(t.r5, Shl(r2, r6))
      r0 == AddCarry(r5, r5, t.c)
      add == Shl(WordOf(first.r3), r6)
      out == IF r6 = 0 THEN r0.carry ELSE Bit(WordOf(first.r3), 32 - r6)
      r3 == Shr(t.r4, r6)
      r4 == Sub(t.r4, Shl(r3, r6))
      sum == AddCarry(r0.value, add, 0)
  IN [quotient |-> Long(WordOf(r0.carry + out + sum.carry), sum.value),
      remainder |-> Long(r3, OrWord(r2, Ror(r4, r6)))]

\* The divisor has bit 63 set: it goes in once or not at all.
ll_udiv_ginormous(high, low, ip, lr) ==
  LET s == TakeOnce([r5 |-> low, r4 |-> high, r3 |-> 0], ip, lr)
  IN [quotient |-> Long(Zero, WordOf(s.r3)), remainder |-> Long(s.r4, s.r5)]

\* Division by 0 clears the quotient and leaves r2, r3.
aeabi_uldivmod(n, d) ==
  IF d.hi = Zero /\ Top(d.lo) = 0
  THEN IF d.lo = Zero THEN [quotient |-> Long(Zero, Zero), remainder |-> d]
       ELSE ll_udiv_small(n.hi, n.lo, Normalise(d.lo))
  ELSE IF Top(d.hi) = 1 THEN ll_udiv_ginormous(n.hi, n.lo, d.hi, d.lo)
  ELSE LET div == Normalise(d.hi)
       IN ll_udiv_big(n.hi, n.lo, OrWord(div.ip, Shr(d.lo, 32 - div.r6)), Shl(d.lo, div.r6), div.r6)

\* lib/arm/ldivmod.S: the magnitudes divided, then the signs put back.
aeabi_ldivmod(n, d) ==
  LET Minus(x, on) == IF on THEN NegateLong(x) ELSE x
      r == aeabi_uldivmod(Minus(n, Top(n.hi) = 1), Minus(d, Top(d.hi) = 1))
  IN [quotient |-> Minus(r.quotient, Top(n.hi) # Top(d.hi)),
      remainder |-> Minus(r.remainder, Top(n.hi) = 1)]

-----------------------------------------------------------------------------
\* lib/arm/llsl.S, llsr.S: bpl after subs r3,r2,#0x20.  A register shift uses
\* the low byte of its count, and leaves 0 from 32 on.
aeabi_llsl(x, k) ==
  IF k >= 32 THEN Long(Shl(x.lo, k - 32), Zero)
  ELSE Long(OrWord(Shl(x.hi, k), Shr(x.lo, 32 - k)), Shl(x.lo, k))
aeabi_llsr(x, k) ==
  IF k >= 32 THEN Long(Zero, Shr(x.hi, k - 32))
  ELSE Long(Shr(x.hi, k), OrWord(Shr(x.lo, k), Shl(x.hi, 32 - k)))

\* lib/arm/mullu.S: umull of the low words, mla of the crossed ones.
aeabi_lmul(x, y) ==
  LET low == Product(BytesOf(x.lo), BytesOf(y.lo))
      Cross(a, b) == WordAt(Product(BytesOf(a), BytesOf(b)), 1)
  IN Long(Add(Cross(x.lo, y.hi), Add(Cross(y.lo, x.hi), WordAt(low, 5))), WordAt(low, 1))

-----------------------------------------------------------------------------
\* lib/<arch>/math.c: Operand << Count, * and / in C.  What differs is what
\* the target makes of a count of 64 or more, which C leaves undefined (most
\* mask it, ia64 shifts everything out, arm calls the helpers above), whether
\* a divisor of 0 trips an ASSERT first, and how DivU64x32 divides.
x86_64_math == [beyond |-> "masked", asserts |-> FALSE, divides |-> "hardware"]
ia32_math == [beyond |-> "masked", asserts |-> TRUE, divides |-> "bit by bit"]
ia64_math == [beyond |-> "shifted out", asserts |-> TRUE, divides |-> "hardware"]
aarch64_math == [beyond |-> "masked", asserts |-> FALSE, divides |-> "hardware"]
loongarch64_math == [beyond |-> "masked", asserts |-> FALSE, divides |-> "hardware"]
mips64el_math == [beyond |-> "masked", asserts |-> FALSE, divides |-> "hardware"]
riscv64_math == [beyond |-> "masked", asserts |-> TRUE, divides |-> "hardware"]
arm_math == [beyond |-> "shifted out", asserts |-> FALSE, divides |-> "helper"]
Targets == {x86_64_math, ia32_math, ia64_math, aarch64_math, loongarch64_math,
            mips64el_math, riscv64_math, arm_math}

Count(m, k) == IF m.beyond = "masked" THEN k % 64 ELSE k
LShiftU64(m, x, k) == aeabi_llsl(x, Count(m, k))
RShiftU64(m, x, k) == aeabi_llsr(x, Count(m, k))

\* A 64-bit product keeps the low half of the exact one.
BytesOfLong(x) == BytesOf(x.lo) \o BytesOf(x.hi)
MultU64x32(x, w) ==
  LET p == Product(BytesOfLong(x), BytesOf(w)) IN Long(WordAt(p, 5), WordAt(p, 1))

\* One round of the ia32 loop: shl, rcl, rcl; then cmp, cmc, sbb set the low
\* bit and subtract the divisor.  A bit that leaves Rem is lost.
DivideBit(s, d) ==
  LET low == AddCarry(s.n.lo, s.n.lo, 0)
      high == AddCarry(s.n.hi, s.n.hi, low.carry)
      rem == AddCarry(s.rem, s.rem, high.carry).value
  IN IF AtMost(d, rem)
     THEN [n |-> Long(high.value, Add(low.value, One)), rem |-> Sub(rem, d), bit |-> s.bit + 1]
     ELSE [n |-> Long(high.value, low.value), rem |-> rem, bit |-> s.bit + 1]
RECURSIVE DivideLoop(_, _)
DivideLoop(s, d) == IF s.bit = 64 THEN s ELSE DivideLoop(DivideBit(s, d), d)

ia32_DivU64x32(n, d) ==
  LET s == DivideLoop([n |-> n, rem |-> Zero, bit |-> 0], d)
  IN [quotient |-> s.n, remainder |-> Long(Zero, s.rem)]

\* The same three functions as 32-bit inline assembler, for compilers other
\* than GCC: shld and shl use the count modulo 32, and the halves move by a
\* word from 32 on.
asm_LShiftU64(x, k) ==
  LET low == Shl(x.lo, k % 32)
  IN IF k % 64 >= 32 THEN Long(low, Zero)
     ELSE Long(OrWord(Shl(x.hi, k % 32), Shr(x.lo, 32 - (k % 32))), low)
asm_RShiftU64(x, k) ==
  LET high == Shr(x.hi, k % 32)
  IN IF k % 64 >= 32 THEN Long(Zero, high)
     ELSE Long(high, OrWord(Shr(x.lo, k % 32), Shl(x.hi, 32 - (k % 32))))
asm_MultU64x32(x, w) ==
  LET low == Product(BytesOf(x.lo), BytesOf(w))
      high == Product(BytesOf(x.hi), BytesOf(w))
  IN Long(Add(WordAt(low, 5), WordAt(high, 1)), WordAt(low, 1))

-----------------------------------------------------------------------------
\* What the routines have to give, for the properties.
Extended(w) == Long(Zero, w)
Same(x, y) == \A i \in 1..Len(x): x[i] = IF i <= Len(y) THEN y[i] ELSE 0
SumBytes(x, y) == Carried([i \in 1..Len(x) |-> x[i] + IF i <= Len(y) THEN y[i] ELSE 0])
LongAtMost(x, y) == IF x.hi = y.hi THEN AtMost(x.lo, y.lo) ELSE AtMost(x.hi, y.hi)

\* n = q * d + r with r < d, in exact arithmetic.
Divides(n, d, q, r) ==
  /\ ~LongAtMost(d, r)
  /\ Same(SumBytes(Product(BytesOfLong(q), BytesOfLong(d)), BytesOfLong(r)), BytesOfLong(n))

Magnitude(x) == IF Top(x.hi) = 1 THEN NegateLong(x) ELSE x
Sign(x) == IF Top(x.hi) = 1 THEN 1 ELSE 0
Widened(w) == Long(IF Top(w) = 1 THEN AllOnes ELSE Zero, w)

\* The same towards zero: the remainder has the sign of the dividend, the
\* quotient that of both, except the one quotient (least) that does not fit.
DividesSigned(n, d, q, r, least) ==
  /\ Divides(Magnitude(n), Magnitude(d), Magnitude(q), Magnitude(r))
  /\ r # Extended(Zero) => Sign(r) = Sign(n)
  /\ q \notin {Extended(Zero), least} => Sign(q) = (Sign(n) + Sign(d)) % 2

BitOf(x, i) == IF i \in 0..31 THEN Bit(x.lo, i) ELSE IF i \in 32..63 THEN Bit(x.hi, i - 32) ELSE 0

=============================================================================
