------------------------------- MODULE VaPrint -------------------------------
(***************************************************************************)
(* The formatted output functions (inc/internal/va_print.h, lib/print.c,   *)
(* lib/va_print.c): _Print reads the format, collects characters in a      *)
(* buffer on the stack and hands the buffer to an output function each     *)
(* time it is full: the console's (Print, DbgPrint), _SPrint for a string  *)
(* of limited size (UnicodeSPrint, AsciiSPrint), or _PoolPrint for a       *)
(* string in the pool that grows (PoolPrint, CatPrint).                    *)
(*                                                                         *)
(* A format is a sequence of characters; a number in it is one character.  *)
(* A program prints a sequence of pieces, which Format turns into the      *)
(* format and Args into the arguments.  Conversions that only differ in    *)
(* how they make text of their argument (a, s, D, g, r) are "s"; a double  *)
(* is a multiple of 1/Unit, which a float holds exactly at every step.     *)
(* Sizes are counted in characters; INT64 and UINTN have Bits bits, INT32  *)
(* and UINT32 half as many.                                                *)
(***************************************************************************)
EXTENDS Integers, Sequences, SequencesExt

CONSTANTS
  Programs,   \* the sequences of pieces that are printed
  BufLen,     \* PRINT_STRING_LEN
  Bits,       \* bits of a UINTN
  Sizes,      \* bound: the StrSize of UnicodeSPrint and UnicodeVSPrint, in CHAR16s
  AsciiSizes, \* bound: the StrSize of AsciiSPrint and AsciiVSPrint
  MaxCalls    \* bound: calls

\* BufLen is at least 2: a buffer has room for a character and the 0 behind it.

Wide == 2 ^ Bits
Narrow == 2 ^ (Bits \div 2)

VARIABLES
  fn,         \* the function that runs, or ran last
  pc,         \* where _Print is
  fmt, ix,    \* ps->fmt
  args,       \* ps->args
  item,       \* Item, without its text
  todo,       \* characters that PITEM or _Print is about to put
  buf,        \* Buffer up to Pos
  len,        \* ps->Len
  psAttr, restoreAttr,
  conAttr,    \* the console's attribute
  saved,      \* SavedAttribute of DbgPrint
  screen,     \* the calls of OutputString, with the attribute of each
  spc,        \* the POOL_PRINT
  pool,       \* pool blocks allocated by these functions
  outer,      \* the AsciiVSPrint call that is under way
  calls,
  prog, start,  \* history: what is printed, with which attribute at first
  put, failed   \* history: what was put; whether an allocation failed

format == <<fmt, ix, args, item>>
attrs == <<psAttr, restoreAttr, conAttr>>
sink == <<screen, spc, pool, failed>>
history == <<fn, saved, outer, calls, prog, start>>
vars == <<pc, format, todo, buf, len, attrs, sink, history, put>>

-----------------------------------------------------------------------------
(* Numbers. *)

DigitChars == <<"0", "1", "2", "3", "4", "5", "6", "7", "8", "9", "A", "B", "C", "D", "E", "F">>

\* The digits of n > 0, most significant first; none for 0.
Digits(n, base) ==
  LET d[k \in 0..n] == IF k = 0 THEN <<>> ELSE Append(d[k \div base], DigitChars[(k % base) + 1])
  IN  d[n]

ValueToHex(v) == IF v = 0 THEN <<"0">> ELSE Digits(v, 16)

\* Commas: the first group has ca[] digits, the others three.
Grouped(d) ==
  LET first == <<3, 1, 2>>[(Len(d) % 3) + 1]
  IN  FlattenSeq([i \in 1..Len(d) |->
        IF i > first /\ (i - first) % 3 = 1 THEN <<",", d[i]>> ELSE <<d[i]>>])

\* v is an INT64.  -v wraps for the smallest one, and DivU64x32 takes the
\* result as unsigned.
ValueToString(comma, v) ==
  LET d == Digits(IF v < 0 THEN (-v) % Wide ELSE v, 10)
  IN  IF v = 0 THEN <<"0">>
      ELSE (IF v < 0 THEN <<"-">> ELSE <<>>) \o (IF comma THEN Grouped(d) ELSE d)

\* The bits of an argument as a signed number of the given range.
Signed(v, range) == IF v % range >= range \div 2 THEN (v % range) - range ELSE v % range

\* A double as a number of 1/Unit.
Unit == 16
Least(S) == CHOOSE n \in S : \A o \in S : n <= o

\* The integer part, which is 0 without a sign for a small negative v; then the
\* fraction times 10 until it has a digit, a zero each time, and on until it is
\* an integer.
FloatToString(comma, v) ==
  LET i == IF v < 0 THEN -((-v) \div Unit) ELSE v \div Unit
      f == 10 * (IF v < 0 THEN i * Unit - v ELSE v - i * Unit)
      zeros == IF f = 0 THEN 0 ELSE Least({k \in 0..4 : f * 10 ^ k >= Unit})
      more == Least({k \in zeros..4 : (f * 10 ^ k) % Unit = 0})
  IN  ValueToString(comma, i) \o <<".">> \o [k \in 1..zeros |-> "0"]
      \o ValueToString(FALSE, (f * 10 ^ more) \div Unit)

\* "%02d/%02d/%02d  %02d:%02d%c" with a clock of twelve hours.
TwoDigits(n) == (IF n < 10 THEN <<"0">> ELSE <<>>) \o ValueToString(FALSE, n)
TimeToString(time) ==
  LET hour == IF time.Hour = 0 THEN 12 ELSE IF time.Hour >= 13 THEN time.Hour - 12 ELSE time.Hour
      amPm == IF time.Hour >= 12 THEN "p" ELSE "a"
  IN  TwoDigits(time.Month) \o <<"/">> \o TwoDigits(time.Day) \o <<"/">> \o TwoDigits(time.Year % 100)
      \o <<" ", " ">> \o TwoDigits(hour) \o <<":">> \o TwoDigits(time.Minute) \o <<amPm>>

-----------------------------------------------------------------------------
(* The output functions. *)

IsConsole == fn \in {"Print", "DbgPrint"}

NullPrint == [str |-> FALSE, text |-> <<>>, maxlen |-> 0, cap |-> 0, term |-> -1]

\* A string of size characters given by the caller.
StringPrint(size, maxlen) == [str |-> TRUE, text |-> <<>>, maxlen |-> maxlen, cap |-> size, term |-> -1]

\* _SPrint: the string is truncated at maxlen and terminated; nothing is
\* written when maxlen is 0.
SPrint(s, chunk) ==
  LET n == IF Len(s.text) + Len(chunk) > s.maxlen THEN s.maxlen - Len(s.text) ELSE Len(chunk)
      text == s.text \o SubSeq(chunk, 1, n)
  IN  [s EXCEPT !.text = text,
                !.term = IF Len(text) < s.maxlen THEN Len(text)
                         ELSE IF s.maxlen # 0 THEN s.maxlen ELSE @]

\* Mutant: no room for the terminator.
PoolNewLenTight(chunk) == Len(spc.text) + Len(chunk)

PoolNewLen(chunk) == Len(spc.text) + Len(chunk) + 1

\* The old string is freed, whether there is a new block or not.
ReallocatePool(new) == pool' = pool - (IF spc.str THEN 1 ELSE 0) + new

\* _PoolPrint.
PoolPrint(chunk) ==
  LET maxlen == PoolNewLen(chunk) + BufLen
  IN  \/ /\ PoolNewLen(chunk) <= spc.maxlen
         /\ spc' = SPrint(spc, chunk)
         /\ UNCHANGED <<pool, failed>>
      \/ /\ PoolNewLen(chunk) > spc.maxlen
         /\ spc' = SPrint([spc EXCEPT !.str = TRUE, !.maxlen = maxlen, !.cap = maxlen], chunk)
         /\ ReallocatePool(1)
         /\ UNCHANGED failed
      \/ /\ PoolNewLen(chunk) > spc.maxlen
         /\ spc' = NullPrint
         /\ ReallocatePool(0)
         /\ failed' = TRUE

Output(chunk) ==
  \/ /\ IsConsole
     /\ screen' = Append(screen, [text |-> chunk, attr |-> conAttr])
     /\ UNCHANGED <<spc, pool, failed>>
  \/ /\ fn = "SPrint" /\ spc' = SPrint(spc, chunk)
     /\ UNCHANGED <<screen, pool, failed>>
  \/ /\ fn = "PoolPrint" /\ PoolPrint(chunk)
     /\ UNCHANGED screen

-----------------------------------------------------------------------------
(* PPUTC. *)

Put(c) ==
  /\ put' = Append(put, c)
  /\ len' = len + 1
  /\ IF Len(buf) + 1 = BufLen - 1
       THEN Output(Append(buf, c)) /\ buf' = <<>>
       ELSE buf' = Append(buf, c) /\ UNCHANGED sink
  /\ UNCHANGED <<pc, format, attrs, history>>

\* last_char may be '\r', may be another character: right after a flush it is
\* read from in front of the buffer.
AfterFlush == len > 0 /\ buf = <<>>
LastIsReturn == len > 0 /\ buf # <<>> /\ Last(buf) = "\r"

\* A newline gets a carriage return first; the newline itself follows without
\* another look at last_char ("lf").
PutReturn ==
  /\ todo # <<>> /\ Head(todo) = "\n" /\ ~LastIsReturn
  /\ Put("\r")
  /\ todo' = <<"lf">> \o Tail(todo)

PutChar ==
  /\ todo # <<>>
  /\ Head(todo) = "\n" => AfterFlush \/ LastIsReturn
  /\ Put(IF Head(todo) = "lf" THEN "\n" ELSE Head(todo))
  /\ todo' = Tail(todo)

-----------------------------------------------------------------------------
(* _Print. *)

Fill(c, n) == [i \in 1..n |-> c]
Larger(m, n) == IF m >= n THEN m ELSE n

\* PITEM: the characters of an item, cut to the field width, padded to the
\* width and then to the field width.
PITEM(it, text) ==
  LET t == IF it.field >= 0 /\ it.field < Len(text) THEN SubSeq(text, 1, it.field) ELSE text
      width == Larger(it.width, Len(t))
      spaces == Fill(" ", Larger(it.field - width, 0))
      padded == Fill(it.pad, width - Len(t)) \o t
  IN  IF it.before THEN spaces \o padded ELSE padded \o spaces

NewItem ==
  [width |-> 0, field |-> -1, parse |-> "width", pad |-> " ", before |-> TRUE,
   comma |-> FALSE, long |-> FALSE]

c0 == fmt[ix]
At(where) == pc = where /\ todo = <<>>
Reading(where) == At(where) /\ ix <= Len(fmt)

\* A character of the format that is not %.
Text ==
  /\ Reading("text") /\ c0 # "%"
  /\ todo' = <<c0>>
  /\ ix' = ix + 1
  /\ UNCHANGED <<pc, fmt, args, item, buf, len, attrs, sink, history, put>>

StartItem ==
  /\ Reading("text") /\ c0 = "%"
  /\ ix' = ix + 1
  /\ item' = NewItem
  /\ restoreAttr' = "zero"
  /\ pc' = "item"
  /\ UNCHANGED <<fmt, args, todo, buf, len, psAttr, conAttr, sink, history, put>>

NumberOf(c) == CHOOSE n \in 1..9 : DigitChars[n + 1] = c
Numbers == {DigitChars[n + 1] : n \in 1..9}

WithFlag(c) ==
  CASE c = "," -> [item EXCEPT !.comma = TRUE]
    [] c = "-" -> [item EXCEPT !.before = FALSE]
    [] c = "." -> [item EXCEPT !.parse = "field"]
    [] c = "0" -> [item EXCEPT !.pad = "0"]
    [] c = "l" -> [item EXCEPT !.long = TRUE]
    [] OTHER   -> [item EXCEPT ![item.parse] = NumberOf(c)]

Flag ==
  /\ Reading("item")
  /\ \/ c0 \in {",", "-", ".", "0", "l"} \union Numbers /\ item' = WithFlag(c0) /\ UNCHANGED args
     \/ /\ c0 = "*" /\ args # <<>>
        /\ item' = [item EXCEPT ![item.parse] = Head(args).num] /\ args' = Tail(args)
  /\ ix' = ix + 1
  /\ UNCHANGED <<pc, fmt, todo, buf, len, attrs, sink, history, put>>

Conversions == {"s", "c", "d", "u", "x", "X", "p", "f", "t"}

\* X has a fixed width; p has none: sizeof(void *) == (8 ? 16 : 8) + 2 is 0.
ForConversion(c) ==
  CASE c = "X" -> [item EXCEPT !.width = IF item.long THEN Bits \div 4 ELSE Bits \div 8, !.pad = "0"]
    [] c = "p" -> [item EXCEPT !.width = 0, !.pad = "0"]
    [] OTHER   -> item

NullText == <<"(", "n", "u", "l", "l", ")">>

\* u goes through the signed parameter of ValueToString.
TextOf(c, a) ==
  LET range == IF item.long THEN Wide ELSE Narrow
  IN  CASE c = "s" -> IF a.null THEN NullText ELSE a.text
        [] c = "c" -> a.text
        [] c = "f" -> FloatToString(item.comma, a.num)
        [] c = "t" -> TimeToString(a.time)
        [] c = "p" -> <<"0", "x">> \o ValueToHex(a.num % range)
        [] c = "d" -> ValueToString(item.comma, Signed(a.num, range))
        [] c = "u" -> ValueToString(item.comma, Signed(a.num % range, Wide))
        [] OTHER   -> ValueToHex(a.num % range)

Conversion ==
  /\ Reading("item") /\ c0 \in Conversions /\ args # <<>>
  /\ item' = ForConversion(c0)
  /\ todo' = PITEM(item', TextOf(c0, Head(args)))
  /\ args' = Tail(args)
  /\ ix' = ix + 1 /\ pc' = "restore"
  /\ UNCHANGED <<fmt, buf, len, attrs, sink, history, put>>

FieldAttrs == {"n", "h", "e"}
Attrs == {"N", "H", "E"}

\* %% and characters that mean nothing.
Literal ==
  /\ Reading("item")
  /\ c0 \notin {",", "-", ".", "0", "l", "*"} \union Numbers \union Conversions \union FieldAttrs \union Attrs
  /\ todo' = PITEM(item, IF c0 = "%" THEN <<"%">> ELSE <<"?">>)
  /\ ix' = ix + 1 /\ pc' = "restore"
  /\ UNCHANGED <<fmt, args, item, buf, len, attrs, sink, history, put>>

\* ps->AttrNorm, AttrHighlight and AttrError; only Print and DbgPrint set them.
AttrOf(c) ==
  IF ~IsConsole THEN "zero"
  ELSE CASE c \in {"n", "N"} -> "norm" [] c \in {"h", "H"} -> "high" [] OTHER -> "error"

\* Mutant: the attribute is changed before the buffer is flushed.
PSETATTREarly(a) ==
  /\ IF IsConsole
       THEN /\ screen' = Append(screen, [text |-> buf, attr |-> a])
            /\ UNCHANGED <<spc, pool, failed>>
       ELSE Output(buf)
  /\ buf' = <<>>
  /\ psAttr' = a
  /\ conAttr' = IF IsConsole THEN a ELSE conAttr

\* PSETATTR, without ps->RestoreAttr = ps->Attr.
PSETATTR(a) ==
  /\ Output(buf)
  /\ buf' = <<>>
  /\ psAttr' = a
  /\ conAttr' = IF IsConsole THEN a ELSE conAttr

\* For this field only: the item goes on.
FieldAttr ==
  /\ Reading("item") /\ c0 \in FieldAttrs
  /\ PSETATTR(AttrOf(c0)) /\ restoreAttr' = psAttr
  /\ ix' = ix + 1
  /\ UNCHANGED <<pc, fmt, args, item, todo, len, history, put>>

\* For good; an attribute of 0 is taken for none, and the item goes on.
Attr ==
  /\ Reading("item") /\ c0 \in Attrs
  /\ IF AttrOf(c0) # "zero"
       THEN PSETATTR(AttrOf(c0)) /\ restoreAttr' = "zero" /\ pc' = "restore"
       ELSE UNCHANGED <<pc, buf, attrs, sink>>
  /\ ix' = ix + 1
  /\ UNCHANGED <<fmt, args, item, todo, len, history, put>>

Restore ==
  /\ At("restore")
  /\ IF restoreAttr # "zero"
       THEN PSETATTR(restoreAttr) /\ restoreAttr' = psAttr
       ELSE UNCHANGED <<buf, attrs, sink>>
  /\ pc' = "text"
  /\ UNCHANGED <<format, todo, len, history, put>>

\* The format ends inside an item, and the outer loop reads on behind it; or
\* there is no such argument.
Lost ==
  /\ At("item")
  /\ \/ ix > Len(fmt)
     \/ ix <= Len(fmt) /\ c0 \in Conversions \union {"*"} /\ args = <<>>
  /\ pc' = "lost"
  /\ UNCHANGED <<format, todo, buf, len, attrs, sink, history, put>>

\* The last flush.
Flush ==
  /\ At("text") /\ ix > Len(fmt)
  /\ Output(buf) /\ buf' = <<>>
  /\ pc' = "return"
  /\ UNCHANGED <<format, todo, len, attrs, history, put>>

-----------------------------------------------------------------------------
(* The functions. *)

\* The format and the arguments for a program.
TextFormat(t) == FlattenSeq([i \in 1..Len(t) |-> IF t[i] = "%" THEN <<"%", "%">> ELSE <<t[i]>>])
Option(b, c) == IF b THEN <<c>> ELSE <<>>
NumberFormat(n) == <<DigitChars[n + 1]>>

PieceFormat(p) ==
  CASE p.kind = "text" -> TextFormat(p.text)
    [] p.kind = "attr" -> <<"%", p.attr>>
    [] OTHER -> <<"%">> \o p.shade \o Option(p.left, "-") \o Option(p.zero, "0")
                \o (IF p.star THEN <<"*">> ELSE IF p.width > 0 THEN NumberFormat(p.width) ELSE <<>>)
                \o (IF p.field > 0 THEN <<".">> \o NumberFormat(p.field) ELSE <<>>)
                \o Option(p.comma, ",") \o Option(p.long, "l") \o <<p.conv>>

Arg(t, n) == [text |-> t, num |-> n, null |-> FALSE]
PieceArgs(p) ==
  IF p.kind # "item" THEN <<>>
  ELSE (IF p.star THEN <<Arg(<<>>, p.width)>> ELSE <<>>) 
       \o <<[text |-> p.text, num |-> p.num, time |-> p.time, null |-> p.null]>>

Format(pr) == FlattenSeq([i \in 1..Len(pr) |-> PieceFormat(pr[i])])
Args(pr) == FlattenSeq([i \in 1..Len(pr) |-> PieceArgs(pr[i])])

NotAscii == [on |-> FALSE, size |-> 0, args |-> <<>>]

\* _Print starts.
Begin(f, fm, ar) ==
  /\ fn' = f /\ fmt' = fm /\ args' = ar
  /\ ix' = 1 /\ item' = NewItem
  /\ todo' = <<>> /\ buf' = <<>> /\ len' = 0
  /\ restoreAttr' = "zero"
  /\ pc' = "text"

Call == pc = "idle" /\ calls < MaxCalls /\ calls' = calls + 1

\* The caller of PoolPrint has freed the string.
NewCall(pr) == Call /\ prog' = pr /\ put' = <<>> /\ failed' = FALSE

\* Print, PrintAt, IPrint, IPrintAt, AsciiPrint, VPrint: _IPrint.
CallPrint(pr) ==
  /\ NewCall(pr) /\ Begin("Print", Format(pr), Args(pr))
  /\ screen' = <<>> /\ psAttr' = conAttr /\ start' = conAttr
  /\ pool' = 0 /\ spc' = NullPrint
  /\ UNCHANGED <<conAttr, saved, outer>>

\* DbgPrint with a mask that is enabled: D_ERROR, D_WARN or another.
CallDbgPrint(pr, attr) ==
  /\ NewCall(pr) /\ Begin("DbgPrint", Format(pr), Args(pr))
  /\ screen' = <<>> /\ start' = attr
  /\ saved' = conAttr /\ conAttr' = attr /\ psAttr' = attr
  /\ pool' = 0 /\ spc' = NullPrint
  /\ UNCHANGED outer

\* UnicodeVSPrint's maxlen: for a size of 0 it is the largest UINTN.
MaxLen(size) == (size - 1) % Wide
Room(size) == IF size = 0 THEN Wide ELSE size

\* UnicodeSPrint, UnicodeVSPrint.  A string without limit is large enough.
CallSPrint(pr, size) ==
  /\ NewCall(pr) /\ Begin("SPrint", Format(pr), Args(pr))
  /\ psAttr' = "zero"
  /\ pool' = 0 /\ spc' = StringPrint(Room(size), MaxLen(size))
  /\ UNCHANGED <<screen, conAttr, saved, outer, start>>

\* PoolPrint, VPoolPrint.
CallPoolPrint(pr) ==
  /\ NewCall(pr) /\ Begin("PoolPrint", Format(pr), Args(pr))
  /\ psAttr' = "zero"
  /\ pool' = 0 /\ spc' = NullPrint
  /\ UNCHANGED <<screen, conAttr, saved, outer, start>>

\* CatPrint to the POOL_PRINT of the call before.
CallCatPrint(pr) ==
  /\ fn = "PoolPrint"
  /\ Call /\ prog' = prog \o pr
  /\ Begin("PoolPrint", Format(pr), Args(pr))
  /\ psAttr' = "zero"
  /\ UNCHANGED <<spc, pool, put, failed, screen, conAttr, saved, outer, start>>

\* AsciiSPrint, AsciiVSPrint: a string of size CHAR16s for the result, then
\* PoolPrint("%a") makes the format.
CallAsciiVSPrint(pr, size) ==
  /\ NewCall(pr)
  /\ spc' = NullPrint /\ psAttr' = "zero"
  /\ \/ /\ pool' = 1
        /\ Begin("PoolPrint", <<"%", "s">>, <<Arg(Format(pr), 0)>>)
        /\ outer' = [on |-> TRUE, size |-> size, args |-> Args(pr)]
     \/ /\ pool' = 0 /\ fn' = "SPrint"
        /\ UNCHANGED <<pc, format, todo, buf, len, restoreAttr, outer>>
  /\ UNCHANGED <<screen, conAttr, saved, start>>

Return ==
  /\ pc = "return" /\ ~outer.on
  /\ pc' = "idle"
  /\ conAttr' = IF fn = "DbgPrint" THEN saved ELSE conAttr
  /\ UNCHANGED <<format, todo, buf, len, psAttr, restoreAttr, sink, history, put>>

\* AsciiVSPrint without a format.
AsciiFormatFails ==
  /\ pc = "return" /\ outer.on /\ fn = "PoolPrint" /\ ~spc.str
  /\ pool' = pool - 1
  /\ pc' = "idle" /\ outer' = NotAscii /\ fn' = "SPrint"
  /\ UNCHANGED <<screen, spc, failed, format, todo, buf, len, attrs, saved, calls, prog, start, put>>

\* AsciiVSPrint with the format in the pool: UnicodeVSPrint.  For a size of 0
\* the string has no room at all, and maxlen is the largest UINTN.
AsciiPrint ==
  /\ pc = "return" /\ outer.on /\ fn = "PoolPrint" /\ spc.str
  /\ Begin("SPrint", spc.text, outer.args)
  /\ spc' = StringPrint(outer.size, MaxLen(outer.size))
  /\ put' = <<>>
  /\ UNCHANGED <<screen, pool, failed, psAttr, conAttr, saved, outer, calls, prog, start>>

\* The result is copied; both blocks are freed.
AsciiReturn ==
  /\ pc = "return" /\ outer.on /\ fn = "SPrint"
  /\ pool' = pool - 2
  /\ pc' = "idle" /\ outer' = NotAscii
  /\ UNCHANGED <<screen, spc, failed, format, todo, buf, len, attrs, fn, saved, calls, prog, start, put>>

Step ==
  \/ PutReturn \/ PutChar \/ Text \/ StartItem \/ Flag \/ Conversion \/ Literal
  \/ FieldAttr \/ Attr \/ Restore \/ Lost \/ Flush
  \/ Return \/ AsciiFormatFails \/ AsciiPrint \/ AsciiReturn

Init ==
  /\ fn = "Print" /\ pc = "idle" /\ fmt = <<>> /\ ix = 1 /\ args = <<>> /\ item = NewItem
  /\ todo = <<>> /\ buf = <<>> /\ len = 0
  /\ psAttr = "user" /\ restoreAttr = "zero" /\ conAttr = "user" /\ saved = "user"
  /\ screen = <<>> /\ spc = NullPrint /\ pool = 0 /\ outer = NotAscii
  /\ calls = 0 /\ prog = <<>> /\ start = "user" /\ put = <<>> /\ failed = FALSE

Next ==
  \/ Step
  \/ \E pr \in Programs :
       \/ CallPrint(pr) \/ CallPoolPrint(pr) \/ CallCatPrint(pr)
       \/ \E attr \in {"norm", "high", "error"} : CallDbgPrint(pr, attr)
       \/ \E size \in Sizes : CallSPrint(pr, size)
       \/ \E size \in AsciiSizes : CallAsciiVSPrint(pr, size)

Spec == Init /\ [][Next]_vars

-----------------------------------------------------------------------------
(* Properties. *)

TypeOK ==
  /\ pc \in {"idle", "text", "item", "restore", "return", "lost"}
  /\ fn \in {"Print", "DbgPrint", "SPrint", "PoolPrint"}
  /\ ix \in 1..(Len(fmt) + 1)
  /\ Len(buf) < BufLen - 1
  /\ {psAttr, restoreAttr, conAttr, saved} \subseteq {"zero", "user", "norm", "high", "error"}
  /\ pool \in 0..2 /\ calls \in 0..MaxCalls

\* How a number must read: the digits of its value, a comma before every third
\* digit from the end if asked for.
ValueOf(t, base) ==
  FoldLeft(LAMBDA n, c : n * base + (CHOOSE d \in 0..(base - 1) : DigitChars[d + 1] = c), 0, t)
Plain(t) == SelectSeq(t, LAMBDA c : c \notin {",", "-"})
ReadsAs(t, v, comma) ==
  /\ ValueOf(Plain(t), 10) = IF v < 0 THEN -v ELSE v
  /\ (t[1] = "-") <=> (v < 0)
  /\ \A i \in 1..Len(t) : (t[i] = ",") <=> (comma /\ i > 1 /\ t[i - 1] # "-" /\ (Len(t) - i) % 4 = 3)

\* %f: the text is the number.
FloatReads(t, v) ==
  LET point == SelectInSeq(t, LAMBDA c : c = ".")
      places == Len(t) - point
      size == IF v < 0 THEN -v ELSE v
  IN  /\ Unit * (ValueOf(Plain(SubSeq(t, 1, point - 1)), 10) * 10 ^ places + ValueOf(SubSeq(t, point + 1, Len(t)), 10))
           = size * 10 ^ places
      /\ (t[1] = "-") <=> (v < 0)

\* Every number a program prints has the right digits and groups, as a signed
\* and as an unsigned one, the smallest and the largest included; %t shows the
\* hour of the clock.
NumbersRead ==
  \A i \in 1..Len(prog) : prog[i].kind = "item" =>
    LET p == prog[i]
        range == IF p.long THEN Wide ELSE Narrow
        v == p.num % range
    IN  /\ ReadsAs(ValueToString(p.comma, Signed(v, range)), Signed(v, range), p.comma)
        /\ ReadsAs(ValueToString(p.comma, v), v, p.comma)
        /\ ValueOf(ValueToHex(v), 16) = v
        /\ p.conv = "f" => FloatReads(FloatToString(p.comma, p.num), p.num)
        /\ p.conv = "t" =>
             LET t == TimeToString(p.time)
                 clock == ValueOf(SubSeq(t, 11, 12), 10)
             IN  /\ Len(t) = 16 /\ clock \in 1..12
                 /\ (clock % 12) + (IF Last(t) = "p" THEN 12 ELSE 0) = p.time.Hour

\* What the description of the format in va_print.h promises of an item: it is
\* as wide as its width and its field width ask for; its text, cut to the field
\* width, stands on the right, or on the left with "-"; to the left of a text
\* on the right the pad character fills the width.
Shown(p, text) ==
  LET t == IF p.field > 0 /\ p.field < Len(text) THEN SubSeq(text, 1, p.field) ELSE text
      fixed == IF p.long THEN Bits \div 4 ELSE Bits \div 8
      w == Larger(IF p.conv = "X" THEN fixed ELSE p.width, Len(t))
      n == Larger(w, p.field)
      pad == IF p.zero \/ p.conv = "X" THEN "0" ELSE " "
  IN  IF p.left THEN t \o Fill(" ", n - Len(t))
      ELSE Fill(" ", n - w) \o Fill(pad, w - Len(t)) \o t

\* %u is the value as unsigned decimal (va_print.h).
PieceText(p) ==
  LET range == IF p.long THEN Wide ELSE Narrow
  IN  CASE p.kind = "text" -> p.text
        [] p.kind = "attr" -> <<>>
        [] OTHER -> Shown(p, CASE p.conv \in {"s", "c"} -> IF p.null THEN NullText ELSE p.text
                               [] p.conv = "f" -> FloatToString(p.comma, p.num)
                               [] p.conv = "t" -> TimeToString(p.time)
                               [] p.conv = "p" -> <<"0", "x">> \o ValueToHex(p.num % range)
                               [] p.conv = "d" -> ValueToString(p.comma, Signed(p.num, range))
                               [] p.conv = "u" -> ValueToString(p.comma, p.num % range)
                               [] OTHER -> ValueToHex(p.num % range))

\* The attribute in force behind piece k, and for the text of piece k.
After(k) ==
  LET set == {j \in 1..k : prog[j].kind = "attr"}
  IN  IF set = {} THEN start
      ELSE AttrOf(prog[CHOOSE j \in set : \A i \in set : i <= j].attr)
During(k) ==
  IF prog[k].kind = "item" /\ prog[k].shade # <<>> THEN AttrOf(prog[k].shade[1]) ELSE After(k)

WithAttr(t, a) == [i \in 1..Len(t) |-> <<t[i], a>>]
NoReturns(t) == SelectSeq(t, LAMBDA x : x[1] # "\r")
Rendered == NoReturns(FlattenSeq([k \in 1..Len(prog) |-> WithAttr(PieceText(prog[k]), During(k))]))

\* Print and DbgPrint show exactly the pieces of the program, in order, each
\* character in the attribute that was in force where it stands in the format
\* (the flush before every change sees to that); a field's attribute ends with
\* the field; and every newline comes right behind a carriage return.
ShowsProgram ==
  IsConsole =>
    /\ pc # "lost"
    /\ pc = "return" =>
         LET shown == FlattenSeq([j \in 1..Len(screen) |-> WithAttr(screen[j].text, screen[j].attr)])
         IN  /\ conAttr = After(Len(prog))
             /\ Rendered = NoReturns(shown)
             /\ \A i \in 1..Len(shown) : shown[i][1] = "\n" => i > 1 /\ shown[i - 1][1] = "\r"

\* The result of a string function is the text of its program, cut at the size
\* of the string, with a 0 right behind; nothing is ever written behind the
\* string, neither the caller's nor the block in the pool.  Three exceptions:
\* a string of one character gets no 0; when the block cannot grow, the text so
\* far is lost and what comes later starts a new string, so the result is the
\* end of the text; and %N, %H and %E are no directives without a console, but
\* take the next character for theirs.
StringHoldsOutput ==
  /\ Len(spc.text) <= spc.cap /\ spc.term < spc.cap
  /\ pc = "return" /\ ~IsConsole =>
       /\ spc.maxlen # 0 => spc.term = Len(spc.text)
       /\ CASE fn = "SPrint" -> /\ Len(spc.text) <= spc.maxlen /\ IsPrefix(spc.text, put)
                                /\ Len(spc.text) < spc.maxlen => spc.text = put
            [] fn = "PoolPrint" /\ failed -> IsSuffix(spc.text, put)
            [] OTHER -> spc.str /\ spc.text = put
  /\ ~IsConsole /\ ~(outer.on /\ fn = "PoolPrint") /\ ~failed
       /\ (\A k \in 1..Len(prog) : prog[k].kind # "attr") =>
         /\ pc # "lost"
         /\ pc = "return" =>
              [k \in 1..Len(Rendered) |-> Rendered[k][1]] = SelectSeq(put, LAMBDA c : c # "\r")

\* What the comments say of a string function that is called with a size of 0
\* and gets its memory: that size "means there is no limit" (va_print.c,
\* print.c), so the result has room for all that is put into it and the 0 behind
\* it; "-" is "justify on left" and u is "value as unsigned decimal", as in
\* PieceText (va_print.h); "if this is a newline, add a carriage return"
\* (va_print.h).
WithoutLimit == fn = "SPrint" /\ spc.maxlen = MaxLen(0)
FormattedAsDocumented ==
  WithoutLimit /\ ~failed /\ pc = "return" =>
    /\ spc.term < spc.cap
    /\ SelectSeq(spc.text, LAMBDA c : c # "\r") = [k \in 1..Len(Rendered) |-> Rendered[k][1]]
    /\ \A i \in 1..Len(spc.text) : spc.text[i] = "\n" => i > 1 /\ spc.text[i - 1] = "\r"

\* Whatever fails, the only pool block left behind is the string PoolPrint or
\* CatPrint returns.
PoolBalanced ==
  /\ TypeOK
  /\ pc = "idle" => pool = IF fn = "PoolPrint" /\ spc.str THEN 1 ELSE 0

=============================================================================
