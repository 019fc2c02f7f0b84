--------------------------- MODULE ConsolePrograms ---------------------------
(***************************************************************************)
(* Programs that VaPrint prints, for a buffer of three characters and      *)
(* 16-bit numbers: texts with newlines, items with every flag, the         *)
(* smallest and largest numbers, attributes for a field and for good.      *)
(* SomePrograms holds those that the code prints as va_print.h promises:   *)
(* no newline is the first character of a buffer, an item on the left has  *)
(* no width beyond its text, %lu has a value that an INT64 has room for,   *)
(* and no fraction lies between -1 and 0.  Documented shows what happens   *)
(* otherwise.                                                              *)
(***************************************************************************)
EXTENDS Integers

NoTime == [Month |-> 1, Day |-> 1, Year |-> 0, Hour |-> 0, Minute |-> 0]

Words(t) == [kind |-> "text", text |-> t]
SetAttr(a) == [kind |-> "attr", attr |-> a]

Item(conv, text, num) ==
  [kind |-> "item", conv |-> conv, text |-> text, num |-> num, width |-> 0, field |-> 0,
   zero |-> FALSE, left |-> FALSE, comma |-> FALSE, long |-> FALSE, star |-> FALSE, shade |-> <<>>,
   time |-> NoTime, null |-> FALSE]
Str(t) == Item("s", t, 0)

Lines == <<Words(<<"a", "b", "\n", "\n", "c", "\r", "\n">>)>>
Percent == <<Words(<<"%">>), Str(<<"%", "\n">>), Words(<<"%">>)>>
Columns ==
  <<[Str(<<"a", "b">>) EXCEPT !.width = 3], [Str(<<"a", "b", "c">>) EXCEPT !.field = 2],
    [Str(<<"a">>) EXCEPT !.field = 3, !.left = TRUE], [Str(<<"a">>) EXCEPT !.width = 2, !.star = TRUE]>>
Zeros == <<[Str(<<"7">>) EXCEPT !.field = 4, !.width = 3, !.zero = TRUE], Str(<<>>)>>
Signs ==
  <<[Item("d", <<>>, 32768) EXCEPT !.long = TRUE, !.comma = TRUE],
    [Item("d", <<>>, 129) EXCEPT !.width = 4]>>
Counts ==
  <<[Item("u", <<>>, 32767) EXCEPT !.long = TRUE, !.comma = TRUE], Item("u", <<>>, 255), Item("d", <<>>, 0)>>
Hundreds == <<[Item("d", <<>>, 65535 - 122) EXCEPT !.long = TRUE, !.comma = TRUE]>>
Hexes == <<Item("X", <<>>, 10), [Item("X", <<>>, 300) EXCEPT !.long = TRUE], Item("x", <<>>, 0)>>
Colours ==
  <<Words(<<"a">>), [Str(<<"b", "c">>) EXCEPT !.shade = <<"h">>], Words(<<"z", "\n">>),
    SetAttr("E"), Words(<<"d">>), [Str(<<"e">>) EXCEPT !.shade = <<"n">>, !.width = 2], Words(<<"s">>)>>

Fractions ==
  <<Item("f", <<>>, 1), Item("f", <<>>, -24), Item("f", <<>>, 32), [Item("f", <<>>, -16004) EXCEPT !.comma = TRUE]>>
Clock(h) == [Item("t", <<>>, 0) EXCEPT !.time = [NoTime EXCEPT !.Hour = h, !.Year = 2024]]
Times == <<Clock(0), Clock(11), Clock(12), Clock(23)>>
Pointers ==
  <<[Item("p", <<>>, 300) EXCEPT !.long = TRUE], Item("c", <<"a">>, 0), [Str(<<>>) EXCEPT !.null = TRUE]>>

SomePrograms == {Lines, Percent, Columns, Zeros, Signs, Counts, Hundreds, Hexes, Colours, Fractions, Times, Pointers}

\* An item on the left that is narrower than its width; the smallest number
\* INT64 has no room for; and a newline that starts a buffer.
Documented ==
  {<<[Str(<<"a">>) EXCEPT !.width = 3, !.left = TRUE], [Item("u", <<>>, 32768) EXCEPT !.long = TRUE],
     Str(<<"\n">>)>>}

=============================================================================
