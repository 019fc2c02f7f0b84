------------------------------ MODULE MCLibrary ------------------------------
(***************************************************************************)
(* The library's text and functions, for model checking: formatted output  *)
(* with the programs of ConsolePrograms, the pure functions with those of  *)
(* MCAlgorithms, one of them in each behaviour.                            *)
(***************************************************************************)
EXTENDS MCAlgorithms

CONSTANTS Programs, BufLen, Bits, Sizes, AsciiSizes, MaxCalls   \* see VaPrint

VARIABLES
  turn,   \* "console" or "functions"
  fn, pc, fmt, ix, args, item, todo, buf, len, psAttr, restoreAttr, conAttr, saved,
  screen, spc, pool, outer, calls, prog, start, put, failed

console ==
  <<fn, pc, fmt, ix, args, item, todo, buf, len, psAttr, restoreAttr, conAttr, saved,
    screen, spc, pool, outer, calls, prog, start, put, failed>>

C == INSTANCE MCConsole

Q == INSTANCE ConsolePrograms
SomePrograms == Q!SomePrograms

LibraryInit == turn \in {"console", "functions"} /\ Init /\ C!Init

Printing == turn = "console" /\ C!Next /\ UNCHANGED <<turn, vars>>
Computing == turn = "functions" /\ Next /\ UNCHANGED <<turn, console>>
LibraryNext == Printing \/ Computing

LibrarySpec == LibraryInit /\ [][LibraryNext]_<<turn, vars, console>>

-----------------------------------------------------------------------------
\* Print and DbgPrint show exactly their program, its numbers with the right
\* digits and groups, every character in its attribute (print.c, va_print.h):
\* see MCConsole.
ProgramShown == C!ProgramShown

\* The string functions give the text of their program, cut at the size of the
\* string, and leave only what they return in the pool (print.c): see MCConsole.
StringComplete == C!StringComplete

=============================================================================
