------------------------------ MODULE MCConsole ------------------------------
(***************************************************************************)
(* What the console and strings are given by Print and its relatives       *)
(* (VaPrint), for the programs of ConsolePrograms.                         *)
(***************************************************************************)
EXTENDS VaPrint, ConsolePrograms

-----------------------------------------------------------------------------
\* Print and DbgPrint show exactly their program, its numbers with the right
\* digits and groups, every character in its attribute (print.c, va_print.h):
\* see VaPrint.
ProgramShown == ShowsProgram /\ NumbersRead

\* The string functions give the text of their program, cut at the size of the
\* string, and leave only what they return in the pool (print.c): see VaPrint.
StringComplete == StringHoldsOutput /\ PoolBalanced

=============================================================================
