----------------------------- MODULE ArrayValues -----------------------------
(***************************************************************************)
(* What Pickle::util::DynamicArray promises its users, without memory:     *)
(* each array is a value of its own, a sequence of cells, that only the    *)
(* calls made on that array (or moving from it) change.  An allocation may *)
(* fail, which leaves the array empty.                                     *)
(***************************************************************************)
EXTENDS Naturals, Sequences

CONSTANTS Arrays, Vals, MaxLen, Junk

VARIABLE val

\* An array of n cells nobody has written.
Fresh(n) == [i \in 1..n |-> Junk]

\* The first cells of v replaced by those of w, as far as both reach.
Prefixed(v, w) == [i \in 1..Len(v) |-> IF i <= Len(w) THEN w[i] ELSE v[i]]

Buffers == UNION {[1..n -> Vals] : n \in 0..MaxLen}

Init == val = [a \in Arrays |-> <<>>]

Clear(a) == val' = [val EXCEPT ![a] = <<>>]

Resize(a, n) == val' = [val EXCEPT ![a] = Fresh(n)]

Fill(a, v) == val' = [val EXCEPT ![a] = Prefixed(@, v)]

Set(a, v) == val' = [val EXCEPT ![a] = v]

\* a takes over b's value, or loses its own when there is no memory; b is
\* emptied either way.
Take(a, b) ==
  \E v \in {val[b], <<>>} : val' = [val EXCEPT ![a] = v, ![b] = <<>>]

\* a keeps its length and b is emptied.
Absorb(a, b) == val' = [val EXCEPT ![a] = Prefixed(@, val[b]), ![b] = <<>>]

Next ==
  \/ \E a \in Arrays : Clear(a)
  \/ \E a \in Arrays, n \in 0..MaxLen : Resize(a, n)
  \/ \E a \in Arrays, v \in Buffers : Fill(a, v) \/ Set(a, v)
  \/ \E a, b \in Arrays : Fill(a, val[b]) \/ (a # b /\ (Take(a, b) \/ Absorb(a, b)))

Spec == Init /\ [][Next]_val

=============================================================================
