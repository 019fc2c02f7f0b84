--------------------------- MODULE ListSequences ---------------------------
(***************************************************************************)
(* What a LIST_ENTRY list promises: each list head stands for a sequence   *)
(* of entries, and an entry is in one place of one list.                   *)
(***************************************************************************)
EXTENDS Naturals, Sequences, SequencesExt

CONSTANTS Heads, Entries

VARIABLES
  lists,
  op      \* history: the last operation

Position(s, e) == CHOOSE j \in 1..Len(s) : s[j] = e
Before(e1, e2, s) == InsertAt(s, Position(s, e1), e2)
Without(s, e) == IF Contains(s, e) THEN RemoveAt(s, Position(s, e)) ELSE s

InsertHead(h, e) ==
  /\ op' = <<"head", h, e>>
  /\ \A g \in Heads : ~Contains(lists[g], e)
  /\ lists' = [lists EXCEPT ![h] = <<e>> \o @]

InsertTail(h, e) ==
  /\ op' = <<"tail", h, e>>
  /\ \A g \in Heads : ~Contains(lists[g], e)
  /\ lists' = [lists EXCEPT ![h] = Append(@, e)]

Withdraw(e) ==
  /\ op' = <<"remove", e>>
  /\ lists' = [h \in Heads |-> Without(lists[h], e)]

\* e2 leaves its place and comes to stand right before e1.
PutBefore(e1, e2) ==
  /\ op' = <<"before", e1, e2>>
  /\ \E h \in Heads :
       /\ e1 # e2 /\ Contains(lists[h], e1)
       /\ lists' = [g \in Heads |->
                      IF g = h THEN Before(e1, e2, Without(lists[g], e2))
                      ELSE Without(lists[g], e2)]

Init == lists = [h \in Heads |-> <<>>] /\ op = <<>>
Next ==
  \/ \E h \in Heads, e \in Entries : InsertHead(h, e) \/ InsertTail(h, e)
  \/ \E e \in Entries : Withdraw(e)
  \/ \E e1, e2 \in Entries : PutBefore(e1, e2)

Spec == Init /\ [][Next]_<<lists, op>>
=============================================================================
