----------------------------- MODULE LinkedList -----------------------------
(***************************************************************************)
(* The doubly linked lists of inc/efilink.h: every macro is one action, its *)
(* assignments in the order of the source (the updates of an EXCEPT apply   *)
(* from left to right, as the assignments do when pointers alias).  The     *)
(* release build is modelled: RemoveEntryList leaves the entry's own        *)
(* pointers stale.                                                          *)
(*                                                                          *)
(* RtConvertList of lib/runtime/vm.c walks a list once more, when the       *)
(* operating system changes to virtual addresses, and converts its pointers *)
(* in place: a converted pointer cannot be followed any more.               *)
(***************************************************************************)
EXTENDS Naturals, Sequences, FiniteSets

CONSTANTS
  Heads, Entries,   \* LIST_ENTRYs that head a list, and that are put in lists
  Unset,            \* what an uninitialised pointer holds; no Link
  AdjacentSwap      \* SwapListEntries is also called when Entry2 is right before Entry1

ASSUME HeadsAssumption == Heads \intersect Entries = {}
ASSUME FiniteAssumption == IsFiniteSet(Heads \union Entries)
ASSUME UnsetAssumption == Unset \notin Heads \union Entries

VARIABLES
  flink, blink,     \* the pointers
  ready,            \* heads that InitializeListHead has run on
  linked,           \* entries their owners have put in a list
  op,               \* history: the last macro that changed a list
  link, listHead,   \* Link and ListHead of the running RtConvertList
  virtual           \* pointers RtConvertList has converted

lists == <<flink, blink, ready, linked, op>>
conversion == <<link, listHead, virtual>>
listVars == <<flink, blink, ready, linked, op, link, listHead, virtual>>

Nodes == Heads \union Entries
Linked == ready \union linked

-----------------------------------------------------------------------------
(* The macros. *)

IsListEmpty(h) == flink[h] = h

InitializeListHead(h) ==
  /\ h \in ready => IsListEmpty(h)
  /\ flink' = [flink EXCEPT ![h] = h]
  /\ blink' = [blink EXCEPT ![h] = h]
  /\ ready' = ready \union {h}
  /\ UNCHANGED <<linked, op>>

\* Mutant: the successor keeps its Blink.
RemoveEntryListOneWay(e) ==
  /\ e \in linked
  /\ flink' = [flink EXCEPT ![blink[e]] = flink[e]]
  /\ linked' = linked \ {e}
  /\ op' = <<"remove", e>>
  /\ UNCHANGED <<blink, ready>>

RemoveEntryList(e) ==
  /\ e \in linked
  /\ flink' = [flink EXCEPT ![blink[e]] = flink[e]]
  /\ blink' = [blink EXCEPT ![flink[e]] = blink[e]]
  /\ linked' = linked \ {e}
  /\ op' = <<"remove", e>>
  /\ UNCHANGED ready

\* Mutant: inserted behind the first entry instead of the last.
InsertTailListAtHead(h, e) ==
  /\ h \in ready /\ e \notin linked
  /\ flink' = [flink EXCEPT ![e] = flink[h], ![h] = e]
  /\ blink' = [blink EXCEPT ![e] = h, ![flink[h]] = e]
  /\ linked' = linked \union {e}
  /\ op' = <<"tail", h, e>>
  /\ UNCHANGED ready

InsertTailList(h, e) ==
  /\ h \in ready /\ e \notin linked
  /\ flink' = [flink EXCEPT ![e] = h, ![blink[h]] = e]
  /\ blink' = [blink EXCEPT ![e] = blink[h], ![h] = e]
  /\ linked' = linked \union {e}
  /\ op' = <<"tail", h, e>>
  /\ UNCHANGED ready

InsertHeadList(h, e) ==
  /\ h \in ready /\ e \notin linked
  /\ flink' = [flink EXCEPT ![e] = flink[h], ![h] = e]
  /\ blink' = [blink EXCEPT ![e] = h, ![flink[h]] = e]
  /\ linked' = linked \union {e}
  /\ op' = <<"head", h, e>>
  /\ UNCHANGED ready

SwapListEntries(e1, e2) ==
  /\ {e1, e2} \subseteq linked /\ e1 # e2
  /\ AdjacentSwap \/ blink[e1] # e2
  /\ flink' = [flink EXCEPT ![blink[e2]] = flink[e2], ![e2] = e1, ![blink[e1]] = e2]
  /\ blink' = [blink EXCEPT ![flink[e2]] = blink[e2], ![e2] = blink[e1], ![e1] = e2]
  /\ op' = <<"before", e1, e2>>
  /\ UNCHANGED <<ready, linked>>

-----------------------------------------------------------------------------
(* RtConvertList. *)

RtConvertList(h) ==
  /\ link = Unset
  /\ h \in ready /\ <<h, "Flink">> \notin virtual
  /\ listHead' = h /\ link' = h
  /\ UNCHANGED <<lists, virtual>>

\* Mutant: the link is followed after it was converted.
ConvertLinkLate ==
  /\ link # Unset
  /\ virtual' = virtual \union {<<link, "Flink">>, <<link, "Blink">>}
  /\ link' = Unset
  /\ UNCHANGED <<lists, listHead>>

\* Mutant: the loop stops only at a null pointer.
ConvertLinkForever ==
  /\ link # Unset
  /\ virtual' = virtual \union {<<link, "Flink">>, <<link, "Blink">>}
  /\ link' = flink[link]
  /\ UNCHANGED <<lists, listHead>>

\* One turn of its loop.
ConvertLink ==
  /\ link # Unset
  /\ virtual' = virtual \union {<<link, "Flink">>, <<link, "Blink">>}
  /\ link' = IF flink[link] = listHead THEN Unset ELSE flink[link]
  /\ UNCHANGED <<lists, listHead>>

ListInit ==
  /\ flink = [n \in Nodes |-> Unset] /\ blink = [n \in Nodes |-> Unset]
  /\ ready = {} /\ linked = {} /\ op = <<>>
  /\ link = Unset /\ listHead = Unset /\ virtual = {}

\* The lists are used with physical addresses, until the conversions begin.
Use ==
  /\ listHead = Unset
  /\ UNCHANGED conversion
  /\ \/ \E h \in Heads : InitializeListHead(h)
     \/ \E h \in Heads, e \in Entries : InsertHeadList(h, e) \/ InsertTailList(h, e)
     \/ \E e \in Entries : RemoveEntryList(e)
     \/ \E e1, e2 \in Entries : SwapListEntries(e1, e2)

ListNext ==
  \/ Use
  \/ \E h \in Heads : RtConvertList(h)
  \/ ConvertLink

\* RtConvertList runs to its end once called.
ListSpec == ListInit /\ [][ListNext]_listVars /\ WF_listVars(ConvertLink)

-----------------------------------------------------------------------------
(* Properties. *)

ListTypeOK ==
  /\ {flink, blink} \subseteq [Nodes -> Nodes \union {Unset}]
  /\ \A n \in Linked : Unset \notin {flink[n], blink[n]}
  /\ ready \subseteq Heads /\ linked \subseteq Entries
  /\ {link, listHead} \subseteq Nodes \union {Unset}
  /\ virtual \subseteq Nodes \X {"Flink", "Blink"}

\* The lists stay rings: from a list head or an entry in a list, the pointers
\* lead to list heads and entries in lists only, never to an entry that was
\* removed, and going forward and back returns.
RingConsistent ==
  \A n \in Linked :
    /\ flink[n] \in Linked /\ blink[n] \in Linked
    /\ blink[flink[n]] = n /\ flink[blink[n]] = n

\* Following Flink from h.
Walk(h) ==
  LET at[i \in 0..Cardinality(Nodes)] == IF i = 0 THEN h ELSE flink[at[i - 1]]
  IN  at

\* The entries of list h in order; the whole walk when it does not come back
\* to h.
Chain(h) ==
  LET N == Cardinality(Nodes)
      at == Walk(h)
      back == {i \in 1..N : at[i] = h}
      len == IF back = {} THEN N ELSE (CHOOSE i \in back : \A j \in back : i <= j) - 1
  IN  [i \in 1..len |-> at[i]]

\* The macros implement sequences: whatever the order of insertions, removals
\* and moves, each list holds the entries it should, in the right order.  Each
\* macro is the operation on sequences that its name says.
AsSequences == INSTANCE ListSequences WITH
  lists <- [h \in Heads |-> IF h \in ready THEN Chain(h) ELSE <<>>]
ImplementsSequences == AsSequences!Spec

Ring(h) == {h} \union {Chain(h)[i] : i \in DOMAIN Chain(h)}

\* RtConvertList converts both pointers of every element of its list, and
\* touches no other list: nothing is left that would point to a physical
\* address, although the walk destroys the pointers it goes along.
ConversionComplete ==
  link = Unset =>
    \A h \in ready :
      LET mine == {v \in virtual : v[1] \in Ring(h)}
      IN  mine = {} \/ mine = Ring(h) \X {"Flink", "Blink"}

\* RtConvertList returns.
ConversionEnds == link # Unset ~> link = Unset

=============================================================================
