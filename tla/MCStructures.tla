---------------------------- MODULE MCStructures ----------------------------
(***************************************************************************)
(* The data structures the rest is built on, for model checking: the       *)
(* arrays, the locks and the lists, each by itself.  Nothing relates them, *)
(* so one behaviour uses one of them and leaves the other two as they      *)
(* began.                                                                  *)
(***************************************************************************)
EXTENDS DynamicArray, FLock, LinkedList

VARIABLE turn   \* what this behaviour uses

AllInit ==
  /\ turn \in {"arrays", "locks", "lists"}
  /\ Init /\ LockInit /\ ListInit

AllNext ==
  /\ UNCHANGED turn
  /\ \/ turn = "arrays" /\ Next /\ UNCHANGED <<lockVars, listVars>>
     \/ turn = "locks" /\ LockNext /\ UNCHANGED <<vars, listVars>>
     \/ turn = "lists" /\ ListNext /\ UNCHANGED <<vars, lockVars>>

AllSpec ==
  /\ AllInit /\ [][AllNext]_<<turn, vars, lockVars, listVars>>
  /\ WF_listVars(ConvertLink)

=============================================================================
