--------------------------- MODULE ProtocolNotify ---------------------------
(***************************************************************************)
(* LibCreateProtocolNotifyEvent of event.c: a program asks to be told of   *)
(* the interfaces of a protocol, those that are there and those to come.   *)
(*                                                                         *)
(* The firmware (external) signals the event at each installation once it  *)
(* is registered, and runs the notification function of a signalled event  *)
(* at any time the task priority allows, several signals as one.  The      *)
(* notification function looks at all that is installed.  Interfaces are   *)
(* installed by others between any two steps.                              *)
(***************************************************************************)
EXTENDS FiniteSets

CONSTANT Installable   \* interfaces of the protocol that others may install

VARIABLES
  npc,         \* where the function is
  event,       \* the event it has created: "none", "created" or "registered"
  signalled,   \* whether the notification function has to run
  installed,   \* the interfaces in the handle database
  noticed,     \* the interfaces the notification function has looked at
  returned     \* what the function returned: "nothing" yet, "event" or "NULL"

vars == <<npc, event, signalled, installed, noticed, returned>>

Init ==
  /\ npc = "create" /\ event = "none" /\ signalled = FALSE /\ installed \in SUBSET Installable
  /\ noticed = {} /\ returned = "nothing"

Install(i) ==
  /\ i \notin installed
  /\ installed' = installed \union {i}
  /\ signalled' = (signalled \/ event = "registered")
  /\ UNCHANGED <<npc, event, noticed, returned>>

Notify ==
  /\ signalled
  /\ signalled' = FALSE /\ noticed' = installed
  /\ UNCHANGED <<npc, event, installed, returned>>

CreateEvent ==
  /\ npc = "create"
  /\ \/ event' = "created" /\ npc' = "register" /\ UNCHANGED returned
     \/ npc' = "done" /\ returned' = "NULL" /\ UNCHANGED event
  /\ UNCHANGED <<signalled, installed, noticed>>

\* The event stays open when the registration is refused.
RegisterProtocolNotify ==
  /\ npc = "register"
  /\ \/ event' = "registered" /\ npc' = "signal" /\ UNCHANGED returned
     \/ npc' = "done" /\ returned' = "NULL" /\ UNCHANGED event
  /\ UNCHANGED <<signalled, installed, noticed>>

\* Mutant: no initial pass.
SignalEventNot ==
  /\ npc = "signal"
  /\ npc' = "done" /\ returned' = "event"
  /\ UNCHANGED <<signalled, event, installed, noticed>>

\* For the interfaces that were installed before the registration.
SignalEvent ==
  /\ npc = "signal"
  /\ signalled' = TRUE
  /\ npc' = "done" /\ returned' = "event"
  /\ UNCHANGED <<event, installed, noticed>>

Step == CreateEvent \/ RegisterProtocolNotify \/ SignalEvent
Next == (\E i \in Installable: Install(i)) \/ Notify \/ Step
Spec == Init /\ [][Next]_vars

\* Once the caller has its event and no notification is due, every interface
\* was looked at, whether it was installed before, between or after the steps;
\* without an event nothing is ever notified, though an event that could not be
\* registered is left open.
EveryInterfaceNoticed ==
  /\ returned = "event" /\ ~signalled => noticed = installed
  /\ returned = "NULL" => ~signalled /\ noticed = {} /\ event # "registered"

\* The strengthening that every step preserves: an event is registered exactly
\* while the function is about to kick it or has returned it, and before that
\* nobody was notified.
IInv ==
  /\ npc \in {"create", "register", "signal", "done"}
  /\ (returned = "nothing") = (npc # "done")
  /\ (event = "registered") = (npc = "signal" \/ returned = "event")
  /\ signalled \/ noticed # {} => event = "registered"
  /\ signalled \in BOOLEAN
  /\ EveryInterfaceNoticed

=============================================================================
