---------------------------- MODULE HandlesProofs ----------------------------
(***************************************************************************)
(* Proofs about the library's functions on the handle database.            *)
(*                                                                         *)
(* LibCreateProtocolNotifyEvent: no interface is missed, however many      *)
(* there are and whenever they are installed.                              *)
(*                                                                         *)
(* LibInstallProtocolInterfaces: all or nothing, for every database, every *)
(* list of interfaces and every order of the notifications.                *)
(*                                                                         *)
(* GrowBuffer and its users: the whole object or nothing, and no block is  *)
(* lost or freed twice, for all objects and all changes to them.           *)
(*                                                                         *)
(* IInput: the line is what the keys say, for every buffer and all keys.   *)
(***************************************************************************)
EXTENDS MCHandles, NaturalsInduction, WellFoundedInduction, SequenceTheorems, TLAPS

-----------------------------------------------------------------------------
(* ProtocolNotify. *)

\* The invariant holds when LibCreateProtocolNotifyEvent is called.
LEMMA InitOK == Init => IInv
BY DEF Init, IInv, EveryInterfaceNoticed

\* An installation by others signals a registered event.
LEMMA InstallKeeps == ASSUME IInv, NEW i \in Installable, Install(i) PROVE IInv'
BY DEF IInv, EveryInterfaceNoticed, Install

\* The notification function looks at all that is installed.
LEMMA NotifyKeeps == ASSUME IInv, Notify PROVE IInv'
BY DEF IInv, EveryInterfaceNoticed, Notify

\* The calls of LibCreateProtocolNotifyEvent itself.
LEMMA StepKeeps == ASSUME IInv, Step PROVE IInv'
<1>1. CASE CreateEvent
  BY <1>1 DEF IInv, EveryInterfaceNoticed, CreateEvent
<1>2. CASE RegisterProtocolNotify
  BY <1>2 DEF IInv, EveryInterfaceNoticed, RegisterProtocolNotify
<1>3. CASE SignalEvent
  BY <1>3 DEF IInv, EveryInterfaceNoticed, SignalEvent
<1> QED BY <1>1, <1>2, <1>3 DEF Step

\* Whatever order LibCreateProtocolNotifyEvent's calls, the installations and
\* the notifications take, an event that was returned and is not signalled has
\* seen every interface, and a NULL was never notified (event.c).
THEOREM EveryInterfaceNoticedHolds == Spec => []EveryInterfaceNoticed
<1>1. IInv /\ [Next]_vars => IInv'
  <2> SUFFICES ASSUME IInv, [Next]_vars PROVE IInv'
    OBVIOUS
  <2>1. CASE Next
    BY <2>1, InstallKeeps, NotifyKeeps, StepKeeps DEF Next
  <2>2. CASE UNCHANGED vars
    BY <2>2 DEF IInv, EveryInterfaceNoticed, vars
  <2> QED BY <2>1, <2>2
<1>2. IInv => EveryInterfaceNoticed
  BY DEF IInv
<1> QED BY InitOK, <1>1, <1>2, PTL DEF Spec

-----------------------------------------------------------------------------
(* ProtocolInterfaces. *)

Database == [Handles -> [Protocols -> Ifaces \union {None}]]

\* The arguments that are installed now and were not at the call: those the
\* install loop has passed, less those the rollback has undone.
Window == IF pc = "rollback" THEN k..(k + index - 1) ELSE 1..index

\* The database differs from the one at the call by the interfaces of the
\* window, each of another protocol, and no driver has them open.
Differs ==
  /\ Window # {} => handle \in Handles
  /\ \A j \in Window :
       /\ db[handle][args[j].p] = args[j].new
       /\ db0[handle][args[j].p] = None
       /\ <<handle, args[j].p>> \notin inUse
  /\ \A j, l \in Window : args[j].p = args[l].p => j = l
  /\ \A h \in Handles, r \in Protocols :
       db[h][r] # db0[h][r] => h = handle /\ \E j \in Window : args[j].p = r

\* What the functions know while they run.
PInv ==
  /\ P!InstallAllOrNothing
  /\ db0 \in Database
  /\ \A h \in Handles, r \in Protocols : <<h, r>> \in inUse => db[h][r] # None
  /\ pc = "install" =>
       /\ raised /\ status = "EFI_SUCCESS" /\ index = k - 1
       /\ (index = 0 => handle = oldHandle) /\ Differs
  /\ pc = "rollback" =>
       /\ raised /\ status = "EFI_ERROR" /\ index + k - 1 <= Len(args) /\ Differs
  /\ pc = "reinstall" => index = 0 /\ handle = oldHandle /\ db = db0

InterfacesInv == turn = "interfaces" => PInv

\* What an argument list holds.
LEMMA ArgsType ==
  ASSUME P!TypeOK
  PROVE  /\ args \in Seq([p : Protocols, old : Ifaces, new : Ifaces])
         /\ Len(args) \in Nat /\ k \in Nat /\ index \in Nat
<1>1. <<>> \in Seq([p : Protocols, old : Ifaces, new : Ifaces])
  OBVIOUS
<1>2. args \in ArgLists \/ args = <<>>
  BY DEF P!TypeOK
<1>3. args \in Seq([p : Protocols, old : Ifaces, new : Ifaces])
  BY <1>1, <1>2, InterfacesAssumption
<1>4. Len(args) \in Nat
  BY <1>3
<1> QED BY <1>3, <1>4 DEF P!TypeOK

LEMMA InstallableArgs ==
  ASSUME P!TypeOK, NEW j \in 1..Len(args)
  PROVE  args[j].p \in Protocols /\ args[j].new \in Ifaces /\ args[j].new # None
<1> DEFINE Argument == [p : Protocols, old : Ifaces, new : Ifaces]
<1>1. args \in Seq(Argument)
  BY ArgsType
<1> HIDE DEF Argument
<1>2. args[j] \in Argument
  BY <1>1
<1>3. args[j].p \in Protocols /\ args[j].new \in Ifaces
  BY <1>2 DEF Argument
<1> QED BY <1>3, InterfacesAssumption

\* A call starts with nothing in the window.
LEMMA BeginKeeps ==
  ASSUME PInv, NEW h \in Handles \union {None}, NEW l \in ArgLists, NEW where,
         where \in {"install", "uninstall", "reinstall"},
         P!Begin(where, h, l), raised' \in BOOLEAN, where = "install" => raised'
  PROVE  PInv'
<1>1. /\ pc = "idle" /\ pc' = where /\ args' = l /\ handle' = h /\ oldHandle' = h
      /\ k' = 1 /\ index' = 0 /\ status' = "EFI_SUCCESS" /\ db0' = db /\ db' = db /\ inUse' = inUse
      /\ calls' = calls + 1 /\ calls < MaxInstalls
  BY DEF P!Begin, P!fw
<1>2. P!TypeOK
  BY DEF PInv, P!InstallAllOrNothing
<1>3. l \in Seq([p : Protocols, old : Ifaces, new : Ifaces])
  BY InterfacesAssumption
<1>4. P!TypeOK'
  BY <1>1, <1>2, <1>3, InterfacesAssumption DEF P!TypeOK
<1>5. Window' = {}
  BY <1>1 DEF Window
<1>6. Differs'
  BY <1>1, <1>5 DEF Differs
<1>7. db0' \in Database
  BY <1>1, <1>2 DEF P!TypeOK, Database
<1>8. P!InstallAllOrNothing'
  BY <1>1, <1>4 DEF P!InstallAllOrNothing
<1> QED BY <1>1, <1>6, <1>7, <1>8 DEF PInv

\* The firmware installs the next interface: it joins the window.
LEMMA InstallOneKeeps ==
  ASSUME PInv, pc = "install", k <= Len(args), NEW h \in Handles,
         handle # None => h = handle, db[h][args[k].p] = None,
         db' = [db EXCEPT ![h][args[k].p] = args[k].new],
         handle' = h, index' = index + 1, k' = k + 1,
         UNCHANGED <<status, pc, inUse, raised, args, oldHandle, calls, db0>>
  PROVE  PInv'
<1>1. /\ P!TypeOK /\ raised /\ status = "EFI_SUCCESS" /\ index = k - 1 /\ Differs
      /\ db0 \in Database
  BY DEF PInv, P!InstallAllOrNothing
<1>2. /\ db \in Database /\ k \in Nat /\ index \in Nat /\ Len(args) \in Nat
      /\ k \in 1..Len(args)
  BY <1>1, ArgsType DEF P!TypeOK, Database
<1> DEFINE r == args[k].p
           x0 == args[k].new
<1>3. r \in Protocols /\ x0 \in Ifaces /\ x0 # None
  BY <1>1, <1>2, InstallableArgs
<1>4. /\ db' \in Database
      /\ db'[h][r] = x0
      /\ \A g \in Handles, s \in Protocols : g # h \/ s # r => db'[g][s] = db[g][s]
  BY <1>2, <1>3 DEF Database
<1>5. Window = 1..(k - 1) /\ Window' = 1..k
  BY <1>1, <1>2 DEF Window
<1>6. \A j \in Window : j \in 1..Len(args) /\ args[j].p \in Protocols /\ args[j].new # None
  BY <1>1, <1>2, <1>5, InstallableArgs
<1>7. ASSUME NEW j \in Window PROVE handle = h /\ args[j].p # r
  <2>1. handle \in Handles /\ db[handle][args[j].p] = args[j].new
    BY <1>1 DEF Differs
  <2>2. handle = h
    BY <2>1, InterfacesAssumption
  <2> QED BY <1>6, <2>1, <2>2
<1>8. db0[h][r] = None
  <2>1. CASE db[h][r] = db0[h][r]
    BY <2>1
  <2>2. CASE db[h][r] # db0[h][r]
    BY <1>1, <1>3, <1>7, <2>2 DEF Differs
  <2> QED BY <2>1, <2>2
<1>9. <<h, r>> \notin inUse
  BY <1>3 DEF PInv
<1>10. Differs'
  <2>1. Window' = Window \union {k}
    BY <1>2, <1>5
  <2>2. \A j \in Window' : /\ db'[handle'][args'[j].p] = args'[j].new
                          /\ db0'[handle'][args'[j].p] = None
                          /\ <<handle', args'[j].p>> \notin inUse'
    BY <1>1, <1>3, <1>4, <1>6, <1>7, <1>8, <1>9, <2>1 DEF Differs
  <2>3. \A j, l \in Window' : args'[j].p = args'[l].p => j = l
    BY <1>1, <1>7, <2>1 DEF Differs
  <2>4. ASSUME NEW g \in Handles, NEW s \in Protocols, db'[g][s] # db0'[g][s]
        PROVE  g = handle' /\ \E j \in Window' : args'[j].p = s
    <3>1. CASE g = h /\ s = r
      BY <2>1, <3>1
    <3>2. CASE g # h \/ s # r
      <4>1. db[g][s] # db0[g][s]
        BY <1>4, <2>4, <3>2
      <4>2. g = handle /\ \E j \in Window : args[j].p = s
        BY <1>1, <4>1 DEF Differs
      <4> QED BY <1>7, <2>1, <4>2
    <3> QED BY <3>1, <3>2
  <2> QED BY <2>2, <2>3, <2>4 DEF Differs
<1>11. P!TypeOK'
  BY <1>1, <1>2, <1>4 DEF P!TypeOK, Database
<1>12. \A g \in Handles, s \in Protocols : <<g, s>> \in inUse' => db'[g][s] # None
  BY <1>3, <1>4 DEF PInv
<1>13. index' = k' - 1 /\ index' # 0
  BY <1>1, <1>2
<1>14. P!InstallAllOrNothing'
  BY <1>11 DEF P!InstallAllOrNothing
<1> QED BY <1>1, <1>10, <1>12, <1>13, <1>14 DEF PInv

\* An install that fails starts the rollback with the same window.
LEMMA InstallLoopKeeps ==
  ASSUME PInv, P!Install
  PROVE  PInv'
<1>1. /\ P!TypeOK /\ raised /\ status = "EFI_SUCCESS" /\ index = k - 1 /\ Differs
      /\ pc = "install" /\ k <= Len(args)
      /\ UNCHANGED <<inUse, raised, args, oldHandle, calls, db0>>
  BY DEF PInv, P!InstallAllOrNothing, P!Install
<1>2. CASE status' = "EFI_ERROR" /\ k' = 1 /\ pc' = "rollback" /\ UNCHANGED <<db, handle, index>>
  <2>1. k \in Nat /\ index \in Nat /\ Len(args) \in Nat
    BY <1>1, ArgsType
  <2>2. Window' = Window
    BY <1>1, <1>2, <2>1 DEF Window
  <2>3. Differs'
    BY <1>1, <1>2, <2>2 DEF Differs
  <2>4. P!TypeOK'
    BY <1>1, <1>2, <2>1 DEF P!TypeOK
  <2>5. P!InstallAllOrNothing'
    BY <1>2, <2>4 DEF P!InstallAllOrNothing
  <2> QED BY <1>1, <1>2, <2>1, <2>3, <2>5 DEF PInv
<1>3. CASE /\ \E h \in IF handle = None THEN {g \in Handles : ~P!Exists(g)} ELSE {handle} :
                /\ P!CanInstall(h, args[k].p)
                /\ db' = P!Installed(h, args[k].p, args[k].new)
                /\ handle' = h
           /\ index' = index + 1 /\ k' = k + 1
           /\ UNCHANGED <<status, pc>>
  <2>1. PICK h \in Handles :
          /\ handle # None => h = handle
          /\ db[h][args[k].p] = None
          /\ db' = [db EXCEPT ![h][args[k].p] = args[k].new]
          /\ handle' = h
    BY <1>1, <1>3 DEF P!CanInstall, P!Installed, P!TypeOK
  <2> QED BY <1>1, <1>3, <2>1, InstallOneKeeps
<1> QED BY <1>2, <1>3 DEF P!Install

\* The rollback takes one interface out of the window: the raised TPL has kept
\* drivers from opening it.
LEMMA RollbackKeeps ==
  ASSUME PInv, P!Rollback
  PROVE  PInv'
<1>1. /\ P!TypeOK /\ raised /\ status = "EFI_ERROR" /\ index + k - 1 <= Len(args) /\ Differs
      /\ pc = "rollback" /\ index > 0 /\ db0 \in Database
      /\ index' = index - 1 /\ k' = k + 1
      /\ UNCHANGED <<inUse, raised, pc, args, handle, oldHandle, status, calls, db0>>
  BY DEF PInv, P!InstallAllOrNothing, P!Rollback
<1>2. /\ db \in Database /\ k \in Nat /\ index \in Nat /\ Len(args) \in Nat
      /\ k \in 1..Len(args) /\ inUse \subseteq Handles \X Protocols
  BY <1>1, ArgsType DEF P!TypeOK, Database
<1>3. Window = k..(k + index - 1) /\ Window' = (k + 1)..(k + index - 1) /\ k \in Window
  BY <1>1, <1>2 DEF Window
<1>4. Window' \subseteq Window /\ k \notin Window' /\ \A j \in Window : j = k \/ j \in Window'
  BY <1>2, <1>3
<1> DEFINE r == args[k].p
<1>5. r \in Protocols
  BY <1>1, <1>2, InstallableArgs
<1>6. /\ handle \in Handles /\ db[handle][r] = args[k].new /\ db0[handle][r] = None
      /\ <<handle, r>> \notin inUse
  BY <1>1, <1>3 DEF Differs
<1>7. db' = [db EXCEPT ![handle][r] = None]
  BY <1>6 DEF P!Rollback, P!CanRemove, P!Removed
<1>8. /\ db' \in Database
      /\ db'[handle][r] = None
      /\ \A g \in Handles, s \in Protocols : g # handle \/ s # r => db'[g][s] = db[g][s]
  BY <1>2, <1>5, <1>6, <1>7 DEF Database
<1>9. \A j \in Window : args[j].p \in Protocols
  BY <1>1, <1>2, <1>3, InstallableArgs
<1>10. Differs'
  <2>1. ASSUME NEW j \in Window'
        PROVE  /\ db'[handle'][args'[j].p] = args'[j].new
               /\ db0'[handle'][args'[j].p] = None
               /\ <<handle', args'[j].p>> \notin inUse'
    <3>1. j \in Window /\ args[j].p # r /\ args[j].p \in Protocols
      BY <1>1, <1>3, <1>4, <1>9 DEF Differs
    <3> QED BY <1>1, <1>6, <1>8, <3>1 DEF Differs
  <2>2. \A j, l \in Window' : args'[j].p = args'[l].p => j = l
    BY <1>1, <1>4 DEF Differs
  <2>3. ASSUME NEW g \in Handles, NEW s \in Protocols, db'[g][s] # db0'[g][s]
        PROVE  g = handle' /\ \E j \in Window' : args'[j].p = s
    <3>1. g # handle \/ s # r
      BY <1>1, <1>6, <1>8, <2>3
    <3>2. db[g][s] # db0[g][s]
      BY <1>1, <1>8, <2>3, <3>1
    <3>3. g = handle /\ \E j \in Window : args[j].p = s
      BY <1>1, <3>2 DEF Differs
    <3> QED BY <1>1, <1>4, <3>1, <3>3
  <2> QED BY <1>1, <1>6, <2>1, <2>2, <2>3 DEF Differs
<1>11. P!TypeOK'
  BY <1>1, <1>2, <1>8 DEF P!TypeOK, Database
<1>12. \A g \in Handles, s \in Protocols : <<g, s>> \in inUse' => db'[g][s] # None
  BY <1>1, <1>6, <1>8 DEF PInv
<1>13. P!InstallAllOrNothing'
  BY <1>1, <1>11 DEF P!InstallAllOrNothing
<1>14. index' + k' - 1 <= Len(args')
  BY <1>1, <1>2
<1> QED BY <1>1, <1>10, <1>12, <1>13, <1>14 DEF PInv

\* An empty window: the database is the one at the call.
LEMMA EmptyWindow ==
  ASSUME PInv, Differs, Window = {}
  PROVE  db = db0
<1>1. db \in Database /\ db0 \in Database
  BY DEF PInv, P!InstallAllOrNothing, P!TypeOK, Database
<1>2. \A h \in Handles, r \in Protocols : db[h][r] = db0[h][r]
  BY DEF Differs
<1>3. \A h \in Handles : db[h] = db0[h]
  BY <1>1, <1>2 DEF Database
<1> QED BY <1>1, <1>3 DEF Database

\* The ends of the two loops, and Reinstall, which changes nothing.
LEMMA FinishKeeps ==
  ASSUME PInv, P!InstallDone \/ P!RollbackDone \/ P!Reinstall
  PROVE  PInv'
<1>1. /\ pc' = "restore" /\ UNCHANGED <<db, inUse, raised, args, oldHandle, k, index, calls, db0>>
      /\ P!TypeOK
  BY DEF P!InstallDone, P!RollbackDone, P!Reinstall, P!fw, PInv, P!InstallAllOrNothing
<1>2. CASE P!InstallDone
  <2>1. status' = status /\ handle' = handle /\ pc = "install"
    BY <1>2 DEF P!InstallDone
  <2>2. status = "EFI_SUCCESS" /\ Differs /\ Window = 1..index
    BY <2>1 DEF PInv, Window
  <2>3. P!TypeOK'
    BY <1>1, <2>1 DEF P!TypeOK
  <2>4. P!InstallAllOrNothing'
    BY <1>1, <2>1, <2>2, <2>3 DEF P!InstallAllOrNothing, Differs
  <2> QED BY <1>1, <2>4 DEF PInv
<1>3. CASE P!RollbackDone
  <2>1. status' = status /\ handle' = oldHandle /\ pc = "rollback" /\ index = 0
    BY <1>3 DEF P!RollbackDone
  <2>2. status = "EFI_ERROR" /\ Differs
    BY <2>1 DEF PInv
  <2>3. Window = {}
    BY <1>1, <2>1, ArgsType DEF Window
  <2>4. db = db0
    BY <2>2, <2>3, EmptyWindow
  <2>5. P!TypeOK'
    BY <1>1, <2>1 DEF P!TypeOK
  <2>6. P!InstallAllOrNothing'
    BY <1>1, <2>1, <2>2, <2>4, <2>5 DEF P!InstallAllOrNothing
  <2> QED BY <1>1, <2>6 DEF PInv
<1>4. CASE P!Reinstall
  <2>1. status' \in {"EFI_SUCCESS", "EFI_ERROR"} /\ handle' = handle /\ pc = "reinstall"
    BY <1>4 DEF P!Reinstall
  <2>2. index = 0 /\ handle = oldHandle /\ db = db0
    BY <2>1 DEF PInv
  <2>3. P!TypeOK'
    BY <1>1, <2>1 DEF P!TypeOK
  <2>4. P!InstallAllOrNothing'
    BY <1>1, <2>1, <2>2, <2>3 DEF P!InstallAllOrNothing
  <2> QED BY <1>1, <2>4 DEF PInv
<1> QED BY <1>2, <1>3, <1>4

\* Steps that end in, or start from, no function that was being undone.
LEMMA OthersKeep ==
  ASSUME PInv, P!Return \/ P!Uninstall \/ P!UninstallDone
  PROVE  PInv'
<1>1. P!TypeOK
  BY DEF PInv, P!InstallAllOrNothing
<1>2. CASE P!Return
  <2>1. P!TypeOK' /\ pc' = "idle" /\ UNCHANGED <<db, inUse, db0>>
    BY <1>1, <1>2 DEF P!Return, P!TypeOK, P!fw
  <2> QED BY <2>1 DEF PInv, P!InstallAllOrNothing
<1>3. CASE P!UninstallDone
  <2>1. P!TypeOK' /\ pc' = "idle" /\ UNCHANGED <<db, inUse, db0>>
    BY <1>1, <1>3 DEF P!UninstallDone, P!TypeOK, P!fw
  <2> QED BY <2>1 DEF PInv, P!InstallAllOrNothing
<1>4. CASE P!Uninstall
  <2>1. /\ pc' = "uninstall" /\ k <= Len(args) /\ k' = k + 1
        /\ UNCHANGED <<inUse, raised, args, handle, oldHandle, index, status, calls, db0>>
    BY <1>4 DEF P!Uninstall
  <2>2. db \in Database /\ k \in Nat /\ Len(args) \in Nat
    BY <1>1, ArgsType DEF P!TypeOK, Database
  <2> DEFINE r == args[k].p
  <2>3. \/ db' = db
        \/ <<handle, r>> \notin inUse /\ db' = [db EXCEPT ![handle][r] = None]
    BY <1>4 DEF P!Uninstall, P!CanRemove, P!Removed
  <2> HIDE DEF r
  <2>4. db' \in Database
    BY <2>2, <2>3 DEF Database
  <2>5. \A g \in Handles, s \in Protocols : <<g, s>> \in inUse => db'[g][s] = db[g][s]
    BY <2>2, <2>3 DEF Database
  <2>6. P!TypeOK'
    BY <1>1, <1>4, <2>1, <2>2, <2>4 DEF P!Uninstall, P!TypeOK, Database
  <2> QED BY <2>1, <2>5, <2>6 DEF PInv, P!InstallAllOrNothing
<1> QED BY <1>2, <1>3, <1>4

\* Notifications run below TPL_NOTIFY only.
LEMMA NotificationKeeps ==
  ASSUME PInv, NEW h \in Handles, NEW r \in Protocols, P!Notification(h, r)
  PROVE  PInv'
<1>1. /\ ~raised /\ db[h][r] # None
      /\ inUse' \subseteq inUse \union {<<h, r>>}
      /\ UNCHANGED <<db, raised, pc, args, handle, oldHandle, k, index, status, calls, db0>>
  BY DEF P!Notification
<1>2. P!TypeOK'
  BY <1>1 DEF PInv, P!InstallAllOrNothing, P!TypeOK
<1>3. P!InstallAllOrNothing'
  BY <1>1, <1>2 DEF PInv, P!InstallAllOrNothing
<1>4. \A g \in Handles, s \in Protocols : <<g, s>> \in inUse' => db'[g][s] # None
  BY <1>1 DEF PInv
<1> QED BY <1>1, <1>3, <1>4 DEF PInv

LEMMA InterfacesInit == P!Init => PInv
<1> SUFFICES ASSUME P!Init PROVE PInv
  OBVIOUS
<1>1. db \in Database /\ db0 = db
  BY DEF P!Init, P!NoIfaces, Database
<1>2. Len(args) = 0 /\ k = 1 /\ index = 0 /\ args \in ArgLists \union {<<>>}
  BY DEF P!Init
<1>3. k \in 1..(Len(args) + 1) /\ index \in 0..Len(args)
  BY <1>2
<1>4. inUse \subseteq Handles \X Protocols /\ raised \in BOOLEAN /\ calls \in 0..MaxInstalls
  <2>1. inUse = {} /\ raised = FALSE /\ calls = 0
    BY DEF P!Init
  <2>2. 0 \in 0..MaxInstalls
    BY InterfacesAssumption
  <2> QED BY <2>1, <2>2
<1>5. {handle, oldHandle} \subseteq Handles \union {None}
  BY DEF P!Init
<1>6. pc = "idle" /\ status = "EFI_SUCCESS"
  BY DEF P!Init
<1>7. P!TypeOK
  BY <1>1, <1>2, <1>3, <1>4, <1>5, <1>6 DEF P!TypeOK, Database
<1> QED BY <1>1, <1>7 DEF P!Init, PInv, P!InstallAllOrNothing

LEMMA InterfacesNext == ASSUME PInv, P!Next PROVE PInv'
<1>1. ASSUME NEW h \in Handles \union {None}, NEW l \in ArgLists, P!CallInstall(h, l) PROVE PInv'
  BY <1>1, BeginKeeps DEF P!CallInstall
<1>2. ASSUME NEW h \in Handles, NEW l \in ArgLists, P!CallUninstall(h, l) PROVE PInv'
  <2>1. raised' \in BOOLEAN
    BY <1>2 DEF P!CallUninstall, PInv, P!InstallAllOrNothing, P!TypeOK
  <2> QED BY <1>2, <2>1, BeginKeeps DEF P!CallUninstall
<1>3. ASSUME NEW h \in Handles, NEW l \in ArgLists, P!CallReinstall(h, l) PROVE PInv'
  BY <1>3, BeginKeeps DEF P!CallReinstall
<1>4. CASE P!Step
  BY <1>4, InstallLoopKeeps, RollbackKeeps, FinishKeeps, OthersKeep DEF P!Step
<1>5. ASSUME NEW h \in Handles, NEW r \in Protocols, P!Notification(h, r) PROVE PInv'
  BY <1>5, NotificationKeeps
<1> QED BY <1>1, <1>2, <1>3, <1>4, <1>5 DEF P!Next

\* LibInstallProtocolInterfaces returns with every interface of its list
\* installed on *Handle, or with the database and *Handle as they were,
\* whatever fails and whatever notification functions do (hand.c).
THEOREM InstallAllOrNothingHolds == AllSpec => []InstallAllOrNothing
<1>1. AllInit => InterfacesInv
  BY InterfacesInit DEF AllInit, InterfacesInv
<1>2. InterfacesInv /\ [AllNext]_all => InterfacesInv'
  <2> SUFFICES ASSUME InterfacesInv, [AllNext]_all, turn' = "interfaces" PROVE PInv'
    BY DEF InterfacesInv
  <2>1. CASE Interfaces
    BY <2>1, InterfacesNext DEF Interfaces, InterfacesInv
  <2>2. CASE Buffers \/ DevicePaths \/ Notifications \/ Inputs
    BY <2>2 DEF Buffers, DevicePaths, Notifications, Inputs
  <2>3. CASE UNCHANGED all
    BY <2>3 DEF all, shared, pOnly, InterfacesInv, PInv, P!InstallAllOrNothing, P!TypeOK, Differs, Window
  <2> QED BY <2>1, <2>2, <2>3 DEF AllNext
<1>3. InterfacesInv => InstallAllOrNothing
  BY DEF InterfacesInv, PInv, InstallAllOrNothing
<1> QED BY <1>1, <1>2, <1>3, PTL DEF AllSpec

-----------------------------------------------------------------------------
(* GrowBuffer. *)

Elements == DOMAIN PathOf \union Options
Readers == {"LibMemoryMap", "LibGetVariableAndSize", "LibLocateHandle", "LibFileInfo"}
Inserters == {"LibInsertToTailOfBootOrder", "OnlyInsertIfEmpty"}

\* The variables the type invariant says little of.
Typed ==
  /\ G!TypeOK
  /\ bootOrder \in Seq(Elements) /\ other \in Seq(Elements) /\ seen \subseteq Seq(Elements)
  /\ pc # "idle" => content \in Seq(Elements \union {Null})
  /\ option \in Options /\ calls \in 0..MaxCalls
  /\ fn \in Inserters => api = "GetVariable"

\* A boot order grows by at most one element in each call.
Room ==
  /\ Len(other) <= MaxLen /\ Len(bootOrder) + MaxCalls <= MaxLen + calls
  /\ \A v \in seen : Len(v) <= MaxLen
  /\ pc # "idle" /\ fn \in Inserters =>
       /\ 0 < calls /\ Len(bootOrder) + MaxCalls < MaxLen + calls
       /\ \A v \in seen : Len(v) + MaxCalls < MaxLen + calls

\* What the read loop knows of the object and of the buffer, and what is kept
\* of it until the buffer is used.
Reading ==
  /\ pc \in {"grow", "call"} => G!obj \in seen
  /\ pc = "call" => buffer # Null /\ bufferSize = blockSize
  /\ pc = "grow" /\ status = "EFI_SUCCESS" /\ buffer # Null =>
       content \in seen /\ bufferSize = Len(content) /\ bufferSize <= blockSize
  /\ pc = "set" =>
       /\ fn \in Inserters /\ newArray # Null
       /\ buffer # Null => content \in seen
       /\ buffer # Null /\ fn = "OnlyInsertIfEmpty" => content = <<>>
  /\ pc = "scan" => buffer # Null /\ fn = "LibLocateHandleByDiskSignature"
  /\ G!WholeObjectOrNothing

\* Who holds which block.
Holding ==
  /\ G!PoolBalanced
  /\ pc = "idle" => newArray = Null /\ (fn \notin Readers => buffer = Null)
  /\ pc \in {"grow", "call", "finish", "scan"} /\ fn # "InitializeUnicodeSupport" => newArray = Null
  /\ buffer # Null => buffer # newArray
  /\ given \intersect dropped = {}
  /\ ~initialized =>
       /\ pc = "idle" /\ fn = "LibFileInfo" /\ buffer = Null /\ status = "EFI_SUCCESS"
       /\ content = <<>>

GInv == Typed /\ Room /\ Reading /\ Holding /\ G!BootOrderExtended
BuffersInv == turn = "buffers" => GInv
\* Every value an object is given fits.
LEMMA ValueFits ==
  ASSUME NEW v \in Values \union {<<>>}
  PROVE  v \in Seq(Elements) /\ Len(v) \in Nat /\ Len(v) + MaxCalls <= MaxLen
<1>1. v \in Seq(DOMAIN PathOf)
  BY BuffersAssumption, EmptySeq
<1>2. v \in Seq(Elements)
  BY <1>1, SeqMonotonic DEF Elements
<1>3. Len(v) \in Nat
  BY <1>1, LenProperties
<1> QED BY <1>2, <1>3, BuffersAssumption

\* AllocatePool returns null or a block that nobody holds.
LEMMA Allocated ==
  ASSUME NEW F, NEW m \in G!Allocations(F)
  PROVE  m = Null \/ m \in Blocks \ pool \/ m \in F \ {Null}
BY DEF G!Allocations

\* A function starts to read.
LEMMA StartKeeps ==
  ASSUME GInv, NEW f, NEW i, NEW s \in 0..MaxLen, NEW e \in Options,
         f \in Inserters => i = "GetVariable", G!Start(f, i, s, e)
  PROVE  GInv'
<1>1. /\ pc = "idle" /\ initialized /\ calls < MaxCalls /\ calls' = calls + 1
      /\ fn' = f /\ api' = i /\ option' = e /\ status' = "EFI_SUCCESS" /\ buffer' = Null
      /\ bufferSize' = s /\ blockSize' = 0 /\ content' = <<>> /\ bootOrder' = bootOrder
      /\ other' = other \/ other' \in Values \union {<<>>}
      /\ seen' = {G!obj'} /\ pc' = "grow"
      /\ UNCHANGED <<pool, newArray, initialized, given, dropped>>
  BY DEF G!Start, G!search
<1>2. newArray = Null /\ pool = given \union dropped /\ given \intersect dropped = {}
  BY <1>1 DEF GInv, Holding, G!PoolBalanced, Readers
<1>3. /\ other' \in Seq(Elements) /\ Len(other') <= MaxLen
      /\ bootOrder' \in Seq(Elements) /\ Len(bootOrder') + MaxCalls < MaxLen + calls'
      /\ Len(bootOrder') \in Nat /\ calls' \in 1..MaxCalls /\ MaxLen \in Nat
  <2>1. other' \in Seq(Elements) /\ Len(other') <= MaxLen
    BY <1>1, ValueFits, BuffersAssumption DEF GInv, Typed, Room
  <2>2. bootOrder \in Seq(Elements) /\ calls \in 0..MaxCalls /\ Len(bootOrder) + MaxCalls <= MaxLen + calls
    BY DEF GInv, Typed, Room
  <2>3. Len(bootOrder) \in Nat
    BY <2>2, LenProperties
  <2> QED BY <1>1, <2>1, <2>2, <2>3, BuffersAssumption
<1>4. /\ G!obj' \in Seq(Elements) /\ Len(G!obj') <= MaxLen
      /\ f \in Inserters => Len(G!obj') + MaxCalls < MaxLen + calls'
  BY <1>1, <1>3, BuffersAssumption DEF G!obj
<1>5. content' \in Seq(Elements \union {Null}) /\ Len(content') = 0
  BY <1>1, EmptySeq
<1>6. G!TypeOK'
  BY <1>1, <1>2, <1>3, <1>5, BuffersAssumption DEF G!TypeOK, GInv, Typed
<1>7. Typed'
  BY <1>1, <1>3, <1>4, <1>5, <1>6 DEF Typed
<1>8. Room'
  BY <1>1, <1>3, <1>4, BuffersAssumption DEF Room
<1>9. Reading' /\ G!BootOrderExtended'
  BY <1>1 DEF Reading, G!WholeObjectOrNothing, G!BootOrderExtended
<1>10. Holding'
  BY <1>1, <1>2, <1>6 DEF Holding, G!PoolBalanced
<1> QED BY <1>7, <1>8, <1>9, <1>10 DEF GInv

\* InitializeLib's first call.
LEMMA InitializeLibKeeps ==
  ASSUME GInv, NEW image \in BOOLEAN, G!InitializeLib(image)
  PROVE  GInv'
<1>1. /\ ~initialized /\ initialized' = TRUE
      /\ UNCHANGED <<bootOrder, pool, status, buffer, blockSize, content, newArray, given, dropped, option, calls>>
  BY DEF G!InitializeLib, G!request
<1>2. /\ pc = "idle" /\ fn = "LibFileInfo" /\ buffer = Null /\ status = "EFI_SUCCESS"
      /\ content = <<>> /\ newArray = Null /\ pool = given \union dropped
  BY <1>1 DEF GInv, Holding, G!PoolBalanced
<1>3. CASE ~image
  <2>1. UNCHANGED <<pc, fn, api, other, seen, bufferSize>>
    BY <1>3 DEF G!InitializeLib, G!request
  <2>2. Typed' /\ Room' /\ G!BootOrderExtended'
    BY <1>1, <2>1 DEF GInv, Typed, Room, G!TypeOK, G!BootOrderExtended
  <2>3. Reading'
    BY <1>1, <1>2, <2>1 DEF GInv, Reading, G!WholeObjectOrNothing
  <2>4. Holding'
    BY <1>1, <1>2, <2>1, <2>2 DEF GInv, Holding, Typed, G!PoolBalanced
  <2> QED BY <2>2, <2>3, <2>4 DEF GInv
<1>4. CASE image
  <2>1. /\ pc' = "grow" /\ fn' = "InitializeLib" /\ api' = "GetLanguage" /\ bufferSize' = GuessedSize
        /\ other' \in Values \union {<<>>} /\ seen' = {other'}
    BY <1>4 DEF G!InitializeLib
  <2>2. other' \in Seq(Elements) /\ Len(other') <= MaxLen
    BY <2>1, ValueFits, BuffersAssumption
  <2>3. content' \in Seq(Elements \union {Null}) /\ Len(content') = 0
    BY <1>1, <1>2, EmptySeq
  <2>4. Typed'
    BY <1>1, <2>1, <2>2, <2>3, BuffersAssumption DEF GInv, Typed, G!TypeOK, Inserters
  <2>5. Room'
    BY <1>1, <2>1, <2>2 DEF GInv, Room, Inserters
  <2>6. Reading' /\ G!BootOrderExtended'
    BY <1>1, <1>2, <2>1 DEF Reading, G!WholeObjectOrNothing, G!BootOrderExtended, G!obj
  <2>7. Holding'
    BY <1>1, <1>2, <2>1, <2>4 DEF GInv, Holding, Typed, G!PoolBalanced
  <2> QED BY <2>4, <2>5, <2>6, <2>7 DEF GInv
<1> QED BY <1>3, <1>4
\* Others change the object.
LEMMA ChangeKeeps ==
  ASSUME GInv, NEW v \in Values \union {<<>>}, G!Change(v)
  PROVE  GInv'
<1>1. /\ pc # "idle" /\ seen' = seen \union {v}
      /\ \/ api = "GetVariable" /\ bootOrder' = v /\ other' = other
         \/ api # "GetVariable" /\ other' = v /\ bootOrder' = bootOrder
      /\ UNCHANGED <<pool, pc, fn, api, option, calls, status, buffer, bufferSize, blockSize, content,
                     newArray, initialized, given, dropped>>
  BY DEF G!Change, G!request, G!loop, G!search
<1>2. v \in Seq(Elements) /\ Len(v) \in Nat /\ Len(v) + MaxCalls <= MaxLen
  BY ValueFits
<1>3. calls \in 0..MaxCalls /\ MaxLen \in Nat /\ MaxCalls \in Nat
  BY BuffersAssumption DEF GInv, Typed
<1>4. Typed'
  BY <1>1, <1>2, <1>3 DEF GInv, Typed, G!TypeOK
<1>5. Room'
  BY <1>1, <1>2, <1>3 DEF GInv, Room
<1>6. Reading' /\ G!BootOrderExtended'
  BY <1>1 DEF GInv, Reading, G!WholeObjectOrNothing, G!Size, G!BootOrderExtended, G!obj
<1>7. Holding'
  BY <1>1, <1>4 DEF GInv, Holding, Typed, G!PoolBalanced
<1> QED BY <1>4, <1>5, <1>6, <1>7 DEF GInv

\* GrowBuffer allocates the size needed.
LEMMA GrowAllocates ==
  ASSUME GInv, G!GrowBuffer, buffer = Null \/ status = "EFI_BUFFER_TOO_SMALL"
  PROVE  GInv'
<1>1. PICK m \in G!Allocations({buffer}) :
        /\ pool' = (pool \ {buffer}) \union ({m} \ {Null})
        /\ buffer' = m
        /\ G!MapMayChange(m)
        /\ status' = IF m = Null THEN "EFI_OUT_OF_RESOURCES" ELSE "EFI_BUFFER_TOO_SMALL"
        /\ pc' = IF m = Null THEN "finish" ELSE "call"
  BY DEF G!GrowBuffer
<1>2. /\ pc = "grow" /\ blockSize' = bufferSize /\ content' = <<>> /\ seen' = seen \union {G!obj'}
      /\ UNCHANGED <<bootOrder, fn, api, option, calls, bufferSize, newArray, initialized, given, dropped>>
  BY DEF G!GrowBuffer, G!request, G!search
<1>3. other' = other \/ (api # "GetVariable" /\ other' \in Values)
  BY <1>1 DEF G!MapMayChange
<1>4. other' \in Seq(Elements) /\ Len(other') <= MaxLen
  BY <1>3, ValueFits, BuffersAssumption DEF GInv, Typed, Room
<1>5. G!obj' \in Seq(Elements) /\ Len(G!obj') <= MaxLen /\ (api = "GetVariable" => G!obj' = bootOrder)
  <2>1. G!obj \in seen /\ (api = "GetVariable" => G!obj = bootOrder)
    BY <1>2 DEF GInv, Reading, G!obj
  <2>2. bootOrder \in Seq(Elements) /\ (api = "GetVariable" => Len(bootOrder) <= MaxLen)
    BY <2>1 DEF GInv, Typed, Room
  <2> QED BY <1>2, <1>4, <2>2 DEF G!obj
<1>6. content' \in Seq(Elements \union {Null}) /\ Len(content') = 0
  BY <1>2, EmptySeq
<1>7. m = Null \/ m \in Blocks \ pool \/ m = buffer
  BY Allocated
<1>8. buffer \in Blocks \union {Null}
  BY DEF GInv, Typed, G!TypeOK
<1>9. Typed'
  BY <1>1, <1>2, <1>4, <1>5, <1>6, <1>7, <1>8, BuffersAssumption DEF GInv, Typed, G!TypeOK, G!Errors
<1>10. Room'
  BY <1>1, <1>2, <1>4, <1>5 DEF GInv, Room, Typed
<1>11. Reading' /\ G!BootOrderExtended'
  BY <1>1, <1>2 DEF Reading, G!WholeObjectOrNothing, G!BootOrderExtended, G!IsError
<1>12. Holding'
  <2>1. /\ pool = ({buffer, newArray} \ {Null}) \union given \union dropped
        /\ ({buffer, newArray} \ {Null}) \intersect (given \union dropped) = {}
    BY <1>2 DEF GInv, Holding, G!PoolBalanced
  <2>2. buffer # Null => buffer # newArray
    BY DEF GInv, Holding
  <2>3. /\ pool' = ({buffer', newArray'} \ {Null}) \union given' \union dropped'
        /\ ({buffer', newArray'} \ {Null}) \intersect (given' \union dropped') = {}
    <3>1. Null \notin pool /\ Null \notin given \union dropped
      BY BuffersAssumption DEF GInv, Typed, G!TypeOK
    <3>2. pool \ {buffer} = ({newArray} \ {Null}) \union given \union dropped
      BY <2>1, <2>2, <3>1
    <3>3. m # Null => m \notin given \union dropped
      BY <1>7, <2>1
    <3> QED BY <1>1, <1>2, <2>1, <3>2, <3>3
  <2>4. buffer' # Null => buffer' # newArray'
    BY <1>1, <1>2, <1>7, <2>1, <2>2
  <2>5. pc' \in {"finish", "call"} /\ initialized
    BY <1>1, <1>2 DEF GInv, Holding
  <2>6. G!PoolBalanced'
    BY <1>9, <2>3, <2>5 DEF G!PoolBalanced, Typed
  <2> QED BY <1>2, <2>4, <2>5, <2>6 DEF GInv, Holding
<1> QED BY <1>9, <1>10, <1>11, <1>12 DEF GInv

\* ... or stops.
LEMMA GrowStops ==
  ASSUME GInv, G!GrowBuffer, ~(buffer = Null \/ status = "EFI_BUFFER_TOO_SMALL")
  PROVE  GInv'
<1>1. /\ pc = "grow" /\ buffer # Null /\ pc' = "finish"
      /\ pool' = IF G!IsError(status) THEN pool \ {buffer} ELSE pool
      /\ buffer' = IF G!IsError(status) THEN Null ELSE buffer
      /\ UNCHANGED <<bootOrder, fn, api, option, calls, other, status, bufferSize, blockSize, content, seen,
                     newArray, initialized, given, dropped>>
  BY DEF G!GrowBuffer, G!request, G!search
<1>2. Typed'
  BY <1>1 DEF GInv, Typed, G!TypeOK
<1>3. Room'
  BY <1>1 DEF GInv, Room
<1>4. Reading' /\ G!BootOrderExtended'
  BY <1>1 DEF GInv, Reading, G!WholeObjectOrNothing, G!Size, G!BootOrderExtended, G!IsError
<1>5. Holding'
  BY <1>1, <1>2 DEF GInv, Holding, G!PoolBalanced, Typed
<1> QED BY <1>2, <1>3, <1>4, <1>5 DEF GInv

\* The firmware fills the buffer or says what size it needs.
LEMMA CallKeeps == ASSUME GInv, G!CallInterface PROVE GInv'
<1>1. /\ pc = "call" /\ pc' = "grow"
      /\ UNCHANGED <<bootOrder, other, pool, fn, api, option, calls, buffer, blockSize, newArray,
                     initialized, given, dropped, seen>>
  BY DEF G!CallInterface, G!fw, G!request, G!search
<1>2. G!obj \in seen /\ G!obj' = G!obj /\ bufferSize = blockSize
  BY <1>1 DEF GInv, Reading, G!obj
<1>3. G!obj \in Seq(Elements) /\ Len(G!obj) <= MaxLen /\ Len(G!obj) \in Nat
  BY <1>2, LenProperties DEF GInv, Typed, Room
<1>4. \/ /\ bufferSize' = Len(G!obj) /\ Len(G!obj) <= bufferSize
         /\ status' = "EFI_SUCCESS" /\ content' = G!obj
      \/ /\ bufferSize' \in {Len(G!obj), bufferSize} /\ status' \in G!Errors /\ content' = content
  BY DEF G!CallInterface, G!Errors
<1>5. content' \in Seq(Elements \union {Null}) /\ Len(content') <= MaxLen
  <2>1. G!obj \in Seq(Elements \union {Null})
    BY <1>3, SeqMonotonic
  <2> QED BY <1>1, <1>3, <1>4, <2>1 DEF GInv, Typed, G!TypeOK
<1>6. Typed'
  BY <1>1, <1>3, <1>4, <1>5, BuffersAssumption DEF GInv, Typed, G!TypeOK, G!Errors
<1>7. Room'
  BY <1>1 DEF GInv, Room
<1>8. Reading' /\ G!BootOrderExtended'
  BY <1>1, <1>2, <1>4 DEF Reading, G!WholeObjectOrNothing, G!BootOrderExtended, G!Errors
<1>9. Holding'
  BY <1>1, <1>6 DEF GInv, Holding, G!PoolBalanced, Typed
<1> QED BY <1>6, <1>7, <1>8, <1>9 DEF GInv
\* While a function runs, what is allocated is what it and the callers hold.
LEMMA RunningHolds ==
  ASSUME GInv, pc # "idle"
  PROVE  /\ pool = ({buffer, newArray} \ {Null}) \union given \union dropped
         /\ ({buffer, newArray} \ {Null}) \intersect (given \union dropped) = {}
         /\ Null \notin given \union dropped /\ initialized
BY BuffersAssumption DEF GInv, Holding, G!PoolBalanced, Typed, G!TypeOK

\* The readers return the buffer.
LEMMA ReturnKeeps == ASSUME GInv, G!ReturnBuffer PROVE GInv'
<1>1. /\ pc = "finish" /\ fn \in Readers /\ pc' = "idle"
      /\ given' = given \union ({buffer} \ {Null})
      /\ UNCHANGED <<bootOrder, other, pool, fn, api, option, calls, status, buffer, bufferSize, blockSize,
                     content, newArray, initialized, dropped, seen>>
  BY DEF G!ReturnBuffer, Readers, G!fw, G!request, G!loop, G!search
<1>2. Typed'
  BY <1>1 DEF GInv, Typed, G!TypeOK
<1>3. Room'
  BY <1>1 DEF GInv, Room
<1>4. Reading' /\ G!BootOrderExtended'
  BY <1>1 DEF GInv, Reading, G!WholeObjectOrNothing, G!BootOrderExtended, Readers
<1>5. Holding'
  <2>1. newArray = Null /\ given \intersect dropped = {}
    BY <1>1 DEF GInv, Holding, Readers
  <2>2. pool' = given' \union dropped' /\ given' \intersect dropped' = {}
    BY <1>1, <2>1, RunningHolds
  <2> QED BY <1>1, <1>2, <2>1, <2>2, RunningHolds DEF GInv, Holding, G!PoolBalanced, Typed, Readers
<1> QED BY <1>2, <1>3, <1>4, <1>5 DEF GInv

\* ... and their callers free it.
LEMMA FreeKeeps == ASSUME GInv, NEW m \in Blocks, G!FreeResult(m) PROVE GInv'
<1>1. /\ pc = "idle" /\ m \in given /\ given' = given \ {m} /\ pool' = pool \ {m}
      /\ UNCHANGED <<bootOrder, other, pc, fn, api, option, calls, status, buffer, bufferSize, blockSize,
                     content, newArray, initialized, dropped, seen>>
  BY DEF G!FreeResult, G!fw, G!request, G!loop, G!search
<1>2. Typed'
  BY <1>1 DEF GInv, Typed, G!TypeOK
<1>3. Room'
  BY <1>1 DEF GInv, Room
<1>4. Reading' /\ G!BootOrderExtended'
  BY <1>1 DEF GInv, Reading, G!WholeObjectOrNothing, G!BootOrderExtended
<1>5. Holding'
  <2>1. pool = given \union dropped /\ given \intersect dropped = {} /\ newArray = Null
    BY <1>1 DEF GInv, Holding, G!PoolBalanced, Readers
  <2>2. pool' = given' \union dropped' /\ given' \intersect dropped' = {}
    BY <1>1, <2>1
  <2> QED BY <1>1, <1>2, <2>1, <2>2 DEF GInv, Holding, G!PoolBalanced, Typed, Readers
<1> QED BY <1>2, <1>3, <1>4, <1>5 DEF GInv

\* What a function leaves that frees all it holds when it returns, and writes
\* at most an object that fits.
LEMMA FinishedKeeps ==
  ASSUME GInv, pc # "idle", pc' = "idle", fn' = fn,
         bootOrder' \in {bootOrder, <<>>},
         status' \in G!Errors \union {"EFI_SUCCESS", "EFI_UNSUPPORTED"},
         fn \in Inserters => status' # "EFI_SUCCESS",
         pool' = pool \ {buffer, newArray}, buffer' = Null, newArray' = Null,
         bufferSize' \in {0, bufferSize}, blockSize' \in {0, blockSize}, seen' \in {{}, seen},
         UNCHANGED <<other, api, option, calls, initialized, given, dropped>>
  PROVE  GInv'
<1>1. pool' = given \union dropped /\ initialized
  BY RunningHolds
<1>2. bootOrder' \in Seq(Elements) /\ Len(bootOrder') \in Nat
  BY EmptySeq, LenProperties DEF GInv, Typed
<1>3. Len(bootOrder') + MaxCalls <= MaxLen + calls
  BY EmptySeq, ValueFits, BuffersAssumption DEF GInv, Typed, Room
<1>4. Len(bootOrder') <= MaxLen
  BY <1>2, <1>3, BuffersAssumption DEF GInv, Typed
<1>5. Typed'
  BY <1>1, <1>2, <1>4, BuffersAssumption DEF GInv, Typed, G!TypeOK
<1>6. Room'
  BY <1>3 DEF GInv, Room
<1>7. Reading'
  BY DEF Reading, G!WholeObjectOrNothing
<1>8. Holding'
  BY <1>1, <1>5 DEF GInv, Holding, G!PoolBalanced, Typed
<1>9. G!BootOrderExtended'
  BY DEF G!BootOrderExtended, Inserters
<1> QED BY <1>5, <1>6, <1>7, <1>8, <1>9 DEF GInv

\* The functions that only look at the object.
LEMMA FindKeeps == ASSUME GInv, G!FindProtocol PROVE GInv'
<1>1. /\ pc = "finish" /\ fn = "LibLocateProtocol" /\ pc' = "idle"
      /\ status' \in {status, "EFI_SUCCESS", "EFI_UNSUPPORTED"}
      /\ pool' = pool \ {buffer} /\ buffer' = Null
      /\ UNCHANGED <<bootOrder, other, fn, api, option, calls, bufferSize, blockSize, newArray, initialized,
                     given, dropped, seen>>
  BY DEF G!FindProtocol, G!fw, G!request, G!search
<1>2. newArray = Null /\ Null \notin pool /\ status \in G!Errors \union {"EFI_SUCCESS", "EFI_UNSUPPORTED"}
  BY <1>1, BuffersAssumption DEF GInv, Holding, Typed, G!TypeOK
<1>3. pool' = pool \ {buffer, newArray} /\ newArray' = Null
  BY <1>1, <1>2
<1> QED BY <1>1, <1>2, <1>3, FinishedKeeps DEF Inserters

LEMMA DeleteKeeps == ASSUME GInv, G!DeleteVariable PROVE GInv'
<1>1. /\ pc = "finish" /\ fn = "LibDeleteVariable" /\ pc' = "idle"
      /\ bootOrder' \in {bootOrder, <<>>}
      /\ status' \in {"EFI_NOT_FOUND", "EFI_SUCCESS", "EFI_DEVICE_ERROR"}
      /\ buffer' = Null /\ (buffer = Null => pool' = pool) /\ (buffer # Null => pool' = pool \ {buffer})
      /\ UNCHANGED <<other, fn, api, option, calls, bufferSize, blockSize, newArray, initialized, given,
                     dropped, seen>>
  BY DEF G!DeleteVariable, G!request, G!search
<1>2. newArray = Null /\ Null \notin pool
  BY <1>1, BuffersAssumption DEF GInv, Holding, Typed, G!TypeOK
<1>3. pool' = pool \ {buffer, newArray} /\ newArray' = Null
  BY <1>1, <1>2
<1> QED BY <1>1, <1>3, FinishedKeeps DEF Inserters, G!Errors

LEMMA ChooseKeeps == ASSUME GInv, G!ChooseCollation PROVE GInv'
<1>1. /\ pc = "finish" /\ fn = "InitializeUnicodeSupport" /\ pc' = "idle"
      /\ pool' = pool \ {buffer, newArray} /\ newArray' = Null /\ buffer' = Null
      /\ status' = "EFI_SUCCESS" /\ bufferSize' = 0 /\ blockSize' = 0 /\ seen' = {}
      /\ UNCHANGED <<bootOrder, other, fn, api, option, calls, initialized, given, dropped>>
  BY DEF G!ChooseCollation, G!fw, G!request
<1> QED BY <1>1, FinishedKeeps DEF Inserters
\* LibInsertToTailOfBootOrder refuses, or allocates the new array.
LEMMA InsertAllocateKeeps == ASSUME GInv, G!InsertAllocate PROVE GInv'
<1>1. /\ pc = "finish" /\ fn \in Inserters
      /\ UNCHANGED <<bootOrder, other, fn, api, option, calls, bufferSize, blockSize, content, initialized,
                     given, seen>>
  BY DEF G!InsertAllocate, Inserters, G!fw, G!request, G!search
<1>2. newArray = Null /\ Null \notin pool
  BY <1>1, BuffersAssumption DEF GInv, Holding, Typed, G!TypeOK, Inserters
<1>3. CASE G!Size # 0 /\ fn = "OnlyInsertIfEmpty"
  <2>1. /\ pool' = pool \ {buffer} /\ buffer' = Null /\ status' = "EFI_UNSUPPORTED" /\ pc' = "idle"
        /\ UNCHANGED <<newArray, dropped>>
    BY <1>3 DEF G!InsertAllocate
  <2>2. pool' = pool \ {buffer, newArray} /\ newArray' = Null
    BY <1>2, <2>1
  <2> QED BY <1>1, <2>1, <2>2, FinishedKeeps
<1>4. ASSUME NEW m \in G!Allocations({}),
             G!Size = 0 \/ fn = "LibInsertToTailOfBootOrder",
             newArray' = m, pool' = pool \union ({m} \ {Null}),
             IF m = Null
               THEN /\ status' = "EFI_OUT_OF_RESOURCES" /\ pc' = "idle"
                    /\ dropped' = dropped \union ({buffer} \ {Null})
                    /\ buffer' = Null
               ELSE pc' = "set" /\ UNCHANGED <<status, dropped, buffer>>
      PROVE  GInv'
  <2>1. m = Null \/ m \in Blocks \ pool
    BY Allocated
  <2>2. Typed'
    BY <1>1, <1>4, <2>1 DEF GInv, Typed, G!TypeOK, G!Errors
  <2>3. Room'
    BY <1>1, <1>4 DEF GInv, Room
  <2>4. Reading'
    <3>1. buffer # Null => content \in seen /\ G!Size = Len(content) /\ content \in Seq(Elements)
      BY <1>1 DEF GInv, Reading, G!WholeObjectOrNothing, Typed
    <3>2. buffer # Null /\ fn = "OnlyInsertIfEmpty" => content = <<>>
      BY <1>4, <3>1, EmptySeq
    <3> QED BY <1>1, <1>4, <3>1, <3>2 DEF Reading, G!WholeObjectOrNothing
  <2>5. Holding'
    <3>1. given \intersect dropped = {}
      BY DEF GInv, Holding
    <3>2. CASE m = Null
      <4>1. pool' = given' \union dropped' /\ given' \intersect dropped' = {}
        BY <1>1, <1>2, <1>4, <3>1, <3>2, RunningHolds
      <4> QED BY <1>1, <1>4, <2>2, <3>2, <4>1, RunningHolds
              DEF Holding, G!PoolBalanced, Typed, Inserters, Readers
    <3>3. CASE m # Null
      <4>1. /\ pool' = ({buffer', newArray'} \ {Null}) \union given' \union dropped'
            /\ ({buffer', newArray'} \ {Null}) \intersect (given' \union dropped') = {}
            /\ buffer' # Null => buffer' # newArray'
        BY <1>1, <1>2, <1>4, <2>1, <3>3, RunningHolds
      <4> QED BY <1>1, <1>4, <2>2, <3>1, <3>3, <4>1, RunningHolds DEF Holding, G!PoolBalanced, Typed
    <3> QED BY <3>2, <3>3
  <2>6. G!BootOrderExtended'
    BY <1>4 DEF G!BootOrderExtended
  <2> QED BY <2>2, <2>3, <2>4, <2>5, <2>6 DEF GInv
<1> QED BY <1>3, <1>4 DEF G!InsertAllocate

\* ... writes it, and frees both arrays.
LEMMA InsertSetKeeps == ASSUME GInv, G!InsertSet PROVE GInv'
<1>1. /\ pc = "set" /\ pc' = "idle" /\ pool' = pool \ {newArray, buffer}
      /\ newArray' = Null /\ buffer' = Null
      /\ UNCHANGED <<other, fn, api, option, calls, bufferSize, blockSize, content, initialized, given,
                     dropped, seen>>
  BY DEF G!InsertSet, G!request, G!search
<1>2. CASE bootOrder' = bootOrder /\ status' = "EFI_DEVICE_ERROR"
  <2>1. pool' = pool \ {buffer, newArray}
    BY <1>1
  <2> QED BY <1>1, <1>2, <2>1, FinishedKeeps DEF G!Errors
<1>3. CASE bootOrder' = Append(IF buffer = Null THEN <<>> ELSE content, option) /\ status' = "EFI_SUCCESS"
  <2> DEFINE before == IF buffer = Null THEN <<>> ELSE content
  <2>1. fn \in Inserters /\ before \in seen \union {<<>>} /\ (fn = "OnlyInsertIfEmpty" => before = <<>>)
    BY <1>1 DEF GInv, Reading
  <2>2. before \in Seq(Elements) /\ Len(before) \in Nat /\ option \in Elements
    BY <2>1, EmptySeq, LenProperties DEF GInv, Typed, Elements
  <2>3. Len(before) + MaxCalls < MaxLen + calls /\ calls \in 0..MaxCalls
    <3>1. /\ 0 < calls /\ calls \in 0..MaxCalls
          /\ \A v \in seen : Len(v) + MaxCalls < MaxLen + calls
      BY <1>1, <2>1 DEF GInv, Room, Typed
    <3>2. Len(<<>>) + MaxCalls <= MaxLen /\ Len(<<>>) = 0
      BY BuffersAssumption, ValueFits
    <3>3. Len(<<>>) + MaxCalls < MaxLen + calls
      BY <3>1, <3>2, BuffersAssumption
    <3> QED BY <2>1, <3>1, <3>3
  <2> HIDE DEF before
  <2>4. bootOrder' = Append(before, option)
    BY <1>3 DEF before
  <2>5. /\ bootOrder' \in Seq(Elements) /\ Len(bootOrder') = Len(before) + 1
        /\ bootOrder'[Len(bootOrder')] = option
        /\ \A i \in 1..Len(before) : bootOrder'[i] = before[i]
    BY <2>2, <2>4, AppendProperties
  <2>6. bootOrder' # <<>>
    BY <2>2, <2>5, EmptySeq
  <2>7. SubSeq(bootOrder', 1, Len(bootOrder') - 1) = before
    BY <2>2, <2>4, <2>5
  <2>8. Len(bootOrder') + MaxCalls <= MaxLen + calls /\ Len(bootOrder') <= MaxLen
    BY <2>2, <2>3, <2>5, BuffersAssumption
  <2>9. Typed'
    BY <1>1, <1>3, <2>5, <2>8 DEF GInv, Typed, G!TypeOK
  <2>10. Room'
    BY <1>1, <2>8 DEF GInv, Room
  <2>11. Reading'
    BY <1>1 DEF Reading, G!WholeObjectOrNothing
  <2>12. Holding'
    <3>1. pool' = given' \union dropped' /\ given' \intersect dropped' = {} /\ initialized'
      BY <1>1, RunningHolds DEF GInv, Holding
    <3> QED BY <1>1, <2>9, <3>1 DEF Holding, G!PoolBalanced, Typed
  <2>13. G!BootOrderExtended'
    <3>1. fn' = "OnlyInsertIfEmpty" => Len(bootOrder') = 1
      BY <1>1, <2>1, <2>5, EmptySeq
    <3> QED BY <1>1, <2>1, <2>5, <2>6, <2>7, <3>1 DEF G!BootOrderExtended
  <2> QED BY <2>9, <2>10, <2>11, <2>12, <2>13 DEF GInv
<1> QED BY <1>2, <1>3 DEF G!InsertSet
\* LibLocateHandleByDiskSignature looks at its handles.
LEMMA ScanStartKeeps == ASSUME GInv, G!ScanStart PROVE GInv'
<1>1. /\ pc = "finish" /\ fn = "LibLocateHandleByDiskSignature"
      /\ pc' = IF buffer = Null THEN "idle" ELSE "scan"
      /\ UNCHANGED <<bootOrder, other, pool, fn, api, option, calls, status, buffer, bufferSize, blockSize,
                     content, newArray, initialized, given, dropped, seen>>
  BY DEF G!ScanStart, G!fw, G!request, G!loop
<1>2. Typed'
  BY <1>1 DEF GInv, Typed, G!TypeOK
<1>3. Room'
  BY <1>1 DEF GInv, Room
<1>4. Reading' /\ G!BootOrderExtended'
  BY <1>1 DEF Reading, G!WholeObjectOrNothing, G!BootOrderExtended
<1>5. Holding'
  BY <1>1, <1>2 DEF GInv, Holding, G!PoolBalanced, Typed
<1> QED BY <1>2, <1>3, <1>4, <1>5 DEF GInv

LEMMA ScanHandleKeeps == ASSUME GInv, G!ScanHandle PROVE GInv'
<1>1. /\ pc = "scan" /\ content' \in {content, [content EXCEPT ![scan.index] = Null]}
      /\ UNCHANGED <<bootOrder, other, pool, pc, fn, api, option, calls, status, buffer, bufferSize, blockSize,
                     newArray, initialized, given, dropped, seen>>
  BY DEF G!ScanHandle, G!fw, G!request
<1>2. content \in Seq(Elements \union {Null}) /\ Len(content) <= MaxLen
  BY <1>1 DEF GInv, Typed, G!TypeOK
<1>3. content' \in Seq(Elements \union {Null}) /\ Len(content') <= MaxLen
  <2>1. CASE scan.index \in 1..Len(content)
    BY <1>1, <1>2, <2>1, ExceptSeq
  <2>2. CASE scan.index \notin 1..Len(content)
    <3>1. content \in [1..Len(content) -> Elements \union {Null}]
      BY <1>2, LenProperties
    <3>2. [content EXCEPT ![scan.index] = Null] = content
      BY <2>2, <3>1
    <3> QED BY <1>1, <1>2, <3>2
  <2> QED BY <2>1, <2>2
<1>4. Typed'
  BY <1>1, <1>3 DEF GInv, Typed, G!TypeOK
<1>5. Room'
  BY <1>1 DEF GInv, Room
<1>6. Reading' /\ G!BootOrderExtended'
  BY <1>1 DEF GInv, Reading, G!WholeObjectOrNothing, G!BootOrderExtended
<1>7. Holding'
  <2>1. initialized
    BY <1>1, RunningHolds
  <2> QED BY <1>1, <1>4, <2>1 DEF GInv, Holding, G!PoolBalanced, Typed
<1> QED BY <1>4, <1>5, <1>6, <1>7 DEF GInv

LEMMA ScanReturnKeeps == ASSUME GInv, G!ScanReturn PROVE GInv'
<1>1. /\ pc = "scan" /\ buffer' = Null /\ pc' = "idle"
      /\ UNCHANGED <<bootOrder, other, fn, api, option, calls, bufferSize, blockSize, newArray, initialized,
                     dropped, seen>>
  BY DEF G!ScanReturn, G!fw, G!request, G!search
<1>2. newArray = Null /\ fn \notin Inserters /\ given \intersect dropped = {}
      /\ buffer \notin given \union dropped
  <2>1. buffer # Null /\ fn = "LibLocateHandleByDiskSignature"
    BY <1>1 DEF GInv, Reading
  <2>2. newArray = Null
    BY <1>1, <2>1 DEF GInv, Holding
  <2> QED BY <1>1, <2>1, <2>2, RunningHolds DEF GInv, Holding, Inserters
<1>3. \E m \in {Null} \union (Blocks \ pool) :
        /\ pool' = (pool \ {buffer}) \union ({m} \ {Null})
        /\ given' = given \union ({m} \ {Null})
        /\ status' \in {"EFI_OUT_OF_RESOURCES", "EFI_SUCCESS"}
  <2>1. CASE pool' = pool \ {buffer} /\ given' = given /\ status' = "EFI_SUCCESS"
    BY <2>1
  <2>2. ASSUME NEW m \in G!Allocations({}),
               pool' = (pool \ {buffer}) \union ({m} \ {Null}),
               given' = given \union ({m} \ {Null}),
               status' = IF m = Null THEN "EFI_OUT_OF_RESOURCES" ELSE "EFI_SUCCESS"
        PROVE  m \in {Null} \union (Blocks \ pool) /\ status' \in {"EFI_OUT_OF_RESOURCES", "EFI_SUCCESS"}
    BY <2>2, Allocated
  <2> QED BY <2>1, <2>2 DEF G!ScanReturn
<1>4. PICK m \in {Null} \union (Blocks \ pool) :
        /\ pool' = (pool \ {buffer}) \union ({m} \ {Null})
        /\ given' = given \union ({m} \ {Null})
        /\ status' \in {"EFI_OUT_OF_RESOURCES", "EFI_SUCCESS"}
  BY <1>3
<1>5. Typed'
  BY <1>1, <1>2, <1>4 DEF GInv, Typed, G!TypeOK, G!Errors
<1>6. Room'
  BY <1>1 DEF GInv, Room
<1>7. Reading' /\ G!BootOrderExtended'
  BY <1>1, <1>2 DEF Reading, G!WholeObjectOrNothing, G!BootOrderExtended, Inserters
<1>8. Holding'
  <2>1. pool' = given' \union dropped' /\ given' \intersect dropped' = {} /\ initialized'
    BY <1>1, <1>2, <1>4, RunningHolds
  <2> QED BY <1>1, <1>2, <1>5, <2>1 DEF Holding, G!PoolBalanced, Typed
<1> QED BY <1>5, <1>6, <1>7, <1>8 DEF GInv

\* InitializeLib reads the handles of the drivers, and keeps the language.
LEMMA UnicodeKeeps == ASSUME GInv, G!InitializeUnicodeSupport PROVE GInv'
<1>1. /\ pc = "finish" /\ fn = "InitializeLib" /\ newArray' = buffer
      /\ fn' = "InitializeUnicodeSupport" /\ api' = "LocateHandle"
      /\ status' = "EFI_SUCCESS" /\ buffer' = Null
      /\ bufferSize' = GuessedSize /\ blockSize' = 0 /\ content' = <<>>
      /\ other' \in Values \union {<<>>} /\ seen' = {other'} /\ pc' = "grow"
      /\ UNCHANGED <<bootOrder, option, calls, pool, initialized, given, dropped>>
  BY DEF G!InitializeUnicodeSupport, G!search
<1>2. other' \in Seq(Elements) /\ Len(other') <= MaxLen
  BY <1>1, ValueFits, BuffersAssumption
<1>3. content' \in Seq(Elements \union {Null}) /\ Len(content') = 0
  BY <1>1, EmptySeq
<1>4. Typed'
  BY <1>1, <1>2, <1>3, BuffersAssumption DEF GInv, Typed, G!TypeOK, Inserters
<1>5. Room'
  BY <1>1, <1>2 DEF GInv, Room, Inserters
<1>6. Reading' /\ G!BootOrderExtended'
  BY <1>1 DEF Reading, G!WholeObjectOrNothing, G!BootOrderExtended, G!obj
<1>7. Holding'
  <2>1. newArray = Null
    BY <1>1 DEF GInv, Holding
  <2>2. /\ pool' = ({buffer', newArray'} \ {Null}) \union given' \union dropped'
        /\ ({buffer', newArray'} \ {Null}) \intersect (given' \union dropped') = {}
    BY <1>1, <2>1, RunningHolds
  <2> QED BY <1>1, <1>4, <2>2, RunningHolds DEF GInv, Holding, G!PoolBalanced, Typed
<1> QED BY <1>4, <1>5, <1>6, <1>7 DEF GInv

LEMMA BuffersInit == G!Init => GInv
<1> SUFFICES ASSUME G!Init PROVE GInv
  OBVIOUS
<1>1. /\ bootOrder \in Values \union {<<>>} /\ other = <<>> /\ pool = {} /\ pc = "idle"
      /\ fn = "LibFileInfo" /\ api = "GetInfo" /\ option \in Options /\ status = "EFI_SUCCESS"
      /\ buffer = Null /\ bufferSize = 0 /\ blockSize = 0 /\ content = <<>> /\ newArray = Null
      /\ initialized = FALSE /\ given = {} /\ dropped = {} /\ seen = {} /\ calls = 0
  BY DEF G!Init
<1>2. /\ bootOrder \in Seq(Elements) /\ Len(bootOrder) \in Nat /\ Len(bootOrder) + MaxCalls <= MaxLen
      /\ other \in Seq(Elements) /\ Len(other) = 0
  BY <1>1, ValueFits, EmptySeq
<1>3. Typed /\ Room
  BY <1>1, <1>2, BuffersAssumption DEF Typed, Room, G!TypeOK, Inserters
<1>4. Reading /\ G!BootOrderExtended
  BY <1>1 DEF Reading, G!WholeObjectOrNothing, G!BootOrderExtended
<1>5. Holding
  BY <1>1, <1>3 DEF Holding, G!PoolBalanced, Typed
<1> QED BY <1>3, <1>4, <1>5 DEF GInv

LEMMA BuffersNext == ASSUME GInv, G!Next PROVE GInv'
<1>1. GuessedSize \in 0..MaxLen /\ 1 \in 0..MaxLen /\ option \in Options
  BY BuffersAssumption DEF GInv, Typed
<1>2. CASE \/ G!LibMemoryMap \/ G!LibLocateHandle \/ G!LibFileInfo \/ G!LibGetVariableAndSize
           \/ G!LibDeleteVariable \/ G!LibLocateProtocol \/ G!LibLocateHandleByDiskSignature
  BY <1>1, <1>2, StartKeeps
     DEF G!LibMemoryMap, G!LibLocateHandle, G!LibFileInfo, G!LibGetVariableAndSize, G!LibDeleteVariable,
         G!LibLocateProtocol, G!LibLocateHandleByDiskSignature, Inserters
<1>3. ASSUME NEW e \in Options, NEW only \in BOOLEAN, G!LibInsertToTailOfBootOrder(e, only) PROVE GInv'
  BY <1>1, <1>3, StartKeeps DEF G!LibInsertToTailOfBootOrder
<1>4. CASE G!Step
  <2>1. G!GrowBuffer => GInv'
    BY GrowAllocates, GrowStops
  <2> QED BY <1>4, <2>1, CallKeeps, ReturnKeeps, FindKeeps, DeleteKeeps, InsertAllocateKeeps, InsertSetKeeps,
             ScanStartKeeps, ScanHandleKeeps, ScanReturnKeeps, UnicodeKeeps, ChooseKeeps DEF G!Step
<1> QED BY <1>2, <1>3, <1>4, InitializeLibKeeps, FreeKeeps, ChangeKeeps DEF G!Next

LEMMA BuffersStutter == ASSUME GInv, UNCHANGED <<shared, gOnly>> PROVE GInv'
<1>1. Typed'
  BY DEF GInv, shared, gOnly, Typed, G!TypeOK
<1>2. Room' /\ Reading' /\ G!BootOrderExtended'
  BY DEF GInv, shared, gOnly, Room, Reading, G!WholeObjectOrNothing, G!Size, G!obj, G!BootOrderExtended
<1>3. Holding'
  BY <1>1 DEF GInv, shared, gOnly, Typed, Holding, G!PoolBalanced
<1> QED BY <1>1, <1>2, <1>3 DEF GInv

\* Whatever fails and however the objects change between the calls, a function
\* of misc.c, hand.c or init.c that reads an object with GrowBuffer has the
\* whole object or nothing, loses no block but the old boot order, frees none
\* twice, and puts a boot option behind an order that was there.
THEOREM BuffersWholeHolds == AllSpec => []BuffersWhole
<1>1. AllInit => BuffersInv
  BY BuffersInit DEF AllInit, BuffersInv
<1>2. BuffersInv /\ [AllNext]_all => BuffersInv'
  <2> SUFFICES ASSUME BuffersInv, [AllNext]_all, turn' = "buffers" PROVE GInv'
    BY DEF BuffersInv
  <2>1. CASE Buffers
    BY <2>1, BuffersNext DEF Buffers, BuffersInv
  <2>2. CASE Interfaces \/ DevicePaths \/ Notifications \/ Inputs
    BY <2>2 DEF Interfaces, DevicePaths, Notifications, Inputs
  <2>3. CASE UNCHANGED all
    BY <2>3, BuffersStutter DEF all, BuffersInv
  <2> QED BY <2>1, <2>2, <2>3 DEF AllNext
<1>3. BuffersInv => BuffersWhole
  BY DEF BuffersInv, GInv, Reading, Holding, BuffersWhole
<1> QED BY <1>1, <1>2, <1>3, PTL DEF AllSpec

-----------------------------------------------------------------------------
(* ConsoleInput. *)

\* A set of numbers has a least one: induction without a predicate parameter.
LEMMA Least ==
  ASSUME NEW W \in SUBSET Nat, W # {}
  PROVE  \E u \in W: \A v \in W: u <= v
<1>1. PICK u \in W: \A v \in W: ~(<<v, u>> \in OpToRel(<, Nat))
  BY NatLessThanWellFounded, WFMin
<1>2. \A v \in W: ~(v < u)
  BY <1>1 DEF OpToRel
<1>3. u \in Nat
  BY <1>1
<1>4. ASSUME NEW v \in W PROVE u <= v
  <2>1. v \in Nat /\ ~(v < u)
    BY <1>2
  <2> QED BY <1>3, <2>1
<1> QED BY <1>1, <1>4

\* f gives the line after each of the keys.
Lines(f, keys, n) ==
  f = [j \in 0..Len(keys) |-> IF j = 0 THEN <<>> ELSE C!Keyed(f[j - 1], keys[j], n)]

LEMMA EditedIs ==
  ASSUME NEW keys, NEW n PROVE C!Edited(keys, n) = (CHOOSE f: Lines(f, keys, n))[Len(keys)]
BY DEF C!Edited, Lines

\* There is at most one such function.
LEMMA LinesUnique ==
  ASSUME NEW keys, NEW n, Len(keys) \in Nat, NEW f, NEW g, Lines(f, keys, n), Lines(g, keys, n)
  PROVE  f = g
<1> DEFINE W == {j \in 0..Len(keys): f[j] # g[j]}
<1>1. DOMAIN f = 0..Len(keys) /\ DOMAIN g = 0..Len(keys)
  BY DEF Lines
<1>2. f = [j \in DOMAIN f |-> f[j]] /\ g = [j \in DOMAIN g |-> g[j]]
  BY DEF Lines
<1>3. SUFFICES ASSUME W # {} PROVE FALSE
  BY <1>1, <1>2
<1>4. W \in SUBSET Nat
  OBVIOUS
<1>5. PICK j \in W: \A l \in W: j <= l
  <2> HIDE DEF W
  <2> QED BY <1>3, <1>4, Least
<1>6. j \in 0..Len(keys) /\ f[j] # g[j]
  BY <1>5
<1>7. /\ f[j] = IF j = 0 THEN <<>> ELSE C!Keyed(f[j - 1], keys[j], n)
      /\ g[j] = IF j = 0 THEN <<>> ELSE C!Keyed(g[j - 1], keys[j], n)
  BY <1>6 DEF Lines
<1>8. j # 0
  BY <1>6, <1>7
<1>9. j - 1 \in 0..Len(keys) /\ j - 1 \notin W
  <2>1. j - 1 \in 0..Len(keys) /\ ~(j <= j - 1)
    BY <1>6, <1>8
  <2>2. j - 1 \notin W
    <3> HIDE DEF W
    <3> QED BY <1>5, <2>1
  <2> QED BY <2>1, <2>2
<1>10. f[j - 1] = g[j - 1]
  BY <1>9
<1> QED BY <1>6, <1>7, <1>8, <1>10

\* One more key: the line after it is the line before it with the key.
LEMMA EditedAppend ==
  ASSUME NEW S, NEW keys \in Seq(S), NEW n, NEW x0 \in S, NEW f, Lines(f, keys, n)
  PROVE  /\ C!Edited(Append(keys, x0), n) = C!Keyed(C!Edited(keys, n), x0, n)
         /\ \E g: Lines(g, Append(keys, x0), n)
<1> DEFINE more == Append(keys, x0)
           m == Len(keys)
           g == [j \in 0..(m + 1) |-> IF j <= m THEN f[j] ELSE C!Keyed(f[m], x0, n)]
<1>1. /\ m \in Nat /\ Len(more) = m + 1 /\ more[m + 1] = x0
      /\ \A j \in 1..m: more[j] = keys[j]
  BY AppendProperties, LenProperties
<1> HIDE DEF more, m
<1>2. \A j \in 0..m: f[j] = IF j = 0 THEN <<>> ELSE C!Keyed(f[j - 1], keys[j], n)
  BY DEF Lines, m
<1>3. Lines(g, more, n)
  <2>1. ASSUME NEW j \in 0..(m + 1)
        PROVE  g[j] = IF j = 0 THEN <<>> ELSE C!Keyed(g[j - 1], more[j], n)
    <3>1. CASE j = 0
      BY <1>1, <1>2, <3>1
    <3>2. CASE j \in 1..m
      <4>1. g[j] = f[j] /\ g[j - 1] = f[j - 1] /\ more[j] = keys[j]
        BY <1>1, <3>2
      <4>2. f[j] = C!Keyed(f[j - 1], keys[j], n)
        BY <1>1, <1>2, <3>2
      <4> HIDE DEF g
      <4> QED BY <1>1, <3>2, <4>1, <4>2
    <3>3. CASE j = m + 1
      <4>1. g[j] = C!Keyed(f[m], x0, n) /\ g[j - 1] = f[m] /\ more[j] = x0
        BY <1>1, <3>3
      <4> HIDE DEF g
      <4> QED BY <1>1, <3>3, <4>1
    <3> QED BY <1>1, <3>1, <3>2, <3>3
  <2>2. DOMAIN g = 0..(m + 1) /\ g = [j \in 0..(m + 1) |-> g[j]]
    OBVIOUS
  <2> HIDE DEF g
  <2> QED BY <1>1, <2>1, <2>2 DEF Lines
<1> HIDE DEF g
<1>4. (CHOOSE h: Lines(h, keys, n)) = f
  <2>1. Lines(CHOOSE h: Lines(h, keys, n), keys, n)
    BY Zenon
  <2> QED BY <1>1, <2>1, LinesUnique DEF m
<1>5. (CHOOSE h: Lines(h, more, n)) = g
  <2>1. Lines(CHOOSE h: Lines(h, more, n), more, n)
    BY <1>3, Zenon
  <2>2. Len(more) \in Nat
    BY <1>1
  <2> QED BY <1>3, <2>1, <2>2, LinesUnique
<1>6. C!Edited(more, n) = g[m + 1] /\ C!Edited(keys, n) = f[m]
  BY <1>1, <1>4, <1>5, EditedIs DEF m
<1>7. g[m + 1] = C!Keyed(f[m], x0, n)
  BY <1>1 DEF g
<1>8. C!Edited(more, n) = C!Keyed(C!Edited(keys, n), x0, n)
  BY <1>6, <1>7
<1> QED BY <1>3, <1>8 DEF more

LEMMA EditedNothing ==
  ASSUME NEW n PROVE C!Edited(<<>>, n) = <<>> /\ \E f: Lines(f, <<>>, n)
<1> DEFINE f == [j \in 0..0 |-> <<>>]
<1>1. Len(<<>>) = 0
  OBVIOUS
<1>2. Lines(f, <<>>, n)
  BY <1>1 DEF Lines
<1> HIDE DEF f
<1>3. (CHOOSE h: Lines(h, <<>>, n)) = f
  <2>1. Lines(CHOOSE h: Lines(h, <<>>, n), <<>>, n)
    BY <1>2, Zenon
  <2> QED BY <1>1, <1>2, <2>1, LinesUnique
<1>4. f[0] = <<>>
  BY DEF f
<1> QED BY <1>1, <1>2, <1>3, <1>4, EditedIs

\* While IInput runs, and when it has returned: the line is what the keys read
\* so far make, on the screen too; the keys are such that Edited is defined.
LineInv ==
  kfn = "IInput" =>
    /\ screen = inStr /\ inStr = C!Edited(readKeys, strLen - 1)
    /\ readKeys \in Seq(C!Keys) /\ \E f: Lines(f, readKeys, strLen - 1)
    /\ end \in Int /\ end < strLen
    /\ kpc = "idle" => end = Len(inStr)

CInv == C!TypeOK /\ C!TimersClosed /\ LineInv

LEMMA InputInit == C!Init => CInv
<1> SUFFICES ASSUME C!Init PROVE CInv
  OBVIOUS
<1>1. strLen \in Lengths /\ strLen \in Nat \ {0} /\ Len(<<>>) = 0
  BY ConsoleAssumption DEF C!Init
<1>2. C!TypeOK
  BY <1>1, ConsoleAssumption DEF C!Init, C!TypeOK
<1> QED BY <1>2 DEF C!Init, CInv, C!TimersClosed, LineInv

\* A key arrives, is taken by another reader, or the timer expires.
LEMMA KeyboardKeeps ==
  ASSUME CInv, (\E l \in C!Keys: C!Type(l)) \/ C!Steal \/ C!Expire
  PROVE  CInv'
<1>1. C!TypeOK /\ C!TimersClosed /\ LineInv
  BY DEF CInv
<1>2. UNCHANGED <<kpc, kfn, timeout, wait, strLen, inStr, end, screen, readKeys>>
  BY DEF C!Type, C!Steal, C!Expire, C!line
<1>3. LineInv'
  BY <1>1, <1>2 DEF LineInv
<1>4. CASE \E l \in C!Keys: C!Type(l)
  <2>1. PICK l \in C!Keys: C!Type(l)
    BY <1>4
  <2>2. queue' \in Seq(C!Keys) /\ typed' \in 0..MaxKeys /\ UNCHANGED <<steals, timer>>
    BY <1>1, <2>1, AppendProperties, ConsoleAssumption DEF C!Type, C!TypeOK
  <2> QED BY <1>1, <1>2, <1>3, <2>2 DEF CInv, C!TypeOK, C!TimersClosed
<1>5. CASE C!Steal
  <2>1. queue' \in Seq(C!Keys) /\ steals' \in 0..MaxSteals /\ UNCHANGED <<typed, timer>>
    BY <1>1, <1>5, HeadTailProperties, ConsoleAssumption DEF C!Steal, C!TypeOK
  <2> QED BY <1>1, <1>2, <1>3, <2>1 DEF CInv, C!TypeOK, C!TimersClosed
<1>6. CASE C!Expire
  <2>1. timer = "set" /\ timer' = "expired" /\ UNCHANGED <<queue, typed, steals>>
    BY <1>6 DEF C!Expire, C!env
  <2> QED BY <1>1, <1>2, <1>3, <2>1 DEF CInv, C!TypeOK, C!TimersClosed
<1> QED BY <1>4, <1>5, <1>6

LEMMA CallsKeep ==
  ASSUME CInv,
         \/ \E n \in Lengths: C!CallInput(n)
         \/ C!CallPause
         \/ \E t \in Timeouts: C!CallWaitForEventWithTimeout(t)
  PROVE  CInv'
<1>1. C!TypeOK /\ C!TimersClosed /\ kpc = "idle"
  BY DEF CInv, C!CallInput, C!CallPause, C!CallWaitForEventWithTimeout
<1>2. CASE \E n \in Lengths: C!CallInput(n)
  <2>1. PICK n \in Lengths: C!CallInput(n)
    BY <1>2
  <2>2. n \in Nat \ {0}
    BY ConsoleAssumption
  <2>3. C!TypeOK' /\ C!TimersClosed'
    BY <1>1, <2>1, <2>2 DEF C!CallInput, C!TypeOK, C!TimersClosed, C!env
  <2>4. LineInv'
    <3>1. /\ screen' = <<>> /\ inStr' = <<>> /\ readKeys' = <<>> /\ end' = -1 /\ strLen' = n /\ kpc' = "wait"
      BY <2>1 DEF C!CallInput
    <3>2. C!Edited(<<>>, n - 1) = <<>> /\ \E f: Lines(f, <<>>, n - 1)
      BY EditedNothing
    <3>3. C!Edited(readKeys, strLen - 1)' = C!Edited(readKeys', strLen' - 1)
      BY DEF C!Edited, C!Keyed, C!Front
    <3> QED BY <2>2, <3>1, <3>2, <3>3 DEF LineInv, Lines, C!Keyed, C!Front
  <2> QED BY <2>3, <2>4 DEF CInv
<1>3. CASE C!CallPause
  BY <1>1, <1>3 DEF CInv, C!CallPause, C!TypeOK, C!TimersClosed, LineInv, C!env, C!line
<1>4. CASE \E t \in Timeouts: C!CallWaitForEventWithTimeout(t)
  BY <1>1, <1>4 DEF CInv, C!CallWaitForEventWithTimeout, C!TypeOK, C!TimersClosed, LineInv, C!env, C!line
<1> QED BY <1>2, <1>3, <1>4

\* Waiting, and the two callers that do not touch the line.
LEMMA WaitKeeps ==
  ASSUME CInv, C!CreateTimer \/ C!WaitForEvent \/ C!Pause \/ C!WaitForEventWithTimeout
  PROVE  CInv'
<1>1. C!TypeOK /\ C!TimersClosed /\ LineInv
  BY DEF CInv
<1>2. UNCHANGED <<typed, steals, kfn, timeout, strLen, inStr, end, screen, readKeys>>
  BY DEF C!CreateTimer, C!WaitForEvent, C!Pause, C!WaitForEventWithTimeout, C!env, C!line
<1>3. CASE C!CreateTimer
  <2>1. kpc' \in {"wait", "read"} /\ UNCHANGED queue /\ ((timer' = "set" /\ kpc' = "wait") \/ (timer' = timer /\ timer = "none"))
    BY <1>1, <1>3 DEF C!CreateTimer, C!env, C!TimersClosed
  <2> QED BY <1>1, <1>2, <2>1 DEF CInv, C!TypeOK, C!TimersClosed, LineInv
<1>4. CASE C!WaitForEvent
  <2>1. kpc' = "read" /\ timer' = "none" /\ UNCHANGED queue
    BY <1>4 DEF C!WaitForEvent, C!env
  <2> QED BY <1>1, <1>2, <2>1 DEF CInv, C!TypeOK, C!TimersClosed, LineInv
<1>5. CASE C!Pause \/ C!WaitForEventWithTimeout
  <2>1. /\ kfn # "IInput" /\ kpc = "read" /\ kpc' \in {"idle", "createTimer"} /\ UNCHANGED timer
        /\ queue' = queue \/ (queue # <<>> /\ queue' = Tail(queue))
    BY <1>5 DEF C!Pause, C!WaitForEventWithTimeout
  <2>2. queue' \in Seq(C!Keys)
    BY <1>1, <2>1, HeadTailProperties DEF C!TypeOK
  <2> QED BY <1>1, <1>2, <2>1, <2>2 DEF CInv, C!TypeOK, C!TimersClosed, LineInv
<1> QED BY <1>3, <1>4, <1>5

\* The line after one more key is Edited's.
LEMMA EditIsKeyed ==
  ASSUME CInv, kfn = "IInput", NEW l \in C!Keys, C!Edit(l)
  PROVE  /\ inStr' = C!Keyed(inStr, l, strLen - 1) /\ screen' = inStr' /\ kpc' = "wait"
         /\ inStr' \in Seq(Chars) /\ Len(inStr') < strLen /\ end' \in Int /\ end' < strLen
<1>1. /\ inStr \in Seq(Chars) /\ Len(inStr) \in Nat /\ Len(inStr) < strLen /\ screen = inStr
      /\ end \in Int /\ end < strLen /\ strLen \in Nat \ {0} /\ Backspace \notin Chars
  BY ConsoleAssumption, LenProperties DEF CInv, LineInv, C!TypeOK
<1>2. CASE l = Backspace /\ inStr # <<>>
  <2>1. inStr' = C!Front(inStr) /\ screen' = C!Front(screen) /\ UNCHANGED end /\ kpc' = "wait"
    BY <1>1, <1>2 DEF C!Edit
  <2>2. C!Front(inStr) \in Seq(Chars) /\ Len(C!Front(inStr)) < strLen
    BY <1>1, <1>2 DEF C!Front
  <2> QED BY <1>1, <1>2, <2>1, <2>2 DEF C!Keyed
<1>3. CASE l \in Chars /\ C!HasRoom(Len(inStr))
  <2>1. l # Backspace
    BY <1>1, <1>3
  <2>2. inStr' = Append(inStr, l) /\ screen' = Append(screen, l) /\ end' = Len(inStr) + 1 /\ kpc' = "wait"
    BY <1>3, <2>1 DEF C!Edit
  <2>3. Append(inStr, l) \in Seq(Chars) /\ Len(Append(inStr, l)) = Len(inStr) + 1
    BY <1>1, <1>3, AppendProperties
  <2>4. Len(inStr) < strLen - 1
    BY <1>3 DEF C!HasRoom
  <2> QED BY <1>1, <1>3, <2>1, <2>2, <2>3, <2>4 DEF C!Keyed
<1>4. CASE ~(l = Backspace /\ inStr # <<>>) /\ ~(l \in Chars /\ C!HasRoom(Len(inStr)))
  <2>1. UNCHANGED <<inStr, end, screen>> /\ kpc' = "wait"
    BY <1>4 DEF C!Edit
  <2>2. C!Keyed(inStr, l, strLen - 1) = inStr
    BY <1>4 DEF C!Keyed, C!HasRoom
  <2> QED BY <1>1, <2>1, <2>2
<1> QED BY <1>2, <1>3, <1>4

LEMMA IInputKeeps == ASSUME CInv, C!IInput PROVE CInv'
<1>1. /\ C!TypeOK /\ kfn = "IInput" /\ kpc = "read" /\ timer = "none"
      /\ screen = inStr /\ inStr = C!Edited(readKeys, strLen - 1) /\ readKeys \in Seq(C!Keys)
      /\ UNCHANGED <<typed, steals, kfn, timeout, timer, wait, strLen>>
  BY DEF CInv, LineInv, C!TimersClosed, C!IInput
<1>2. PICK f: Lines(f, readKeys, strLen - 1)
  BY <1>1 DEF CInv, LineInv
<1>3. /\ inStr \in Seq(Chars) /\ Len(inStr) \in Nat /\ Len(inStr) < strLen /\ strLen \in Nat \ {0}
      /\ queue \in Seq(C!Keys)
  BY <1>1, ConsoleAssumption, LenProperties DEF C!TypeOK
<1>4. \A keys, n: /\ C!Edited(keys, n)' = C!Edited(keys, n)
                  /\ \A g: Lines(g, keys, n)' <=> Lines(g, keys, n)
  BY DEF C!Edited, C!Keyed, C!Front, Lines
<1>5. CASE queue = <<>>
  <2>1. end' = Len(inStr) /\ kpc' = "idle" /\ UNCHANGED <<inStr, screen, queue, readKeys>>
    BY <1>5 DEF C!IInput, C!Finish
  <2>2. C!TypeOK' /\ C!TimersClosed'
    BY <1>1, <2>1 DEF C!TypeOK, C!TimersClosed
  <2>3. LineInv'
    BY <1>1, <1>2, <1>3, <1>4, <2>1 DEF LineInv
  <2> QED BY <2>2, <2>3 DEF CInv
<1>6. CASE queue # <<>>
  <2> DEFINE l == Head(queue)
  <2>1. /\ l \in C!Keys /\ queue' = Tail(queue) /\ queue' \in Seq(C!Keys)
        /\ readKeys' = Append(readKeys, l)
    BY <1>3, <1>6, HeadTailProperties DEF C!IInput
  <2> HIDE DEF l
  <2>2. /\ readKeys' \in Seq(C!Keys) /\ \E g: Lines(g, readKeys', strLen - 1)
        /\ C!Edited(readKeys', strLen - 1) = C!Keyed(inStr, l, strLen - 1)
    BY <1>1, <1>2, <2>1, AppendProperties, EditedAppend
  <2>3. /\ inStr' = C!Keyed(inStr, l, strLen - 1) /\ screen' = inStr'
        /\ inStr' \in Seq(Chars) /\ Len(inStr') < strLen /\ end' \in Int /\ end' < strLen
        /\ kpc' \in {"idle", "wait"} /\ (kpc' = "idle" => end' = Len(inStr'))
    <3>1. CASE l = Enter
      <4>1. end' = Len(inStr) /\ kpc' = "idle" /\ UNCHANGED <<inStr, screen>>
        BY <1>6, <3>1 DEF C!IInput, C!Finish, l
      <4>2. C!Keyed(inStr, l, strLen - 1) = inStr
        BY <3>1, ConsoleAssumption DEF C!Keyed
      <4> QED BY <1>1, <1>3, <4>1, <4>2
    <3>2. CASE l # Enter
      <4>1. C!Edit(l)
        BY <1>6, <3>2 DEF C!IInput, l
      <4> QED BY <1>1, <2>1, <4>1, EditIsKeyed
    <3> QED BY <3>1, <3>2
  <2>4. C!TypeOK' /\ C!TimersClosed'
    BY <1>1, <2>1, <2>3 DEF C!TypeOK, C!TimersClosed
  <2>5. LineInv'
    BY <1>1, <1>4, <2>2, <2>3 DEF LineInv
  <2> QED BY <2>4, <2>5 DEF CInv
<1> QED BY <1>5, <1>6

InputInv == turn = "input" => CInv

\* IInput's line, the screen and the keys agree at every key, for buffers of
\* any length and keys in any order, also when another reader takes one; the
\* string is ended inside of its buffer, and no timer is left open (console.c,
\* event.c).
THEOREM LineAsTypedHolds == AllSpec => []LineAsTyped
<1>1. AllInit => InputInv
  BY InputInit DEF AllInit, InputInv
<1>2. InputInv /\ [AllNext]_all => InputInv'
  <2> SUFFICES ASSUME InputInv, [AllNext]_all, turn' = "input" PROVE CInv'
    BY DEF InputInv
  <2>1. CASE Inputs
    <3>1. CInv /\ C!Next
      BY <2>1 DEF Inputs, InputInv
    <3> QED BY <3>1, KeyboardKeeps, CallsKeep, WaitKeeps, IInputKeeps DEF C!Next, C!Step
  <2>2. CASE Buffers \/ Interfaces \/ DevicePaths \/ Notifications
    BY <2>2 DEF Buffers, Interfaces, DevicePaths, Notifications
  <2>3. CASE UNCHANGED all
    <3>1. CInv /\ UNCHANGED cVars
      BY <2>3 DEF all, InputInv
    <3>2. \A keys, n: /\ C!Edited(keys, n)' = C!Edited(keys, n)
                      /\ \A g: Lines(g, keys, n)' <=> Lines(g, keys, n)
      BY DEF C!Edited, C!Keyed, C!Front, Lines
    <3> QED BY <3>1, <3>2 DEF cVars, CInv, LineInv, C!TypeOK, C!TimersClosed
  <2> QED BY <2>1, <2>2, <2>3 DEF AllNext
<1>3. InputInv => LineAsTyped
  BY DEF InputInv, CInv, LineInv, LineAsTyped, C!LineTerminated, C!ShowsWhatItHolds
<1> QED BY <1>1, <1>2, <1>3, PTL DEF AllSpec

-----------------------------------------------------------------------------
(* LibLocateHandleByDiskSignature. *)

\* f gives what is left of each prefix of s.
Kept(f, s, S) ==
  f = [j \in 0..Len(s) |->
         IF j = 0 THEN <<>> ELSE IF s[j] \in S THEN f[j - 1] ELSE Append(f[j - 1], s[j])]

LEMMA WithoutIs ==
  ASSUME NEW s, NEW S PROVE G!Without(s, S) = (CHOOSE f: Kept(f, s, S))[Len(s)]
BY DEF G!Without, Kept

LEMMA KeptUnique ==
  ASSUME NEW s, NEW S, Len(s) \in Nat, NEW f, NEW g, Kept(f, s, S), Kept(g, s, S)
  PROVE  f = g
<1> DEFINE W == {j \in 0..Len(s): f[j] # g[j]}
<1>1. DOMAIN f = 0..Len(s) /\ DOMAIN g = 0..Len(s)
  BY DEF Kept
<1>2. f = [j \in DOMAIN f |-> f[j]] /\ g = [j \in DOMAIN g |-> g[j]]
  BY DEF Kept
<1>3. SUFFICES ASSUME W # {} PROVE FALSE
  BY <1>1, <1>2
<1>4. W \in SUBSET Nat
  OBVIOUS
<1>5. PICK j \in W: \A l \in W: j <= l
  <2> HIDE DEF W
  <2> QED BY <1>3, <1>4, Least
<1>6. j \in 0..Len(s) /\ f[j] # g[j]
  BY <1>5
<1>7. /\ f[j] = IF j = 0 THEN <<>> ELSE IF s[j] \in S THEN f[j - 1] ELSE Append(f[j - 1], s[j])
      /\ g[j] = IF j = 0 THEN <<>> ELSE IF s[j] \in S THEN g[j - 1] ELSE Append(g[j - 1], s[j])
  BY <1>6 DEF Kept
<1>8. j # 0
  BY <1>6, <1>7
<1>9. j - 1 \in 0..Len(s) /\ j - 1 \notin W
  <2>1. j - 1 \in 0..Len(s) /\ ~(j <= j - 1)
    BY <1>6, <1>8
  <2>2. j - 1 \notin W
    <3> HIDE DEF W
    <3> QED BY <1>5, <2>1
  <2> QED BY <2>1, <2>2
<1>10. f[j - 1] = g[j - 1]
  BY <1>9
<1> QED BY <1>6, <1>7, <1>8, <1>10

\* One more element, given the function for those before it.
LEMMA KeptAppend ==
  ASSUME NEW T, NEW s \in Seq(T), NEW S, NEW x0 \in T, NEW f, Kept(f, s, S)
  PROVE  /\ G!Without(Append(s, x0), S) =
              IF x0 \in S THEN G!Without(s, S) ELSE Append(G!Without(s, S), x0)
         /\ \E g: Kept(g, Append(s, x0), S)
<1> DEFINE more == Append(s, x0)
           m == Len(s)
           last == IF x0 \in S THEN f[m] ELSE Append(f[m], x0)
           g == [j \in 0..(m + 1) |-> IF j <= m THEN f[j] ELSE last]
<1>1. /\ m \in Nat /\ Len(more) = m + 1 /\ more[m + 1] = x0
      /\ \A j \in 1..m: more[j] = s[j]
  BY AppendProperties, LenProperties
<1> HIDE DEF more, m
<1>2. \A j \in 0..m:
        f[j] = IF j = 0 THEN <<>> ELSE IF s[j] \in S THEN f[j - 1] ELSE Append(f[j - 1], s[j])
  BY DEF Kept, m
<1>3. Kept(g, more, S)
  <2>1. ASSUME NEW j \in 0..(m + 1)
        PROVE  g[j] = IF j = 0 THEN <<>> ELSE IF more[j] \in S THEN g[j - 1] ELSE Append(g[j - 1], more[j])
    <3>1. CASE j = 0
      BY <1>1, <1>2, <3>1
    <3>2. CASE j \in 1..m
      <4>1. g[j] = f[j] /\ g[j - 1] = f[j - 1] /\ more[j] = s[j]
        BY <1>1, <3>2
      <4>2. f[j] = IF s[j] \in S THEN f[j - 1] ELSE Append(f[j - 1], s[j])
        BY <1>1, <1>2, <3>2
      <4> HIDE DEF g
      <4> QED BY <1>1, <3>2, <4>1, <4>2
    <3>3. CASE j = m + 1
      <4>1. g[j] = last /\ g[j - 1] = f[m] /\ more[j] = x0
        BY <1>1, <3>3
      <4> HIDE DEF g
      <4> QED BY <1>1, <3>3, <4>1
    <3> QED BY <1>1, <3>1, <3>2, <3>3
  <2>2. DOMAIN g = 0..(m + 1) /\ g = [j \in 0..(m + 1) |-> g[j]]
    OBVIOUS
  <2> HIDE DEF g
  <2> QED BY <1>1, <2>1, <2>2 DEF Kept
<1>7. g[m + 1] = last
  BY <1>1
<1> HIDE DEF g
<1>4. (CHOOSE h: Kept(h, s, S)) = f
  <2>1. Kept(CHOOSE h: Kept(h, s, S), s, S)
    BY Zenon
  <2> QED BY <1>1, <2>1, KeptUnique DEF m
<1>5. (CHOOSE h: Kept(h, more, S)) = g
  <2>1. Kept(CHOOSE h: Kept(h, more, S), more, S)
    BY <1>3, Zenon
  <2>2. Len(more) \in Nat
    BY <1>1
  <2> QED BY <1>3, <2>1, <2>2, KeptUnique
<1>6. G!Without(more, S) = g[m + 1] /\ G!Without(s, S) = f[m]
  BY <1>1, <1>4, <1>5, WithoutIs DEF m
<1> QED BY <1>3, <1>6, <1>7 DEF more

LEMMA WithoutNothing ==
  ASSUME NEW S PROVE G!Without(<<>>, S) = <<>> /\ \E f: Kept(f, <<>>, S)
<1> DEFINE f == [j \in 0..0 |-> <<>>]
<1>1. Len(<<>>) = 0
  OBVIOUS
<1>2. Kept(f, <<>>, S)
  BY <1>1 DEF Kept
<1> HIDE DEF f
<1>3. (CHOOSE h: Kept(h, <<>>, S)) = f
  <2>1. Kept(CHOOSE h: Kept(h, <<>>, S), <<>>, S)
    BY <1>2, Zenon
  <2> QED BY <1>1, <1>2, <2>1, KeptUnique
<1>4. f[0] = <<>>
  BY DEF f
<1> QED BY <1>1, <1>2, <1>3, <1>4, WithoutIs

Prefixes(s) == [j \in 0..Len(s) |-> SubSeq(s, 1, j)]

\* A prefix is the next shorter one and an element.
LEMMA PrefixStep ==
  ASSUME NEW T, NEW s \in Seq(T)
  PROVE  /\ Len(s) \in Nat /\ Prefixes(s)[0] = <<>> /\ Prefixes(s)[Len(s)] = s
         /\ \A j \in 1..Len(s):
              /\ s[j] \in T /\ Prefixes(s)[j - 1] \in Seq(T)
              /\ Prefixes(s)[j] = Append(Prefixes(s)[j - 1], s[j])
<1>1. Len(s) \in Nat
  BY LenProperties
<1>2. Prefixes(s)[0] = <<>> /\ Prefixes(s)[Len(s)] = s
  <2>1. SubSeq(s, 1, Len(s)) = s /\ SubSeq(s, 1, 0) = <<>>
    BY SubSeqFull, SubSeqEmpty
  <2>2. 0 \in 0..Len(s) /\ Len(s) \in 0..Len(s)
    BY <1>1
  <2> QED BY <2>1, <2>2, Zenon DEF Prefixes
<1>3. ASSUME NEW j \in 1..Len(s)
      PROVE  /\ s[j] \in T /\ Prefixes(s)[j - 1] \in Seq(T)
             /\ Prefixes(s)[j] = Append(Prefixes(s)[j - 1], s[j])
  <2>1. s[j] \in T /\ j \in Nat /\ j - 1 \in Nat /\ j \in 0..Len(s) /\ j - 1 \in 0..Len(s)
    BY <1>1, ElementOfSeq
  <2>2. SubSeq(s, 1, j - 1) \in Seq(T) /\ SubSeq(s, 1, j) \in Seq(T)
    BY <1>1, <2>1, SubSeqProperties
  <2>3. SubSeq(s, 1, j) = Append(SubSeq(s, 1, j - 1), s[j])
    BY <1>1, <2>1, <2>2
  <2> QED BY <2>1, <2>2, <2>3, Zenon DEF Prefixes
<1> QED BY <1>1, <1>2, <1>3

\* Without is defined for every sequence, and gives a sequence.
LEMMA WithoutSeq ==
  ASSUME NEW T, NEW s \in Seq(T), NEW S
  PROVE  (\E f: Kept(f, s, S)) /\ G!Without(s, S) \in Seq(T)
<1> DEFINE good == {u \in Seq(T): (\E f: Kept(f, u, S)) /\ G!Without(u, S) \in Seq(T)}
           W == {j \in 0..Len(s): Prefixes(s)[j] \notin good}
<1>1. Len(s) \in Nat /\ Prefixes(s)[0] = <<>> /\ Prefixes(s)[Len(s)] = s
  BY PrefixStep
<1>2. SUFFICES ASSUME s \notin good PROVE FALSE
  OBVIOUS
<1>3. <<>> \in good
  BY WithoutNothing, EmptySeq
<1>4. ASSUME NEW u \in good, NEW x0 \in T PROVE Append(u, x0) \in good
  <2>1. u \in Seq(T) /\ G!Without(u, S) \in Seq(T)
    OBVIOUS
  <2>2. PICK f: Kept(f, u, S)
    OBVIOUS
  <2>3. /\ G!Without(Append(u, x0), S) = IF x0 \in S THEN G!Without(u, S) ELSE Append(G!Without(u, S), x0)
        /\ \E g: Kept(g, Append(u, x0), S)
    BY <2>1, <2>2, KeptAppend
  <2>4. Append(u, x0) \in Seq(T) /\ Append(G!Without(u, S), x0) \in Seq(T)
    BY <2>1, AppendProperties
  <2> QED BY <2>1, <2>3, <2>4
<1> HIDE DEF good
<1>5. Len(s) \in W /\ W \in SUBSET Nat
  BY <1>1, <1>2
<1>6. PICK j \in W: \A l \in W: j <= l
  <2> HIDE DEF W
  <2> QED BY <1>5, Least
<1>7. j \in 1..Len(s) /\ Prefixes(s)[j] \notin good
  BY <1>1, <1>3, <1>6
<1>8. Prefixes(s)[j - 1] \in good
  <2>1. j - 1 \in 0..Len(s) /\ ~(j <= j - 1)
    BY <1>1, <1>7
  <2>2. j - 1 \notin W
    <3> HIDE DEF W
    <3> QED BY <1>6, <2>1
  <2> QED BY <2>1, <2>2
<1>9. s[j] \in T /\ Prefixes(s)[j] = Append(Prefixes(s)[j - 1], s[j])
  BY <1>7, PrefixStep
<1> QED BY <1>4, <1>7, <1>8, <1>9

LEMMA WithoutAppend ==
  ASSUME NEW T, NEW s \in Seq(T), NEW S, NEW x0 \in T
  PROVE  /\ x0 \in S => G!Without(Append(s, x0), S) = G!Without(s, S)
         /\ x0 \notin S => G!Without(Append(s, x0), S) = Append(G!Without(s, S), x0)
<1>1. PICK f: Kept(f, s, S)
  BY WithoutSeq
<1> QED BY <1>1, KeptAppend

\* now0 is l with Null for the elements of other0, and Null or the element for those of gone0.
Blanked(now0, l, gone0, other0) ==
  /\ now0 \in Seq(DOMAIN PathOf \union {Null}) /\ l \in Seq(DOMAIN PathOf) /\ Len(now0) = Len(l)
  /\ \A i \in 1..Len(l): /\ l[i] \in gone0 => now0[i] \in {Null, l[i]}
                         /\ l[i] \notin gone0 => now0[i] = IF l[i] \in other0 THEN Null ELSE l[i]

\* Taking out Null and gone0 from such a now0 is taking out gone0 and other0 from l.
LEMMA WithoutBoth ==
  ASSUME NEW now0, NEW l, NEW gone0, NEW other0, Blanked(now0, l, gone0, other0),
         NEW blank, blank = {Null}, NEW out, out = gone0 \union other0
  PROVE  G!Without(G!Without(now0, blank), gone0) = G!Without(l, out)
<1>0. SUFFICES G!Without(G!Without(now0, {Null}), gone0) = G!Without(l, gone0 \union other0)
  OBVIOUS
<1> DEFINE T == DOMAIN PathOf
<1> USE DEF Blanked
<1>13. Null \notin T
  BY BuffersAssumption
<1> DEFINE T0 == T \union {Null}
           cs == Prefixes(now0)
           ls == Prefixes(l)
           both == [j \in 0..Len(l) |-> G!Without(G!Without(cs[j], {Null}), gone0)]
           once == [j \in 0..Len(l) |-> G!Without(ls[j], gone0 \union other0)]
           W == {j \in 0..Len(l): both[j] # once[j]}
<1>1. /\ Len(now0) \in Nat /\ cs[0] = <<>> /\ cs[Len(now0)] = now0
      /\ \A j \in 1..Len(now0): /\ now0[j] \in T0 /\ cs[j - 1] \in Seq(T0)
                             /\ cs[j] = Append(cs[j - 1], now0[j])
  BY PrefixStep
<1>2. /\ Len(l) \in Nat /\ ls[0] = <<>> /\ ls[Len(l)] = l
      /\ \A j \in 1..Len(l): /\ l[j] \in T /\ ls[j - 1] \in Seq(T)
                             /\ ls[j] = Append(ls[j - 1], l[j])
  BY PrefixStep
<1> HIDE DEF cs, ls, T0
<1>3. /\ \A j \in 0..Len(l): /\ both[j] = G!Without(G!Without(cs[j], {Null}), gone0)
                            /\ once[j] = G!Without(ls[j], gone0 \union other0)
  OBVIOUS
<1> HIDE DEF both, once
<1>4. both[0] = once[0]
  <2>1. 0 \in 0..Len(l)
    BY <1>2
  <2> QED BY <1>1, <1>2, <1>3, <2>1, WithoutNothing
<1>5. ASSUME NEW j \in 1..Len(l), both[j - 1] = once[j - 1] PROVE both[j] = once[j]
  <2>1. j \in 0..Len(l) /\ j - 1 \in 0..Len(l) /\ j \in 1..Len(now0)
    BY <1>1, <1>2
  <2>2. /\ cs[j - 1] \in Seq(T0) /\ ls[j - 1] \in Seq(T) /\ now0[j] \in T0 /\ l[j] \in T
        /\ cs[j] = Append(cs[j - 1], now0[j]) /\ ls[j] = Append(ls[j - 1], l[j])
    BY <1>1, <1>2, <2>1
  <2>3. G!Without(G!Without(cs[j - 1], {Null}), gone0) = G!Without(ls[j - 1], gone0 \union other0)
    BY <1>3, <1>5, <2>1
  <2>4. /\ l[j] \in gone0 => now0[j] \in {Null, l[j]}
        /\ l[j] \notin gone0 => now0[j] = IF l[j] \in other0 THEN Null ELSE l[j]
    OBVIOUS
  <2>5. T0 = T \union {Null}
    BY DEF T0
  <2>6. G!Without(G!Without(Append(cs[j - 1], now0[j]), {Null}), gone0) = G!Without(Append(ls[j - 1], l[j]), gone0 \union other0)
    <3> DEFINE u == cs[j - 1]
               v == ls[j - 1]
               x0 == now0[j]
               y0 == l[j]
               DN == gone0 \union other0
               null == {Null}
    <3>1. /\ u \in Seq(T0) /\ v \in Seq(T) /\ x0 \in T0 /\ y0 \in T
          /\ DN = gone0 \union other0 /\ null = {Null}
          /\ y0 \in gone0 => x0 \in {Null, y0}
          /\ y0 \notin gone0 => x0 = IF y0 \in other0 THEN Null ELSE y0
          /\ G!Without(G!Without(u, null), gone0) = G!Without(v, DN)
      BY <2>2, <2>3, <2>4
    <3> HIDE DEF u, v, x0, y0, DN, null
    <3>10. u \in Seq(T0) /\ x0 \in T0
      BY <3>1
    <3>11. v \in Seq(T) /\ y0 \in T
      BY <3>1
    <3>2. G!Without(u, null) \in Seq(T0)
      BY ONLY <3>1, WithoutSeq
    <3> DEFINE w == G!Without(u, null)
    <3>3. w \in Seq(T0)
      BY <3>2
    <3> HIDE DEF w
    <3>4. /\ x0 \in null => G!Without(Append(u, x0), null) = G!Without(u, null)
          /\ x0 \notin null => G!Without(Append(u, x0), null) = Append(G!Without(u, null), x0)
      BY ONLY <3>10, WithoutAppend
    <3>5. /\ y0 \in DN => G!Without(Append(v, y0), DN) = G!Without(v, DN)
          /\ y0 \notin DN => G!Without(Append(v, y0), DN) = Append(G!Without(v, DN), y0)
      BY ONLY <3>11, WithoutAppend
    <3>6. /\ x0 \in gone0 => G!Without(Append(w, x0), gone0) = G!Without(w, gone0)
          /\ x0 \notin gone0 => G!Without(Append(w, x0), gone0) = Append(G!Without(w, gone0), x0)
      BY ONLY <3>1, <3>3, WithoutAppend
    <3>7. G!Without(w, gone0) = G!Without(v, DN) /\ G!Without(u, null) = w
      BY <3>1 DEF w
    <3>8. y0 # Null /\ (x0 \in null <=> x0 = Null) /\ (y0 \in DN <=> y0 \in gone0 \/ y0 \in other0)
      BY <1>13, <3>1
    <3>9. G!Without(G!Without(Append(u, x0), null), gone0) = G!Without(Append(v, y0), DN)
      BY ONLY <3>1, <3>4, <3>5, <3>6, <3>7, <3>8
    <3> QED BY <3>9 DEF u, v, x0, y0, DN, null
  <2> QED BY <1>3, <2>1, <2>2, <2>6
<1>6. SUFFICES ASSUME W # {} PROVE FALSE
  <2>1. Len(l) \in 0..Len(l) /\ Len(l) \notin W
    BY <1>2, <1>6
  <2>2. both[Len(l)] = once[Len(l)]
    BY <2>1
  <2> QED BY <1>1, <1>2, <1>3, <2>1, <2>2
<1>7. PICK j \in W: \A i \in W: j <= i
  <2>1. W \in SUBSET Nat
    OBVIOUS
  <2> HIDE DEF W
  <2> QED BY <1>6, <2>1, Least
<1>8. j \in 0..Len(l) /\ both[j] # once[j]
  BY <1>7
<1>9. j \in 1..Len(l)
  BY <1>2, <1>4, <1>8
<1>10. j - 1 \in 0..Len(l) /\ ~(j <= j - 1)
  BY <1>2, <1>9
<1>11. both[j - 1] = once[j - 1]
  BY <1>7, <1>10
<1> QED BY <1>5, <1>8, <1>9, <1>11

Searcher == "LibLocateHandleByDiskSignature"
Matched(h) == G!Match(PathOf[h])

\* How far the loop over the handles has come: those before the index are
\* matches or have been replaced by null, unless they were gone when it came to
\* them; the others are as they were read.
Scanned ==
  /\ other \in Seq(DOMAIN PathOf)
  /\ fn = Searcher => api = "LocateHandle" /\ seen \subseteq Seq(DOMAIN PathOf)
  /\ pc = "scan" =>
       /\ scan = [index |-> scan.index, devicePath |-> scan.devicePath, list |-> scan.list, gone |-> scan.gone]
       /\ scan.list \in Seq(DOMAIN PathOf) /\ scan.index \in Nat \ {0}
       /\ content \in Seq(DOMAIN PathOf \union {Null}) /\ Len(content) = Len(scan.list)
       /\ \A i \in 1..Len(scan.list) :
            /\ i >= scan.index => content[i] = scan.list[i]
            /\ scan.list[i] \in scan.gone => content[i] \in {Null, scan.list[i]}
            /\ i < scan.index /\ scan.list[i] \notin scan.gone =>
                 content[i] = IF Matched(scan.list[i]) THEN scan.list[i] ELSE Null
  /\ G!FindsPartition

\* Without, Match and PathOf are the same in every state.
LEMMA FindsPartitionPrimed ==
  G!FindsPartition' <=>
    (pc' = "idle" /\ fn' = "LibLocateHandleByDiskSignature" /\ status' = "EFI_SUCCESS" =>
       G!Without(content', scan'.gone) =
         G!Without(scan'.list, scan'.gone \union {h \in G!Range(scan'.list): ~Matched(h)}))
BY DEF G!FindsPartition, Matched

\* Every other step.
LEMMA NotScanning ==
  ASSUME Scanned, other' \in Seq(DOMAIN PathOf), scan' = scan,
         fn' = Searcher => api' = "LocateHandle" /\ seen' \subseteq Seq(DOMAIN PathOf),
         pc' = "scan" => pc = "scan" /\ content' = content,
         pc' = "idle" /\ fn' = Searcher => UNCHANGED <<pc, fn, status, content>>
  PROVE  Scanned'
<1>1. G!FindsPartition'
  BY FindsPartitionPrimed DEF Scanned, G!FindsPartition, Matched, Searcher
<1>2. pc' = "scan" =>
        /\ scan' = [index |-> scan'.index, devicePath |-> scan'.devicePath, list |-> scan'.list, gone |-> scan'.gone]
        /\ scan'.list \in Seq(DOMAIN PathOf) /\ scan'.index \in Nat \ {0}
        /\ content' \in Seq(DOMAIN PathOf \union {Null}) /\ Len(content') = Len(scan'.list)
        /\ \A i \in 1..Len(scan'.list) :
             /\ i >= scan'.index => content'[i] = scan'.list[i]
             /\ scan'.list[i] \in scan'.gone => content'[i] \in {Null, scan'.list[i]}
             /\ i < scan'.index /\ scan'.list[i] \notin scan'.gone =>
                  content'[i] = IF Matched(scan'.list[i]) THEN scan'.list[i] ELSE Null
  BY DEF Scanned
<1> QED BY <1>1, <1>2 DEF Scanned, Matched, Searcher

LEMMA ScanStartScanned == ASSUME GInv, Scanned, G!ScanStart PROVE Scanned'
<1>1. /\ pc = "finish" /\ fn = Searcher /\ fn' = fn /\ api' = api /\ other' = other /\ seen' = seen
      /\ scan' = [index |-> 1, devicePath |-> Null, list |-> content, gone |-> {}]
      /\ pc' = (IF buffer = Null THEN "idle" ELSE "scan") /\ content' = content /\ status' = status
  BY DEF G!ScanStart, G!NoScan, G!fw, G!request, G!loop, Searcher
<1>2. buffer = Null => status' # "EFI_SUCCESS"
  BY <1>1 DEF GInv, Reading, G!WholeObjectOrNothing, G!IsError
<1>3. buffer # Null => content \in Seq(DOMAIN PathOf)
  BY <1>1 DEF GInv, Reading, G!WholeObjectOrNothing, Scanned
<1>4. pc' = "scan" =>
        /\ scan'.list = content /\ scan'.index = 1 /\ scan'.gone = {}
        /\ content \in Seq(DOMAIN PathOf) /\ content \in Seq(DOMAIN PathOf \union {Null})
        /\ Len(content) \in Nat
  BY <1>1, <1>3, SeqMonotonic, LenProperties
<1>5. G!FindsPartition'
  BY <1>1, <1>2, FindsPartitionPrimed
<1> QED BY <1>1, <1>4, <1>5 DEF Scanned, Matched, Searcher

LEMMA ScanHandleScanned == ASSUME GInv, Scanned, G!ScanHandle PROVE Scanned'
<1> DEFINE h0 == scan.list[scan.index]
           gone == h0 \notin G!Range(other)
<1>1. PICK path0 \in IF gone THEN {<<>>, scan.devicePath} ELSE {PathOf[h0]} :
      \E match \in IF path0 = Null THEN BOOLEAN ELSE {G!Match(path0)} :
        /\ content' = IF match THEN content ELSE [content EXCEPT ![scan.index] = Null]
        /\ scan' = [scan EXCEPT !.index = @ + 1, !.devicePath = path0,
                               !.gone = IF gone THEN @ \union {h0} ELSE @]
  BY DEF G!ScanHandle
<1>2. PICK match \in IF path0 = Null THEN BOOLEAN ELSE {G!Match(path0)} :
        /\ content' = IF match THEN content ELSE [content EXCEPT ![scan.index] = Null]
        /\ scan' = [scan EXCEPT !.index = @ + 1, !.devicePath = path0,
                               !.gone = IF gone THEN @ \union {h0} ELSE @]
  BY <1>1
<1>3. /\ pc = "scan" /\ scan.index <= Len(scan.list)
      /\ UNCHANGED <<other, pc, fn, api, seen, status>>
  BY DEF G!ScanHandle, G!fw, G!request
<1> DEFINE l == scan.list
           n == scan.index
           hs == DOMAIN PathOf
           gone1 == IF gone THEN scan.gone \union {h0} ELSE scan.gone
<1>4. /\ l \in Seq(hs) /\ Len(l) \in Nat /\ n \in 1..Len(l) /\ h0 \in hs
      /\ content \in Seq(hs \union {Null}) /\ Len(content) = Len(l)
      /\ \A i \in 1..Len(l) :
            /\ i >= n => content[i] = l[i]
            /\ l[i] \in scan.gone => content[i] \in {Null, l[i]}
            /\ i < n /\ l[i] \notin scan.gone => content[i] = IF Matched(l[i]) THEN l[i] ELSE Null
  <2>1. l \in Seq(hs) /\ n \in Nat \ {0} /\ n <= Len(l)
    BY <1>3 DEF Scanned
  <2>2. Len(l) \in Nat
    BY <2>1, LenProperties
  <2>3. n \in 1..Len(l)
    BY <2>1, <2>2
  <2>4. h0 \in hs
    BY <2>1, <2>3, ElementOfSeq
  <2> QED BY <1>3, <2>1, <2>2, <2>3, <2>4 DEF Scanned
<1>5. /\ scan' = [index |-> scan'.index, devicePath |-> scan'.devicePath, list |-> scan'.list, gone |-> scan'.gone]
      /\ scan'.index = n + 1 /\ scan'.list = l /\ scan'.gone = gone1
  <2>1. scan = [index |-> n, devicePath |-> scan.devicePath, list |-> l, gone |-> scan.gone]
    BY <1>3 DEF Scanned
  <2>2. scan' = [index |-> n + 1, devicePath |-> path0, list |-> l, gone |-> gone1]
    BY <1>2, <2>1
  <2> HIDE DEF gone1, l, n
  <2> QED BY <2>2
<1>6. /\ content' \in Seq(hs \union {Null}) /\ Len(content') = Len(l)
      /\ \A i \in 1..Len(l) : i # n => content'[i] = content[i]
      /\ content'[n] \in {Null, content[n]}
      /\ content'[n] = IF match THEN content[n] ELSE Null
  <2>1. n \in 1..Len(content)
    BY <1>4
  <2>2. CASE match
    BY <1>2, <1>4, <2>2
  <2>3. CASE ~match
    <3>1. content' = [content EXCEPT ![n] = Null]
      BY <1>2, <2>3
    <3> HIDE DEF l, n, hs
    <3> QED BY <1>4, <2>1, <2>3, <3>1, ExceptSeq
  <2> QED BY <2>2, <2>3
<1>7. ~gone => (match <=> Matched(h0))
  <2>1. PathOf[h0] # Null
    BY <1>4, BuffersAssumption
  <2> QED BY <1>1, <1>2, <2>1 DEF Matched
<1>8. ASSUME NEW i \in 1..Len(l)
      PROVE  /\ i >= n + 1 => content'[i] = l[i]
             /\ l[i] \in gone1 => content'[i] \in {Null, l[i]}
             /\ i < n + 1 /\ l[i] \notin gone1 => content'[i] = IF Matched(l[i]) THEN l[i] ELSE Null
  <2>1. CASE i = n
    <3>1. content[n] = l[n] /\ n >= n
      BY <1>4
    <3>2. l[n] \notin gone1 => ~gone
      OBVIOUS
    <3> HIDE DEF gone, gone1
    <3> QED BY <1>4, <1>6, <1>7, <2>1, <3>1, <3>2
  <2>2. CASE i # n
    <3>1. content'[i] = content[i] /\ (i < n + 1 => i < n) /\ (i >= n + 1 => i >= n)
      BY <1>4, <1>6, <2>2
    <3>2. l[i] \notin gone1 => l[i] \notin scan.gone
      OBVIOUS
    <3>3. i >= n => content[i] = l[i]
      BY <1>4
    <3>4. i < n => content[i] \in {Null, l[i]}
      BY <1>4
    <3>5. i < n \/ i >= n
      BY <1>4
    <3> HIDE DEF gone1
    <3> QED BY <1>4, <3>1, <3>2, <3>3, <3>4, <3>5
  <2> QED BY <2>1, <2>2
<1>9. G!FindsPartition'
  BY <1>3, FindsPartitionPrimed
<1>10. other' \in Seq(hs) /\ (fn' = Searcher => api' = "LocateHandle" /\ seen' \subseteq Seq(hs))
  BY <1>3 DEF Scanned
<1>11. n + 1 \in Nat \ {0}
  BY <1>4
<1> HIDE DEF gone1, gone, l, n
<1>12. /\ scan'.list \in Seq(hs) /\ scan'.index \in Nat \ {0}
       /\ content' \in Seq(hs \union {Null}) /\ Len(content') = Len(scan'.list)
  BY <1>4, <1>5, <1>6, <1>11
<1>13. \A i \in 1..Len(scan'.list) :
         /\ i >= scan'.index => content'[i] = scan'.list[i]
         /\ scan'.list[i] \in scan'.gone => content'[i] \in {Null, scan'.list[i]}
         /\ i < scan'.index /\ scan'.list[i] \notin scan'.gone =>
              content'[i] = IF Matched(scan'.list[i]) THEN scan'.list[i] ELSE Null
  BY <1>5, <1>8
<1> QED BY <1>5, <1>9, <1>10, <1>12, <1>13 DEF Scanned, Matched, Searcher

LEMMA ScanReturnScanned == ASSUME GInv, Scanned, G!ScanReturn PROVE Scanned'
<1> DEFINE l == scan.list
           hs == DOMAIN PathOf
           other0 == {h \in G!Range(l): ~Matched(h)}
           matches == G!Without(content, {Null})
<1>1. /\ pc = "scan" /\ scan.index > Len(scan.list) /\ pc' = "idle"
      /\ UNCHANGED <<other, fn, api, seen, scan>>
      /\ status' = "EFI_SUCCESS" => content' = matches
  BY DEF G!ScanReturn, G!fw, G!request, G!search
<1>2. /\ l \in Seq(hs) /\ content \in Seq(hs \union {Null}) /\ Len(content) = Len(l) /\ Null \notin hs
      /\ Len(l) \in Nat /\ scan.index \in Nat
  BY <1>1, BuffersAssumption, LenProperties DEF Scanned
<1>3. ASSUME NEW i \in 1..Len(l)
      PROVE  /\ l[i] \in scan.gone => content[i] \in {Null, l[i]}
             /\ l[i] \notin scan.gone => content[i] = IF l[i] \in other0 THEN Null ELSE l[i]
  <2>1. i < scan.index
    BY <1>1, <1>2
  <2>2. l[i] \in G!Range(l)
    BY <1>2, LenProperties DEF G!Range
  <2>3. l[i] \in other0 <=> ~Matched(l[i])
    BY <2>2
  <2> QED BY <1>1, <2>1, <2>3 DEF Scanned
<1>4. G!Without(matches, scan.gone) = G!Without(l, scan.gone \union other0)
  <2> DEFINE c0 == content
             g0 == scan.gone
  <2>1. Blanked(c0, l, g0, other0)
    BY <1>2, <1>3 DEF Blanked
  <2> HIDE DEF l, hs, other0, c0, g0
  <2> DEFINE blank == {Null}
             out == g0 \union other0
  <2>2. blank = {Null} /\ out = g0 \union other0
    OBVIOUS
  <2> HIDE DEF blank, out
  <2>3. G!Without(G!Without(c0, blank), g0) = G!Without(l, out)
    BY ONLY <2>1, <2>2, WithoutBoth
  <2> QED BY <2>3 DEF c0, g0, blank, out
<1>5. G!FindsPartition'
  BY <1>1, <1>4, FindsPartitionPrimed
<1> QED BY <1>1, <1>5 DEF Scanned, Searcher

LEMMA ValueHandles ==
  ASSUME NEW v \in Values \union {<<>>} PROVE v \in Seq(DOMAIN PathOf)
BY BuffersAssumption, EmptySeq

LEMMA StartScanned ==
  ASSUME GInv, Scanned, NEW f, NEW i, NEW s, NEW e, f = Searcher => i = "LocateHandle", G!Start(f, i, s, e)
  PROVE  Scanned'
<1>1. /\ fn' = f /\ api' = i /\ scan' = scan /\ pc' = "grow" /\ seen' = {G!obj'}
      /\ other' = other \/ other' \in Values \union {<<>>}
  BY DEF G!Start, G!search
<1>2. other' \in Seq(DOMAIN PathOf)
  BY <1>1, ValueHandles DEF Scanned
<1>3. i = "LocateHandle" => G!obj' = other'
  BY <1>1 DEF G!obj
<1> QED BY <1>1, <1>2, <1>3, NotScanning

LEMMA GrowScanned == ASSUME GInv, Scanned, G!GrowBuffer PROVE Scanned'
<1>1. /\ UNCHANGED <<fn, api, scan>> /\ pc' \in {"finish", "call"}
      /\ seen' = seen \/ seen' = seen \union {G!obj'}
  BY DEF G!GrowBuffer, G!request, G!search
<1>2. other' = other \/ other' \in Values
  BY DEF G!GrowBuffer, G!MapMayChange
<1>3. other' \in Seq(DOMAIN PathOf)
  BY <1>2, ValueHandles DEF Scanned
<1>4. api = "LocateHandle" => G!obj' = other'
  BY <1>1 DEF G!obj
<1> QED BY <1>1, <1>3, <1>4, NotScanning DEF Scanned

LEMMA ChangeScanned ==
  ASSUME GInv, Scanned, NEW v \in Values \union {<<>>}, G!Change(v) PROVE Scanned'
<1>1. /\ UNCHANGED <<pc, fn, api, scan, content, status>> /\ seen' = seen \union {v}
      /\ other' = other \/ other' = v
  BY DEF G!Change, G!request, G!search, G!loop
<1>2. v \in Seq(DOMAIN PathOf)
  BY ValueHandles
<1> QED BY <1>1, <1>2, NotScanning DEF Scanned

\* The steps of the other functions, and those that leave the search alone.
LEMMA OthersScanned ==
  ASSUME GInv, Scanned,
         \/ G!CallInterface \/ G!ReturnBuffer \/ G!FindProtocol \/ G!DeleteVariable \/ G!InsertAllocate
         \/ G!InsertSet \/ G!ChooseCollation \/ \E m \in Blocks: G!FreeResult(m)
  PROVE  Scanned'
<1>1. CASE G!CallInterface
  <2>1. UNCHANGED <<fn, api, scan, seen, other>> /\ pc' = "grow"
    BY <1>1 DEF G!CallInterface, G!fw, G!request, G!search
  <2> QED BY <2>1, NotScanning DEF Scanned
<1>2. CASE G!ReturnBuffer \/ G!FindProtocol \/ G!DeleteVariable \/ G!ChooseCollation
  <2>1. UNCHANGED <<fn, scan, other>> /\ pc' = "idle" /\ fn # Searcher
    BY <1>2 DEF G!ReturnBuffer, G!FindProtocol, G!DeleteVariable, G!ChooseCollation, G!fw, G!request, G!search,
                Searcher
  <2> QED BY <2>1, NotScanning DEF Scanned
<1>3. CASE G!InsertAllocate \/ G!InsertSet
  <2>1. UNCHANGED <<fn, scan, other>> /\ pc' \in {"idle", "set"}
    BY <1>3 DEF G!InsertAllocate, G!InsertSet, G!fw, G!request, G!search
  <2>2. fn # Searcher
    BY <1>3 DEF G!InsertAllocate, G!InsertSet, GInv, Reading, Searcher, Inserters
  <2> QED BY <2>1, <2>2, NotScanning DEF Scanned
<1>4. ASSUME NEW m \in Blocks, G!FreeResult(m) PROVE Scanned'
  <2>1. UNCHANGED <<fn, api, scan, seen, other, pc, content, status>> /\ pc = "idle"
    BY <1>4 DEF G!FreeResult, G!fw, G!request, G!search, G!loop
  <2> QED BY <2>1, NotScanning DEF Scanned
<1> QED BY <1>1, <1>2, <1>3, <1>4

LEMMA InitializingScanned ==
  ASSUME GInv, Scanned, G!InitializeUnicodeSupport \/ \E image \in BOOLEAN: G!InitializeLib(image)
  PROVE  Scanned'
<1>1. CASE G!InitializeUnicodeSupport
  <2>1. /\ fn' = "InitializeUnicodeSupport" /\ scan' = scan /\ pc' = "grow" /\ other' \in Values \union {<<>>}
    BY <1>1 DEF G!InitializeUnicodeSupport, G!search
  <2> QED BY <2>1, ValueHandles, NotScanning DEF Searcher
<1>2. ASSUME NEW image \in BOOLEAN, G!InitializeLib(image) PROVE Scanned'
  <2>1. fn = "LibFileInfo" /\ pc = "idle"
    BY <1>2 DEF G!InitializeLib, GInv, Holding
  <2>2. CASE image
    <3>1. fn' = "InitializeLib" /\ scan' = scan /\ pc' = "grow" /\ other' \in Values \union {<<>>}
      BY <1>2, <2>2 DEF G!InitializeLib
    <3> QED BY <3>1, ValueHandles, NotScanning DEF Searcher
  <2>3. CASE ~image
    <3>1. fn' = fn /\ scan' = scan /\ pc' = pc /\ other' = other
      BY <1>2, <2>3 DEF G!InitializeLib, G!request
    <3> QED BY <2>1, <3>1, NotScanning DEF Searcher, Scanned
  <2> QED BY <2>2, <2>3
<1> QED BY <1>1, <1>2

LEMMA ScannedNext == ASSUME GInv, Scanned, G!Next PROVE Scanned'
<1>1. CASE \/ G!LibMemoryMap \/ G!LibLocateHandle \/ G!LibFileInfo \/ G!LibGetVariableAndSize
           \/ G!LibDeleteVariable \/ G!LibLocateProtocol \/ G!LibLocateHandleByDiskSignature
  BY <1>1, StartScanned
     DEF G!LibMemoryMap, G!LibLocateHandle, G!LibFileInfo, G!LibGetVariableAndSize, G!LibDeleteVariable,
         G!LibLocateProtocol, G!LibLocateHandleByDiskSignature, Searcher
<1>2. ASSUME NEW e \in Options, NEW only \in BOOLEAN, G!LibInsertToTailOfBootOrder(e, only) PROVE Scanned'
  BY <1>2, StartScanned DEF G!LibInsertToTailOfBootOrder, Searcher
<1>3. CASE G!Step
  BY <1>3, GrowScanned, OthersScanned, ScanStartScanned, ScanHandleScanned, ScanReturnScanned,
     InitializingScanned DEF G!Step
<1> QED BY <1>1, <1>2, <1>3, InitializingScanned, OthersScanned, ChangeScanned DEF G!Next

LEMMA ScannedInit == G!Init => Scanned
<1> SUFFICES ASSUME G!Init PROVE Scanned
  OBVIOUS
<1>1. other = <<>> /\ fn = "LibFileInfo" /\ pc = "idle"
  BY DEF G!Init
<1> QED BY <1>1, EmptySeq DEF Scanned, Searcher, G!FindsPartition

PartitionInv == turn = "buffers" => GInv /\ Scanned

\* LibLocateHandleByDiskSignature returns the handles of the partition, in
\* order and no others, for any handles and device paths and however the handles
\* change while it runs; only of those that went away can it not tell (hand.c).
THEOREM PartitionFoundHolds == AllSpec => []PartitionFound
<1>1. AllInit => PartitionInv
  BY BuffersInit, ScannedInit DEF AllInit, PartitionInv
<1>2. PartitionInv /\ [AllNext]_all => PartitionInv'
  <2> SUFFICES ASSUME PartitionInv, [AllNext]_all, turn' = "buffers" PROVE GInv' /\ Scanned'
    BY DEF PartitionInv
  <2>1. CASE Buffers
    BY <2>1, BuffersNext, ScannedNext DEF Buffers, PartitionInv
  <2>2. CASE Interfaces \/ DevicePaths \/ Notifications \/ Inputs
    BY <2>2 DEF Interfaces, DevicePaths, Notifications, Inputs
  <2>3. CASE UNCHANGED all
    <3>1. GInv /\ Scanned /\ UNCHANGED <<shared, gOnly>>
      BY <2>3 DEF all, PartitionInv
    <3>2. GInv'
      BY <3>1, BuffersStutter
    <3>3. Scanned'
      BY <3>1, NotScanning DEF shared, gOnly, Scanned
    <3> QED BY <3>2, <3>3
  <2> QED BY <2>1, <2>2, <2>3 DEF AllNext
<1>3. PartitionInv => PartitionFound
  BY DEF PartitionInv, Scanned, PartitionFound
<1> QED BY <1>1, <1>2, <1>3, PTL DEF AllSpec

=============================================================================
