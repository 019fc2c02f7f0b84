------------------------- MODULE ProtocolInterfaces -------------------------
(***************************************************************************)
(* LibInstallProtocolInterfaces, LibUninstallProtocolInterfaces and        *)
(* LibReinstallProtocolInterfaces of lib/hand.c over the firmware's handle *)
(* database.                                                               *)
(*                                                                         *)
(* db[h][p] is the interface of protocol p on handle h, or None; a handle  *)
(* without interfaces does not exist.  Notification functions run whenever *)
(* the TPL is below TPL_NOTIFY and may open interfaces for their drivers;  *)
(* the firmware then refuses to remove or replace those until they are     *)
(* closed again.  An install may also fail for want of memory.             *)
(***************************************************************************)
EXTENDS Naturals, Sequences, FiniteSets

CONSTANTS
  Handles, Protocols, Ifaces,
  None,       \* no interface; also the null EFI_HANDLE
  ArgLists,   \* variable argument lists: sequences of [p, old, new]
  MaxCalls    \* bound: calls of the three functions

VARIABLES
  db,         \* the handle database
  inUse,      \* <<h, p>> opened by a driver
  raised,     \* the TPL is TPL_NOTIFY
  pc,         \* where the running function is
  args,       \* its arguments
  handle,     \* *Handle
  oldHandle,  \* OldHandle
  k,          \* va_arg position
  index,      \* Index
  status,
  calls, db0  \* history: calls so far, the database at the start of the call

fw == <<db, inUse>>
vars == <<db, inUse, raised, pc, args, handle, oldHandle, k, index, status, calls, db0>>

NoIfaces == [p \in Protocols |-> None]
Exists(h) == db[h] # NoIfaces

\* Reinstall hands the firmware the address of the caller's handle variable,
\* which is no handle.
AddressOf(h) == <<"address of", h>>

-----------------------------------------------------------------------------
(* The firmware. *)

\* InstallProtocolInterface on h.
CanInstall(h, p) == db[h][p] = None
Installed(h, p, x) == [db EXCEPT ![h][p] = x]

\* UninstallProtocolInterface on h.
CanRemove(h, p, x) == db[h][p] = x /\ <<h, p>> \notin inUse
Removed(h, p) == [db EXCEPT ![h][p] = None]

\* ReinstallProtocolInterface refuses what is not a handle.
CanReplace(t, p, old) == \E h \in Handles : t = h /\ CanRemove(h, p, old)

\* A notification function opens or closes an interface for its driver.
Notification(h, p) ==
  /\ ~raised
  /\ db[h][p] # None
  /\ inUse' = IF <<h, p>> \in inUse THEN inUse \ {<<h, p>>} ELSE inUse \union {<<h, p>>}
  /\ UNCHANGED <<db, raised, pc, args, handle, oldHandle, k, index, status, calls, db0>>

-----------------------------------------------------------------------------
(* The functions. *)

Begin(where, h, a) ==
  /\ pc = "idle" /\ calls < MaxCalls
  /\ calls' = calls + 1
  /\ pc' = where
  /\ args' = a
  /\ handle' = h /\ oldHandle' = h
  /\ k' = 1 /\ index' = 0
  /\ status' = "EFI_SUCCESS"
  /\ db0' = db
  /\ UNCHANGED fw

\* Mutant: no synchronisation with notifications.
CallInstallUnraised(h, a) ==
  UNCHANGED raised /\ (h # None => Exists(h)) /\ Begin("install", h, a)

CallInstall(h, a) == raised' = TRUE /\ (h # None => Exists(h)) /\ Begin("install", h, a)

\* One turn of the install loop.  A null *Handle makes the firmware create one.
Install ==
  /\ pc = "install" /\ k <= Len(args)
  /\ \/ /\ \E h \in IF handle = None THEN {g \in Handles : ~Exists(g)} ELSE {handle} :
             /\ CanInstall(h, args[k].p)
             /\ db' = Installed(h, args[k].p, args[k].new)
             /\ handle' = h
        /\ index' = index + 1 /\ k' = k + 1
        /\ UNCHANGED <<status, pc>>
     \/ /\ status' = "EFI_ERROR"       \* already there, or out of resources
        /\ k' = 1 /\ pc' = "rollback"
        /\ UNCHANGED <<db, handle, index>>
  /\ UNCHANGED <<inUse, raised, args, oldHandle, calls, db0>>

InstallDone ==
  /\ pc = "install" /\ k > Len(args)
  /\ pc' = "restore"
  /\ UNCHANGED <<fw, raised, args, handle, oldHandle, k, index, status, calls, db0>>

\* Mutant: the count is not decreased.
RollbackStuck ==
  /\ pc = "rollback" /\ index > 0
  /\ db' = IF CanRemove(handle, args[k].p, args[k].new)
             THEN Removed(handle, args[k].p) ELSE db
  /\ UNCHANGED <<inUse, raised, pc, args, handle, oldHandle, k, index, status, calls, db0>>

\* Undo what was installed, oldest first; errors are ignored.
Rollback ==
  /\ pc = "rollback" /\ index > 0
  /\ db' = IF CanRemove(handle, args[k].p, args[k].new)
             THEN Removed(handle, args[k].p) ELSE db
  /\ index' = index - 1 /\ k' = k + 1
  /\ UNCHANGED <<inUse, raised, pc, args, handle, oldHandle, status, calls, db0>>

RollbackDone ==
  /\ pc = "rollback" /\ index = 0
  /\ handle' = oldHandle
  /\ pc' = "restore"
  /\ UNCHANGED <<fw, raised, args, oldHandle, k, index, status, calls, db0>>

Return ==
  /\ pc = "restore"
  /\ raised' = FALSE
  /\ pc' = "idle"
  /\ UNCHANGED <<fw, args, handle, oldHandle, k, index, status, calls, db0>>

\* LibUninstallProtocolInterfaces stays at the caller's TPL.
CallUninstall(h, a) == Exists(h) /\ Begin("uninstall", h, a) /\ UNCHANGED raised

Uninstall ==
  /\ pc = "uninstall" /\ k <= Len(args)
  /\ db' = IF CanRemove(handle, args[k].p, args[k].new)
             THEN Removed(handle, args[k].p) ELSE db
  /\ k' = k + 1
  /\ UNCHANGED <<inUse, raised, pc, args, handle, oldHandle, index, status, calls, db0>>

UninstallDone ==
  /\ pc = "uninstall" /\ k > Len(args)
  /\ pc' = "idle"
  /\ UNCHANGED <<fw, raised, args, handle, oldHandle, k, index, status, calls, db0>>

CallReinstall(h, a) == raised' = TRUE /\ Exists(h) /\ Begin("reinstall", h, a)

\* The whole of LibReinstallProtocolInterfaces: the firmware refuses the first
\* call, so Index is 0 and there is nothing to undo.
Reinstall ==
  /\ pc = "reinstall"
  /\ status' = IF args = <<>> \/ CanReplace(AddressOf(handle), args[1].p, args[1].old)
                 THEN "EFI_SUCCESS" ELSE "EFI_ERROR"
  /\ pc' = "restore"
  /\ UNCHANGED <<fw, raised, args, handle, oldHandle, k, index, calls, db0>>

Step ==
  \/ Install \/ InstallDone \/ Rollback \/ RollbackDone \/ Return
  \/ Uninstall \/ UninstallDone \/ Reinstall

Init ==
  /\ db = [h \in Handles |-> NoIfaces]
  /\ inUse = {} /\ raised = FALSE /\ pc = "idle" /\ args = <<>>
  /\ handle = None /\ oldHandle = None /\ k = 1 /\ index = 0
  /\ status = "EFI_SUCCESS" /\ calls = 0 /\ db0 = db

Next ==
  \/ \E h \in Handles \union {None}, a \in ArgLists : CallInstall(h, a)
  \/ \E h \in Handles, a \in ArgLists : CallUninstall(h, a) \/ CallReinstall(h, a)
  \/ Step
  \/ \E h \in Handles, p \in Protocols : Notification(h, p)

\* The functions run: notifications return to them.
Spec == Init /\ [][Next]_vars /\ WF_vars(Step)

-----------------------------------------------------------------------------
(* Properties. *)

TypeOK ==
  /\ db \in [Handles -> [Protocols -> Ifaces \union {None}]]
  /\ inUse \subseteq Handles \X Protocols
  /\ raised \in BOOLEAN
  /\ pc \in {"idle", "install", "rollback", "restore", "uninstall", "reinstall"}
  /\ args \in ArgLists \union {<<>>}
  /\ {handle, oldHandle} \subseteq Handles \union {None}
  /\ k \in 1..(Len(args) + 1) /\ index \in 0..Len(args)
  /\ status \in {"EFI_SUCCESS", "EFI_ERROR"}
  /\ calls \in 0..MaxCalls

\* LibInstallProtocolInterfaces is all or nothing: it returns with every
\* interface of its list on *Handle and nothing else changed, or with the
\* database and *Handle as they were.  The rollback ignores errors, so this
\* needs the raised TPL: a notification in the middle could open an interface.
InstallAllOrNothing ==
  /\ TypeOK
  /\ pc = "restore" =>
       \/ /\ status = "EFI_ERROR" /\ db = db0 /\ handle = oldHandle
       \/ /\ status = "EFI_SUCCESS"
          /\ \A j \in 1..index : db[handle][args[j].p] = args[j].new
          /\ \A h \in Handles, p \in Protocols :
               db[h][p] # db0[h][p] => h = handle /\ \E j \in 1..index : args[j].p = p

\* Every call returns.
CallsReturn == pc # "idle" ~> pc = "idle"

=============================================================================
