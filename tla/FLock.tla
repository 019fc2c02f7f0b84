-------------------------------- MODULE FLock --------------------------------
(***************************************************************************)
(* The library's mutual exclusion lock: lib/lock.c, lib/runtime/rtlock.c   *)
(* and the FLOCK structure of inc/efilink.h.                               *)
(*                                                                         *)
(* UEFI has one processor and no threads, but the firmware interrupts the  *)
(* running code with event notifications of a higher task priority level   *)
(* (TPL), at any instruction, and runs each to its end.  An FLOCK excludes *)
(* them by raising the TPL to its own.                                     *)
(*                                                                         *)
(* What is under way is a stack: a notification on top of what it          *)
(* interrupted, a lock on top of what its user was doing.  An entry has    *)
(* the TPL it runs at and old, the value the code or the firmware will     *)
(* restore.  RtAcquireLock and RtReleaseLock are two steps each, because   *)
(* notifications arrive between RaiseTPL and the update of the FLOCK.      *)
(*                                                                         *)
(* The users' side of the contract is in the guards: a lock is taken only  *)
(* at or below its TPL, not twice by the same code, and locks are released *)
(* in the opposite order.                                                  *)
(***************************************************************************)
EXTENDS Naturals, Sequences

CONSTANTS
  Locks,      \* FLOCKs
  MaxTpl,     \* levels are 1..MaxTpl; 1 is TPL_APPLICATION
  LockTpl,    \* LockTpl[l]: Lock->Tpl, set by InitializeLock
  RuntimeTpl, \* LibRuntimeRaiseTPL and LibRuntimeRestoreTPL are set
  NoLock      \* the lock of an entry that is a task

Levels == 1..MaxTpl

ASSUME LevelsAssumption  == MaxTpl \in Nat \ {0}
ASSUME LockTplAssumption == LockTpl \in [Locks -> Levels]
ASSUME NoLockAssumption  == NoLock \notin Locks
ASSUME RuntimeAssumption == RuntimeTpl \in BOOLEAN

VARIABLES
  bs,         \* boot services are there (BS # NULL)
  tpl,        \* current TPL
  ownerTpl,   \* Lock->OwnerTpl
  cnt,        \* Lock->Lock
  stack       \* what is under way, innermost last

lockVars == <<bs, tpl, ownerTpl, cnt, stack>>

Frames ==
  [lock : Locks \union {NoLock}, tpl : Levels,
   stage : {"task", "raised", "held", "dropping"}, old : 0..MaxTpl]

Task(t, old)    == [lock |-> NoLock, tpl |-> t, stage |-> "task", old |-> old]
Taking(l, t, old) == [lock |-> l, tpl |-> t, stage |-> "raised", old |-> old]

Top      == stack[Len(stack)]
Below    == SubSeq(stack, 1, Len(stack) - 1)
Restaged(stage, old) == [stack EXCEPT ![Len(stack)] = [@ EXCEPT !.stage = stage, !.old = old]]

\* The code that runs now: it is in no lock function.
Runs == Top.stage \in {"task", "held"}

\* The locks the innermost task holds.
Mine(l) ==
  \E k \in 1..Len(stack) :
    /\ stack[k].lock = l
    /\ \A j \in k..Len(stack) : stack[j].stage # "task"

\* BS->RaiseTPL, or LibRuntimeRaiseTPL when it is set.
Raises == bs \/ RuntimeTpl

-----------------------------------------------------------------------------
\* Mutant: the level is left alone.
RaiseTPLNot(l) ==
  /\ Runs /\ tpl <= LockTpl[l] /\ ~Mine(l)
  /\ stack' = Append(stack, Taking(l, tpl, tpl))
  /\ UNCHANGED <<bs, tpl, ownerTpl, cnt>>

\* RtAcquireLock up to the return of RaiseTPL.
RaiseTPL(l) ==
  /\ Runs /\ tpl <= LockTpl[l] /\ ~Mine(l)
  /\ tpl' = IF Raises THEN LockTpl[l] ELSE tpl
  /\ stack' = Append(stack, Taking(l, tpl', IF Raises THEN tpl ELSE ownerTpl[l]))
  /\ UNCHANGED <<bs, ownerTpl, cnt>>

\* Mutant: OwnerTpl is the level after raising it.
TakeLockLate ==
  /\ Top.stage = "raised"
  /\ ownerTpl' = [ownerTpl EXCEPT ![Top.lock] = tpl]
  /\ cnt' = [cnt EXCEPT ![Top.lock] = @ + 1]
  /\ stack' = Restaged("held", tpl)
  /\ UNCHANGED <<bs, tpl>>

\* The rest of RtAcquireLock.
TakeLock ==
  /\ Top.stage = "raised"
  /\ ownerTpl' = [ownerTpl EXCEPT ![Top.lock] = Top.old]
  /\ cnt' = [cnt EXCEPT ![Top.lock] = @ + 1]
  /\ stack' = Restaged("held", Top.old)
  /\ UNCHANGED <<bs, tpl>>

\* RtReleaseLock up to the call of RestoreTPL: Tpl is a copy of OwnerTpl.
DropLock ==
  /\ Top.stage = "held"
  /\ cnt' = [cnt EXCEPT ![Top.lock] = @ - 1]
  /\ stack' = Restaged("dropping", ownerTpl[Top.lock])
  /\ UNCHANGED <<bs, tpl, ownerTpl>>

RestoreTPL ==
  /\ Top.stage = "dropping"
  /\ tpl' = IF Raises THEN Top.old ELSE tpl
  /\ stack' = Below
  /\ UNCHANGED <<bs, ownerTpl, cnt>>

\* The firmware dispatches a notification above the current TPL ...
Notify(t) ==
  /\ bs /\ t > tpl
  /\ tpl' = t
  /\ stack' = Append(stack, Task(t, tpl))
  /\ UNCHANGED <<bs, ownerTpl, cnt>>

\* ... and goes back to what it interrupted.
NotifyReturns ==
  /\ Top.stage = "task" /\ Len(stack) > 1
  /\ tpl' = Top.old
  /\ stack' = Below
  /\ UNCHANGED <<bs, ownerTpl, cnt>>

\* Called by the application itself; BS is NULL from here on.
ExitBootServices ==
  /\ bs /\ Len(stack) = 1
  /\ bs' = FALSE
  /\ UNCHANGED <<tpl, ownerTpl, cnt, stack>>

LockInit ==
  /\ bs = TRUE
  /\ tpl = 1
  /\ ownerTpl = [l \in Locks |-> 0]
  /\ cnt = [l \in Locks |-> 0]
  /\ stack = <<Task(1, 0)>>

LockNext ==
  \/ \E l \in Locks : RaiseTPL(l)
  \/ TakeLock \/ DropLock \/ RestoreTPL
  \/ \E t \in Levels : Notify(t)
  \/ NotifyReturns \/ ExitBootServices

LockSpec == LockInit /\ [][LockNext]_lockVars

-----------------------------------------------------------------------------
(* Properties. *)

LockTypeOK ==
  /\ bs \in BOOLEAN
  /\ tpl \in Levels
  /\ ownerTpl \in [Locks -> 0..MaxTpl]
  /\ cnt \in [Locks -> Nat]
  /\ stack \in Seq(Frames)

\* No two pieces of code are inside the same lock, and ASSERT(Lock->Lock == 1)
\* holds at its two places: after the increment of RtAcquireLock and before the
\* decrement of RtReleaseLock.
MutualExclusion ==
  /\ \A i, j \in 1..Len(stack) :
       stack[i].lock = stack[j].lock /\ stack[i].lock # NoLock => i = j
  /\ \A i \in 1..Len(stack) :
       stack[i].stage = "held" => cnt[stack[i].lock] = 1

\* "restores the previous task priority level": whatever was interrupted or
\* locked in between, code that runs runs at the level it left off at.
RunsAtItsLevel == tpl = Top.tpl

-----------------------------------------------------------------------------
\* For model checking: one lock at level 2 and the others at level 3.
OneLower ==
  LET lowest == CHOOSE l \in Locks : TRUE
  IN  [l \in Locks |-> IF l = lowest THEN 2 ELSE 3]
=============================================================================
