------------------------ MODULE ListsAndLocksProofs ------------------------
(***************************************************************************)
(* The two primitives drivers build on, each by itself.                    *)
(*                                                                         *)
(* The FLOCK excludes for any number of locks and priority levels.  Why it *)
(* works: TPLs never fall from the bottom of the stack to its top, and     *)
(* rise strictly at a notification.  Whoever holds or is taking a lock     *)
(* runs at the lock's TPL, so a notification on top of it runs above that  *)
(* TPL and may not ask for the lock.  The order of the stack needs, to     *)
(* survive a release, that OwnerTpl and the local copies are the TPLs of   *)
(* the entries below (Saved).                                              *)
(*                                                                         *)
(* The lists of efilink.h stay rings, each macro is the operation on       *)
(* sequences that its name says, and RtConvertList converts the whole list *)
(* it walks along, for any number of lists and entries, as long as         *)
(* SwapListEntries is not called on neighbours that are already in the     *)
(* wanted order.                                                           *)
(***************************************************************************)
EXTENDS FLock, LinkedList, FiniteSetTheorems, NaturalsInduction, WellFoundedInduction, SequenceTheorems, TLAPS

-----------------------------------------------------------------------------
(* Locks. *)

\* TPLs along the stack.
Ordered ==
  /\ Len(stack) >= 1 /\ stack[1].stage = "task"
  /\ tpl = Top.tpl
  /\ \A k \in 1..Len(stack) : stack[k].stage = "task" <=> stack[k].lock = NoLock
  /\ \A i, j \in 1..Len(stack) :
       i < j => /\ stack[i].tpl <= stack[j].tpl
                /\ stack[j].stage = "task" => stack[i].tpl < stack[j].tpl

\* With RaiseTPL a lock's entry has the lock's TPL; without it nothing ever
\* changes the TPL and there are no notifications.
Located ==
  /\ Raises => \A k \in 1..Len(stack) :
                 stack[k].stage # "task" => stack[k].tpl = LockTpl[stack[k].lock]
  /\ ~Raises => \A k \in 1..Len(stack) :
                 stack[k].tpl = tpl /\ (k > 1 => stack[k].stage # "task")

\* What will be restored is the TPL of the entry below.
Saved ==
  Raises => \A k \in 2..Len(stack) :
              IF stack[k].stage = "held"
                THEN ownerTpl[stack[k].lock] = stack[k - 1].tpl
                ELSE stack[k].old = stack[k - 1].tpl

Unique ==
  \A i, j \in 1..Len(stack) :
    stack[i].lock = stack[j].lock /\ stack[i].lock # NoLock => i = j

Counted ==
  \A l \in Locks :
    cnt[l] = IF \E k \in 1..Len(stack) : stack[k].lock = l /\ stack[k].stage = "held"
               THEN 1 ELSE 0

LockInv == LockTypeOK /\ Ordered /\ Located /\ Saved /\ Unique /\ Counted

-----------------------------------------------------------------------------
(* The stack operations, entry by entry. *)

\* A new entry goes on top and the others stay.
LEMMA Push ==
  ASSUME stack \in Seq(Frames), NEW e \in Frames, stack' = Append(stack, e)
  PROVE  /\ stack' \in Seq(Frames)
         /\ Len(stack') = Len(stack) + 1
         /\ \A k \in 1..Len(stack) : stack'[k] = stack[k]
         /\ stack'[Len(stack) + 1] = e
BY AppendProperties

\* The top entry goes away and the others stay.
LEMMA Pop ==
  ASSUME stack \in Seq(Frames), Len(stack) >= 2, stack' = Below
  PROVE  /\ stack' \in Seq(Frames)
         /\ Len(stack') = Len(stack) - 1
         /\ \A k \in 1..(Len(stack) - 1) : stack'[k] = stack[k]
<1>1. Len(stack) \in Nat /\ \A k \in 1..(Len(stack) - 1) : stack[k] \in Frames
  OBVIOUS
<1> QED BY <1>1, SubSeqProperties DEF Below

\* The top entry keeps its lock and its TPL and the others stay.
LEMMA Restage ==
  ASSUME stack \in Seq(Frames), Len(stack) >= 1,
         NEW stage \in {"task", "raised", "held", "dropping"}, NEW old \in 0..MaxTpl,
         stack' = Restaged(stage, old)
  PROVE  /\ stack' \in Seq(Frames)
         /\ Len(stack') = Len(stack)
         /\ \A k \in 1..(Len(stack) - 1) : stack'[k] = stack[k]
         /\ stack'[Len(stack)].lock = Top.lock
         /\ stack'[Len(stack)].tpl = Top.tpl
         /\ stack'[Len(stack)].stage = stage
         /\ stack'[Len(stack)].old = old
<1> DEFINE n == Len(stack)
           e == [Top EXCEPT !.stage = stage, !.old = old]
<1>1. n \in 1..Len(stack) /\ Top \in Frames
  BY DEF Top
<1>2. e \in Frames /\ e.lock = Top.lock /\ e.tpl = Top.tpl /\ e.stage = stage /\ e.old = old
  BY <1>1 DEF Frames
<1>3. stack' = [stack EXCEPT ![n] = e]
  BY DEF Restaged, Top
<1> HIDE DEF e
<1>4. /\ stack' \in Seq(Frames)
      /\ Len(stack') = n
      /\ \A j \in 1..n : stack'[j] = IF j = n THEN e ELSE stack[j]
  BY <1>1, <1>2, <1>3, ExceptSeq
<1>5. stack'[n] = e
  BY <1>1, <1>4
<1>6. \A k \in 1..(n - 1) : stack'[k] = stack[k]
  BY <1>1, <1>4
<1> QED BY <1>2, <1>4, <1>5, <1>6

\* Every entry is an entry.
LEMMA EntryType ==
  ASSUME LockTypeOK, NEW k \in 1..Len(stack)
  PROVE  /\ stack[k] \in Frames
         /\ stack[k].lock \in Locks \union {NoLock}
         /\ stack[k].tpl \in Nat /\ stack[k].tpl \in Levels
         /\ stack[k].stage \in {"task", "raised", "held", "dropping"}
         /\ stack[k].old \in 0..MaxTpl
<1>1. stack[k] \in Frames
  BY DEF LockTypeOK
<1> QED BY <1>1, LevelsAssumption DEF Frames, Levels

-----------------------------------------------------------------------------
\* The heart of mutual exclusion: code that runs at or below the TPL of a lock
\* it does not hold itself finds no entry for that lock.
LEMMA LockIsFree ==
  ASSUME LockInv, NEW l \in Locks, tpl <= LockTpl[l], ~Mine(l)
  PROVE  \A k \in 1..Len(stack) : stack[k].lock # l
<1> DEFINE n == Len(stack)
<1>0. n \in Nat /\ n >= 1 /\ tpl = stack[n].tpl
  BY DEF LockInv, LockTypeOK, Ordered, Top
<1> SUFFICES ASSUME NEW k \in 1..n, stack[k].lock = l PROVE FALSE
  OBVIOUS
<1>1. stack[k].stage # "task" /\ k > 1
  BY NoLockAssumption DEF LockInv, Ordered
<1>2. PICK j \in k..n : stack[j].stage = "task"
  BY DEF Mine
<1>3. j > k /\ j \in 1..n
  BY <1>0, <1>1, <1>2
<1>4. CASE Raises
  <2>1. stack[k].tpl = LockTpl[l]
    BY <1>1, <1>4 DEF LockInv, Located
  <2>2. stack[k].tpl < stack[j].tpl
    BY <1>2, <1>3 DEF LockInv, Ordered
  <2>3. stack[j].tpl <= stack[n].tpl
    <3>1. stack[j].tpl \in Nat
      BY <1>3, EntryType DEF LockInv
    <3>2. CASE j = n
      BY <3>1, <3>2
    <3>3. CASE j < n
      BY <1>0, <1>3, <3>3 DEF LockInv, Ordered
    <3> QED BY <1>0, <1>3, <3>2, <3>3
  <2>4. stack[k].tpl \in Nat /\ stack[j].tpl \in Nat /\ stack[n].tpl \in Nat
    BY <1>0, <1>3, EntryType DEF LockInv
  <2> QED BY <1>0, <2>1, <2>2, <2>3, <2>4
<1>5. CASE ~Raises
  BY <1>1, <1>2, <1>3, <1>5 DEF LockInv, Located
<1> QED BY <1>4, <1>5

-----------------------------------------------------------------------------
(* One lemma per action. *)

LEMMA RaiseTPLKeeps ==
  ASSUME LockInv, NEW l \in Locks, RaiseTPL(l)
  PROVE  LockInv'
<1> DEFINE n == Len(stack)
           e == Taking(l, tpl', IF Raises THEN tpl ELSE ownerTpl[l])
<1>0. /\ n \in Nat /\ n >= 1 /\ tpl = stack[n].tpl
      /\ tpl \in Nat /\ LockTpl[l] \in Levels /\ LockTpl[l] \in Nat
  BY LockTplAssumption, LevelsAssumption DEF LockInv, LockTypeOK, Ordered, Top, Levels
<1>1. /\ e \in Frames
      /\ e.lock = l /\ e.tpl = tpl' /\ e.stage = "raised"
      /\ Raises => e.old = tpl
  BY <1>0, LevelsAssumption DEF LockInv, LockTypeOK, RaiseTPL, Taking, Frames, Levels
<1> HIDE DEF e
<1>2. /\ stack' \in Seq(Frames)
      /\ Len(stack') = n + 1
      /\ \A k \in 1..n : stack'[k] = stack[k]
      /\ stack'[n + 1] = e
  BY <1>1, Push DEF LockInv, LockTypeOK, RaiseTPL, e
<1>3. /\ Raises' = Raises /\ tpl <= tpl' /\ tpl' \in Levels
      /\ Raises => tpl' = LockTpl[l]
      /\ ~Raises => tpl' = tpl
      /\ ownerTpl' = ownerTpl /\ cnt' = cnt /\ bs' = bs
  BY <1>0 DEF RaiseTPL, Raises, LockInv, LockTypeOK, Levels
<1>4. \A k \in 1..n : stack[k].lock # l
  BY LockIsFree DEF RaiseTPL
<1>5. LockTypeOK'
  BY <1>2, <1>3 DEF LockInv, LockTypeOK
<1>6. \A k \in 1..n : stack[k].tpl \in Nat /\ stack[k].tpl <= tpl
  <2>1. SUFFICES ASSUME NEW k \in 1..n PROVE stack[k].tpl \in Nat /\ stack[k].tpl <= tpl
    OBVIOUS
  <2>2. stack[k].tpl \in Nat
    BY EntryType DEF LockInv
  <2>3. CASE k = n
    BY <1>0, <2>2, <2>3
  <2>4. CASE k < n
    BY <1>0, <2>2, <2>4 DEF LockInv, Ordered
  <2> QED BY <1>0, <2>2, <2>3, <2>4
<1>7. Ordered'
  <2>1. Len(stack') >= 1 /\ stack'[1].stage = "task" /\ tpl' = Top'.tpl
    BY <1>0, <1>1, <1>2 DEF LockInv, Ordered, Top
  <2>2. \A k \in 1..Len(stack') : stack'[k].stage = "task" <=> stack'[k].lock = NoLock
    BY <1>0, <1>1, <1>2, NoLockAssumption DEF LockInv, Ordered
  <2>3. ASSUME NEW i \in 1..Len(stack'), NEW j \in 1..Len(stack'), i < j
        PROVE  /\ stack'[i].tpl <= stack'[j].tpl
               /\ stack'[j].stage = "task" => stack'[i].tpl < stack'[j].tpl
    <3>1. CASE j = n + 1
      <4>1. i \in 1..n
        BY <1>0, <1>2, <2>3, <3>1
      <4>2. stack[i].tpl \in Nat /\ stack[i].tpl <= tpl /\ tpl' \in Nat
        BY <1>3, <1>6, <4>1 DEF Levels
      <4> QED BY <1>0, <1>1, <1>2, <1>3, <3>1, <4>1, <4>2
    <3>2. CASE j # n + 1
      <4>1. i \in 1..n /\ j \in 1..n
        BY <1>0, <1>2, <2>3, <3>2
      <4> QED BY <1>2, <2>3, <4>1 DEF LockInv, Ordered
    <3> QED BY <3>1, <3>2
  <2> QED BY <2>1, <2>2, <2>3 DEF Ordered
<1>8. Located'
  <2>1. CASE Raises
    BY <1>0, <1>1, <1>2, <1>3, <2>1 DEF LockInv, Located
  <2>2. CASE ~Raises
    BY <1>0, <1>1, <1>2, <1>3, <2>2 DEF LockInv, Located
  <2> QED BY <2>1, <2>2
<1>9. Saved'
  <2> SUFFICES ASSUME Raises, NEW k \in 2..Len(stack')
               PROVE  IF stack'[k].stage = "held"
                        THEN ownerTpl'[stack'[k].lock] = stack'[k - 1].tpl
                        ELSE stack'[k].old = stack'[k - 1].tpl
    BY <1>3 DEF Saved
  <2>1. CASE k = n + 1
    BY <1>0, <1>1, <1>2, <2>1
  <2>2. CASE k # n + 1
    <3>1. k \in 2..n /\ k \in 1..n /\ k - 1 \in 1..n
      BY <1>0, <1>2, <2>2
    <3> QED BY <1>2, <1>3, <3>1 DEF LockInv, Saved
  <2> QED BY <2>1, <2>2
<1>10. Unique'
  <2>1. SUFFICES ASSUME NEW i \in 1..(n + 1), NEW j \in 1..(n + 1),
                        stack'[i].lock = stack'[j].lock, stack'[i].lock # NoLock
                 PROVE  i = j
    BY <1>2 DEF Unique
  <2>2. CASE i \in 1..n /\ j \in 1..n
    BY <1>2, <2>1, <2>2 DEF LockInv, Unique
  <2>3. CASE i = n + 1 /\ j # n + 1
    BY <1>0, <1>1, <1>2, <1>4, <2>1, <2>3
  <2>4. CASE j = n + 1 /\ i # n + 1
    BY <1>0, <1>1, <1>2, <1>4, <2>1, <2>4
  <2> QED BY <1>0, <2>2, <2>3, <2>4
<1>11. Counted'
  <2> SUFFICES ASSUME NEW c \in Locks
               PROVE  (\E k \in 1..Len(stack') : stack'[k].lock = c /\ stack'[k].stage = "held")
                      <=> \E k \in 1..n : stack[k].lock = c /\ stack[k].stage = "held"
    BY <1>3 DEF LockInv, Counted
  <2> QED BY <1>0, <1>1, <1>2
<1> QED BY <1>5, <1>7, <1>8, <1>9, <1>10, <1>11 DEF LockInv

LEMMA NotifyKeeps ==
  ASSUME LockInv, NEW t \in Levels, Notify(t)
  PROVE  LockInv'
<1> DEFINE n == Len(stack)
           e == Task(t, tpl)
<1>0. n \in Nat /\ n >= 1 /\ tpl = stack[n].tpl /\ tpl \in Nat /\ t \in Nat /\ t > tpl
  BY LevelsAssumption DEF LockInv, LockTypeOK, Ordered, Top, Levels, Notify
<1>1. /\ e \in Frames
      /\ e.lock = NoLock /\ e.tpl = t /\ e.stage = "task" /\ e.old = tpl
  BY <1>0, LevelsAssumption DEF LockInv, LockTypeOK, Task, Frames, Levels
<1> HIDE DEF e
<1>2. /\ stack' \in Seq(Frames)
      /\ Len(stack') = n + 1
      /\ \A k \in 1..n : stack'[k] = stack[k]
      /\ stack'[n + 1] = e
  BY <1>1, Push DEF LockInv, LockTypeOK, Notify, e
<1>3. Raises' = Raises /\ Raises /\ tpl' = t /\ ownerTpl' = ownerTpl /\ cnt' = cnt /\ bs' = bs
  BY DEF Notify, Raises
<1>5. LockTypeOK'
  BY <1>2, <1>3 DEF LockInv, LockTypeOK
<1>6. \A k \in 1..n : stack[k].tpl \in Nat /\ stack[k].tpl <= tpl
  <2>1. SUFFICES ASSUME NEW k \in 1..n PROVE stack[k].tpl \in Nat /\ stack[k].tpl <= tpl
    OBVIOUS
  <2>2. stack[k].tpl \in Nat
    BY EntryType DEF LockInv
  <2>3. CASE k = n
    BY <1>0, <2>2, <2>3
  <2>4. CASE k < n
    BY <1>0, <2>2, <2>4 DEF LockInv, Ordered
  <2> QED BY <1>0, <2>2, <2>3, <2>4
<1>7. Ordered'
  <2>1. Len(stack') >= 1 /\ stack'[1].stage = "task" /\ tpl' = Top'.tpl
    BY <1>0, <1>1, <1>2, <1>3 DEF LockInv, Ordered, Top
  <2>2. \A k \in 1..Len(stack') : stack'[k].stage = "task" <=> stack'[k].lock = NoLock
    BY <1>0, <1>1, <1>2 DEF LockInv, Ordered
  <2>3. ASSUME NEW i \in 1..Len(stack'), NEW j \in 1..Len(stack'), i < j
        PROVE  /\ stack'[i].tpl <= stack'[j].tpl
               /\ stack'[j].stage = "task" => stack'[i].tpl < stack'[j].tpl
    <3>1. CASE j = n + 1
      <4>1. i \in 1..n
        BY <1>0, <1>2, <2>3, <3>1
      <4>2. stack[i].tpl \in Nat /\ stack[i].tpl <= tpl
        BY <1>6, <4>1
      <4> QED BY <1>0, <1>1, <1>2, <3>1, <4>1, <4>2
    <3>2. CASE j # n + 1
      <4>1. i \in 1..n /\ j \in 1..n
        BY <1>0, <1>2, <2>3, <3>2
      <4> QED BY <1>2, <2>3, <4>1 DEF LockInv, Ordered
    <3> QED BY <3>1, <3>2
  <2> QED BY <2>1, <2>2, <2>3 DEF Ordered
<1>8. Located'
  BY <1>0, <1>1, <1>2, <1>3 DEF LockInv, Located
<1>9. Saved'
  <2> SUFFICES ASSUME NEW k \in 2..Len(stack')
               PROVE  IF stack'[k].stage = "held"
                        THEN ownerTpl'[stack'[k].lock] = stack'[k - 1].tpl
                        ELSE stack'[k].old = stack'[k - 1].tpl
    BY DEF Saved
  <2>1. CASE k = n + 1
    BY <1>0, <1>1, <1>2, <2>1
  <2>2. CASE k # n + 1
    <3>1. k \in 2..n /\ k \in 1..n /\ k - 1 \in 1..n
      BY <1>0, <1>2, <2>2
    <3> QED BY <1>2, <1>3, <3>1 DEF LockInv, Saved
  <2> QED BY <2>1, <2>2
<1>10. Unique'
  BY <1>0, <1>1, <1>2 DEF LockInv, Unique
<1>11. Counted'
  <2> SUFFICES ASSUME NEW c \in Locks
               PROVE  (\E k \in 1..Len(stack') : stack'[k].lock = c /\ stack'[k].stage = "held")
                      <=> \E k \in 1..n : stack[k].lock = c /\ stack[k].stage = "held"
    BY <1>3 DEF LockInv, Counted
  <2> QED BY <1>0, <1>1, <1>2
<1> QED BY <1>5, <1>7, <1>8, <1>9, <1>10, <1>11 DEF LockInv

\* The two steps that only update the lock on top keep the order of the stack
\* and the places of the locks.
LEMMA RestageKeeps ==
  ASSUME LockInv, Top.stage # "task", NEW stage \in {"raised", "held", "dropping"},
         NEW old \in 0..MaxTpl, stack' = Restaged(stage, old), tpl' = tpl, bs' = bs
  PROVE  Ordered' /\ Located' /\ Unique'
<1> DEFINE n == Len(stack)
<1>0. n \in Nat /\ n >= 2 /\ n \in 1..n /\ Top = stack[n] /\ stack \in Seq(Frames)
  BY DEF LockInv, LockTypeOK, Ordered, Top
<1>1. /\ Len(stack') = n
      /\ \A k \in 1..(n - 1) : stack'[k] = stack[k]
      /\ stack'[n].lock = stack[n].lock /\ stack'[n].tpl = stack[n].tpl
      /\ stack'[n].stage # "task"
  BY <1>0, Restage
<1>2. /\ Len(stack') = n
      /\ \A k \in 1..n : /\ stack'[k].lock = stack[k].lock
                         /\ stack'[k].tpl = stack[k].tpl
                         /\ stack'[k].stage = "task" <=> stack[k].stage = "task"
  BY <1>0, <1>1
<1>3. Ordered'
  <2>1. Len(stack') >= 1 /\ stack'[1].stage = "task" /\ tpl' = Top'.tpl
    BY <1>0, <1>2 DEF LockInv, Ordered, Top
  <2>2. \A k \in 1..n : stack'[k].stage = "task" <=> stack'[k].lock = NoLock
    BY <1>2 DEF LockInv, Ordered
  <2>3. \A i, j \in 1..n :
          i < j => /\ stack'[i].tpl <= stack'[j].tpl
                   /\ stack'[j].stage = "task" => stack'[i].tpl < stack'[j].tpl
    BY <1>2 DEF LockInv, Ordered
  <2> QED BY <1>2, <2>1, <2>2, <2>3 DEF Ordered
<1>4. Located'
  BY <1>2 DEF LockInv, Located, Raises
<1>5. Unique'
  BY <1>2 DEF LockInv, Unique
<1> QED BY <1>3, <1>4, <1>5

LEMMA TakeLockKeeps ==
  ASSUME LockInv, TakeLock
  PROVE  LockInv'
<1> DEFINE n == Len(stack)
           l == stack[n].lock
<1>0. /\ n \in Nat /\ n >= 2 /\ n \in 1..n /\ Top = stack[n] /\ stack \in Seq(Frames)
      /\ stack[n].stage = "raised"
  BY DEF LockInv, LockTypeOK, Ordered, Top, TakeLock
<1>1. l \in Locks /\ stack[n].old \in 0..MaxTpl
  BY <1>0, EntryType DEF LockInv, Ordered
<1>2. /\ ownerTpl' = [ownerTpl EXCEPT ![l] = stack[n].old]
      /\ cnt' = [cnt EXCEPT ![l] = cnt[l] + 1]
      /\ bs' = bs /\ tpl' = tpl
      /\ stack' = Restaged("held", stack[n].old)
  BY <1>0 DEF TakeLock
<1>3. /\ stack' \in Seq(Frames)
      /\ Len(stack') = n
      /\ \A k \in 1..(n - 1) : stack'[k] = stack[k]
      /\ stack'[n].lock = l /\ stack'[n].tpl = stack[n].tpl /\ stack'[n].stage = "held"
  BY <1>0, <1>1, <1>2, Restage
<1>4. Ordered' /\ Located' /\ Unique'
  BY <1>0, <1>1, <1>2, RestageKeeps
<1>5. LockTypeOK'
  BY <1>1, <1>2, <1>3 DEF LockInv, LockTypeOK
<1>6. \A k \in 1..(n - 1) : stack[k].lock # l
  BY <1>0, <1>1, NoLockAssumption DEF LockInv, Unique
<1>7. Saved'
  <2> SUFFICES ASSUME Raises, NEW k \in 2..n
               PROVE  IF stack'[k].stage = "held"
                        THEN ownerTpl'[stack'[k].lock] = stack'[k - 1].tpl
                        ELSE stack'[k].old = stack'[k - 1].tpl
    BY <1>2, <1>3 DEF Saved, Raises
  <2>1. CASE k = n
    <3>1. stack[n].old = stack[n - 1].tpl
      BY <1>0, <2>1 DEF LockInv, Saved
    <3>2. ownerTpl'[l] = stack[n].old
      BY <1>1, <1>2 DEF LockInv, LockTypeOK
    <3> QED BY <1>0, <1>3, <2>1, <3>1, <3>2
  <2>2. CASE k # n
    <3>1. k \in 1..(n - 1) /\ k - 1 \in 1..(n - 1) /\ k \in 1..n
      BY <1>0, <2>2
    <3>2. ownerTpl'[stack[k].lock] = ownerTpl[stack[k].lock]
      BY <1>1, <1>2, <1>6, <3>1 DEF LockInv, LockTypeOK
    <3> QED BY <1>3, <3>1, <3>2 DEF LockInv, Saved
  <2> QED BY <2>1, <2>2
<1>8. Counted'
  <2> SUFFICES ASSUME NEW c \in Locks
               PROVE  cnt'[c] = IF \E k \in 1..n : stack'[k].lock = c /\ stack'[k].stage = "held"
                                  THEN 1 ELSE 0
    BY <1>3 DEF Counted
  <2>1. CASE c = l
    <3>1. cnt[l] = 0
      BY <1>0, <1>1, <1>6 DEF LockInv, Counted
    <3>2. cnt'[l] = 1
      BY <1>1, <1>2, <3>1 DEF LockInv, LockTypeOK
    <3> QED BY <1>0, <1>3, <2>1, <3>2
  <2>2. CASE c # l
    <3>1. cnt'[c] = cnt[c]
      BY <1>1, <1>2, <2>2 DEF LockInv, LockTypeOK
    <3>2. (\E k \in 1..n : stack'[k].lock = c /\ stack'[k].stage = "held")
          <=> \E k \in 1..n : stack[k].lock = c /\ stack[k].stage = "held"
      BY <1>0, <1>3, <2>2
    <3> QED BY <3>1, <3>2 DEF LockInv, Counted
  <2> QED BY <2>1, <2>2
<1> QED BY <1>4, <1>5, <1>7, <1>8 DEF LockInv

LEMMA DropLockKeeps ==
  ASSUME LockInv, DropLock
  PROVE  LockInv'
<1> DEFINE n == Len(stack)
           l == stack[n].lock
<1>0. /\ n \in Nat /\ n >= 2 /\ n \in 1..n /\ Top = stack[n] /\ stack \in Seq(Frames)
      /\ stack[n].stage = "held"
  BY DEF LockInv, LockTypeOK, Ordered, Top, DropLock
<1>1. l \in Locks
  BY <1>0, EntryType DEF LockInv, Ordered
<1>2. /\ ownerTpl[l] \in 0..MaxTpl
      /\ cnt' = [cnt EXCEPT ![l] = cnt[l] - 1]
      /\ bs' = bs /\ tpl' = tpl /\ ownerTpl' = ownerTpl
      /\ stack' = Restaged("dropping", ownerTpl[l])
  BY <1>0, <1>1 DEF DropLock, LockInv, LockTypeOK
<1>3. /\ stack' \in Seq(Frames)
      /\ Len(stack') = n
      /\ \A k \in 1..(n - 1) : stack'[k] = stack[k]
      /\ stack'[n].lock = l /\ stack'[n].tpl = stack[n].tpl
      /\ stack'[n].stage = "dropping" /\ stack'[n].old = ownerTpl[l]
  BY <1>0, <1>1, <1>2, Restage
<1>4. Ordered' /\ Located' /\ Unique'
  BY <1>0, <1>1, <1>2, RestageKeeps
<1>5. cnt[l] = 1
  BY <1>0, <1>1 DEF LockInv, Counted
<1>6. LockTypeOK'
  BY <1>1, <1>2, <1>3, <1>5 DEF LockInv, LockTypeOK
<1>7. \A k \in 1..(n - 1) : stack[k].lock # l
  BY <1>0, <1>1, NoLockAssumption DEF LockInv, Unique
<1>8. Saved'
  <2> SUFFICES ASSUME Raises, NEW k \in 2..n
               PROVE  IF stack'[k].stage = "held"
                        THEN ownerTpl'[stack'[k].lock] = stack'[k - 1].tpl
                        ELSE stack'[k].old = stack'[k - 1].tpl
    BY <1>2, <1>3 DEF Saved, Raises
  <2>1. CASE k = n
    <3>1. ownerTpl[l] = stack[n - 1].tpl
      BY <1>0, <2>1 DEF LockInv, Saved
    <3> QED BY <1>0, <1>3, <2>1, <3>1
  <2>2. CASE k # n
    <3>1. k \in 1..(n - 1) /\ k - 1 \in 1..(n - 1) /\ k \in 1..n
      BY <1>0, <2>2
    <3> QED BY <1>2, <1>3, <3>1 DEF LockInv, Saved
  <2> QED BY <2>1, <2>2
<1>9. Counted'
  <2> SUFFICES ASSUME NEW c \in Locks
               PROVE  cnt'[c] = IF \E k \in 1..n : stack'[k].lock = c /\ stack'[k].stage = "held"
                                  THEN 1 ELSE 0
    BY <1>3 DEF Counted
  <2>1. CASE c = l
    <3>1. cnt'[l] = 0
      BY <1>1, <1>2, <1>5 DEF LockInv, LockTypeOK
    <3> QED BY <1>0, <1>3, <1>7, <2>1, <3>1
  <2>2. CASE c # l
    <3>1. cnt'[c] = cnt[c]
      BY <1>1, <1>2, <2>2 DEF LockInv, LockTypeOK
    <3>2. (\E k \in 1..n : stack'[k].lock = c /\ stack'[k].stage = "held")
          <=> \E k \in 1..n : stack[k].lock = c /\ stack[k].stage = "held"
      BY <1>0, <1>3, <2>2
    <3> QED BY <3>1, <3>2 DEF LockInv, Counted
  <2> QED BY <2>1, <2>2
<1> QED BY <1>4, <1>6, <1>8, <1>9 DEF LockInv

\* Taking away the top entry when no lock is held by it.
LEMMA PopKeeps ==
  ASSUME LockInv, Len(stack) >= 2, stack' = Below, Top.stage # "held",
         tpl' = stack[Len(stack) - 1].tpl, UNCHANGED <<bs, ownerTpl, cnt>>
  PROVE  LockInv'
<1> DEFINE n == Len(stack)
<1>0. n \in Nat /\ n >= 2 /\ stack \in Seq(Frames) /\ n - 1 \in 1..n
  BY DEF LockInv, LockTypeOK
<1>1. /\ stack' \in Seq(Frames)
      /\ Len(stack') = n - 1
      /\ \A k \in 1..(n - 1) : stack'[k] = stack[k]
  BY <1>0, Pop
<1>2. stack[n - 1].tpl \in Levels
  BY <1>0, EntryType DEF LockInv
<1>3. LockTypeOK'
  BY <1>1, <1>2 DEF LockInv, LockTypeOK
<1>4. Ordered'
  <2>1. Len(stack') >= 1 /\ stack'[1].stage = "task" /\ tpl' = Top'.tpl
    BY <1>0, <1>1 DEF LockInv, Ordered, Top
  <2>2. \A k \in 1..(n - 1) : stack'[k].stage = "task" <=> stack'[k].lock = NoLock
    BY <1>0, <1>1 DEF LockInv, Ordered
  <2>3. \A i, j \in 1..(n - 1) :
          i < j => /\ stack'[i].tpl <= stack'[j].tpl
                   /\ stack'[j].stage = "task" => stack'[i].tpl < stack'[j].tpl
    <3>1. \A k \in 1..(n - 1) : k \in 1..n
      BY <1>0
    <3> QED BY <1>1, <3>1 DEF LockInv, Ordered
  <2> QED BY <1>1, <2>1, <2>2, <2>3 DEF Ordered
<1>5. Located'
  <2>1. ~Raises => tpl' = tpl
    BY <1>0 DEF LockInv, Located
  <2> QED BY <1>0, <1>1, <2>1 DEF LockInv, Located, Raises
<1>6. Saved'
  <2> SUFFICES ASSUME Raises, NEW k \in 2..(n - 1)
               PROVE  IF stack'[k].stage = "held"
                        THEN ownerTpl'[stack'[k].lock] = stack'[k - 1].tpl
                        ELSE stack'[k].old = stack'[k - 1].tpl
    BY <1>1 DEF Saved, Raises
  <2>1. k \in 2..n /\ k \in 1..(n - 1) /\ k - 1 \in 1..(n - 1)
    BY <1>0
  <2> QED BY <1>1, <2>1 DEF LockInv, Saved
<1>7. Unique'
  BY <1>0, <1>1 DEF LockInv, Unique
<1>8. Counted'
  <2> SUFFICES ASSUME NEW c \in Locks
               PROVE  (\E k \in 1..(n - 1) : stack'[k].lock = c /\ stack'[k].stage = "held")
                      <=> \E k \in 1..n : stack[k].lock = c /\ stack[k].stage = "held"
    BY <1>1 DEF LockInv, Counted
  <2>1. stack[n].stage # "held"
    BY DEF Top
  <2>2. \A k \in 1..n : k = n \/ k \in 1..(n - 1)
    BY <1>0
  <2> QED BY <1>0, <1>1, <2>1, <2>2
<1> QED BY <1>3, <1>4, <1>5, <1>6, <1>7, <1>8 DEF LockInv

LEMMA RestoreTPLKeeps ==
  ASSUME LockInv, RestoreTPL
  PROVE  LockInv'
<1> DEFINE n == Len(stack)
<1>0. n \in Nat /\ n >= 2 /\ Top = stack[n] /\ stack[n].stage = "dropping" /\ n \in 1..n
  BY DEF LockInv, LockTypeOK, Ordered, Top, RestoreTPL
<1>1. tpl' = stack[n - 1].tpl
  <2>1. CASE Raises
    BY <1>0, <2>1 DEF LockInv, Saved, RestoreTPL
  <2>2. CASE ~Raises
    BY <1>0, <2>2 DEF LockInv, Located, RestoreTPL
  <2> QED BY <2>1, <2>2
<1> QED BY <1>0, <1>1, PopKeeps DEF RestoreTPL

LEMMA NotifyReturnsKeeps ==
  ASSUME LockInv, NotifyReturns
  PROVE  LockInv'
<1> DEFINE n == Len(stack)
<1>0. n \in Nat /\ n >= 2 /\ Top = stack[n] /\ stack[n].stage = "task" /\ n \in 1..n
  BY DEF LockInv, LockTypeOK, Ordered, Top, NotifyReturns
<1>1. Raises
  BY <1>0 DEF LockInv, Located
<1>2. tpl' = stack[n - 1].tpl
  BY <1>0, <1>1 DEF LockInv, Saved, NotifyReturns
<1> QED BY <1>0, <1>2, PopKeeps DEF NotifyReturns

LEMMA ExitBootServicesKeeps ==
  ASSUME LockInv, ExitBootServices
  PROVE  LockInv'
<1>1. Len(stack) = 1 /\ stack' = stack /\ tpl' = tpl /\ ownerTpl' = ownerTpl /\ cnt' = cnt
  BY DEF ExitBootServices
<1>2. LockTypeOK' /\ Ordered' /\ Unique' /\ Counted'
  BY <1>1 DEF LockInv, LockTypeOK, Ordered, Unique, Counted, Top, ExitBootServices
<1>3. Located'
  <2>1. \A k \in 1..Len(stack) : k = 1 /\ stack[k].tpl = tpl /\ stack[k].stage = "task"
    BY <1>1 DEF LockInv, Ordered, Top
  <2>2. \A k \in 1..Len(stack') :
          k = 1 /\ stack'[k].tpl = tpl' /\ stack'[k].stage = "task"
    BY <1>1, <2>1, Zenon
  <2> QED BY <2>2 DEF Located
<1>4. Saved'
  <2>1. \A k \in 2..Len(stack) : FALSE
    BY <1>1
  <2> QED BY <1>1, <2>1 DEF Saved
<1> QED BY <1>2, <1>3, <1>4 DEF LockInv

-----------------------------------------------------------------------------
\* Everything the argument needs holds all the time.
THEOREM LockInvariant == LockSpec => []LockInv
<1>1. LockInit => LockInv
  <2> SUFFICES ASSUME LockInit PROVE LockInv
    OBVIOUS
  <2>1. /\ stack = <<Task(1, 0)>> /\ Len(stack) = 1 /\ stack[1] = Task(1, 0)
        /\ Task(1, 0) \in Frames /\ stack \in Seq(Frames)
    BY LevelsAssumption DEF LockInit, Task, Frames, Levels
  <2>2. /\ stack[1].lock = NoLock /\ stack[1].tpl = 1 /\ stack[1].stage = "task"
    BY <2>1 DEF Task
  <2>3. LockTypeOK
    BY <2>1, LevelsAssumption DEF LockInit, LockTypeOK, Levels
  <2>4. Ordered /\ Located /\ Saved /\ Unique
    BY <2>1, <2>2 DEF LockInit, Ordered, Located, Saved, Unique, Top, Raises
  <2>5. Counted
    <3>1. \A k \in 1..Len(stack) : stack[k].stage # "held"
      BY <2>1, <2>2
    <3> QED BY <3>1 DEF LockInit, Counted
  <2> QED BY <2>3, <2>4, <2>5 DEF LockInv
<1>2. LockInv /\ [LockNext]_lockVars => LockInv'
  <2> SUFFICES ASSUME LockInv, [LockNext]_lockVars PROVE LockInv'
    OBVIOUS
  <2>1. ASSUME NEW l \in Locks, RaiseTPL(l) PROVE LockInv'
    BY <2>1, RaiseTPLKeeps
  <2>2. CASE TakeLock
    BY <2>2, TakeLockKeeps
  <2>3. CASE DropLock
    BY <2>3, DropLockKeeps
  <2>4. CASE RestoreTPL
    BY <2>4, RestoreTPLKeeps
  <2>5. ASSUME NEW t \in Levels, Notify(t) PROVE LockInv'
    BY <2>5, NotifyKeeps
  <2>6. CASE NotifyReturns
    BY <2>6, NotifyReturnsKeeps
  <2>7. CASE ExitBootServices
    BY <2>7, ExitBootServicesKeeps
  <2>8. CASE UNCHANGED lockVars
    BY <2>8 DEF lockVars, LockInv, LockTypeOK, Ordered, Located, Saved, Unique, Counted, Top, Raises
  <2> QED BY <2>1, <2>2, <2>3, <2>4, <2>5, <2>6, <2>7, <2>8 DEF LockNext
<1> QED BY <1>1, <1>2, PTL DEF LockSpec

\* At most one piece of code is inside a lock, and the ASSERTs of rtlock.c hold.
THEOREM MutualExclusionHolds == LockSpec => []MutualExclusion
<1>1. LockInv => MutualExclusion
  <2> SUFFICES ASSUME LockInv PROVE MutualExclusion
    OBVIOUS
  <2>1. \A k \in 1..Len(stack) : stack[k].stage = "held" => stack[k].lock \in Locks
    BY EntryType DEF LockInv, Ordered
  <2>2. \A k \in 1..Len(stack) : stack[k].stage = "held" => cnt[stack[k].lock] = 1
    BY <2>1 DEF LockInv, Counted
  <2> QED BY <2>2 DEF LockInv, Unique, MutualExclusion
<1> QED BY <1>1, LockInvariant, PTL

\* Releasing a lock and returning from a notification restore the level of the
\* code that continues.
THEOREM RunsAtItsLevelHolds == LockSpec => []RunsAtItsLevel
<1>1. LockInv => RunsAtItsLevel
  BY DEF LockInv, Ordered, RunsAtItsLevel
<1> QED BY <1>1, LockInvariant, PTL

\* The variables keep their types.
THEOREM LockTypeCorrect == LockSpec => []LockTypeOK
<1>1. LockInv => LockTypeOK
  BY DEF LockInv
<1> QED BY <1>1, LockInvariant, PTL

-----------------------------------------------------------------------------
(* Lists. *)

\* RingConsistent is inductive with the types of the variables.
IInv == ListTypeOK /\ RingConsistent

THEOREM InitOK == ListInit => IInv
  BY HeadsAssumption, UnsetAssumption DEF ListInit, IInv, ListTypeOK, RingConsistent, Linked, Nodes

\* InitializeListHead adds a ring of one, or leaves an empty list as it is.
LEMMA InitializeOK ==
  ASSUME IInv, NEW h \in Heads, InitializeListHead(h), UNCHANGED conversion
  PROVE  IInv'
<1> USE HeadsAssumption, UnsetAssumption DEF IInv, ListTypeOK, RingConsistent, Linked, Nodes, conversion
<1>1. CASE h \in ready
  <2>1. flink[h] = h /\ blink[h] = h
    BY <1>1 DEF InitializeListHead, IsListEmpty
  <2>2. flink' = flink /\ blink' = blink /\ ready' = ready /\ linked' = linked
    BY <1>1, <2>1 DEF InitializeListHead
  <2> QED BY <2>2
<1>2. CASE h \notin ready
  <2>1. h \notin Linked
    BY <1>2
  <2>2. \A n \in Linked : flink'[n] = flink[n] /\ blink'[n] = blink[n]
    BY <2>1 DEF InitializeListHead
  <2>3. flink'[h] = h /\ blink'[h] = h /\ Linked' = Linked \union {h}
    BY DEF InitializeListHead
  <2>4. ListTypeOK'
    BY <2>2, <2>3 DEF InitializeListHead
  <2>5. RingConsistent'
    BY <2>1, <2>2, <2>3
  <2> QED BY <2>4, <2>5
<1> QED BY <1>1, <1>2

LEMMA RemoveOK ==
  ASSUME IInv, NEW e \in Entries, RemoveEntryList(e), UNCHANGED conversion
  PROVE  IInv'
<1> USE HeadsAssumption, UnsetAssumption DEF IInv, ListTypeOK, RingConsistent, Linked, Nodes, conversion
<1> DEFINE f == flink[e]  b == blink[e]
<1>1. e \in Linked /\ f \in Linked /\ b \in Linked /\ Linked' = Linked \ {e}
  BY DEF RemoveEntryList
<1>2. \A n \in Linked : /\ flink'[n] = IF n = b THEN f ELSE flink[n]
                        /\ blink'[n] = IF n = f THEN b ELSE blink[n]
  BY DEF RemoveEntryList
<1>3. ListTypeOK'
  BY <1>1, <1>2 DEF RemoveEntryList
<1>4. RingConsistent'
  BY <1>1, <1>2
<1> QED BY <1>3, <1>4

LEMMA InsertTailOK ==
  ASSUME IInv, NEW h \in Heads, NEW e \in Entries, InsertTailList(h, e), UNCHANGED conversion
  PROVE  IInv'
<1> USE HeadsAssumption, UnsetAssumption DEF IInv, ListTypeOK, RingConsistent, Linked, Nodes, conversion
<1> DEFINE b == blink[h]
<1>1. h \in Linked /\ b \in Linked /\ e \notin Linked /\ Linked' = Linked \union {e}
  BY DEF InsertTailList
<1>2. \A n \in Linked \union {e} :
        /\ flink'[n] = IF n = b THEN e ELSE IF n = e THEN h ELSE flink[n]
        /\ blink'[n] = IF n = h THEN e ELSE IF n = e THEN b ELSE blink[n]
  BY <1>1 DEF InsertTailList
<1>3. ListTypeOK'
  BY <1>1, <1>2 DEF InsertTailList
<1>4. RingConsistent'
  BY <1>1, <1>2
<1> QED BY <1>3, <1>4

LEMMA InsertHeadOK ==
  ASSUME IInv, NEW h \in Heads, NEW e \in Entries, InsertHeadList(h, e), UNCHANGED conversion
  PROVE  IInv'
<1> USE HeadsAssumption, UnsetAssumption DEF IInv, ListTypeOK, RingConsistent, Linked, Nodes, conversion
<1> DEFINE f == flink[h]
<1>1. h \in Linked /\ f \in Linked /\ e \notin Linked /\ Linked' = Linked \union {e}
  BY DEF InsertHeadList
<1>2. \A n \in Linked \union {e} :
        /\ flink'[n] = IF n = h THEN e ELSE IF n = e THEN f ELSE flink[n]
        /\ blink'[n] = IF n = f THEN e ELSE IF n = e THEN h ELSE blink[n]
  BY <1>1 DEF InsertHeadList
<1>3. ListTypeOK'
  BY <1>1, <1>2 DEF InsertHeadList
<1>4. RingConsistent'
  BY <1>1, <1>2
<1> QED BY <1>3, <1>4

\* Four pointers change, and some of the nodes they belong to may be the same:
\* Entry2 may come right after Entry1.  It must not come right before it.
LEMMA SwapOK ==
  ASSUME IInv, ~AdjacentSwap, NEW e1 \in Entries, NEW e2 \in Entries,
         SwapListEntries(e1, e2), UNCHANGED conversion
  PROVE  IInv'
<1> USE HeadsAssumption, UnsetAssumption DEF IInv, ListTypeOK, RingConsistent, Linked, Nodes, conversion
<1> DEFINE b1 == blink[e1]  b2 == blink[e2]  f2 == flink[e2]
<1>1. /\ e1 \in Linked /\ e2 \in Linked /\ e1 # e2 /\ b1 # e2 /\ Linked' = Linked
      /\ b1 \in Linked /\ b2 \in Linked /\ f2 \in Linked
  BY DEF SwapListEntries
<1>2. f2 # e1
  BY <1>1
<1>3. \A n \in Linked :
        /\ flink'[n] = IF n = b1 THEN e2 ELSE IF n = e2 THEN e1 ELSE IF n = b2 THEN f2 ELSE flink[n]
        /\ blink'[n] = IF n = e1 THEN e2 ELSE IF n = e2 THEN b1 ELSE IF n = f2 THEN b2 ELSE blink[n]
  BY <1>1 DEF SwapListEntries
<1>4. ListTypeOK'
  BY <1>1, <1>3 DEF SwapListEntries
<1>5. RingConsistent'
  BY <1>1, <1>2, <1>3
<1> QED BY <1>4, <1>5

\* RtConvertList changes no pointer's target, and walks along the nodes only.
LEMMA ConvertOK ==
  ASSUME IInv, ConvertLink \/ \E h \in Heads : RtConvertList(h)
  PROVE  IInv'
<1> USE DEF IInv, ListTypeOK, RingConsistent, Linked, Nodes, lists
<1>1. CASE ConvertLink
  <2>1. link \in Nodes
    BY <1>1 DEF ConvertLink
  <2>2. link' \in Nodes \union {Unset} /\ virtual' \subseteq Nodes \X {"Flink", "Blink"}
    BY <1>1, <2>1 DEF ConvertLink
  <2> QED BY <1>1, <2>2 DEF ConvertLink
<1>2. CASE \E h \in Heads : RtConvertList(h)
  BY <1>2 DEF RtConvertList
<1> QED BY <1>1, <1>2

LEMMA NextOK == ~AdjacentSwap /\ IInv /\ [ListNext]_listVars => IInv'
<1> SUFFICES ASSUME ~AdjacentSwap, IInv, [ListNext]_listVars PROVE IInv'
  OBVIOUS
<1>1. CASE Use
  BY <1>1, InitializeOK, RemoveOK, InsertTailOK, InsertHeadOK, SwapOK DEF Use
<1>2. CASE ConvertLink \/ \E h \in Heads : RtConvertList(h)
  BY <1>2, ConvertOK
<1>3. CASE UNCHANGED listVars
  BY <1>3 DEF listVars, IInv, ListTypeOK, RingConsistent, Linked
<1> QED BY <1>1, <1>2, <1>3 DEF ListNext

THEOREM IInvariant == ASSUME ~AdjacentSwap PROVE ListSpec => []IInv
  BY InitOK, NextOK, PTL DEF ListSpec

\* The lists of efilink.h stay rings: no sequence of macro calls leaves a
\* pointer to a removed entry, or a Flink and a Blink that disagree.
THEOREM RingConsistentHolds == ASSUME ~AdjacentSwap PROVE ListSpec => []RingConsistent
  BY IInvariant, PTL DEF IInv

\* The model's variables keep their types.
THEOREM ListTypeCorrect == ASSUME ~AdjacentSwap PROVE ListSpec => []ListTypeOK
  BY IInvariant, PTL DEF IInv

-----------------------------------------------------------------------------
(* The lists as sequences. *)

\* The i-th element of the ring of h, whose entries are s, and the next one.
Elt(s, h, i) == IF i = 0 THEN h ELSE s[i]
Succ(s, h, i) == IF i < Len(s) THEN s[i + 1] ELSE h

\* The links f of the heads lv and the entries ln represent the sequences s.
Represents(f, lv, ln, s) ==
  /\ s \in [Heads -> Seq(Entries)]
  /\ \A h \in lv : \A i \in 0..Len(s[h]) : f[Elt(s[h], h, i)] = Succ(s[h], h, i)
  /\ \A h \in Heads \ lv : s[h] = <<>>
  /\ \A h, g \in Heads : \A i \in 1..Len(s[h]), j \in 1..Len(s[g]) :
       s[h][i] = s[g][j] => h = g /\ i = j
  /\ \A e \in Entries : e \in ln <=> \E h \in Heads : \E i \in 1..Len(s[h]) : s[h][i] = e

\* No node is in two places.
LEMMA Distinct ==
  ASSUME NEW f, NEW lv, NEW ln, NEW s, Represents(f, lv, ln, s)
  PROVE  \A h, g \in Heads : \A i \in 0..Len(s[h]), j \in 0..Len(s[g]) :
           Elt(s[h], h, i) = Elt(s[g], g, j) => h = g /\ i = j
<1> TAKE h, g \in Heads
<1> TAKE i \in 0..Len(s[h]), j \in 0..Len(s[g])
<1>1. s[h] \in Seq(Entries) /\ s[g] \in Seq(Entries)
  BY DEF Represents
<1>2. (i # 0 => i \in 1..Len(s[h]) /\ s[h][i] \in Entries) /\ (j # 0 => j \in 1..Len(s[g]) /\ s[g][j] \in Entries)
  BY <1>1
<1> QED BY <1>2, HeadsAssumption DEF Represents, Elt

LEMMA InNodes ==
  ASSUME NEW s \in Seq(Entries), NEW h \in Heads, NEW i \in 0..Len(s)
  PROVE  Elt(s, h, i) \in Nodes /\ Succ(s, h, i) \in Nodes
BY DEF Elt, Succ, Nodes

\* What an insertion into a sequence and a removal from it give.
LEMMA InsertedElements ==
  ASSUME NEW s \in Seq(Entries), NEW e \in Entries, NEW m \in 1..(Len(s) + 1)
  PROVE  LET t == SubSeq(s, 1, m - 1) \o <<e>> \o SubSeq(s, m, Len(s))
         IN  /\ t \in Seq(Entries) /\ Len(t) = Len(s) + 1
             /\ \A i \in 1..(Len(s) + 1) : t[i] = IF i < m THEN s[i] ELSE IF i = m THEN e ELSE s[i - 1]
<1> DEFINE l == SubSeq(s, 1, m - 1)  r == SubSeq(s, m, Len(s))  k == l \o <<e>>  t == k \o r
<1>0. Len(s) \in Nat /\ m \in Nat
  BY LenProperties
<1>1. /\ l \in Seq(Entries) /\ Len(l) = m - 1
      /\ \A i \in 1..(m - 1) : l[i] = s[i]
  BY SubSeqProperties
<1>2. /\ r \in Seq(Entries) /\ Len(r) = Len(s) - m + 1
      /\ \A i \in 1..(Len(s) - m + 1) : r[i] = s[i + m - 1]
  BY SubSeqProperties
<1>3. <<e>> \in Seq(Entries) /\ Len(<<e>>) = 1 /\ <<e>>[1] = e
  OBVIOUS
<1> HIDE DEF l, r
<1>4. /\ k \in Seq(Entries) /\ Len(k) = m
      /\ \A i \in 1..m : k[i] = IF i <= m - 1 THEN l[i] ELSE <<e>>[i - (m - 1)]
  BY <1>1, <1>3, ConcatProperties
<1> HIDE DEF k
<1>5. /\ t \in Seq(Entries) /\ Len(t) = m + (Len(s) - m + 1)
      /\ \A i \in 1..(m + (Len(s) - m + 1)) : t[i] = IF i <= m THEN k[i] ELSE r[i - m]
  <2>1. /\ t \in Seq(Entries) /\ Len(t) = Len(k) + Len(r)
        /\ \A i \in 1..(Len(k) + Len(r)) : t[i] = IF i <= Len(k) THEN k[i] ELSE r[i - Len(k)]
    BY <1>2, <1>4, ConcatProperties
  <2> HIDE DEF t
  <2> QED BY <1>2, <1>4, <2>1
<1> HIDE DEF t
<1>6. Len(t) = Len(s) + 1
  BY <1>0, <1>5
<1>7. ASSUME NEW i \in 1..(Len(s) + 1)
      PROVE  t[i] = IF i < m THEN s[i] ELSE IF i = m THEN e ELSE s[i - 1]
  <2>1. t[i] = IF i <= m THEN k[i] ELSE r[i - m]
    BY <1>0, <1>5
  <2>2. CASE i < m
    BY <1>1, <1>4, <2>1, <2>2
  <2>3. CASE i = m
    BY <1>3, <1>4, <2>1, <2>3
  <2>4. CASE i > m
    <3>1. i - m \in 1..(Len(s) - m + 1) /\ i - m + m - 1 = i - 1
      BY <2>4
    <3>2. r[i - m] = s[i - m + m - 1]
      BY <1>2, <3>1
    <3> QED BY <2>1, <2>4, <3>1, <3>2
  <2> QED BY <2>2, <2>3, <2>4
<1> QED BY <1>5, <1>6, <1>7 DEF t, k, l, r

LEMMA RemainingElements ==
  ASSUME NEW s \in Seq(Entries), NEW m \in 1..Len(s)
  PROVE  LET t == SubSeq(s, 1, m - 1) \o SubSeq(s, m + 1, Len(s))
         IN  /\ t \in Seq(Entries) /\ Len(t) = Len(s) - 1
             /\ \A i \in 1..(Len(s) - 1) : t[i] = IF i < m THEN s[i] ELSE s[i + 1]
<1> DEFINE l == SubSeq(s, 1, m - 1)  r == SubSeq(s, m + 1, Len(s))  t == l \o r
<1>0. Len(s) \in Nat /\ m \in Nat
  BY LenProperties
<1>1. /\ l \in Seq(Entries) /\ Len(l) = m - 1
      /\ \A i \in 1..(m - 1) : l[i] = s[i]
  BY SubSeqProperties
<1>2. /\ r \in Seq(Entries) /\ Len(r) = Len(s) - m
      /\ \A i \in 1..(Len(s) - m) : r[i] = s[i + m]
  <2>1. m + 1 \in 1..(Len(s) + 1)
    OBVIOUS
  <2> QED BY <2>1, SubSeqProperties
<1> HIDE DEF l, r
<1>3. /\ t \in Seq(Entries) /\ Len(t) = (m - 1) + (Len(s) - m)
      /\ \A i \in 1..((m - 1) + (Len(s) - m)) : t[i] = IF i <= m - 1 THEN l[i] ELSE r[i - (m - 1)]
  <2>1. /\ t \in Seq(Entries) /\ Len(t) = Len(l) + Len(r)
        /\ \A i \in 1..(Len(l) + Len(r)) : t[i] = IF i <= Len(l) THEN l[i] ELSE r[i - Len(l)]
    BY <1>1, <1>2, ConcatProperties
  <2> HIDE DEF t
  <2> QED BY <1>1, <1>2, <2>1
<1> HIDE DEF t
<1>4. Len(t) = Len(s) - 1
  BY <1>0, <1>3
<1>5. ASSUME NEW i \in 1..(Len(s) - 1)
      PROVE  t[i] = IF i < m THEN s[i] ELSE s[i + 1]
  <2>1. t[i] = IF i <= m - 1 THEN l[i] ELSE r[i - (m - 1)]
    BY <1>0, <1>3
  <2>2. CASE i < m
    BY <1>0, <1>1, <2>1, <2>2
  <2>3. CASE i >= m
    <3>1. i - (m - 1) \in 1..(Len(s) - m) /\ i - (m - 1) + m = i + 1
      BY <2>3
    <3>2. r[i - (m - 1)] = s[i - (m - 1) + m]
      BY <1>2, <3>1
    <3> QED BY <2>1, <2>3, <3>1, <3>2
  <2> QED BY <2>2, <2>3
<1> QED BY <1>3, <1>4, <1>5 DEF t, l, r
\* Entry e is put at place m of the list of h: two Flinks change.
LEMMA InsertRepresents ==
  ASSUME NEW f \in [Nodes -> Nodes \union {Unset}], NEW lv \in SUBSET Heads, NEW ln, NEW s,
         Represents(f, lv, ln, s),
         NEW h \in lv, NEW e \in Entries, e \notin ln, NEW m \in 1..(Len(s[h]) + 1),
         NEW t \in Seq(Entries), Len(t) = Len(s[h]) + 1,
         \A i \in 1..(Len(s[h]) + 1) : t[i] = IF i < m THEN s[h][i] ELSE IF i = m THEN e ELSE s[h][i - 1]
  PROVE  Represents([f EXCEPT ![e] = Succ(s[h], h, m - 1), ![Elt(s[h], h, m - 1)] = e],
                    lv, ln \union {e}, [s EXCEPT ![h] = t])
<1> DEFINE before == Elt(s[h], h, m - 1)  after == Succ(s[h], h, m - 1)
           f1 == [f EXCEPT ![e] = after, ![before] = e]
           s1 == [s EXCEPT ![h] = t]
<1>1. /\ h \in Heads /\ s \in [Heads -> Seq(Entries)] /\ Len(s[h]) \in Nat
      /\ e \in Nodes /\ e \notin Heads
      /\ \A g \in Heads : \A i \in 1..Len(s[g]) : s[g][i] # e
  BY HeadsAssumption, LenProperties DEF Represents, Nodes
<1>2. before \in Nodes /\ before # e /\ after \in Nodes
  <2>1. m - 1 \in 0..Len(s[h])
    BY <1>1
  <2>2. before \in Nodes /\ after \in Nodes
    BY <1>1, <2>1, InNodes
  <2>3. before # e
    BY <1>1, <2>1 DEF Elt
  <2> QED BY <2>2, <2>3
<1>3. /\ f1[e] = after /\ f1[before] = e
      /\ \A n \in Nodes : n # e /\ n # before => f1[n] = f[n]
  BY <1>1, <1>2
<1>4. s1 \in [Heads -> Seq(Entries)] /\ s1[h] = t /\ \A g \in Heads \ {h} : s1[g] = s[g]
  BY <1>1
<1> HIDE DEF f1, s1
<1>5. ASSUME NEW g \in lv, NEW i \in 0..Len(s1[g]) PROVE f1[Elt(s1[g], g, i)] = Succ(s1[g], g, i)
  <2>1. CASE g # h
    <3>1. g \in Heads /\ s1[g] = s[g] /\ i \in 0..Len(s[g])
      BY <1>4, <2>1
    <3>2. Elt(s[g], g, i) \in Nodes /\ Elt(s[g], g, i) # before /\ Elt(s[g], g, i) # e
      <4>1. m - 1 \in 0..Len(s[h]) /\ s[g] \in Seq(Entries)
        BY <1>1, <3>1
      <4>2. Elt(s[g], g, i) \in Nodes
        BY <3>1, <4>1, InNodes
      <4>3. Elt(s[g], g, i) # before
        BY <1>1, <2>1, <3>1, <4>1, Distinct
      <4>4. Elt(s[g], g, i) # e
        BY <1>1, <3>1 DEF Elt
      <4> QED BY <4>2, <4>3, <4>4
    <3>3. f[Elt(s[g], g, i)] = Succ(s[g], g, i)
      BY <3>1 DEF Represents
    <3> QED BY <1>3, <3>1, <3>2, <3>3
  <2>2. CASE g = h
    <3>1. i \in 0..(Len(s[h]) + 1) /\ s1[g] = t
      BY <1>4, <2>2
    <3>2. ASSUME NEW j \in 0..Len(s[h]), j # m - 1 PROVE f1[Elt(s[h], h, j)] = Succ(s[h], h, j)
      <4>1. m - 1 \in 0..Len(s[h]) /\ s[h] \in Seq(Entries)
        BY <1>1
      <4>2. Elt(s[h], h, j) \in Nodes
        BY <1>1, <4>1, InNodes
      <4>3. Elt(s[h], h, j) # before
        BY <1>1, <3>2, <4>1, Distinct
      <4>4. Elt(s[h], h, j) # e
        BY <1>1 DEF Elt
      <4>5. f[Elt(s[h], h, j)] = Succ(s[h], h, j)
        BY DEF Represents
      <4> QED BY <1>3, <4>2, <4>3, <4>4, <4>5
    <3>3. CASE i < m - 1
      <4>1. i \in 0..Len(s[h]) /\ i + 1 \in 1..(Len(s[h]) + 1) /\ i + 1 < m /\ i < Len(s[h]) /\ i < Len(t)
        BY <1>1, <3>1, <3>3
      <4>2. Elt(t, h, i) = Elt(s[h], h, i)
        BY <1>1, <4>1 DEF Elt
      <4>3. Succ(t, h, i) = Succ(s[h], h, i)
        BY <4>1 DEF Succ
      <4> QED BY <2>2, <3>1, <3>2, <3>3, <4>1, <4>2, <4>3
    <3>4. CASE i = m - 1
      <4>1. Elt(t, h, i) = before
        BY <1>1, <3>4 DEF Elt
      <4>2. Succ(t, h, i) = e
        BY <1>1, <3>4 DEF Succ
      <4> QED BY <1>3, <2>2, <3>1, <4>1, <4>2
    <3>5. CASE i = m
      <4>1. Elt(t, h, i) = e
        BY <1>1, <3>5 DEF Elt
      <4>2. Succ(t, h, i) = after
        BY <1>1, <3>5 DEF Succ
      <4> QED BY <1>3, <2>2, <3>1, <4>1, <4>2
    <3>6. CASE i > m
      <4>1. i - 1 \in 0..Len(s[h]) /\ i - 1 # m - 1 /\ i - 1 # 0
        BY <1>1, <3>1, <3>6
      <4>2. Elt(t, h, i) = Elt(s[h], h, i - 1)
        BY <1>1, <3>1, <3>6 DEF Elt
      <4>3. Succ(t, h, i) = Succ(s[h], h, i - 1)
        BY <1>1, <3>1, <3>6 DEF Succ
      <4> QED BY <2>2, <3>1, <3>2, <4>1, <4>2, <4>3
    <3> QED BY <1>1, <3>1, <3>3, <3>4, <3>5, <3>6
  <2> QED BY <2>1, <2>2
<1>6. \A g \in Heads \ lv : s1[g] = <<>>
  BY <1>4 DEF Represents
<1>7. ASSUME NEW g1 \in Heads, NEW g2 \in Heads, NEW i \in 1..Len(s1[g1]), NEW j \in 1..Len(s1[g2]),
             s1[g1][i] = s1[g2][j]
      PROVE  g1 = g2 /\ i = j
  <2> DEFINE src(g, n) == IF g = h /\ n > m THEN n - 1 ELSE n
  <2>1. ASSUME NEW g \in Heads, NEW n \in 1..Len(s1[g]), ~(g = h /\ n = m)
        PROVE  src(g, n) \in 1..Len(s[g]) /\ s[g][src(g, n)] = s1[g][n] /\ s1[g][n] # e
    <3>1. CASE g = h
      <4>1. n \in 1..(Len(s[h]) + 1) /\ n # m
        BY <1>4, <2>1, <3>1
      <4>2. src(g, n) \in 1..Len(s[h]) /\ s[h][src(g, n)] = t[n]
        BY <1>1, <3>1, <4>1
      <4> HIDE DEF src
      <4> QED BY <1>1, <1>4, <3>1, <4>2
    <3>2. CASE g # h
      <4>1. n \in 1..Len(s[g]) /\ src(g, n) = n /\ s1[g] = s[g]
        BY <1>4, <3>2
      <4> HIDE DEF src
      <4> QED BY <1>1, <4>1
    <3> QED BY <3>1, <3>2
  <2>2. s1[h][m] = e
    BY <1>1, <1>4
  <2>3. CASE (g1 = h /\ i = m) \/ (g2 = h /\ j = m)
    BY <1>7, <2>1, <2>2, <2>3
  <2>4. CASE ~(g1 = h /\ i = m) /\ ~(g2 = h /\ j = m)
    <3>1. /\ src(g1, i) \in 1..Len(s[g1]) /\ s[g1][src(g1, i)] = s1[g1][i]
          /\ src(g2, j) \in 1..Len(s[g2]) /\ s[g2][src(g2, j)] = s1[g2][j]
      BY <2>1, <2>4
    <3>2. g1 = g2 /\ src(g1, i) = src(g2, j)
      <4> HIDE DEF src
      <4> QED BY <1>7, <3>1 DEF Represents
    <3>3. i \in Nat /\ j \in Nat /\ m \in Nat
      BY <1>1, <1>4, LenProperties
    <3> QED BY <2>4, <3>2, <3>3
  <2> QED BY <2>3, <2>4
<1>8. ASSUME NEW d \in Entries
      PROVE  d \in ln \union {e} <=> \E g \in Heads : \E i \in 1..Len(s1[g]) : s1[g][i] = d
  <2>1. CASE d = e
    <3>1. m \in 1..Len(s1[h]) /\ s1[h][m] = e
      BY <1>1, <1>4
    <3> QED BY <1>1, <2>1, <3>1
  <2>2. ASSUME d # e, d \in ln PROVE \E g \in Heads : \E i \in 1..Len(s1[g]) : s1[g][i] = d
    <3>1. PICK g \in Heads : \E i \in 1..Len(s[g]) : s[g][i] = d
      BY <2>2 DEF Represents
    <3>2. PICK i \in 1..Len(s[g]) : s[g][i] = d
      BY <3>1
    <3>3. CASE g # h
      BY <1>4, <3>2, <3>3
    <3>4. CASE g = h /\ i < m
      <4>1. i \in 1..Len(s1[h]) /\ s1[h][i] = d
        BY <1>1, <1>4, <3>2, <3>4
      <4> QED BY <1>1, <4>1
    <3>5. CASE g = h /\ i >= m
      <4>1. i + 1 \in 1..Len(s1[h]) /\ s1[h][i + 1] = d
        BY <1>1, <1>4, <3>2, <3>5
      <4> QED BY <1>1, <4>1
    <3> QED BY <1>1, <3>3, <3>4, <3>5
  <2>3. ASSUME d # e, NEW g \in Heads, NEW i \in 1..Len(s1[g]), s1[g][i] = d PROVE d \in ln
    <3>1. CASE g # h
      BY <1>4, <2>3, <3>1 DEF Represents
    <3>2. CASE g = h
      <4>1. \E j \in 1..Len(s[h]) : s[h][j] = d
        <5>1. CASE i < m
          <6>1. i \in 1..Len(s[h]) /\ s[h][i] = d
            BY <1>1, <1>4, <2>3, <3>2, <5>1
          <6> QED BY <6>1
        <5>2. CASE i > m
          <6>1. i - 1 \in 1..Len(s[h]) /\ s[h][i - 1] = d
            BY <1>1, <1>4, <2>3, <3>2, <5>2
          <6> QED BY <6>1
        <5>3. i # m
          BY <1>1, <1>4, <2>3, <3>2
        <5> QED BY <1>1, <1>4, <3>2, <5>1, <5>2, <5>3
      <4> QED BY <1>1, <4>1 DEF Represents
    <3> QED BY <3>1, <3>2
  <2> QED BY <2>1, <2>2, <2>3
<1>9. Represents(f1, lv, ln \union {e}, s1)
  BY <1>4, <1>5, <1>6, <1>7, <1>8 DEF Represents
<1> QED BY <1>9 DEF f1, s1
\* Entry e at place m of the list of h is taken out: one Flink changes.
LEMMA RemoveRepresents ==
  ASSUME NEW f \in [Nodes -> Nodes \union {Unset}], NEW lv \in SUBSET Heads, NEW ln, NEW s,
         Represents(f, lv, ln, s),
         NEW h \in lv, NEW e, NEW m \in 1..Len(s[h]), s[h][m] = e,
         NEW t \in Seq(Entries), Len(t) = Len(s[h]) - 1,
         \A i \in 1..(Len(s[h]) - 1) : t[i] = IF i < m THEN s[h][i] ELSE s[h][i + 1]
  PROVE  Represents([f EXCEPT ![Elt(s[h], h, m - 1)] = Succ(s[h], h, m)],
                    lv, ln \ {e}, [s EXCEPT ![h] = t])
<1> DEFINE before == Elt(s[h], h, m - 1)  after == Succ(s[h], h, m)
           f1 == [f EXCEPT ![before] = after]
           s1 == [s EXCEPT ![h] = t]
           src(g, n) == IF g = h /\ n >= m THEN n + 1 ELSE n
<1>1. h \in Heads /\ s \in [Heads -> Seq(Entries)] /\ s[h] \in Seq(Entries) /\ Len(s[h]) \in Nat /\ e \in Entries
  BY LenProperties DEF Represents
<1>2. before \in Nodes /\ m - 1 \in 0..Len(s[h])
  BY <1>1, InNodes
<1>3. f1[before] = after /\ \A n \in Nodes : n # before => f1[n] = f[n]
  BY <1>2
<1>4. s1 \in [Heads -> Seq(Entries)] /\ s1[h] = t /\ \A g \in Heads \ {h} : s1[g] = s[g]
  BY <1>1
<1> HIDE DEF f1, s1
<1>5. ASSUME NEW g \in lv, NEW i \in 0..Len(s[g]), ~(g = h /\ i = m - 1)
      PROVE  f1[Elt(s[g], g, i)] = Succ(s[g], g, i)
  <2>1. g \in Heads /\ s[g] \in Seq(Entries)
    BY <1>1
  <2>2. Elt(s[g], g, i) \in Nodes
    BY <2>1, InNodes
  <2>3. Elt(s[g], g, i) # before
    BY <1>1, <1>2, <1>5, <2>1, Distinct
  <2>4. f[Elt(s[g], g, i)] = Succ(s[g], g, i)
    BY DEF Represents
  <2> QED BY <1>3, <2>2, <2>3, <2>4
<1>6. ASSUME NEW g \in lv, NEW i \in 0..Len(s1[g]) PROVE f1[Elt(s1[g], g, i)] = Succ(s1[g], g, i)
  <2>1. CASE g # h
    BY <1>4, <1>5, <2>1
  <2>2. CASE g = h
    <3>1. i \in 0..(Len(s[h]) - 1) /\ s1[g] = t
      BY <1>4, <2>2
    <3>2. CASE i < m - 1
      <4>1. i \in 0..Len(s[h]) /\ i + 1 \in 1..(Len(s[h]) - 1) /\ i + 1 < m /\ i < Len(s[h]) /\ i < Len(t)
        BY <1>1, <3>1, <3>2
      <4>2. Elt(t, h, i) = Elt(s[h], h, i)
        BY <1>1, <4>1 DEF Elt
      <4>3. Succ(t, h, i) = Succ(s[h], h, i)
        BY <4>1 DEF Succ
      <4> QED BY <1>5, <2>2, <3>1, <3>2, <4>1, <4>2, <4>3
    <3>3. CASE i = m - 1
      <4>1. Elt(t, h, i) = before
        BY <1>1, <3>1, <3>3 DEF Elt
      <4>2. Succ(t, h, i) = after
        BY <1>1, <3>1, <3>3 DEF Succ
      <4> QED BY <1>3, <2>2, <3>1, <4>1, <4>2
    <3>4. CASE i > m - 1
      <4>1. i + 1 \in 0..Len(s[h]) /\ i + 1 # m - 1 /\ i # 0
        BY <1>1, <3>1, <3>4
      <4>2. Elt(t, h, i) = Elt(s[h], h, i + 1)
        BY <1>1, <3>1, <3>4, <4>1 DEF Elt
      <4>3. Succ(t, h, i) = Succ(s[h], h, i + 1)
        BY <1>1, <3>1, <3>4 DEF Succ
      <4> QED BY <1>5, <2>2, <3>1, <4>1, <4>2, <4>3
    <3> QED BY <1>1, <3>1, <3>2, <3>3, <3>4
  <2> QED BY <2>1, <2>2
<1>7. \A g \in Heads \ lv : s1[g] = <<>>
  BY <1>4 DEF Represents
<1>8. ASSUME NEW g \in Heads, NEW n \in 1..Len(s1[g])
      PROVE  src(g, n) \in 1..Len(s[g]) /\ s[g][src(g, n)] = s1[g][n] /\ s1[g][n] # e
  <2>1. CASE g = h
    <3>1. n \in 1..(Len(s[h]) - 1)
      BY <1>4, <2>1
    <3>2. src(g, n) \in 1..Len(s[h]) /\ s[h][src(g, n)] = t[n] /\ src(g, n) # m
      BY <1>1, <2>1, <3>1
    <3> HIDE DEF src
    <3>3. s[h][src(g, n)] # e
      BY <1>1, <3>2 DEF Represents
    <3> QED BY <1>1, <1>4, <2>1, <3>2, <3>3
  <2>2. CASE g # h
    <3>1. n \in 1..Len(s[g]) /\ src(g, n) = n /\ s1[g] = s[g]
      BY <1>4, <2>2
    <3> HIDE DEF src
    <3>2. s[g][n] # e
      BY <1>1, <2>2, <3>1 DEF Represents
    <3> QED BY <1>1, <3>1, <3>2
  <2> QED BY <2>1, <2>2
<1>9. ASSUME NEW g1 \in Heads, NEW g2 \in Heads, NEW i \in 1..Len(s1[g1]), NEW j \in 1..Len(s1[g2]),
             s1[g1][i] = s1[g2][j]
      PROVE  g1 = g2 /\ i = j
  <2>1. /\ src(g1, i) \in 1..Len(s[g1]) /\ s[g1][src(g1, i)] = s1[g1][i]
        /\ src(g2, j) \in 1..Len(s[g2]) /\ s[g2][src(g2, j)] = s1[g2][j]
    BY <1>8
  <2>2. g1 = g2 /\ src(g1, i) = src(g2, j)
    <3> HIDE DEF src
    <3> QED BY <1>9, <2>1 DEF Represents
  <2>3. i \in Nat /\ j \in Nat /\ m \in Nat
    BY <1>1, <1>4, LenProperties
  <2> QED BY <2>2, <2>3
<1>10. ASSUME NEW d \in Entries
       PROVE  d \in ln \ {e} <=> \E g \in Heads : \E i \in 1..Len(s1[g]) : s1[g][i] = d
  <2>1. ASSUME d \in ln, d # e PROVE \E g \in Heads : \E i \in 1..Len(s1[g]) : s1[g][i] = d
    <3>1. PICK g \in Heads : \E i \in 1..Len(s[g]) : s[g][i] = d
      BY <2>1 DEF Represents
    <3>2. PICK i \in 1..Len(s[g]) : s[g][i] = d
      BY <3>1
    <3>3. CASE g # h
      BY <1>4, <3>2, <3>3
    <3>4. CASE g = h /\ i < m
      <4>1. i \in 1..Len(s1[h]) /\ s1[h][i] = d
        BY <1>1, <1>4, <3>2, <3>4
      <4> QED BY <1>1, <4>1
    <3>5. CASE g = h /\ i > m
      <4>1. i - 1 \in 1..Len(s1[h]) /\ s1[h][i - 1] = d
        BY <1>1, <1>4, <3>2, <3>5
      <4> QED BY <1>1, <4>1
    <3>6. ~(g = h /\ i = m)
      BY <2>1, <3>2
    <3> QED BY <1>1, <3>3, <3>4, <3>5, <3>6
  <2>2. ASSUME NEW g \in Heads, NEW i \in 1..Len(s1[g]), s1[g][i] = d PROVE d \in ln \ {e}
    <3>1. src(g, i) \in 1..Len(s[g]) /\ s[g][src(g, i)] = d /\ d # e
      BY <1>8, <2>2
    <3> HIDE DEF src
    <3> QED BY <3>1 DEF Represents
  <2> QED BY <2>1, <2>2
<1>11. Represents(f1, lv, ln \ {e}, s1)
  BY <1>4, <1>6, <1>7, <1>9, <1>10 DEF Represents
<1> QED BY <1>11 DEF f1, s1
-----------------------------------------------------------------------------
(* The walk along Flink finds the sequence. *)

\* A property of some number has a least one, which is induction without a
\* predicate parameter.
LEMMA Least ==
  ASSUME NEW T \in SUBSET Nat, NEW n \in T
  PROVE  \E i \in T : i = 0 \/ (i \in Nat \ {0} /\ i - 1 \in Nat /\ i - 1 \notin T)
<1>1. PICK i \in T : \A j \in T : ~(<<j, i>> \in OpToRel(<, Nat))
  BY NatLessThanWellFounded, WFMin
<1>2. \A j \in T : ~(j < i)
  BY <1>1 DEF OpToRel
<1>3. i \in Nat
  BY <1>1
<1>4. i # 0 => i - 1 \in Nat /\ i - 1 < i
  BY <1>3
<1> QED BY <1>2, <1>3, <1>4

\* The equation that defines the walk has a solution.
LEMMA WalkEquation ==
  ASSUME NEW h
  PROVE  Walk(h) = [i \in 0..Cardinality(Nodes) |-> IF i = 0 THEN h ELSE flink[Walk(h)[i - 1]]]
<1> DEFINE N == Cardinality(Nodes)
           Solves(g, m) == g = [i \in 0..m |-> IF i = 0 THEN h ELSE flink[g[i - 1]]]
           T == {m \in Nat : ~ \E g : Solves(g, m)}
<1>1. N \in Nat
  BY FiniteAssumption, FS_CardinalityType DEF Nodes
<1>2. N \notin T
  <2> SUFFICES ASSUME N \in T PROVE FALSE
    OBVIOUS
  <2>1. PICK m \in T : m = 0 \/ (m \in Nat \ {0} /\ m - 1 \in Nat /\ m - 1 \notin T)
    <3>1. T \in SUBSET Nat
      OBVIOUS
    <3> HIDE DEF T
    <3> QED BY <3>1, Least
  <2>2. CASE m = 0
    <3> DEFINE g0 == [i \in 0..0 |-> h]
    <3>1. Solves(g0, 0)
      OBVIOUS
    <3> QED BY <2>1, <2>2, <3>1
  <2>3. CASE m \in Nat \ {0} /\ m - 1 \in Nat /\ m - 1 \notin T
    <3>1. PICK g : Solves(g, m - 1)
      BY <2>3
    <3> DEFINE g1 == [i \in 0..m |-> IF i = m THEN flink[g[m - 1]] ELSE g[i]]
    <3>2. \A i \in 0..(m - 1) : g[i] = IF i = 0 THEN h ELSE flink[g[i - 1]]
      BY <3>1
    <3>3. ASSUME NEW i \in 0..m PROVE g1[i] = IF i = 0 THEN h ELSE flink[g1[i - 1]]
      <4>1. CASE i = m
        <5>1. g1[i] = flink[g[m - 1]] /\ g1[m - 1] = g[m - 1]
          BY <2>3, <4>1
        <5> QED BY <2>3, <4>1, <5>1
      <4>2. CASE i # m
        <5>1. g1[i] = g[i] /\ i \in 0..(m - 1)
          BY <2>3, <4>2
        <5>2. i # 0 => g1[i - 1] = g[i - 1]
          BY <2>3, <4>2, <5>1
        <5> QED BY <3>2, <5>1, <5>2
      <4> QED BY <4>1, <4>2
    <3>4. Solves(g1, m)
      <4>1. DOMAIN g1 = 0..m /\ g1 = [i \in 0..m |-> g1[i]]
        OBVIOUS
      <4> HIDE DEF g1
      <4> QED BY <3>3, <4>1
    <3> QED BY <2>1, <3>4
  <2> QED BY <2>1, <2>2, <2>3
<1>3. \E g : Solves(g, N)
  BY <1>1, <1>2
<1>4. Walk(h) = CHOOSE g : Solves(g, N)
  BY DEF Walk
<1>5. Solves(Walk(h), N)
  <2> HIDE DEF Solves
  <2> QED BY <1>3, <1>4
<1> QED BY <1>5
\* A ring has no more elements than there are nodes, so that the walk is long
\* enough.
LEMMA RingFits ==
  ASSUME NEW f, NEW lv, NEW ln, NEW s, Represents(f, lv, ln, s), NEW h \in Heads
  PROVE  Len(s[h]) + 1 <= Cardinality(Nodes) /\ Len(s[h]) \in Nat /\ Cardinality(Nodes) \in Nat
<1>1. s[h] \in Seq(Entries) /\ Len(s[h]) \in Nat
  BY LenProperties DEF Represents
<1> DEFINE n == Len(s[h])
           at == [i \in 0..n |-> Elt(s[h], h, i)]
<1>2. at \in [0..n -> Nodes]
  BY <1>1, InNodes
<1>3. \A i, j \in 0..n : Elt(s[h], h, i) = Elt(s[h], h, j) => i = j
  BY Distinct
<1>4. at \in Injection(0..n, Nodes)
  BY <1>2, <1>3 DEF Injection, IsInjective
<1>5. IsFiniteSet(Nodes)
  BY FiniteAssumption DEF Nodes
<1> HIDE DEF at
<1>6. Cardinality(0..n) <= Cardinality(Nodes)
  BY <1>4, <1>5, FS_Injection
<1>7. Cardinality(0..n) = n + 1
  BY <1>1, FS_Interval
<1>8. Cardinality(Nodes) \in Nat
  BY <1>5, FS_CardinalityType
<1> QED BY <1>1, <1>6, <1>7, <1>8

\* Chain returns the sequence that the links represent.
LEMMA ChainFollows ==
  ASSUME ready \subseteq Heads, NEW s, Represents(flink, ready, linked, s), NEW h \in ready
  PROVE  Chain(h) = s[h]
<1> DEFINE N == Cardinality(Nodes)  n == Len(s[h])  at == Walk(h)
           back == {i \in 1..N : at[i] = h}
<1>1. /\ h \in Heads /\ s[h] \in Seq(Entries) /\ n \in Nat /\ N \in Nat /\ n + 1 <= N
  <2>1. h \in Heads
    OBVIOUS
  <2>2. n + 1 <= N /\ n \in Nat /\ N \in Nat
    BY <2>1, RingFits
  <2>3. s[h] \in Seq(Entries)
    BY <2>1 DEF Represents
  <2> QED BY <2>1, <2>2, <2>3
<1>2. at[0] = h /\ \A i \in 1..N : at[i] = flink[at[i - 1]]
  <2>1. at = [i \in 0..N |-> IF i = 0 THEN h ELSE flink[at[i - 1]]]
    BY WalkEquation
  <2> HIDE DEF at
  <2> QED BY <1>1, <2>1
<1> HIDE DEF at
<1>3. \A i \in 0..n : flink[Elt(s[h], h, i)] = Succ(s[h], h, i)
  BY DEF Represents
<1>4. ASSUME NEW i \in 0..n PROVE at[i] = Elt(s[h], h, i)
  <2> DEFINE T == {j \in 0..n : at[j] # Elt(s[h], h, j)}
  <2> SUFFICES ASSUME i \in T PROVE FALSE
    OBVIOUS
  <2>1. PICK j \in T : j = 0 \/ (j \in Nat \ {0} /\ j - 1 \in Nat /\ j - 1 \notin T)
    <3>1. T \in SUBSET Nat
      BY <1>1
    <3> HIDE DEF T
    <3> QED BY <3>1, Least
  <2>2. j # 0
    BY <1>2, <2>1 DEF Elt
  <2>3. j - 1 \in 0..n /\ at[j - 1] = Elt(s[h], h, j - 1) /\ j \in 1..N /\ j \in 1..n
    BY <1>1, <2>1, <2>2
  <2>4. at[j] = Succ(s[h], h, j - 1)
    BY <1>2, <1>3, <2>3
  <2>5. Succ(s[h], h, j - 1) = Elt(s[h], h, j)
    BY <1>1, <2>3 DEF Succ, Elt
  <2> QED BY <2>1, <2>4, <2>5
<1>5. n + 1 \in back
  <2>1. n + 1 \in 1..N /\ n \in 0..n /\ n + 1 - 1 = n
    BY <1>1
  <2>2. at[n + 1] = flink[at[n]]
    BY <1>2, <2>1
  <2>3. at[n + 1] = Succ(s[h], h, n)
    BY <1>3, <1>4, <2>1, <2>2
  <2>4. Succ(s[h], h, n) = h
    BY <1>1 DEF Succ
  <2> QED BY <2>1, <2>3, <2>4
<1>6. \A i \in back : n + 1 <= i
  <2> SUFFICES ASSUME NEW i \in back, i <= n PROVE FALSE
    BY <1>1
  <2>1. i \in 1..n
    BY <1>1
  <2>2. at[i] = s[h][i] /\ at[i] = h
    BY <1>1, <1>4, <2>1 DEF Elt
  <2>3. s[h][i] \in Entries
    BY <1>1, <2>1
  <2> QED BY <1>1, <2>2, <2>3, HeadsAssumption
<1>7. (CHOOSE i \in back : \A j \in back : i <= j) = n + 1
  <2>1. \A i \in back : (\A j \in back : i <= j) => i = n + 1
    BY <1>1, <1>5, <1>6
  <2> HIDE DEF back
  <2> QED BY <1>5, <1>6, <2>1
<1>8. Chain(h) = [i \in 1..n |-> at[i]]
  <2>1. back # {} /\ (n + 1) - 1 = n
    BY <1>1, <1>5
  <2>2. Chain(h) = LET len == IF back = {} THEN N ELSE (CHOOSE i \in back : \A j \in back : i <= j) - 1
                   IN  [i \in 1..len |-> at[i]]
    BY DEF Chain, at
  <2> HIDE DEF back
  <2> QED BY <1>7, <2>1, <2>2
<1>9. s[h] = [i \in 1..n |-> s[h][i]]
  BY <1>1, LenProperties
<1>10. \A i \in 1..n : at[i] = s[h][i]
  BY <1>1, <1>4 DEF Elt
<1> QED BY <1>8, <1>9, <1>10
\* The sequences that the lists stand for.
Contents == [h \in Heads |-> IF h \in ready THEN Chain(h) ELSE <<>>]

\* The links represent them.
ListsInv == IInv /\ Represents(flink, ready, linked, Contents)

\* Whatever sequences the links represent, they are these.
LEMMA ContentsUnique ==
  IInv => \A s : Represents(flink, ready, linked, s) => s = Contents
<1> SUFFICES ASSUME IInv, NEW s, Represents(flink, ready, linked, s) PROVE s = Contents
  OBVIOUS
<1>1. ready \subseteq Heads
  BY DEF IInv, ListTypeOK
<1>2. \A h \in ready : Chain(h) = s[h]
  BY <1>1, ChainFollows
<1>3. s \in [Heads -> Seq(Entries)] /\ \A h \in Heads \ ready : s[h] = <<>>
  BY DEF Represents
<1> QED BY <1>2, <1>3 DEF Contents

\* ... and after a step.
LEMMA ContentsNext ==
  (IInv => \A s : Represents(flink, ready, linked, s) => s = Contents)'
BY ContentsUnique, PTL

\* Where an entry is: its neighbours are the ones of the sequence.
LEMMA Neighbours ==
  ASSUME ListsInv, NEW h \in ready, NEW i \in 0..Len(Contents[h])
  PROVE  /\ Elt(Contents[h], h, i) \in Linked
         /\ flink[Elt(Contents[h], h, i)] = Succ(Contents[h], h, i)
         /\ blink[Succ(Contents[h], h, i)] = Elt(Contents[h], h, i)
<1>1. h \in Heads /\ Contents[h] \in Seq(Entries)
  BY DEF ListsInv, IInv, ListTypeOK, Represents
<1>2. flink[Elt(Contents[h], h, i)] = Succ(Contents[h], h, i)
  BY DEF ListsInv, Represents
<1>3. Elt(Contents[h], h, i) \in Linked
  <2>1. CASE i = 0
    BY <2>1 DEF Elt, Linked
  <2>2. CASE i # 0
    <3>1. i \in 1..Len(Contents[h]) /\ Contents[h][i] \in Entries
      BY <1>1, <2>2
    <3>2. Contents[h][i] \in linked
      BY <1>1, <3>1 DEF ListsInv, Represents
    <3> QED BY <2>2, <3>2 DEF Elt, Linked
  <2> QED BY <2>1, <2>2
<1> QED BY <1>2, <1>3 DEF ListsInv, IInv, RingConsistent

LEMMA ContentsInit == ListInit => ListsInv /\ AsSequences!Init
<1> SUFFICES ASSUME ListInit PROVE ListsInv /\ AsSequences!Init
  OBVIOUS
<1>1. IInv
  BY InitOK
<1>2. Contents = [h \in Heads |-> <<>>] /\ op = <<>>
  BY DEF ListInit, Contents
<1>3. Represents(flink, ready, linked, Contents)
  BY <1>2 DEF ListInit, Represents
<1> QED BY <1>1, <1>2, <1>3 DEF ListsInv, AsSequences!Init, Contents
\* What is to be shown of a step: the sequences its links represent.
LEMMA StepRepresents ==
  ASSUME IInv', NEW s, Represents(flink', ready', linked', s)
  PROVE  ListsInv' /\ Contents' = s
<1>1. s = Contents'
  BY ContentsNext
<1> QED BY <1>1 DEF ListsInv

\* An entry outside the lists is in none of the sequences.
LEMMA NotContained ==
  ASSUME ListsInv, NEW e \in Entries, e \notin linked
  PROVE  \A g \in Heads : ~AsSequences!Contains(Contents[g], e)
BY DEF ListsInv, Represents, AsSequences!Contains

LEMMA InitializeImplements ==
  ASSUME ListsInv, NEW h \in Heads, InitializeListHead(h), IInv'
  PROVE  ListsInv' /\ Contents' = Contents
<1>1. Represents(flink', ready', linked', Contents)
  <2>1. CASE h \in ready
    <3>1. flink \in [Nodes -> Nodes \union {Unset}] /\ flink[h] = h /\ h \in Nodes
      BY <2>1 DEF InitializeListHead, IsListEmpty, ListsInv, IInv, ListTypeOK, Nodes
    <3>2. flink' = flink /\ ready' = ready /\ linked' = linked
      BY <2>1, <3>1 DEF InitializeListHead
    <3> QED BY <3>2 DEF ListsInv
  <2>2. CASE h \notin ready
    <3>1. flink \in [Nodes -> Nodes \union {Unset}] /\ h \in Nodes /\ ready \subseteq Heads
      BY DEF ListsInv, IInv, ListTypeOK, Nodes
    <3>2. /\ flink'[h] = h /\ \A n \in Nodes \ {h} : flink'[n] = flink[n]
          /\ ready' = ready \union {h} /\ linked' = linked
      BY <3>1 DEF InitializeListHead
    <3>3. Contents[h] = <<>> /\ Len(Contents[h]) = 0
      BY <2>2, EmptySeq DEF ListsInv, Represents
    <3>4. ASSUME NEW g \in ready', NEW i \in 0..Len(Contents[g])
          PROVE  flink'[Elt(Contents[g], g, i)] = Succ(Contents[g], g, i)
      <4>1. CASE g = h
        <5>1. i = 0
          BY <3>3, <4>1
        <5> QED BY <3>2, <3>3, <4>1, <5>1 DEF Elt, Succ
      <4>2. CASE g # h
        <5>1. g \in ready /\ g \in Heads /\ Contents[g] \in Seq(Entries)
          BY <3>1, <3>2, <4>2 DEF ListsInv, Represents
        <5>2. Elt(Contents[g], g, i) \in Nodes
          BY <5>1, InNodes
        <5>3. Elt(Contents[g], g, i) # h
          BY <4>2, <5>1, HeadsAssumption DEF Elt
        <5>4. flink[Elt(Contents[g], g, i)] = Succ(Contents[g], g, i)
          BY <5>1 DEF ListsInv, Represents
        <5> QED BY <3>2, <5>2, <5>3, <5>4
      <4> QED BY <4>1, <4>2
    <3> QED BY <3>2, <3>4 DEF ListsInv, Represents
  <2> QED BY <2>1, <2>2
<1> QED BY <1>1, StepRepresents

LEMMA InsertHeadImplements ==
  ASSUME ListsInv, NEW h \in Heads, NEW e \in Entries, InsertHeadList(h, e), IInv'
  PROVE  ListsInv' /\ AsSequences!InsertHead(h, e)
<1> DEFINE s == Contents[h]  t == <<e>> \o s
<1>1. /\ flink \in [Nodes -> Nodes \union {Unset}] /\ ready \in SUBSET Heads /\ h \in ready /\ e \notin linked
      /\ s \in Seq(Entries) /\ Len(s) \in Nat
  BY LenProperties DEF ListsInv, IInv, ListTypeOK, Represents, InsertHeadList
<1>2. /\ t \in Seq(Entries) /\ Len(t) = Len(s) + 1
      /\ \A i \in 1..(Len(s) + 1) : t[i] = IF i < 1 THEN s[i] ELSE IF i = 1 THEN e ELSE s[i - 1]
  <2>1. <<e>> \in Seq(Entries) /\ Len(<<e>>) = 1 /\ <<e>>[1] = e
    OBVIOUS
  <2>2. /\ t \in Seq(Entries) /\ Len(t) = Len(<<e>>) + Len(s)
        /\ \A i \in 1..(Len(<<e>>) + Len(s)) : t[i] = IF i <= Len(<<e>>) THEN <<e>>[i] ELSE s[i - Len(<<e>>)]
    BY <1>1, <2>1, ConcatProperties
  <2> HIDE DEF t, s
  <2> QED BY <1>1, <2>1, <2>2
<1> HIDE DEF t
<1>3. flink' = [flink EXCEPT ![e] = Succ(s, h, 1 - 1), ![Elt(s, h, 1 - 1)] = e]
  <2>1. 0 \in 0..Len(s)
    BY <1>1
  <2>2. Elt(s, h, 0) = h /\ flink[h] = Succ(s, h, 0)
    BY <1>1, <2>1, Neighbours DEF Elt
  <2>3. flink' = [flink EXCEPT ![e] = flink[h], ![h] = e]
    BY DEF InsertHeadList
  <2>4. Succ(s, h, 1 - 1) = flink[h] /\ Elt(s, h, 1 - 1) = h
    BY <2>2
  <2> HIDE DEF s
  <2> QED BY <2>3, <2>4
<1>4. Represents(flink, ready, linked, Contents) /\ ready' = ready /\ linked' = linked \union {e}
  BY DEF ListsInv, InsertHeadList
<1>5. 1 \in 1..(Len(s) + 1)
  BY <1>1
<1>6. Represents(flink', ready', linked', [Contents EXCEPT ![h] = t])
  BY <1>1, <1>2, <1>3, <1>4, <1>5, InsertRepresents
<1>7. ListsInv' /\ Contents' = [Contents EXCEPT ![h] = t]
  BY <1>6, StepRepresents
<1>8. Contents' = [Contents EXCEPT ![h] = <<e>> \o @]
  BY <1>7 DEF t
<1>9. op' = <<"head", h, e>>
  BY DEF InsertHeadList
<1> QED BY <1>1, <1>7, <1>8, <1>9, NotContained DEF AsSequences!InsertHead, Contents

LEMMA InsertTailImplements ==
  ASSUME ListsInv, NEW h \in Heads, NEW e \in Entries, InsertTailList(h, e), IInv'
  PROVE  ListsInv' /\ AsSequences!InsertTail(h, e)
<1> DEFINE s == Contents[h]  t == Append(s, e)  m == Len(s) + 1
<1>1. /\ flink \in [Nodes -> Nodes \union {Unset}] /\ ready \in SUBSET Heads /\ h \in ready /\ e \notin linked
      /\ s \in Seq(Entries) /\ Len(s) \in Nat
  BY LenProperties DEF ListsInv, IInv, ListTypeOK, Represents, InsertTailList
<1>2. /\ t \in Seq(Entries) /\ Len(t) = Len(s) + 1
      /\ \A i \in 1..(Len(s) + 1) : t[i] = IF i < m THEN s[i] ELSE IF i = m THEN e ELSE s[i - 1]
  <2>1. /\ t \in Seq(Entries) /\ Len(t) = Len(s) + 1 /\ t[Len(s) + 1] = e
        /\ \A i \in 1..Len(s) : t[i] = s[i]
    BY <1>1, AppendProperties
  <2> HIDE DEF t, s
  <2> QED BY <1>1, <2>1
<1> HIDE DEF t
<1>3. flink' = [flink EXCEPT ![e] = Succ(s, h, m - 1), ![Elt(s, h, m - 1)] = e]
  <2>1. Len(s) \in 0..Len(s) /\ m - 1 = Len(s)
    BY <1>1
  <2>2. Succ(s, h, Len(s)) = h
    BY <1>1 DEF Succ
  <2>3. blink[h] = Elt(s, h, Len(s))
    BY <1>1, <2>1, <2>2, Neighbours
  <2>4. flink' = [flink EXCEPT ![e] = h, ![blink[h]] = e]
    BY DEF InsertTailList
  <2> HIDE DEF s, m
  <2> QED BY <2>1, <2>2, <2>3, <2>4
<1>4. Represents(flink, ready, linked, Contents) /\ ready' = ready /\ linked' = linked \union {e}
  BY DEF ListsInv, InsertTailList
<1>5. m \in 1..(Len(s) + 1)
  BY <1>1
<1>6. Represents(flink', ready', linked', [Contents EXCEPT ![h] = t])
  <2> HIDE DEF m
  <2> QED BY <1>1, <1>2, <1>3, <1>4, <1>5, InsertRepresents
<1>7. ListsInv' /\ Contents' = [Contents EXCEPT ![h] = t]
  BY <1>6, StepRepresents
<1>8. Contents' = [Contents EXCEPT ![h] = Append(@, e)]
  BY <1>7 DEF t
<1>9. op' = <<"tail", h, e>>
  BY DEF InsertTailList
<1> QED BY <1>1, <1>7, <1>8, <1>9, NotContained DEF AsSequences!InsertTail, Contents
\* Without on the sequences of the lists: an entry is in one place.
LEMMA PositionIs ==
  ASSUME NEW f, NEW lv, NEW ln, NEW s, Represents(f, lv, ln, s), NEW h \in Heads, NEW i \in 1..Len(s[h])
  PROVE  AsSequences!Position(s[h], s[h][i]) = i
<1>1. \A j \in 1..Len(s[h]) : s[h][j] = s[h][i] => j = i
  BY DEF Represents
<1> QED BY <1>1 DEF AsSequences!Position

LEMMA WithoutIs ==
  ASSUME NEW f, NEW lv, NEW ln, NEW s, Represents(f, lv, ln, s), NEW h \in Heads, NEW i \in 1..Len(s[h]),
         NEW e, s[h][i] = e, NEW g \in Heads
  PROVE  AsSequences!Without(s[g], e)
           = IF g = h THEN SubSeq(s[h], 1, i - 1) \o SubSeq(s[h], i + 1, Len(s[h])) ELSE s[g]
<1> DEFINE t == SubSeq(s[h], 1, i - 1) \o SubSeq(s[h], i + 1, Len(s[h]))
<1>1. AsSequences!Without(s[h], e) = t
  <2>1. AsSequences!Contains(s[h], e)
    BY DEF AsSequences!Contains
  <2>2. AsSequences!Position(s[h], e) = i
    BY PositionIs
  <2>3. AsSequences!RemoveAt(s[h], i) = t
    BY DEF AsSequences!RemoveAt
  <2> HIDE DEF t
  <2> QED BY <2>1, <2>2, <2>3 DEF AsSequences!Without
<1> HIDE DEF t
<1>2. g # h => AsSequences!Without(s[g], e) = s[g]
  BY DEF AsSequences!Without, AsSequences!Contains, Represents
<1> QED BY <1>1, <1>2 DEF t

\* RemoveEntryList's assignment of a Flink takes the entry out of its sequence,
\* and adds nothing.
LEMMA TakenOut ==
  ASSUME ListsInv, NEW e \in linked
  PROVE  /\ Represents([flink EXCEPT ![blink[e]] = flink[e]], ready, linked \ {e},
                       [g \in Heads |-> AsSequences!Without(Contents[g], e)])
         /\ \A g \in Heads : \A i \in 1..Len(AsSequences!Without(Contents[g], e)) :
              \E j \in 1..Len(Contents[g]) : Contents[g][j] = AsSequences!Without(Contents[g], e)[i]
<1>1. /\ flink \in [Nodes -> Nodes \union {Unset}] /\ ready \in SUBSET Heads /\ e \in Entries
      /\ Represents(flink, ready, linked, Contents)
  BY DEF ListsInv, IInv, ListTypeOK
<1>2. PICK h \in Heads : \E i \in 1..Len(Contents[h]) : Contents[h][i] = e
  BY <1>1 DEF Represents
<1>3. PICK m \in 1..Len(Contents[h]) : Contents[h][m] = e
  BY <1>2
<1> DEFINE s == Contents[h]
           t == SubSeq(s, 1, m - 1) \o SubSeq(s, m + 1, Len(s))
<1>4. s \in Seq(Entries) /\ Len(s) \in Nat
  BY <1>1, LenProperties DEF Represents
<1>5. h \in ready
  <2>1. Len(s) # 0
    BY <1>3, <1>4
  <2> QED BY <1>1, <2>1, EmptySeq DEF Represents
<1>6. /\ t \in Seq(Entries) /\ Len(t) = Len(s) - 1
      /\ \A i \in 1..(Len(s) - 1) : t[i] = IF i < m THEN s[i] ELSE s[i + 1]
  BY <1>3, <1>4, RemainingElements
<1>7. \A g \in Heads : AsSequences!Without(Contents[g], e) = IF g = h THEN t ELSE Contents[g]
  BY <1>1, <1>3, WithoutIs
<1> HIDE DEF t
<1>8. blink[e] = Elt(s, h, m - 1) /\ flink[e] = Succ(s, h, m)
  <2>1. m - 1 \in 0..Len(s) /\ m \in 0..Len(s) /\ m # 0
    BY <1>3, <1>4
  <2>2. Elt(s, h, m) = e /\ Succ(s, h, m - 1) = e
    BY <1>3, <1>4, <2>1 DEF Elt, Succ
  <2> QED BY <1>5, <2>1, <2>2, Neighbours
<1>9. Represents([flink EXCEPT ![blink[e]] = flink[e]], ready, linked \ {e},
                 [g \in Heads |-> AsSequences!Without(Contents[g], e)])
  <2>1. Represents([flink EXCEPT ![blink[e]] = flink[e]], ready, linked \ {e}, [Contents EXCEPT ![h] = t])
    BY <1>1, <1>3, <1>5, <1>6, <1>8, RemoveRepresents
  <2>2. [Contents EXCEPT ![h] = t] = [g \in Heads |-> AsSequences!Without(Contents[g], e)]
    BY <1>1, <1>7 DEF Represents
  <2> QED BY <2>1, <2>2
<1>10. ASSUME NEW g \in Heads, NEW i \in 1..Len(AsSequences!Without(Contents[g], e))
       PROVE  \E j \in 1..Len(Contents[g]) : Contents[g][j] = AsSequences!Without(Contents[g], e)[i]
  <2>1. AsSequences!Without(Contents[g], e) = IF g = h THEN t ELSE Contents[g]
    BY <1>7
  <2>2. CASE g # h
    BY <2>1, <2>2
  <2>3. CASE g = h
    <3>1. i \in 1..(Len(s) - 1)
      BY <1>6, <2>1, <2>3
    <3>2. i \in 1..Len(s) /\ i + 1 \in 1..Len(s) /\ (t[i] = s[i] \/ t[i] = s[i + 1])
      BY <1>4, <1>6, <3>1
    <3>3. \E j \in 1..Len(s) : s[j] = t[i]
      BY <3>2
    <3> QED BY <2>1, <2>3, <3>3
  <2> QED BY <2>2, <2>3
<1> QED BY <1>9, <1>10

LEMMA RemoveImplements ==
  ASSUME ListsInv, NEW e \in Entries, RemoveEntryList(e), IInv'
  PROVE  ListsInv' /\ AsSequences!Withdraw(e)
<1>1. /\ e \in linked /\ flink' = [flink EXCEPT ![blink[e]] = flink[e]]
      /\ ready' = ready /\ linked' = linked \ {e} /\ op' = <<"remove", e>>
  BY DEF RemoveEntryList
<1> DEFINE s1 == [g \in Heads |-> AsSequences!Without(Contents[g], e)]
<1>2. Represents(flink', ready', linked', s1)
  BY <1>1, TakenOut
<1> HIDE DEF s1
<1>3. ListsInv' /\ Contents' = s1
  BY <1>2, StepRepresents
<1>4. Contents' = [g \in Heads |-> AsSequences!Without(Contents[g], e)]
  BY <1>3 DEF s1
<1> QED BY <1>1, <1>3, <1>4 DEF AsSequences!Withdraw, Contents
\* SwapListEntries takes Entry2 out and puts it before Entry1.
LEMMA SwapImplements ==
  ASSUME ListsInv, ~AdjacentSwap, NEW e1 \in Entries, NEW e2 \in Entries, SwapListEntries(e1, e2), IInv'
  PROVE  ListsInv' /\ AsSequences!PutBefore(e1, e2)
<1> DEFINE f1 == [flink EXCEPT ![blink[e2]] = flink[e2]]
           s1 == [g \in Heads |-> AsSequences!Without(Contents[g], e2)]
<1>1. /\ e1 \in linked /\ e2 \in linked /\ e1 # e2 /\ blink[e1] # e2
      /\ flink' = [flink EXCEPT ![blink[e2]] = flink[e2], ![e2] = e1, ![blink[e1]] = e2]
      /\ ready' = ready /\ linked' = linked /\ op' = <<"before", e1, e2>>
  BY DEF SwapListEntries
<1>2. /\ flink \in [Nodes -> Nodes \union {Unset}] /\ ready \in SUBSET Heads
      /\ e2 \in Linked /\ blink[e2] \in Linked /\ flink[e2] \in Linked /\ Linked \subseteq Nodes
      /\ blink[flink[e2]] = e2
      /\ \A n \in Linked : blink[flink[n]] = n
  BY <1>1 DEF ListsInv, IInv, ListTypeOK, RingConsistent, Linked, Nodes
<1>3. f1 \in [Nodes -> Nodes \union {Unset}]
  BY <1>2
<1>4. /\ f1[blink[e2]] = flink[e2]
      /\ \A n \in Nodes : n # blink[e2] => f1[n] = flink[n]
  BY <1>2
<1>5. Represents(f1, ready, linked \ {e2}, s1)
  BY <1>1, TakenOut
<1>6. flink' = [f1 EXCEPT ![e2] = e1, ![blink[e1]] = e2]
  BY <1>1
<1> HIDE DEF f1, s1
<1>7. PICK h \in Heads : \E i \in 1..Len(s1[h]) : s1[h][i] = e1
  BY <1>1, <1>5 DEF Represents
<1>8. PICK m \in 1..Len(s1[h]) : s1[h][m] = e1
  BY <1>7
<1>9. s1[h] \in Seq(Entries) /\ Len(s1[h]) \in Nat /\ h \in ready /\ m \in 1..(Len(s1[h]) + 1)
  <2>1. s1[h] \in Seq(Entries) /\ Len(s1[h]) \in Nat
    BY <1>5, LenProperties DEF Represents
  <2>2. Len(s1[h]) # 0 /\ m \in 1..(Len(s1[h]) + 1)
    BY <1>8, <2>1
  <2> QED BY <1>5, <2>1, <2>2, EmptySeq DEF Represents
<1>10. Succ(s1[h], h, m - 1) = e1 /\ Elt(s1[h], h, m - 1) = blink[e1]
  <2> DEFINE n == Elt(s1[h], h, m - 1)
  <2>1. m - 1 \in 0..Len(s1[h]) /\ m - 1 < Len(s1[h])
    BY <1>8, <1>9
  <2>2. Succ(s1[h], h, m - 1) = e1
    BY <1>8, <1>9, <2>1 DEF Succ
  <2>3. f1[n] = e1
    BY <1>5, <1>9, <2>1, <2>2 DEF Represents
  <2>4. n \in Linked
    <3>1. CASE m - 1 = 0
      BY <1>9, <3>1 DEF Elt, Linked
    <3>2. CASE m - 1 # 0
      <4>1. m - 1 \in 1..Len(s1[h]) /\ s1[h][m - 1] \in Entries
        BY <1>9, <2>1, <3>2
      <4>2. s1[h][m - 1] \in linked
        BY <1>5, <4>1 DEF Represents
      <4> QED BY <3>2, <4>2 DEF Elt, Linked
    <3> QED BY <3>1, <3>2
  <2> HIDE DEF n
  <2>5. n # blink[e2]
    BY <1>1, <1>2, <1>4, <2>3
  <2>6. flink[n] = e1
    BY <1>2, <1>4, <2>3, <2>4, <2>5
  <2>7. blink[e1] = n
    BY <1>2, <2>4, <2>6
  <2> QED BY <2>2, <2>7 DEF n
<1> DEFINE t == SubSeq(s1[h], 1, m - 1) \o <<e2>> \o SubSeq(s1[h], m, Len(s1[h]))
<1>11. /\ t \in Seq(Entries) /\ Len(t) = Len(s1[h]) + 1
       /\ \A i \in 1..(Len(s1[h]) + 1) : t[i] = IF i < m THEN s1[h][i] ELSE IF i = m THEN e2 ELSE s1[h][i - 1]
  <2> DEFINE r == s1[h]
             u == SubSeq(r, 1, m - 1) \o <<e2>> \o SubSeq(r, m, Len(r))
  <2>1. r \in Seq(Entries) /\ m \in 1..(Len(r) + 1)
    BY <1>9
  <2> HIDE DEF r
  <2>2. /\ u \in Seq(Entries) /\ Len(u) = Len(r) + 1
        /\ \A i \in 1..(Len(r) + 1) : u[i] = IF i < m THEN r[i] ELSE IF i = m THEN e2 ELSE r[i - 1]
    BY <2>1, InsertedElements
  <2> QED BY <2>2 DEF r
<1>12. AsSequences!Before(e1, e2, s1[h]) = t
  <2>1. AsSequences!Position(s1[h], e1) = m
    BY <1>5, <1>8, PositionIs
  <2>2. AsSequences!InsertAt(s1[h], m, e2) = t
    BY DEF AsSequences!InsertAt
  <2> HIDE DEF t
  <2> QED BY <2>1, <2>2 DEF AsSequences!Before
<1> HIDE DEF t
<1>13. (linked \ {e2}) \union {e2} = linked
  BY <1>1
<1>14. Represents(flink', ready', linked', [s1 EXCEPT ![h] = t])
  <2>1. e2 \notin linked \ {e2}
    OBVIOUS
  <2>2. Represents([f1 EXCEPT ![e2] = Succ(s1[h], h, m - 1), ![Elt(s1[h], h, m - 1)] = e2],
                   ready, (linked \ {e2}) \union {e2}, [s1 EXCEPT ![h] = t])
    BY <1>2, <1>3, <1>5, <1>9, <1>11, <2>1, InsertRepresents
  <2> QED BY <1>1, <1>6, <1>10, <1>13, <2>2
<1>15. ListsInv' /\ Contents' = [s1 EXCEPT ![h] = t]
  BY <1>14, StepRepresents
<1>16. Contents' = [g \in Heads |->
                      IF g = h THEN AsSequences!Before(e1, e2, AsSequences!Without(Contents[g], e2))
                      ELSE AsSequences!Without(Contents[g], e2)]
  <2>1. s1 = [g \in Heads |-> AsSequences!Without(Contents[g], e2)]
    BY DEF s1
  <2>2. [s1 EXCEPT ![h] = t] = [g \in Heads |-> IF g = h THEN t ELSE s1[g]]
    BY <2>1
  <2> QED BY <1>12, <1>15, <2>1, <2>2
<1>17. AsSequences!Contains(Contents[h], e1)
  <2>1. s1[h] = AsSequences!Without(Contents[h], e2)
    BY DEF s1
  <2>2. \E j \in 1..Len(Contents[h]) : Contents[h][j] = s1[h][m]
    <3>1. \A i \in 1..Len(AsSequences!Without(Contents[h], e2)) :
            \E j \in 1..Len(Contents[h]) : Contents[h][j] = AsSequences!Without(Contents[h], e2)[i]
      BY <1>1, TakenOut
    <3> QED BY <1>8, <2>1, <3>1
  <2> QED BY <1>8, <2>2 DEF AsSequences!Contains
<1> QED BY <1>1, <1>15, <1>16, <1>17 DEF AsSequences!PutBefore, Contents
\* RtConvertList leaves the lists.
LEMMA ContentsKept == ASSUME ListsInv, IInv', UNCHANGED lists PROVE ListsInv' /\ Contents' = Contents
<1>1. flink' = flink /\ ready' = ready /\ linked' = linked
  BY DEF lists
<1>2. Represents(flink', ready', linked', Contents)
  BY <1>1 DEF ListsInv
<1> QED BY <1>2, StepRepresents

\* Each step of the lists is the operation on sequences that its name says.
LEMMA ListsNext ==
  ~AdjacentSwap /\ ListsInv /\ [ListNext]_listVars => ListsInv' /\ [AsSequences!Next]_<<Contents, op>>
<1> SUFFICES ASSUME ~AdjacentSwap, ListsInv, [ListNext]_listVars
             PROVE  ListsInv' /\ (AsSequences!Next \/ (Contents' = Contents /\ op' = op))
  BY Zenon
<1>1. IInv'
  BY NextOK DEF ListsInv
<1>2. ASSUME NEW h \in Heads, InitializeListHead(h) PROVE ListsInv' /\ Contents' = Contents /\ op' = op
  BY <1>1, <1>2, InitializeImplements DEF InitializeListHead
<1>3. ASSUME NEW h \in Heads, NEW e \in Entries, InsertHeadList(h, e) PROVE ListsInv' /\ AsSequences!Next
  BY <1>1, <1>3, InsertHeadImplements DEF AsSequences!Next
<1>4. ASSUME NEW h \in Heads, NEW e \in Entries, InsertTailList(h, e) PROVE ListsInv' /\ AsSequences!Next
  BY <1>1, <1>4, InsertTailImplements DEF AsSequences!Next
<1>5. ASSUME NEW e \in Entries, RemoveEntryList(e) PROVE ListsInv' /\ AsSequences!Next
  BY <1>1, <1>5, RemoveImplements DEF AsSequences!Next
<1>6. ASSUME NEW e1 \in Entries, NEW e2 \in Entries, SwapListEntries(e1, e2)
      PROVE  ListsInv' /\ AsSequences!Next
  BY <1>1, <1>6, SwapImplements DEF AsSequences!Next
<1>7. CASE UNCHANGED lists
  BY <1>1, <1>7, ContentsKept DEF lists
<1>8. CASE Use
  BY <1>2, <1>3, <1>4, <1>5, <1>6, <1>8 DEF Use
<1>9. ~Use => UNCHANGED lists
  BY DEF ListNext, RtConvertList, ConvertLink, lists, listVars
<1> QED BY <1>7, <1>8, <1>9

\* Whatever the order of insertions, removals and moves, each list of
\* efilink.h holds the entries it should, in the right order.
THEOREM ImplementsSequencesHolds == ASSUME ~AdjacentSwap PROVE ListSpec => ImplementsSequences
<1>1. ListInit => ListsInv /\ AsSequences!Init
  BY ContentsInit
<1>2. ListsInv /\ [ListNext]_listVars => ListsInv'
  BY ListsNext
<1>3. ListsInv /\ [ListNext]_listVars =>
        [AsSequences!Next]_<<[h \in Heads |-> IF h \in ready THEN Chain(h) ELSE <<>>], op>>
  BY ListsNext DEF Contents
<1> QED BY <1>1, <1>2, <1>3, PTL DEF ListSpec, ImplementsSequences, AsSequences!Spec
-----------------------------------------------------------------------------
(* RtConvertList. *)

Done(n) == <<n, "Flink">> \in virtual
At(h, i) == Elt(Contents[h], h, i)

\* The elements of the list that is converted are done up to Link; another
\* list is done or not yet begun.
ConversionInv ==
  /\ ListsInv
  /\ listHead = Unset => link = Unset /\ virtual = {}
  /\ link # Unset => listHead \in ready
  /\ \A n \in Nodes : <<n, "Blink">> \in virtual <=> Done(n)
  /\ \A h \in ready :
       IF link # Unset /\ h = listHead
         THEN \E i \in 0..Len(Contents[h]) :
                link = At(h, i) /\ \A j \in 0..Len(Contents[h]) : Done(At(h, j)) <=> j < i
         ELSE \/ \A j \in 0..Len(Contents[h]) : ~Done(At(h, j))
              \/ \A j \in 0..Len(Contents[h]) : Done(At(h, j))

LEMMA ConversionInit == ListInit => ConversionInv
BY ContentsInit DEF ListInit, ConversionInv, Done

\* The lists are not used any more once their pointers are converted.
LEMMA UseKeeps ==
  ASSUME ConversionInv, Use, ListsInv' PROVE ConversionInv'
<1>1. listHead' = Unset /\ link' = Unset /\ virtual' = {}
  BY DEF Use, conversion, ConversionInv
<1> QED BY <1>1 DEF ConversionInv, Done

LEMMA BeginKeeps ==
  ASSUME ConversionInv, NEW h \in Heads, RtConvertList(h), ListsInv', Contents' = Contents PROVE ConversionInv'
<1>1. /\ link = Unset /\ h \in ready /\ ~Done(h) /\ listHead' = h /\ link' = h /\ h # Unset
      /\ virtual' = virtual /\ ready' = ready
  BY UnsetAssumption DEF RtConvertList, Done, lists
<1>2. Len(Contents[h]) \in Nat /\ 0 \in 0..Len(Contents[h]) /\ At(h, 0) = h
  BY LenProperties DEF ConversionInv, ListsInv, Represents, At, Elt
<1>3. \A j \in 0..Len(Contents[h]) : ~Done(At(h, j))
  BY <1>1, <1>2 DEF ConversionInv
<1>4. \A n : Done(n)' <=> Done(n)
  BY <1>1 DEF Done
<1>5. \A g, i : At(g, i)' = At(g, i)
  BY DEF At
<1>6. \E i \in 0..Len(Contents'[h]) :
        link' = At(h, i)' /\ \A j \in 0..Len(Contents'[h]) : Done(At(h, j))' <=> j < i
  <2>1. \A j \in 0..Len(Contents[h]) : ~(j < 0)
    BY <1>2
  <2>2. \A j \in 0..Len(Contents[h]) : ~Done(At(h, j))'
    BY <1>1, <1>3, <1>5 DEF Done
  <2> QED BY <1>1, <1>2, <1>5, <2>1, <2>2
<1>7. ASSUME NEW g \in ready, g # h
      PROVE  \/ \A j \in 0..Len(Contents'[g]) : ~Done(At(g, j))'
             \/ \A j \in 0..Len(Contents'[g]) : Done(At(g, j))'
  <2>1. \/ \A j \in 0..Len(Contents[g]) : ~Done(At(g, j))
        \/ \A j \in 0..Len(Contents[g]) : Done(At(g, j))
    BY <1>1 DEF ConversionInv
  <2> QED BY <1>1, <1>5, <2>1 DEF Done
<1> QED BY <1>1, <1>4, <1>6, <1>7 DEF ConversionInv
\* One turn of the loop: the pointers of Link are converted after the next
\* element was read from them.
LEMMA ConvertKeeps ==
  ASSUME ConversionInv, ConvertLink, ListsInv', Contents' = Contents PROVE ConversionInv'
<1> DEFINE h == listHead  s == Contents[h]
<1>1. /\ link # Unset /\ listHead' = listHead /\ ready' = ready
      /\ virtual' = virtual \union {<<link, "Flink">>, <<link, "Blink">>}
      /\ link' = IF flink[link] = h THEN Unset ELSE flink[link]
  BY DEF ConvertLink, lists
<1>2. /\ h \in ready /\ h \in Heads /\ s \in Seq(Entries) /\ Len(s) \in Nat
      /\ Represents(flink, ready, linked, Contents) /\ ready \subseteq Heads
  BY <1>1, LenProperties DEF ConversionInv, ListsInv, IInv, ListTypeOK, Represents
<1>3. PICK i \in 0..Len(s) : link = At(h, i) /\ \A j \in 0..Len(s) : Done(At(h, j)) <=> j < i
  BY <1>1, <1>2 DEF ConversionInv
<1>4. \A n : Done(n)' <=> Done(n) \/ n = link
  BY <1>1 DEF Done
<1>5. \A n : <<n, "Blink">> \in virtual' <=> <<n, "Blink">> \in virtual \/ n = link
  BY <1>1
<1>6. \A g \in Heads, j \in Nat : At(g, j)' = At(g, j)
  BY DEF At
<1>7. \A g \in Heads : \A j \in 0..Len(Contents[g]) : At(g, j) = link => g = h /\ j = i
  BY <1>2, <1>3, Distinct DEF At
<1>8. flink[link] = Succ(s, h, i)
  BY <1>2, <1>3 DEF Represents, At
<1>9. \A j \in 0..Len(s) : Done(At(h, j))' <=> j < i + 1
  <2> TAKE j \in 0..Len(s)
  <2>1. Done(At(h, j)) <=> j < i
    BY <1>3
  <2>2. At(h, j) = link <=> j = i
    BY <1>2, <1>3, <1>7
  <2>3. Done(At(h, j))' <=> <<At(h, j), "Flink">> \in virtual'
    BY <1>1, <1>2, <1>6 DEF Done
  <2>4. <<At(h, j), "Flink">> \in virtual' <=> Done(At(h, j)) \/ At(h, j) = link
    BY <1>1 DEF Done
  <2>5. j \in Nat /\ i \in Nat
    BY <1>2
  <2> QED BY <2>1, <2>2, <2>3, <2>4, <2>5
<1>10. ASSUME NEW g \in ready, g # h, NEW j \in 0..Len(Contents[g]) PROVE Done(At(g, j))' <=> Done(At(g, j))
  <2>1. At(g, j) # link
    BY <1>2, <1>7, <1>10
  <2>2. Done(At(g, j))' <=> <<At(g, j), "Flink">> \in virtual'
    BY DEF Done, At
  <2> QED BY <1>1, <2>1, <2>2 DEF Done
<1>11. CASE i < Len(s)
  <2>1. i + 1 \in 0..Len(s) /\ i + 1 \in 1..Len(s) /\ s[i + 1] \in Entries
    BY <1>2, <1>11
  <2>2. flink[link] = s[i + 1] /\ At(h, i + 1) = s[i + 1]
    BY <1>8, <1>11, <2>1 DEF Succ, At, Elt
  <2>3. link' = At(h, i + 1) /\ link' # Unset
    BY <1>1, <1>2, <2>1, <2>2, HeadsAssumption, UnsetAssumption
  <2> QED BY <1>1, <1>2, <1>4, <1>5, <1>6, <1>9, <1>10, <2>1, <2>3 DEF ConversionInv
<1>12. CASE i = Len(s)
  <2>1. link' = Unset
    BY <1>1, <1>8, <1>12 DEF Succ
  <2>2. \A j \in 0..Len(s) : Done(At(h, j))'
    BY <1>2, <1>9, <1>12
  <2>3. h # Unset
    BY <1>2, UnsetAssumption
  <2> QED BY <1>1, <1>2, <1>4, <1>5, <1>10, <2>1, <2>2, <2>3 DEF ConversionInv
<1> QED BY <1>2, <1>11, <1>12

\* The pointers of a list are all converted or none is.
LEMMA ConversionDone == ConversionInv => ConversionComplete
<1> SUFFICES ASSUME ConversionInv, link = Unset, NEW h \in ready
             PROVE  LET mine == {v \in virtual : v[1] \in Ring(h)}
                    IN  mine = {} \/ mine = Ring(h) \X {"Flink", "Blink"}
  BY DEF ConversionComplete
<1>1. /\ h \in Heads /\ Contents[h] \in Seq(Entries) /\ Contents[h] = Chain(h)
      /\ virtual \subseteq Nodes \X {"Flink", "Blink"}
  BY DEF ConversionInv, ListsInv, IInv, ListTypeOK, Represents, Contents
<1>2. Ring(h) = {At(h, j) : j \in 0..Len(Contents[h])}
  <2>1. DOMAIN Chain(h) = 1..Len(Contents[h]) /\ Len(Contents[h]) \in Nat
    BY <1>1, LenProperties
  <2>2. Ring(h) = {h} \union {Contents[h][j] : j \in 1..Len(Contents[h])}
    BY <1>1, <2>1 DEF Ring
  <2> QED BY <2>1, <2>2 DEF At, Elt
<1>3. Ring(h) \subseteq Nodes
  BY <1>1, <1>2, InNodes DEF At
<1>4. (\A n \in Ring(h) : ~Done(n)) \/ (\A n \in Ring(h) : Done(n))
  BY <1>2 DEF ConversionInv
<1>5. \A n \in Ring(h) : <<n, "Blink">> \in virtual <=> <<n, "Flink">> \in virtual
  BY <1>3 DEF ConversionInv, Done
<1> DEFINE mine == {v \in virtual : v[1] \in Ring(h)}
<1>6. ASSUME NEW v \in mine PROVE v[1] \in Ring(h) /\ v[2] \in {"Flink", "Blink"} /\ v = <<v[1], v[2]>>
  BY <1>1
<1>7. CASE \A n \in Ring(h) : ~Done(n)
  <2>1. \A v \in mine : FALSE
    <3> TAKE v \in mine
    <3>1. v \in virtual /\ v[1] \in Ring(h) /\ v \in {<<v[1], "Flink">>, <<v[1], "Blink">>}
      BY <1>6
    <3> QED BY <1>5, <1>7, <3>1 DEF Done
  <2> QED BY <2>1
<1>8. CASE \A n \in Ring(h) : Done(n)
  <2>1. \A n \in Ring(h), w \in {"Flink", "Blink"} : <<n, w>> \in mine
    BY <1>5, <1>8 DEF Done
  <2>2. mine \subseteq Ring(h) \X {"Flink", "Blink"}
    BY <1>6
  <2>3. Ring(h) \X {"Flink", "Blink"} \subseteq mine
    <3> HIDE DEF mine
    <3>1. ASSUME NEW v \in Ring(h) \X {"Flink", "Blink"} PROVE v \in mine
      <4>1. v = <<v[1], v[2]>> /\ v[1] \in Ring(h) /\ v[2] \in {"Flink", "Blink"}
        OBVIOUS
      <4> QED BY <2>1, <4>1
    <3> QED BY <3>1
  <2> QED BY <2>2, <2>3
<1> QED BY <1>4, <1>7, <1>8

LEMMA ConversionNext == ~AdjacentSwap /\ ConversionInv /\ [ListNext]_listVars => ConversionInv'
<1> SUFFICES ASSUME ~AdjacentSwap, ConversionInv, [ListNext]_listVars PROVE ConversionInv'
  OBVIOUS
<1>1. ListsInv' /\ IInv'
  BY ListsNext DEF ConversionInv, ListsInv
<1>2. UNCHANGED lists => Contents' = Contents
  BY <1>1, ContentsKept DEF ConversionInv
<1>3. CASE Use
  BY <1>1, <1>3, UseKeeps
<1>4. CASE \E h \in Heads : RtConvertList(h)
  BY <1>1, <1>2, <1>4, BeginKeeps DEF RtConvertList
<1>5. CASE ConvertLink
  BY <1>1, <1>2, <1>5, ConvertKeeps DEF ConvertLink
<1>6. CASE UNCHANGED listVars
  <2>1. Contents' = Contents /\ UNCHANGED <<ready, link, listHead, virtual>>
    BY <1>2, <1>6 DEF listVars, lists
  <2> QED BY <1>1, <2>1 DEF ConversionInv, Done, At
<1> QED BY <1>3, <1>4, <1>5, <1>6 DEF ListNext

\* RtConvertList converts both pointers of every element of its list and of no
\* other (vm.c), although it walks along the pointers it converts.
THEOREM ConversionCompleteHolds == ASSUME ~AdjacentSwap PROVE ListSpec => []ConversionComplete
<1>1. ListInit => ConversionInv
  BY ConversionInit
<1>2. ConversionInv /\ [ListNext]_listVars => ConversionInv'
  BY ConversionNext
<1> QED BY <1>1, <1>2, ConversionDone, PTL DEF ListSpec

=============================================================================
