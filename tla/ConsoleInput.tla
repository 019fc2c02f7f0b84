---------------------------- MODULE ConsoleInput ----------------------------
(***************************************************************************)
(* Reading keys: WaitForSingleEvent and WaitForEventWithTimeout of         *)
(* lib/event.c, IInput of lib/console.c and Pause of lib/pause.c.          *)
(*                                                                         *)
(* The firmware queues keys.  WaitForKey is signalled while the queue is   *)
(* not empty, but another reader, a notification function, may take the    *)
(* key before the program reads it.  Timers expire at any time after they  *)
(* are set.                                                                *)
(***************************************************************************)
EXTENDS Integers, Sequences, SequencesExt

CONSTANTS
  Chars,       \* keys with a UnicodeChar >= ' '
  Enter, Backspace,
  Other,       \* keys without a character, such as the arrows
  Lengths,     \* buffer lengths Input is called with, at least 1
  Null,        \* no key
  Timeouts,    \* values of Timeout
  MaxKeys,     \* bound: keys typed
  MaxSteals    \* bound: keys taken by others

Keys == Chars \union {Enter, Backspace, Other}

VARIABLES
  queue,       \* the firmware's key queue
  typed,       \* history: how many keys were typed
  steals,      \* how many keys others took
  pc, fn,      \* where the program is, and in which function
  timeout,     \* Timeout of WaitForEventWithTimeout
  timer,       \* the timer event of WaitForSingleEvent
  wait,        \* the Status WaitForSingleEvent returned
  strLen,      \* StrLen of IInput
  inStr,       \* InStr[0 .. Len - 1]
  end,         \* where IInput last wrote a terminating 0, the last index it wrote; -1 if nowhere
  screen,      \* what the console shows behind the prompt
  readKeys,    \* history: the keys IInput has read
  key          \* the key WaitForEventWithTimeout returned

env == <<queue, typed, steals>>
line == <<strLen, inStr, end, screen, readKeys>>
vars == <<queue, typed, steals, pc, fn, timeout, timer, wait, strLen, inStr, end, screen,
          readKeys, key>>

-----------------------------------------------------------------------------
(* The firmware. *)

Type(k) ==
  /\ typed < MaxKeys
  /\ typed' = typed + 1
  /\ queue' = Append(queue, k)
  /\ UNCHANGED <<steals, pc, fn, timeout, timer, wait, line, key>>

Steal ==
  /\ queue # <<>> /\ steals < MaxSteals
  /\ steals' = steals + 1
  /\ queue' = Tail(queue)
  /\ UNCHANGED <<typed, pc, fn, timeout, timer, wait, line, key>>

Expire ==
  /\ timer = "set"
  /\ timer' = "expired"
  /\ UNCHANGED <<env, pc, fn, timeout, wait, line, key>>

-----------------------------------------------------------------------------
(* Calls. *)

CallInput(n) ==
  /\ pc = "idle"
  /\ fn' = "IInput" /\ pc' = "wait"
  /\ strLen' = n /\ inStr' = <<>> /\ end' = -1
  /\ screen' = <<>> /\ readKeys' = <<>>
  /\ UNCHANGED <<env, timeout, timer, wait, key>>

CallPause ==
  /\ pc = "idle"
  /\ fn' = "Pause" /\ pc' = "wait"
  /\ UNCHANGED <<env, timeout, timer, wait, line, key>>

CallWaitForEventWithTimeout(t) ==
  /\ pc = "idle"
  /\ fn' = "WaitForEventWithTimeout" /\ pc' = "createTimer"
  /\ timeout' = t /\ key' = Null
  /\ UNCHANGED <<env, timer, wait, line>>

-----------------------------------------------------------------------------
(* WaitForSingleEvent. *)

\* Mutant: a timer that could not be created is waited for.
CreateTimerUnchecked ==
  /\ pc = "createTimer"
  /\ \/ timer' = "set"
     \/ UNCHANGED timer
  /\ pc' = "wait" /\ wait' = "EFI_SUCCESS"
  /\ UNCHANGED <<env, fn, timeout, line, key>>

\* With a timeout: create and set the timer event, unless events are used up.
CreateTimer ==
  /\ pc = "createTimer"
  /\ \/ timer' = "set" /\ pc' = "wait" /\ UNCHANGED wait
     \/ wait' = "EFI_OUT_OF_RESOURCES" /\ pc' = "read" /\ UNCHANGED timer
  /\ UNCHANGED <<env, fn, timeout, line, key>>

\* WaitForEvent looks at the key first; the timer event is closed again.
WaitForEvent ==
  /\ pc = "wait"
  /\ \/ queue # <<>> /\ wait' = "EFI_SUCCESS"
     \/ queue = <<>> /\ timer = "expired" /\ wait' = "EFI_TIMEOUT"
  /\ timer' = "none"
  /\ pc' = "read"
  /\ UNCHANGED <<env, fn, timeout, line, key>>

-----------------------------------------------------------------------------
(* Its callers read the key.  ReadKeyStroke fails when the queue is empty. *)

Pause ==
  /\ pc = "read" /\ fn = "Pause"
  /\ queue' = IF queue = <<>> THEN queue ELSE Tail(queue)
  /\ pc' = "idle"
  /\ UNCHANGED <<typed, steals, fn, timeout, timer, wait, line, key>>

\* One turn of its loop: return a key, or look at Timeout, which nothing changes.
WaitForEventWithTimeout ==
  /\ pc = "read" /\ fn = "WaitForEventWithTimeout"
  /\ IF wait = "EFI_SUCCESS" /\ queue # <<>>
       THEN /\ key' = Head(queue) /\ queue' = Tail(queue)
            /\ pc' = "idle"
       ELSE /\ UNCHANGED queue
            /\ IF timeout > 0 THEN pc' = "createTimer" /\ UNCHANGED key
                              ELSE pc' = "idle" /\ key' = "TimeoutKey"
  /\ UNCHANGED <<typed, steals, fn, timeout, timer, wait, line>>

\* Len < StrLen - 1.
HasRoom(n) == n < strLen - 1

\* The handling of a key other than Enter.  A character is stored with a 0
\* behind it and echoed; a backspace leaves the 0 where it is.
Edit(k) ==
  /\ CASE k = Backspace /\ inStr # <<>> ->
             /\ inStr' = Front(inStr) /\ screen' = Front(screen)
             /\ UNCHANGED end
       [] k \in Chars /\ HasRoom(Len(inStr)) ->
             /\ inStr' = Append(inStr, k) /\ screen' = Append(screen, k)
             /\ end' = Len(inStr) + 1
       [] OTHER -> UNCHANGED <<inStr, end, screen>>
  /\ pc' = "wait"

\* Mutant: the string is not terminated again after the last key.
FinishOpen == pc' = "idle" /\ UNCHANGED <<inStr, end, screen>>

\* Enter, or an error of ReadKeyStroke, ends the line.
Finish ==
  /\ end' = Len(inStr)
  /\ pc' = "idle"
  /\ UNCHANGED <<inStr, screen>>

IInput ==
  /\ pc = "read" /\ fn = "IInput"
  /\ IF queue = <<>>
       THEN Finish /\ UNCHANGED <<queue, readKeys>>
       ELSE /\ queue' = Tail(queue) /\ readKeys' = Append(readKeys, Head(queue))
            /\ IF Head(queue) = Enter THEN Finish ELSE Edit(Head(queue))
  /\ UNCHANGED <<typed, steals, fn, timeout, timer, wait, strLen, key>>

Step == CreateTimer \/ WaitForEvent \/ Pause \/ WaitForEventWithTimeout \/ IInput

Init ==
  /\ queue = <<>> /\ typed = 0 /\ steals = 0
  /\ pc = "idle" /\ fn = "Pause" /\ timeout = 0 /\ timer = "none" /\ wait = "EFI_SUCCESS"
  /\ strLen \in Lengths /\ inStr = <<>> /\ end = -1
  /\ screen = <<>> /\ readKeys = <<>> /\ key = Null

Next ==
  \/ \E k \in Keys : Type(k)
  \/ Steal \/ Expire
  \/ \E n \in Lengths : CallInput(n)
  \/ CallPause
  \/ \E t \in Timeouts : CallWaitForEventWithTimeout(t)
  \/ Step

\* The program runs, and a timer that was set expires.
Spec == Init /\ [][Next]_vars /\ WF_vars(Step) /\ WF_vars(Expire)

-----------------------------------------------------------------------------
(* Properties. *)

TypeOK ==
  /\ queue \in Seq(Keys) /\ typed \in 0..MaxKeys /\ steals \in 0..MaxSteals
  /\ pc \in {"idle", "createTimer", "wait", "read"}
  /\ fn \in {"IInput", "Pause", "WaitForEventWithTimeout"}
  /\ timer \in {"none", "set", "expired"}
  /\ strLen \in Lengths /\ inStr \in Seq(Chars) /\ Len(inStr) < strLen
  /\ timeout \in Timeouts \union {0}

\* IInput stays inside the buffer and ends the string where it should, also
\* when the last keys were backspaces or another reader took the key.
LineTerminated ==
  /\ TypeOK
  /\ fn = "IInput" =>
       /\ end < strLen
       /\ pc = "idle" => end = Len(inStr)

\* The line the user would have got: the keys in order, backspace taking back
\* the last character, characters that do not fit left out.
Keyed(s, k, n) ==
  IF k = Backspace THEN (IF s = <<>> THEN s ELSE Front(s))
  ELSE IF k \in Chars /\ Len(s) < n THEN Append(s, k) ELSE s
Edited(keys, n) ==
  LET upTo[j \in 0..Len(keys)] == IF j = 0 THEN <<>> ELSE Keyed(upTo[j - 1], keys[j], n)
  IN upTo[Len(keys)]

\* What the screen shows, what the buffer holds and what was typed agree at
\* every key.
ShowsWhatItHolds ==
  fn = "IInput" => screen = inStr /\ inStr = Edited(readKeys, strLen - 1)

\* Every timer event WaitForSingleEvent creates is closed again, whatever
\* ends the wait.
TimersClosed == timer # "none" => pc = "wait"

\* A wait with a time limit always ends, even if no key ever comes.
TimedWaitEnds == pc = "wait" /\ fn = "WaitForEventWithTimeout" ~> pc # "wait"

=============================================================================
