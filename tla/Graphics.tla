------------------------------ MODULE Graphics ------------------------------
(***************************************************************************)
(* The graphics programs: apps/bltgrid.c and apps/lfbgrid.c draw a pattern *)
(* of boxes in the active mode, apps/modelist.c lists the modes, each with *)
(* a watchdog of ten seconds.                                              *)
(*                                                                         *)
(* A mode is [w, h, pitch, format]; format is "rgb", "bgr", "mask",        *)
(* "blt" (no linear frame buffer) or "bad".                                *)
(***************************************************************************)
EXTENDS Integers, Sequences

CONSTANTS
  ModeLists,  \* the modes a device may have
  FbSizes,    \* the sizes a frame buffer may have, in bytes
  Uint32,     \* one more than the largest UINT32
  Box         \* pixels to a side of a box (32 in the code)

VARIABLES
  program,    \* "bltgrid", "lfbgrid" or "modelist"
  gop,        \* the device: [modes, current, mode (gop->Mode is set), started, fbSize (bytes)]
  pc,         \* the program's next step
  i,          \* the loop's mode
  listed,     \* the modes modelist has shown: <<i, active, mode>>
  timer,      \* the firmware has a watchdog timer
  held,       \* pool blocks allocated and not freed
  outside,    \* what was written behind its end: "buffer", "frame buffer"
  screen,     \* the picture: <<x, y>> to a colour
  watchdog    \* "firmware", "ten seconds" or "off"
vars == <<program, gop, timer, pc, i, listed, held, outside, screen, watchdog>>

Pixel == 4
Red == "red"
Green == "green"
Junk == "junk"
Dark == "dark"
Info == gop.modes[i + 1]
Active == gop.modes[gop.current + 1]

Init ==
  /\ program \in {"bltgrid", "lfbgrid", "modelist"}
  /\ gop \in {[modes |-> m, current |-> c, mode |-> on, started |-> s, fbSize |-> f]:
                m \in ModeLists, c \in 0..1, on \in BOOLEAN, s \in BOOLEAN, f \in FbSizes}
  /\ gop.current < Len(gop.modes)
  /\ pc = "start" /\ i = 0 /\ listed = <<>> /\ held = {} /\ outside = {}
  /\ screen = [p \in (0..(Active.w - 1)) \X (0..(Active.h - 1)) |-> Dark]
  /\ watchdog = "firmware" /\ timer \in BOOLEAN

-----------------------------------------------------------------------------
(* The boxes. *)

Other(colour) == IF colour = Red THEN Green ELSE Red

\* A row starts with the colour of its band and changes at each box.
RowColour(y) == IF (y \div Box) % 2 = 0 THEN Red ELSE Green
ColourAt(x, y) ==
  LET changes == {k \in 1..x: k % Box = 0 /\ k # 0}
      Turned[n \in 0..x] == IF n = 0 THEN RowColour(y) ELSE IF n \in changes THEN Other(Turned[n - 1]) ELSE Turned[n - 1]
  IN Turned[x]

\* The pixels fill_boxes writes, at UINT32 indices; line is the width for
\* bltgrid, the pitch for lfbgrid.
Index(x, y, line) == (y * line + x) % Uint32
Written(m, line) == {Index(x, y, line): x \in 0..(m.w - 1), y \in 0..(m.h - 1)}
Filled(m, line, k) ==
  LET at == {p \in (0..(m.w - 1)) \X (0..(m.h - 1)): Index(p[1], p[2], line) = k}
      last == CHOOSE p \in at: \A q \in at: q[2] < p[2] \/ (q[2] = p[2] /\ q[1] <= p[1])
  IN IF at = {} THEN Junk ELSE ColourAt(last[1], last[2])

\* The pixels of the buffer's memory after fill_boxes; formats it does not
\* know it leaves alone.
bltgrid_fill_boxes(m, k) == Filled(m, m.w, k)
\* Mutant: the buffer's lines are as long as the picture is wide.
lfbgrid_fill_narrow(m, k) == IF m.format \in {"rgb", "bgr", "mask"} THEN Filled(m, m.w, k) ELSE Junk
lfbgrid_fill_boxes(m, k) == IF m.format \in {"rgb", "bgr", "mask"} THEN Filled(m, m.pitch, k) ELSE Junk

-----------------------------------------------------------------------------
(* The programs. *)

\* SetWatchdogTimer fails without a timer, which is shown and ignored.
SetWatchdog(armed) == watchdog' = IF timer THEN armed ELSE watchdog
Goto(label) == pc' = label

StartProgram ==
  /\ pc = "start" /\ Goto("locate") /\ SetWatchdog("ten seconds")
  /\ UNCHANGED <<program, timer, gop, i, listed, held, outside, screen>>

\* LibLocateProtocol fails, or gives no interface: the program returns, its
\* watchdog running.
NoGop == pc = "locate" /\ Goto("missing") /\ UNCHANGED <<program, timer, gop, i, listed, held, outside, screen, watchdog>>

\* Without gop->Mode the drawing programs give up, modelist tries one mode.
Located ==
  /\ pc = "locate"
  /\ Goto(IF gop.mode \/ program = "modelist" THEN "loop" ELSE "finish")
  /\ UNCHANGED <<program, timer, gop, i, listed, held, outside, screen, watchdog>>

MaxMode == IF gop.mode THEN Len(gop.modes) ELSE 1

\* QueryMode, after SetMode if the device was not started.  SetMode may fail,
\* and QueryMode may fail for another reason; the mode is then passed over.
QueryMode ==
  /\ pc = "loop" /\ i < MaxMode
  /\ \E starts, answers \in BOOLEAN:
       LET started == gop.started \/ starts
       IN /\ gop' = [gop EXCEPT !.started = started]
          /\ IF started /\ answers
             THEN Goto("info") /\ held' = held \union {<<"info", i>>} /\ UNCHANGED i
             ELSE Goto("loop") /\ i' = i + 1 /\ UNCHANGED held
  /\ UNCHANGED <<program, timer, listed, outside, screen, watchdog>>

EndOfModes ==
  /\ pc = "loop" /\ i >= MaxMode /\ Goto("finish")
  /\ UNCHANGED <<program, timer, gop, i, listed, held, outside, screen, watchdog>>

\* The modes are compared by their contents.
IsActive == gop.mode /\ Info = Active

print_modes ==
  /\ pc = "info" /\ program = "modelist"
  /\ listed' = Append(listed, <<i, IsActive, Info>>) /\ i' = i + 1 /\ Goto("loop")
  /\ UNCHANGED <<program, timer, gop, held, outside, screen, watchdog>>
AnotherMode ==
  /\ pc = "info" /\ program # "modelist" /\ ~IsActive
  /\ i' = i + 1 /\ Goto("loop")
  /\ UNCHANGED <<program, timer, gop, listed, held, outside, screen, watchdog>>

\* A mode that is the active one: a buffer of BufferSize bytes, a UINT32, is
\* allocated and filled, or the allocation fails.
DrawBegins(bufferSize, written, label) ==
  /\ pc = "info" /\ IsActive
  /\ UNCHANGED <<program, timer, gop, i, listed, screen, watchdog>>
  /\ \/ Goto("finish") /\ UNCHANGED <<held, outside>>
     \/ /\ Goto(label) /\ held' = held \union {<<"pixels", i>>}
        /\ outside' = outside \union {m \in {"buffer"}: \E k \in written: k >= bufferSize \div Pixel}

bltgrid_draw_boxes ==
  program = "bltgrid" /\ DrawBegins((Pixel * Info.w * Info.h) % Uint32, Written(Info, Info.w), "blt")
lfbgrid_draw_boxes ==
  /\ program = "lfbgrid"
  /\ DrawBegins((Pixel * Info.pitch * Info.h) % Uint32,
                IF Info.format \in {"rgb", "bgr", "mask"} THEN Written(Info, Info.pitch) ELSE {},
                IF Info.format = "blt" THEN "finish" ELSE "copy")

\* Blt puts the buffer on the screen, and the buffer is freed.
Blt ==
  /\ pc = "blt" /\ Goto("finish") /\ held' = held \ {<<"pixels", i>>}
  /\ screen' = [p \in DOMAIN screen |-> bltgrid_fill_boxes(Info, p[2] * Info.w + p[1])]
  /\ UNCHANGED <<program, timer, gop, i, listed, outside, watchdog>>

\* As much as fits of the buffer goes to the frame buffer; it is not freed.
LfbSize == (Pixel * Info.pitch * Info.h) % Uint32
\* Mutant: all of the buffer is copied.
CopyAll == LfbSize
CopySize == IF LfbSize < gop.fbSize THEN LfbSize ELSE gop.fbSize % Uint32
CopyToFrameBuffer ==
  /\ pc = "copy" /\ Goto("finish")
  /\ outside' = outside \union {m \in {"frame buffer"}: CopySize > gop.fbSize}
  /\ screen' = [p \in DOMAIN screen |->
                  LET k == p[2] * Info.pitch + p[1]
                  IN IF k < CopySize \div Pixel THEN lfbgrid_fill_boxes(Info, k) ELSE screen[p]]
  /\ UNCHANGED <<program, timer, gop, i, listed, held, watchdog>>

FinishProgram ==
  /\ pc = "finish" /\ Goto("done") /\ SetWatchdog("off")
  /\ UNCHANGED <<program, timer, gop, i, listed, held, outside, screen>>

Step ==
  \/ StartProgram \/ NoGop \/ Located \/ QueryMode \/ EndOfModes \/ print_modes \/ AnotherMode
  \/ bltgrid_draw_boxes \/ lfbgrid_draw_boxes \/ Blt \/ CopyToFrameBuffer \/ FinishProgram
Next == Step \/ (pc \in {"done", "missing"} /\ UNCHANGED vars)
Spec == Init /\ [][Next]_vars /\ WF_vars(Step)

-----------------------------------------------------------------------------
\* Boxes of alternating colours, in bands of alternating order.
Grid(x, y) == IF ((x \div Box) + (y \div Box)) % 2 = 0 THEN Red ELSE Green
FitsUint32(m, line) == Pixel * line * m.h < Uint32

\* A drawing program that comes to its end has shown the whole grid, or has
\* left the screen as it was; what the frame buffer is too small for is left
\* out.  Nothing is ever written behind the end of the frame buffer, nor of
\* the pixel buffer, unless its size in bytes does not fit UINT32.  An unknown
\* pixel format shows what the pool held.  Of the programs only lfbgrid ends
\* with its pixel buffer allocated.
GridDrawn ==
  /\ pc = "done" /\ <<"pixels", i>> \in held => program = "lfbgrid"
  /\ "frame buffer" \notin outside
  /\ "buffer" \in outside => ~FitsUint32(Info, IF program = "bltgrid" THEN Info.w ELSE Info.pitch)
  /\ outside = {} /\ Active.format # "bad" =>
       \/ \A p \in DOMAIN screen: screen[p] = Dark
       \/ \A p \in DOMAIN screen:
            \/ screen[p] = Grid(p[1], p[2])
            \/ program = "lfbgrid" /\ screen[p] = Dark /\ Pixel * (p[2] * Active.pitch + p[1]) + Pixel > gop.fbSize

=============================================================================
