------------------------------- MODULE Scroll -------------------------------
(***************************************************************************)
(* Which part of a list is on screen (internal/tui/scroll.go), and what it *)
(* means to show a list well.                                              *)
(***************************************************************************)
EXTENDS Integers

AtLeast(n, x) == IF x < n THEN n ELSE x

AtMost(n, x) == IF x > n THEN n ELSE x

\* Mutant of KeepVisible: the cursor is always on the last line.
KeepVisible_Bottom(offset, cursor, visible, total) ==
    AtLeast(0, cursor - AtLeast(1, visible) + 1)

\* keepVisible: the first line of a list of total lines to show in a window of
\* visible lines, when it was offset before and the cursor has moved.
KeepVisible(offset, cursor, visible, total) ==
    LET window == AtLeast(1, visible)
        start == AtLeast(0, AtMost(total - window, offset))
    IN  IF cursor < start THEN cursor
        ELSE IF cursor >= start + window THEN cursor - window + 1
        ELSE start

-----------------------------------------------------------------------------
(***************************************************************************)
(* The reference.                                                          *)
(***************************************************************************)

\* With start as its first line the window shows the cursor, and no empty
\* line while lines are hidden above.
Shows(start, cursor, visible, total) ==
    LET window == AtLeast(1, visible)
    IN  /\ 0 <= start /\ start <= cursor /\ cursor < start + window
        /\ start = 0 \/ start + window <= total

Distance(a, b) == IF a < b THEN b - a ELSE a - b

\* No other window that shows the list well is nearer to offset.
Nearest(start, offset, cursor, visible, total) ==
    \A other \in 0..cursor :
        Shows(other, cursor, visible, total) => Distance(start, offset) <= Distance(other, offset)
=============================================================================
