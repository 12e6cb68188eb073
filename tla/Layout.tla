------------------------------- MODULE Layout -------------------------------
(***************************************************************************)
(* What is on which line of the terminal (internal/tui/view.go): the logo, *)
(* the panel of the list, the dialog if it is open, and the status line,   *)
(* cut at the top when there are more of them than the terminal has.  The  *)
(* width of a line and its text are left out: a line is the part of the    *)
(* screen that it belongs to and, if it shows an entry of the list, the    *)
(* number of the entry.                                                    *)
(*                                                                         *)
(* above is the number of lines a panel has above the entries of its list: *)
(* the titles, and on the access screen the URL of the share too; below is *)
(* the number of lines that the dialog takes below the panel.              *)
(***************************************************************************)
EXTENDS Scroll

LogoHeight == 3
StatusHeight == 1
DialogHeight == 6
BorderWidth == 1

\* The lines above the services and above the addresses.
AboveRows == 1
AboveAccesses == 2

\* Mutant of BodyHeight: the dialog takes no room from the list.
BodyHeight_NoDialog(height, below) ==
    AtLeast(2 * BorderWidth + 1, height - LogoHeight - StatusHeight)

\* bodyHeight
BodyHeight(height, below) ==
    AtLeast(2 * BorderWidth + 1, height - LogoHeight - StatusHeight - below)

\* visibleRows, visibleAccesses
VisibleLines(height, below, above) ==
    AtLeast(1, BodyHeight(height, below) - 2 * BorderWidth - above)

\* All lines of View, before they are cut.
AllLines(height, below) ==
    LogoHeight + BodyHeight(height, below) + below + StatusHeight

\* overflow
Overflow(height, below) == AtLeast(0, AllLines(height, below) - height)

Line(part, number) == [part |-> part, number |-> number]

\* A line of the panel: the border, the lines above the list, the entries of
\* the list from offset on, and what pad2 adds to fill the panel; pad2 also
\* drops what the panel has no line for.
PanelLine(i, height, below, above, offset, total) ==
    LET entry == offset + i - BorderWidth - above
        end == AtMost(total, offset + VisibleLines(height, below, above))
    IN  IF i = 0 \/ i = BodyHeight(height, below) - 1 THEN Line("border", 0)
        ELSE IF i < BorderWidth + above THEN Line("title", i)
        ELSE IF entry < end THEN Line("entry", entry)
        ELSE Line("blank", 0)

\* A line of the dialog: the border, the note, the two fields, the problem.
DialogLine(i) ==
    CASE i = 2 -> Line("allow", 0)
      [] i = 3 -> Line("expire", 0)
      [] OTHER -> Line("dialog", i)

\* View: line y of the terminal, from 0.
ScreenLine(y, height, below, above, offset, total) ==
    LET i == y + Overflow(height, below)
        dialog == LogoHeight + BodyHeight(height, below)
        status == AllLines(height, below) - StatusHeight
    IN  IF i < LogoHeight THEN Line("logo", i)
        ELSE IF i < dialog THEN PanelLine(i - LogoHeight, height, below, above, offset, total)
        ELSE IF i < status THEN DialogLine(i - dialog)
        ELSE IF i = status THEN Line("status", 0)
        ELSE Line("blank", 0)

\* View: the line of the terminal's cursor, for a list that is not empty.
ListCursor(height, below, above, offset, cursor) ==
    LogoHeight + BorderWidth + above + cursor - offset - Overflow(height, below)

\* View: the line of the cursor in the dialog, on its first or second field.
DialogCursor(height, field) ==
    LogoHeight + BodyHeight(height, DialogHeight) + (IF field = "allow" THEN 2 ELSE 3) - Overflow(height, DialogHeight)

\* rangeLabel: the entries on screen, counted from 1, or none if all are.
RangeLabel(height, below, above, offset, total) ==
    LET visible == VisibleLines(height, below, above)
    IN  IF total <= visible THEN <<>> ELSE <<offset + 1, AtMost(total, offset + visible), total>>

-----------------------------------------------------------------------------
(***************************************************************************)
(* The reference.                                                          *)
(***************************************************************************)

\* The heights of the terminal that have room for one entry of the list, and
\* for the fields of the dialog.
HasRoom(height, below, above) ==
    height >= LogoHeight + 2 * BorderWidth + above + 1 + StatusHeight + below

DialogHasRoom(height) == height >= 5

\* The entries on screen.
Entries(height, below, above, offset, total) ==
    {entry \in 0..total - 1 :
        \E y \in 0..height - 1 : ScreenLine(y, height, below, above, offset, total) = Line("entry", entry)}

\* The label tells what is on screen.
LabelTrue(height, below, above, offset, total) ==
    LET label == RangeLabel(height, below, above, offset, total)
    IN  Entries(height, below, above, offset, total)
            = IF label = <<>> THEN 0..total - 1 ELSE label[1] - 1..label[2] - 1
=============================================================================
