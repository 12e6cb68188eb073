------------------------------ MODULE Screens -------------------------------
(***************************************************************************)
(* The two lists on screen (internal/tui/access.go, applyClock of          *)
(* shares.go, scrolled of scroll.go, View of view.go): the services, and   *)
(* the access log of one share, which the clock of the UI copies anew.     *)
(* Each list has a cursor and a window, the window has the lines that the  *)
(* terminal leaves for it, and the dialog takes some of them away.         *)
(*                                                                         *)
(* Which services are listed, which one is selected and what makes the     *)
(* screens open and close is in module Tui; here their number and the      *)
(* cursor are any that Tui's CursorOnRow allows.                           *)
(***************************************************************************)
EXTENDS AccessLog, Layout, Functions, Sequences

CONSTANTS
    MaxRows,      \* bound: rows of the services
    Heights,      \* bound: heights of the terminal
    MaxRequests,  \* bound: requests in a behaviour
    MaxTime       \* bound: times of requests

ASSUME BoundsAssumption == Heights \subseteq Nat /\ MaxRows \in Nat /\ MaxTime \in Nat

VARIABLES
    height,     \* m.height
    rows,       \* len(m.rows())
    rowCursor,  \* m.cursor
    rowOffset,  \* m.offset
    dialog,     \* m.dialog: "none", or the field that has the focus
    accesses,   \* accesses of the share in m.shares, by address
    screen,     \* m.screen
    cursor,     \* m.access.cursor
    offset      \* m.access.offset

rowVars == <<rows, rowCursor, rowOffset>>
accessVars == <<accesses, cursor, offset>>

vars == <<logVars, height, rowVars, dialog, accessVars, screen>>

\* Every variable keeps its type.
TypeOK ==
    /\ LogTypeOK
    /\ height \in Heights
    /\ rows \in Nat
    /\ rowCursor \in Nat
    /\ rowOffset \in Nat
    /\ dialog \in {"none", "allow", "expire"}
    /\ accesses \in Seq(Addrs)
    /\ screen \in {"services", "access"}
    /\ cursor \in Nat
    /\ offset \in Nat

Init ==
    /\ LogInit
    /\ height \in Heights
    /\ rows = 0
    /\ rowCursor = 0
    /\ rowOffset = 0
    /\ dialog = "none"
    /\ accesses = <<>>
    /\ screen = "services"
    /\ cursor = 0
    /\ offset = 0

Open == dialog # "none"

\* The lines that the dialog takes.
Below == IF Open THEN DialogHeight ELSE 0

\* Mutant of ScrolledFrom: the list of services is scrolled by its own keys
\* and rows only, not when its window shrinks.
ScrolledFrom_RowsOnly(start) ==
    /\ rowOffset' = IF rows' # rows \/ rowCursor' # rowCursor
                    THEN KeepVisible(rowOffset, rowCursor', VisibleLines(height', Below', AboveRows), rows')
                    ELSE rowOffset
    /\ offset' = IF screen' = "access"
                 THEN KeepVisible(start, cursor', VisibleLines(height', Below', AboveAccesses), Len(accesses'))
                 ELSE start

\* scrolled, at the end of every Update; start is the window of the access log
\* before.
ScrolledFrom(start) ==
    /\ rowOffset' = KeepVisible(rowOffset, rowCursor', VisibleLines(height', Below', AboveRows), rows')
    /\ offset' = IF screen' = "access"
                 THEN KeepVisible(start, cursor', VisibleLines(height', Below', AboveAccesses), Len(accesses'))
                 ELSE start

Scrolled == ScrolledFrom(offset)

-----------------------------------------------------------------------------
\* A request is recorded by the proxy.  Its time may be older than that of a
\* request that was recorded before.
Visit(a, now) ==
    /\ untracked + FoldFunction(LAMBDA entry, sum : entry.requests + sum, 0, log) < MaxRequests
    /\ Record(a, now)
    /\ UNCHANGED <<height, rowVars, dialog, accessVars, screen>>

\* snapshot: every address of the log, sorted.  There is one such list.
Snapshots ==
    {list \in [1..Cardinality(Tracked) -> Tracked] :
        /\ \A a \in Tracked : \E i \in DOMAIN list : list[i] = a
        /\ \A i, j \in DOMAIN list : i < j => ListedBefore(list[i], list[j])}

\* Mutant of Refresh: the cursor keeps its number, not its address.
Refresh_KeepCursor(start) ==
    /\ accesses' \in Snapshots
    /\ cursor' = start

\* refreshAccesses, with the cursor on line start: it follows the address that
\* was there before, if the access screen is open.
Refresh(start) ==
    /\ accesses' \in Snapshots
    /\ cursor' = IF screen' = "access" /\ start < Len(accesses) /\ accesses[start + 1] \in Tracked
                 THEN CHOOSE i \in 0..Len(accesses') - 1 : accesses'[i + 1] = accesses[start + 1]
                 ELSE start

\* Mutant of Clock: a log that is not on screen is not refreshed.
Clock_OnScreen ==
    /\ screen = "access"
    /\ UNCHANGED <<logVars, height, rows, rowCursor, dialog, screen>>
    /\ Refresh(cursor)
    /\ Scrolled

\* applyClock, once a second.
Clock ==
    /\ UNCHANGED <<logVars, height, rows, rowCursor, dialog, screen>>
    /\ Refresh(cursor)
    /\ Scrolled

\* applyScan, selectPort: other rows, and the cursor on any of them.  The row
\* of the share on the access screen stays.
RowsChange(n, i) ==
    /\ screen = "access" => n > 0
    /\ rows' = n
    /\ rowCursor' = i
    /\ UNCHANGED <<logVars, height, dialog, accesses, cursor, screen>>
    /\ Scrolled

\* handleKey: up and down on the services.
RowUp ==
    /\ screen = "services" /\ ~Open
    /\ rowCursor' = AtLeast(0, rowCursor - 1)
    /\ UNCHANGED <<logVars, height, rows, dialog, accesses, cursor, screen>>
    /\ Scrolled

RowDown ==
    /\ screen = "services" /\ ~Open
    /\ rowCursor' = AtMost(AtLeast(0, rows - 1), rowCursor + 1)
    /\ UNCHANGED <<logVars, height, rows, dialog, accesses, cursor, screen>>
    /\ Scrolled

\* openDialog, on a row that is not shared.
OpenDialog ==
    /\ screen = "services" /\ ~Open /\ rows > 0
    /\ dialog' = "allow"
    /\ UNCHANGED <<logVars, height, rows, rowCursor, accesses, cursor, screen>>
    /\ Scrolled

\* The dialog moves to its other field, is canceled or submitted.
DialogKey(next) ==
    /\ Open /\ dialog # next
    /\ dialog' = next
    /\ UNCHANGED <<logVars, height, rows, rowCursor, accesses, cursor, screen>>
    /\ Scrolled

\* openAccess, on a row that is shared.
OpenAccess ==
    /\ screen = "services" /\ ~Open /\ rows > 0
    /\ screen' = "access"
    /\ UNCHANGED <<logVars, height, rows, rowCursor, dialog>>
    /\ Refresh(0)
    /\ ScrolledFrom(0)

\* closeAccess, by the back key or because the share has ended.
CloseAccess ==
    /\ screen = "access"
    /\ screen' = "services"
    /\ cursor' = 0
    /\ UNCHANGED <<logVars, height, rows, rowCursor, dialog, accesses>>
    /\ ScrolledFrom(0)

\* Mutant of KeyUp: the first line has no floor.
KeyUp_NoFloor ==
    /\ screen = "access"
    /\ cursor' = cursor - 1
    /\ UNCHANGED <<logVars, height, rows, rowCursor, dialog, accesses, screen>>
    /\ Scrolled

\* handleAccessKey: up and down.
KeyUp ==
    /\ screen = "access"
    /\ cursor' = AtLeast(0, cursor - 1)
    /\ UNCHANGED <<logVars, height, rows, rowCursor, dialog, accesses, screen>>
    /\ Scrolled

KeyDown ==
    /\ screen = "access"
    /\ cursor' = AtMost(AtLeast(0, Len(accesses) - 1), cursor + 1)
    /\ UNCHANGED <<logVars, height, rows, rowCursor, dialog, accesses, screen>>
    /\ Scrolled

\* The terminal changes its size.
Resize(lines) ==
    /\ height' = lines
    /\ UNCHANGED <<logVars, rows, rowCursor, dialog, accesses, cursor, screen>>
    /\ Scrolled

Next ==
    \/ \E a \in Addrs, now \in 1..MaxTime : Visit(a, now)
    \/ Clock
    \/ \E n \in 0..MaxRows : \E i \in 0..AtLeast(0, n - 1) : RowsChange(n, i)
    \/ RowUp \/ RowDown
    \/ OpenDialog
    \/ \E next \in {"none", "allow", "expire"} : DialogKey(next)
    \/ OpenAccess \/ CloseAccess
    \/ KeyUp \/ KeyDown
    \/ \E lines \in Heights : Resize(lines)

Spec == Init /\ [][Next]_vars

\* Every message of the clock starts the timer of the next one.
LiveSpec == Spec /\ WF_vars(Clock)

-----------------------------------------------------------------------------
(***************************************************************************)
(* Properties.                                                             *)
(***************************************************************************)

Above == IF screen = "access" THEN AboveAccesses ELSE AboveRows

ListLength == IF screen = "access" THEN Len(accesses) ELSE rows

ListOffset == IF screen = "access" THEN offset ELSE rowOffset

Selected == IF screen = "access" THEN cursor ELSE rowCursor

\* Each window holds its cursor, and no line stays empty while others are
\* scrolled away (scroll.go:3-13).
WindowsFull ==
    /\ Shows(rowOffset, rowCursor, VisibleLines(height, Below, AboveRows), rows)
    /\ screen = "access" => Shows(offset, cursor, VisibleLines(height, Below, AboveAccesses), Len(accesses))

Shown(y) == ScreenLine(y, height, Below, Above, ListOffset, ListLength)

\* The terminal's cursor is on the line of what is selected: the entry of the
\* list or, in the dialog, the field (access_test.go:177-223).
CursorOnSelection ==
    /\ ~Open /\ ListLength > 0 /\ HasRoom(height, Below, Above)
          => Shown(ListCursor(height, Below, Above, ListOffset, Selected)) = Line("entry", Selected)
    /\ Open /\ DialogHasRoom(height)
          => Shown(DialogCursor(height, dialog)) = Line(dialog, 0)

\* The last line of the terminal is the status line, which has the notices.
StatusLast == height > 0 => Shown(height - 1) = Line("status", 0)

\* What the label of the panel says of the list is what is on screen.
LabelRight ==
    HasRoom(height, Below, Above) => LabelTrue(height, Below, Above, ListOffset, ListLength)

\* The user sees what the keys act on, for every order of refreshes, scans,
\* keys, dialogs and resizes: the cursor is only bounded by the keys and by
\* the log never losing an address.
SelectionOnScreen == WindowsFull /\ CursorOnSelection /\ StatusLast /\ LabelRight

\* The cursors are on their lists, which is what keeps the windows on them.
CursorsInRange ==
    /\ rowCursor <= AtLeast(0, rows - 1)
    /\ cursor <= AtLeast(0, Len(accesses) - 1)
    /\ screen = "services" => cursor = 0

\* An address on the list is still in the log.
ListedTracked == \A i \in DOMAIN accesses : accesses[i] \in Tracked

IInv == TypeOK /\ CursorsInRange /\ ListedTracked /\ WindowsFull

\* The address under the cursor.
UnderCursor == IF cursor < Len(accesses) THEN accesses[cursor + 1] ELSE 0

\* A refresh never moves the selection to another address, however the log
\* was reordered since (access.go:62-79).
SelectionFollowsAddr ==
    [][screen = "access" /\ screen' = "access" /\ accesses' # accesses /\ UnderCursor # 0
          => UnderCursor' = UnderCursor]_vars

\* A window moves no further than its cursor, its list and the size of the
\* terminal make it (scroll.go:6-12), also where the dialog opens and closes.
ScrollsLeast ==
    [][/\ Nearest(rowOffset', rowOffset, rowCursor', VisibleLines(height', Below', AboveRows), rows')
       /\ screen = "access" /\ screen' = "access"
              => Nearest(offset', offset, cursor', VisibleLines(height', Below', AboveAccesses), Len(accesses'))]_vars

\* Every address that is tracked shows up in the list in the end, whether the
\* screen is open or not (shares.go:245-248).
VisitorListed == \A a \in Addrs : a \in Tracked ~> \E i \in DOMAIN accesses : accesses[i] = a
=============================================================================
