--------------------------- MODULE ScreensProofs ----------------------------
(***************************************************************************)
(* keepVisible is right for all integers, and the screens show what is     *)
(* selected for terminals of every height, lists of every length and logs  *)
(* of every content.                                                       *)
(***************************************************************************)
EXTENDS Screens, FiniteSetTheorems, TLAPS

(***************************************************************************)
(* keepVisible.                                                            *)
(***************************************************************************)

\* keepVisible shows the cursor and wastes no line (scroll.go:3-13), for every
\* list, every window, also one of no lines, and whatever the offset was.
THEOREM KeepVisibleShows ==
    ASSUME NEW total \in Nat, NEW selected \in Nat, selected <= AtLeast(0, total - 1),
           NEW before \in Int, NEW visible \in Int
    PROVE  Shows(KeepVisible(before, selected, visible, total), selected, visible, total)
  BY DEF Shows, KeepVisible, AtLeast, AtMost

\* keepVisible scrolls no further than it must (scroll.go:6-12).
THEOREM KeepVisibleNearest ==
    ASSUME NEW total \in Nat, NEW selected \in Nat, selected <= AtLeast(0, total - 1),
           NEW before \in Int, NEW visible \in Int
    PROVE  Nearest(KeepVisible(before, selected, visible, total), before, selected, visible, total)
  <1>1. SUFFICES ASSUME NEW other \in 0..selected, Shows(other, selected, visible, total)
                 PROVE  Distance(KeepVisible(before, selected, visible, total), before)
                            <= Distance(other, before)
    BY DEF Nearest
  <1> QED
    BY <1>1 DEF Shows, KeepVisible, AtLeast, AtMost, Distance

(***************************************************************************)
(* The lines of the terminal, with h its height, b the lines of the dialog *)
(* and a the lines above the list; the window starts with entry o of t.    *)
(***************************************************************************)

USE DEF LogoHeight, StatusHeight, DialogHeight, BorderWidth, AboveRows, AboveAccesses

\* A window has a line, and View has as many lines as the terminal or more.
LEMMA VisibleBounds ==
    ASSUME NEW h \in Nat, NEW b \in Nat, NEW a \in 1..2
    PROVE  /\ VisibleLines(h, b, a) \in Nat \ {0}
           /\ BodyHeight(h, b) \in Nat \ {0, 1, 2}
           /\ AllLines(h, b) \in Nat
           /\ AllLines(h, b) >= h
           /\ Overflow(h, b) = AllLines(h, b) - h
           /\ AllLines(h, b) = LogoHeight + BodyHeight(h, b) + b + StatusHeight
  BY DEF VisibleLines, BodyHeight, AllLines, Overflow, AtLeast

\* With room for an entry the panel holds its window, and nothing is cut.
LEMMA RoomBounds ==
    ASSUME NEW h \in Nat, NEW b \in Nat, NEW a \in 1..2, HasRoom(h, b, a)
    PROVE  /\ BodyHeight(h, b) \in Nat
           /\ VisibleLines(h, b, a) = BodyHeight(h, b) - 2 - a
           /\ VisibleLines(h, b, a) >= 1
           /\ Overflow(h, b) = 0
           /\ h = LogoHeight + BodyHeight(h, b) + b + StatusHeight
  BY DEF VisibleLines, BodyHeight, AllLines, Overflow, HasRoom, AtLeast

\* An entry in the window is on the line that its number tells.
LEMMA EntryLine ==
    ASSUME NEW h \in Nat, NEW b \in Nat, NEW a \in 1..2,
           NEW o \in Nat, NEW t \in Nat, NEW e \in Nat,
           HasRoom(h, b, a), e < t, o <= e, e < o + VisibleLines(h, b, a)
    PROVE  /\ ListCursor(h, b, a, o, e) \in 0..h - 1
           /\ ScreenLine(ListCursor(h, b, a, o, e), h, b, a, o, t) = Line("entry", e)
  <1> DEFINE k == BorderWidth + a + e - o
  <1>1. /\ BodyHeight(h, b) \in Nat
        /\ VisibleLines(h, b, a) = BodyHeight(h, b) - 2 - a
        /\ Overflow(h, b) = 0
        /\ h = LogoHeight + BodyHeight(h, b) + b + StatusHeight
    BY RoomBounds
  <1>2. k \in a + 1..BodyHeight(h, b) - 2
    BY <1>1
  <1>3. ListCursor(h, b, a, o, e) = LogoHeight + k
    BY <1>1 DEF ListCursor
  <1>4. PanelLine(k, h, b, a, o, t) = Line("entry", e)
    BY <1>1, <1>2 DEF PanelLine, AtMost
  <1> QED
    BY <1>1, <1>2, <1>3, <1>4 DEF ScreenLine

\* The status line is the last one.
LEMMA StatusLine ==
    ASSUME NEW h \in Nat \ {0}, NEW b \in Nat, NEW a \in 1..2, NEW o, NEW t
    PROVE  ScreenLine(h - 1, h, b, a, o, t) = Line("status", 0)
  <1> DEFINE i == h - 1 + Overflow(h, b)
  <1>1. /\ BodyHeight(h, b) \in Nat
        /\ AllLines(h, b) = LogoHeight + BodyHeight(h, b) + b + StatusHeight
        /\ i = AllLines(h, b) - StatusHeight
    BY VisibleBounds
  <1> HIDE DEF i
  <1> QED
    BY <1>1 DEF ScreenLine, i

\* The fields of the dialog are where the cursor goes.
LEMMA FieldLine ==
    ASSUME NEW h \in Nat, NEW a \in 1..2, NEW o, NEW t,
           NEW field \in {"allow", "expire"}, DialogHasRoom(h)
    PROVE  ScreenLine(DialogCursor(h, field), h, DialogHeight, a, o, t) = Line(field, 0)
  BY VisibleBounds DEF ScreenLine, DialogCursor, DialogHasRoom, DialogLine

\* The label of the panel counts the entries on screen.
LEMMA LabelCounts ==
    ASSUME NEW h \in Nat, NEW b \in Nat, NEW a \in 1..2,
           NEW o \in Nat, NEW t \in Nat, NEW c \in 0..AtLeast(0, t - 1),
           Shows(o, c, VisibleLines(h, b, a), t), HasRoom(h, b, a)
    PROVE  LabelTrue(h, b, a, o, t)
  <1> DEFINE last == AtMost(t, o + VisibleLines(h, b, a))
  <1>1. /\ BodyHeight(h, b) \in Nat
        /\ VisibleLines(h, b, a) = BodyHeight(h, b) - 2 - a
        /\ VisibleLines(h, b, a) >= 1
        /\ Overflow(h, b) = 0
        /\ h = LogoHeight + BodyHeight(h, b) + b + StatusHeight
    BY RoomBounds
  <1>2. ASSUME NEW e \in 0..t - 1, o <= e, e < o + VisibleLines(h, b, a)
        PROVE  e \in Entries(h, b, a, o, t)
    <2> DEFINE y == ListCursor(h, b, a, o, e)
    <2>1. y \in 0..h - 1 /\ ScreenLine(y, h, b, a, o, t) = Line("entry", e)
      BY <1>2, EntryLine
    <2> HIDE DEF y
    <2> QED
      BY <1>2, <2>1 DEF Entries
  <1>3. ASSUME NEW e \in Entries(h, b, a, o, t)
        PROVE  e \in 0..t - 1 /\ o <= e /\ e < o + VisibleLines(h, b, a)
    <2>1. PICK y \in 0..h - 1 : ScreenLine(y, h, b, a, o, t) = Line("entry", e)
      BY <1>3 DEF Entries
    <2>2. PICK i \in Int : PanelLine(i, h, b, a, o, t) = Line("entry", e)
      <3>1. CASE y < LogoHeight
        BY <2>1, <3>1, <1>1 DEF ScreenLine, Line
      <3>2. CASE y >= LogoHeight /\ y < LogoHeight + BodyHeight(h, b)
        BY <2>1, <3>2, <1>1 DEF ScreenLine
      <3>3. CASE y >= LogoHeight + BodyHeight(h, b)
        BY <2>1, <3>3, <1>1 DEF ScreenLine, DialogLine, Line
      <3> QED
        BY <1>1, <3>1, <3>2, <3>3
    <2>3. e = o + i - 1 - a /\ i >= 1 + a /\ e < last
      BY <2>2, <1>1 DEF PanelLine, Line
    <2> QED
      BY <1>1, <1>3, <2>3 DEF Entries, AtMost
  <1>4. CASE t <= VisibleLines(h, b, a)
    <2>1. o = 0
      BY <1>1, <1>4 DEF Shows, AtLeast
    <2>2. \A e \in 0..t - 1 : o <= e /\ e < o + VisibleLines(h, b, a)
      BY <1>1, <1>4, <2>1
    <2>3. Entries(h, b, a, o, t) = 0..t - 1
      BY <1>2, <2>2 DEF Entries
    <2>4. RangeLabel(h, b, a, o, t) = <<>>
      BY <1>4 DEF RangeLabel
    <2> QED
      BY <2>3, <2>4 DEF LabelTrue
  <1>5. CASE t > VisibleLines(h, b, a)
    <2>1. o + VisibleLines(h, b, a) <= t
      BY <1>1, <1>5 DEF Shows, AtLeast
    <2>2. \A e \in o..o + VisibleLines(h, b, a) - 1 :
             e \in 0..t - 1 /\ o <= e /\ e < o + VisibleLines(h, b, a)
      BY <1>1, <2>1
    <2>3. \A e \in Entries(h, b, a, o, t) : e \in o..o + VisibleLines(h, b, a) - 1
      BY <1>1, <1>3
    <2>4. Entries(h, b, a, o, t) = o..o + VisibleLines(h, b, a) - 1
      BY <1>2, <2>2, <2>3
    <2>5. AtMost(t, o + VisibleLines(h, b, a)) = o + VisibleLines(h, b, a)
      BY <1>1, <2>1 DEF AtMost
    <2>6. RangeLabel(h, b, a, o, t) = <<o + 1, o + VisibleLines(h, b, a), t>>
      <3>1. ~(t <= VisibleLines(h, b, a))
        BY <1>1, <1>5
      <3> QED
        BY <2>5, <3>1, Zenon DEF RangeLabel
    <2> QED
      BY <1>1, <2>4, <2>6 DEF LabelTrue
  <1> QED
    BY <1>1, <1>4, <1>5

(***************************************************************************)
(* The invariant.  Whatever a message or a key does to the lists and their *)
(* cursors, scrolled at the end of it puts the windows right; so the       *)
(* cursors must be in range, and the only hard case is the refresh of the  *)
(* log, which holds every address it had before.                           *)
(***************************************************************************)

\* What every step must keep before the windows are scrolled.
Placed ==
    /\ LogTypeOK
    /\ height \in Heights /\ rows \in Nat /\ rowCursor \in Nat
    /\ dialog \in {"none", "allow", "expire"}
    /\ accesses \in Seq(Addrs)
    /\ screen \in {"services", "access"}
    /\ cursor \in Nat
    /\ CursorsInRange
    /\ ListedTracked

LEMMA IInvPlaced ==
    ASSUME IInv
    PROVE  Placed
  BY DEF IInv, TypeOK, Placed

\* The lines of the windows are numbers.
LEMMA BelowNat ==
    /\ Below \in {0, DialogHeight}
    /\ Open => Below = DialogHeight
    /\ ~Open => Below = 0
  BY DEF Below

LEMMA LinesNat ==
    ASSUME NEW h \in Heights, NEW b \in {0, DialogHeight}, NEW a \in 1..2
    PROVE  VisibleLines(h, b, a) \in Nat
  <1>1. h \in Nat /\ b \in Nat
    BY BoundsAssumption
  <1> QED
    BY <1>1, VisibleBounds

LEMMA KeepVisibleNat ==
    ASSUME NEW total \in Nat, NEW selected \in Nat, selected <= AtLeast(0, total - 1),
           NEW before \in Int, NEW visible \in Int
    PROVE  KeepVisible(before, selected, visible, total) \in Nat
  BY DEF KeepVisible, AtLeast, AtMost

\* scrolled puts the windows right.
LEMMA ScrolledRight ==
    ASSUME IInv, Placed', NEW start \in Nat, ScrolledFrom(start)
    PROVE  IInv'
  <1> DEFINE rowLines == VisibleLines(height, Below, AboveRows)
             lines == VisibleLines(height, Below, AboveAccesses)
  <1>1. rowLines' \in Int /\ lines' \in Int
    <2>1. Below' \in {0, DialogHeight}
      BY DEF Below
    <2> QED
      BY <2>1, LinesNat DEF Placed
  <1>2. /\ rows' \in Nat /\ rowCursor' \in Nat /\ rowCursor' <= AtLeast(0, rows' - 1)
        /\ Len(accesses') \in Nat /\ cursor' \in Nat /\ cursor' <= AtLeast(0, Len(accesses') - 1)
        /\ rowOffset \in Int /\ start \in Int
    <2>1. rows' \in Nat /\ rowCursor' \in Nat /\ rowCursor' <= AtLeast(0, rows' - 1)
      BY DEF Placed, CursorsInRange
    <2>2. Len(accesses') \in Nat /\ cursor' \in Nat /\ cursor' <= AtLeast(0, Len(accesses') - 1)
      BY DEF Placed, CursorsInRange
    <2>3. rowOffset \in Int /\ start \in Int
      BY DEF IInv, TypeOK
    <2> QED
      BY <2>1, <2>2, <2>3
  <1> HIDE DEF rowLines, lines
  <1>3. /\ rowOffset' = KeepVisible(rowOffset, rowCursor', rowLines', rows')
        /\ offset' = IF screen' = "access" THEN KeepVisible(start, cursor', lines', Len(accesses')) ELSE start
    BY DEF ScrolledFrom, rowLines, lines
  <1>4. rowOffset' \in Nat /\ Shows(rowOffset', rowCursor', rowLines', rows')
    <2>1. KeepVisible(rowOffset, rowCursor', rowLines', rows') \in Nat
      BY <1>1, <1>2, KeepVisibleNat
    <2>2. Shows(KeepVisible(rowOffset, rowCursor', rowLines', rows'), rowCursor', rowLines', rows')
      BY <1>1, <1>2, KeepVisibleShows
    <2> QED
      BY <2>1, <2>2, <1>3
  <1>5. /\ offset' \in Nat
        /\ screen' = "access" => Shows(offset', cursor', lines', Len(accesses'))
    <2>1. KeepVisible(start, cursor', lines', Len(accesses')) \in Nat
      BY <1>1, <1>2, KeepVisibleNat
    <2>2. Shows(KeepVisible(start, cursor', lines', Len(accesses')), cursor', lines', Len(accesses'))
      BY <1>1, <1>2, KeepVisibleShows
    <2> QED
      BY <2>1, <2>2, <1>3
  <1>6. WindowsFull'
    BY <1>4, <1>5 DEF WindowsFull, rowLines, lines
  <1> QED
    BY <1>4, <1>5, <1>6 DEF IInv, TypeOK, Placed

\* A snapshot lists the addresses of the log.
LEMMA SnapshotLists ==
    ASSUME NEW list \in Snapshots
    PROVE  /\ list \in Seq(Addrs) /\ Len(list) \in Nat /\ DOMAIN list = 1..Len(list)
           /\ \A i \in DOMAIN list : list[i] \in Tracked
           /\ \A a \in Tracked : \E i \in DOMAIN list : list[i] = a
  <1>1. Tracked \subseteq Addrs /\ IsFiniteSet(Tracked)
    BY AddrsAssumption, FS_Subset DEF Tracked
  <1>2. Cardinality(Tracked) \in Nat
    BY <1>1, FS_CardinalityType
  <1>3. list \in [1..Cardinality(Tracked) -> Tracked]
    BY DEF Snapshots
  <1>4. list \in Seq(Tracked) /\ DOMAIN list = 1..Cardinality(Tracked)
    BY <1>2, <1>3
  <1> QED
    BY <1>1, <1>2, <1>3, <1>4 DEF Snapshots

\* A refresh finds the address that the cursor is on, and no refresh leaves
\* the cursor behind the end of the list.
LEMMA RefreshRight ==
    ASSUME IInv, NEW start \in Nat, start <= AtLeast(0, Len(accesses) - 1),
           screen' = "access" \/ start = 0, Refresh(start), UNCHANGED logVars
    PROVE  /\ accesses' \in Seq(Addrs) /\ ListedTracked'
           /\ cursor' \in Nat /\ cursor' <= AtLeast(0, Len(accesses') - 1)
           /\ screen' # "access" => cursor' = 0
           /\ screen' = "access" /\ start < Len(accesses)
                  => cursor' < Len(accesses') /\ accesses'[cursor' + 1] = accesses[start + 1]
  <1>1. accesses' \in Snapshots
    BY DEF Refresh
  <1>2. /\ accesses' \in Seq(Addrs) /\ Len(accesses') \in Nat /\ DOMAIN accesses' = 1..Len(accesses')
        /\ \A i \in DOMAIN accesses' : accesses'[i] \in Tracked
        /\ \A a \in Tracked : \E i \in DOMAIN accesses' : accesses'[i] = a
    BY <1>1, SnapshotLists
  <1>3. ListedTracked'
    BY <1>2 DEF ListedTracked, Tracked, logVars
  <1>4. Len(accesses) \in Nat /\ (start < Len(accesses) => accesses[start + 1] \in Tracked)
    BY DEF IInv, TypeOK, ListedTracked
  <1>5. CASE screen' = "access" /\ start < Len(accesses)
    <2> DEFINE Found(i) == accesses'[i + 1] = accesses[start + 1]
    <2>1. PICK j \in DOMAIN accesses' : accesses'[j] = accesses[start + 1]
      BY <1>2, <1>4, <1>5
    <2>2. j - 1 \in 0..Len(accesses') - 1 /\ Found(j - 1)
      BY <1>2, <2>1
    <2>3. cursor' = CHOOSE i \in 0..Len(accesses') - 1 : Found(i)
      BY <1>4, <1>5 DEF Refresh
    <2> HIDE DEF Found
    <2>4. cursor' \in 0..Len(accesses') - 1 /\ Found(cursor')
      BY <2>2, <2>3
    <2> QED
      BY <1>2, <1>3, <1>5, <2>4 DEF Found, AtLeast
  <1>6. CASE ~(screen' = "access" /\ start < Len(accesses))
    <2>1. cursor' = start /\ start = 0
      BY <1>4, <1>6 DEF Refresh, AtLeast
    <2> QED
      BY <1>2, <1>3, <1>6, <2>1 DEF AtLeast
  <1> QED
    BY <1>5, <1>6

\* The log never loses an address.
LEMMA TrackedGrows ==
    ASSUME LogTypeOK, NEW a \in Addrs, NEW now \in Nat, Record(a, now)
    PROVE  LogTypeOK' /\ Tracked \subseteq Tracked'
  BY DEF Record, LogTypeOK, Tracked

\* A request.
LEMMA VisitKeeps ==
    ASSUME IInv, NEW a \in Addrs, NEW now \in 1..MaxTime, Visit(a, now)
    PROVE  IInv'
  <1>1. now \in Nat
    BY BoundsAssumption
  <1>2. LogTypeOK' /\ Tracked \subseteq Tracked'
    BY <1>1, TrackedGrows DEF Visit, IInv, TypeOK
  <1>3. UNCHANGED <<height, rowVars, dialog, accessVars, screen>>
    BY DEF Visit
  <1>4. TypeOK'
    BY <1>2, <1>3 DEF IInv, TypeOK, rowVars, accessVars
  <1>5. CursorsInRange' /\ WindowsFull'
    BY <1>3 DEF IInv, CursorsInRange, WindowsFull, Below, Open, rowVars, accessVars
  <1>6. ListedTracked'
    BY <1>2, <1>3 DEF IInv, ListedTracked, accessVars
  <1> QED
    BY <1>4, <1>5, <1>6 DEF IInv

\* The messages and keys of the services.
ServiceSteps ==
    \/ \E n \in 0..MaxRows : \E i \in 0..AtLeast(0, n - 1) : RowsChange(n, i)
    \/ RowUp \/ RowDown
    \/ OpenDialog
    \/ \E next \in {"none", "allow", "expire"} : DialogKey(next)
    \/ \E lines \in Heights : Resize(lines)

LEMMA ServiceStepsKeep ==
    ASSUME IInv, ServiceSteps
    PROVE  IInv'
  <1> USE DEF Placed, LogTypeOK, logVars, Tracked, CursorsInRange, ListedTracked
  <1>1. Placed /\ offset \in Nat
    BY IInvPlaced DEF IInv, TypeOK
  <1>2. ASSUME NEW n \in 0..MaxRows, NEW i \in 0..AtLeast(0, n - 1), RowsChange(n, i)
        PROVE  IInv'
    <2>1. n \in Nat /\ i \in Nat /\ i <= AtLeast(0, n - 1)
      BY BoundsAssumption DEF AtLeast
    <2>2. Placed' /\ ScrolledFrom(offset)
      BY <1>1, <1>2, <2>1 DEF RowsChange, Scrolled
    <2> QED
      BY <1>1, <2>2, ScrolledRight
  <1>3. CASE RowUp
    <2>1. Placed' /\ ScrolledFrom(offset)
      BY <1>1, <1>3 DEF RowUp, Scrolled, AtLeast
    <2> QED
      BY <1>1, <2>1, ScrolledRight
  <1>4. CASE RowDown
    <2>1. Placed' /\ ScrolledFrom(offset)
      BY <1>1, <1>4 DEF RowDown, Scrolled, AtLeast, AtMost
    <2> QED
      BY <1>1, <2>1, ScrolledRight
  <1>5. CASE OpenDialog
    <2>1. Placed' /\ ScrolledFrom(offset)
      BY <1>1, <1>5 DEF OpenDialog, Scrolled
    <2> QED
      BY <1>1, <2>1, ScrolledRight
  <1>6. ASSUME NEW next \in {"none", "allow", "expire"}, DialogKey(next)
        PROVE  IInv'
    <2>1. Placed' /\ ScrolledFrom(offset)
      BY <1>1, <1>6 DEF DialogKey, Scrolled
    <2> QED
      BY <1>1, <2>1, ScrolledRight
  <1>7. ASSUME NEW lines \in Heights, Resize(lines)
        PROVE  IInv'
    <2>1. Placed' /\ ScrolledFrom(offset)
      BY <1>1, <1>7 DEF Resize, Scrolled
    <2> QED
      BY <1>1, <2>1, ScrolledRight
  <1> QED
    BY <1>2, <1>3, <1>4, <1>5, <1>6, <1>7 DEF ServiceSteps

\* The messages and keys of the access screen.
AccessSteps == Clock \/ OpenAccess \/ CloseAccess \/ KeyUp \/ KeyDown

LEMMA AccessStepsKeep ==
    ASSUME IInv, AccessSteps
    PROVE  IInv'
  <1>1. /\ Placed /\ CursorsInRange /\ offset \in Nat /\ cursor \in Nat /\ Len(accesses) \in Nat
        /\ cursor <= AtLeast(0, Len(accesses) - 1)
        /\ screen = "access" \/ cursor = 0
    BY IInvPlaced DEF IInv, TypeOK, CursorsInRange
  <1>2. CASE Clock
    <2>1. screen' = "access" \/ cursor = 0
      BY <1>1, <1>2 DEF Clock
    <2>2. /\ accesses' \in Seq(Addrs) /\ ListedTracked'
          /\ cursor' \in Nat /\ cursor' <= AtLeast(0, Len(accesses') - 1)
          /\ screen' # "access" => cursor' = 0
      BY <1>1, <1>2, <2>1, RefreshRight DEF Clock
    <2>3. Placed' /\ ScrolledFrom(offset)
      BY <1>1, <1>2, <2>2 DEF Clock, Scrolled, Placed, CursorsInRange, LogTypeOK, logVars
    <2> QED
      BY <1>1, <2>3, ScrolledRight
  <1>3. CASE OpenAccess
    <2>1. 0 \in Nat /\ 0 <= AtLeast(0, Len(accesses) - 1)
      BY <1>1 DEF AtLeast
    <2>2. /\ accesses' \in Seq(Addrs) /\ ListedTracked'
          /\ cursor' \in Nat /\ cursor' <= AtLeast(0, Len(accesses') - 1)
      BY <1>1, <1>3, <2>1, RefreshRight DEF OpenAccess
    <2>3. Placed' /\ ScrolledFrom(0)
      BY <1>1, <1>3, <2>2 DEF OpenAccess, Placed, CursorsInRange, LogTypeOK, logVars
    <2> QED
      BY <2>1, <2>3, ScrolledRight
  <1>4. CASE CloseAccess
    <2>1. Placed' /\ ScrolledFrom(0)
      BY <1>1, <1>4 DEF CloseAccess, Placed, CursorsInRange, ListedTracked, Tracked, LogTypeOK, logVars, AtLeast
    <2> QED
      BY <2>1, ScrolledRight
  <1>5. CASE KeyUp
    <2>1. Placed' /\ ScrolledFrom(offset)
      BY <1>1, <1>5 DEF KeyUp, Scrolled, Placed, CursorsInRange, ListedTracked, Tracked, LogTypeOK, logVars, AtLeast
    <2> QED
      BY <1>1, <2>1, ScrolledRight
  <1>6. CASE KeyDown
    <2>1. cursor' \in Nat /\ cursor' <= AtLeast(0, Len(accesses) - 1)
      BY <1>1, <1>6 DEF KeyDown, AtLeast, AtMost
    <2>2. Placed' /\ ScrolledFrom(offset)
      BY <1>1, <1>6, <2>1 DEF KeyDown, Scrolled, Placed, CursorsInRange, ListedTracked, Tracked, LogTypeOK, logVars
    <2> QED
      BY <1>1, <2>2, ScrolledRight
  <1> QED
    BY <1>2, <1>3, <1>4, <1>5, <1>6 DEF AccessSteps

\* The invariant holds of every terminal, list and log.
THEOREM Invariance == Spec => []IInv
  <1>1. Init => IInv
    <2> SUFFICES ASSUME Init PROVE IInv
      OBVIOUS
    <2>1. height \in Nat /\ ~Open
      BY BoundsAssumption DEF Init, Open
    <2>2. VisibleLines(height, Below, AboveRows) \in Nat \ {0}
      BY <2>1, VisibleBounds DEF Below
    <2>3. WindowsFull
      BY <2>2 DEF Init, WindowsFull, Shows, AtLeast
    <2> QED
      BY <2>3 DEF Init, LogInit, IInv, TypeOK, LogTypeOK, CursorsInRange, ListedTracked, AtLeast
  <1>2. IInv /\ [Next]_vars => IInv'
    <2> SUFFICES ASSUME IInv, [Next]_vars PROVE IInv'
      OBVIOUS
    <2>1. ASSUME NEW a \in Addrs, NEW now \in 1..MaxTime, Visit(a, now) PROVE IInv'
      BY <2>1, VisitKeeps
    <2>2. CASE ServiceSteps \/ AccessSteps
      BY <2>2, ServiceStepsKeep, AccessStepsKeep
    <2>3. CASE UNCHANGED vars
      BY <2>3 DEF vars, logVars, rowVars, accessVars, IInv, TypeOK, LogTypeOK, CursorsInRange,
                  ListedTracked, Tracked, WindowsFull, Below, Open
    <2> QED
      BY <2>1, <2>2, <2>3 DEF Next, ServiceSteps, AccessSteps
  <1> QED
    BY <1>1, <1>2, PTL DEF Spec

\* The variables keep their types.
THEOREM TypeCorrect == Spec => []TypeOK
  BY Invariance, PTL DEF IInv

\* On a terminal of any height the user sees what the keys act on.
THEOREM SelectionOnScreenCorrect == Spec => []SelectionOnScreen
  <1>1. IInv => SelectionOnScreen
    <2> SUFFICES ASSUME IInv PROVE SelectionOnScreen
      OBVIOUS
    <2>1. /\ height \in Nat /\ Below \in Nat /\ Above \in 1..2
          /\ ListOffset \in Nat /\ ListLength \in Nat /\ Selected \in Nat
          /\ Selected <= AtLeast(0, ListLength - 1)
      BY BoundsAssumption DEF IInv, TypeOK, CursorsInRange, Below, Above, ListOffset, ListLength, Selected
    <2>2. Shows(ListOffset, Selected, VisibleLines(height, Below, Above), ListLength)
      BY DEF IInv, TypeOK, WindowsFull, ListOffset, Selected, Above, ListLength
    <2>3. VisibleLines(height, Below, Above) \in Nat \ {0}
      BY <2>1, VisibleBounds
    <2>4. StatusLast
      BY <2>1, StatusLine DEF StatusLast, Shown
    <2>5. LabelRight
      BY <2>1, <2>2, LabelCounts DEF LabelRight
    <2>6. ASSUME ~Open, ListLength > 0, HasRoom(height, Below, Above)
          PROVE  Shown(ListCursor(height, Below, Above, ListOffset, Selected)) = Line("entry", Selected)
      <3>1. ListOffset <= Selected /\ Selected < ListOffset + VisibleLines(height, Below, Above)
        BY <2>1, <2>2, <2>3 DEF Shows, AtLeast
      <3>2. Selected < ListLength
        BY <2>1, <2>6 DEF AtLeast
      <3> QED
        BY <2>1, <2>6, <3>1, <3>2, EntryLine DEF Shown
    <2>7. ASSUME Open, DialogHasRoom(height)
          PROVE  Shown(DialogCursor(height, dialog)) = Line(dialog, 0)
      <3>1. dialog \in {"allow", "expire"} /\ Below = DialogHeight
        BY <2>7 DEF Open, Below, IInv, TypeOK
      <3> QED
        BY <2>1, <2>7, <3>1, FieldLine DEF Shown
    <2>8. CursorOnSelection
      BY <2>6, <2>7 DEF CursorOnSelection
    <2> QED
      BY <2>4, <2>5, <2>8 DEF SelectionOnScreen, IInv
  <1> QED
    BY <1>1, Invariance, PTL

(***************************************************************************)
(* What a step does to the selection and to the windows.                   *)
(***************************************************************************)

\* No refresh moves the selection of the access screen to another address.
THEOREM SelectionFollowsAddrCorrect == Spec => SelectionFollowsAddr
  <1> DEFINE Follows == screen = "access" /\ screen' = "access" /\ accesses' # accesses /\ UnderCursor # 0
                            => UnderCursor' = UnderCursor
  <1>1. IInv /\ IInv' /\ [Next]_vars => [Follows]_vars
    <2> SUFFICES ASSUME IInv, Next, screen = "access", screen' = "access",
                        accesses' # accesses, UnderCursor # 0
                 PROVE  UnderCursor' = UnderCursor
      OBVIOUS
    <2>1. Clock
      BY DEF Next, Visit, RowsChange, RowUp, RowDown, OpenDialog, DialogKey, OpenAccess,
             CloseAccess, KeyUp, KeyDown, Resize, accessVars
    <2>2. /\ cursor \in Nat /\ Len(accesses) \in Nat /\ cursor <= AtLeast(0, Len(accesses) - 1)
          /\ cursor < Len(accesses)
      BY DEF IInv, TypeOK, CursorsInRange, UnderCursor
    <2>3. Refresh(cursor) /\ UNCHANGED logVars
      BY <2>1 DEF Clock
    <2>4. cursor' < Len(accesses') /\ accesses'[cursor' + 1] = accesses[cursor + 1]
      BY <2>2, <2>3, RefreshRight
    <2> QED
      BY <2>2, <2>4 DEF UnderCursor
  <1> QED
    BY <1>1, Invariance, PTL DEF Spec, SelectionFollowsAddr

\* A window that stays is nearest to where it was.
LEMMA StayingNearest ==
    ASSUME NEW start \in Nat, NEW selected, NEW visible, NEW total, selected \in Nat
    PROVE  Nearest(start, start, selected, visible, total)
  BY DEF Nearest, Distance

\* No window moves further than it must.
THEOREM ScrollsLeastCorrect == Spec => ScrollsLeast
  <1> DEFINE rowLines == VisibleLines(height, Below, AboveRows)
             lines == VisibleLines(height, Below, AboveAccesses)
             Least ==
                 /\ Nearest(rowOffset', rowOffset, rowCursor', VisibleLines(height', Below', AboveRows), rows')
                 /\ screen = "access" /\ screen' = "access"
                        => Nearest(offset', offset, cursor', VisibleLines(height', Below', AboveAccesses), Len(accesses'))
  <1>1. IInv /\ IInv' /\ [Next]_vars => [Least]_vars
    <2> SUFFICES ASSUME IInv, IInv', Next PROVE Least
      OBVIOUS
    <2>1. rowLines' \in Int /\ lines' \in Int
      <3>1. Below' \in {0, DialogHeight} /\ height' \in Heights
        BY DEF Below, IInv, TypeOK
      <3> QED
        BY <3>1, LinesNat
    <2>2. /\ rows' \in Nat /\ rowCursor' \in Nat /\ rowCursor' <= AtLeast(0, rows' - 1)
          /\ Len(accesses') \in Nat /\ cursor' \in Nat /\ cursor' <= AtLeast(0, Len(accesses') - 1)
          /\ rowOffset \in Int /\ offset \in Int /\ rowOffset \in Nat /\ offset \in Nat
      BY DEF IInv, TypeOK, CursorsInRange
    <2> HIDE DEF rowLines, lines
    <2>3. ASSUME ScrolledFrom(offset) PROVE Least
      <3>1. /\ rowOffset' = KeepVisible(rowOffset, rowCursor', rowLines', rows')
            /\ screen' = "access" => offset' = KeepVisible(offset, cursor', lines', Len(accesses'))
        BY <2>3 DEF ScrolledFrom, rowLines, lines
      <3>2. Nearest(KeepVisible(rowOffset, rowCursor', rowLines', rows'), rowOffset, rowCursor', rowLines', rows')
        BY <2>1, <2>2, KeepVisibleNearest
      <3>3. Nearest(KeepVisible(offset, cursor', lines', Len(accesses')), offset, cursor', lines', Len(accesses'))
        BY <2>1, <2>2, KeepVisibleNearest
      <3> QED
        BY <3>1, <3>2, <3>3 DEF rowLines, lines
    <2>4. ASSUME ScrolledFrom(0), screen # "access" \/ screen' # "access" PROVE Least
      <3>1. rowOffset' = KeepVisible(rowOffset, rowCursor', rowLines', rows')
        BY <2>4 DEF ScrolledFrom, rowLines
      <3>2. Nearest(KeepVisible(rowOffset, rowCursor', rowLines', rows'), rowOffset, rowCursor', rowLines', rows')
        BY <2>1, <2>2, KeepVisibleNearest
      <3> QED
        BY <2>4, <3>1, <3>2 DEF rowLines
    <2>5. ASSUME NEW a \in Addrs, NEW now \in 1..MaxTime, Visit(a, now) PROVE Least
      <3>1. rowOffset' = rowOffset /\ offset' = offset
        BY <2>5 DEF Visit, rowVars, accessVars
      <3> QED
        BY <2>2, <3>1, StayingNearest
    <2>6. CASE ServiceSteps \/ Clock \/ KeyUp \/ KeyDown
      <3>1. ScrolledFrom(offset)
        BY <2>6 DEF ServiceSteps, RowsChange, RowUp, RowDown, OpenDialog, DialogKey, Resize,
                    Clock, KeyUp, KeyDown, Scrolled
      <3> QED
        BY <2>3, <3>1
    <2>7. CASE OpenAccess \/ CloseAccess
      <3>1. ScrolledFrom(0) /\ (screen # "access" \/ screen' # "access")
        BY <2>7 DEF OpenAccess, CloseAccess
      <3> QED
        BY <2>4, <3>1
    <2> HIDE DEF Least
    <2> QED
      BY <2>5, <2>6, <2>7 DEF Next, ServiceSteps
  <1> QED
    BY <1>1, Invariance, PTL DEF Spec, ScrollsLeast

-----------------------------------------------------------------------------
(***************************************************************************)
(* The entries of the access screen: the next clock lists everybody, once, *)
(* and nobody leaves.                                                      *)
(***************************************************************************)
Listed == {accesses[i] : i \in DOMAIN accesses}

\* An address that is on the list stays on it, and after a message of the clock
\* the list has all addresses of the log and no other.
ListComplete == [][Listed \subseteq Listed' /\ (Clock => Listed' = Tracked)]_vars

\* No address is listed twice.
ListedOnce == \A i, j \in DOMAIN accesses : accesses[i] = accesses[j] => i = j

\* A snapshot lists the addresses of the log, each of them once, because its
\* order is strict.
LEMMA SnapshotOnce ==
    ASSUME LogTypeOK, NEW list \in Snapshots
    PROVE  /\ {list[i] : i \in DOMAIN list} = Tracked
           /\ \A i, j \in DOMAIN list : list[i] = list[j] => i = j
  <1>1. /\ DOMAIN list = 1..Len(list) /\ Len(list) \in Nat
        /\ \A i \in DOMAIN list : list[i] \in Tracked
        /\ \A a \in Tracked : \E i \in DOMAIN list : list[i] = a
    BY SnapshotLists
  <1>2. \A a \in Tracked : ~ListedBefore(a, a)
    BY AddrsAssumption DEF Tracked, ListedBefore, LogTypeOK
  <1>3. \A i, j \in DOMAIN list : i < j => list[i] # list[j]
    BY <1>1, <1>2 DEF Snapshots
  <1>4. \A i, j \in DOMAIN list : i < j \/ j < i \/ i = j
    BY <1>1
  <1>5. \A i, j \in DOMAIN list : list[i] = list[j] => i = j
    BY <1>3, <1>4
  <1> QED
    BY <1>1, <1>5

\* A step leaves the list, or takes a snapshot of a log that has not changed.
LEMMA ListSteps ==
    ASSUME [Next]_vars
    PROVE  UNCHANGED accesses \/ (accesses' \in Snapshots /\ UNCHANGED logVars)
  BY DEF Next, Visit, RowsChange, RowUp, RowDown, OpenDialog, DialogKey, CloseAccess, KeyUp, KeyDown, Resize,
         Clock, OpenAccess, Refresh, vars, accessVars

\* Nobody who is on the access screen disappears from it, and one second after
\* a request its address is there (shares.go:245-248, access.go:46-60).
THEOREM ListCompleteCorrect == Spec => ListComplete
  <1>1. ASSUME IInv, [Next]_vars PROVE Listed \subseteq Listed' /\ (Clock => Listed' = Tracked)
    <2>1. Listed \subseteq Tracked
      BY <1>1 DEF IInv, ListedTracked, Listed
    <2>2. accesses' \in Snapshots => Listed' = Tracked
      BY <1>1, SnapshotOnce DEF IInv, TypeOK, Listed
    <2>3. UNCHANGED accesses => Listed' = Listed
      BY DEF Listed
    <2>4. Clock => accesses' \in Snapshots
      BY DEF Clock, Refresh
    <2> QED
      BY <1>1, <2>1, <2>2, <2>3, <2>4, ListSteps
  <1>2. IInv /\ [Next]_vars => [Listed \subseteq Listed' /\ (Clock => Listed' = Tracked)]_vars
    BY <1>1
  <1> QED
    BY <1>2, Invariance, PTL DEF Spec, ListComplete

\* The access screen has one entry for an address (access.go:46-60).
THEOREM ListedOnceCorrect == Spec => []ListedOnce
  <1>1. Init => ListedOnce
    BY DEF Init, ListedOnce
  <1>2. ASSUME IInv, ListedOnce, [Next]_vars PROVE ListedOnce'
    <2>1. CASE UNCHANGED accesses
      BY <1>2, <2>1 DEF ListedOnce
    <2>2. CASE accesses' \in Snapshots
      BY <1>2, <2>2, SnapshotOnce DEF IInv, TypeOK, ListedOnce
    <2> QED
      BY <1>2, <2>1, <2>2, ListSteps
  <1> QED
    BY <1>1, <1>2, Invariance, PTL DEF Spec

-----------------------------------------------------------------------------
(***************************************************************************)
(* Sorting the log.                                                        *)
(***************************************************************************)
Earlier(a) == {b \in Tracked : ListedBefore(b, a)}

Place(a) == Cardinality(Earlier(a)) + 1

\* The order of the list is total and strict.
LEMMA OrderStrict ==
    ASSUME LogTypeOK, NEW a \in Tracked, NEW b \in Tracked
    PROVE  /\ ~ListedBefore(a, a)
           /\ ListedBefore(a, b) \/ ListedBefore(b, a) \/ a = b
           /\ ListedBefore(a, b) => Earlier(a) \subseteq Earlier(b)
  <1>1. \A x \in Tracked : x \in Nat /\ log[x].lastSeen \in Nat
    BY AddrsAssumption DEF Tracked, LogTypeOK
  <1> QED
    BY <1>1 DEF ListedBefore, Earlier

\* Every address has a place of its own, behind those before it.
LEMMA PlaceRight ==
    ASSUME LogTypeOK, NEW a \in Tracked
    PROVE  /\ Cardinality(Tracked) \in Nat
           /\ Place(a) \in 1..Cardinality(Tracked)
           /\ \A b \in Tracked : ListedBefore(a, b) => Place(a) < Place(b)
  <1>1. Tracked \subseteq Addrs /\ IsFiniteSet(Tracked) /\ Cardinality(Tracked) \in Nat
    BY AddrsAssumption, FS_Subset, FS_CardinalityType DEF Tracked
  <1>2. \A b \in Tracked : IsFiniteSet(Earlier(b)) /\ Cardinality(Earlier(b)) \in Nat
    BY <1>1, FS_Subset, FS_CardinalityType DEF Earlier
  <1>3. \A b \in Tracked : \A S \in SUBSET Earlier(b) : Cardinality(S) <= Cardinality(Earlier(b))
    BY <1>2, FS_Subset
  <1>4. Cardinality(Earlier(a)) < Cardinality(Tracked)
    <2>1. Earlier(a) \in SUBSET Tracked /\ Earlier(a) # Tracked
      BY OrderStrict DEF Earlier
    <2> QED
      BY <1>1, <1>2, <2>1, FS_Subset
  <1>5. ASSUME NEW b \in Tracked, ListedBefore(a, b) PROVE Cardinality(Earlier(a)) < Cardinality(Earlier(b))
    <2>1. Earlier(a) \in SUBSET Earlier(b)
      BY <1>5, OrderStrict
    <2>2. a \in Earlier(b) /\ a \notin Earlier(a)
      BY <1>5, OrderStrict DEF Earlier
    <2> QED
      BY <1>2, <2>1, <2>2, FS_Subset
  <1> QED
    BY <1>1, <1>2, <1>4, <1>5 DEF Place

\* In a snapshot, an address is at its place.
LEMMA SnapshotPlaces ==
    ASSUME LogTypeOK, NEW list \in Snapshots, NEW i \in DOMAIN list
    PROVE  Place(list[i]) = i
  <1> DEFINE first == [j \in 1..i - 1 |-> list[j]]
  <1>1. /\ DOMAIN list = 1..Len(list) /\ Len(list) \in Nat
        /\ \A j \in DOMAIN list : list[j] \in Tracked
        /\ \A a \in Tracked : \E j \in DOMAIN list : list[j] = a
    BY SnapshotLists
  <1>2. \A j, k \in DOMAIN list : list[j] = list[k] => j = k
    BY SnapshotOnce
  <1>3. \A j, k \in DOMAIN list : j < k => ListedBefore(list[j], list[k]) /\ ~ListedBefore(list[k], list[j])
    <2>1. \A a, b \in Tracked : ListedBefore(a, b) => ~ListedBefore(b, a)
      BY AddrsAssumption DEF ListedBefore, Tracked, LogTypeOK
    <2> QED
      BY <1>1, <2>1 DEF Snapshots
  <1>4. i \in Nat \ {0} /\ 1..i - 1 \subseteq DOMAIN list /\ \A j \in DOMAIN list : j \in 1..i - 1 <=> j < i
    BY <1>1
  <1>5. \A j \in DOMAIN list : ListedBefore(list[j], list[i]) <=> j < i
    BY <1>1, <1>3, OrderStrict
  <1>6. first \in Bijection(1..i - 1, Earlier(list[i]))
    <2>1. \A j \in 1..i - 1 : first[j] \in Earlier(list[i])
      BY <1>1, <1>4, <1>5 DEF Earlier
    <2>2. \A j, k \in 1..i - 1 : first[j] = first[k] => j = k
      BY <1>2, <1>4
    <2>3. \A a \in Earlier(list[i]) : \E j \in 1..i - 1 : first[j] = a
      BY <1>1, <1>4, <1>5 DEF Earlier
    <2> QED
      BY <2>1, <2>2, <2>3 DEF Bijection, Injection, Surjection, IsInjective
  <1>7. Cardinality(Earlier(list[i])) = i - 1
    <2>1. IsFiniteSet(1..i - 1) /\ Cardinality(1..i - 1) = i - 1
      <3>1. 1 \in Int /\ i - 1 \in Int /\ (IF 1 > i - 1 THEN 0 ELSE (i - 1) - 1 + 1) = i - 1
        BY <1>4
      <3> QED
        BY ONLY <3>1, FS_Interval
    <2> QED
      BY <1>6, <2>1, FS_Bijection DEF ExistsBijection
  <1> QED
    BY <1>4, <1>7 DEF Place

\* Every log has exactly one sorted list: a refresh always has a result, and
\* the same log never gives two (access.go:46-60).
THEOREM SnapshotUnique == ASSUME LogTypeOK PROVE \E list : Snapshots = {list}
  <1> DEFINE n == Cardinality(Tracked)
             place == [a \in Tracked |-> Place(a)]
             sorted == [i \in 1..n |-> CHOOSE a \in Tracked : Place(a) = i]
  <1>1. IsFiniteSet(Tracked) /\ n \in Nat
    BY AddrsAssumption, FS_Subset, FS_CardinalityType DEF Tracked
  <1>2. \A a \in Tracked : Place(a) \in 1..n /\ \A b \in Tracked : ListedBefore(a, b) => Place(a) < Place(b)
    BY PlaceRight
  <1>3. \A a, b \in Tracked : Place(a) = Place(b) => a = b
    BY <1>2, OrderStrict
  <1>4. \A i \in 1..n : \E a \in Tracked : Place(a) = i
    <2>1. place \in Injection(Tracked, 1..n)
      BY <1>2, <1>3 DEF Injection, IsInjective
    <2>2. IsFiniteSet(1..n) /\ Cardinality(1..n) = n
      BY <1>1, FS_Interval
    <2>3. place \in Surjection(Tracked, 1..n)
      BY <2>1, <2>2, FS_Injection
    <2> QED
      BY <2>3 DEF Surjection
  <1>5. \A i \in 1..n : sorted[i] \in Tracked /\ Place(sorted[i]) = i
    BY <1>4
  <1> HIDE DEF place
  <1>6. sorted \in Snapshots
    <2>1. \A a \in Tracked : \E i \in 1..n : sorted[i] = a
      BY <1>2, <1>3, <1>5
    <2>2. \A i, j \in 1..n : i < j => ListedBefore(sorted[i], sorted[j])
      BY <1>2, <1>5, OrderStrict
    <2> QED
      BY <1>5, <2>1, <2>2 DEF Snapshots
  <1>7. ASSUME NEW list \in Snapshots PROVE list = sorted
    <2>1. DOMAIN list = 1..n /\ list \in [1..n -> Tracked]
      BY DEF Snapshots
    <2>2. \A i \in 1..n : list[i] \in Tracked /\ Place(list[i]) = i
      BY <2>1, SnapshotPlaces
    <2>3. \A i \in 1..n : list[i] = sorted[i]
      BY <1>3, <1>5, <2>2
    <2> HIDE DEF sorted
    <2>4. sorted \in [1..n -> Tracked]
      BY <1>6 DEF Snapshots
    <2>5. list = [i \in 1..n |-> list[i]] /\ sorted = [i \in 1..n |-> sorted[i]]
      BY <2>1, <2>4
    <2> QED
      BY <2>3, <2>5
  <1> HIDE DEF sorted
  <1>8. Snapshots = {sorted}
    BY <1>6, <1>7
  <1> QED
    BY <1>8

-----------------------------------------------------------------------------
(***************************************************************************)
(* Liveness.  No prover here reasons about ENABLED, so that the clock can  *)
(* change a list that does not have everybody is a hypothesis.  It needs a *)
(* snapshot of every log: SnapshotUnique.                                  *)
(***************************************************************************)
ClockCanTick == Listed # Tracked => ENABLED <<Clock>>_vars

\* Who is in the log stays in it.
LEMMA TrackedStays == ASSUME IInv, [Next]_vars PROVE Tracked \subseteq Tracked'
  <1>1. ASSUME NEW a \in Addrs, NEW now \in 1..MaxTime, Visit(a, now) PROVE Tracked \subseteq Tracked'
    <2>1. now \in Nat
      BY BoundsAssumption
    <2> QED
      BY <1>1, <2>1, TrackedGrows DEF Visit, IInv, TypeOK
  <1>2. CASE UNCHANGED logVars
    BY <1>2 DEF logVars, Tracked
  <1> QED
    BY <1>1, <1>2
       DEF Next, RowsChange, RowUp, RowDown, OpenDialog, DialogKey, CloseAccess, KeyUp, KeyDown, Resize,
           Clock, OpenAccess, vars, logVars

\* Every address that is tracked shows up in the list in the end, whether the
\* screen is open or not (shares.go:245-248).
THEOREM VisitorListedCorrect == LiveSpec /\ []ClockCanTick => VisitorListed
  <1>1. ASSUME NEW a \in Addrs
        PROVE  LiveSpec /\ []ClockCanTick => (a \in Tracked ~> \E i \in DOMAIN accesses : accesses[i] = a)
    <2> DEFINE Waits == a \in Tracked /\ a \notin Listed
               There == \E i \in DOMAIN accesses : accesses[i] = a
    <2>1. a \in Tracked => Waits \/ There
      BY DEF Listed
    <2>2. IInv /\ Waits /\ [Next]_vars => Waits' \/ There'
      BY TrackedStays DEF Listed
    <2>3. IInv /\ Waits /\ <<Clock>>_vars => There'
      <3> SUFFICES ASSUME IInv, Waits, Clock PROVE There'
        OBVIOUS
      <3>1. accesses' \in Snapshots
        BY DEF Clock, Refresh
      <3> QED
        BY <3>1, SnapshotLists DEF IInv, TypeOK
    <2>4. Waits /\ ClockCanTick => ENABLED <<Clock>>_vars
      BY DEF ClockCanTick
    <2>5. LiveSpec /\ []ClockCanTick => (a \in Tracked ~> There)
      <3> HIDE DEF Waits, There
      <3> QED
        BY <2>1, <2>2, <2>3, <2>4, Invariance, PTL DEF LiveSpec, Spec
    <2> QED
      BY <2>5, PTL DEF There
  <1> QED
    BY <1>1 DEF VisitorListed
=============================================================================
