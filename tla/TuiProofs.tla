----------------------------- MODULE TuiProofs -----------------------------
(***************************************************************************)
(* Proofs about module Tui, for every set of ports and of shares: at most  *)
(* one share for a port, no share lost, no decision to exit while one is   *)
(* running, a selection and keys that agree with the list, and no way to   *)
(* be stuck while quitting.                                                *)
(***************************************************************************)
EXTENDS Tui, FiniteSetTheorems, TLAPS

USE DEF vars, contractVars, listVars, screenVars, cmdVars, submitVars, uiVars, NoPort

-----------------------------------------------------------------------------
(***************************************************************************)
(* The list and its selection.                                             *)
(***************************************************************************)

\* Rows have numbers, and so do the places in them.
LEMMA RowNumbers ==
    ASSUME NEW R \in SUBSET Ports
    PROVE  /\ LastRow(R) \in Nat
           /\ \A p : Rank(R, p) \in Nat
           /\ \A c \in Nat : Clamp(c, R) \in Nat /\ Clamp(c, R) <= LastRow(R)
  <1>1. IsFiniteSet(R)
    BY PortsAssumption, FS_Subset
  <1>2. Cardinality(R) \in Nat /\ (Cardinality(R) = 0 <=> R = {})
    BY <1>1, FS_CardinalityType, FS_EmptySet
  <1>3. LastRow(R) \in Nat
    BY <1>2 DEF LastRow
  <1>4. \A p : Rank(R, p) \in Nat
    <2> TAKE p
    <2>1. {q \in R : q < p} \in SUBSET R
      OBVIOUS
    <2> QED
      BY <1>1, <2>1, FS_Subset, FS_CardinalityType DEF Rank
  <1> QED
    BY <1>3, <1>4 DEF Clamp

\* selectPort gives the cursor a number.
LEMMA SelectPortNat ==
    ASSUME cursor \in Nat, NEW R \in SUBSET Ports, NEW sel
    PROVE  SelectPort(R, sel) \in Nat
  BY RowNumbers DEF SelectPort

\* The rows of submitted shares are ports.
LEMMA RowsArePorts ==
    ASSUME TypeOK, ShareInv,
           NEW svcs \in SUBSET Ports, NEW shs \in SUBSET Live, NEW opn \in SUBSET Live
    PROVE  RowsOf(svcs, shs, opn) \in SUBSET Ports
  <1>1. \A s \in Live : port[s] \in Ports
    BY DEF TypeOK, ShareInv, Live
  <1> QED
    BY <1>1 DEF RowsOf, PortsOf

-----------------------------------------------------------------------------
(***************************************************************************)
(* The steps that leave a part of the invariant alone.                     *)
(***************************************************************************)
LEMMA ShareFrame ==
    ShareInv /\ UNCHANGED <<phase, exposed, port, opening, shares, starts, waits>> => ShareInv'
  BY DEF ShareInv, Live

LEMMA PortFrame ==
    ASSUME OneSharePerPort, ShareInv, Live \subseteq Shares,
           UNCHANGED <<port, opening, shares>>, dialog' \in {dialog, NoPort}
    PROVE  OneSharePerPort'
  <1>1. Live' = Live
    BY DEF Live
  <1>2. \A s \in Live : port[s] # NoPort
    BY DEF ShareInv
  <1> QED
    BY <1>1, <1>2 DEF OneSharePerPort

LEMMA AccessFrame ==
    AccessHasShare /\ UNCHANGED <<port, shares>> /\ access' \in {access, NoPort} => AccessHasShare'
  BY DEF AccessHasShare, On

LEMMA ExitFrame ==
    ExitInv /\ UNCHANGED <<opening, shares, late, quitIssued>> => ExitInv'
  BY DEF ExitInv, Live

\* The end of the program, by its decision or not, leaves the rest as it is.
LEMMA EndFrame ==
    ASSUME ProgramEnds
    PROVE  /\ ~exited /\ exited' = TRUE
           /\ UNCHANGED <<contractVars, listVars, screenVars, starts, waits, quitIssued, submitVars, quitting>>
  BY DEF ProgramEnds, Exit, Interrupted, Leaves

\* The shares of S on the port of s, one of them, are s alone.
LEMMA OnlyOne ==
    ASSUME OneSharePerPort, NEW S \in SUBSET Live, NEW s \in S
    PROVE  On(S, port[s]) = {s}
  BY DEF OneSharePerPort, On

-----------------------------------------------------------------------------
(***************************************************************************)
(* The steps that change it.                                               *)
(***************************************************************************)

\* The goroutines of the shares move the shares, and nothing of the UI.
LEMMA ShareStepsIInv ==
    ASSUME IInv, NEW s \in Shares,
           StartCall(s) \/ ShareExposes(s) \/ ShareWithdraws(s) \/ StartReturn(s) \/ ShareEnds(s)
    PROVE  ShareInv' /\ OneSharePerPort' /\ AccessHasShare' /\ ExitInv'
  <1>1. UNCHANGED uiVars
    BY Zenon DEF StartCall, ShareExposes, ShareWithdraws, StartReturn, ShareEnds
  <1>2. OneSharePerPort' /\ AccessHasShare' /\ ExitInv'
    BY <1>1, PortFrame, AccessFrame, ExitFrame DEF IInv, TypeOK, Live
  <1>3. ShareInv'
    <2> USE <1>1 DEF IInv, TypeOK, SC!TypeOK, SC!Phases, ShareInv, Live
    <2>1. CASE StartCall(s)
      BY <2>1 DEF StartCall, SC!StartShare
    <2>2. CASE ShareExposes(s)
      BY <2>2 DEF ShareExposes, SC!Expose
    <2>3. CASE ShareWithdraws(s)
      BY <2>3 DEF ShareWithdraws, SC!Withdraw
    <2>4. CASE StartReturn(s)
      BY <2>4 DEF StartReturn, SC!FailStart, SC!FinishStart
    <2>5. CASE ShareEnds(s)
      BY <2>5 DEF ShareEnds, SC!End
    <2> QED
      BY <2>1, <2>2, <2>3, <2>4, <2>5
  <1> QED
    BY <1>2, <1>3

\* A new share takes over the port of the dialog, which no share had.
LEMMA DialogSubmitIInv ==
    ASSUME IInv, NEW s \in Shares, DialogSubmit(s)
    PROVE  ShareInv' /\ OneSharePerPort' /\ AccessHasShare' /\ ExitInv'
  <1> USE DEF IInv, TypeOK, DialogSubmit, Live
  <1>1. s \notin Live /\ phase[s] = "idle"
    BY DEF ShareInv
  <1>2. port'[s] = dialog /\ \A t \in Shares \ {s} : port'[t] = port[t]
    OBVIOUS
  <1>3. opening' = opening \union {s} /\ shares' = shares
    OBVIOUS
  <1>4. ShareInv'
    BY <1>1, <1>2, <1>3 DEF ShareInv
  <1>5. OneSharePerPort'
    BY <1>1, <1>2, <1>3 DEF OneSharePerPort, ShareInv
  <1>6. AccessHasShare'
    BY <1>1, <1>2, <1>3 DEF AccessHasShare, On
  <1>7. ExitInv'
    BY <1>3 DEF ExitInv
  <1> QED
    BY <1>4, <1>5, <1>6, <1>7

\* The share moves from one list to the other.
LEMMA StartedIInv ==
    ASSUME IInv, NEW s \in Shares, Started(s)
    PROVE  ShareInv' /\ OneSharePerPort' /\ AccessHasShare' /\ ExitInv'
  <1> USE DEF IInv, TypeOK, Started, AskStop, Live
  <1>1. s \in opening
    BY DEF ShareInv
  <1>2. opening' = opening \ {s} /\ shares' = shares \union {s}
    BY <1>1, OnlyOne
  <1>3. ShareInv'
    BY <1>1, <1>2 DEF ShareInv
  <1>4. OneSharePerPort'
    BY <1>1, <1>2 DEF OneSharePerPort
  <1>5. AccessHasShare'
    BY <1>2 DEF AccessHasShare, On
  <1>6. ExitInv'
    BY <1>1, <1>2 DEF ExitInv
  <1> QED
    BY <1>3, <1>4, <1>5, <1>6

\* The share that failed leaves the list.
LEMMA FailedIInv ==
    ASSUME IInv, NEW s \in Shares, Failed(s)
    PROVE  ShareInv' /\ OneSharePerPort' /\ AccessHasShare' /\ ExitInv'
  <1> USE DEF IInv, TypeOK, Failed, AfterShareGone, Live
  <1>1. s \in opening
    BY DEF ShareInv
  <1>2. opening' = opening \ {s} /\ shares' = shares
    BY <1>1, OnlyOne
  <1>3. ShareInv'
    BY <1>1, <1>2 DEF ShareInv
  <1>4. OneSharePerPort'
    BY <1>2 DEF OneSharePerPort
  <1>5. AccessHasShare'
    BY <1>2 DEF AccessHasShare, On
  <1>6. ExitInv'
    BY <1>2 DEF ExitInv
  <1> QED
    BY <1>3, <1>4, <1>5, <1>6

\* The share that ended leaves the list: the port in the message leads to it,
\* and to no other share.
LEMMA EndedIInv ==
    ASSUME IInv, NEW s \in Shares, Ended(s)
    PROVE  ShareInv' /\ OneSharePerPort' /\ AccessHasShare' /\ ExitInv'
  <1> USE DEF IInv, TypeOK, Ended, AfterShareGone, Live
  <1>1. s \in shares
    BY DEF ShareInv
  <1>2. opening' = opening /\ shares' = shares \ {s}
    BY <1>1, OnlyOne
  <1>3. ShareInv'
    BY <1>1, <1>2 DEF ShareInv
  <1>4. OneSharePerPort'
    BY <1>2 DEF OneSharePerPort
  <1>5. AccessHasShare'
    BY <1>2 DEF AccessHasShare, On
  <1>6. ExitInv'
    BY <1>2 DEF ExitInv
  <1> QED
    BY <1>3, <1>4, <1>5, <1>6

\* Keys that move the cursor, stop a share or leave a screen, and scans: the
\* lists of shares stay.
LEMMA QuietIInv ==
    ASSUME IInv,
           \/ KeyUp \/ KeyDown \/ KeyStop \/ DialogCancel \/ AccessBack \/ AccessStop
           \/ \E svcs \in SUBSET Ports : Scanned(svcs)
    PROVE  ShareInv' /\ OneSharePerPort' /\ AccessHasShare' /\ ExitInv'
  <1>1. /\ UNCHANGED <<phase, exposed, port, opening, shares, starts, waits, late, quitIssued>>
        /\ dialog' \in {dialog, NoPort}
        /\ access' \in {access, NoPort}
    BY DEF KeyUp, KeyDown, KeyStop, DialogCancel, AccessBack, AccessStop, StopOn, AskStop, Scanned
  <1> QED
    BY <1>1, ShareFrame, PortFrame, AccessFrame, ExitFrame DEF IInv, TypeOK, Live

\* The dialog and the access screen open on the right rows.
LEMMA ScreenIInv ==
    ASSUME IInv, KeyOpen \/ KeyShare
    PROVE  ShareInv' /\ OneSharePerPort' /\ AccessHasShare' /\ ExitInv'
  <1>1. ShareInv' /\ ExitInv'
    BY ShareFrame, ExitFrame DEF IInv, KeyOpen, KeyShare
  <1>2. CASE KeyOpen
    BY <1>1, <1>2, PortFrame DEF IInv, TypeOK, Live, KeyOpen, AccessHasShare, On
  <1>3. CASE KeyShare
    <2>1. AccessHasShare'
      BY <1>3, AccessFrame DEF IInv, KeyShare
    <2>2. PICK p : On(Live, p) = {} /\ dialog' = p
      BY <1>3 DEF KeyShare, Live
    <2>3. OneSharePerPort'
      BY <1>3, <2>2 DEF IInv, KeyShare, OneSharePerPort, Live, On
    <2> QED
      BY <1>1, <2>1, <2>3
  <1> QED
    BY <1>2, <1>3

\* Quitting returns tea.Quit only when nothing is on the list, and the program
\* leaves everything as it is when it ends.
LEMMA QuitIInv ==
    ASSUME IInv, KeyQuit \/ AccessQuit \/ ProgramEnds
    PROVE  ShareInv' /\ OneSharePerPort' /\ AccessHasShare' /\ ExitInv'
  <1>1. UNCHANGED <<phase, exposed, port, opening, shares, starts, waits, late, access, dialog>>
    BY EndFrame DEF KeyQuit, AccessQuit, Quit, AskStop
  <1>2. ShareInv' /\ OneSharePerPort' /\ AccessHasShare'
    BY <1>1, ShareFrame, PortFrame, AccessFrame DEF IInv, TypeOK, Live
  <1>3. ExitInv'
    BY <1>1, EndFrame DEF IInv, TypeOK, ExitInv, Live, KeyQuit, AccessQuit, Quit
  <1> QED
    BY <1>2, <1>3

-----------------------------------------------------------------------------
(***************************************************************************)
(* Types.                                                                  *)
(***************************************************************************)

\* The lists a step may make keep the cursor a number.
LEMMA GoneNat ==
    ASSUME TypeOK, ShareInv, shares' \in SUBSET Live, opening' \in SUBSET Live, AfterShareGone
    PROVE  cursor' \in Nat
  BY RowsArePorts, SelectPortNat DEF AfterShareGone, TypeOK

LEMMA KeysTypeOK ==
    ASSUME IInv, Keys
    PROVE  TypeOK'
  <1> USE DEF IInv, TypeOK, SC!TypeOK
  <1>1. rows \in SUBSET Ports
    BY RowsArePorts DEF rows, Live
  <1>2. CASE KeyUp \/ KeyDown
    <2>1. cursor' \in Nat
      <3>1. cursor + 1 \in Nat
        OBVIOUS
      <3>2. Clamp(cursor + 1, rows) \in Nat
        BY <1>1, <3>1, RowNumbers
      <3> QED
        BY <1>2, <3>2 DEF KeyUp, KeyDown
    <2> QED
      BY <1>2, <2>1 DEF KeyUp, KeyDown
  <1>3. CASE KeyOpen \/ KeyShare
    BY <1>1, <1>3 DEF KeyOpen, KeyShare, Selected
  <1>4. CASE KeyStop \/ AccessStop
    BY <1>4 DEF KeyStop, AccessStop, StopOn, AskStop, On
  <1>5. CASE KeyQuit \/ AccessQuit
    BY <1>5 DEF KeyQuit, AccessQuit, Quit, AskStop
  <1>6. CASE DialogCancel \/ AccessBack
    BY <1>6 DEF DialogCancel, AccessBack
  <1>7. ASSUME NEW s \in Shares, DialogSubmit(s) PROVE TypeOK'
    BY <1>7 DEF DialogSubmit
  <1> QED
    BY <1>2, <1>3, <1>4, <1>5, <1>6, <1>7 DEF Keys

LEMMA MessagesTypeOK ==
    ASSUME IInv, Messages
    PROVE  TypeOK'
  <1> USE DEF IInv, TypeOK, SC!TypeOK
  <1>1. ASSUME NEW svcs \in SUBSET Ports, Scanned(svcs) PROVE TypeOK'
    BY <1>1, RowsArePorts, SelectPortNat DEF Scanned, Live
  <1>3. ASSUME NEW s \in Shares, Started(s) PROVE TypeOK'
    BY <1>3 DEF Started, AskStop
  <1>4. ASSUME NEW s \in Shares, Failed(s) PROVE TypeOK'
    BY <1>4, GoneNat DEF Failed, AfterShareGone, Live
  <1>5. ASSUME NEW s \in Shares, Ended(s) PROVE TypeOK'
    BY <1>5, GoneNat DEF Ended, AfterShareGone, Live
  <1> QED
    BY <1>1, <1>3, <1>4, <1>5 DEF Messages, ShareMessage

LEMMA EndTypeOK ==
    ASSUME IInv, ProgramEnds
    PROVE  TypeOK'
  BY EndFrame DEF IInv, TypeOK, SC!TypeOK

LEMMA ShareStepsTypeOK ==
    ASSUME IInv, ShareSteps
    PROVE  TypeOK'
  <1> USE DEF IInv, TypeOK, SC!TypeOK, SC!Phases, SC!Results
  <1>1. ASSUME NEW s \in Shares, StartCall(s) PROVE TypeOK'
    BY <1>1 DEF StartCall, SC!StartShare
  <1>2. ASSUME NEW s \in Shares, ShareExposes(s) \/ ShareWithdraws(s) PROVE TypeOK'
    BY <1>2 DEF ShareExposes, SC!Expose, ShareWithdraws, SC!Withdraw
  <1>3. ASSUME NEW s \in Shares, StartReturn(s) PROVE TypeOK'
    BY <1>3 DEF StartReturn, SC!FailStart, SC!FinishStart
  <1>4. ASSUME NEW s \in Shares, ShareEnds(s) PROVE TypeOK'
    BY <1>4, EndReasonsAssumption DEF ShareEnds, SC!End
  <1> QED
    BY <1>1, <1>2, <1>3, <1>4 DEF ShareSteps

-----------------------------------------------------------------------------
(***************************************************************************)
(* The theorems.                                                           *)
(***************************************************************************)
LEMMA InitIInv == Init => IInv
  <1> SUFFICES ASSUME Init PROVE IInv
    OBVIOUS
  <1> USE DEF Init, SC!Init
  <1>1. TypeOK
    <2>1. SC!TypeOK
      BY DEF SC!TypeOK, SC!Phases, SC!Results
    <2>2. port \in [Shares -> Ports \union {NoPort}]
      OBVIOUS
    <2> QED
      BY <2>1, <2>2 DEF TypeOK
  <1>2. ShareInv /\ OneSharePerPort /\ AccessHasShare /\ ExitInv
    BY DEF ShareInv, OneSharePerPort, AccessHasShare, ExitInv, Live
  <1> QED
    BY <1>1, <1>2 DEF IInv

LEMMA NextIInv == IInv /\ [Next]_vars => IInv'
  <1>0. SUFFICES ASSUME IInv, [Next]_vars PROVE IInv'
    OBVIOUS
  <1>1. CASE Keys
    <2>1. TypeOK'
      BY <1>0, <1>1, KeysTypeOK
    <2>2. ShareInv' /\ OneSharePerPort' /\ AccessHasShare' /\ ExitInv'
      BY <1>0, <1>1, QuietIInv, ScreenIInv, QuitIInv, DialogSubmitIInv DEF Keys
    <2> QED
      BY <2>1, <2>2 DEF IInv
  <1>2. CASE Messages
    <2>1. TypeOK'
      BY <1>0, <1>2, MessagesTypeOK
    <2>2. ShareInv' /\ OneSharePerPort' /\ AccessHasShare' /\ ExitInv'
      BY <1>0, <1>2, QuietIInv, StartedIInv, FailedIInv, EndedIInv DEF Messages, ShareMessage
    <2> QED
      BY <2>1, <2>2 DEF IInv
  <1>3. CASE ShareSteps
    <2>1. TypeOK'
      BY <1>0, <1>3, ShareStepsTypeOK
    <2>2. ShareInv' /\ OneSharePerPort' /\ AccessHasShare' /\ ExitInv'
      BY <1>0, <1>3, ShareStepsIInv DEF ShareSteps
    <2> QED
      BY <2>1, <2>2 DEF IInv
  <1>4. CASE ProgramEnds
    BY <1>0, <1>4, EndTypeOK, QuitIInv DEF IInv
  <1>5. CASE Terminated \/ UNCHANGED vars
    <2>1. UNCHANGED vars
      BY <1>5 DEF Terminated
    <2>2. TypeOK'
      BY <1>0, <2>1 DEF IInv, TypeOK, SC!TypeOK
    <2> QED
      BY <1>0, <2>1, <2>2, ShareFrame, PortFrame, AccessFrame, ExitFrame DEF IInv, TypeOK, Live
  <1> QED
    BY <1>0, <1>1, <1>2, <1>3, <1>4, <1>5 DEF Next

\* The invariant holds in every state of the UI.
THEOREM Invariance == Spec => []IInv
  BY InitIInv, NextIInv, PTL DEF Spec

\* Every variable keeps its type.
THEOREM TypeCorrect == Spec => []TypeOK
  <1>1. IInv => TypeOK
    BY DEF IInv
  <1> QED
    BY <1>1, Invariance, PTL

\* A port has at most one share, and no dialog next to it (shares.go:94-119).
THEOREM OneSharePerPortCorrect == Spec => []OneSharePerPort
  <1>1. IInv => OneSharePerPort
    BY DEF IInv
  <1> QED
    BY <1>1, Invariance, PTL

\* No share that is starting, running or exposed is off the list
\* (shares.go:121-186).
THEOREM NoShareLostCorrect == Spec => []NoShareLost
  <1>1. IInv => NoShareLost
    BY DEF IInv, ShareInv, NoShareLost
  <1> QED
    BY <1>1, Invariance, PTL

\* The access screen never shows a share that is gone (shares.go:174).
THEOREM AccessHasShareCorrect == Spec => []AccessHasShare
  <1>1. IInv => AccessHasShare
    BY DEF IInv
  <1> QED
    BY <1>1, Invariance, PTL

\* Once t5s has decided to exit, no share is exposed but those submitted after
\* the decision, however long the exit takes (shares.go:160-163, 188-195,
\* 225-234).
THEOREM ExitWaitsCorrect == Spec => []ExitWaits
  <1>1. IInv => ExitWaits
    BY DEF IInv, TypeOK, SC!TypeOK, ShareInv, ExitInv, ExitWaits
  <1> QED
    BY <1>1, Invariance, PTL

-----------------------------------------------------------------------------
(***************************************************************************)
(* The cursor.                                                             *)
(***************************************************************************)

\* The last row of a list is no nearer than that of a part of it.
LEMMA LastRowGrows ==
    ASSUME NEW R \in SUBSET Ports, NEW S \in SUBSET R
    PROVE  LastRow(S) <= LastRow(R)
  <1>1. IsFiniteSet(R) /\ IsFiniteSet(S)
    BY PortsAssumption, FS_Subset
  <1>2. Cardinality(S) \in Nat /\ Cardinality(R) \in Nat /\ Cardinality(S) <= Cardinality(R)
    BY <1>1, FS_Subset, FS_CardinalityType
  <1>3. /\ S = {} <=> Cardinality(S) = 0
        /\ R = {} <=> Cardinality(R) = 0
    BY <1>1, FS_EmptySet
  <1> QED
    BY <1>2, <1>3 DEF LastRow

\* A row is not behind the last one.
LEMMA RankBound ==
    ASSUME NEW R \in SUBSET Ports, NEW p \in R
    PROVE  Rank(R, p) <= LastRow(R)
  <1> DEFINE below == {q \in R : q < p}
  <1>1. p \in Nat
    BY PortsAssumption
  <1>2. IsFiniteSet(R)
    BY PortsAssumption, FS_Subset
  <1>3. IsFiniteSet(R) /\ p \notin below /\ below \subseteq R \ {p}
    BY <1>1, <1>2
  <1>4. Cardinality(R \ {p}) = Cardinality(R) - 1 /\ IsFiniteSet(R \ {p})
    BY <1>3, FS_RemoveElement
  <1>5. Cardinality(below) <= Cardinality(R \ {p})
    BY <1>3, <1>4, FS_Subset
  <1> QED
    BY <1>4, <1>5 DEF Rank, LastRow

\* selectPort finds a row.
LEMMA SelectPortOnRow ==
    ASSUME cursor \in Nat, NEW R \in SUBSET Ports, NEW sel
    PROVE  SelectPort(R, sel) <= LastRow(R)
  BY RowNumbers, RankBound DEF SelectPort

\* The rows are ports, before a step and after it.
LEMMA RowsBothPorts ==
    ASSUME IInv, IInv'
    PROVE  rows \in SUBSET Ports /\ rows' \in SUBSET Ports
  BY DEF IInv, TypeOK, ShareInv, Live, rows, RowsOf, PortsOf

\* A step that takes no row away and leaves the cursor keeps it on a row.
LEMMA CursorFrame ==
    ASSUME IInv, IInv', CursorOnRow, cursor' <= cursor, rows \subseteq rows'
    PROVE  CursorOnRow'
  <1>1. rows' \in SUBSET Ports /\ LastRow(rows) <= LastRow(rows')
    BY RowsBothPorts, LastRowGrows
  <1>2. LastRow(rows) \in Nat /\ LastRow(rows') \in Nat /\ cursor \in Nat /\ cursor' \in Nat
    BY <1>1, RowsBothPorts, RowNumbers DEF IInv, TypeOK
  <1> QED
    BY <1>1, <1>2 DEF CursorOnRow

\* A submitted share brings a row, a share that has started keeps its row.
LEMMA RowsKept ==
    ASSUME IInv, NEW s \in Shares, DialogSubmit(s) \/ Started(s)
    PROVE  rows \subseteq rows' /\ cursor' = cursor
  <1> USE DEF IInv, TypeOK, Live
  <1>1. CASE DialogSubmit(s)
    <2>1. \A t \in Live : port'[t] = port[t]
      BY <1>1 DEF DialogSubmit, ShareInv
    <2> QED
      BY <1>1, <2>1 DEF DialogSubmit, rows, RowsOf, PortsOf
  <1>2. CASE Started(s)
    <2>1. On(opening, port[s]) = {s}
      BY <1>2, OnlyOne DEF Started, ShareInv
    <2> QED
      BY <1>2, <2>1 DEF Started, rows, RowsOf, PortsOf
  <1> QED
    BY <1>1, <1>2

\* The shares left after one has gone.
LEMMA GoneOnRow ==
    ASSUME IInv, IInv', AfterShareGone, port' = port
    PROVE  CursorOnRow'
  <1>1. rows' = RowsOf(services, shares', opening')
    BY DEF rows, RowsOf, PortsOf, AfterShareGone
  <1> QED
    BY <1>1, RowsBothPorts, SelectPortOnRow DEF CursorOnRow, AfterShareGone, IInv, TypeOK

LEMMA NextCursor == IInv /\ IInv' /\ CursorOnRow /\ [Next]_vars => CursorOnRow'
  <1>0. SUFFICES ASSUME IInv, IInv', CursorOnRow, [Next]_vars PROVE CursorOnRow'
    OBVIOUS
  <1> USE <1>0
  <1>1. cursor \in Nat
    BY DEF IInv, TypeOK
  <1>2. CASE KeyUp
    <2>1. cursor' <= cursor /\ rows' = rows
      BY <1>1, <1>2 DEF KeyUp, rows, RowsOf, PortsOf
    <2> QED
      BY <2>1, CursorFrame
  <1>3. CASE KeyDown
    <2>1. rows' = rows /\ cursor' = Clamp(cursor + 1, rows) /\ cursor + 1 \in Nat
      BY <1>1, <1>3 DEF KeyDown, rows, RowsOf, PortsOf
    <2> QED
      BY <2>1, RowsBothPorts, RowNumbers DEF CursorOnRow
  <1>4. CASE UNCHANGED <<services, shares, opening, port, cursor>>
    BY <1>4 DEF CursorOnRow, rows, RowsOf, PortsOf, LastRow
  <1>5. ASSUME NEW s \in Shares, DialogSubmit(s) \/ Started(s) PROVE CursorOnRow'
    BY <1>1, <1>5, RowsKept, CursorFrame
  <1>6. ASSUME NEW svcs \in SUBSET Ports, Scanned(svcs) PROVE CursorOnRow'
    <2>1. cursor' = SelectPort(rows', Selected(rows, cursor))
      BY <1>6 DEF Scanned, rows, RowsOf, PortsOf
    <2> QED
      BY <1>1, <2>1, RowsBothPorts, SelectPortOnRow DEF CursorOnRow
  <1>7. ASSUME NEW s \in Shares, Failed(s) \/ Ended(s) PROVE CursorOnRow'
    BY <1>7, GoneOnRow DEF Failed, Ended
  <1>8. CASE KeyOpen \/ KeyShare \/ KeyStop \/ KeyQuit \/ DialogCancel \/ AccessBack \/ AccessStop \/ AccessQuit
    BY <1>4, <1>8
       DEF KeyOpen, KeyShare, KeyStop, StopOn, AskStop, KeyQuit, Quit, DialogCancel, AccessBack, AccessStop, AccessQuit
  <1>9. CASE ShareSteps \/ ProgramEnds \/ Terminated \/ UNCHANGED vars
    BY <1>4, <1>9, EndFrame DEF ShareSteps, StartCall, ShareExposes, ShareWithdraws, StartReturn, ShareEnds, Terminated
  <1> QED
    BY <1>2, <1>3, <1>5, <1>6, <1>7, <1>8, <1>9 DEF Next, Keys, Messages, ShareMessage

\* The cursor is on a row, or on 0, however the list changes under it
\* (model.go:157-183, shares.go:188-190).
THEOREM CursorOnRowCorrect == Spec => []CursorOnRow
  <1>1. Init => CursorOnRow
    <2>1. ASSUME Init PROVE rows = {} /\ cursor = 0
      BY <2>1 DEF Init, rows, RowsOf, PortsOf
    <2> QED
      BY <2>1 DEF CursorOnRow, LastRow
  <1> QED
    BY <1>1, NextIInv, NextCursor, Invariance, PTL DEF Spec

-----------------------------------------------------------------------------
(***************************************************************************)
(* The selection.                                                          *)
(***************************************************************************)

\* Of two rows the lower port comes first.
LEMMA RankGrows ==
    ASSUME NEW R \in SUBSET Ports, NEW p \in R, NEW q \in R, p < q
    PROVE  Rank(R, p) < Rank(R, q)
  <1> DEFINE below(x) == {r \in R : r < x}
  <1>1. R \subseteq Nat /\ IsFiniteSet(R)
    BY PortsAssumption, FS_Subset
  <1>2. IsFiniteSet(below(p)) /\ IsFiniteSet(below(q))
    BY <1>1, FS_Subset
  <1>3. Cardinality(below(p) \union {p}) = Cardinality(below(p)) + 1 /\ IsFiniteSet(below(p) \union {p})
    <2>1. p \notin below(p)
      BY <1>1
    <2> QED
      BY <1>2, <2>1, FS_AddElement
  <1>4. below(p) \union {p} \subseteq below(q)
    <2>1. ASSUME NEW r \in R, r < p PROVE r < q
      BY <1>1, <2>1
    <2> QED
      BY <2>1
  <1>5. Cardinality(below(p) \union {p}) <= Cardinality(below(q))
    BY <1>2, <1>4, FS_Subset
  <1>6. Cardinality(below(p)) \in Nat /\ Cardinality(below(q)) \in Nat
    BY <1>2, FS_CardinalityType
  <1> QED
    BY <1>3, <1>5, <1>6 DEF Rank

\* One row at most is selected.
LEMMA SelectedOnce ==
    ASSUME NEW R \in SUBSET Ports, NEW c, NEW p \in Selected(R, c)
    PROVE  Selected(R, c) = {p}
  <1>1. ASSUME NEW q \in Selected(R, c) PROVE q = p
    <2>1. p \in R /\ q \in R /\ Rank(R, p) = Rank(R, q)
      BY <1>1 DEF Selected
    <2>2. p \in Nat /\ q \in Nat /\ Rank(R, p) \in Nat
      BY <2>1, PortsAssumption, RowNumbers
    <2>3. ~(p < q) /\ ~(q < p)
      BY <2>1, <2>2, RankGrows
    <2> QED
      BY <2>2, <2>3
  <1> QED
    BY <1>1

\* selectPort goes to the row of the selected port, if it has one.
LEMMA SelectPortFinds ==
    ASSUME NEW R \in SUBSET Ports, NEW S \in SUBSET Ports, NEW c, NEW p \in Selected(R, c), p \in S
    PROVE  SelectPort(S, Selected(R, c)) = Rank(S, p)
  <1>1. Selected(R, c) \intersect S = {p}
    BY SelectedOnce
  <1> QED
    BY <1>1 DEF SelectPort

\* The number of a row depends on the rows above it only.
LEMMA RankStays ==
    ASSUME IInv, IInv', NEW p \in Ports, ~RowShifts(p)
    PROVE  Rank(rows', p) = Rank(rows, p)
  <1>1. {q \in rows' : q < p} = {q \in rows : q < p}
    BY RowsBothPorts DEF RowShifts
  <1> QED
    BY <1>1 DEF Rank

\* The selection is kept by a step that leaves the cursor, or looks the
\* selected row up in the new list.
LEMMA SelectionStays ==
    ASSUME IInv, IInv', NEW p \in Selected(rows, cursor), p \in rows', ~RowShifts(p),
           cursor' \in {cursor, SelectPort(rows', Selected(rows', cursor))}
    PROVE  p \in Selected(rows, cursor)'
  <1>1. p \in Ports /\ rows' \in SUBSET Ports
    BY RowsBothPorts
  <1>2. p \in Selected(rows', cursor)
    BY <1>1, RankStays DEF Selected
  <1>3. cursor' = Rank(rows', p)
    BY <1>1, <1>2, SelectPortFinds DEF Selected
  <1> QED
    BY <1>3 DEF Selected

\* What a step does to the list and its cursor.
LEMMA ListSteps ==
    ASSUME IInv, [Next]_vars
    PROVE  \/ KeyUp \/ KeyDown
           \/ \E svcs \in SUBSET Ports : Scanned(svcs)
           \/ /\ services' = services
              /\ cursor' \in {cursor, SelectPort(rows', Selected(rows', cursor))}
  <1>1. ASSUME NEW s \in Shares, Failed(s) \/ Ended(s)
        PROVE  services' = services /\ cursor' = SelectPort(rows', Selected(rows', cursor))
    <2>1. rows' = RowsOf(services, shares', opening')
      BY <1>1 DEF Failed, Ended, AfterShareGone, rows, RowsOf, PortsOf
    <2> QED
      BY <1>1, <2>1 DEF Failed, Ended, AfterShareGone, SelectPort
  <1>2. CASE KeyOpen \/ KeyShare \/ KeyStop \/ KeyQuit \/ DialogCancel \/ AccessBack \/ AccessStop \/ AccessQuit
    BY <1>2
       DEF KeyOpen, KeyShare, KeyStop, StopOn, AskStop, KeyQuit, Quit, DialogCancel, AccessBack, AccessStop, AccessQuit
  <1>3. CASE ShareSteps \/ ProgramEnds \/ Terminated \/ UNCHANGED vars
    BY <1>3, EndFrame DEF ShareSteps, StartCall, ShareExposes, ShareWithdraws, StartReturn, ShareEnds, Terminated
  <1>4. ASSUME NEW s \in Shares, DialogSubmit(s) \/ Started(s) PROVE services' = services /\ cursor' = cursor
    BY <1>4 DEF DialogSubmit, Started
  <1> QED
    BY <1>1, <1>2, <1>3, <1>4 DEF Next, Keys, Messages, ShareMessage

\* The selection stays on its port through every scan, and through everything
\* else but arrow keys and rows that come or go above it (model.go:160-183,
\* shares.go:115-119, 188-190).
THEOREM SelectionKeptCorrect == Spec => SelectionKept
  <1> DEFINE Kept(p) == p \in rows' /\ p \notin Selected(rows, cursor)'
                           => KeyUp \/ KeyDown \/ (services' = services /\ RowShifts(p))
  <1>1. ASSUME IInv, IInv', [Next]_vars, NEW p \in Selected(rows, cursor) PROVE Kept(p)
    <2>1. ASSUME NEW svcs \in SUBSET Ports, Scanned(svcs), p \in rows' PROVE p \in Selected(rows, cursor)'
      <3>1. cursor' = SelectPort(rows', Selected(rows, cursor))
        BY <2>1 DEF Scanned, rows, RowsOf, PortsOf
      <3>2. cursor' = Rank(rows', p)
        BY <1>1, <2>1, <3>1, RowsBothPorts, SelectPortFinds
      <3> QED
        BY <2>1, <3>2 DEF Selected
    <2> QED
      BY <1>1, <2>1, ListSteps, SelectionStays
  <1>2. IInv /\ IInv' /\ [Next]_vars
          => [\A p \in Selected(rows, cursor) : Kept(p)]_vars
    BY <1>1
  <1> QED
    BY <1>2, Invariance, PTL DEF Spec, SelectionKept

-----------------------------------------------------------------------------
(***************************************************************************)
(* The keys on offer.                                                      *)
(***************************************************************************)

\* What the handlers ask before they obey a key: the guards of the actions.
ShareObeyed == OnServices /\ \E p \in Selected(rows, cursor) : On(shares \union opening, p) = {}

OpenObeyed == OnServices /\ \E p \in Selected(rows, cursor) : On(shares, p) # {}

AccessObeyed == OnAccess /\ On(shares, access) # {}

KeysObeyed ==
    ~exited =>
        /\ "share" \in VisibleKeys <=> ShareObeyed
        /\ "open" \in VisibleKeys <=> OpenObeyed
        /\ "stop" \in VisibleKeys <=> OpenObeyed \/ AccessObeyed
        /\ "quit" \in VisibleKeys <=> OnServices \/ AccessObeyed
        /\ "back" \in VisibleKeys <=> OnAccess
        /\ "cancel" \in VisibleKeys <=> dialog # NoPort

\* On the list of services the keys are those of the selected row.
LEMMA ServicesKeys ==
    ASSUME dialog = NoPort, access = NoPort
    PROVE  /\ "quit" \in VisibleKeys
           /\ "back" \notin VisibleKeys /\ "cancel" \notin VisibleKeys
           /\ "open" \in VisibleKeys <=> \E p \in Selected(rows, cursor) : On(shares, p) # {}
           /\ "stop" \in VisibleKeys <=> \E p \in Selected(rows, cursor) : On(shares, p) # {}
           /\ "share" \in VisibleKeys
                 <=> \E p \in Selected(rows, cursor) : On(shares, p) = {} /\ On(opening, p) = {}
  <1> DEFINE keys(p) == IF On(shares, p) # {} THEN {"open", "stop"}
                        ELSE IF On(opening, p) = {} THEN {"share"}
                        ELSE {}
             offered == UNION {keys(p) : p \in Selected(rows, cursor)}
  <1>1. VisibleKeys = {"quit"} \union offered
    BY DEF VisibleKeys
  <1>2. \A k : k \in offered <=> \E p \in Selected(rows, cursor) : k \in keys(p)
    OBVIOUS
  <1>3. \A p : /\ "quit" \notin keys(p) /\ "back" \notin keys(p) /\ "cancel" \notin keys(p)
               /\ "open" \in keys(p) <=> On(shares, p) # {}
               /\ "stop" \in keys(p) <=> On(shares, p) # {}
               /\ "share" \in keys(p) <=> On(shares, p) = {} /\ On(opening, p) = {}
    OBVIOUS
  <1> HIDE DEF keys, offered
  <1> QED
    BY <1>1, <1>2, <1>3

\* The header names a key exactly if its handler will obey it: in the list
\* because both look at the same row, on the access screen because its share
\* is there (view.go:407-424, model.go:193-218, shares.go:94-97,
\* access.go:44-65).
THEOREM KeysObeyedCorrect == Spec => []KeysObeyed
  <1>1. ASSUME IInv, ~exited PROVE KeysObeyed
    <2> USE <1>1 DEF KeysObeyed, ShareObeyed, OpenObeyed, AccessObeyed, OnServices, OnAccess
    <2>1. CASE dialog # NoPort
      <3>1. VisibleKeys = {"cancel"}
        BY <2>1 DEF VisibleKeys
      <3> QED
        BY <2>1, <3>1
    <2>2. CASE dialog = NoPort /\ access # NoPort
      <3>1. VisibleKeys = {"back", "stop", "quit"}
        BY <2>2 DEF VisibleKeys
      <3>2. On(shares, access) # {}
        BY <2>2 DEF IInv, AccessHasShare
      <3> QED
        BY <2>2, <3>1, <3>2
    <2>3. CASE dialog = NoPort /\ access = NoPort
      <3>1. \A p : On(shares \union opening, p) = {} <=> On(shares, p) = {} /\ On(opening, p) = {}
        BY DEF On
      <3> QED
        BY <2>3, <3>1, ServicesKeys
    <2> QED
      BY <2>1, <2>2, <2>3
  <1>2. IInv => KeysObeyed
    BY <1>1 DEF KeysObeyed
  <1> QED
    BY <1>2, Invariance, PTL

\* A key can be obeyed exactly if what its handler asks is true.  That the guard
\* of an action is its ENABLED is out of the provers' reach.
KeysFollowGuards ==
    ~exited =>
        /\ ENABLED KeyShare <=> ShareObeyed
        /\ ENABLED KeyOpen <=> OpenObeyed
        /\ ENABLED (KeyStop \/ AccessStop) <=> OpenObeyed \/ AccessObeyed
        /\ ENABLED (KeyQuit \/ AccessQuit) <=> OnServices \/ AccessObeyed
        /\ ENABLED AccessBack <=> OnAccess
        /\ ENABLED DialogCancel <=> dialog # NoPort

\* The header names a key exactly while it does something, for any number of
\* ports and shares (view.go:407-424, model.go:193-218, shares.go:94-97,
\* access.go:44-65).
THEOREM KeysWorkCorrect == Spec /\ []KeysFollowGuards => []KeysWork
  <1>1. KeysObeyed /\ KeysFollowGuards => KeysWork
    BY DEF KeysObeyed, KeysFollowGuards, KeysWork
  <1> QED
    BY <1>1, KeysObeyedCorrect, PTL

\* A key that does something is one of those on offer.
KeysActOffered ==
    [][/\ KeyShare => "share" \in VisibleKeys
       /\ KeyOpen => "open" \in VisibleKeys
       /\ KeyStop \/ AccessStop => "stop" \in VisibleKeys
       /\ KeyQuit \/ AccessQuit => "quit" \in VisibleKeys
       /\ AccessBack => "back" \in VisibleKeys
       /\ DialogCancel => "cancel" \in VisibleKeys]_vars

\* No key does anything that the header does not name (view.go:407-424,
\* model.go:193-218, access.go:44-65).
THEOREM KeysActOfferedCorrect == Spec => KeysActOffered
  <1>1. /\ KeyShare => ShareObeyed
        /\ KeyOpen \/ KeyStop => OpenObeyed
        /\ KeyQuit => OnServices
        /\ AccessStop \/ AccessQuit => AccessObeyed
        /\ AccessBack => OnAccess
        /\ DialogCancel => ~exited /\ dialog # NoPort
    BY DEF KeyShare, KeyOpen, KeyStop, KeyQuit, AccessStop, AccessQuit, AccessBack, DialogCancel, StopOn,
           ShareObeyed, OpenObeyed, AccessObeyed
  <1>2. ShareObeyed \/ OpenObeyed \/ AccessObeyed \/ OnServices \/ OnAccess => ~exited
    BY DEF ShareObeyed, OpenObeyed, AccessObeyed, OnServices, OnAccess
  <1> DEFINE Offered == /\ KeyShare => "share" \in VisibleKeys
                        /\ KeyOpen => "open" \in VisibleKeys
                        /\ KeyStop \/ AccessStop => "stop" \in VisibleKeys
                        /\ KeyQuit \/ AccessQuit => "quit" \in VisibleKeys
                        /\ AccessBack => "back" \in VisibleKeys
                        /\ DialogCancel => "cancel" \in VisibleKeys
  <1>3. KeysObeyed => Offered
    BY <1>1, <1>2 DEF KeysObeyed
  <1>4. KeysObeyed => [Offered]_vars
    BY <1>3
  <1> QED
    BY <1>4, KeysObeyedCorrect, PTL DEF KeysActOffered

-----------------------------------------------------------------------------
(***************************************************************************)
(* Quitting: while the program waits for its shares, all of them have been *)
(* told to stop, and each of them has a step to take that LiveSpec makes   *)
(* fair.                                                                   *)
(***************************************************************************)

\* While quitting, every running share has been stopped, and the program is not
\* left waiting with an empty list.
QuitInv == quitting => shares \subseteq stopAsked /\ (Live = {} => quitIssued)

\* A goroutine of the share, or the message it has sent, is next.
CanMove(s) ==
    \/ s \in starts /\ phase[s] \in {"idle", "failed", "running", "ended"}
    \/ phase[s] = "opening"
    \/ phase[s] = "running" /\ s \in stopAsked
    \/ s \in waits /\ phase[s] = "ended"

\* A share starts on the list, and what starts while quitting is stopped.
LEMMA StartedQuitInv ==
    ASSUME IInv, QuitInv, NEW s \in Shares, Started(s)
    PROVE  QuitInv'
  BY DEF QuitInv, Started, AskStop, Live

\* The last share that goes takes the program along.
LEMMA GoneQuitInv ==
    ASSUME IInv, QuitInv, NEW s \in Shares, Failed(s) \/ Ended(s)
    PROVE  QuitInv'
  BY DEF QuitInv, Failed, Ended, AfterShareGone, Live

\* Quitting asks all shares that are running, or exits.
LEMMA QuitQuitInv ==
    ASSUME IInv, QuitInv, KeyQuit \/ AccessQuit
    PROVE  QuitInv'
  BY DEF QuitInv, KeyQuit, AccessQuit, Quit, AskStop, Live

\* No step breaks it.
LEMMA NextQuitInv == IInv /\ QuitInv /\ [Next]_vars => QuitInv'
  <1> SUFFICES ASSUME IInv, QuitInv, [Next]_vars
               PROVE  QuitInv'
    OBVIOUS
  <1>1. CASE \/ KeyUp \/ KeyDown \/ KeyOpen \/ KeyShare \/ DialogCancel \/ AccessBack \/ ProgramEnds
             \/ \E svcs \in SUBSET Ports : Scanned(svcs)
    BY <1>1, EndFrame DEF QuitInv, Live, KeyUp, KeyDown, KeyOpen, KeyShare, DialogCancel, AccessBack, Scanned
  <1>2. CASE KeyStop \/ AccessStop
    BY <1>2 DEF QuitInv, Live, KeyStop, AccessStop, StopOn, AskStop
  <1>3. ASSUME NEW s \in Shares, DialogSubmit(s) PROVE QuitInv'
    BY <1>3 DEF QuitInv, Live, DialogSubmit
  <1>4. CASE ShareSteps
    <2>1. UNCHANGED uiVars
      BY <1>4, Zenon DEF ShareSteps, StartCall, ShareExposes, ShareWithdraws, StartReturn, ShareEnds
    <2>2. UNCHANGED stopAsked
      BY <1>4 DEF ShareSteps, StartCall, ShareExposes, ShareWithdraws, StartReturn, ShareEnds,
         SC!StartShare, SC!Expose, SC!Withdraw, SC!FailStart, SC!FinishStart, SC!End
    <2> QED
      BY <2>1, <2>2 DEF QuitInv, Live
  <1>5. CASE Terminated \/ UNCHANGED vars
    BY <1>5 DEF QuitInv, Live, Terminated
  <1> QED
    BY <1>1, <1>2, <1>3, <1>4, <1>5, StartedQuitInv, GoneQuitInv, QuitQuitInv
       DEF Next, Keys, Messages, ShareMessage

\* After the quit key every share that is running has been told to stop, also
\* one that started later, and once there is none the quit command has been
\* returned (shares.go:160-163, 191-193, 225-234).
THEOREM QuitStopsAll == Spec => []QuitInv
  <1>1. Init => QuitInv
    BY DEF Init, QuitInv
  <1> QED
    BY <1>1, NextQuitInv, Invariance, PTL DEF Spec

\* A share that is starting or has been stopped is never waited for in vain:
\* Start has still to return, the share to end, or its message is on the way
\* (shares.go:121-130, 149-163, 205-213).
THEOREM ShareCanMove == Spec => [](\A s \in opening \union (shares \intersect stopAsked) : CanMove(s))
  <1>1. IInv => \A s \in opening \union (shares \intersect stopAsked) : CanMove(s)
    BY DEF IInv, TypeOK, SC!TypeOK, SC!Phases, ShareInv, CanMove
  <1> QED
    BY <1>1, Invariance, PTL

\* While quitting, the program exits next or one of its shares has a step to
\* take (shares.go:188-195, 225-234).
THEOREM QuitNeverStuck == Spec => [](quitting => quitIssued \/ \E s \in Live : CanMove(s))
  <1>1. QuitInv /\ (\A s \in opening \union (shares \intersect stopAsked) : CanMove(s))
          => (quitting => quitIssued \/ \E s \in Live : CanMove(s))
    BY DEF QuitInv, Live
  <1> QED
    BY <1>1, QuitStopsAll, ShareCanMove, PTL

-----------------------------------------------------------------------------
(***************************************************************************)
(* Liveness.  No prover here reasons about ENABLED, so that the steps that *)
(* LiveSpec makes fair can be taken when their guards hold is a hypothesis.*)
(***************************************************************************)
CanGoOn(s) ==
    ~exited =>
        /\ s \in starts /\ phase[s] = "idle" => ENABLED <<StartCall(s)>>_vars
        /\ phase[s] = "opening" => ENABLED <<StartReturn(s)>>_vars
        /\ phase[s] = "running" /\ s \in stopAsked => ENABLED <<Winds(s)>>_vars
        /\ s \in starts /\ phase[s] \in {"failed", "running", "ended"} => ENABLED <<ShareMessage(s)>>_vars
        /\ s \in waits /\ phase[s] = "ended" => ENABLED <<ShareMessage(s)>>_vars

CanExit == quitIssued /\ ~exited => ENABLED <<Exit>>_vars

\* Keys and messages leave the shares to their goroutines, and no Stop is taken
\* back.
LEMMA UiStep ==
    ASSUME [Next]_vars, ~ShareSteps
    PROVE  UNCHANGED <<phase, exposed>> /\ stopAsked \subseteq stopAsked'
  <1>1. CASE Keys
    BY <1>1 DEF Keys, KeyUp, KeyDown, KeyOpen, KeyShare, KeyStop, KeyQuit, DialogCancel, DialogSubmit, AccessBack,
       AccessStop, AccessQuit, StopOn, Quit, AskStop, contractVars
  <1>2. CASE Messages
    BY <1>2 DEF Messages, Scanned, ShareMessage, Started, Failed, Ended, AskStop, contractVars
  <1>3. CASE ProgramEnds \/ Terminated \/ UNCHANGED vars
    BY <1>3, EndFrame DEF Terminated, vars, contractVars
  <1> QED
    BY <1>1, <1>2, <1>3 DEF Next

\* A share goes through its phases in one direction.
LEMMA PhaseStep ==
    ASSUME IInv, [Next]_vars, NEW s \in Shares
    PROVE  /\ phase[s] = "opening" => phase'[s] \in {"opening", "failed", "running"}
           /\ phase[s] \in {"failed", "ended"} => phase'[s] = phase[s]
           /\ phase[s] = "running" => phase'[s] \in {"running", "ended"}
           /\ s \notin exposed /\ phase[s] # "opening" => s \notin exposed'
           /\ s \in stopAsked => s \in stopAsked'
  <1>1. CASE ShareSteps
    <2>1. PICK x \in Shares : \/ SC!StartShare(x) \/ SC!Expose(x) \/ SC!Withdraw(x) \/ SC!FailStart(x) \/ SC!FinishStart(x)
                              \/ \E r \in EndReasons : SC!End(x, r)
      BY <1>1 DEF ShareSteps, StartCall, ShareExposes, ShareWithdraws, StartReturn, ShareEnds
    <2> QED
      BY <2>1 DEF IInv, TypeOK, SC!TypeOK, SC!StartShare, SC!Expose, SC!Withdraw, SC!FailStart, SC!FinishStart, SC!End
  <1>2. CASE ~ShareSteps
    BY <1>2, UiStep DEF SC!TypeOK
  <1> QED
    BY <1>1, <1>2

\* A share that was submitted is not submitted again, and does not come back to
\* a list that it has left.
LEMMA ListStep ==
    ASSUME IInv, [Next]_vars, NEW s \in Shares, port[s] # NoPort
    PROVE  /\ port'[s] # NoPort
           /\ s \notin opening => s \notin opening'
           /\ s \notin Live => s \notin Live'
  <1> USE DEF IInv, TypeOK, ShareInv, Live
  <1>1. ASSUME NEW x \in Shares, DialogSubmit(x)
        PROVE  port'[s] = port[s] /\ opening' = opening \union {x} /\ shares' = shares /\ x # s
    BY <1>1 DEF DialogSubmit
  <1>2. ASSUME NEW x \in Shares, ShareMessage(x)
        PROVE  port' = port /\ opening' \subseteq opening /\ shares' \subseteq shares \union {x} /\ x \in Live
    BY <1>2 DEF ShareMessage, Started, Failed, Ended
  <1>3. ASSUME ~ShareSteps, ~\E x \in Shares : DialogSubmit(x) \/ ShareMessage(x)
        PROVE  UNCHANGED <<port, opening, shares>>
    BY <1>3, EndFrame DEF Next, Keys, Messages, KeyUp, KeyDown, KeyOpen, KeyShare, KeyStop, KeyQuit, DialogCancel, AccessBack,
       AccessStop, AccessQuit, StopOn, Quit, AskStop, Scanned, Terminated, vars, listVars, submitVars
  <1>4. CASE ShareSteps
    BY <1>4 DEF ShareSteps, StartCall, ShareExposes, ShareWithdraws, StartReturn, ShareEnds, uiVars, listVars, submitVars
  <1> QED
    BY <1>1, <1>2, <1>3, <1>4

\* The message of a share moves it to the list of running shares or takes it
\* off the list.
LEMMA MessageStep ==
    ASSUME IInv, NEW s \in Shares, ShareMessage(s)
    PROVE  s \notin opening' /\ (s \in shares => s \notin shares')
  <1> USE DEF IInv, TypeOK, ShareInv, Live
  <1>1. shares \intersect opening = {}
    BY DEF OneSharePerPort
  <1>2. CASE Started(s) \/ Failed(s)
    <2>1. s \in opening /\ opening' = opening \ On(opening, port[s])
      BY <1>2 DEF Started, Failed
    <2> QED
      BY <1>1, <2>1, OnlyOne
  <1>3. CASE Ended(s)
    <2>1. s \in shares /\ opening' = opening /\ \E gone \in On(shares, port[s]) : shares' = shares \ {gone}
      BY <1>3 DEF Ended
    <2>2. On(shares, port[s]) = {s}
      BY <2>1, OnlyOne
    <2> QED
      BY <1>1, <2>1, <2>2
  <1> QED
    BY <1>2, <1>3 DEF ShareMessage

\* One share, from Stop to the message that it has ended.
LEMMA StopShownOne ==
    ASSUME NEW s \in Shares
    PROVE  Spec /\ []CanGoOn(s) /\ Fair(s) => (s \in shares /\ s \in stopAsked ~> s \notin shares \/ exited)
  <1> DEFINE Shown == s \in shares /\ s \in stopAsked
             Off == s \notin shares \/ exited
             Over == phase[s] = "ended"
             Hidden == s \notin exposed
  <1>1. IInv /\ Shown /\ [Next]_vars => (Shown' \/ Off') /\ (Hidden => Hidden') /\ (Over => Over')
    BY PhaseStep DEF IInv, ShareInv
  <1>2. IInv /\ Shown /\ <<Winds(s)>>_vars => Hidden' \/ Over'
    BY DEF Winds, ShareWithdraws, ShareEnds, SC!Withdraw, SC!End, IInv, TypeOK, SC!TypeOK
  <1>3. IInv /\ Shown /\ Hidden /\ <<Winds(s)>>_vars => Over'
    BY DEF Winds, ShareWithdraws, ShareEnds, SC!Withdraw, SC!End, IInv, TypeOK, SC!TypeOK
  <1>4. IInv /\ Shown /\ <<ShareMessage(s)>>_vars => Off'
    BY MessageStep
  <1>5. IInv /\ CanGoOn(s) /\ Shown /\ ~Off =>
            (~Over => ENABLED <<Winds(s)>>_vars) /\ (Over => ENABLED <<ShareMessage(s)>>_vars)
    BY DEF CanGoOn, IInv, ShareInv
  <1>6. Spec /\ []CanGoOn(s) /\ Fair(s) => (Shown ~> Off)
    <2> HIDE DEF Shown, Off, Over, Hidden
    <2> QED
      BY <1>1, <1>2, <1>3, <1>4, <1>5, Invariance, PTL DEF Spec, Fair
  <1> QED
    BY <1>6, PTL DEF Shown, Off

\* A share that the user stopped leaves the list, unless the program exits
\* first, for any number of shares and whatever the user does meanwhile
\* (shares.go:149-186).
THEOREM StopShownCorrect == LiveSpec /\ [](\A s \in Shares : CanGoOn(s)) => StopShown
  <1> DEFINE CanGoOnAll == \A s \in Shares : CanGoOn(s)
  <1>1. ASSUME NEW s \in Shares
        PROVE  LiveSpec /\ []CanGoOnAll => (s \in shares /\ s \in stopAsked ~> s \notin shares \/ exited)
    <2>1. LiveSpec => Spec /\ Fair(s)
      BY DEF LiveSpec
    <2>2. CanGoOnAll => CanGoOn(s)
      OBVIOUS
    <2> QED
      BY <2>1, <2>2, StopShownOne, PTL
  <1> QED
    BY <1>1 DEF StopShown

-----------------------------------------------------------------------------
(***************************************************************************)
(* That the program exits in the end needs one thing more: that what holds *)
(* in the end of each of the shares holds of all of them.  For a finite    *)
(* number of shares that is a law of temporal logic, which the prover for  *)
(* temporal steps, a propositional one, does not have.  It is false if the *)
(* user may submit one share after another for ever.                       *)
(***************************************************************************)
EachGone == \A s \in Shares : <>[](s \notin Live)

FinitelyMany == EachGone => <>[](Live = {})

\* A share that was submitted is started, and its message takes it off the
\* opening ones.
LEMMA StartEndsOne ==
    ASSUME NEW s \in Shares
    PROVE  Spec /\ []CanGoOn(s) /\ Fair(s) => (<>[](~exited /\ port[s] # NoPort) => <>[](s \notin opening))
  <1> DEFINE Submitted == ~exited /\ port[s] # NoPort
             Starting == s \in opening
             Done == s \notin opening
             Called == phase[s] # "idle"
             Back == phase[s] \in {"failed", "running", "ended"}
  <1>1. IInv /\ Starting /\ [Next]_vars => (Called => Called') /\ (Back => Back')
    <2>1. IInv /\ Called /\ [Next]_vars => Called'
      BY PhaseStep DEF IInv, TypeOK, SC!TypeOK, SC!Phases
    <2>2. IInv /\ Back /\ [Next]_vars => Back'
      BY PhaseStep
    <2> QED
      BY <2>1, <2>2
  <1>2. IInv /\ Submitted /\ Done /\ [Next]_vars => Done'
    BY ListStep
  <1>3. IInv /\ <<StartCall(s)>>_vars => Called'
    BY DEF StartCall, SC!StartShare, IInv, TypeOK, SC!TypeOK
  <1>4. IInv /\ <<StartReturn(s)>>_vars => Back'
    BY DEF StartReturn, SC!FailStart, SC!FinishStart, IInv, TypeOK, SC!TypeOK
  <1>5. IInv /\ <<ShareMessage(s)>>_vars => Done'
    BY MessageStep
  <1>6. IInv /\ CanGoOn(s) /\ Submitted /\ Starting =>
            /\ ~Called => ENABLED <<StartCall(s)>>_vars
            /\ Called /\ ~Back => ENABLED <<StartReturn(s)>>_vars
            /\ Back => ENABLED <<ShareMessage(s)>>_vars
    BY DEF CanGoOn, IInv, ShareInv, TypeOK, SC!TypeOK, SC!Phases
  <1>7. Starting <=> ~Done
    OBVIOUS
  <1>8. Spec /\ []CanGoOn(s) /\ Fair(s) => (<>[]Submitted => <>[]Done)
    <2> HIDE DEF Submitted, Starting, Done, Called, Back
    <2> QED
      BY <1>1, <1>2, <1>3, <1>4, <1>5, <1>6, <1>7, Invariance, PTL DEF Spec, Fair
  <1> QED
    BY <1>8, PTL DEF Submitted, Done

\* While the program waits to exit, every share goes, and stays away.
LEMMA GoneOne ==
    ASSUME NEW s \in Shares
    PROVE  Spec /\ []CanGoOn(s) /\ Fair(s) => (<>[](~exited /\ quitting) => <>[](s \notin Live))
  <1> DEFINE Waiting == ~exited /\ quitting
             Submitted == port[s] # NoPort
             Both == ~exited /\ port[s] # NoPort
             Done == s \notin opening
             Shown == s \in shares /\ s \in stopAsked
             Off == s \notin shares \/ exited
             Gone == s \notin Live
  <1>1. IInv /\ Submitted /\ [Next]_vars => Submitted' /\ (Gone => Gone')
    BY ListStep
  <1>2. IInv /\ ~Submitted => Gone
    BY DEF IInv, ShareInv
  <1>3. QuitInv /\ Waiting /\ Done => Gone \/ Shown
    BY DEF QuitInv, Live
  <1>4. Waiting /\ Done /\ Off => Gone
    BY DEF Live
  <1>5. Waiting /\ Submitted => Both
    OBVIOUS
  <1>6. Spec /\ []CanGoOn(s) /\ Fair(s) => (<>[]Both => <>[]Done)
    BY StartEndsOne
  <1>7. Spec /\ []CanGoOn(s) /\ Fair(s) => (Shown ~> Off)
    BY StopShownOne
  <1>8. Spec /\ []CanGoOn(s) /\ Fair(s) => (<>[]Waiting => <>[]Gone)
    <2> HIDE DEF Waiting, Submitted, Both, Done, Shown, Off, Gone
    <2> QED
      BY <1>1, <1>2, <1>3, <1>4, <1>5, <1>6, <1>7, QuitStopsAll, Invariance, PTL DEF Spec
  <1> QED
    BY <1>8, PTL DEF Waiting, Gone

\* Asked to quit, the program exits, whatever is opening and whatever else the
\* user does, if he submits finitely many shares (shares.go:160-163, 191-193).
THEOREM QuitExitsCorrect == LiveSpec /\ []CanExit /\ [](\A s \in Shares : CanGoOn(s)) /\ FinitelyMany => QuitExits
  <1> DEFINE CanGoOnAll == \A s \in Shares : CanGoOn(s)
             Waiting == ~exited /\ quitting
  <1>1. LiveSpec /\ []CanGoOnAll /\ <>[]Waiting => EachGone
    <2>1. ASSUME NEW s \in Shares PROVE LiveSpec /\ []CanGoOnAll /\ <>[]Waiting => <>[](s \notin Live)
      <3>1. LiveSpec => Spec /\ Fair(s)
        BY DEF LiveSpec
      <3>2. CanGoOnAll => CanGoOn(s)
        OBVIOUS
      <3> QED
        BY <3>1, <3>2, GoneOne, PTL
    <2> QED
      BY <2>1 DEF EachGone
  <1>2. LiveSpec => Spec /\ ExitFair
    BY DEF LiveSpec
  <1>3. [Next]_vars /\ quitting => quitting'
    BY EndFrame
       DEF Next, Keys, KeyUp, KeyDown, KeyOpen, KeyShare, KeyStop, KeyQuit, DialogCancel, DialogSubmit, AccessBack, AccessStop,
       AccessQuit, StopOn, Quit, Messages, Scanned, ShareMessage, Started, Failed, Ended, AfterShareGone, ShareSteps,
       StartCall, ShareExposes, ShareWithdraws, StartReturn, ShareEnds, uiVars, Terminated, vars
  <1>4. QuitInv /\ quitting /\ Live = {} => quitIssued
    BY DEF QuitInv
  <1>5. <<Exit>>_vars => exited'
    BY DEF Exit, Leaves
  <1>6. CanExit => (quitIssued /\ ~exited => ENABLED <<Exit>>_vars)
    BY DEF CanExit
  <1>7. FinitelyMany => (EachGone => <>[](Live = {}))
    BY DEF FinitelyMany
  <1> QED
    BY <1>1, <1>2, <1>3, <1>4, <1>5, <1>6, <1>7, QuitStopsAll, PTL DEF Spec, ExitFair, QuitExits, Waiting
=============================================================================
