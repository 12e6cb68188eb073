--------------------------- MODULE TuiRefinement ---------------------------
(***************************************************************************)
(* What module Tui implements, for every set of ports and of shares: the   *)
(* promises of PortStates, which it makes to the user of t5s, and its side *)
(* of ShareContract, on which those rest.                                  *)
(***************************************************************************)
EXTENDS TuiProofs

USE DEF vars, contractVars, listVars, screenVars, cmdVars, submitVars, uiVars, NoPort

-----------------------------------------------------------------------------
(***************************************************************************)
(* The state of a port.                                                    *)
(***************************************************************************)

\* Shares that run or open have ports, and what is exposed is one of them.
LEMMA LivePorts ==
    ASSUME IInv
    PROVE  /\ \A s \in Live : s \in Shares /\ port[s] \in Ports
           /\ exposed \subseteq Live
           /\ PortsOf(exposed) \subseteq Ports
  <1>1. \A s \in Live : s \in Shares /\ port[s] \in Ports
    BY DEF IInv, TypeOK, ShareInv, Live
  <1>2. exposed \subseteq Live
    BY DEF IInv, TypeOK, SC!TypeOK, ShareInv
  <1> QED
    BY <1>1, <1>2 DEF PortsOf

\* The list shows a port by the one share it has.
LEMMA StateOfPort ==
    ASSUME IInv
    PROVE  /\ \A s \in shares : PortState(port[s]) = "shared"
           /\ \A s \in opening : PortState(port[s]) = "opening"
           /\ \A p : (\A s \in Live : port[s] # p) => PortState(p) = "private"
  BY DEF IInv, OneSharePerPort, Live, PortState, On

\* The states of the ports are a function of the two lists.
LEMMA StatesFrame ==
    ASSUME UNCHANGED <<port, opening, shares>>
    PROVE  UNCHANGED [p \in Ports |-> PortState(p)]
  BY DEF PortState, On

\* A step that changes the state of one port only is a move of that port.
LEMMA OnePortMoves ==
    ASSUME NEW p \in Ports, \A q \in Ports \ {p} : PortState(q)' = PortState(q)
    PROVE  PS!Moves(p, PortState(p), PortState(p)')
  BY DEF PS!Moves

\* Nothing that the user sees changes.
LEMMA SameView ==
    ASSUME UNCHANGED <<port, opening, shares, exposed, quitIssued, exited>>
    PROVE  UNCHANGED PS!portVars
  BY StatesFrame DEF PS!portVars, PortsOf

-----------------------------------------------------------------------------
(***************************************************************************)
(* Every step of the UI, seen from the ports.                              *)
(***************************************************************************)

\* The goroutine of a share makes its port public, or private again; the rest
\* of what it does is not seen.
LEMMA ShareStepsPromised ==
    ASSUME IInv, ShareSteps
    PROVE  PS!Next \/ UNCHANGED PS!portVars
  <1> PICK s \in Shares : StartCall(s) \/ ShareExposes(s) \/ ShareWithdraws(s) \/ StartReturn(s) \/ ShareEnds(s)
    BY DEF ShareSteps
  <1>1. UNCHANGED uiVars /\ ~exited
    BY Zenon DEF StartCall, ShareExposes, ShareWithdraws, StartReturn, ShareEnds
  <1>2. UNCHANGED [p \in Ports |-> PortState(p)]
    BY <1>1, StatesFrame
  <1>3. CASE StartCall(s) \/ StartReturn(s) \/ ShareEnds(s)
    <2>1. UNCHANGED exposed
      BY <1>3 DEF StartCall, SC!StartShare, StartReturn, SC!FailStart, SC!FinishStart, ShareEnds, SC!End
    <2> QED
      BY <1>1, <2>1, SameView
  <1>4. CASE ShareExposes(s)
    <2>1. phase[s] = "opening" /\ exposed' = exposed \union {s}
      BY <1>4 DEF ShareExposes, SC!Expose
    <2>2. s \in opening
      BY <2>1 DEF IInv, ShareInv, Live
    <2>3. PortState(port[s]) = "opening" /\ port[s] \in Ports
      BY <2>2, StateOfPort, LivePorts DEF Live
    <2>4. PortsOf(exposed)' = PortsOf(exposed) \union {port[s]}
      BY <1>1, <2>1 DEF PortsOf
    <2>5. PS!Publish(port[s])
      BY <1>1, <1>2, <2>3, <2>4 DEF PS!Publish
    <2> QED
      BY <1>1, <2>3, <2>5 DEF PS!Next
  <1>5. CASE ShareWithdraws(s)
    <2>1. s \in exposed /\ exposed' = exposed \ {s}
      BY <1>5 DEF ShareWithdraws, SC!Withdraw
    <2>2. \A t \in exposed : port[t] = port[s] => t = s
      BY <2>1, LivePorts DEF IInv, OneSharePerPort
    <2>3. PortsOf(exposed)' = PortsOf(exposed) \ {port[s]}
      BY <1>1, <2>1, <2>2 DEF PortsOf
    <2>4. PS!Withdraw(port[s])
      BY <1>1, <1>2, <2>3 DEF PS!Withdraw
    <2>5. port[s] \in Ports
      BY <2>1, LivePorts
    <2> QED
      BY <1>1, <2>4, <2>5 DEF PS!Next
  <1> QED
    BY <1>3, <1>4, <1>5

\* The dialog is that of a port without a share.
LEMMA SubmitPromised ==
    ASSUME IInv, IInv', NEW s \in Shares, DialogSubmit(s)
    PROVE  PS!Next
  <1> USE DEF DialogSubmit
  <1>1. s \notin Live /\ s \notin exposed /\ dialog \in Ports
    BY DEF IInv, TypeOK, ShareInv
  <1>2. PICK p \in Ports : p = dialog
    BY <1>1
  <1>3. port'[s] = p /\ \A t \in Live : port'[t] = port[t] /\ port[t] # p
    BY <1>1, <1>2, LivePorts DEF IInv, TypeOK, OneSharePerPort
  <1>4. PortState(p) = "private"
    BY <1>3, StateOfPort
  <1>5. PortState(p)' = "opening"
    <2>1. On(shares, p)' = {}
      BY <1>3 DEF On, Live
    <2>2. s \in On(opening, p)'
      BY <1>3 DEF On
    <2> QED
      BY <2>1, <2>2 DEF PortState
  <1>6. \A q \in Ports \ {p} : PortState(q)' = PortState(q)
    BY <1>3 DEF PortState, On, Live
  <1>7. PS!Moves(p, "private", "opening")
    BY <1>4, <1>5, <1>6, OnePortMoves
  <1>8. PortsOf(exposed)' = PortsOf(exposed)
    BY <1>3, LivePorts DEF PortsOf
  <1>9. PS!Submit(p)
    BY <1>7, <1>8 DEF PS!Submit
  <1> QED
    BY <1>9 DEF PS!Next

\* The message of a share that has started moves its port from one list to
\* the other.
LEMMA StartedPromised ==
    ASSUME IInv, IInv', NEW s \in Shares, Started(s)
    PROVE  PS!Next
  <1> USE DEF Started, AskStop
  <1>1. s \in opening
    BY DEF IInv, ShareInv
  <1>2. opening' = opening \ {s} /\ shares' = shares \union {s}
    BY <1>1, OnlyOne DEF IInv, Live
  <1>3. PortState(port[s]) = "opening" /\ port[s] \in Ports
    BY <1>1, StateOfPort, LivePorts DEF Live
  <1>4. PortState(port[s])' = "shared"
    BY <1>2 DEF PortState, On
  <1>5. \A q \in Ports \ {port[s]} : PortState(q)' = PortState(q)
    BY <1>2 DEF PortState, On
  <1>6. PS!Moves(port[s], "opening", "shared")
    BY <1>3, <1>4, <1>5, OnePortMoves
  <1>7. PS!Succeed(port[s])
    BY <1>6 DEF PS!Succeed, PortsOf
  <1> QED
    BY <1>3, <1>7 DEF PS!Next

\* A share that leaves the list takes its port with it, which is private by
\* then.
LEMMA GonePromised ==
    ASSUME IInv, IInv', NEW s \in Shares, Failed(s) \/ Ended(s)
    PROVE  PS!Next
  <1>0. ~exited /\ UNCHANGED <<port, exposed, exited>>
    BY DEF Failed, Ended
  <1>1. s \in Live /\ s \notin exposed
    BY DEF Failed, Ended, IInv, ShareInv, Live
  <1>2. \/ s \in opening /\ opening' = opening \ {s} /\ shares' = shares
        \/ s \in shares /\ opening' = opening /\ shares' = shares \ {s}
    <2>1. CASE Failed(s)
      <3>1. s \in opening
        BY <2>1 DEF Failed, IInv, ShareInv
      <3> QED
        BY <2>1, <3>1, OnlyOne DEF Failed, IInv, Live
    <2>2. CASE Ended(s)
      <3>1. s \in shares
        BY <2>2 DEF Ended, IInv, ShareInv
      <3> QED
        BY <2>2, <3>1, OnlyOne DEF Ended, IInv, Live
    <2> QED
      BY <2>1, <2>2
  <1>3. port[s] \in Ports /\ PortState(port[s]) \in {"opening", "shared"}
    BY <1>1, LivePorts, StateOfPort DEF Live
  <1>4. \A t \in Live \ {s} : port[t] # port[s]
    BY <1>1 DEF IInv, OneSharePerPort
  <1>5. PortState(port[s])' = "private"
    BY <1>0, <1>2, <1>4 DEF PortState, On, Live, IInv, OneSharePerPort
  <1>6. \A q \in Ports \ {port[s]} : PortState(q)' = PortState(q)
    BY <1>0, <1>2 DEF PortState, On
  <1>7. PS!Moves(port[s], "opening", "private") \/ PS!Moves(port[s], "shared", "private")
    <2>1. PICK p \in Ports : p = port[s] /\ p = port'[s]
      BY <1>0, <1>3
    <2>2. PS!Moves(p, PortState(p), PortState(p)')
      BY <1>6, <2>1, OnePortMoves
    <2>3. PortState(p) \in {"opening", "shared"} /\ PortState(p)' = "private"
      BY <1>3, <1>5, <2>1
    <2> QED
      BY <2>1, <2>2, <2>3
  <1>8. port[s] \notin PortsOf(exposed)
    BY <1>1, <1>4, LivePorts DEF PortsOf
  <1>9. quitIssued' = quitIssued \/ (quitIssued' = TRUE /\ shares' = {} /\ opening' = {})
    BY DEF Failed, Ended, AfterShareGone, IInv, TypeOK
  <1>10. shares' = {} /\ opening' = {} => PS!AllPrivate'
    BY DEF PS!AllPrivate, PortState, On
  <1>11. PS!Close(port[s])
    BY <1>0, <1>7, <1>8, <1>9, <1>10 DEF PS!Close, PortsOf
  <1> QED
    BY <1>0, <1>3, <1>11 DEF PS!Next

\* tea.Quit is returned with an empty list, and the end of the program touches
\* no port.
LEMMA QuitPromised ==
    ASSUME IInv, KeyQuit \/ AccessQuit \/ ProgramEnds
    PROVE  PS!Next \/ UNCHANGED PS!portVars
  <1>1. UNCHANGED <<port, opening, shares, exposed>> /\ ~exited
    BY EndFrame DEF KeyQuit, AccessQuit, OnServices, OnAccess, Quit, AskStop
  <1>2. UNCHANGED <<[p \in Ports |-> PortState(p)], PortsOf(exposed)>>
    BY <1>1, StatesFrame DEF PortsOf
  <1>3. CASE ProgramEnds
    <2>1. PS!Exit
      BY <1>2, <1>3, EndFrame DEF PS!Exit
    <2> QED
      BY <1>1, <2>1 DEF PS!Next
  <1>4. CASE (KeyQuit \/ AccessQuit) /\ shares = {} /\ opening = {}
    <2>1. PS!AllPrivate
      BY <1>4 DEF PS!AllPrivate, PortState, On
    <2>2. PS!Leave
      BY <1>2, <1>4, <2>1 DEF KeyQuit, AccessQuit, Quit, PS!Leave
    <2> QED
      BY <1>1, <2>2 DEF PS!Next
  <1>5. CASE (KeyQuit \/ AccessQuit) /\ ~(shares = {} /\ opening = {})
    <2>1. UNCHANGED <<quitIssued, exited>>
      BY <1>5 DEF KeyQuit, AccessQuit, Quit
    <2> QED
      BY <1>1, <2>1, SameView
  <1> QED
    BY <1>3, <1>4, <1>5

\* What is left shows nothing: keys that open and leave screens, move the
\* cursor or ask a share to stop, and scans.
LEMMA UnseenSteps ==
    ASSUME \/ KeyUp \/ KeyDown \/ KeyOpen \/ KeyShare \/ KeyStop \/ DialogCancel \/ AccessBack \/ AccessStop
           \/ (\E svcs \in SUBSET Ports : Scanned(svcs))
           \/ Terminated \/ UNCHANGED vars
    PROVE  UNCHANGED PS!portVars
  <1>1. UNCHANGED <<port, opening, shares, exposed, quitIssued, exited>>
    BY DEF KeyUp, KeyDown, KeyOpen, KeyShare, KeyStop, DialogCancel, AccessBack, AccessStop, StopOn, AskStop, Scanned, Terminated
  <1> QED
    BY <1>1, SameView

-----------------------------------------------------------------------------
(***************************************************************************)
(* The theorems.                                                           *)
(***************************************************************************)
LEMMA InitPromised == Init => PS!Init
  BY DEF Init, SC!Init, PS!Init, PortState, PortsOf, On

\* The UI, its messages and the goroutines of its shares keep what PortStates
\* promises for every port (shares.go, model.go:90-132).
THEOREM KeepsPromisesCorrect == Spec => KeepsPromises
  <1>1. IInv /\ IInv' /\ [Next]_vars => [PS!Next]_(PS!portVars)
    <2> SUFFICES ASSUME IInv, IInv', [Next]_vars PROVE PS!Next \/ UNCHANGED PS!portVars
      OBVIOUS
    <2>1. CASE Keys
      BY <2>1, SubmitPromised, QuitPromised, UnseenSteps DEF Keys
    <2>2. CASE Messages
      BY <2>2, StartedPromised, GonePromised, UnseenSteps DEF Messages, ShareMessage
    <2>3. CASE ShareSteps
      BY <2>3, ShareStepsPromised
    <2> QED
      BY <2>1, <2>2, <2>3, QuitPromised, UnseenSteps DEF Next
  <1> QED
    BY <1>1, InitPromised, Invariance, PTL DEF Spec, KeepsPromises, PS!Spec

\* No port that the list calls private can be reached (shares.go:121-186).
THEOREM PrivateIsPrivateCorrect == Spec => []PS!PrivateIsPrivate
  <1>1. IInv => PS!PrivateIsPrivate
    BY LivePorts, StateOfPort DEF PS!PrivateIsPrivate, PortsOf, Live
  <1> QED
    BY <1>1, Invariance, PTL

-----------------------------------------------------------------------------
(***************************************************************************)
(* The UI as the user of its shares.                                       *)
(***************************************************************************)

\* The UI asks only shares to stop that Start has returned.
LEMMA StopsStarted ==
    ASSUME IInv, NEW S \in SUBSET Shares, \A s \in S : phase[s] \in {"running", "ended"}, AskStop(S)
    PROVE  SC!Next
  <1>1. SC!Stop(S)
    BY DEF AskStop, SC!Stop
  <1> QED
    BY <1>1 DEF SC!Next

\* The shares on the list have started.
LEMMA ListedStarted ==
    ASSUME IInv
    PROVE  shares \subseteq Shares /\ \A s \in shares : phase[s] \in {"running", "ended"}
  BY DEF IInv, TypeOK, ShareInv

LEMMA KeysContract ==
    ASSUME IInv, Keys
    PROVE  SC!Next \/ UNCHANGED contractVars
  <1>1. ASSUME NEW p, StopOn(p) PROVE SC!Next
    BY <1>1, ListedStarted, StopsStarted DEF StopOn, On
  <1>2. CASE Quit
    BY <1>2, ListedStarted, StopsStarted DEF Quit
  <1>3. CASE KeyUp \/ KeyDown \/ KeyOpen \/ KeyShare \/ DialogCancel \/ AccessBack
    BY <1>3 DEF KeyUp, KeyDown, KeyOpen, KeyShare, DialogCancel, AccessBack
  <1>4. ASSUME NEW s \in Shares, DialogSubmit(s) PROVE UNCHANGED contractVars
    BY <1>4 DEF DialogSubmit
  <1> QED
    BY <1>1, <1>2, <1>3, <1>4 DEF Keys, KeyStop, KeyQuit, AccessStop, AccessQuit

LEMMA MessagesContract ==
    ASSUME IInv, Messages
    PROVE  SC!Next \/ UNCHANGED contractVars
  <1>1. ASSUME NEW s \in Shares, Started(s) PROVE SC!Next
    BY <1>1, StopsStarted DEF Started
  <1>2. ASSUME NEW s \in Shares, Failed(s) \/ Ended(s) PROVE UNCHANGED contractVars
    BY <1>2 DEF Failed, Ended
  <1>3. ASSUME NEW svcs, Scanned(svcs) PROVE UNCHANGED contractVars
    BY <1>3 DEF Scanned
  <1> QED
    BY <1>1, <1>2, <1>3 DEF Messages, ShareMessage

LEMMA ShareStepsContract ==
    ASSUME ShareSteps
    PROVE  SC!Next
  <1>1. ASSUME NEW s \in Shares, NEW r \in EndReasons, SC!End(s, r) PROVE SC!Next
    BY <1>1, EndReasonsAssumption DEF SC!Next, SC!Results
  <1> QED
    BY <1>1 DEF ShareSteps, StartCall, ShareExposes, ShareWithdraws, StartReturn, ShareEnds, SC!Next

\* Several shares at once, with the UI that starts and stops them, are
\* a behaviour of ShareContract: the UI calls Start once for each, and Stop
\* only on what Start has returned (shares.go:121-163, 197-233).
THEOREM KeepsContractCorrect == Spec => KeepsContract
  <1>1. IInv /\ [Next]_vars => [SC!Next]_(SC!contractVars)
    <2>1. ProgramEnds \/ Terminated \/ UNCHANGED vars => UNCHANGED contractVars
      BY EndFrame DEF Terminated
    <2>2. UNCHANGED contractVars => UNCHANGED SC!contractVars
      BY DEF SC!contractVars
    <2>3. IInv /\ [Next]_vars => SC!Next \/ UNCHANGED contractVars
      BY <2>1, KeysContract, MessagesContract, ShareStepsContract DEF Next
    <2> QED
      BY <2>2, <2>3
  <1>2. Init => SC!Init
    BY DEF Init
  <1> QED
    BY <1>1, <1>2, Invariance, PTL DEF Spec, KeepsContract, SC!Spec
=============================================================================
