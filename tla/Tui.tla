-------------------------------- MODULE Tui --------------------------------
(***************************************************************************)
(* The model of the terminal UI that owns the shares (internal/tui:        *)
(* model.go, shares.go and access.go).  One goroutine applies keys and     *)
(* messages one at a time; every command it returns runs on a goroutine of *)
(* its own, which delivers one message, in no particular order.  The       *)
(* shares are those of ShareContract.                                      *)
(*                                                                         *)
(* Module Dialog has what goes on inside the dialog, the notices and the   *)
(* clipboard; module Screens has what is on screen.                        *)
(***************************************************************************)
EXTENDS Naturals, FiniteSets

CONSTANTS
    Ports,      \* the ports of local services
    Shares,     \* one element for each call of share.Start
    EndReasons  \* the results of Wait that a run tells apart

\* A port is a positive number: 0 stands for "none".
ASSUME PortsAssumption == Ports \subseteq Nat \ {0} /\ IsFiniteSet(Ports)

ASSUME EndReasonsAssumption == EndReasons \subseteq {"stopped", "expired", "lost"}

NoPort == 0

VARIABLES
    phase, exposed, stopAsked, result,   \* the shares, see ShareContract
    port,        \* the port of each share that was submitted
    services,    \* m.services, by port
    opening,     \* m.opening
    shares,      \* m.shares
    cursor,      \* m.cursor
    access,      \* m.access.port, NoPort unless the screen is the access log
    dialog,      \* the port of m.dialog, NoPort if there is no dialog
    quitting,    \* m.quitting
    starts,      \* goroutines of startShareCmd whose message is not applied yet
    waits,       \* goroutines of shareStarted whose message is not applied yet
    quitIssued,  \* tea.Quit was returned, and its message is not applied yet
    exited,      \* the program has left its event loop, however it came to that
    late         \* history: the shares submitted after tea.Quit was returned

SC == INSTANCE ShareContract

contractVars == <<phase, exposed, stopAsked, result>>
listVars == <<services, opening, shares, cursor>>
screenVars == <<access, dialog>>
cmdVars == <<starts, waits, quitIssued, exited>>
submitVars == <<port, late>>
vars == <<contractVars, listVars, screenVars, cmdVars, submitVars, quitting>>

\* Every variable keeps its type.
TypeOK ==
    /\ SC!TypeOK
    /\ port \in [Shares -> Ports \union {NoPort}]
    /\ services \subseteq Ports
    /\ opening \subseteq Shares
    /\ shares \subseteq Shares
    /\ cursor \in Nat
    /\ access \in Ports \union {NoPort}
    /\ dialog \in Ports \union {NoPort}
    /\ quitting \in BOOLEAN
    /\ starts \subseteq Shares
    /\ waits \subseteq Shares
    /\ quitIssued \in BOOLEAN
    /\ exited \in BOOLEAN
    /\ late \subseteq Shares

Init ==
    /\ SC!Init
    /\ port = [s \in Shares |-> NoPort]
    /\ services = {}
    /\ opening = {}
    /\ shares = {}
    /\ cursor = 0
    /\ access = NoPort
    /\ dialog = NoPort
    /\ quitting = FALSE
    /\ starts = {}
    /\ waits = {}
    /\ quitIssued = FALSE
    /\ exited = FALSE
    /\ late = {}

-----------------------------------------------------------------------------
(***************************************************************************)
(* The list and its selection.                                             *)
(***************************************************************************)
PortsOf(S) == {port[s] : s \in S}

\* The shares of S on port p.
On(S, p) == {s \in S : port[s] = p}

\* rows(): the services that answer, and a pinned row for every share.
RowsOf(svcs, shs, opn) == svcs \union PortsOf(shs) \union PortsOf(opn)

rows == RowsOf(services, shares, opening)

\* The place of port p in the rows, which are sorted by port.
Rank(rs, p) == Cardinality({q \in rs : q < p})

\* selectedRow(): the port of the selected row, or nothing.
Selected(rs, c) == {p \in rs : Rank(rs, p) = c}

\* Mutant of LastRow: an empty list has no floor.
LastRow_NoFloor(rs) == Cardinality(rs) - 1

LastRow(rs) == IF rs = {} THEN 0 ELSE Cardinality(rs) - 1

Clamp(c, rs) == IF c > LastRow(rs) THEN LastRow(rs) ELSE c

\* selectPort(): the row of the port in sel if it is there, or a row near by.
SelectPort(rs, sel) ==
    LET found == sel \intersect rs
    IN  IF found = {} THEN Clamp(cursor, rs) ELSE Rank(rs, CHOOSE p \in found : TRUE)

-----------------------------------------------------------------------------
(***************************************************************************)
(* Keys on the list of services.                                           *)
(***************************************************************************)
OnServices == ~exited /\ dialog = NoPort /\ access = NoPort

KeyUp ==
    /\ OnServices
    /\ cursor' = IF cursor = 0 THEN 0 ELSE cursor - 1
    /\ UNCHANGED <<contractVars, services, opening, shares, screenVars, cmdVars, submitVars, quitting>>

KeyDown ==
    /\ OnServices
    /\ cursor' = Clamp(cursor + 1, rows)
    /\ UNCHANGED <<contractVars, services, opening, shares, screenVars, cmdVars, submitVars, quitting>>

\* openAccess
KeyOpen ==
    /\ OnServices
    /\ \E p \in Selected(rows, cursor) :
          /\ On(shares, p) # {}
          /\ access' = p
    /\ UNCHANGED <<contractVars, listVars, dialog, cmdVars, submitVars, quitting>>

\* Mutant of KeyShare: a share that is still opening is not looked at.
KeyShare_IgnoreOpening ==
    /\ OnServices
    /\ \E p \in Selected(rows, cursor) :
          /\ On(shares, p) = {}
          /\ dialog' = p
    /\ UNCHANGED <<contractVars, listVars, access, cmdVars, submitVars, quitting>>

\* openDialog: refused for a port that is shared or about to be.
KeyShare ==
    /\ OnServices
    /\ \E p \in Selected(rows, cursor) :
          /\ On(shares \union opening, p) = {}
          /\ dialog' = p
    /\ UNCHANGED <<contractVars, listVars, access, cmdVars, submitVars, quitting>>

\* The share's own Stop, which the contract allows at any time.
AskStop(S) == stopAsked' = stopAsked \union S /\ UNCHANGED <<phase, exposed, result>>

\* Mutant of StopOn: the row goes with the key, before the share has ended.
StopOn_Forget(p) ==
    /\ On(shares, p) # {}
    /\ AskStop(On(shares, p))
    /\ shares' = shares \ On(shares, p)
    /\ UNCHANGED <<services, opening, cursor, screenVars, cmdVars, submitVars, quitting>>

\* stopShare, and the stop key of the access screen.
StopOn(p) ==
    /\ On(shares, p) # {}
    /\ AskStop(On(shares, p))
    /\ UNCHANGED <<listVars, screenVars, cmdVars, submitVars, quitting>>

KeyStop == OnServices /\ \E p \in Selected(rows, cursor) : StopOn(p)

\* Mutant of Quit: a share that is still opening is not waited for.
Quit_IgnoreOpening ==
    /\ IF shares = {}
       THEN /\ quitIssued' = TRUE
            /\ UNCHANGED <<contractVars, quitting>>
       ELSE /\ quitting' = TRUE
            /\ AskStop(shares)
            /\ UNCHANGED quitIssued
    /\ UNCHANGED <<listVars, screenVars, starts, waits, exited, submitVars>>

\* quit(): at once if nothing is shared, or else once everything has stopped.
Quit ==
    /\ IF shares = {} /\ opening = {}
       THEN /\ quitIssued' = TRUE
            /\ UNCHANGED <<contractVars, quitting>>
       ELSE /\ quitting' = TRUE
            /\ AskStop(shares)
            /\ UNCHANGED quitIssued
    /\ UNCHANGED <<listVars, screenVars, starts, waits, exited, submitVars>>

KeyQuit == OnServices /\ Quit

-----------------------------------------------------------------------------
(***************************************************************************)
(* Keys in the dialog and on the access screen.                            *)
(***************************************************************************)
DialogCancel ==
    /\ ~exited
    /\ dialog # NoPort
    /\ dialog' = NoPort
    /\ UNCHANGED <<contractVars, listVars, access, cmdVars, submitVars, quitting>>

\* The dialog is submitted, and it has an allowlist.
DialogSubmit(s) ==
    /\ ~exited
    /\ dialog # NoPort
    /\ port[s] = NoPort
    /\ port' = [port EXCEPT ![s] = dialog]
    /\ late' = IF quitIssued THEN late \union {s} ELSE late
    /\ dialog' = NoPort
    /\ opening' = opening \union {s}
    /\ starts' = starts \union {s}
    /\ UNCHANGED <<contractVars, services, shares, cursor, access, waits, quitIssued, exited, quitting>>

OnAccess == ~exited /\ dialog = NoPort /\ access # NoPort

\* closeAccess, by the back key, or by any key if the share were gone.
AccessBack ==
    /\ OnAccess
    /\ access' = NoPort
    /\ UNCHANGED <<contractVars, listVars, dialog, cmdVars, submitVars, quitting>>

AccessStop == OnAccess /\ StopOn(access)

AccessQuit == OnAccess /\ On(shares, access) # {} /\ Quit

-----------------------------------------------------------------------------
(***************************************************************************)
(* The keys that the header names.                                         *)
(***************************************************************************)

\* Mutant of VisibleKeys: a row that is opening is like any other.
VisibleKeys_Opening ==
    CASE dialog # NoPort -> {"cancel"}
      [] dialog = NoPort /\ access # NoPort -> {"back", "stop", "quit"}
      [] OTHER ->
            {"quit"} \union
            UNION {IF On(shares, p) # {} THEN {"open", "stop"} ELSE {"share"} : p \in Selected(rows, cursor)}

\* visibleKeys, without those that work everywhere.
VisibleKeys ==
    CASE dialog # NoPort -> {"cancel"}
      [] dialog = NoPort /\ access # NoPort -> {"back", "stop", "quit"}
      [] OTHER ->
            {"quit"} \union
            UNION {IF On(shares, p) # {} THEN {"open", "stop"}
                   ELSE IF On(opening, p) = {} THEN {"share"}
                   ELSE {} : p \in Selected(rows, cursor)}

-----------------------------------------------------------------------------
(***************************************************************************)
(* Messages.                                                               *)
(***************************************************************************)

\* Mutant of Scanned: the cursor keeps its number, not its port.
Scanned_KeepCursor(svcs) ==
    /\ ~exited
    /\ services' = svcs
    /\ cursor' = Clamp(cursor, RowsOf(svcs, shares, opening))
    /\ UNCHANGED <<contractVars, opening, shares, screenVars, cmdVars, submitVars, quitting>>

\* A scan has found svcs.  A scan that failed changes nothing here.
Scanned(svcs) ==
    /\ ~exited
    /\ services' = svcs
    /\ cursor' = SelectPort(RowsOf(svcs, shares, opening), Selected(rows, cursor))
    /\ UNCHANGED <<contractVars, opening, shares, screenVars, cmdVars, submitVars, quitting>>

\* Mutant of Started: a share that started after the user quit keeps running.
Started_NoStop(s) ==
    /\ ~exited
    /\ s \in starts
    /\ phase[s] \in {"running", "ended"}
    /\ starts' = starts \ {s}
    /\ waits' = waits \union {s}
    /\ opening' = opening \ On(opening, port[s])
    /\ shares' = shares \union {s}
    /\ UNCHANGED <<contractVars, services, cursor, screenVars, quitIssued, exited, submitVars, quitting>>

\* Mutant of Started: nobody waits for the share to end.
Started_NoWait(s) ==
    /\ ~exited
    /\ s \in starts
    /\ phase[s] \in {"running", "ended"}
    /\ starts' = starts \ {s}
    /\ opening' = opening \ On(opening, port[s])
    /\ shares' = shares \union {s}
    /\ AskStop(IF quitting THEN {s} ELSE {})
    /\ UNCHANGED <<services, cursor, screenVars, waits, quitIssued, exited, submitVars, quitting>>

\* Mutant of Started: a share that started after the user quit is stopped and
\* not put on the list.
Started_Forget(s) ==
    /\ ~exited
    /\ s \in starts
    /\ phase[s] \in {"running", "ended"}
    /\ starts' = starts \ {s}
    /\ opening' = opening \ On(opening, port[s])
    /\ shares' = IF quitting THEN shares ELSE shares \union {s}
    /\ waits' = IF quitting THEN waits ELSE waits \union {s}
    /\ AskStop(IF quitting THEN {s} ELSE {})
    /\ UNCHANGED <<services, cursor, screenVars, quitIssued, exited, submitVars, quitting>>

\* shareStarted: while quitting, the share is stopped as soon as it has started.
Started(s) ==
    /\ ~exited
    /\ s \in starts
    /\ phase[s] \in {"running", "ended"}
    /\ starts' = starts \ {s}
    /\ waits' = waits \union {s}
    /\ opening' = opening \ On(opening, port[s])
    /\ shares' = shares \union {s}
    /\ AskStop(IF quitting THEN {s} ELSE {})
    /\ UNCHANGED <<services, cursor, screenVars, quitIssued, exited, submitVars, quitting>>

\* Mutant of AfterShareGone: the selection stays behind the end of the list.
AfterShareGone_KeepCursor ==
    /\ quitIssued' = (quitIssued \/ (quitting /\ shares' = {} /\ opening' = {}))
    /\ UNCHANGED <<cursor, services, quitting>>

\* afterShareGone: the selected row is looked up in the list that has lost the
\* share already.
AfterShareGone ==
    /\ LET rs == RowsOf(services, shares', opening')
       IN  cursor' = SelectPort(rs, Selected(rs, cursor))
    /\ quitIssued' = (quitIssued \/ (quitting /\ shares' = {} /\ opening' = {}))
    /\ UNCHANGED <<services, quitting>>

\* shareFailedMsg.
Failed(s) ==
    /\ ~exited
    /\ s \in starts
    /\ phase[s] = "failed"
    /\ starts' = starts \ {s}
    /\ opening' = opening \ On(opening, port[s])
    /\ shares' = shares
    /\ AfterShareGone
    /\ UNCHANGED <<contractVars, screenVars, waits, exited, submitVars>>

\* Mutant of Ended: the access screen of the share stays.
Ended_KeepScreen(s) ==
    /\ ~exited
    /\ s \in waits
    /\ phase[s] = "ended"
    /\ waits' = waits \ {s}
    /\ \E gone \in On(shares, port[s]) : shares' = shares \ {gone}
    /\ opening' = opening
    /\ AfterShareGone
    /\ UNCHANGED <<contractVars, screenVars, starts, exited, submitVars>>

\* shareEnded: the message names a port, and the share on that port goes.
Ended(s) ==
    /\ ~exited
    /\ s \in waits
    /\ phase[s] = "ended"
    /\ waits' = waits \ {s}
    /\ \E gone \in On(shares, port[s]) : shares' = shares \ {gone}
    /\ opening' = opening
    /\ access' = IF access = port[s] THEN NoPort ELSE access
    /\ AfterShareGone
    /\ UNCHANGED <<contractVars, dialog, starts, exited, submitVars>>

-----------------------------------------------------------------------------
(***************************************************************************)
(* The end of the program.                                                 *)
(***************************************************************************)
Leaves ==
    /\ exited' = TRUE
    /\ UNCHANGED <<contractVars, listVars, screenVars, starts, waits, quitIssued, submitVars, quitting>>

\* The message of tea.Quit, which Update has returned.
Exit == ~exited /\ quitIssued /\ Leaves

\* A signal or an error: the event loop ends without Update, and quit() is not
\* called.  SIGTERM is a tea.QuitMsg of Bubble Tea's own and SIGINT a
\* tea.InterruptMsg; Run also returns when reading or drawing fails.
Interrupted == ~exited /\ Leaves

-----------------------------------------------------------------------------
(***************************************************************************)
(* The shares, on goroutines of their own, until the program ends.         *)
(***************************************************************************)
uiVars == <<listVars, screenVars, cmdVars, submitVars, quitting>>

\* startShareCmd calls share.Start.
StartCall(s) ==
    /\ ~exited
    /\ s \in starts
    /\ SC!StartShare(s)
    /\ UNCHANGED uiVars

\* Start goes on and returns.
ShareExposes(s) == ~exited /\ SC!Expose(s) /\ UNCHANGED uiVars

ShareWithdraws(s) == ~exited /\ SC!Withdraw(s) /\ UNCHANGED uiVars

StartReturn(s) == ~exited /\ (SC!FailStart(s) \/ SC!FinishStart(s)) /\ UNCHANGED uiVars

ShareEnds(s) == ~exited /\ (\E r \in EndReasons : SC!End(s, r)) /\ UNCHANGED uiVars

\* The program has ended.
Terminated == exited /\ UNCHANGED vars

-----------------------------------------------------------------------------
Keys ==
    \/ KeyUp
    \/ KeyDown
    \/ KeyOpen
    \/ KeyShare
    \/ KeyStop
    \/ KeyQuit
    \/ DialogCancel
    \/ \E s \in Shares : DialogSubmit(s)
    \/ AccessBack
    \/ AccessStop
    \/ AccessQuit

ShareMessage(s) == Started(s) \/ Failed(s) \/ Ended(s)

Messages ==
    \/ \E svcs \in SUBSET Ports : Scanned(svcs)
    \/ \E s \in Shares : ShareMessage(s)

ProgramEnds == Exit \/ Interrupted

ShareSteps ==
    \E s \in Shares :
        \/ StartCall(s)
        \/ ShareExposes(s)
        \/ ShareWithdraws(s)
        \/ StartReturn(s)
        \/ ShareEnds(s)

Next == Keys \/ Messages \/ ProgramEnds \/ ShareSteps \/ Terminated

Spec == Init /\ [][Next]_vars

\* A share that was asked to stop makes the step that brings it to its end.
Winds(s) == s \in stopAsked /\ (ShareWithdraws(s) \/ ShareEnds(s))

(***************************************************************************)
(* Goroutines run, messages are applied, Start returns and a stopped share *)
(* ends (module Share shows the last two).  Nobody has to press a key, no  *)
(* share has to end unasked, no scan has to answer and no signal to come.  *)
(***************************************************************************)
Fair(s) ==
    /\ WF_vars(StartCall(s))
    /\ WF_vars(StartReturn(s))
    /\ WF_vars(Winds(s))
    /\ WF_vars(ShareMessage(s))

ExitFair == WF_vars(Exit)

LiveSpec == Spec /\ ExitFair /\ \A s \in Shares : Fair(s)

-----------------------------------------------------------------------------
(***************************************************************************)
(* Properties.                                                             *)
(***************************************************************************)
Live == shares \union opening

\* A port has at most one share, whether it is opening or running, and the
\* dialog is never open for a port that has one.  The key is refused on such
\* a row, but the list changes while the dialog is open, and shares are found
\* by their port alone (shares.go:94-97, 136, 155, 168).
OneSharePerPort ==
    /\ \A s, t \in Live : port[s] = port[t] => s = t
    /\ shares \intersect opening = {}
    /\ \A s \in Live : port[s] # dialog

\* No share is lost: whatever is starting, running or exposed is on the list,
\* where it can be stopped, and its goroutine will report it (shares.go:121-159).
NoShareLost ==
    \A s \in Shares :
        /\ phase[s] \in {"opening", "running"} \/ s \in exposed => s \in Live
        /\ s \in opening <=> s \in starts
        /\ s \in shares <=> s \in waits

\* The access screen shows a share that is on the list (shares.go:174).
AccessHasShare == access # NoPort => On(shares, access) # {}

\* The cursor is on a row, or on 0 (model.go:171-183, shares.go:188-190).
CursorOnRow == cursor <= LastRow(rows)

\* From the moment t5s has decided to exit, nothing is exposed but the shares
\* that the user submits after the decision: neither what ran when he quit nor
\* what was opening, whichever of them was the last to end or to fail
\* (shares.go:160-163, 188-195, 225-234).  It says nothing of an exit that t5s
\* has not decided, see Interrupted.
ExitWaits == quitIssued => exposed \subseteq late

\* The header names a key exactly while it does something: what is drawn and
\* what is obeyed are decided in two places (view.go:407-424, model.go:193-218,
\* shares.go:94-97, access.go:44-65).
KeysWork ==
    ~exited =>
        /\ "share" \in VisibleKeys <=> ENABLED KeyShare
        /\ "open" \in VisibleKeys <=> ENABLED KeyOpen
        /\ "stop" \in VisibleKeys <=> ENABLED (KeyStop \/ AccessStop)
        /\ "quit" \in VisibleKeys <=> ENABLED (KeyQuit \/ AccessQuit)
        /\ "back" \in VisibleKeys <=> ENABLED AccessBack
        /\ "cancel" \in VisibleKeys <=> ENABLED DialogCancel

\* The row of port p gets another number, because a row above it comes or goes.
RowShifts(p) == \E q \in Ports : q < p /\ ~(q \in rows <=> q \in rows')

\* The selection leaves a port that still has a row only by an arrow key, or
\* when a row above it comes with a submitted share or goes with a share that
\* failed or ended, and never by a scan, whatever rows that takes away or brings
\* (model.go:160-183, shares.go:115-119, 188-190).
SelectionKept ==
    [][\A p \in Selected(rows, cursor) :
          p \in rows' /\ p \notin Selected(rows, cursor)'
              => KeyUp \/ KeyDown \/ (services' = services /\ RowShifts(p))]_vars

\* Asked to quit, the program exits, whatever is opening (shares.go:160-163,
\* 191-193), and no signal is needed for it.  The shares that are submitted in
\* the meantime are limited by Shares.
QuitExits == quitting ~> exited

\* A share that the user stopped leaves the list, unless the program exits.
StopShown == \A s \in Shares : s \in shares /\ s \in stopAsked ~> s \notin shares \/ exited

(***************************************************************************)
(* The ports as the user of t5s sees them.                                 *)
(***************************************************************************)
PortState(p) ==
    IF On(shares, p) # {} THEN "shared"
    ELSE IF On(opening, p) # {} THEN "opening"
    ELSE "private"

PS == INSTANCE PortStates WITH
    state <- [p \in Ports |-> PortState(p)],
    public <- PortsOf(exposed),
    leaving <- quitIssued,
    over <- exited

\* The UI keeps the promises of PortStates: a port is public only while the
\* list has it, gets there only by a submitted dialog, and t5s decides to exit
\* only with an empty list (shares.go:94-195, 225-234).  It may be ended from
\* outside with any list.
KeepsPromises == PS!Spec

\* The UI uses its shares as ShareContract allows: it stops only those that
\* Start has returned (shares.go:155, 161, 197-203, 225-233).
KeepsContract == SC!Spec

(***************************************************************************)
(* The inductive invariant.                                                *)
(***************************************************************************)

\* How the life of a share and the lists of the UI depend on each other.
ShareInv ==
    /\ opening = starts
    /\ shares = waits
    /\ \A s \in Shares : port[s] = NoPort => phase[s] = "idle" /\ s \notin Live
    /\ \A s \in Shares : s \in shares => phase[s] \in {"running", "ended"}
    /\ \A s \in Shares : phase[s] \in {"opening", "running"} => s \in Live
    /\ \A s \in Shares : s \in exposed => phase[s] \in {"opening", "running"}

\* tea.Quit is returned only with nothing on the list.
ExitInv == quitIssued => Live \subseteq late

\* The inductive invariant.
IInv ==
    /\ TypeOK
    /\ ShareInv
    /\ OneSharePerPort
    /\ AccessHasShare
    /\ ExitInv

(***************************************************************************)
(* What the documentation says, and the code does not do.                  *)
(***************************************************************************)

\* "Quit and stop every share" (README.md:41), "every share stops when t5s exits"
\* (README.md:43): nothing is exposed after the exit that the user asked for.
NothingSharedAfterQuit == exited /\ quitIssued => exposed = {}

\* "selection follows its port when the list changes" (model_test.go:48): a
\* message never moves the selection to another port while its port has a row.
SelectionFollowsPort ==
    [][Messages => \A p \in Selected(rows, cursor) : p \in rows' => p \in Selected(rows, cursor)']_vars
=============================================================================
