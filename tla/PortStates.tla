----------------------------- MODULE PortStates -----------------------------
(***************************************************************************)
(* What t5s promises its user about the ports of the machine: a port is    *)
(* public only while the list shows it as opening or shared, it gets there *)
(* only when the user submits its dialog, and t5s decides to exit only     *)
(* when every port is private.  A signal or an error may end the program   *)
(* at any time, and then nothing is promised of the ports.  How the        *)
(* terminal UI, its messages and the goroutines of the shares keep this is *)
(* the business of module Tui, which implements this one.                  *)
(***************************************************************************)

CONSTANT Ports

VARIABLES
    state,    \* what the list shows for each port
    public,   \* the ports that can be reached from outside
    leaving,  \* t5s has decided to exit
    over      \* it has exited, by its own decision or not

portVars == <<state, public, leaving, over>>

TypeOK ==
    /\ state \in [Ports -> {"private", "opening", "shared"}]
    /\ public \subseteq Ports
    /\ leaving \in BOOLEAN
    /\ over \in BOOLEAN

Init ==
    /\ state = [p \in Ports |-> "private"]
    /\ public = {}
    /\ leaving = FALSE
    /\ over = FALSE

Moves(p, from, to) == state[p] = from /\ state' = [state EXCEPT ![p] = to]

\* The user submits the dialog of the port.
Submit(p) ==
    /\ Moves(p, "private", "opening")
    /\ UNCHANGED <<public, leaving, over>>

\* The port becomes public, before the list says so.
Publish(p) ==
    /\ state[p] = "opening"
    /\ public' = public \union {p}
    /\ UNCHANGED <<state, leaving, over>>

\* The list shows the share.
Succeed(p) ==
    /\ Moves(p, "opening", "shared")
    /\ UNCHANGED <<public, leaving, over>>

\* The port is private again, before the list says so.
Withdraw(p) ==
    /\ public' = public \ {p}
    /\ UNCHANGED <<state, leaving, over>>

AllPrivate == \A p \in Ports : state[p] = "private"

\* A share that failed to start, or has ended, leaves the list.  The last one
\* may be what t5s has waited for.
Close(p) ==
    /\ p \notin public
    /\ Moves(p, "opening", "private") \/ Moves(p, "shared", "private")
    /\ leaving' = leaving \/ (leaving' = TRUE /\ AllPrivate')
    /\ UNCHANGED <<public, over>>

\* The user quits with nothing shared.
Leave ==
    /\ AllPrivate
    /\ leaving' = TRUE
    /\ UNCHANGED <<state, public, over>>

\* The program ends.  If it has decided so, the user may have been faster, and
\* if it has not, the ports are as they happen to be.
Exit ==
    /\ over' = TRUE
    /\ UNCHANGED <<state, public, leaving>>

Next ==
    /\ ~over
    /\ \/ \E p \in Ports : Submit(p) \/ Publish(p) \/ Succeed(p) \/ Withdraw(p) \/ Close(p)
       \/ Leave
       \/ Exit

Spec == Init /\ [][Next]_portVars

\* What the list calls private is private.
PrivateIsPrivate == \A p \in public : state[p] # "private"
=============================================================================
