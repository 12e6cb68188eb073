----------------------------- MODULE AccessLog -----------------------------
(***************************************************************************)
(* The access log of a share (internal/proxy/access.go): how many requests *)
(* each client address made and when the last one came, for a limited      *)
(* number of addresses.  Both operations hold the mutex from their first   *)
(* to their last line, so each is one step.                                *)
(*                                                                         *)
(* Access.Allowed is left out: a share never changes its allowlist, so the *)
(* verdict on an address is always the same.                               *)
(***************************************************************************)
EXTENDS Naturals, FiniteSets

CONSTANTS
    Addrs,      \* the client addresses
    MaxTracked  \* maxTrackedAddrs

\* An address is a positive number: 0 stands for "none".
ASSUME AddrsAssumption == Addrs \subseteq Nat \ {0} /\ IsFiniteSet(Addrs)

ASSUME MaxTrackedAssumption == MaxTracked \in Nat

VARIABLES
    log,        \* l.byAddr; an address that is not in the map has no requests
    untracked   \* l.untracked

logVars == <<log, untracked>>

LogTypeOK ==
    /\ log \in [Addrs -> [requests : Nat, lastSeen : Nat]]
    /\ untracked \in Nat

LogInit ==
    /\ log = [a \in Addrs |-> [requests |-> 0, lastSeen |-> 0]]
    /\ untracked = 0

\* The keys of l.byAddr.
Tracked == {a \in Addrs : log[a].requests > 0}

\* Mutant of Record: once the log is full, no request is tracked any more.
Record_LimitFirst(a, now) ==
    IF Cardinality(Tracked) >= MaxTracked
    THEN /\ untracked' = untracked + 1
         /\ UNCHANGED log
    ELSE /\ log' = [log EXCEPT ![a] = [requests |-> @.requests + 1, lastSeen |-> now]]
         /\ UNCHANGED untracked

\* record
Record(a, now) ==
    IF a \notin Tracked /\ Cardinality(Tracked) >= MaxTracked
    THEN /\ untracked' = untracked + 1
         /\ UNCHANGED log
    ELSE /\ log' = [log EXCEPT ![a] = [requests |-> @.requests + 1, lastSeen |-> now]]
         /\ UNCHANGED untracked

\* The order of snapshot: the time of the last request, then the address.
ListedBefore(a, b) ==
    \/ log[a].lastSeen > log[b].lastSeen
    \/ log[a].lastSeen = log[b].lastSeen /\ a < b
=============================================================================
