--------------------------- MODULE ShareContract ---------------------------
(***************************************************************************)
(* What package share promises to the terminal UI, for any number of       *)
(* shares: Start returns a running share or an error; a share that Start   *)
(* failed to start, or that Wait says has ended, exposes nothing; Wait     *)
(* reports nil only after Stop.  How a share gets there is the business of *)
(* module Share, which implements this one.                                *)
(***************************************************************************)

CONSTANT Shares

VARIABLES
    phase,     \* where each share is, as its user sees it
    exposed,   \* the shares whose socket is open or whose cloudflared runs
    stopAsked, \* the shares on which Stop was called
    result     \* what Wait returns, once the share has ended

contractVars == <<phase, exposed, stopAsked, result>>

Phases == {"idle", "opening", "failed", "running", "ended"}

Results == {"none", "stopped", "expired", "lost"}

TypeOK ==
    /\ phase \in [Shares -> Phases]
    /\ exposed \subseteq Shares
    /\ stopAsked \subseteq Shares
    /\ result \in [Shares -> Results]

Init ==
    /\ phase = [s \in Shares |-> "idle"]
    /\ exposed = {}
    /\ stopAsked = {}
    /\ result = [s \in Shares |-> "none"]

\* The call of Start.
StartShare(s) ==
    /\ phase[s] = "idle"
    /\ phase' = [phase EXCEPT ![s] = "opening"]
    /\ UNCHANGED <<exposed, stopAsked, result>>

\* The proxy listens, or cloudflared runs.
Expose(s) ==
    /\ phase[s] = "opening"
    /\ s \notin exposed
    /\ exposed' = exposed \union {s}
    /\ UNCHANGED <<phase, stopAsked, result>>

\* Both are gone.
Withdraw(s) ==
    /\ s \in exposed
    /\ exposed' = exposed \ {s}
    /\ UNCHANGED <<phase, stopAsked, result>>

\* Start returns an error: what it had started is gone.
FailStart(s) ==
    /\ phase[s] = "opening"
    /\ s \notin exposed
    /\ phase' = [phase EXCEPT ![s] = "failed"]
    /\ UNCHANGED <<exposed, stopAsked, result>>

\* Start returns the share.
FinishStart(s) ==
    /\ phase[s] = "opening"
    /\ phase' = [phase EXCEPT ![s] = "running"]
    /\ UNCHANGED <<exposed, stopAsked, result>>

\* Stop asks; it does not wait.  The UI asks several at once when it quits.
Stop(S) ==
    /\ \A s \in S : phase[s] \in {"running", "ended"}
    /\ stopAsked' = stopAsked \union S
    /\ UNCHANGED <<phase, exposed, result>>

\* Wait returns r.
End(s, r) ==
    /\ phase[s] = "running"
    /\ s \notin exposed
    /\ r = "stopped" => s \in stopAsked
    /\ phase' = [phase EXCEPT ![s] = "ended"]
    /\ result' = [result EXCEPT ![s] = r]
    /\ UNCHANGED <<exposed, stopAsked>>

Next ==
    \/ \E s \in Shares :
          \/ StartShare(s)
          \/ Expose(s)
          \/ Withdraw(s)
          \/ FailStart(s)
          \/ FinishStart(s)
          \/ \E r \in Results \ {"none"} : End(s, r)
    \/ \E S \in SUBSET Shares : Stop(S)

Spec == Init /\ [][Next]_contractVars

(***************************************************************************)
(* Progress.                                                               *)
(***************************************************************************)

\* Start returns.
StartReturns == \A s \in Shares : phase[s] = "opening" ~> phase[s] # "opening"

\* A share that was asked to stop ends.
StopEnds == \A s \in Shares : phase[s] = "running" /\ s \in stopAsked ~> phase[s] = "ended"
=============================================================================
