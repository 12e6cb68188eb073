------------------------------ MODULE Tunnels -------------------------------
(***************************************************************************)
(* Several quick tunnels at once (internal/cloudflared/cloudflared.go) and *)
(* the ports of their metrics servers.  Open finds a free port, lets go of *)
(* it and has cloudflared bind it later; until then another tunnel may be  *)
(* given the same port.  awaitReady asks whoever serves the port, in two   *)
(* requests, so the hostname it gets may be that of another tunnel.        *)
(*                                                                         *)
(* What one tunnel does besides is in module Tunnel.  cloudflared is       *)
(* external: it has its hostname before it serves its metrics, and exits   *)
(* if their port is taken.  Programs other than cloudflared are left out.  *)
(***************************************************************************)
EXTENDS Integers

CONSTANTS
    Tunnels,  \* the calls of Open; a tunnel stands for its hostname, too
    Ports     \* the ports that the system gives away

\* Tunnels are numbered; 0 stands for no tunnel and for no port.
ASSUME NamesAssumption == Tunnels \subseteq Nat \ {0} /\ Ports \subseteq Nat \ {0}

VARIABLES
    step,      \* the progress of Open and, after it, of the share
    metrics,   \* metrics
    hostname,  \* hostname, as the answer of /quicktunnel has it; 0 before
    proc       \* the cloudflared process

vars == <<step, metrics, hostname, proc>>

\* Every variable keeps its type.
TypeOK ==
    /\ step \in [Tunnels -> {"idle", "found", "awaiting", "answered", "opened", "stopping", "gone"}]
    /\ metrics \in [Tunnels -> Ports \union {0}]
    /\ hostname \in [Tunnels -> Tunnels \union {0}]
    /\ proc \in [Tunnels -> {"none", "starting", "serving", "ready", "dead"}]

Init ==
    /\ step = [t \in Tunnels |-> "idle"]
    /\ metrics = [t \in Tunnels |-> 0]
    /\ hostname = [t \in Tunnels |-> 0]
    /\ proc = [t \in Tunnels |-> "none"]

Alive(t) == proc[t] \in {"starting", "serving", "ready"}

\* Process t has port p.
Serves(t, p) == proc[t] \in {"serving", "ready"} /\ metrics[t] = p

Free(p) == \A t \in Tunnels : ~Serves(t, p)

Goes(t, from, to) == step[t] = from /\ step' = [step EXCEPT ![t] = to]

Becomes(t, from, to) == proc[t] = from /\ proc' = [proc EXCEPT ![t] = to]

-----------------------------------------------------------------------------
(***************************************************************************)
(* The cloudflared processes.                                              *)
(***************************************************************************)

\* It has its hostname, and binds the port if nobody has it.
Bind(t) ==
    /\ Becomes(t, "starting", IF Free(metrics[t]) THEN "serving" ELSE "dead")
    /\ UNCHANGED <<step, metrics, hostname>>

Connect(t) ==
    /\ Becomes(t, "serving", "ready")
    /\ UNCHANGED <<step, metrics, hostname>>

\* It exits, by itself or killed once its context is done.
Exits(t) ==
    /\ Alive(t)
    /\ proc' = [proc EXCEPT ![t] = "dead"]
    /\ UNCHANGED <<step, metrics, hostname>>

Killed(t) == step[t] = "stopping" /\ Exits(t)

-----------------------------------------------------------------------------
(***************************************************************************)
(* Open.                                                                   *)
(***************************************************************************)

\* freeLoopbackAddr: a port that is free, and free again when it returns.
FindPort(t, p) ==
    /\ Goes(t, "idle", "found")
    /\ Free(p)
    /\ metrics' = [metrics EXCEPT ![t] = p]
    /\ UNCHANGED <<hostname, proc>>

\* cmd.Start
Launch(t) ==
    /\ Goes(t, "found", "awaiting")
    /\ Becomes(t, "none", "starting")
    /\ UNCHANGED <<metrics, hostname>>

\* cmd.Start fails.
LaunchFails(t) ==
    /\ Goes(t, "found", "gone")
    /\ UNCHANGED <<metrics, hostname, proc>>

\* Mutant of AskHostname: the port is not that of --metrics.
AskHostname_AnyPort(t) ==
    /\ Goes(t, "awaiting", "answered")
    /\ \E u \in Tunnels : Serves(u, metrics[u]) /\ hostname' = [hostname EXCEPT ![t] = u]
    /\ UNCHANGED <<metrics, proc>>

\* quickTunnelHostname: whoever serves the port tells its hostname.
AskHostname(t) ==
    /\ Goes(t, "awaiting", "answered")
    /\ \E u \in Tunnels : Serves(u, metrics[t]) /\ hostname' = [hostname EXCEPT ![t] = u]
    /\ UNCHANGED <<metrics, proc>>

\* isReady: whoever serves the port by now is ready, and Open returns.
AskReady(t) ==
    /\ Goes(t, "answered", "opened")
    /\ \E u \in Tunnels : Serves(u, metrics[t]) /\ proc[u] = "ready"
    /\ UNCHANGED <<metrics, hostname, proc>>

\* It is not ready, or does not answer within pollTimeout: the next poll asks
\* for a hostname again.
NotReady(t) ==
    /\ Goes(t, "answered", "awaiting")
    /\ hostname' = [hostname EXCEPT ![t] = 0]
    /\ UNCHANGED <<metrics, proc>>

\* A poll has failed, and the process has exited, startTimeout has passed or
\* the share is stopped: Open calls stop().
GivesUp(t) ==
    /\ Goes(t, "awaiting", "stopping")
    /\ UNCHANGED <<metrics, hostname, proc>>

\* The share of the tunnel is stopped or expires.
Stop(t) ==
    /\ Goes(t, "opened", "stopping")
    /\ UNCHANGED <<metrics, hostname, proc>>

\* Mutant of Lost: nobody waits for the process of an open tunnel.
Lost_Unseen(t) == FALSE /\ UNCHANGED vars

\* Wait returns, and the share ends.
Lost(t) ==
    /\ proc[t] = "dead"
    /\ Goes(t, "opened", "stopping")
    /\ UNCHANGED <<metrics, hostname, proc>>

\* The process has been waited for.
Gone(t) ==
    /\ proc[t] = "dead"
    /\ Goes(t, "stopping", "gone")
    /\ UNCHANGED <<metrics, hostname, proc>>

Open(t) ==
    \/ \E p \in Ports : FindPort(t, p)
    \/ Launch(t) \/ LaunchFails(t)
    \/ AskHostname(t) \/ AskReady(t) \/ NotReady(t) \/ GivesUp(t)

End(t) == Stop(t) \/ Lost(t) \/ Gone(t)

Process(t) == Bind(t) \/ Connect(t) \/ Exits(t)

Next == \E t \in Tunnels : Open(t) \/ End(t) \/ Process(t)

Spec == Init /\ [][Next]_vars

\* cloudflared binds its port or exits, exits when it is killed, and the
\* goroutine that waits for it gets to run.
Fair(t) == WF_vars(Bind(t)) /\ WF_vars(Killed(t)) /\ WF_vars(Lost(t)) /\ WF_vars(Gone(t))

LiveSpec == Spec /\ \A t \in Tunnels : Fair(t)

-----------------------------------------------------------------------------
(***************************************************************************)
(* Properties.                                                             *)
(***************************************************************************)

\* The URL of an open tunnel is that of a tunnel that was given the same port:
\* its own, unless the port was given away twice (cloudflared.go:94-124).
UrlFromPort == \A t \in Tunnels : step[t] = "opened" => hostname[t] # 0 /\ metrics[hostname[t]] = metrics[t]

\* Two shares that were given the same port do not both last, so a user who
\* sees the URL of another share loses one of the two
\* (cloudflared.go:65-71, 87-102).
CollisionSettles ==
    \A t, u \in Tunnels :
        t < u /\ step[t] = "opened" /\ step[u] = "opened" /\ metrics[t] = metrics[u]
            ~> step[t] # "opened" \/ step[u] # "opened"

(***************************************************************************)
(* The inductive invariant.                                                *)
(***************************************************************************)

\* A tunnel with a process has a port, and an answer came from its port.
AnswerInv ==
    \A t \in Tunnels :
        /\ proc[t] # "none" \/ step[t] \in {"found", "awaiting", "answered", "opened"} => metrics[t] \in Ports
        /\ step[t] \in {"answered", "opened"} => hostname[t] \in Tunnels /\ metrics[hostname[t]] = metrics[t]
        /\ hostname[t] # 0 => proc[hostname[t]] # "none"
        /\ step[t] \in {"idle", "found"} => proc[t] = "none"
        /\ step[t] \in {"awaiting", "answered", "opened", "stopping"} => proc[t] # "none"

\* No two processes have one port.
PortInv == \A t, u \in Tunnels : \A p \in Ports : Serves(t, p) /\ Serves(u, p) => t = u

IInv == TypeOK /\ AnswerInv /\ PortInv
=============================================================================
