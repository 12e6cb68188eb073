------------------------------- MODULE Share -------------------------------
(***************************************************************************)
(* One share (internal/share/share.go): the call of Start, which puts a    *)
(* proxy in front of the target and opens a tunnel to the proxy, and the   *)
(* goroutines that take both down when either is lost, Stop is called or   *)
(* the time runs out.  Composes the proxy and the tunnel over the context  *)
(* they share, and implements ShareContract.                               *)
(***************************************************************************)
EXTENDS ProxyServer, Tunnel

VARIABLES
    start,       \* the progress of the call of Start
    watcher,     \* the goroutine that waits for the tunnel
    sup,         \* the goroutine of supervise
    endErr,      \* what Wait returns
    stopCall     \* history: whether Stop was ever called

shareVars == <<start, watcher, sup, endErr, stopCall>>

vars == <<ctx, proxyVars, tunnelVars, shareVars>>

EndErrs == {"none", "stopped", "expired", "proxy stopped", "tunnel lost"}

\* Every variable keeps its type.
TypeOK ==
    /\ ctx \in CtxStates
    /\ ProxyTypeOK
    /\ TunnelTypeOK
    /\ start \in {"idle", "listening", "opening", "draining", "failed", "started"}
    /\ watcher \in {"none", "waiting", "sent"}
    /\ sup \in {"none", "proxyWait", "tunnelWait", "ended"}
    /\ endErr \in EndErrs
    /\ stopCall \in {"none", "made"}

Init ==
    /\ CtxInit
    /\ ProxyInit
    /\ TunnelInit
    /\ start = "idle"
    /\ watcher = "none"
    /\ sup = "none"
    /\ endErr = "none"
    /\ stopCall = "none"

-----------------------------------------------------------------------------
\* Start is called and derives the context of the share.
StartCalled ==
    /\ start = "idle"
    /\ start' = "listening"
    /\ CtxCreate
    /\ UNCHANGED <<proxyVars, tunnelVars, watcher, sup, endErr, stopCall>>

\* proxy.Start cannot listen.
ListenFails ==
    /\ start = "listening"
    /\ start' = "failed"
    /\ CtxCancel
    /\ UNCHANGED <<proxyVars, tunnelVars, watcher, sup, endErr, stopCall>>

\* proxy.Start returns; backend.Open is called next.
Listens ==
    /\ start = "listening"
    /\ start' = "opening"
    /\ ProxyStart
    /\ UNCHANGED <<ctx, tunnelVars, watcher, sup, endErr, stopCall>>

\* backend.Open looks for cloudflared and runs it.
OpenBegins ==
    /\ start = "opening"
    /\ Launch \/ OpenFailsEarly
    /\ UNCHANGED <<ctx, proxyVars, shareVars>>

\* backend.Open returned an error: stop(), then wait for the proxy.
OpenFailed ==
    /\ start = "opening"
    /\ open = "failed"
    /\ start' = "draining"
    /\ CtxCancel
    /\ UNCHANGED <<proxyVars, tunnelVars, watcher, sup, endErr, stopCall>>

\* Mutant of StartFails: Start returns without waiting for the proxy.
StartFails_NoWait ==
    /\ start = "draining"
    /\ start' = "failed"
    /\ UNCHANGED <<ctx, proxyVars, tunnelVars, watcher, sup, endErr, stopCall>>

\* p.Wait returns, and Start returns the error.
StartFails ==
    /\ start = "draining"
    /\ ProxyServed
    /\ start' = "failed"
    /\ UNCHANGED <<ctx, proxyVars, tunnelVars, watcher, sup, endErr, stopCall>>

\* backend.Open returned a tunnel: supervise runs, with its own goroutine for
\* the tunnel, and Start returns the share.
StartSucceeds ==
    /\ start = "opening"
    /\ open = "opened"
    /\ start' = "started"
    /\ watcher' = "waiting"
    /\ sup' = "proxyWait"
    /\ UNCHANGED <<ctx, proxyVars, tunnelVars, endErr, stopCall>>

\* Mutant of WatchTunnel: the loss of the tunnel does not stop the proxy.
WatchTunnel_NoStop ==
    /\ watcher = "waiting"
    /\ TunnelExited
    /\ watcher' = "sent"
    /\ UNCHANGED <<ctx, proxyVars, tunnelVars, start, sup, endErr, stopCall>>

\* tunnel.Wait returns: stop everything, then hand the error over.
WatchTunnel ==
    /\ watcher = "waiting"
    /\ TunnelExited
    /\ watcher' = "sent"
    /\ CtxCancel
    /\ UNCHANGED <<proxyVars, tunnelVars, start, sup, endErr, stopCall>>

\* proxy.Wait returns: stop everything, then wait for the tunnel's error.
SupProxy ==
    /\ sup = "proxyWait"
    /\ ProxyServed
    /\ sup' = "tunnelWait"
    /\ CtxCancel
    /\ UNCHANGED <<proxyVars, tunnelVars, start, watcher, endErr, stopCall>>

\* Mutant of EndReason: the error of the context is handed on as it is.
EndReason_RawCtxErr ==
    IF exitErr # "nil" THEN "tunnel lost"
    ELSE IF serveErr # "nil" THEN "proxy stopped"
    ELSE ctx

\* Which of the reasons Wait gives; "stopped" stands for nil.
EndReason ==
    IF exitErr # "nil" THEN "tunnel lost"
    ELSE IF serveErr # "nil" THEN "proxy stopped"
    ELSE IF ctx = "expired" THEN "expired"
    ELSE "stopped"

\* Mutant of SupEnd: the share ends with the proxy.
SupEnd_NoTunnel ==
    /\ sup = "tunnelWait"
    /\ sup' = "ended"
    /\ endErr' = EndReason
    /\ UNCHANGED <<ctx, proxyVars, tunnelVars, start, watcher, stopCall>>

\* The tunnel's error arrives: the share has ended.
SupEnd ==
    /\ sup = "tunnelWait"
    /\ watcher = "sent"
    /\ sup' = "ended"
    /\ endErr' = EndReason
    /\ UNCHANGED <<ctx, proxyVars, tunnelVars, start, watcher, stopCall>>

\* Stop, by whoever holds the share, as often as they like.
Stop ==
    /\ start = "started"
    /\ stopCall' = "made"
    /\ CtxCancel
    /\ UNCHANGED <<proxyVars, tunnelVars, start, watcher, sup, endErr>>

\* The share's time is over.
Expire ==
    /\ CtxDeadline
    /\ UNCHANGED <<proxyVars, tunnelVars, shareVars>>

ProxySteps == ProxyNext /\ UNCHANGED <<ctx, tunnelVars, shareVars>>

ProcSteps == ProcNext /\ UNCHANGED <<ctx, proxyVars, shareVars>>

WaiterSteps == WaiterNext /\ UNCHANGED <<ctx, proxyVars, shareVars>>

AwaitSteps == AwaitNext /\ UNCHANGED <<ctx, proxyVars, shareVars>>

\* Start has returned an error and left nothing behind that could move.
Terminated == start = "failed" /\ UNCHANGED vars

StartNext ==
    \/ StartCalled
    \/ ListenFails
    \/ Listens
    \/ OpenBegins
    \/ OpenFailed
    \/ StartFails
    \/ StartSucceeds

SuperviseNext == WatchTunnel \/ SupProxy \/ SupEnd

Next ==
    \/ StartNext
    \/ SuperviseNext
    \/ Stop
    \/ Expire
    \/ ProxySteps
    \/ ProcSteps
    \/ WaiterSteps
    \/ AwaitSteps
    \/ Terminated

Spec == Init /\ [][Next]_vars

(***************************************************************************)
(* Every goroutine that can take a step takes one in the end, awaitReady   *)
(* gives up after startTimeout, and the kernel delivers the kill.  Nothing *)
(* makes the process become ready or exit, the accept loop fail, a user    *)
(* call Start or Stop, or the deadline pass.                               *)
(***************************************************************************)
OfProxy(A) == A /\ UNCHANGED <<ctx, tunnelVars, shareVars>>

OfTunnel(A) == A /\ UNCHANGED <<ctx, proxyVars, shareVars>>

LiveSpec ==
    /\ Spec
    /\ WF_vars(Listens \/ ListenFails)
    /\ WF_vars(OpenBegins)
    /\ WF_vars(OpenFailed)
    /\ WF_vars(StartFails)
    /\ WF_vars(StartSucceeds)
    /\ WF_vars(WatchTunnel)
    /\ WF_vars(SupProxy)
    /\ WF_vars(SupEnd)
    /\ WF_vars(OfProxy(HookFires))
    /\ WF_vars(OfProxy(CloseServer))
    /\ WF_vars(OfProxy(ServeBegins \/ ServeClosed))
    /\ WF_vars(OfProxy(ServeDefers))
    /\ WF_vars(OfTunnel(ProcKilled))
    /\ WF_vars(WaiterSteps)
    /\ WF_vars(OfTunnel(AwaitGivesUp))
    /\ WF_vars(OfTunnel(OpenReturns \/ OpenReaps))

-----------------------------------------------------------------------------
(***************************************************************************)
(* Properties.                                                             *)
(***************************************************************************)
HasEnded == sup = "ended"

\* Wait tells why the share ended (share.go:97-98): nil only when Stop was
\* called, ErrExpired only when the deadline passed, "tunnel lost" only when
\* cloudflared died while nobody had asked it to, "proxy stopped" only when
\* the accept loop failed.  In particular the stop() calls by which one half
\* takes the other down are never mistaken for a Stop.
EndReasonTrue ==
    HasEnded =>
        /\ endErr = "stopped" => stopCall = "made"
        /\ endErr = "expired" => ctx = "expired"
        /\ endErr = "tunnel lost" => proc = "lost"
        /\ endErr = "proxy stopped" => serveErr = "accept"

\* When Start has returned an error or Wait has returned, the listener is
\* closed and no cloudflared is running: an error path that forgets either,
\* or a Wait that does not wait for both, would leave the service public.
NothingLeftBehind ==
    start = "failed" \/ HasEnded => listener # "open" /\ ~ProcAlive

\* When cloudflared is gone or the proxy has stopped, the share ends: neither
\* half stays up alone.
HalfShareEnds ==
    start = "started" /\ (ProcDead \/ serve \in {"returned", "served"}) ~> HasEnded

\* A share whose time is over ends, or has failed to start: also when the
\* deadline passes during Start (share.go:53).
ExpiryEnds == ctx = "expired" ~> HasEnded \/ start = "failed"

\* How the call of Start decides what else may exist.
StartInv ==
    /\ start = "idle" <=> ctx = "none"
    /\ start \in {"idle", "listening"} => serve = "none"
    /\ start \in {"opening", "draining", "started"} => serve # "none"
    /\ open # "idle" => start \in {"opening", "draining", "failed", "started"}
    /\ start \in {"listening", "opening"} => ctx # "canceled"
    /\ start = "draining" => open = "failed" /\ CtxDone
    /\ start = "failed" => serve \in {"none", "served"} /\ open \in {"idle", "failed"}
    /\ start = "started" => open = "opened"

\* How far the goroutines of supervise can be.
SuperviseInv ==
    /\ start = "started" <=> sup # "none"
    /\ start = "started" <=> watcher # "none"
    /\ watcher = "sent" => TunnelExited /\ CtxDone
    /\ sup \in {"tunnelWait", "ended"} => ProxyServed /\ CtxDone
    /\ HasEnded => watcher = "sent"
    /\ HasEnded <=> endErr # "none"
    /\ stopCall = "made" => start = "started"

\* Who canceled the context of a started share.
CancelCause ==
    start = "started" /\ ctx = "canceled" => stopCall = "made" \/ exitErr # "nil" \/ serveErr # "nil"

\* The inductive invariant: nothing of a share moves out of step with the
\* rest of it.
IInv ==
    /\ TypeOK
    /\ ProxyInv
    /\ TunnelInv
    /\ StartInv
    /\ SuperviseInv
    /\ CancelCause
    /\ EndReasonTrue

(***************************************************************************)
(* A share as its user sees it.                                            *)
(***************************************************************************)
Me == {"me"}

Phase ==
    IF start = "idle" THEN "idle"
    ELSE IF start = "failed" THEN "failed"
    ELSE IF start # "started" THEN "opening"
    ELSE IF HasEnded THEN "ended"
    ELSE "running"

Result ==
    IF endErr \in {"tunnel lost", "proxy stopped"} THEN "lost" ELSE endErr

Exposed == listener = "open" \/ ProcAlive

Contract == INSTANCE ShareContract WITH
    Shares <- Me,
    phase <- [s \in Me |-> Phase],
    exposed <- IF Exposed THEN Me ELSE {},
    stopAsked <- IF stopCall = "made" THEN Me ELSE {},
    result <- [s \in Me |-> Result]

\* A share does what ShareContract says a share does.
ImplementsContract == Contract!Spec

\* Start returns, however the process behaves.
StartReturns == Contract!StartReturns

\* After Stop the share ends.
StopEnds == Contract!StopEnds
=============================================================================
