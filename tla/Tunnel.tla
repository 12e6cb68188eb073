------------------------------- MODULE Tunnel -------------------------------
(***************************************************************************)
(* One cloudflared quick tunnel (internal/cloudflared/cloudflared.go): the *)
(* call of Open, the cloudflared process, and the goroutine that waits for *)
(* the process to exit and decides whether it stopped by itself.           *)
(* The process is external: it may become ready, die at any time, and dies *)
(* when the context it was started with is done.                           *)
(***************************************************************************)
EXTENDS Context

VARIABLES
    open,         \* the progress of the call of Open
    proc,         \* the cloudflared process
    runCtx,       \* the context of the process, as its own stop() leaves it
    waiter,       \* the goroutine that waits for the process
    exitErr       \* t.exitErr

tunnelVars == <<open, proc, runCtx, waiter, exitErr>>

TunnelTypeOK ==
    /\ open \in {"idle", "awaiting", "answered", "reaping", "opened", "failed"}
    /\ proc \in {"none", "starting", "ready", "lost", "killed"}
    /\ runCtx \in {"live", "canceled"}
    /\ waiter \in {"none", "waiting", "checked", "stopped", "exited"}
    /\ exitErr \in {"nil", "exited"}

TunnelInit ==
    /\ open = "idle"
    /\ proc = "none"
    /\ runCtx = "live"
    /\ waiter = "none"
    /\ exitErr = "nil"

ProcAlive == proc \in {"starting", "ready"}

ProcDead == proc \in {"lost", "killed"}

\* runCtx.Err() # nil: runCtx is derived from the share's context.
RunDone == CtxDone \/ runCtx = "canceled"

\* Open without a process: cloudflared is not on PATH, no port is free for
\* its metrics, or the process does not start.
OpenFailsEarly ==
    /\ open = "idle"
    /\ open' = "failed"
    /\ UNCHANGED <<proc, runCtx, waiter, exitErr>>

\* cmd.Start, which refuses a context that is done, and the goroutine.
Launch ==
    /\ open = "idle"
    /\ ~CtxDone
    /\ open' = "awaiting"
    /\ proc' = "starting"
    /\ waiter' = "waiting"
    /\ UNCHANGED <<runCtx, exitErr>>

\* The process has its hostname and its connections.
ProcReady ==
    /\ proc = "starting"
    /\ proc' = "ready"
    /\ UNCHANGED <<open, runCtx, waiter, exitErr>>

\* The process stops by itself.  The model remembers whether it was still
\* wanted: "lost", or "killed" if its context was done already.
ProcExits ==
    /\ ProcAlive
    /\ proc' = IF RunDone THEN "killed" ELSE "lost"
    /\ UNCHANGED <<open, runCtx, waiter, exitErr>>

\* CommandContext kills the process once its context is done.
ProcKilled ==
    /\ ProcAlive
    /\ RunDone
    /\ proc' = "killed"
    /\ UNCHANGED <<open, runCtx, waiter, exitErr>>

\* Mutant of WaiterChecks: stop() is called before runCtx is looked at.
WaiterChecks_StopFirst ==
    /\ waiter = "waiting"
    /\ ProcDead
    /\ waiter' = "checked"
    /\ runCtx' = "canceled"
    /\ exitErr' = "nil"
    /\ UNCHANGED <<open, proc>>

\* cmd.Wait returns, and the goroutine looks at runCtx before anything else.
WaiterChecks ==
    /\ waiter = "waiting"
    /\ ProcDead
    /\ waiter' = "checked"
    /\ exitErr' = IF RunDone THEN "nil" ELSE "exited"
    /\ UNCHANGED <<open, proc, runCtx>>

\* The deferred stop(), which runs before the deferred close.
WaiterStops ==
    /\ waiter = "checked"
    /\ waiter' = "stopped"
    /\ runCtx' = "canceled"
    /\ UNCHANGED <<open, proc, exitErr>>

\* The deferred close(t.exited).
WaiterCloses ==
    /\ waiter = "stopped"
    /\ waiter' = "exited"
    /\ UNCHANGED <<open, proc, runCtx, exitErr>>

\* A poll of awaitReady gets both answers, a hostname and "ready": from its
\* own process or from another one that has its port (module Tunnels), so
\* whatever the state of its own is.
PollAnswered ==
    /\ open = "awaiting"
    /\ ~RunDone
    /\ open' = "answered"
    /\ UNCHANGED <<proc, runCtx, waiter, exitErr>>

\* Open returns the tunnel, whatever happened since the answers.
OpenReturns ==
    /\ open = "answered"
    /\ open' = "opened"
    /\ UNCHANGED <<proc, runCtx, waiter, exitErr>>

\* Mutant of AwaitGivesUp: the process is not stopped.
AwaitGivesUp_NoStop ==
    /\ open = "awaiting"
    /\ open' = "reaping"
    /\ UNCHANGED <<proc, runCtx, waiter, exitErr>>

\* awaitReady gives up because the process has exited, runCtx is done or
\* startTimeout has passed, which may be at any moment; Open calls stop().
AwaitGivesUp ==
    /\ open = "awaiting"
    /\ open' = "reaping"
    /\ runCtx' = "canceled"
    /\ UNCHANGED <<proc, waiter, exitErr>>

\* t.Wait returns, and Open returns an error.
OpenReaps ==
    /\ open = "reaping"
    /\ waiter = "exited"
    /\ open' = "failed"
    /\ UNCHANGED <<proc, runCtx, waiter, exitErr>>

\* t.Wait returns.
TunnelExited == waiter = "exited"

\* Nobody will read the outcome of this tunnel but Open itself.
Abandoned == open \in {"reaping", "failed"}

\* How the parts of the tunnel depend on each other, and on the context.
TunnelInv ==
    /\ waiter = "none" <=> proc = "none"
    /\ open = "idle" => waiter = "none"
    /\ waiter = "none" => open \in {"idle", "failed"}
    /\ open = "failed" => waiter \in {"none", "exited"}
    /\ waiter \in {"checked", "stopped", "exited"} => ProcDead
    /\ proc = "killed" => RunDone
    /\ open = "reaping" => runCtx = "canceled"
    /\ exitErr # "nil" => proc = "lost" /\ waiter \in {"checked", "stopped", "exited"}
    /\ runCtx = "canceled" => waiter \in {"stopped", "exited"} \/ Abandoned
    /\ waiter \in {"checked", "stopped", "exited"} /\ exitErr = "nil" => CtxDone \/ Abandoned

ProcNext == ProcReady \/ ProcExits \/ ProcKilled

WaiterNext == WaiterChecks \/ WaiterStops \/ WaiterCloses

AwaitNext == PollAnswered \/ OpenReturns \/ AwaitGivesUp \/ OpenReaps
=============================================================================
