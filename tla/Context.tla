------------------------------ MODULE Context ------------------------------
(***************************************************************************)
(* The context of one share, as package context of the Go library makes    *)
(* it: share.Start derives it with WithDeadline from a context that is     *)
(* never done, and passes it to the proxy and to cloudflared.  The stop    *)
(* function and the deadline race; the first of the two decides the error  *)
(* the context reports for good.                                           *)
(***************************************************************************)

VARIABLE ctx       \* the state of the share's context

CtxStates == {"none", "live", "canceled", "expired"}

CtxInit == ctx = "none"

\* ctx.Err() # nil, which is when ctx.Done() is closed.
CtxDone == ctx \in {"canceled", "expired"}

\* context.WithDeadline(parent, expiresAt).
CtxCreate == ctx = "none" /\ ctx' = "live"

\* The CancelFunc: every call after the first one, or after the deadline, has
\* no effect.
CtxCancel == ctx' = IF ctx = "live" THEN "canceled" ELSE ctx

\* The timer of WithDeadline.
CtxDeadline == ctx = "live" /\ ctx' = "expired"
=============================================================================
