---------------------------- MODULE ProxyServer ----------------------------
(***************************************************************************)
(* The life of the guarded proxy of a share (internal/proxy/proxy.go): a   *)
(* listener, the goroutine that serves it, and the function that closes    *)
(* the server when the context is done.  What happens to one request is    *)
(* not part of this module.                                                *)
(***************************************************************************)
EXTENDS Context

VARIABLES
    listener,   \* the loopback socket
    hook,       \* the function registered with context.AfterFunc
    serve,      \* the goroutine that runs srv.Serve
    serveErr    \* p.serveErr

proxyVars == <<listener, hook, serve, serveErr>>

ProxyTypeOK ==
    /\ listener \in {"none", "open", "closed"}
    /\ hook \in {"none", "armed", "fired", "done", "disarmed"}
    /\ serve \in {"none", "spawned", "serving", "returned", "served"}
    /\ serveErr \in {"nil", "accept"}

ProxyInit ==
    /\ listener = "none"
    /\ hook = "none"
    /\ serve = "none"
    /\ serveErr = "nil"

\* srv.Close has run: Serve reports ErrServerClosed from now on.
ServerClosed == hook = "done"

\* Mutant of ProxyStart: nothing closes the server when the context is done.
ProxyStart_NoHook ==
    /\ listener = "none"
    /\ listener' = "open"
    /\ serve' = "spawned"
    /\ UNCHANGED <<hook, serveErr>>

\* Start, once it listens.
ProxyStart ==
    /\ listener = "none"
    /\ listener' = "open"
    /\ hook' = "armed"
    /\ serve' = "spawned"
    /\ UNCHANGED serveErr

\* Mutant of HookFires: only Stop closes the server.
HookFires_CanceledOnly ==
    /\ hook = "armed"
    /\ ctx = "canceled"
    /\ hook' = "fired"
    /\ UNCHANGED <<listener, serve, serveErr>>

\* The context is done: the registered function is started on a goroutine of
\* its own, unless the serving goroutine has unregistered it.
HookFires ==
    /\ hook = "armed"
    /\ CtxDone
    /\ hook' = "fired"
    /\ UNCHANGED <<listener, serve, serveErr>>

\* srv.Close closes the listeners that Serve has taken over, and no other.
CloseServer ==
    /\ hook = "fired"
    /\ hook' = "done"
    /\ listener' = IF serve = "serving" THEN "closed" ELSE listener
    /\ UNCHANGED <<serve, serveErr>>

\* srv.Serve takes the listener over.  If the server was closed before, it
\* returns at once, closing the listener.
ServeBegins ==
    /\ serve = "spawned"
    /\ IF ServerClosed
       THEN serve' = "returned" /\ listener' = "closed"
       ELSE serve' = "serving" /\ UNCHANGED listener
    /\ UNCHANGED <<hook, serveErr>>

\* The accept loop ends because the server was closed.
ServeClosed ==
    /\ serve = "serving"
    /\ ServerClosed
    /\ serve' = "returned"
    /\ UNCHANGED <<listener, hook, serveErr>>

\* The accept loop ends with an error of its own; Serve closes the listener.
AcceptFails ==
    /\ serve = "serving"
    /\ ~ServerClosed
    /\ serve' = "returned"
    /\ listener' = "closed"
    /\ serveErr' = "accept"
    /\ UNCHANGED hook

\* The deferred calls: unregister the function, then close(p.served).
ServeDefers ==
    /\ serve = "returned"
    /\ serve' = "served"
    /\ hook' = IF hook = "armed" THEN "disarmed" ELSE hook
    /\ UNCHANGED <<listener, serveErr>>

\* p.Wait returns.
ProxyServed == serve = "served"

ProxyNext ==
    \/ HookFires
    \/ CloseServer
    \/ ServeBegins
    \/ ServeClosed
    \/ AcceptFails
    \/ ServeDefers

\* How the parts of the proxy depend on each other, and on the context.
ProxyInv ==
    /\ serve = "none" <=> listener = "none"
    /\ serve = "none" <=> hook = "none"
    /\ serve \in {"returned", "served"} => listener = "closed"
    /\ serve = "serving" /\ ServerClosed => listener = "closed"
    /\ hook \in {"fired", "done"} => CtxDone
    /\ hook = "disarmed" => serve = "served"
    /\ serve \in {"returned", "served"} /\ serveErr = "nil" => CtxDone
=============================================================================
