------------------------------ MODULE Requests ------------------------------
(***************************************************************************)
(* The requests a share receives (internal/proxy/guard.go, and forward and *)
(* BaseContext of proxy.go), each on a goroutine of its own, over the life *)
(* of the proxy and its access log.                                        *)
(*                                                                         *)
(* The HTTP server and the service are external.  A connection that was    *)
(* accepted may deliver a request at any later time, also when the share   *)
(* has ended: the properties do not rest on when net/http closes it.       *)
(***************************************************************************)
EXTENDS ProxyServer, AccessLog

CONSTANTS
    Requests,   \* the requests, one element each
    Allow,      \* the addresses inside the allowlist of the share
    Remote      \* the address of whoever connects, which is cloudflared

ASSUME RequestsAssumption == IsFiniteSet(Requests)

ASSUME AllowAssumption == Allow \subseteq Addrs /\ Remote \in Addrs

NoAddr == 0

VARIABLES
    req,        \* how far the handler of each request is
    header,     \* the address in its CF-Connecting-IP, if that is one
    client,     \* clientAddr of each request, once it has arrived
    stamp,      \* the argument time.Now() of record
    upgraded,   \* the requests the service answered by an upgrade (WebSocket)
    clock

reqVars == <<req, header, client, stamp, upgraded, clock>>

vars == <<ctx, proxyVars, logVars, reqVars>>

Steps == {"none", "seen", "stamped", "recorded", "blocked", "forwarding", "served", "failed"}

\* Every variable keeps its type.
TypeOK ==
    /\ ctx \in CtxStates
    /\ ProxyTypeOK
    /\ LogTypeOK
    /\ req \in [Requests -> Steps]
    /\ header \in [Requests -> Addrs \union {NoAddr}]
    /\ client \in [Requests -> Addrs \union {NoAddr}]
    /\ stamp \in [Requests -> Nat]
    /\ upgraded \subseteq Requests
    /\ clock \in Nat

Init ==
    /\ CtxInit
    /\ ProxyInit
    /\ LogInit
    /\ req = [r \in Requests |-> "none"]
    /\ header \in [Requests -> Addrs \union {NoAddr}]
    /\ client = [r \in Requests |-> NoAddr]
    /\ stamp = [r \in Requests |-> 0]
    /\ upgraded = {}
    /\ clock = 0

Moves(r, from, to) == req[r] = from /\ req' = [req EXCEPT ![r] = to]

-----------------------------------------------------------------------------
\* A connection delivers a request: clientAddr finds its address.
Arrive(r) ==
    /\ serve \notin {"none", "spawned"}
    /\ Moves(r, "none", "seen")
    /\ client' = [client EXCEPT ![r] = IF header[r] # NoAddr THEN header[r] ELSE Remote]
    /\ UNCHANGED <<ctx, proxyVars, logVars, header, stamp, upgraded, clock>>

\* time.Now(), before the call of record takes the lock.
Stamp(r) ==
    /\ Moves(r, "seen", "stamped")
    /\ clock' = clock + 1
    /\ stamp' = [stamp EXCEPT ![r] = clock + 1]
    /\ UNCHANGED <<ctx, proxyVars, logVars, header, client, upgraded>>

\* The call of record.
Enter(r) ==
    /\ Moves(r, "stamped", "recorded")
    /\ Record(client[r], stamp[r])
    /\ UNCHANGED <<ctx, proxyVars, header, client, stamp, upgraded, clock>>

\* writeBlocked
Block(r) ==
    /\ client[r] \notin Allow
    /\ Moves(r, "recorded", "blocked")
    /\ UNCHANGED <<ctx, proxyVars, logVars, header, client, stamp, upgraded, clock>>

\* Mutant of ReqDone: without BaseContext only the end of its connection ends
\* a request, and the server does not close connections that were upgraded.
ReqDone_NoBaseContext(r) == ServerClosed /\ r \notin upgraded

\* The context of a request is done: it is derived from that of the share.
ReqDone(r) == CtxDone \/ (ServerClosed /\ r \notin upgraded)

\* Mutant of Forward: a request that was answered with 403 is forwarded too.
Forward_NoReturn(r) ==
    /\ ~ReqDone(r)
    /\ Moves(r, "recorded", "forwarding")
    /\ \E upgrade \in BOOLEAN : upgraded' = IF upgrade THEN upgraded \union {r} ELSE upgraded
    /\ UNCHANGED <<ctx, proxyVars, logVars, header, client, stamp, clock>>

\* next.ServeHTTP: the request goes to the service, which may upgrade the
\* connection.
Forward(r) ==
    /\ client[r] \in Allow
    /\ ~ReqDone(r)
    /\ Moves(r, "recorded", "forwarding")
    /\ \E upgrade \in BOOLEAN : upgraded' = IF upgrade THEN upgraded \union {r} ELSE upgraded
    /\ UNCHANGED <<ctx, proxyVars, logVars, header, client, stamp, clock>>

\* The service does not answer, or the context was done already: 502.
Unreachable(r) ==
    /\ client[r] \in Allow
    /\ Moves(r, "recorded", "failed")
    /\ UNCHANGED <<ctx, proxyVars, logVars, header, client, stamp, upgraded, clock>>

\* The service or the client ends the exchange.
Finish(r) ==
    /\ Moves(r, "forwarding", "served")
    /\ UNCHANGED <<ctx, proxyVars, logVars, header, client, stamp, upgraded, clock>>

\* The reverse proxy ends an exchange whose context is done.
Cut(r) ==
    /\ ReqDone(r)
    /\ Moves(r, "forwarding", "failed")
    /\ UNCHANGED <<ctx, proxyVars, logVars, header, client, stamp, upgraded, clock>>

-----------------------------------------------------------------------------
\* share.Start makes the context and starts the proxy.
ShareBegins == CtxCreate /\ ProxyStart /\ UNCHANGED <<logVars, reqVars>>

\* The share is stopped, loses its tunnel, or expires.
ShareStops ==
    /\ ctx = "live"
    /\ CtxCancel \/ CtxDeadline
    /\ UNCHANGED <<proxyVars, logVars, reqVars>>

ProxySteps == ProxyNext /\ UNCHANGED <<ctx, logVars, reqVars>>

Handler(r) == Stamp(r) \/ Enter(r) \/ Block(r) \/ Forward(r) \/ Unreachable(r) \/ Cut(r)

Terminated ==
    /\ CtxDone /\ ProxyServed
    /\ \A r \in Requests : req[r] \in {"blocked", "served", "failed"}
    /\ UNCHANGED vars

Next ==
    \/ ShareBegins
    \/ ShareStops
    \/ ProxySteps
    \/ \E r \in Requests : Arrive(r) \/ Handler(r) \/ Finish(r)
    \/ Terminated

Spec == Init /\ [][Next]_vars

(***************************************************************************)
(* A handler goes on as long as it can.  No request has to arrive, no      *)
(* exchange has to finish by itself, no share has to stop, and the steps   *)
(* of the proxy are not needed either.                                     *)
(***************************************************************************)
HandlerFair(r) == WF_vars(Handler(r))

LiveSpec == Spec /\ \A r \in Requests : HandlerFair(r)

-----------------------------------------------------------------------------
(***************************************************************************)
(* Properties.                                                             *)
(***************************************************************************)
Recorded == {r \in Requests : req[r] \in {"recorded", "blocked", "forwarding", "served", "failed"}}

RequestsOf(a) == {r \in Recorded : client[r] = a}

\* The log accounts for every request that was answered or forwarded, once
\* (access.go:27-44): an address that is tracked has all its requests, also
\* those that came when the log was full; all others are in the count of
\* untracked requests; and none is untracked while there is room.
LogExact ==
    /\ \A a \in Tracked : log[a].requests = Cardinality(RequestsOf(a))
    /\ untracked = Cardinality({r \in Recorded : client[r] \notin Tracked})
    /\ Cardinality(Tracked) <= MaxTracked
    /\ untracked > 0 => Cardinality(Tracked) = MaxTracked

\* When the context of the share is done, every exchange with the service
\* ends, upgraded ones too, and none begins (proxy.go:62): also when the
\* accept loop had failed, in which case nothing calls srv.Close.
CutOff == \A r \in Requests : CtxDone ~> [](req[r] # "forwarding")

\* Only requests of allowed addresses reach the service, and all who reached
\* it are in the log, by address or in the count (guard.go:24-31).
OnlyAllowedServed ==
    \A r \in Requests :
        req[r] \in {"forwarding", "served"} =>
            /\ client[r] \in Allow
            /\ client[r] \in Tracked \/ untracked > 0

\* Who is past the guard was allowed by it.
GuardInv ==
    /\ \A r \in Requests : req[r] # "none" => client[r] # NoAddr
    /\ \A r \in Requests : req[r] \in {"forwarding", "served"} => client[r] \in Allow

\* The inductive invariant.
IInv == TypeOK /\ GuardInv /\ LogExact

(***************************************************************************)
(* What the documentation says, and the code does not do.                  *)
(***************************************************************************)

\* The time of the last request of a tracked address.
LatestOf(a) == CHOOSE t \in {stamp[r] : r \in RequestsOf(a)} : \A r \in RequestsOf(a) : stamp[r] <= t

\* "the client addresses seen so far, most recent first" (proxy.go:86): an
\* address that is listed first made the later request.
MostRecentFirst ==
    \A a, b \in Tracked : ListedBefore(a, b) => LatestOf(a) >= LatestOf(b)
=============================================================================
