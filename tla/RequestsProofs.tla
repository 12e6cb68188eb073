--------------------------- MODULE RequestsProofs ---------------------------
(***************************************************************************)
(* Proofs about module Requests: the access log is exact for any number of *)
(* requests, addresses and any limit, and no exchange outlives the share   *)
(* for want of a way to cut it.                                            *)
(***************************************************************************)
EXTENDS Requests, FiniteSetTheorems, TLAPS

Untracked == {r \in Recorded : client[r] \notin Tracked}

\* The sets that are counted are finite.
LEMMA CountedFinite ==
    ASSUME TypeOK
    PROVE  /\ IsFiniteSet(Recorded)
           /\ IsFiniteSet(Untracked)
           /\ IsFiniteSet(Tracked)
           /\ \A a : IsFiniteSet(RequestsOf(a))
  <1>1. /\ Recorded \subseteq Requests
        /\ Untracked \subseteq Requests
        /\ Tracked \subseteq Addrs
        /\ \A a : RequestsOf(a) \subseteq Requests
    BY DEF Recorded, Untracked, Tracked, RequestsOf
  <1> QED
    BY <1>1, RequestsAssumption, AddrsAssumption, FS_Subset

\* A step that records nothing and changes no request that is recorded.
LEMMA LogFrame ==
    ASSUME LogExact, UNCHANGED <<log, untracked>>, Recorded' = Recorded,
           \A r \in Recorded : client'[r] = client[r]
    PROVE  LogExact'
  <1>1. Tracked' = Tracked
    BY DEF Tracked
  <1>2. \A a : RequestsOf(a)' = RequestsOf(a)
    BY DEF RequestsOf
  <1>3. {r \in Recorded : client[r] \notin Tracked}' = {r \in Recorded : client[r] \notin Tracked}
    BY <1>1
  <1> QED
    BY <1>1, <1>2, <1>3 DEF LogExact

\* The log is full, and the address is not in it: one more is untracked.
LEMMA RecordUntracked ==
    ASSUME IInv, NEW r \in Requests, Enter(r),
           client[r] \notin Tracked, Cardinality(Tracked) >= MaxTracked
    PROVE  LogExact'
  <1>1. /\ log' = log /\ untracked' = untracked + 1 /\ client' = client
        /\ Recorded' = Recorded \union {r} /\ r \notin Recorded
    BY DEF Enter, Moves, Record, IInv, TypeOK, Recorded
  <1>2. Tracked' = Tracked
    BY <1>1 DEF Tracked
  <1>3. \A a \in Tracked : RequestsOf(a)' = RequestsOf(a)
    BY <1>1 DEF RequestsOf
  <1>4. Untracked' = Untracked \union {r} /\ r \notin Untracked
    BY <1>1, <1>2 DEF Untracked
  <1>5. Cardinality(Untracked') = Cardinality(Untracked) + 1
    BY <1>4, CountedFinite, FS_AddElement DEF IInv
  <1>6. Cardinality(Tracked) = MaxTracked
    BY CountedFinite, FS_CardinalityType, MaxTrackedAssumption DEF IInv, LogExact
  <1>7. untracked' = Cardinality(Untracked')
    BY <1>1, <1>5 DEF IInv, LogExact, Untracked
  <1>8. \A a \in Tracked' : log'[a].requests = Cardinality(RequestsOf(a)')
    BY <1>1, <1>2, <1>3 DEF IInv, LogExact
  <1> QED
    BY <1>2, <1>6, <1>7, <1>8, MaxTrackedAssumption DEF LogExact, Untracked

\* The address is in the log: it has one more.
LEMMA RecordTracked ==
    ASSUME IInv, NEW r \in Requests, Enter(r), client[r] \in Tracked
    PROVE  LogExact'
  <1> DEFINE c == client[r]
  <1>1. /\ untracked' = untracked /\ client' = client
        /\ log' = [log EXCEPT ![c] = [requests |-> @.requests + 1, lastSeen |-> stamp[r]]]
        /\ Recorded' = Recorded \union {r} /\ r \notin Recorded
    BY DEF Enter, Moves, Record, IInv, TypeOK, Recorded
  <1>2. /\ c \in Addrs
        /\ log'[c].requests = log[c].requests + 1
        /\ \A a \in Addrs \ {c} : log'[a] = log[a]
    BY <1>1 DEF Tracked, IInv, TypeOK, LogTypeOK
  <1>3. Tracked' = Tracked
    BY <1>2 DEF Tracked, IInv, TypeOK, LogTypeOK
  <1>4. RequestsOf(c)' = RequestsOf(c) \union {r} /\ r \notin RequestsOf(c)
    BY <1>1 DEF RequestsOf
  <1>5. Cardinality(RequestsOf(c)') = Cardinality(RequestsOf(c)) + 1
    BY <1>4, CountedFinite, FS_AddElement DEF IInv
  <1>6. \A a \in Tracked \ {c} : RequestsOf(a)' = RequestsOf(a)
    BY <1>1 DEF RequestsOf
  <1>7. Untracked' = Untracked
    BY <1>1, <1>3 DEF Untracked
  <1>8. \A a \in Tracked' : log'[a].requests = Cardinality(RequestsOf(a)')
    <2>1. log'[c].requests = Cardinality(RequestsOf(c)')
      BY <1>2, <1>5 DEF IInv, LogExact
    <2>2. \A a \in Tracked \ {c} : log'[a].requests = Cardinality(RequestsOf(a)')
      BY <1>2, <1>6 DEF IInv, LogExact, Tracked
    <2> QED
      BY <1>1, <1>3, <2>1, <2>2
  <1> QED
    BY <1>1, <1>3, <1>7, <1>8 DEF IInv, LogExact, Untracked

\* There is room: the address was never seen, because nothing is untracked.
LEMMA RecordNew ==
    ASSUME IInv, NEW r \in Requests, Enter(r),
           client[r] \notin Tracked, ~(Cardinality(Tracked) >= MaxTracked)
    PROVE  LogExact'
  <1> DEFINE c == client[r]
  <1>1. /\ untracked' = untracked /\ client' = client
        /\ log' = [log EXCEPT ![c] = [requests |-> @.requests + 1, lastSeen |-> stamp[r]]]
        /\ Recorded' = Recorded \union {r} /\ r \notin Recorded
    BY DEF Enter, Moves, Record, IInv, TypeOK, Recorded
  <1>2. c \in Addrs
    BY DEF Enter, Moves, IInv, TypeOK, GuardInv, NoAddr
  <1>3. Cardinality(Tracked) \in Nat /\ Cardinality(Tracked) < MaxTracked
    BY CountedFinite, FS_CardinalityType, MaxTrackedAssumption DEF IInv
  <1>4. untracked = 0
    BY <1>3 DEF IInv, LogExact, TypeOK, LogTypeOK
  <1>5. Untracked = {}
    BY <1>4, CountedFinite, FS_EmptySet DEF IInv, LogExact, Untracked
  <1>6. log[c].requests = 0
    BY <1>2 DEF Tracked, IInv, TypeOK, LogTypeOK
  <1>7. log'[c].requests = 1 /\ \A a \in Addrs \ {c} : log'[a] = log[a]
    BY <1>1, <1>2, <1>6 DEF IInv, TypeOK, LogTypeOK
  <1>8. Tracked' = Tracked \union {c}
    BY <1>2, <1>7 DEF Tracked
  <1>9. Cardinality(Tracked') = Cardinality(Tracked) + 1
    BY <1>8, CountedFinite, FS_AddElement DEF IInv
  <1>10. RequestsOf(c) = {}
    BY <1>5 DEF RequestsOf, Untracked
  <1>11. RequestsOf(c)' = {r}
    BY <1>1, <1>10 DEF RequestsOf
  <1>12. Cardinality(RequestsOf(c)') = 1
    BY <1>11, FS_Singleton
  <1>13. \A a \in Tracked : RequestsOf(a)' = RequestsOf(a)
    BY <1>1 DEF RequestsOf
  <1>14. \A a \in Tracked' : log'[a].requests = Cardinality(RequestsOf(a)')
    <2>1. \A a \in Tracked : log'[a].requests = Cardinality(RequestsOf(a)')
      BY <1>7, <1>13 DEF IInv, LogExact, Tracked
    <2> QED
      BY <1>1, <1>7, <1>8, <1>12, <2>1
  <1>15. Untracked' = {}
    BY <1>1, <1>5, <1>8 DEF Untracked
  <1>16. untracked' = Cardinality(Untracked')
    BY <1>1, <1>4, <1>15, FS_EmptySet
  <1> QED
    BY <1>1, <1>3, <1>4, <1>9, <1>14, <1>16, MaxTrackedAssumption DEF LogExact, Untracked

\* record keeps the log exact.
LEMMA EnterLogExact ==
    ASSUME IInv, NEW r \in Requests, Enter(r)
    PROVE  LogExact'
  BY RecordUntracked, RecordTracked, RecordNew

\* Every other step of a handler, and the arrival of a request.
LEMMA QuietLogExact ==
    ASSUME IInv, NEW r \in Requests,
           Arrive(r) \/ Stamp(r) \/ Block(r) \/ Forward(r) \/ Unreachable(r) \/ Finish(r) \/ Cut(r)
    PROVE  LogExact'
  <1>1. UNCHANGED <<log, untracked>> /\ Recorded' = Recorded
    BY DEF Arrive, Stamp, Block, Forward, Unreachable, Finish, Cut, Moves, logVars, Recorded, IInv, TypeOK
  <1>2. \A x \in Recorded : client'[x] = client[x]
    BY DEF Arrive, Stamp, Block, Forward, Unreachable, Finish, Cut, Moves, Recorded, IInv, TypeOK
  <1> QED
    BY <1>1, <1>2, LogFrame DEF IInv

-----------------------------------------------------------------------------
LEMMA InitIInv == Init => IInv
  <1>0. SUFFICES ASSUME Init PROVE IInv
    OBVIOUS
  <1>1. TypeOK
    BY <1>0 DEF Init, TypeOK, CtxInit, CtxStates, ProxyInit, ProxyTypeOK, LogInit, LogTypeOK, Steps, NoAddr
  <1>2. GuardInv
    BY <1>0 DEF Init, GuardInv
  <1>3. Tracked = {} /\ Recorded = {}
    BY <1>0 DEF Init, LogInit, Tracked, Recorded
  <1>4. LogExact
    BY <1>0, <1>3, FS_EmptySet, MaxTrackedAssumption DEF LogExact, Init, LogInit
  <1> QED
    BY <1>1, <1>2, <1>4 DEF IInv

LEMMA HandlerTypeOK ==
    ASSUME IInv, NEW r \in Requests, Arrive(r) \/ Handler(r) \/ Finish(r)
    PROVE  TypeOK' /\ GuardInv'
  <1> USE DEF IInv, TypeOK, GuardInv, ProxyTypeOK, LogTypeOK, proxyVars, logVars, Moves, Steps, NoAddr
  <1>1. CASE Arrive(r)
    BY <1>1, AddrsAssumption, AllowAssumption DEF Arrive
  <1>2. CASE Stamp(r)
    BY <1>2 DEF Stamp
  <1>3. CASE Enter(r)
    BY <1>3 DEF Enter, Record
  <1>4. CASE Block(r)
    BY <1>4 DEF Block
  <1>5. CASE Forward(r)
    BY <1>5 DEF Forward
  <1>6. CASE Unreachable(r)
    BY <1>6 DEF Unreachable
  <1>7. CASE Finish(r)
    BY <1>7 DEF Finish
  <1>8. CASE Cut(r)
    BY <1>8 DEF Cut
  <1> QED
    BY <1>1, <1>2, <1>3, <1>4, <1>5, <1>6, <1>7, <1>8 DEF Handler

\* The steps of the share change neither a request nor the log.
LEMMA ShareIInv ==
    ASSUME IInv, ShareBegins \/ ShareStops \/ ProxySteps \/ UNCHANGED vars
    PROVE  IInv'
  <1>1. UNCHANGED <<logVars, reqVars>>
    BY DEF ShareBegins, ShareStops, ProxySteps, vars
  <1>2. LogExact' /\ GuardInv'
    BY <1>1, LogFrame DEF IInv, logVars, reqVars, Recorded, GuardInv
  <1>3. ctx' \in CtxStates /\ ProxyTypeOK'
    <2> USE DEF IInv, TypeOK, ProxyTypeOK, CtxStates
    <2>1. CASE ShareBegins
      BY <2>1 DEF ShareBegins, CtxCreate, ProxyStart
    <2>2. CASE ShareStops
      BY <2>2 DEF ShareStops, CtxCancel, CtxDeadline, proxyVars
    <2>3. CASE ProxySteps
      BY <2>3 DEF ProxySteps, ProxyNext, HookFires, CloseServer, ServeBegins, ServeClosed, AcceptFails, ServeDefers
    <2>4. CASE UNCHANGED vars
      BY <2>4 DEF vars, proxyVars
    <2> QED
      BY <2>1, <2>2, <2>3, <2>4
  <1>4. TypeOK'
    BY <1>1, <1>3 DEF IInv, TypeOK, LogTypeOK, logVars, reqVars
  <1> QED
    BY <1>2, <1>4 DEF IInv

LEMMA NextIInv == IInv /\ [Next]_vars => IInv'
  <1>0. SUFFICES ASSUME IInv, [Next]_vars PROVE IInv'
    OBVIOUS
  <1>1. CASE ShareBegins \/ ShareStops \/ ProxySteps \/ Terminated \/ UNCHANGED vars
    BY <1>0, <1>1, ShareIInv DEF Terminated
  <1>2. ASSUME NEW r \in Requests, Arrive(r) \/ Handler(r) \/ Finish(r) PROVE IInv'
    BY <1>0, <1>2, HandlerTypeOK, EnterLogExact, QuietLogExact DEF IInv, Handler
  <1> QED
    BY <1>0, <1>1, <1>2 DEF Next

\* IInv holds in every state of every behaviour.
THEOREM Invariance == Spec => []IInv
  BY InitIInv, NextIInv, PTL DEF Spec

\* Every variable keeps its type.
THEOREM TypeCorrect == Spec => []TypeOK
  <1>1. IInv => TypeOK
    BY DEF IInv
  <1> QED
    BY <1>1, Invariance, PTL

\* The log accounts for every request exactly once, for any number of
\* requests and addresses and any limit (access.go:27-44).
THEOREM LogExactCorrect == Spec => []LogExact
  <1>1. IInv => LogExact
    BY DEF IInv
  <1> QED
    BY <1>1, Invariance, PTL

\* Only allowed addresses reach the service, and whoever does is in the log
\* (guard.go:24-31).
THEOREM OnlyAllowedServedCorrect == Spec => []OnlyAllowedServed
  <1>1. IInv => OnlyAllowedServed
    <2>0. SUFFICES ASSUME IInv, NEW r \in Requests, req[r] \in {"forwarding", "served"}
                   PROVE  client[r] \in Allow /\ (client[r] \in Tracked \/ untracked > 0)
      BY DEF OnlyAllowedServed
    <2>1. client[r] \in Allow
      BY <2>0 DEF IInv, GuardInv
    <2>2. ASSUME client[r] \notin Tracked PROVE untracked > 0
      <3>1. r \in Untracked
        BY <2>0, <2>2 DEF Untracked, Recorded
      <3>2. Cardinality(Untracked) # 0
        BY <2>0, <3>1, CountedFinite, FS_EmptySet DEF IInv
      <3> QED
        BY <2>0, <3>2 DEF IInv, LogExact, Untracked, TypeOK, LogTypeOK
    <2> QED
      BY <2>1, <2>2
  <1> QED
    BY <1>1, Invariance, PTL

-----------------------------------------------------------------------------
(***************************************************************************)
(* What a request that is under way rests on.                              *)
(***************************************************************************)

\* Once the context of the share is done it stays so, no exchange begins, and
\* each that is under way can be cut.
CutStep ==
    CtxDone =>
        /\ CtxDone'
        /\ \A r \in Requests : req'[r] = "forwarding" => req[r] = "forwarding" /\ ReqDone(r)

CutsOff == [][CutStep]_vars

\* After the share was stopped or has expired, no request is forwarded any
\* more, upgraded or not, and the guard of Cut holds for each that still is:
\* the part of CutOff that needs no fairness (proxy.go:62).
THEOREM CutsOffCorrect == Spec => CutsOff
  <1>1. ASSUME IInv, CtxDone, [Next]_vars PROVE CtxDone'
    BY <1>1 DEF CtxDone, vars, Next, ShareBegins, CtxCreate, ShareStops, CtxCancel, CtxDeadline, ProxySteps, Terminated,
       Arrive, Handler, Stamp, Enter, Block, Forward, Unreachable, Finish, Cut
  <1>2. ASSUME IInv, CtxDone, [Next]_vars, NEW r \in Requests, req'[r] = "forwarding" PROVE req[r] = "forwarding"
    <2>1. CASE ShareBegins \/ ShareStops \/ ProxySteps \/ Terminated \/ UNCHANGED vars
      BY <1>2, <2>1 DEF ShareBegins, ShareStops, ProxySteps, Terminated, vars, reqVars
    <2>2. ASSUME NEW x \in Requests, Arrive(x) \/ Handler(x) \/ Finish(x) PROVE req[r] = "forwarding"
      BY <1>2, <2>2 DEF IInv, TypeOK, Arrive, Handler, Stamp, Enter, Block, Forward, Unreachable, Finish, Cut, Moves, ReqDone
    <2> QED
      BY <1>2, <2>1, <2>2 DEF Next
  <1>3. IInv /\ [Next]_vars => [CutStep]_vars
    BY <1>1, <1>2 DEF CutStep, ReqDone
  <1> QED
    BY <1>3, Invariance, PTL DEF Spec, CutsOff

-----------------------------------------------------------------------------
(***************************************************************************)
(* Liveness.  No prover here reasons about ENABLED, so that the handler    *)
(* can take a step whenever it has an exchange to cut is a hypothesis.     *)
(***************************************************************************)
CanCut(r) == CtxDone /\ req[r] = "forwarding" => ENABLED <<Handler(r)>>_vars

\* A handler that is forwarding has one step to take: Cut.
LEMMA CutOffOne ==
    ASSUME NEW r \in Requests
    PROVE  Spec /\ []CanCut(r) /\ HandlerFair(r) => (CtxDone ~> [](req[r] # "forwarding"))
  <1> DEFINE Off == req[r] # "forwarding"
  <1>1. CutStep => (CtxDone => CtxDone') /\ (CtxDone /\ Off => Off')
    BY DEF CutStep
  <1>2. UNCHANGED vars => (CtxDone => CtxDone') /\ (Off => Off')
    BY DEF vars, reqVars, CtxDone
  <1>3. IInv /\ ~Off /\ <<Handler(r)>>_vars => Off'
    BY DEF IInv, TypeOK, Handler, Stamp, Enter, Block, Forward, Unreachable, Cut, Moves
  <1>4. CanCut(r) => (CtxDone /\ ~Off => ENABLED <<Handler(r)>>_vars)
    BY DEF CanCut
  <1>5. Spec /\ []CanCut(r) /\ HandlerFair(r) => (CtxDone ~> []Off)
    <2> HIDE DEF Off
    <2> QED
      BY <1>1, <1>2, <1>3, <1>4, CutsOffCorrect, Invariance, PTL DEF CutsOff, HandlerFair
  <1> QED
    BY <1>5, PTL DEF Off

\* When the context of the share is done, every exchange with the service ends
\* for good, however many requests there are, whether they were upgraded, and
\* whatever the proxy does (proxy.go:62).
THEOREM CutOffCorrect == LiveSpec /\ [](\A r \in Requests : CanCut(r)) => CutOff
  <1> DEFINE CanCutAll == \A r \in Requests : CanCut(r)
  <1>1. ASSUME NEW r \in Requests PROVE LiveSpec /\ []CanCutAll => (CtxDone ~> [](req[r] # "forwarding"))
    <2>1. LiveSpec => Spec /\ HandlerFair(r)
      BY DEF LiveSpec
    <2>2. CanCutAll => CanCut(r)
      OBVIOUS
    <2> QED
      BY <2>1, <2>2, CutOffOne, PTL
  <1> QED
    BY <1>1 DEF CutOff

-----------------------------------------------------------------------------
\* The time the log has for an address is that of one of its requests.
LastSeenReal == \A a \in Tracked : \E r \in RequestsOf(a) : log[a].lastSeen = stamp[r]

LEMMA NextLastSeen == IInv /\ LastSeenReal /\ [Next]_vars => LastSeenReal'
  <1> SUFFICES ASSUME IInv, LastSeenReal, [Next]_vars PROVE LastSeenReal'
    OBVIOUS
  <1>1. CASE ShareBegins \/ ShareStops \/ ProxySteps \/ Terminated \/ UNCHANGED vars
    BY <1>1 DEF ShareBegins, ShareStops, ProxySteps, Terminated, vars, logVars, reqVars, LastSeenReal, Tracked, RequestsOf, Recorded
  <1>2. ASSUME NEW r \in Requests, Arrive(r) \/ Stamp(r) \/ Block(r) \/ Forward(r) \/ Unreachable(r) \/ Finish(r) \/ Cut(r)
        PROVE  LastSeenReal'
    <2>1. UNCHANGED log /\ Recorded' = Recorded /\ \A x \in Recorded : client'[x] = client[x] /\ stamp'[x] = stamp[x]
      BY <1>2 DEF IInv, TypeOK, Arrive, Stamp, Block, Forward, Unreachable, Finish, Cut, Moves, logVars, Recorded
    <2>2. Tracked' = Tracked /\ \A a : RequestsOf(a)' = RequestsOf(a)
      BY <2>1 DEF Tracked, RequestsOf
    <2>3. \A a : RequestsOf(a) \subseteq Recorded
      BY DEF RequestsOf
    <2> QED
      BY <2>1, <2>2, <2>3 DEF LastSeenReal
  <1>3. ASSUME NEW r \in Requests, Enter(r) PROVE LastSeenReal'
    <2>1. /\ UNCHANGED <<client, stamp>> /\ Recorded' = Recorded \union {r}
          /\ client[r] \in Addrs
      BY <1>3 DEF IInv, TypeOK, GuardInv, NoAddr, Enter, Moves, Recorded
    <2>2. \A a : RequestsOf(a) \subseteq RequestsOf(a)'
      BY <2>1 DEF RequestsOf
    <2>3. r \in RequestsOf(client[r])'
      BY <2>1 DEF RequestsOf
    <2>4. CASE UNCHANGED log
      BY <2>1, <2>2, <2>4 DEF LastSeenReal, Tracked
    <2>5. CASE log' = [log EXCEPT ![client[r]] = [requests |-> @.requests + 1, lastSeen |-> stamp[r]]]
      <3>1. log'[client[r]].lastSeen = stamp'[r] /\ \A a \in Addrs \ {client[r]} : log'[a] = log[a]
        BY <2>1, <2>5 DEF IInv, TypeOK, LogTypeOK
      <3>2. \A a \in Tracked' \ {client[r]} : a \in Tracked
        BY <3>1 DEF Tracked
      <3>3. \A a \in Tracked' : a \in Addrs
        BY DEF Tracked
      <3> QED
        BY <2>1, <2>2, <2>3, <3>1, <3>2, <3>3 DEF LastSeenReal
    <2> QED
      BY <1>3, <2>4, <2>5 DEF Enter, Record
  <1> QED
    BY <1>1, <1>2, <1>3 DEF Next, Handler

\* The time the access screen shows for an address is the time of a request of
\* that address, though it need not be the latest (access.go:27-44).
THEOREM LastSeenRealCorrect == Spec => []LastSeenReal
  <1>1. Init => LastSeenReal
    BY DEF Init, LogInit, LastSeenReal, Tracked
  <1> QED
    BY <1>1, NextLastSeen, Invariance, PTL DEF Spec
=============================================================================
