---------------------------- MODULE ShareProofs ----------------------------
(***************************************************************************)
(* Proofs about module Share: the inductive invariant, the safety          *)
(* properties it implies, that a share implements ShareContract, and why   *)
(* it comes to an end.  Each conjunct of the invariant has a lemma of its  *)
(* own: first the steps that can disturb it, then the steps that leave its *)
(* variables alone.                                                        *)
(***************************************************************************)
EXTENDS Share, Naturals, TLAPS

USE DEF vars, proxyVars, tunnelVars, shareVars

\* The steps of the call of Start, expanded.
LEMMA StartNextDef ==
    StartNext <=> \/ StartCalled \/ ListenFails \/ Listens \/ OpenBegins
                  \/ OpenFailed \/ StartFails \/ StartSucceeds
  BY Zenon DEF StartNext

\* Every variable keeps its type in every step.
LEMMA NextTypeOK == TypeOK /\ [Next]_vars => TypeOK'
  <1> USE DEF TypeOK, ProxyTypeOK, TunnelTypeOK, CtxStates, EndErrs
  <1>1. TypeOK /\ StartCalled => TypeOK'
    BY Zenon DEF StartCalled, CtxCreate
  <1>2. TypeOK /\ ListenFails => TypeOK'
    BY Zenon DEF ListenFails, CtxCancel
  <1>3. TypeOK /\ Listens => TypeOK'
    BY Zenon DEF Listens, ProxyStart
  <1>4. TypeOK /\ OpenBegins => TypeOK'
    BY Zenon DEF OpenBegins, Launch, OpenFailsEarly
  <1>5. TypeOK /\ OpenFailed => TypeOK'
    BY Zenon DEF OpenFailed, CtxCancel
  <1>6. TypeOK /\ StartFails => TypeOK'
    BY Zenon DEF StartFails
  <1>7. TypeOK /\ StartSucceeds => TypeOK'
    BY Zenon DEF StartSucceeds
  <1>8. TypeOK /\ SuperviseNext => TypeOK'
    BY ZenonT(30) DEF SuperviseNext, WatchTunnel, SupProxy, SupEnd, EndReason, CtxCancel
  <1>9. TypeOK /\ (Stop \/ Expire) => TypeOK'
    BY ZenonT(30) DEF Stop, Expire, CtxCancel, CtxDeadline
  <1>10. TypeOK /\ ProxySteps => TypeOK'
    BY ZenonT(30) DEF ProxySteps, ProxyNext, HookFires, CloseServer, ServeBegins, ServeClosed, AcceptFails, ServeDefers
  <1>11. TypeOK /\ ProcSteps => TypeOK'
    BY ZenonT(30) DEF ProcSteps, ProcNext, ProcReady, ProcExits, ProcKilled
  <1>12. TypeOK /\ WaiterSteps => TypeOK'
    BY ZenonT(30) DEF WaiterSteps, WaiterNext, WaiterChecks, WaiterStops, WaiterCloses
  <1>13. TypeOK /\ AwaitSteps => TypeOK'
    BY ZenonT(30) DEF AwaitSteps, AwaitNext, PollAnswered, OpenReturns, AwaitGivesUp, OpenReaps
  <1>14. TypeOK /\ (Terminated \/ UNCHANGED vars) => TypeOK'
    BY Zenon DEF Terminated
  <1> QED
    BY <1>1, <1>2, <1>3, <1>4, <1>5, <1>6, <1>7, <1>8, <1>9, <1>10, <1>11, <1>12, <1>13, <1>14, StartNextDef, Zenon DEF Next

\* The proxy's own steps, and Start creating it, keep its parts together.
LEMMA NextProxyInv == IInv /\ [Next]_vars => ProxyInv'
  <1>0. SUFFICES ASSUME IInv, [Next]_vars PROVE ProxyInv'
    OBVIOUS
  <1> USE DEF ProxyInv, ServerClosed, CtxDone
  <1>1. CASE ProxySteps
    BY <1>0, <1>1 DEF IInv, TypeOK, ProxyTypeOK, ProxySteps, ProxyNext, HookFires, CloseServer, ServeBegins, ServeClosed, AcceptFails, ServeDefers
  <1>2. CASE Listens
    BY <1>0, <1>2 DEF IInv, TypeOK, ProxyTypeOK, Listens, ProxyStart
  <1>3. CASE StartCalled \/ ListenFails \/ OpenBegins \/ OpenFailed \/ StartFails \/ StartSucceeds
    BY <1>0, <1>3 DEF IInv, StartCalled, ListenFails, OpenBegins, OpenFailed, StartFails, StartSucceeds, CtxCreate, CtxCancel
  <1>4. CASE SuperviseNext \/ Stop \/ Expire
    BY <1>0, <1>4 DEF IInv, SuperviseNext, WatchTunnel, SupProxy, SupEnd, Stop, Expire, CtxCancel, CtxDeadline
  <1>5. CASE ProcSteps \/ WaiterSteps \/ AwaitSteps \/ Terminated \/ UNCHANGED vars
    BY <1>0, <1>5 DEF IInv, ProcSteps, WaiterSteps, AwaitSteps, Terminated
  <1> QED
    BY <1>0, <1>1, <1>2, <1>3, <1>4, <1>5, StartNextDef, Zenon DEF Next

\* The process, its waiter and the call of Open keep together.
LEMMA NextTunnelInv == IInv /\ [Next]_vars => TunnelInv'
  <1>0. SUFFICES ASSUME IInv, [Next]_vars PROVE TunnelInv'
    OBVIOUS
  <1> USE DEF TunnelInv, Abandoned, RunDone, CtxDone, ProcDead
  <1>1. CASE ProcSteps
    BY <1>0, <1>1 DEF IInv, ProcSteps, ProcNext, ProcReady, ProcExits, ProcKilled, ProcAlive
  <1>2. CASE WaiterSteps
    BY <1>0, <1>2 DEF IInv, WaiterSteps, WaiterNext, WaiterChecks, WaiterStops, WaiterCloses
  <1>3. CASE AwaitSteps
    BY <1>0, <1>3 DEF IInv, AwaitSteps, AwaitNext, PollAnswered, OpenReturns, AwaitGivesUp, OpenReaps
  <1>4. CASE OpenBegins
    BY <1>0, <1>4 DEF IInv, OpenBegins, Launch, OpenFailsEarly
  <1>5. CASE StartCalled \/ ListenFails \/ Listens \/ OpenFailed \/ StartFails \/ StartSucceeds
    BY <1>0, <1>5 DEF IInv, StartCalled, ListenFails, Listens, OpenFailed, StartFails, StartSucceeds, CtxCreate, CtxCancel
  <1>6. CASE SuperviseNext \/ Stop \/ Expire
    BY <1>0, <1>6 DEF IInv, SuperviseNext, WatchTunnel, SupProxy, SupEnd, Stop, Expire, CtxCancel, CtxDeadline
  <1>7. CASE ProxySteps \/ Terminated \/ UNCHANGED vars
    BY <1>0, <1>7 DEF IInv, ProxySteps, Terminated
  <1> QED
    BY <1>0, <1>1, <1>2, <1>3, <1>4, <1>5, <1>6, <1>7, StartNextDef, Zenon DEF Next

\* What exists fits the progress of Start.
LEMMA NextStartInv == IInv /\ [Next]_vars => StartInv'
  <1>0. SUFFICES ASSUME IInv, [Next]_vars PROVE StartInv'
    OBVIOUS
  <1> USE DEF StartInv, CtxDone
  <1>1. CASE StartCalled \/ ListenFails \/ Listens
    BY <1>0, <1>1 DEF IInv, StartCalled, ListenFails, Listens, CtxCreate, CtxCancel, ProxyStart
  <1>2. CASE OpenBegins
    BY <1>0, <1>2 DEF IInv, OpenBegins, Launch, OpenFailsEarly
  <1>3. CASE OpenFailed \/ StartFails \/ StartSucceeds
    BY <1>0, <1>3 DEF IInv, TypeOK, CtxStates, OpenFailed, StartFails, StartSucceeds, CtxCancel, ProxyServed
  <1>4. CASE SuperviseNext \/ Stop \/ Expire
    BY <1>0, <1>4 DEF IInv, SuperviseInv, SuperviseNext, WatchTunnel, SupProxy, SupEnd, Stop, Expire, CtxCancel, CtxDeadline
  <1>5. CASE ProxySteps
    BY <1>0, <1>5 DEF IInv, ProxySteps, ProxyNext, HookFires, CloseServer, ServeBegins, ServeClosed, AcceptFails, ServeDefers
  <1>6. CASE AwaitSteps
    BY <1>0, <1>6 DEF IInv, AwaitSteps, AwaitNext, PollAnswered, OpenReturns, AwaitGivesUp, OpenReaps
  <1>7. CASE ProcSteps \/ WaiterSteps \/ Terminated \/ UNCHANGED vars
    BY <1>0, <1>7 DEF IInv, ProcSteps, ProcNext, ProcReady, ProcExits, ProcKilled, WaiterSteps, WaiterNext, WaiterChecks, WaiterStops, WaiterCloses, Terminated
  <1> QED
    BY <1>0, <1>1, <1>2, <1>3, <1>4, <1>5, <1>6, <1>7, StartNextDef, Zenon DEF Next

\* The goroutines of supervise are no further than what they wait for.
LEMMA NextSuperviseInv == IInv /\ [Next]_vars => SuperviseInv'
  <1>0. SUFFICES ASSUME IInv, [Next]_vars PROVE SuperviseInv'
    OBVIOUS
  <1> USE DEF SuperviseInv, CtxDone, TunnelExited, ProxyServed, HasEnded
  <1>1. CASE SuperviseNext
    BY <1>0, <1>1 DEF IInv, StartInv, TypeOK, CtxStates, SuperviseNext, WatchTunnel, SupProxy, SupEnd, EndReason, CtxCancel
  <1>2. CASE StartCalled \/ ListenFails \/ Listens \/ OpenBegins
    BY <1>0, <1>2 DEF IInv, StartInv, StartCalled, ListenFails, Listens, OpenBegins, Launch, OpenFailsEarly, CtxCreate, CtxCancel, ProxyStart
  <1>3. CASE OpenFailed \/ StartFails \/ StartSucceeds
    BY <1>0, <1>3 DEF IInv, StartInv, OpenFailed, StartFails, StartSucceeds, CtxCancel
  <1>4. CASE Stop \/ Expire
    BY <1>0, <1>4 DEF IInv, Stop, Expire, CtxCancel, CtxDeadline
  <1>5. CASE ProxySteps
    BY <1>0, <1>5 DEF IInv, ProxySteps, ProxyNext, HookFires, CloseServer, ServeBegins, ServeClosed, AcceptFails, ServeDefers
  <1>6. CASE WaiterSteps
    BY <1>0, <1>6 DEF IInv, WaiterSteps, WaiterNext, WaiterChecks, WaiterStops, WaiterCloses
  <1>7. CASE ProcSteps \/ AwaitSteps \/ Terminated \/ UNCHANGED vars
    BY <1>0, <1>7 DEF IInv, ProcSteps, ProcNext, ProcReady, ProcExits, ProcKilled, AwaitSteps, AwaitNext, PollAnswered, OpenReturns, AwaitGivesUp, OpenReaps, Terminated
  <1> QED
    BY <1>0, <1>1, <1>2, <1>3, <1>4, <1>5, <1>6, <1>7, StartNextDef, Zenon DEF Next

\* Whoever cancels the context of a started share has a reason that
\* supervise will report: this is where both halves' stop() calls are covered.
LEMMA NextCancelCause == IInv /\ [Next]_vars => CancelCause'
  <1>0. SUFFICES ASSUME IInv, [Next]_vars PROVE CancelCause'
    OBVIOUS
  <1> USE DEF CancelCause
  <1>1. CASE WatchTunnel
    BY <1>0, <1>1 DEF IInv, StartInv, TunnelInv, Abandoned, CtxDone, TunnelExited, WatchTunnel, CtxCancel
  <1>2. CASE SupProxy
    BY <1>0, <1>2 DEF IInv, ProxyInv, ProxyServed, CtxDone, SupProxy, CtxCancel
  <1>3. CASE SupEnd \/ Stop \/ Expire
    BY <1>0, <1>3 DEF IInv, SupEnd, Stop, Expire, CtxCancel, CtxDeadline
  <1>4. CASE StartCalled \/ ListenFails \/ Listens \/ OpenBegins \/ OpenFailed \/ StartFails \/ StartSucceeds
    BY <1>0, <1>4 DEF IInv, StartInv, StartCalled, ListenFails, Listens, OpenBegins, OpenFailed, StartFails, StartSucceeds
  <1>5. CASE ProxySteps
    BY <1>0, <1>5 DEF IInv, ProxySteps, ProxyNext, HookFires, CloseServer, ServeBegins, ServeClosed, AcceptFails, ServeDefers
  <1>6. CASE WaiterSteps
    BY <1>0, <1>6 DEF IInv, TunnelInv, WaiterSteps, WaiterNext, WaiterChecks, WaiterStops, WaiterCloses
  <1>7. CASE ProcSteps \/ AwaitSteps \/ Terminated \/ UNCHANGED vars
    BY <1>0, <1>7 DEF IInv, ProcSteps, ProcNext, ProcReady, ProcExits, ProcKilled, AwaitSteps, AwaitNext, PollAnswered, OpenReturns, AwaitGivesUp, OpenReaps, Terminated
  <1> QED
    BY <1>0, <1>1, <1>2, <1>3, <1>4, <1>5, <1>6, <1>7, StartNextDef, Zenon DEF Next, SuperviseNext

\* The reason is right when it is given, and what it refers to is final.
LEMMA NextEndReasonTrue == IInv /\ [Next]_vars => EndReasonTrue'
  <1>0. SUFFICES ASSUME IInv, [Next]_vars PROVE EndReasonTrue'
    OBVIOUS
  <1> USE DEF EndReasonTrue, HasEnded
  <1>1. CASE SupEnd
    BY <1>0, <1>1 DEF IInv, SuperviseInv, CancelCause, TunnelInv, CtxDone, TypeOK, ProxyTypeOK, SupEnd, EndReason
  <1>2. CASE WatchTunnel \/ SupProxy \/ Stop \/ Expire
    BY <1>0, <1>2 DEF IInv, SuperviseInv, CtxDone, WatchTunnel, SupProxy, Stop, Expire, CtxCancel, CtxDeadline
  <1>3. CASE StartNext
    BY <1>0, <1>3 DEF IInv, SuperviseInv, StartNext, StartCalled, ListenFails, Listens, OpenBegins, OpenFailed, StartFails, StartSucceeds
  <1>4. CASE ProxySteps
    BY <1>0, <1>4 DEF IInv, ProxySteps, ProxyNext, HookFires, CloseServer, ServeBegins, ServeClosed, AcceptFails, ServeDefers
  <1>5. CASE ProcSteps
    BY <1>0, <1>5 DEF IInv, SuperviseInv, TunnelInv, TunnelExited, ProcDead, ProcAlive, ProcSteps, ProcNext, ProcReady, ProcExits, ProcKilled
  <1>6. CASE WaiterSteps \/ AwaitSteps \/ Terminated \/ UNCHANGED vars
    BY <1>0, <1>6 DEF IInv, WaiterSteps, WaiterNext, WaiterChecks, WaiterStops, WaiterCloses, AwaitSteps, AwaitNext, PollAnswered, OpenReturns, AwaitGivesUp, OpenReaps, Terminated
  <1> QED
    BY <1>0, <1>1, <1>2, <1>3, <1>4, <1>5, <1>6, Zenon DEF Next, SuperviseNext

-----------------------------------------------------------------------------
\* A share that has not been started satisfies the invariant.
LEMMA InitIInv == Init => IInv
  <1>1. Init => TypeOK
    BY Zenon DEF Init, CtxInit, ProxyInit, TunnelInit, TypeOK, ProxyTypeOK, TunnelTypeOK, CtxStates, EndErrs
  <1>2. Init => ProxyInv /\ TunnelInv
    BY DEF Init, CtxInit, ProxyInit, TunnelInit, ProxyInv, TunnelInv, CtxDone, ServerClosed, Abandoned, ProcDead
  <1>3. Init => StartInv /\ SuperviseInv /\ CancelCause /\ EndReasonTrue
    BY DEF Init, CtxInit, ProxyInit, TunnelInit, StartInv, SuperviseInv, CancelCause, EndReasonTrue, HasEnded
  <1> QED
    BY <1>1, <1>2, <1>3 DEF IInv

\* Every step of a share preserves the invariant.
LEMMA NextIInv == IInv /\ [Next]_vars => IInv'
  BY NextTypeOK, NextProxyInv, NextTunnelInv, NextStartInv, NextSuperviseInv, NextCancelCause, NextEndReasonTrue, Zenon DEF IInv

\* The invariant holds in every state of a share.
THEOREM Invariance == Spec => []IInv
  BY InitIInv, NextIInv, PTL DEF Spec

\* Every variable keeps its type (share.go, proxy.go, cloudflared.go).
THEOREM TypeCorrect == Spec => []TypeOK
  <1>1. IInv => TypeOK
    BY Zenon DEF IInv
  <1> QED
    BY <1>1, Invariance, PTL

\* What Wait returns is why the share ended (share.go:97-98).
THEOREM EndReasonCorrect == Spec => []EndReasonTrue
  <1>1. IInv => EndReasonTrue
    BY Zenon DEF IInv
  <1> QED
    BY <1>1, Invariance, PTL

\* In a state of the invariant, a share that failed or ended exposes nothing.
LEMMA IInvNothingLeft == IInv => NothingLeftBehind
  BY DEF IInv, TypeOK, ProxyTypeOK, TunnelTypeOK, ProxyInv, TunnelInv, StartInv, SuperviseInv, NothingLeftBehind, HasEnded, ProcAlive, ProcDead, TunnelExited, ProxyServed

\* After an error of Start and after Wait, neither the listener nor the
\* process exists (share.go:56-64, share.go:104-116).
THEOREM NothingLeftCorrect == Spec => []NothingLeftBehind
  BY IInvNothingLeft, Invariance, PTL

-----------------------------------------------------------------------------
(***************************************************************************)
(* A share implements ShareContract: every step of module Share is a step  *)
(* of the contract, or leaves what the contract shows as it is.            *)
(***************************************************************************)

\* What the contract shows of the share stays, but for what the flags allow.
SameExcept(phaseToo, exposedToo, resultToo) ==
    /\ phaseToo \/ Phase' = Phase
    /\ exposedToo \/ (Exposed' <=> Exposed)
    /\ stopCall' = stopCall
    /\ resultToo \/ Result' = Result

\* What a step has to do to be one of the contract's actions.
LEMMA Stutter ==
    ASSUME SameExcept(FALSE, FALSE, FALSE)
    PROVE  UNCHANGED Contract!contractVars
  BY DEF SameExcept, Contract!contractVars

LEMMA IsStartShare ==
    ASSUME Phase = "idle", Phase' = "opening", SameExcept(TRUE, FALSE, FALSE)
    PROVE  Contract!Next
  <1>1. Contract!StartShare("me")
    BY DEF SameExcept, Contract!StartShare, Me
  <1> QED
    BY <1>1 DEF Contract!Next, Me

LEMMA IsExpose ==
    ASSUME Phase = "opening", ~Exposed, Exposed', SameExcept(FALSE, TRUE, FALSE)
    PROVE  Contract!Next
  <1>1. Contract!Expose("me")
    BY DEF SameExcept, Contract!Expose, Me
  <1> QED
    BY <1>1 DEF Contract!Next, Me

LEMMA IsWithdraw ==
    ASSUME Exposed, ~Exposed', SameExcept(FALSE, TRUE, FALSE)
    PROVE  Contract!Next
  <1>1. Contract!Withdraw("me")
    BY DEF SameExcept, Contract!Withdraw, Me
  <1> QED
    BY <1>1 DEF Contract!Next, Me

LEMMA IsFailStart ==
    ASSUME Phase = "opening", ~Exposed, Phase' = "failed", SameExcept(TRUE, FALSE, FALSE)
    PROVE  Contract!Next
  <1>1. Contract!FailStart("me")
    BY DEF SameExcept, Contract!FailStart, Me
  <1> QED
    BY <1>1 DEF Contract!Next, Me

LEMMA IsFinishStart ==
    ASSUME Phase = "opening", Phase' = "running", SameExcept(TRUE, FALSE, FALSE)
    PROVE  Contract!Next
  <1>1. Contract!FinishStart("me")
    BY DEF SameExcept, Contract!FinishStart, Me
  <1> QED
    BY <1>1 DEF Contract!Next, Me

LEMMA IsStop ==
    ASSUME Phase \in {"running", "ended"}, stopCall' = "made", Phase' = Phase, Exposed' <=> Exposed, Result' = Result
    PROVE  Contract!Next
  <1>1. Contract!Stop(Me)
    BY DEF Contract!Stop, Me
  <1> QED
    BY <1>1 DEF Contract!Next

LEMMA IsEnd ==
    ASSUME Phase = "running", ~Exposed, Phase' = "ended",
           Result' \in {"stopped", "expired", "lost"},
           Result' = "stopped" => stopCall = "made",
           SameExcept(TRUE, FALSE, TRUE)
    PROVE  Contract!Next
  <1>1. Contract!End("me", Result')
    BY DEF SameExcept, Contract!End, Me
  <1>2. Result' \in Contract!Results \ {"none"}
    BY DEF Contract!Results
  <1> QED
    BY <1>1, <1>2 DEF Contract!Next, Me

\* The call of Start, seen from outside.
LEMMA StartNextContract ==
    IInv /\ IInv' /\ StartNext => Contract!Next \/ UNCHANGED Contract!contractVars
  <1>0. SUFFICES ASSUME IInv, IInv', StartNext
                 PROVE  Contract!Next \/ UNCHANGED Contract!contractVars
    OBVIOUS
  <1> USE DEF Phase, Exposed, Result, HasEnded, ProcAlive, SameExcept
  <1>1. CASE StartCalled
    BY <1>0, <1>1, IsStartShare DEF StartCalled
  <1>2. CASE ListenFails
    <2>1. ~Exposed
      BY <1>0, <1>2 DEF IInv, StartInv, ProxyInv, TunnelInv, ListenFails
    <2> QED
      BY <1>2, <2>1, IsFailStart DEF ListenFails
  <1>3. CASE Listens
    <2>1. ~Exposed
      BY <1>0, <1>3 DEF IInv, StartInv, ProxyInv, TunnelInv, Listens
    <2> QED
      BY <1>3, <2>1, IsExpose DEF Listens, ProxyStart
  <1>4. CASE OpenBegins
    <2>1. ~ProcAlive
      BY <1>0, <1>4 DEF IInv, TunnelInv, OpenBegins, Launch, OpenFailsEarly
    <2>2. CASE listener = "open"
      BY <1>4, <2>2, Stutter DEF OpenBegins, Launch, OpenFailsEarly
    <2>3. CASE listener # "open" /\ Launch
      BY <1>4, <2>1, <2>3, IsExpose DEF OpenBegins, Launch
    <2>4. CASE listener # "open" /\ OpenFailsEarly
      BY <1>4, <2>4, Stutter DEF OpenBegins, OpenFailsEarly
    <2> QED
      BY <1>4, <2>2, <2>3, <2>4 DEF OpenBegins
  <1>5. CASE OpenFailed
    BY <1>5, Stutter DEF OpenFailed
  <1>6. CASE StartFails
    <2>1. ~Exposed
      BY <1>0, <1>6 DEF IInv, StartInv, ProxyInv, TunnelInv, ProcDead, ProxyServed, StartFails
    <2> QED
      BY <1>6, <2>1, IsFailStart DEF StartFails
  <1>7. CASE StartSucceeds
    BY <1>7, IsFinishStart DEF StartSucceeds
  <1> QED
    BY <1>0, <1>1, <1>2, <1>3, <1>4, <1>5, <1>6, <1>7, StartNextDef

\* The goroutines of a running share, seen from outside: only the last step
\* of supervise shows.
LEMMA SuperviseNextContract ==
    IInv /\ IInv' /\ SuperviseNext => Contract!Next \/ UNCHANGED Contract!contractVars
  <1>0. SUFFICES ASSUME IInv, IInv', SuperviseNext
                 PROVE  Contract!Next \/ UNCHANGED Contract!contractVars
    OBVIOUS
  <1> USE DEF Phase, Exposed, Result, HasEnded, ProcAlive, SameExcept
  <1>1. CASE WatchTunnel \/ SupProxy
    BY <1>1, Stutter DEF WatchTunnel, SupProxy
  <1>2. CASE SupEnd
    <2>1. start = "started"
      BY <1>0, <1>2 DEF IInv, SuperviseInv, SupEnd
    <2>2. ~Exposed
      BY <1>0, <1>2 DEF IInv, SuperviseInv, ProxyInv, TunnelInv, ProcDead, ProxyServed, TunnelExited, SupEnd
    <2>3. endErr' = "stopped" => stopCall = "made"
      BY <1>0, <1>2 DEF IInv, EndReasonTrue, SupEnd
    <2> QED
      BY <1>2, <2>1, <2>2, <2>3, IsEnd DEF SupEnd, EndReason
  <1> QED
    BY <1>0, <1>1, <1>2 DEF SuperviseNext

\* The rest of the system, seen from outside: what is exposed may go away.
LEMMA OtherNextContract ==
    IInv /\ (Stop \/ Expire \/ ProxySteps \/ ProcSteps \/ WaiterSteps \/ AwaitSteps)
        => Contract!Next \/ UNCHANGED Contract!contractVars
  <1>0. SUFFICES ASSUME IInv, Stop \/ Expire \/ ProxySteps \/ ProcSteps \/ WaiterSteps \/ AwaitSteps
                 PROVE  Contract!Next \/ UNCHANGED Contract!contractVars
    OBVIOUS
  <1> USE DEF Phase, Exposed, Result, HasEnded, ProcAlive, SameExcept
  <1>1. CASE Stop
    BY <1>1, IsStop DEF Stop
  <1>2. CASE Expire \/ WaiterSteps \/ AwaitSteps
    BY <1>2, Stutter DEF Expire, WaiterSteps, WaiterNext, WaiterChecks, WaiterStops, WaiterCloses, AwaitSteps, AwaitNext, PollAnswered, OpenReturns, AwaitGivesUp, OpenReaps
  <1>3. CASE ProxySteps
    <2>1. listener' = "open" => listener = "open"
      BY <1>3 DEF ProxySteps, ProxyNext, HookFires, CloseServer, ServeBegins, ServeClosed, AcceptFails, ServeDefers
    <2>2. UNCHANGED <<start, sup, endErr, stopCall, proc>>
      BY <1>3 DEF ProxySteps
    <2> QED
      BY <2>1, <2>2, IsWithdraw, Stutter
  <1>4. CASE ProcSteps
    <2>1. ProcAlive' => ProcAlive
      BY <1>4 DEF ProcSteps, ProcNext, ProcReady, ProcExits, ProcKilled
    <2>2. UNCHANGED <<start, sup, endErr, stopCall, listener>>
      BY <1>4 DEF ProcSteps
    <2> QED
      BY <2>1, <2>2, IsWithdraw, Stutter
  <1> QED
    BY <1>0, <1>1, <1>2, <1>3, <1>4

\* A share starts as an idle share of the contract.
LEMMA InitContract == Init => Contract!Init
  BY DEF Init, CtxInit, ProxyInit, TunnelInit, Contract!Init, Phase, Exposed, Result, ProcAlive, Me

\* A share does what ShareContract says a share does (share.go): Start
\* returns an error only with nothing exposed, Wait returns only with nothing
\* exposed, and reports nil only after Stop.
THEOREM Implementation == Spec => ImplementsContract
  <1>1. IInv /\ IInv' /\ [Next]_vars => [Contract!Next]_(Contract!contractVars)
    <2>1. Terminated \/ UNCHANGED vars => UNCHANGED Contract!contractVars
      BY Stutter DEF Terminated, Phase, Exposed, Result, HasEnded, ProcAlive, SameExcept
    <2> QED
      BY <2>1, StartNextContract, SuperviseNextContract, OtherNextContract DEF Next
  <1> QED
    BY <1>1, InitContract, Invariance, PTL DEF Spec, ImplementsContract, Contract!Spec

-----------------------------------------------------------------------------
(***************************************************************************)
(* Why a share comes to an end: it takes finitely many steps, and until it *)
(* has come to its end one of the steps that LiveSpec makes fair can be    *)
(* taken.                                                                  *)
(***************************************************************************)

\* For each variable, a bound on the steps that can still begin with it.
StartLeft ==
    CASE start = "idle" -> 18
      [] start = "listening" -> 16
      [] start = "opening" -> 10
      [] start = "draining" -> 1
      [] OTHER -> 0

ProxyLeft ==
    (CASE hook = "armed" -> 2
       [] hook = "fired" -> 1
       [] OTHER -> 0)
  + (CASE serve = "spawned" -> 3
       [] serve = "serving" -> 2
       [] serve = "returned" -> 1
       [] OTHER -> 0)

TunnelLeft ==
    (CASE open = "idle" -> 8
       [] open = "awaiting" -> 2
       [] open \in {"answered", "reaping"} -> 1
       [] OTHER -> 0)
  + (CASE proc = "starting" -> 2
       [] proc = "ready" -> 1
       [] OTHER -> 0)
  + (CASE waiter = "waiting" -> 3
       [] waiter = "checked" -> 2
       [] waiter = "stopped" -> 1
       [] OTHER -> 0)

SuperviseLeft ==
    (IF watcher = "waiting" THEN 1 ELSE 0)
  + (CASE sup = "proxyWait" -> 2
       [] sup = "tunnelWait" -> 1
       [] OTHER -> 0)

StepsLeft ==
    StartLeft + ProxyLeft + TunnelLeft + SuperviseLeft
  + (IF ctx = "live" THEN 1 ELSE 0)
  + (IF stopCall = "none" THEN 1 ELSE 0)

\* Nothing to keep a started share up: its context is done, its process has
\* exited, or its proxy has stopped serving.
Doomed ==
    /\ Phase = "running"
    /\ CtxDone \/ ProcDead \/ serve \in {"returned", "served"}

\* One of the actions that are fair in LiveSpec can be taken: by the call of
\* Start and of backend.Open in it, by the proxy, by the tunnel, by supervise.
StartCan ==
    \/ start = "listening"
    \/ start = "opening" /\ open \in {"idle", "failed", "opened"}
    \/ start = "draining" /\ ProxyServed
    \/ open \in {"awaiting", "answered"}
    \/ open = "reaping" /\ waiter = "exited"

ProxyCan ==
    \/ hook = "armed" /\ CtxDone
    \/ hook = "fired"
    \/ serve \in {"spawned", "returned"}
    \/ serve = "serving" /\ ServerClosed

TunnelCan ==
    \/ ProcAlive /\ RunDone
    \/ waiter = "waiting" /\ ProcDead
    \/ waiter \in {"checked", "stopped"}

SuperviseCan ==
    \/ watcher = "waiting" /\ TunnelExited
    \/ sup = "proxyWait" /\ ProxyServed
    \/ sup = "tunnelWait" /\ watcher = "sent"

CanStep == StartCan \/ ProxyCan \/ TunnelCan \/ SuperviseCan

\* StepsLeft is a number, whatever the values of the variables.
LEMMA StepsLeftNat == StepsLeft \in Nat
  <1>1. StartLeft \in Nat /\ SuperviseLeft \in Nat
    BY DEF StartLeft, SuperviseLeft
  <1>2. ProxyLeft \in Nat
    BY DEF ProxyLeft
  <1>3. TunnelLeft \in Nat
    BY DEF TunnelLeft
  <1> QED
    BY <1>1, <1>2, <1>3 DEF StepsLeft

\* A call of stop leaves at most as many steps as there were.
LEMMA CancelLeft ==
    CtxCancel => (IF ctx' = "live" THEN 1 ELSE 0) <= (IF ctx = "live" THEN 1 ELSE 0)
  BY DEF CtxCancel

\* Every step of a share uses up one of the steps it has left.
LEMMA NextStepsLeft == IInv /\ Next => StepsLeft' < StepsLeft \/ UNCHANGED vars
  <1>0. SUFFICES ASSUME IInv, Next PROVE StepsLeft' < StepsLeft \/ UNCHANGED vars
    OBVIOUS
  <1>a. /\ StartLeft \in Nat /\ ProxyLeft \in Nat /\ TunnelLeft \in Nat /\ SuperviseLeft \in Nat
        /\ StartLeft' \in Nat /\ ProxyLeft' \in Nat /\ TunnelLeft' \in Nat /\ SuperviseLeft' \in Nat
    BY DEF StartLeft, ProxyLeft, TunnelLeft, SuperviseLeft
  <1>1. CASE StartCalled \/ ListenFails \/ Listens
    BY <1>0, <1>1, <1>a, CancelLeft
       DEF IInv, StartInv, ProxyInv, StartCalled, ListenFails, Listens, CtxCreate, ProxyStart,
           StepsLeft, StartLeft, ProxyLeft, TunnelLeft, SuperviseLeft
  <1>2. CASE OpenBegins
    BY <1>0, <1>2, <1>a
       DEF IInv, TunnelInv, OpenBegins, Launch, OpenFailsEarly, StepsLeft, StartLeft, ProxyLeft, TunnelLeft, SuperviseLeft
  <1>3. CASE OpenFailed \/ StartFails
    BY <1>0, <1>3, <1>a, CancelLeft
       DEF OpenFailed, StartFails, StepsLeft, StartLeft, ProxyLeft, TunnelLeft, SuperviseLeft
  <1>4. CASE StartSucceeds
    BY <1>0, <1>4, <1>a
       DEF StartSucceeds, StepsLeft, StartLeft, ProxyLeft, TunnelLeft, SuperviseLeft
  <1>5. CASE SuperviseNext
    BY <1>0, <1>5, <1>a, CancelLeft
       DEF SuperviseNext, WatchTunnel, SupProxy, SupEnd, StepsLeft, StartLeft, ProxyLeft, TunnelLeft, SuperviseLeft
  <1>6. CASE Stop
    BY <1>0, <1>6, <1>a
       DEF IInv, TypeOK, Stop, CtxCancel, StepsLeft, StartLeft, ProxyLeft, TunnelLeft, SuperviseLeft
  <1>7. CASE Expire
    BY <1>0, <1>7, <1>a
       DEF Expire, CtxDeadline, StepsLeft, StartLeft, ProxyLeft, TunnelLeft, SuperviseLeft
  <1>8. CASE ProxySteps
    <2>1. ProxyLeft' < ProxyLeft
      BY <1>8 DEF ProxySteps, ProxyNext, HookFires, CloseServer, ServeBegins, ServeClosed, AcceptFails, ServeDefers, ProxyLeft
    <2> QED
      BY <1>8, <2>1, <1>a DEF ProxySteps, StepsLeft, StartLeft, TunnelLeft, SuperviseLeft
  <1>9. CASE ProcSteps \/ WaiterSteps \/ AwaitSteps
    <2>1. TunnelLeft' < TunnelLeft
      <3>1. CASE ProcSteps
        BY <3>1 DEF ProcSteps, ProcNext, ProcReady, ProcExits, ProcKilled, ProcAlive, TunnelLeft
      <3>2. CASE WaiterSteps
        BY <3>2 DEF WaiterSteps, WaiterNext, WaiterChecks, WaiterStops, WaiterCloses, TunnelLeft
      <3>3. CASE AwaitSteps
        BY <3>3 DEF AwaitSteps, AwaitNext, PollAnswered, OpenReturns, AwaitGivesUp, OpenReaps, TunnelLeft
      <3> QED
        BY <1>9, <3>1, <3>2, <3>3
    <2>2. UNCHANGED <<ctx, proxyVars, shareVars>>
      BY <1>9 DEF ProcSteps, WaiterSteps, AwaitSteps
    <2> QED
      BY <2>1, <2>2, <1>a DEF StepsLeft, StartLeft, ProxyLeft, SuperviseLeft
  <1>10. CASE Terminated
    BY <1>10 DEF Terminated
  <1> QED
    BY <1>0, <1>1, <1>2, <1>3, <1>4, <1>5, <1>6, <1>7, <1>8, <1>9, <1>10, StartNextDef, Zenon DEF Next

\* A share goes nowhere twice (share.go, proxy.go, cloudflared.go): each of
\* its steps, whoever takes it, brings it nearer to its end, so that there are
\* never more than a bounded number of them.
THEOREM StepsRunOut == Spec => [](StepsLeft \in Nat) /\ [][StepsLeft' < StepsLeft]_vars
  <1>1. IInv /\ [Next]_vars => [StepsLeft' < StepsLeft]_vars
    BY NextStepsLeft
  <1> QED
    BY <1>1, StepsLeftNat, Invariance, PTL DEF Spec

\* A proxy whose context is done, and a tunnel whose process is dead or to be
\* killed, have a step to take until they have stopped.
LEMMA ProxyStops == IInv /\ CtxDone => ProxyCan \/ serve \in {"none", "served"}
  BY DEF IInv, TypeOK, ProxyTypeOK, ProxyInv, ProxyCan, ServerClosed

LEMMA TunnelStops == IInv /\ (RunDone \/ ProcDead) => TunnelCan \/ waiter \in {"none", "exited"}
  BY DEF IInv, TypeOK, TunnelTypeOK, TunnelInv, TunnelCan, ProcDead, ProcAlive

\* Neither the call of Start nor a doomed share waits for nothing.
LEMMA IInvCanStep == IInv /\ (Phase = "opening" \/ Doomed) => CanStep
  <1>1. ASSUME IInv, Phase = "opening" PROVE CanStep
    <2>1. start \in {"listening", "opening", "draining"}
      BY <1>1 DEF IInv, TypeOK, Phase, HasEnded
    <2>2. CASE start = "draining"
      BY <1>1, <2>2, ProxyStops DEF IInv, StartInv, CanStep, StartCan, ProxyServed
    <2>3. CASE start = "opening" /\ open = "reaping"
      BY <1>1, <2>3, TunnelStops DEF IInv, TunnelInv, CanStep, StartCan, RunDone
    <2>4. CASE start = "listening" \/ (start = "opening" /\ open # "reaping")
      BY <1>1, <2>4 DEF IInv, TypeOK, TunnelTypeOK, CanStep, StartCan
    <2> QED
      BY <2>1, <2>2, <2>3, <2>4
  <1>2. ASSUME IInv, Doomed PROVE CanStep
    <2>1. /\ start = "started" /\ sup \in {"proxyWait", "tunnelWait"} /\ watcher \in {"waiting", "sent"}
          /\ serve # "none" /\ waiter # "none"
      BY <1>2 DEF IInv, TypeOK, StartInv, SuperviseInv, TunnelInv, Doomed, Phase, HasEnded
    <2>2. CASE CtxDone
      BY <1>2, <2>1, <2>2, ProxyStops, TunnelStops DEF CanStep, SuperviseCan, RunDone, ProxyServed, TunnelExited
    <2>3. CASE ProcDead /\ ~CtxDone
      BY <1>2, <2>1, <2>3, TunnelStops DEF IInv, SuperviseInv, CanStep, SuperviseCan, TunnelExited
    <2>4. CASE serve \in {"returned", "served"} /\ ~CtxDone
      BY <1>2, <2>1, <2>4 DEF IInv, SuperviseInv, CanStep, ProxyCan, SuperviseCan, ProxyServed
    <2> QED
      BY <1>2, <2>2, <2>3, <2>4 DEF Doomed
  <1> QED
    BY <1>1, <1>2

\* While Start runs, and after a started share is doomed, a goroutine of the
\* share has a step to take: no two of them wait for each other
\* (share.go:56-64, share.go:104-126, cloudflared.go:99-109).
THEOREM NeverStuck == Spec => [](Phase = "opening" \/ Doomed => CanStep)
  BY IInvCanStep, Invariance, PTL

\* What dooms a share is never undone: it stays doomed until it has ended
\* (share.go:104-116), so that there is no way back for one of its halves.
LEMMA NextDoomed == IInv /\ Doomed /\ [Next]_vars => Doomed' \/ HasEnded'
  <1>0. SUFFICES ASSUME IInv, Doomed, [Next]_vars PROVE Doomed' \/ HasEnded'
    OBVIOUS
  <1>1. start = "started" /\ sup # "ended" /\ serve # "none" /\ open = "opened" /\ waiter # "none"
    BY <1>0 DEF IInv, StartInv, TunnelInv, Doomed, Phase, HasEnded
  <1>2. start' = "started"
    BY <1>0, <1>1 DEF Next, StartNext, StartCalled, ListenFails, Listens, OpenBegins, OpenFailed, StartFails, StartSucceeds,
       SuperviseNext, WatchTunnel, SupProxy, SupEnd, Stop, Expire, ProxySteps, ProcSteps, WaiterSteps, AwaitSteps, Terminated
  <1>3. CtxDone => CtxDone'
    BY <1>0, <1>1 DEF Next, StartNext, StartCalled, ListenFails, Listens, OpenBegins, OpenFailed, StartFails, StartSucceeds,
       SuperviseNext, WatchTunnel, SupProxy, SupEnd, Stop, Expire, ProxySteps, ProcSteps, WaiterSteps, AwaitSteps, Terminated,
       CtxCancel, CtxDeadline, CtxDone
  <1>4. ProcDead => ProcDead'
    BY <1>0, <1>1 DEF Next, StartNext, StartCalled, ListenFails, Listens, OpenBegins, OpenFailed, StartFails, StartSucceeds,
       SuperviseNext, WatchTunnel, SupProxy, SupEnd, Stop, Expire, ProxySteps, ProcSteps, WaiterSteps, AwaitSteps, Terminated,
       ProcNext, ProcReady, ProcExits, ProcKilled, WaiterNext, WaiterChecks, WaiterStops, WaiterCloses,
       AwaitNext, PollAnswered, OpenReturns, AwaitGivesUp, OpenReaps, ProcDead, ProcAlive
  <1>5. serve \in {"returned", "served"} => serve' \in {"returned", "served"}
    BY <1>0, <1>1 DEF Next, StartNext, StartCalled, ListenFails, Listens, OpenBegins, OpenFailed, StartFails, StartSucceeds,
       SuperviseNext, WatchTunnel, SupProxy, SupEnd, Stop, Expire, ProxySteps, ProcSteps, WaiterSteps, AwaitSteps, Terminated,
       ProxyNext, HookFires, CloseServer, ServeBegins, ServeClosed, AcceptFails, ServeDefers
  <1> QED
    BY <1>0, <1>2, <1>3, <1>4, <1>5 DEF Doomed, Phase, HasEnded

THEOREM DoomedUntilEnded == Spec => [][Doomed => Doomed' \/ HasEnded']_vars
  <1>1. IInv /\ [Next]_vars => [Doomed => Doomed' \/ HasEnded']_vars
    BY NextDoomed
  <1> QED
    BY <1>1, Invariance, PTL DEF Spec

\* Stop dooms the share it is called on, whoever else has canceled the
\* context before (share.go:93).
THEOREM StopDooms == Spec => [](stopCall = "made" => CtxDone)
  <1>1. Init => (stopCall = "made" => CtxDone)
    BY DEF Init
  <1>2. IInv /\ (stopCall = "made" => CtxDone) /\ [Next]_vars => (stopCall = "made" => CtxDone)'
    <2>0. SUFFICES ASSUME IInv, stopCall = "made" => CtxDone, [Next]_vars
                   PROVE  (stopCall = "made" => CtxDone)'
      OBVIOUS
    <2>1. CASE Stop
      BY <2>0, <2>1 DEF IInv, TypeOK, CtxStates, StartInv, Stop, CtxCancel, CtxDone
    <2>2. CASE Expire \/ SuperviseNext \/ ProxySteps \/ ProcSteps \/ WaiterSteps \/ AwaitSteps \/ Terminated \/ UNCHANGED vars
      BY <2>0, <2>2 DEF Expire, CtxDeadline, SuperviseNext, WatchTunnel, SupProxy, SupEnd, CtxCancel, CtxDone,
         ProxySteps, ProcSteps, WaiterSteps, AwaitSteps, Terminated
    <2>3. CASE StartNext
      BY <2>0, <2>3 DEF IInv, SuperviseInv, StartNext, StartCalled, ListenFails, Listens, OpenBegins, OpenFailed, StartFails,
         StartSucceeds, CtxCreate, CtxCancel, CtxDone
    <2> QED
      BY <2>0, <2>1, <2>2, <2>3 DEF Next
  <1> QED
    BY <1>1, <1>2, Invariance, PTL DEF Spec

-----------------------------------------------------------------------------
(***************************************************************************)
(* The four liveness properties of a share.  Each assumes CanMove, that a  *)
(* fair action whose guard holds is enabled, which the provers cannot      *)
(* show; TLC finds it true in all states of the run share, which are all   *)
(* there are.  A share that has a step to take, with n steps left, comes   *)
(* to have less than n: while it takes no step its variables stay the      *)
(* same, and so does the guard that makes one of the fair actions          *)
(* possible.  It has never more than 27 left, and while it is Busy it has  *)
(* a step to take, so it cannot be Busy for ever.                          *)
(***************************************************************************)
CanMove ==
    /\ start = "listening" => ENABLED <<Listens \/ ListenFails>>_vars
    /\ start = "opening" /\ open = "idle" => ENABLED <<OpenBegins>>_vars
    /\ start = "opening" /\ open = "failed" => ENABLED <<OpenFailed>>_vars
    /\ start = "opening" /\ open = "opened" => ENABLED <<StartSucceeds>>_vars
    /\ start = "draining" /\ ProxyServed => ENABLED <<StartFails>>_vars
    /\ watcher = "waiting" /\ TunnelExited => ENABLED <<WatchTunnel>>_vars
    /\ sup = "proxyWait" /\ ProxyServed => ENABLED <<SupProxy>>_vars
    /\ sup = "tunnelWait" /\ watcher = "sent" => ENABLED <<SupEnd>>_vars
    /\ hook = "armed" /\ CtxDone => ENABLED <<OfProxy(HookFires)>>_vars
    /\ hook = "fired" => ENABLED <<OfProxy(CloseServer)>>_vars
    /\ serve = "spawned" \/ (serve = "serving" /\ ServerClosed)
           => ENABLED <<OfProxy(ServeBegins \/ ServeClosed)>>_vars
    /\ serve = "returned" => ENABLED <<OfProxy(ServeDefers)>>_vars
    /\ ProcAlive /\ RunDone => ENABLED <<OfTunnel(ProcKilled)>>_vars
    /\ (waiter = "waiting" /\ ProcDead) \/ waiter \in {"checked", "stopped"}
           => ENABLED <<WaiterSteps>>_vars
    /\ open = "awaiting" => ENABLED <<OfTunnel(AwaitGivesUp)>>_vars
    /\ open = "answered" \/ (open = "reaping" /\ waiter = "exited")
           => ENABLED <<OfTunnel(OpenReturns \/ OpenReaps)>>_vars

\* A step that changes no variable uses up no step that was left.
LEMMA StepsLeftSame == UNCHANGED vars => StepsLeft' = StepsLeft
  BY DEF StepsLeft, StartLeft, ProxyLeft, TunnelLeft, SuperviseLeft

\* A share with n steps left has less after its next step, and until then
\* nothing changes.
LEMMA StepUsed ==
    ASSUME NEW n \in Nat
    PROVE  /\ IInv /\ StepsLeft = n /\ [Next]_vars => (StepsLeft < n)' \/ (UNCHANGED vars /\ (StepsLeft = n)')
           /\ IInv /\ StepsLeft = n /\ <<Next>>_vars => (StepsLeft < n)'
  BY NextStepsLeft, StepsLeftSame

\* A step of supervise, or of its goroutine for the tunnel, is taken when it
\* can be.
LEMMA SuperviseTaken ==
    ASSUME NEW n \in Nat
    PROVE  LiveSpec /\ []CanMove => (SuperviseCan /\ StepsLeft = n ~> StepsLeft < n)
  <1> DEFINE SeesTunnel == watcher = "waiting" /\ TunnelExited
             SeesProxy == sup = "proxyWait" /\ ProxyServed
             Ends == sup = "tunnelWait" /\ watcher = "sent"
             At == StepsLeft = n
             Less == StepsLeft < n
  <1>1. SuperviseCan => SeesTunnel \/ SeesProxy \/ Ends
    BY DEF SuperviseCan
  <1>2. UNCHANGED vars => (SeesTunnel => SeesTunnel') /\ (SeesProxy => SeesProxy') /\ (Ends => Ends')
    BY DEF TunnelExited, ProxyServed
  <1>3. CanMove => /\ SeesTunnel => ENABLED <<WatchTunnel>>_vars
                   /\ SeesProxy => ENABLED <<SupProxy>>_vars
                   /\ Ends => ENABLED <<SupEnd>>_vars
    BY DEF CanMove
  <1>4. /\ <<WatchTunnel>>_vars => <<Next>>_vars
        /\ <<SupProxy>>_vars => <<Next>>_vars
        /\ <<SupEnd>>_vars => <<Next>>_vars
    BY DEF Next, SuperviseNext
  <1>5. LiveSpec => /\ Spec
                    /\ WF_vars(WatchTunnel)
                    /\ WF_vars(SupProxy)
                    /\ WF_vars(SupEnd)
    BY PTL DEF LiveSpec
  <1>6. /\ IInv /\ At /\ [Next]_vars => Less' \/ (UNCHANGED vars /\ At')
        /\ IInv /\ At /\ <<Next>>_vars => Less'
    BY StepUsed
  <1>7. LiveSpec /\ []CanMove => (SuperviseCan /\ At ~> Less)
    <2> HIDE DEF SeesTunnel, SeesProxy, Ends, At, Less
    <2> QED
      BY <1>1, <1>2, <1>3, <1>4, <1>5, <1>6, Invariance, PTL DEF Spec
  <1> QED
    BY <1>7, PTL DEF At, Less

\* A step of the proxy is taken when it can be.
LEMMA ProxyTaken ==
    ASSUME NEW n \in Nat
    PROVE  LiveSpec /\ []CanMove => (ProxyCan /\ StepsLeft = n ~> StepsLeft < n)
  <1> DEFINE Fires == hook = "armed" /\ CtxDone
             Closes == hook = "fired"
             Serves == serve = "spawned" \/ (serve = "serving" /\ ServerClosed)
             Defers == serve = "returned"
             At == StepsLeft = n
             Less == StepsLeft < n
  <1>1. ProxyCan => Fires \/ Closes \/ Serves \/ Defers
    BY DEF ProxyCan
  <1>2. UNCHANGED vars => (Fires => Fires') /\ (Closes => Closes') /\ (Serves => Serves') /\ (Defers => Defers')
    BY DEF CtxDone, ServerClosed
  <1>3. CanMove => /\ Fires => ENABLED <<OfProxy(HookFires)>>_vars
                   /\ Closes => ENABLED <<OfProxy(CloseServer)>>_vars
                   /\ Serves => ENABLED <<OfProxy(ServeBegins \/ ServeClosed)>>_vars
                   /\ Defers => ENABLED <<OfProxy(ServeDefers)>>_vars
    BY DEF CanMove
  <1>4. /\ <<OfProxy(HookFires)>>_vars => <<Next>>_vars
        /\ <<OfProxy(CloseServer)>>_vars => <<Next>>_vars
        /\ <<OfProxy(ServeBegins \/ ServeClosed)>>_vars => <<Next>>_vars
        /\ <<OfProxy(ServeDefers)>>_vars => <<Next>>_vars
    BY DEF Next, OfProxy, ProxySteps, ProxyNext
  <1>5. LiveSpec => /\ Spec
                    /\ WF_vars(OfProxy(HookFires))
                    /\ WF_vars(OfProxy(CloseServer))
                    /\ WF_vars(OfProxy(ServeBegins \/ ServeClosed))
                    /\ WF_vars(OfProxy(ServeDefers))
    BY PTL DEF LiveSpec
  <1>6. /\ IInv /\ At /\ [Next]_vars => Less' \/ (UNCHANGED vars /\ At')
        /\ IInv /\ At /\ <<Next>>_vars => Less'
    BY StepUsed
  <1>7. LiveSpec /\ []CanMove => (ProxyCan /\ At ~> Less)
    <2> HIDE DEF Fires, Closes, Serves, Defers, At, Less
    <2> QED
      BY <1>1, <1>2, <1>3, <1>4, <1>5, <1>6, Invariance, PTL DEF Spec
  <1> QED
    BY <1>7, PTL DEF At, Less

\* A step of the process, or of the goroutine that waits for it, is taken when
\* it can be.
LEMMA TunnelTaken ==
    ASSUME NEW n \in Nat
    PROVE  LiveSpec /\ []CanMove => (TunnelCan /\ StepsLeft = n ~> StepsLeft < n)
  <1> DEFINE Dies == ProcAlive /\ RunDone
             Waits == (waiter = "waiting" /\ ProcDead) \/ waiter \in {"checked", "stopped"}
             At == StepsLeft = n
             Less == StepsLeft < n
  <1>1. TunnelCan => Dies \/ Waits
    BY DEF TunnelCan
  <1>2. UNCHANGED vars => (Dies => Dies') /\ (Waits => Waits')
    BY DEF ProcAlive, RunDone, CtxDone, ProcDead
  <1>3. CanMove => /\ Dies => ENABLED <<OfTunnel(ProcKilled)>>_vars
                   /\ Waits => ENABLED <<WaiterSteps>>_vars
    BY DEF CanMove
  <1>4. /\ <<OfTunnel(ProcKilled)>>_vars => <<Next>>_vars
        /\ <<WaiterSteps>>_vars => <<Next>>_vars
    BY DEF Next, OfTunnel, ProcSteps, ProcNext
  <1>5. LiveSpec => /\ Spec
                    /\ WF_vars(OfTunnel(ProcKilled))
                    /\ WF_vars(WaiterSteps)
    BY PTL DEF LiveSpec
  <1>6. /\ IInv /\ At /\ [Next]_vars => Less' \/ (UNCHANGED vars /\ At')
        /\ IInv /\ At /\ <<Next>>_vars => Less'
    BY StepUsed
  <1>7. LiveSpec /\ []CanMove => (TunnelCan /\ At ~> Less)
    <2> HIDE DEF Dies, Waits, At, Less
    <2> QED
      BY <1>1, <1>2, <1>3, <1>4, <1>5, <1>6, Invariance, PTL DEF Spec
  <1> QED
    BY <1>7, PTL DEF At, Less

\* A step of the call of Start, or of backend.Open in it, is taken when it can
\* be.
LEMMA StartTaken ==
    ASSUME NEW n \in Nat
    PROVE  LiveSpec /\ []CanMove => (StartCan /\ StepsLeft = n ~> StepsLeft < n)
  <1> DEFINE Listen == start = "listening"
             Opens == start = "opening" /\ open = "idle"
             Fails == start = "opening" /\ open = "failed"
             Succeeds == start = "opening" /\ open = "opened"
             Drains == start = "draining" /\ ProxyServed
             Awaits == open = "awaiting"
             Returns == open = "answered" \/ (open = "reaping" /\ waiter = "exited")
             At == StepsLeft = n
             Less == StepsLeft < n
  <1>1. StartCan => Listen \/ Opens \/ Fails \/ Succeeds \/ Drains \/ Awaits \/ Returns
    BY DEF StartCan
  <1>2. UNCHANGED vars => (Listen => Listen') /\ (Opens => Opens') /\ (Fails => Fails')
                         /\ (Succeeds => Succeeds') /\ (Drains => Drains') /\ (Awaits => Awaits') /\ (Returns => Returns')
    BY DEF ProxyServed
  <1>3. CanMove => /\ Listen => ENABLED <<Listens \/ ListenFails>>_vars
                   /\ Opens => ENABLED <<OpenBegins>>_vars
                   /\ Fails => ENABLED <<OpenFailed>>_vars
                   /\ Succeeds => ENABLED <<StartSucceeds>>_vars
                   /\ Drains => ENABLED <<StartFails>>_vars
                   /\ Awaits => ENABLED <<OfTunnel(AwaitGivesUp)>>_vars
                   /\ Returns => ENABLED <<OfTunnel(OpenReturns \/ OpenReaps)>>_vars
    BY DEF CanMove
  <1>4. /\ <<Listens \/ ListenFails>>_vars => <<Next>>_vars
        /\ <<OpenBegins>>_vars => <<Next>>_vars
        /\ <<OpenFailed>>_vars => <<Next>>_vars
        /\ <<StartSucceeds>>_vars => <<Next>>_vars
        /\ <<StartFails>>_vars => <<Next>>_vars
        /\ <<OfTunnel(AwaitGivesUp)>>_vars => <<Next>>_vars
        /\ <<OfTunnel(OpenReturns \/ OpenReaps)>>_vars => <<Next>>_vars
    BY DEF Next, StartNext, OfTunnel, AwaitSteps, AwaitNext
  <1>5. LiveSpec => /\ Spec
                    /\ WF_vars(Listens \/ ListenFails)
                    /\ WF_vars(OpenBegins)
                    /\ WF_vars(OpenFailed)
                    /\ WF_vars(StartSucceeds)
                    /\ WF_vars(StartFails)
                    /\ WF_vars(OfTunnel(AwaitGivesUp))
                    /\ WF_vars(OfTunnel(OpenReturns \/ OpenReaps))
    BY PTL DEF LiveSpec
  <1>6. /\ IInv /\ At /\ [Next]_vars => Less' \/ (UNCHANGED vars /\ At')
        /\ IInv /\ At /\ <<Next>>_vars => Less'
    BY StepUsed
  <1>7. LiveSpec /\ []CanMove => (StartCan /\ At ~> Less)
    <2> HIDE DEF Listen, Opens, Fails, Succeeds, Drains, Awaits, Returns, At, Less
    <2> QED
      BY <1>1, <1>2, <1>3, <1>4, <1>5, <1>6, Invariance, PTL DEF Spec
  <1> QED
    BY <1>7, PTL DEF At, Less

\* Fairness does not change what is invariant.
LEMMA LiveSafe == LiveSpec => Spec /\ []IInv
  BY Invariance, PTL DEF LiveSpec

\* Start runs, or the share has nothing to keep it up.
Busy == Phase = "opening" \/ Doomed

\* A Busy share comes out of this, or gets to less than n steps left.
Within(n) == Busy ~> ~Busy \/ StepsLeft < n

\* A Busy share with n steps left takes one of them.
LEMMA Nearer ==
    ASSUME NEW m \in Nat, NEW n \in Nat, m = n + 1
    PROVE  LiveSpec /\ []CanMove /\ Within(m) => Within(n)
  <1> DEFINE At == StepsLeft = n
             More == StepsLeft < m
             Less == StepsLeft < n
  <1>1. More => At \/ Less
    BY StepsLeftNat
  <1>2. IInv /\ Busy => SuperviseCan \/ ProxyCan \/ TunnelCan \/ StartCan
    BY IInvCanStep DEF Busy, CanStep
  <1>3. LiveSpec /\ []CanMove =>
            /\ SuperviseCan /\ At ~> Less
            /\ ProxyCan /\ At ~> Less
            /\ TunnelCan /\ At ~> Less
            /\ StartCan /\ At ~> Less
    BY SuperviseTaken, ProxyTaken, TunnelTaken, StartTaken
  <1>4. LiveSpec /\ []CanMove /\ (Busy ~> ~Busy \/ More) => (Busy ~> ~Busy \/ Less)
    <2> HIDE DEF At, More, Less
    <2> QED
      BY <1>1, <1>2, <1>3, LiveSafe, PTL
  <1> QED
    BY <1>4, PTL DEF Within

\* Start returns and a doomed share ends: no share is Busy for ever.  The
\* chain starts at the steps that Init leaves, and goes down to none; the
\* provers have no induction for it.
LEMMA NotBusyForever == LiveSpec /\ []CanMove => (Busy ~> ~Busy)
  <1> DEFINE Bounded == StepsLeft < 28
             Negative == StepsLeft < 0
  <1>1. Spec => []Bounded
    <2>1. Init => Bounded
      BY DEF Init, CtxInit, ProxyInit, TunnelInit, StepsLeft, StartLeft, ProxyLeft, TunnelLeft, SuperviseLeft
    <2>2. StepsLeft \in Nat /\ Bounded /\ (StepsLeft \in Nat)' /\ [StepsLeft' < StepsLeft]_vars => Bounded'
      BY StepsLeftSame
    <2> HIDE DEF Bounded
    <2> QED
      BY <2>1, <2>2, StepsRunOut, PTL DEF Spec
  <1>2. LiveSpec => Within(28)
    BY <1>1, LiveSafe, PTL DEF Within
  <1>3. LiveSpec /\ []CanMove =>
            /\ Within(28) => Within(26)
            /\ Within(26) => Within(24)
            /\ Within(24) => Within(22)
            /\ Within(22) => Within(20)
            /\ Within(20) => Within(18)
            /\ Within(18) => Within(16)
            /\ Within(16) => Within(14)
            /\ Within(14) => Within(12)
            /\ Within(12) => Within(10)
            /\ Within(10) => Within(8)
            /\ Within(8) => Within(6)
            /\ Within(6) => Within(4)
            /\ Within(4) => Within(2)
            /\ Within(2) => Within(0)
    BY Nearer
  <1>4. LiveSpec /\ []CanMove => Within(0)
    BY <1>2, <1>3
  <1>5. ~(StepsLeft < 0)
    BY StepsLeftNat
  <1> QED
    BY <1>4, <1>5, PTL DEF Within

\* A doomed share ends, and stays ended.
LEMMA DoomedEnds == LiveSpec /\ []CanMove => (Doomed ~> HasEnded)
  <1>1. Doomed => Busy
    BY DEF Busy
  <1> QED
    BY <1>1, NextDoomed, NotBusyForever, LiveSafe, PTL DEF Spec

\* Start returns, however cloudflared behaves: whether it becomes ready, exits,
\* or does neither (share.go:50-73, cloudflared.go:79-124).
THEOREM StartReturnsCorrect == LiveSpec /\ []CanMove => StartReturns
  <1> DEFINE phaseOf == [s \in Me |-> Phase]
  <1>1. ASSUME NEW s \in Me
        PROVE  LiveSpec /\ []CanMove =>
                   (phaseOf[s] = "opening" ~> phaseOf[s] # "opening")
    <2>1. phaseOf[s] = "opening" => Busy
      BY DEF Busy
    <2>2. ~Busy => phaseOf[s] # "opening"
      BY DEF Busy
    <2> QED
      BY <2>1, <2>2, NotBusyForever, PTL
  <1> QED
    BY <1>1 DEF StartReturns, Contract!StartReturns

\* After Stop the share ends, whatever else was taking it down
\* (share.go:90-126).
THEOREM StopEndsCorrect == LiveSpec /\ []CanMove => StopEnds
  <1> DEFINE phaseOf == [s \in Me |-> Phase]
             asked == IF stopCall = "made" THEN Me ELSE {}
             Asked == stopCall = "made"
  <1>1. ASSUME NEW s \in Me
        PROVE  LiveSpec /\ []CanMove =>
                   (phaseOf[s] = "running" /\ s \in asked ~> phaseOf[s] = "ended")
    <2>1. (Asked => CtxDone) /\ phaseOf[s] = "running" /\ s \in asked => Doomed
      BY DEF Doomed
    <2>2. IInv /\ HasEnded => phaseOf[s] = "ended"
      BY DEF Phase, HasEnded, IInv, SuperviseInv
    <2>3. Spec => [](Asked => CtxDone)
      BY StopDooms
    <2> HIDE DEF Asked
    <2> QED
      BY <2>1, <2>2, <2>3, DoomedEnds, LiveSafe, PTL
  <1> QED
    BY <1>1 DEF StopEnds, Contract!StopEnds

\* A share with one half gone ends: neither cloudflared without the proxy nor
\* the proxy without cloudflared stays up (share.go:104-126).
THEOREM HalfShareEndsCorrect == LiveSpec /\ []CanMove => HalfShareEnds
  <1>1. start = "started" /\ (ProcDead \/ serve \in {"returned", "served"}) => Doomed \/ HasEnded
    BY DEF Doomed, Phase
  <1> QED
    BY <1>1, DoomedEnds, PTL DEF HalfShareEnds

\* A share whose time is over ends or has failed to start, also when the
\* deadline passes during Start (share.go:53, context.WithDeadline).
THEOREM ExpiryEndsCorrect == LiveSpec /\ []CanMove => ExpiryEnds
  <1> DEFINE Expired == ctx = "expired"
             Failed == start = "failed"
             Opening == Phase = "opening"
             Started == start = "started"
  <1>1. IInv /\ Expired => Opening \/ Failed \/ Doomed \/ HasEnded
    BY DEF IInv, TypeOK, StartInv, Phase, Doomed, CtxDone, HasEnded
  <1>2. IInv /\ Expired /\ [Next]_vars => Expired'
    BY DEF Next, StartNext, StartCalled, ListenFails, Listens, OpenBegins, OpenFailed, StartFails, StartSucceeds,
       SuperviseNext, WatchTunnel, SupProxy, SupEnd, Stop, Expire, ProxySteps, ProcSteps, WaiterSteps, AwaitSteps, Terminated,
       CtxCreate, CtxCancel, CtxDeadline
  <1>3. (Opening => Busy) /\ (Busy => Opening \/ Doomed)
    BY DEF Busy
  <1>4. Doomed => ~Opening
    BY DEF Doomed
  <1>5. LiveSpec /\ []CanMove => (Expired ~> HasEnded \/ Failed)
    <2> HIDE DEF Expired, Failed, Opening, Started
    <2> QED
      BY <1>1, <1>2, <1>3, <1>4, NotBusyForever, DoomedEnds, LiveSafe, PTL DEF Spec
  <1> QED
    BY <1>5, PTL DEF ExpiryEnds
=============================================================================
