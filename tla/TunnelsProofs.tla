--------------------------- MODULE TunnelsProofs ----------------------------
(***************************************************************************)
(* Whose URL a tunnel reports, and that no two tunnels with one port are   *)
(* both up, for any number of tunnels and ports.                           *)
(***************************************************************************)
EXTENDS Tunnels, TLAPS

LEMMA InitIInv == Init => IInv
  BY NamesAssumption DEF Init, IInv, TypeOK, AnswerInv, PortInv, Serves

\* A process leaves ports and answers alone.
LEMMA ProcessIInv ==
    ASSUME IInv, NEW t \in Tunnels, Process(t)
    PROVE  IInv'
  <1> USE DEF IInv, TypeOK, AnswerInv, PortInv, Serves
  <1>1. CASE Bind(t)
    BY <1>1 DEF Bind, Becomes, Free
  <1>2. CASE Connect(t)
    BY <1>2 DEF Connect, Becomes
  <1>3. CASE Exits(t)
    BY <1>3 DEF Exits, Alive
  <1> QED
    BY <1>1, <1>2, <1>3 DEF Process

LEMMA OpenIInv ==
    ASSUME IInv, NEW t \in Tunnels, Open(t)
    PROVE  IInv'
  <1> USE NamesAssumption DEF IInv, TypeOK, AnswerInv, PortInv, Serves, Goes
  <1>1. ASSUME NEW p \in Ports, FindPort(t, p) PROVE IInv'
    BY <1>1 DEF FindPort
  <1>2. CASE Launch(t)
    BY <1>2 DEF Launch, Becomes
  <1>3. CASE LaunchFails(t) \/ NotReady(t) \/ GivesUp(t)
    BY <1>3 DEF LaunchFails, NotReady, GivesUp
  <1>4. CASE AskHostname(t)
    <2>1. PICK u \in Tunnels : Serves(u, metrics[t]) /\ hostname' = [hostname EXCEPT ![t] = u]
      BY <1>4 DEF AskHostname
    <2> QED
      BY <1>4, <2>1 DEF AskHostname
  <1>5. CASE AskReady(t)
    BY <1>5 DEF AskReady
  <1> QED
    BY <1>1, <1>2, <1>3, <1>4, <1>5 DEF Open

LEMMA EndIInv ==
    ASSUME IInv, NEW t \in Tunnels, End(t)
    PROVE  IInv'
  BY DEF End, Stop, Lost, Gone, Goes, IInv, TypeOK, AnswerInv, PortInv, Serves

THEOREM Invariance == Spec => []IInv
  <1>1. IInv /\ [Next]_vars => IInv'
    <2>1. IInv /\ UNCHANGED vars => IInv'
      BY DEF vars, IInv, TypeOK, AnswerInv, PortInv, Serves
    <2> QED
      BY <2>1, ProcessIInv, OpenIInv, EndIInv DEF Next
  <1> QED
    BY <1>1, InitIInv, PTL DEF Spec

\* An open tunnel has the URL of a tunnel with its port
\* (cloudflared.go:94-124).
THEOREM UrlFromPortCorrect == Spec => []UrlFromPort
  <1>1. IInv => UrlFromPort
    BY NamesAssumption DEF IInv, TypeOK, AnswerInv, UrlFromPort
  <1> QED
    BY <1>1, Invariance, PTL

\* If no port was given away twice, the URL is its own.
OwnUrl ==
    (\A t, u \in Tunnels : metrics[t] = metrics[u] /\ metrics[t] # 0 => t = u)
        => \A t \in Tunnels : step[t] = "opened" => hostname[t] = t

\* A tunnel reports its own URL as long as the system gives every port to one
\* tunnel only (cloudflared.go:78, 94-102).
THEOREM OwnUrlCorrect == Spec => []OwnUrl
  <1>1. ASSUME IInv PROVE OwnUrl
    <2> SUFFICES ASSUME \A t, u \in Tunnels : metrics[t] = metrics[u] /\ metrics[t] # 0 => t = u,
                        NEW t \in Tunnels, step[t] = "opened"
                 PROVE  hostname[t] = t
      BY DEF OwnUrl
    <2>1. metrics[t] \in Ports /\ hostname[t] \in Tunnels /\ metrics[hostname[t]] = metrics[t]
      BY <1>1 DEF IInv, AnswerInv
    <2> QED
      BY <2>1, NamesAssumption
  <1> QED
    BY <1>1, Invariance, PTL

\* Of two open tunnels that were given the same port, one has a process that
\* has died, so that its share is about to be told, or has still to find out
\* that the port is taken: the step that settles the collision can be taken
\* (cloudflared.go:65-71, 87-102).
CollisionUnstable ==
    \A t, u \in Tunnels :
        t # u /\ step[t] = "opened" /\ step[u] = "opened" /\ metrics[t] = metrics[u]
            => proc[t] \in {"starting", "dead"} \/ proc[u] \in {"starting", "dead"}

\* Two tunnels with one port are never both up, however many there are: this
\* is why CollisionSettles (cloudflared.go:65-71).
THEOREM CollisionUnstableCorrect == Spec => []CollisionUnstable
  <1>1. IInv => CollisionUnstable
    BY DEF IInv, TypeOK, AnswerInv, PortInv, Serves, CollisionUnstable
  <1> QED
    BY <1>1, Invariance, PTL

-----------------------------------------------------------------------------
(***************************************************************************)
(* Liveness.  No prover here reasons about ENABLED, so that a process that *)
(* starts can bind its port or exit, and that a share can be told of a     *)
(* process that is dead, is a hypothesis.                                  *)
(***************************************************************************)
CanSettle(t) ==
    /\ proc[t] = "starting" => ENABLED <<Bind(t)>>_vars
    /\ step[t] = "opened" /\ proc[t] = "dead" => ENABLED <<Lost(t)>>_vars

Collide(t, u) == step[t] = "opened" /\ step[u] = "opened" /\ metrics[t] = metrics[u]

\* A collision lasts as long as both tunnels are open, and no process of theirs
\* goes back.
LEMMA CollisionStep ==
    ASSUME IInv, [Next]_vars, NEW t \in Tunnels, NEW u \in Tunnels, Collide(t, u), step'[t] = "opened", step'[u] = "opened"
    PROVE  /\ Collide(t, u)'
           /\ \A x \in {t, u} : proc[x] # "starting" => proc'[x] # "starting"
           /\ \A x \in {t, u} : proc[x] = "dead" => proc'[x] = "dead"
  <1> USE DEF IInv, TypeOK, Collide
  <1>1. CASE UNCHANGED vars
    BY <1>1 DEF vars
  <1>2. ASSUME NEW x \in Tunnels, Open(x) PROVE /\ metrics'[t] = metrics[t] /\ metrics'[u] = metrics[u]
                                                /\ proc'[t] = proc[t] /\ proc'[u] = proc[u]
    BY <1>2 DEF Open, FindPort, Launch, LaunchFails, AskHostname, AskReady, NotReady, GivesUp, Goes, Becomes
  <1>3. ASSUME NEW x \in Tunnels, End(x) PROVE UNCHANGED <<metrics, proc>>
    BY <1>3 DEF End, Stop, Lost, Gone
  <1>4. ASSUME NEW x \in Tunnels, Process(x)
        PROVE  /\ UNCHANGED metrics
               /\ \A y \in Tunnels : proc[y] # "starting" => proc'[y] # "starting"
               /\ \A y \in Tunnels : proc[y] = "dead" => proc'[y] = "dead"
    BY <1>4 DEF Process, Bind, Connect, Exits, Becomes, Alive
  <1> QED
    BY <1>1, <1>2, <1>3, <1>4 DEF Next

LEMMA CollisionSettlesOne ==
    ASSUME NEW t \in Tunnels, NEW u \in Tunnels, t < u
    PROVE  Spec /\ []CanSettle(t) /\ []CanSettle(u) /\ Fair(t) /\ Fair(u)
               => (Collide(t, u) ~> step[t] # "opened" \/ step[u] # "opened")
  <1> DEFINE Both == Collide(t, u)
             Out == step[t] # "opened" \/ step[u] # "opened"
             StartsT == proc[t] = "starting"
             StartsU == proc[u] = "starting"
             DeadT == step[t] = "opened" /\ proc[t] = "dead"
             DeadU == step[u] = "opened" /\ proc[u] = "dead"
  <1>1. IInv /\ CollisionUnstable /\ Both => StartsT \/ DeadT \/ StartsU \/ DeadU
    BY NamesAssumption DEF CollisionUnstable, Collide
  <1>2. IInv /\ Both /\ [Next]_vars =>
            Out' \/ (Both' /\ (~StartsT => ~StartsT') /\ (~StartsU => ~StartsU') /\ (DeadT => DeadT') /\ (DeadU => DeadU'))
    BY CollisionStep
  <1>3. IInv /\ <<Bind(t)>>_vars => ~StartsT'
    BY DEF IInv, TypeOK, Bind, Becomes
  <1>4. IInv /\ <<Bind(u)>>_vars => ~StartsU'
    BY DEF IInv, TypeOK, Bind, Becomes
  <1>5. IInv /\ <<Lost(t)>>_vars => Out'
    BY DEF IInv, TypeOK, Lost, Goes
  <1>6. IInv /\ <<Lost(u)>>_vars => Out'
    BY DEF IInv, TypeOK, Lost, Goes
  <1>7. CanSettle(t) => (StartsT => ENABLED <<Bind(t)>>_vars) /\ (DeadT => ENABLED <<Lost(t)>>_vars)
    BY DEF CanSettle
  <1>8. CanSettle(u) => (StartsU => ENABLED <<Bind(u)>>_vars) /\ (DeadU => ENABLED <<Lost(u)>>_vars)
    BY DEF CanSettle
  <1>9. Spec /\ []CanSettle(t) /\ []CanSettle(u) /\ Fair(t) /\ Fair(u) => (Both ~> Out)
    <2> HIDE DEF Both, Out, StartsT, StartsU, DeadT, DeadU
    <2> QED
      BY <1>1, <1>2, <1>3, <1>4, <1>5, <1>6, <1>7, <1>8, Invariance, CollisionUnstableCorrect, PTL DEF Spec, Fair
  <1> QED
    BY <1>9, PTL DEF Both, Out

\* Two shares that were given the same port do not both last, for any number
\* of tunnels and of ports (cloudflared.go:65-71, 87-102).
THEOREM CollisionSettlesCorrect == LiveSpec /\ [](\A t \in Tunnels : CanSettle(t)) => CollisionSettles
  <1> DEFINE CanSettleAll == \A t \in Tunnels : CanSettle(t)
  <1>1. ASSUME NEW t \in Tunnels, NEW u \in Tunnels
        PROVE  LiveSpec /\ []CanSettleAll =>
                   (t < u /\ step[t] = "opened" /\ step[u] = "opened" /\ metrics[t] = metrics[u]
                        ~> step[t] # "opened" \/ step[u] # "opened")
    <2>1. LiveSpec => Spec /\ Fair(t) /\ Fair(u)
      BY DEF LiveSpec
    <2>2. CanSettleAll => CanSettle(t) /\ CanSettle(u)
      OBVIOUS
    <2>3. CASE t < u
      BY <2>1, <2>2, <2>3, CollisionSettlesOne, PTL DEF Collide
    <2>4. CASE ~(t < u)
      BY <2>4, PTL
    <2> QED
      BY <2>3, <2>4
  <1> QED
    BY <1>1 DEF CollisionSettles
=============================================================================
