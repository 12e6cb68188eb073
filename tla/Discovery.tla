----------------------------- MODULE Discovery -----------------------------
(***************************************************************************)
(* The search for local web services (internal/discovery: discovery.go,    *)
(* address.go, probe.go, and listListeners of system.go), with the chain   *)
(* of scans that the terminal UI runs (scanCmd, applyScan and tickCmd of   *)
(* model.go): the next scan begins when the last one has been applied.     *)
(*                                                                         *)
(* The processes of the machine are external: they open and close ports,   *)
(* and answer a probe with HTTP, with something else, or too late.  Names  *)
(* and frameworks of services are left out.  A scan that cannot list the   *)
(* sockets changes nothing, so it is not an action.                        *)
(***************************************************************************)
EXTENDS Naturals, FiniteSets

CONSTANT Listeners   \* the sockets processes may listen on

\* A listener is an address and a process.  The owner is what the scan finds:
\* t5s itself, a process that isIgnored names, or any other.
ASSUME ListenersAssumption ==
    Listeners \subseteq [port : Nat, family : {"v4", "v6"}, pid : Nat, owner : {"own", "ignored", "other"}]

VARIABLES
    up,          \* the sockets that are listening
    answer,      \* how each of them answers a probe at present
    probed,      \* s.probed
    scanning,    \* whether Scan is running, or how the last one ended
    candidates,  \* candidates of the scan
    results,     \* results of probeOnce
    services,    \* m.services
    spoiled      \* history: see Listable

envVars == <<up, answer>>

vars == <<envVars, probed, scanning, candidates, results, services, spoiled>>

Answers == {"http", "other", "late"}

\* Every variable keeps its type.
TypeOK ==
    /\ up \subseteq Listeners
    /\ answer \in [Listeners -> Answers]
    /\ probed \in [Listeners -> {"unknown", "web", "not"}]
    /\ scanning \in {"none", "running", "done", "failed"}
    /\ candidates \subseteq Listeners
    /\ results \in [Listeners -> {"unknown", "web", "not", "retry"}]
    /\ services \subseteq Listeners
    /\ spoiled \subseteq Listeners

Init ==
    /\ up = {}
    /\ answer = [l \in Listeners |-> "late"]
    /\ probed = [l \in Listeners |-> "unknown"]
    /\ scanning = "none"
    /\ candidates = {}
    /\ results = [l \in Listeners |-> "unknown"]
    /\ services = {}
    /\ spoiled = {}

-----------------------------------------------------------------------------
(***************************************************************************)
(* The machine.                                                            *)
(***************************************************************************)
Opens(l, a) ==
    /\ l \notin up
    /\ up' = up \union {l}
    /\ answer' = [answer EXCEPT ![l] = a]
    /\ UNCHANGED <<probed, scanning, candidates, results, services, spoiled>>

Closes(l) ==
    /\ l \in up
    /\ up' = up \ {l}
    /\ UNCHANGED <<answer, probed, scanning, candidates, results, services, spoiled>>

Changes(l, a) ==
    /\ l \in up
    /\ answer' = [answer EXCEPT ![l] = a]
    /\ UNCHANGED <<up, probed, scanning, candidates, results, services, spoiled>>

-----------------------------------------------------------------------------
(***************************************************************************)
(* Scan.                                                                   *)
(***************************************************************************)

\* Mutant of DedupeByPort: listeners of different addresses are all kept.
DedupeByPort_ByAddr(S) == {S}

\* dedupeByPort: one listener for a port, an IPv4 one if there is any.  Which
\* of several depends on the order in which the system lists them.
DedupeByPort(S) ==
    {K \in SUBSET S :
        /\ \A l \in S : \E k \in K : k.port = l.port
        /\ \A k, l \in K : k.port = l.port => k = l
        /\ \A k \in K, l \in S : k.port = l.port /\ k.family = "v6" => l.family = "v6"}

\* Scan begins: the sockets are listed, reduced and filtered, and what is
\* known of the candidates is looked up.
ScanBegins ==
    /\ scanning # "running"
    /\ scanning' = "running"
    /\ \E kept \in DedupeByPort(up) :
          LET found == {l \in kept : l.owner = "other"}
          IN  /\ candidates' = found
              /\ results' = [l \in Listeners |-> IF l \in found THEN probed[l] ELSE "unknown"]
    /\ spoiled' = spoiled \intersect up
    /\ UNCHANGED <<envVars, probed, services>>

\* probe: a connection that is refused is an answer too.
Outcome(l) ==
    IF l \notin up \/ answer[l] = "other" THEN "not"
    ELSE IF answer[l] = "http" THEN "web"
    ELSE "retry"

\* The probes run on goroutines of their own.
Probe(l) ==
    /\ scanning = "running"
    /\ l \in candidates
    /\ results[l] = "unknown"
    /\ results' = [results EXCEPT ![l] = Outcome(l)]
    /\ spoiled' = IF Outcome(l) = "not" THEN spoiled \union {l} ELSE spoiled
    /\ UNCHANGED <<envVars, probed, scanning, candidates, services>>

\* Mutant of Remember: a probe that timed out is remembered.
Remember_Timeouts == probed' = results

\* Mutant of Remember: listeners that are gone are not forgotten.
Remember_Gone ==
    probed' = [l \in Listeners |-> IF results[l] \in {"web", "not"} THEN results[l] ELSE probed[l]]

\* The end of probeOnce: the cache holds what this scan has found out, but
\* for timeouts.
Remember ==
    probed' = [l \in Listeners |-> IF results[l] = "retry" THEN "unknown" ELSE results[l]]

\* scanTimeout: the probes that run count as timeouts, and the scan fails.
ScanExpires ==
    /\ scanning = "running"
    /\ scanning' = "failed"
    /\ Remember
    /\ UNCHANGED <<envVars, candidates, results, services, spoiled>>

\* Mutant of ScanReturns: the services of the last scan are kept.
ScanReturns_Merge ==
    /\ scanning = "running"
    /\ \A l \in candidates : results[l] # "unknown"
    /\ scanning' = "done"
    /\ Remember
    /\ services' = services \union {l \in candidates : results[l] = "web"}
    /\ UNCHANGED <<envVars, candidates, results, spoiled>>

\* Scan returns, and applyScan shows what it has found.
ScanReturns ==
    /\ scanning = "running"
    /\ \A l \in candidates : results[l] # "unknown"
    /\ scanning' = "done"
    /\ Remember
    /\ services' = {l \in candidates : results[l] = "web"}
    /\ UNCHANGED <<envVars, candidates, results, spoiled>>

Machine ==
    \E l \in Listeners :
        \/ \E a \in Answers : Opens(l, a) \/ Changes(l, a)
        \/ Closes(l)

Scan == ScanBegins \/ (\E l \in Listeners : Probe(l)) \/ ScanExpires \/ ScanReturns

Next == Machine \/ Scan

Spec == Init /\ [][Next]_vars

(***************************************************************************)
(* Scans follow each other for as long as the program runs, and in the end *)
(* they are fast enough: a probe takes a second at most, and a scan may    *)
(* take five.                                                              *)
(***************************************************************************)
ScanFair == WF_vars(ScanBegins) /\ WF_vars(ScanReturns)

ProbeFair(l) == WF_vars(Probe(l))

FastEnough == <>[](scanning # "failed")

LiveSpec ==
    /\ Spec
    /\ ScanFair
    /\ \A l \in Listeners : ProbeFair(l)
    /\ FastEnough

-----------------------------------------------------------------------------
(***************************************************************************)
(* Properties.                                                             *)
(***************************************************************************)

\* The list has one service for a port, and none of t5s itself or of an
\* ignored process: the terminal UI finds services by their port alone
\* (address.go:24-40, discovery.go:52-60).
OnePerPort ==
    /\ \A k, l \in services : k.port = l.port => k = l
    /\ \A l \in services : l.owner = "other"

\* A web service that is there to be found: it listens and answers, and did
\* not answer anything but HTTP since a scan last found it gone.
Listable(l) == l.owner = "other" /\ l \in up /\ answer[l] = "http" /\ l \notin spoiled

Rivals(l) == {k \in up \ {l} : k.port = l.port}

\* A web service that stays, alone on its port, is listed in the end and
\* stays listed: also one that was too slow at first, or that had been
\* something else before it was gone for a scan (discovery.go:78-104).
WebListed ==
    \A l \in Listeners : <>[](Listable(l) /\ Rivals(l) = {}) => <>[](l \in services)

\* A service that is gone leaves the list (discovery.go:68-73).
GoneUnlisted == \A l \in Listeners : <>[](l \notin up) => <>[](l \notin services)

\* The scan that runs keeps one listener for a port, too.
CandidatesInv ==
    /\ \A k, l \in candidates : k.port = l.port => k = l
    /\ \A l \in candidates : l.owner = "other"

\* The inductive invariant.
IInv == TypeOK /\ CandidatesInv /\ OnePerPort

(***************************************************************************)
(* What the documentation says, and the code does not do.                  *)
(***************************************************************************)

\* "Discovery lists the listening TCP ports, keeps the ones that answer HTTP"
\* (README.md:57): a web service is listed even if a process that is left out
\* listens on the same port of another address.
WebListedBesideIgnored ==
    \A l \in Listeners :
        <>[](Listable(l) /\ \A k \in Rivals(l) : k.owner = "ignored") => <>[](l \in services)
=============================================================================
