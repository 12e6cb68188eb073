--------------------------- MODULE DiscoveryProofs ---------------------------
(***************************************************************************)
(* Every scan lists a port once, and its cache hides no web service, for   *)
(* every set of listeners.                                                 *)
(***************************************************************************)
EXTENDS Discovery, TLAPS

\* What dedupeByPort keeps is some of what it was given, one for a port.
LEMMA DedupeOnce ==
    ASSUME NEW S, NEW kept \in DedupeByPort(S)
    PROVE  kept \subseteq S /\ \A k, l \in kept : k.port = l.port => k = l
  BY DEF DedupeByPort

LEMMA InitIInv == Init => IInv
  BY DEF Init, IInv, TypeOK, Answers, CandidatesInv, OnePerPort

LEMMA MachineIInv == IInv /\ Machine => IInv'
  <1> SUFFICES ASSUME IInv, NEW l \in Listeners, NEW a \in Answers,
                      Opens(l, a) \/ Changes(l, a) \/ Closes(l)
               PROVE  IInv'
    BY DEF Machine, Answers
  <1> USE DEF IInv, TypeOK, CandidatesInv, OnePerPort
  <1>1. CASE Opens(l, a)
    BY <1>1 DEF Opens
  <1>2. CASE Changes(l, a)
    BY <1>2 DEF Changes
  <1>3. CASE Closes(l)
    BY <1>3 DEF Closes
  <1> QED
    BY <1>1, <1>2, <1>3

\* The cache never holds a timeout.
LEMMA RememberTypeOK ==
    ASSUME TypeOK, Remember
    PROVE  probed' \in [Listeners -> {"unknown", "web", "not"}]
  BY DEF TypeOK, Remember

LEMMA ScanBeginsIInv == IInv /\ ScanBegins => IInv'
  <1> SUFFICES ASSUME IInv, ScanBegins PROVE IInv'
    OBVIOUS
  <1>1. PICK kept \in DedupeByPort(up) :
            /\ candidates' = {l \in kept : l.owner = "other"}
            /\ results' = [l \in Listeners |-> IF l \in candidates' THEN probed[l] ELSE "unknown"]
    BY DEF ScanBegins
  <1>2. kept \subseteq up /\ \A k, l \in kept : k.port = l.port => k = l
    BY DedupeOnce
  <1>3. CandidatesInv'
    BY <1>1, <1>2 DEF CandidatesInv
  <1>4. TypeOK'
    BY <1>1, <1>2 DEF ScanBegins, IInv, TypeOK, envVars
  <1>5. OnePerPort'
    BY DEF ScanBegins, IInv, OnePerPort
  <1> QED
    BY <1>3, <1>4, <1>5 DEF IInv

LEMMA ScanIInv == IInv /\ Scan => IInv'
  <1> SUFFICES ASSUME IInv, Scan PROVE IInv'
    OBVIOUS
  <1> USE DEF IInv, CandidatesInv, OnePerPort, envVars
  <1>1. CASE ScanBegins
    BY <1>1, ScanBeginsIInv
  <1>2. ASSUME NEW l \in Listeners, Probe(l) PROVE IInv'
    BY <1>2 DEF Probe, Outcome, TypeOK
  <1>3. CASE ScanExpires
    <2>1. TypeOK'
      BY <1>3, RememberTypeOK DEF ScanExpires, TypeOK
    <2> QED
      BY <1>3, <2>1 DEF ScanExpires
  <1>4. CASE ScanReturns
    <2>1. TypeOK'
      BY <1>4, RememberTypeOK DEF ScanReturns, TypeOK
    <2> QED
      BY <1>4, <2>1 DEF ScanReturns
  <1> QED
    BY <1>1, <1>2, <1>3, <1>4 DEF Scan

THEOREM Invariance == Spec => []IInv
  <1>1. IInv /\ UNCHANGED vars => IInv'
    BY DEF IInv, TypeOK, CandidatesInv, OnePerPort, vars, envVars
  <1>2. IInv /\ [Next]_vars => IInv'
    BY <1>1, MachineIInv, ScanIInv DEF Next
  <1> QED
    BY <1>2, InitIInv, PTL DEF Spec

\* Every variable keeps its type: the cache of probes (discovery.go:93-98)
\* never holds a timeout.
THEOREM TypeCorrect == Spec => []TypeOK
  <1>1. IInv => TypeOK
    BY DEF IInv
  <1> QED
    BY <1>1, Invariance, PTL

\* The list the UI is given names no port twice and no ignored process
\* (discovery.go:52-60).
THEOREM OnePerPortCorrect == Spec => []OnePerPort
  <1>1. IInv => OnePerPort
    BY DEF IInv
  <1> QED
    BY <1>1, Invariance, PTL

-----------------------------------------------------------------------------
(***************************************************************************)
(* What the cache of probes hides: a service that is there to be found is  *)
(* never remembered as anything but a web service.                         *)
(***************************************************************************)

\* What is remembered as no web service has answered like that, and was there
\* in every scan since.
CacheInv ==
    \A l \in Listeners :
        /\ scanning = "running" /\ results[l] = "not" => l \in spoiled
        /\ scanning # "running" /\ probed[l] = "not" => l \in spoiled

\* A candidate that is a web service when the scan returns is listed, or it was
\* too slow and the next scan probes it again.
FindsOrRetries ==
    [][\A l \in candidates :
          ScanReturns /\ Listable(l) => l \in services' \/ probed'[l] = "unknown"]_vars

LEMMA NextCacheInv == IInv /\ CacheInv /\ [Next]_vars => CacheInv'
  <1> SUFFICES ASSUME IInv, CacheInv, [Next]_vars PROVE CacheInv'
    OBVIOUS
  <1> USE DEF IInv, TypeOK, CacheInv
  <1>1. CASE Machine \/ UNCHANGED vars
    BY <1>1 DEF Machine, Opens, Closes, Changes, vars, envVars
  <1>2. CASE ScanBegins
    <2>1. PICK kept \in DedupeByPort(up) :
              results' = [l \in Listeners |-> IF l \in kept /\ l.owner = "other" THEN probed[l] ELSE "unknown"]
      BY <1>2 DEF ScanBegins
    <2>2. kept \subseteq up
      BY DedupeOnce
    <2> QED
      BY <1>2, <2>1, <2>2 DEF ScanBegins
  <1>3. ASSUME NEW l \in Listeners, Probe(l) PROVE CacheInv'
    BY <1>3 DEF Probe
  <1>4. CASE ScanExpires \/ ScanReturns
    BY <1>4 DEF ScanExpires, ScanReturns, Remember
  <1> QED
    BY <1>1, <1>2, <1>3, <1>4 DEF Next, Scan

\* A cached "not" is never older than the last scan that did not find the
\* listener (discovery.go:78-104).
LEMMA CacheInvariance == Spec => []CacheInv
  <1>1. Init => CacheInv
    BY DEF Init, CacheInv
  <1> QED
    BY <1>1, NextCacheInv, Invariance, PTL DEF Spec

\* The cache hides no web service from a scan: one that is there is listed by
\* the scan that has it among its candidates, or probed again by the next
\* (discovery.go:68-104).
THEOREM FindsOrRetriesCorrect == Spec => FindsOrRetries
  <1>1. ASSUME IInv, CacheInv, ScanReturns, NEW l \in candidates, Listable(l)
        PROVE  l \in services' \/ probed'[l] = "unknown"
    <2>1. l \in Listeners /\ results[l] \in {"web", "retry"}
      BY <1>1 DEF IInv, TypeOK, CacheInv, ScanReturns, Listable
    <2> QED
      BY <1>1, <2>1 DEF ScanReturns, Remember
  <1>2. IInv /\ CacheInv => [\A l \in candidates :
            ScanReturns /\ Listable(l) => l \in services' \/ probed'[l] = "unknown"]_vars
    BY <1>1
  <1> QED
    BY <1>2, Invariance, CacheInvariance, PTL DEF FindsOrRetries

-----------------------------------------------------------------------------
(***************************************************************************)
(* Liveness.  Two things are hypotheses: that a scan can begin and return  *)
(* and a probe can end, as no prover here reasons about ENABLED; and       *)
(* FinitelyMany, that what holds in the end of each answer holds in the    *)
(* end of all.  For a finite number of listeners that is a law of temporal *)
(* logic, which the prover for temporal steps, a propositional one, does   *)
(* not have.                                                               *)
(***************************************************************************)
AnswerIn(l) == l \in candidates => results[l] # "unknown"

Answered == scanning = "running" /\ \A l \in candidates : results[l] # "unknown"

CanScan ==
    /\ scanning # "running" => ENABLED <<ScanBegins>>_vars
    /\ Answered => ENABLED <<ScanReturns>>_vars

CanProbe(l) == scanning = "running" /\ ~AnswerIn(l) => ENABLED <<Probe(l)>>_vars

EachAnswers == \A l \in Listeners : <>[]AnswerIn(l)

FinitelyMany == EachAnswers => <>[](\A l \in Listeners : AnswerIn(l))

ScansReturn == []<><<ScanReturns>>_vars

\* In a scan that does not end, a probe that runs has its answer in the end.
LEMMA AnswersOne ==
    ASSUME NEW l \in Listeners
    PROVE  Spec /\ []CanProbe(l) /\ ProbeFair(l) => (<>[](scanning = "running") => <>[]AnswerIn(l))
  <1> DEFINE Running == scanning = "running"
             In == AnswerIn(l)
  <1>1. IInv /\ Running /\ In /\ [Next]_vars => ~Running' \/ In'
    <2> USE DEF IInv, TypeOK, AnswerIn
    <2>1. CASE Machine \/ UNCHANGED vars
      BY <2>1 DEF Machine, Opens, Closes, Changes, vars
    <2>2. CASE Scan
      BY <2>2 DEF Scan, ScanBegins, Probe, Outcome, ScanExpires, ScanReturns
    <2> QED
      BY <2>1, <2>2 DEF Next
  <1>2. IInv /\ <<Probe(l)>>_vars => In'
    BY DEF IInv, TypeOK, Probe, Outcome, AnswerIn
  <1>3. CanProbe(l) => (Running /\ ~In => ENABLED <<Probe(l)>>_vars)
    BY DEF CanProbe
  <1>4. Spec /\ []CanProbe(l) /\ ProbeFair(l) => (<>[]Running => <>[]In)
    <2> HIDE DEF Running, In
    <2> QED
      BY <1>1, <1>2, <1>3, Invariance, PTL DEF Spec, ProbeFair
  <1> QED
    BY <1>4, PTL DEF Running, In

\* Scans follow each other for ever, and in the end every one of them returns
\* what it has found, for any finite number of listeners (discovery.go:33-60,
\* model.go:148-158).
THEOREM ScansReturnCorrect ==
    LiveSpec /\ []CanScan /\ [](\A l \in Listeners : CanProbe(l)) /\ FinitelyMany => ScansReturn
  <1> DEFINE Running == scanning = "running"
             Idle == scanning # "running"
             Ok == scanning # "failed"
             AllIn == \A l \in Listeners : AnswerIn(l)
             CanProbeAll == \A l \in Listeners : CanProbe(l)
  <1>1. Idle /\ [Next]_vars => Idle' \/ <<ScanBegins>>_vars
    BY DEF Next, Machine, Opens, Closes, Changes, Scan, ScanBegins, Probe, ScanExpires, ScanReturns, vars
  <1>2. <<ScanBegins>>_vars => Running'
    BY DEF ScanBegins
  <1>3. Running /\ [Next]_vars => Running' \/ ~Ok' \/ <<ScanReturns>>_vars
    BY DEF Next, Machine, Opens, Closes, Changes, Scan, ScanBegins, Probe, ScanExpires, ScanReturns, vars
  <1>4. IInv /\ Running /\ AllIn => Answered
    BY DEF IInv, TypeOK, Answered, AnswerIn
  <1>5. Idle <=> ~Running
    OBVIOUS
  <1>6. CanScan => (Idle => ENABLED <<ScanBegins>>_vars) /\ (Answered => ENABLED <<ScanReturns>>_vars)
    BY DEF CanScan
  <1>7. LiveSpec => Spec /\ ScanFair /\ FastEnough
    BY DEF LiveSpec
  <1>8. LiveSpec /\ []CanProbeAll => (<>[]Running => EachAnswers)
    <2>1. ASSUME NEW l \in Listeners PROVE LiveSpec /\ []CanProbeAll => (<>[]Running => <>[]AnswerIn(l))
      <3>1. LiveSpec => Spec /\ ProbeFair(l)
        BY DEF LiveSpec
      <3>2. CanProbeAll => CanProbe(l)
        OBVIOUS
      <3> QED
        BY <3>1, <3>2, AnswersOne, PTL
    <2> QED
      BY <2>1 DEF EachAnswers
  <1>9. FinitelyMany => (EachAnswers => <>[]AllIn)
    BY DEF FinitelyMany
  <1>10. LiveSpec /\ []CanScan /\ []CanProbeAll /\ FinitelyMany => ScansReturn
    <2> HIDE DEF Running, Idle, Ok, AllIn, CanProbeAll
    <2>1. FastEnough => <>[]Ok
      BY PTL DEF FastEnough, Ok
    <2> QED
      BY <1>1, <1>2, <1>3, <1>4, <1>5, <1>6, <1>7, <1>8, <1>9, <2>1, Invariance, PTL DEF Spec, ScanFair, ScansReturn
  <1> QED
    BY <1>10, PTL DEF CanProbeAll

\* A scan that runs has l among its candidates, as a web service or unknown.
Sought(l) == scanning = "running" => l \in candidates /\ results[l] \in {"unknown", "web"}

\* A scan that began after l was there, alone on its port, seeks it.
LEMMA SoughtStays ==
    ASSUME IInv, CacheInv, [Next]_vars, NEW l \in Listeners, Listable(l), Rivals(l) = {}, Sought(l)
    PROVE  Sought(l)'
  <1> USE DEF IInv, TypeOK, Sought
  <1>1. CASE Machine \/ UNCHANGED vars
    BY <1>1 DEF Machine, Opens, Closes, Changes, vars
  <1>2. CASE ScanBegins
    <2>1. PICK kept \in DedupeByPort(up) :
              /\ candidates' = {k \in kept : k.owner = "other"}
              /\ results' = [k \in Listeners |-> IF k \in candidates' THEN probed[k] ELSE "unknown"]
      BY <1>2 DEF ScanBegins
    <2>2. l \in kept
      BY DedupeOnce DEF DedupeByPort, Listable, Rivals
    <2>3. probed[l] # "not"
      BY <1>2 DEF ScanBegins, CacheInv, Listable
    <2> QED
      BY <2>1, <2>2, <2>3 DEF Listable
  <1>3. ASSUME NEW k \in Listeners, Probe(k) PROVE Sought(l)'
    BY <1>3 DEF Probe, Outcome, Listable
  <1>4. CASE ScanExpires \/ ScanReturns
    BY <1>4 DEF ScanExpires, ScanReturns
  <1> QED
    BY <1>1, <1>2, <1>3, <1>4 DEF Next, Scan

\* Only the end of a scan changes the list.
LEMMA ServicesChange == ASSUME [Next]_vars, ~ScanReturns PROVE services' = services
  BY DEF Next, Machine, Opens, Closes, Changes, Scan, ScanBegins, Probe, ScanExpires, vars

\* A web service that stays, alone on its port, is listed in the end and stays
\* listed, for every set of listeners: neither the cache nor the order in which
\* the system lists the sockets hides it (discovery.go:78-104).
THEOREM WebListedCorrect == Spec /\ ScansReturn => WebListed
  <1>1. ASSUME NEW l \in Listeners
        PROVE  Spec /\ ScansReturn => (<>[](Listable(l) /\ Rivals(l) = {}) => <>[](l \in services))
    <2> DEFINE Stays == Listable(l) /\ Rivals(l) = {}
               Seeks == Sought(l)
               Listed == l \in services
    <2>1. IInv /\ CacheInv /\ Stays /\ Seeks /\ [Next]_vars => Seeks'
      BY SoughtStays
    <2>2. <<ScanReturns>>_vars => Seeks'
      BY DEF ScanReturns, Sought
    <2>3. IInv /\ Stays /\ Seeks /\ <<ScanReturns>>_vars => Listed'
      BY DEF ScanReturns, Sought, IInv, TypeOK
    <2>4. IInv /\ Stays /\ Seeks /\ Listed /\ [Next]_vars => Listed'
      BY <2>3, ServicesChange DEF ScanReturns, Sought
    <2>5. Spec /\ ScansReturn => (<>[]Stays => <>[]Listed)
      <3> HIDE DEF Stays, Seeks, Listed
      <3> QED
        BY <2>1, <2>2, <2>3, <2>4, Invariance, CacheInvariance, PTL DEF Spec, ScansReturn
    <2> QED
      BY <2>5, PTL DEF Stays, Listed
  <1> QED
    BY <1>1 DEF WebListed

\* A service that is gone leaves the list and does not come back: no scan that
\* began later has it, and the list is that of the last scan
\* (discovery.go:68-73).
THEOREM GoneUnlistedCorrect == Spec /\ ScansReturn => GoneUnlisted
  <1>1. ASSUME NEW l \in Listeners
        PROVE  Spec /\ ScansReturn => (<>[](l \notin up) => <>[](l \notin services))
    <2> DEFINE Gone == l \notin up
               Skips == scanning = "running" => l \notin candidates
               Unlisted == l \notin services
    <2>1. Gone /\ Skips /\ [Next]_vars => Skips'
      <3>1. ScanBegins => candidates' \subseteq up
        BY DedupeOnce DEF ScanBegins
      <3> QED
        BY <3>1 DEF Next, Machine, Opens, Closes, Changes, Scan, Probe, ScanExpires, ScanReturns, vars
    <2>2. <<ScanReturns>>_vars => Skips'
      BY DEF ScanReturns
    <2>3. Skips /\ <<ScanReturns>>_vars => Unlisted'
      BY DEF ScanReturns
    <2>4. Skips /\ Unlisted /\ [Next]_vars => Unlisted'
      BY ServicesChange DEF ScanReturns
    <2>5. Spec /\ ScansReturn => (<>[]Gone => <>[]Unlisted)
      <3> HIDE DEF Gone, Skips, Unlisted
      <3> QED
        BY <2>1, <2>2, <2>3, <2>4, PTL DEF Spec, ScansReturn
    <2> QED
      BY <2>5, PTL DEF Gone, Unlisted
  <1> QED
    BY <1>1 DEF GoneUnlisted
=============================================================================
