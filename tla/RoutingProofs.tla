--------------------------- MODULE RoutingProofs ---------------------------
(***************************************************************************)
(* Proofs about both halves of select() and about MCRouting, which puts    *)
(* them together.                                                          *)
(*                                                                         *)
(* Circuit: for any number of concurrent requests, any threshold and any   *)
(* number of openings, a report that is late changes nothing and a trial   *)
(* has one owner.                                                          *)
(*                                                                         *)
(* PressureRouting: for any number of backends and requests and any        *)
(* capacities, what the operator is shown, what a score counts, and that a *)
(* request goes where the pressure is least.                               *)
(***************************************************************************)
EXTENDS MCRouting, FiniteSetTheorems, SequenceTheorems, TLAPS

-----------------------------------------------------------------------------
(* The circuit.                                                            *)

USE CircuitAssumption DEF breaker, vars

-----------------------------------------------------------------------------
(* Stamps come from the past, so that a bumped epoch outdates all of them. *)
StampsFromThePast == \A r \in Requests : request[r].epoch <= circuit_epoch

(* A report that is still believed, unless it is the trial's, is about a   *)
(* closed circuit: every opening and every closing by a trial starts a new *)
(* epoch.                                                                  *)
CurrentReportsAreAboutClosed ==
    \A r \in Requests :
        /\ request[r].phase = "permit" /\ ~request[r].trial /\ Current(r) => circuit = "Closed"
        /\ request[r].phase = "body" /\ Current(r) => circuit = "Closed"

(* The inductive invariant.                                                *)
CircuitInv ==
    /\ TypeOK
    /\ TrialHasOneOwner
    /\ ClosedBelowThreshold
    /\ StampsFromThePast
    /\ CurrentReportsAreAboutClosed

LEMMA InitCircuitInv == Init => CircuitInv
<1> SUFFICES ASSUME Init PROVE CircuitInv
  OBVIOUS
<1>1. TypeOK
  BY DEF Init, TypeOK, CircuitState, Idle
<1>2. TrialHasOneOwner
  BY DEF Init, TrialHasOneOwner, OwnsTrial, Idle
<1>3. ClosedBelowThreshold /\ StampsFromThePast /\ CurrentReportsAreAboutClosed
  BY DEF Init, ClosedBelowThreshold, StampsFromThePast, CurrentReportsAreAboutClosed, Idle
<1> QED BY <1>1, <1>2, <1>3 DEF CircuitInv

-----------------------------------------------------------------------------
(* What one failure report does: it counts, or it opens the circuit in a   *)
(* new epoch.  The report is a trial's, or the circuit is closed.          *)
LEMMA FailureCountsOrOpens ==
  ASSUME CircuitInv, NEW b \in BOOLEAN, CountFailure(b), b \/ circuit = "Closed"
  PROVE  /\ failures' \in 0..Threshold
         /\ circuit' \in CircuitState
         /\ \/ /\ circuit' = "Open" /\ circuit_epoch' = circuit_epoch + 1
               /\ circuit_epoch' \in 0..MaxEpoch
            \/ /\ UNCHANGED <<circuit, circuit_epoch>> /\ circuit = "Closed"
               /\ failures' < Threshold
  BY DEF CircuitInv, TypeOK, CountFailure, ClosedBelowThreshold, CircuitState

LEMMA PermitKeepsInv ==
  ASSUME CircuitInv, NEW r \in Requests, TryCircuitPermit(r) PROVE CircuitInv'
<1> USE DEF CircuitInv, TypeOK, TryCircuitPermit, CircuitState
<1>1. TypeOK'
  OBVIOUS
<1>2. ClosedBelowThreshold' /\ StampsFromThePast'
  BY DEF ClosedBelowThreshold, StampsFromThePast
<1>3. TrialHasOneOwner'
  BY DEF TrialHasOneOwner, OwnsTrial, Current
<1>4. CurrentReportsAreAboutClosed'
  BY DEF CurrentReportsAreAboutClosed, TrialHasOneOwner, OwnsTrial, Current
<1> QED BY <1>1, <1>2, <1>3, <1>4

(* FailureOutcome and BodyError.                                           *)
LEMMA FailureKeepsInv ==
  ASSUME CircuitInv, NEW r \in Requests, FailureOutcome(r) \/ BodyError(r) PROVE CircuitInv'
<1> USE DEF CircuitInv
<1>1. /\ request[r].phase \in {"permit", "body"}
      /\ request' = [request EXCEPT ![r] = Idle]
  BY DEF FailureOutcome, BodyError, Done
<1>2. CASE ~Current(r)
  <2>1. UNCHANGED <<circuit, circuit_epoch, failures, failedInARow>>
    BY <1>2 DEF FailureOutcome, BodyError
  <2>2. TypeOK' /\ ClosedBelowThreshold' /\ StampsFromThePast'
    BY <1>1, <2>1 DEF TypeOK, ClosedBelowThreshold, StampsFromThePast, Idle
  <2>3. TrialHasOneOwner' /\ CurrentReportsAreAboutClosed'
    BY <1>1, <1>2, <2>1
    DEF TypeOK, TrialHasOneOwner, OwnsTrial, Current, CurrentReportsAreAboutClosed, Idle
  <2> QED BY <2>2, <2>3
<1>3. CASE Current(r)
  <2>1. CountFailure(request[r].trial) /\ RequestFailed
    BY <1>3 DEF FailureOutcome, BodyError
  <2>2. request[r].trial \in BOOLEAN /\ (request[r].trial \/ circuit = "Closed")
    BY <1>1, <1>3 DEF CurrentReportsAreAboutClosed, TypeOK
  <2>3. /\ failures' \in 0..Threshold
        /\ circuit' \in CircuitState
        /\ \/ /\ circuit' = "Open" /\ circuit_epoch' = circuit_epoch + 1
              /\ circuit_epoch' \in 0..MaxEpoch
           \/ /\ UNCHANGED <<circuit, circuit_epoch>> /\ circuit = "Closed"
              /\ failures' < Threshold
    BY <2>1, <2>2, FailureCountsOrOpens
  <2>4. failedInARow' \in 0..Threshold
    BY <2>1, <2>3 DEF RequestFailed, Min2, TypeOK
  <2>5. TypeOK' /\ ClosedBelowThreshold' /\ StampsFromThePast'
    BY <1>1, <2>3, <2>4 DEF TypeOK, ClosedBelowThreshold, StampsFromThePast, Idle
  <2>6. TrialHasOneOwner' /\ CurrentReportsAreAboutClosed'
    BY <1>1, <2>3
    DEF TypeOK, TrialHasOneOwner, OwnsTrial, Current, CurrentReportsAreAboutClosed,
        StampsFromThePast, Idle
  <2> QED BY <2>5, <2>6
<1> QED BY <1>2, <1>3

LEMMA HeadKeepsInv ==
  ASSUME CircuitInv, NEW r \in Requests, AcceptableHead(r) PROVE CircuitInv'
<1> USE DEF CircuitInv
<1>1. CASE ~Current(r)
  <2>1. /\ UNCHANGED <<circuit, circuit_epoch, failures, failedInARow>>
        /\ request' = [request EXCEPT ![r] = Idle]
    BY <1>1 DEF AcceptableHead, Done
  <2>2. TypeOK' /\ ClosedBelowThreshold' /\ StampsFromThePast'
    BY <2>1 DEF TypeOK, ClosedBelowThreshold, StampsFromThePast, Idle
  <2>3. TrialHasOneOwner' /\ CurrentReportsAreAboutClosed'
    BY <1>1, <2>1
    DEF TypeOK, TrialHasOneOwner, OwnsTrial, Current, CurrentReportsAreAboutClosed, Idle
  <2> QED BY <2>2, <2>3
<1>2. CASE Current(r)
  <2>1. /\ request[r].phase = "permit"
        /\ request[r].trial => circuit_epoch < MaxEpoch
        /\ failures' = 0 /\ circuit' = "Closed"
        /\ circuit_epoch' = IF request[r].trial THEN circuit_epoch + 1 ELSE circuit_epoch
        /\ request' = [request EXCEPT ![r].phase = "body", ![r].epoch = circuit_epoch']
        /\ failedInARow' = IF request[r].trial THEN 0 ELSE failedInARow
    BY <1>2 DEF AcceptableHead
  <2>2. circuit_epoch' \in 0..MaxEpoch /\ circuit_epoch' >= circuit_epoch
    BY <2>1 DEF TypeOK
  <2>3. /\ TypeOK'
        /\ ClosedBelowThreshold' /\ StampsFromThePast'
    <3>1. request' \in [Requests -> [phase : {"idle", "permit", "body"},
                                     epoch : 0..MaxEpoch, trial : BOOLEAN]]
      BY <2>2, <2>1 DEF TypeOK
    <3>2. failures' \in 0..Threshold /\ failedInARow' \in 0..Threshold /\ circuit' \in CircuitState
      BY <2>1 DEF TypeOK, CircuitState
    <3>3. TypeOK'
      BY <2>2, <3>1, <3>2 DEF TypeOK
    <3>4. ClosedBelowThreshold' /\ StampsFromThePast'
      BY <2>2, <2>1 DEF TypeOK, ClosedBelowThreshold, StampsFromThePast
    <3> QED BY <3>3, <3>4
  <2>4. ~request[r].trial => \A q \in Requests : ~OwnsTrial(q)
    BY <1>2, <2>1 DEF CurrentReportsAreAboutClosed, TrialHasOneOwner
  <2>5. TrialHasOneOwner' /\ CurrentReportsAreAboutClosed'
    BY <2>1, <2>4
    DEF TypeOK, TrialHasOneOwner, OwnsTrial, Current, CurrentReportsAreAboutClosed,
        StampsFromThePast
  <2> QED BY <2>3, <2>5
<1> QED BY <1>1, <1>2

LEMMA NeutralKeepsInv ==
  ASSUME CircuitInv, NEW r \in Requests, NeutralOutcome(r) PROVE CircuitInv'
<1> USE DEF CircuitInv, NeutralOutcome, Done
<1>1. TypeOK'
  BY DEF TypeOK, CircuitState, Idle
<1>2. ClosedBelowThreshold' /\ StampsFromThePast'
  BY DEF TypeOK, ClosedBelowThreshold, StampsFromThePast, Idle
<1>3. TrialHasOneOwner'
  BY DEF TypeOK, TrialHasOneOwner, OwnsTrial, Current, Idle
<1>4. CurrentReportsAreAboutClosed'
  BY DEF TypeOK, TrialHasOneOwner, OwnsTrial, Current, CurrentReportsAreAboutClosed, Idle
<1> QED BY <1>1, <1>2, <1>3, <1>4

LEMMA BodyEndKeepsInv ==
  ASSUME CircuitInv, NEW r \in Requests, BodyComplete(r) \/ BodyAbandoned(r) PROVE CircuitInv'
<1> USE DEF CircuitInv, BodyComplete, BodyAbandoned, Done
<1>1. UNCHANGED <<circuit, circuit_epoch, failures>>
  OBVIOUS
<1>2. request' = [request EXCEPT ![r] = Idle] /\ failedInARow' \in 0..Threshold
  BY DEF TypeOK
<1>3. TypeOK'
  BY <1>1, <1>2 DEF TypeOK, Idle
<1>4. ClosedBelowThreshold' /\ StampsFromThePast'
  BY <1>1, <1>2 DEF TypeOK, ClosedBelowThreshold, StampsFromThePast, Idle
<1>5. TrialHasOneOwner' /\ CurrentReportsAreAboutClosed'
  BY DEF TypeOK, TrialHasOneOwner, OwnsTrial, Current, CurrentReportsAreAboutClosed, Idle
<1> QED BY <1>3, <1>4, <1>5

LEMMA DeadlineKeepsInv == ASSUME CircuitInv, DeadlinePasses PROVE CircuitInv'
  BY DEF CircuitInv, DeadlinePasses, TypeOK, CircuitState, TrialHasOneOwner, OwnsTrial, Current,
         ClosedBelowThreshold, StampsFromThePast, CurrentReportsAreAboutClosed

LEMMA NextKeepsCircuitInv == CircuitInv /\ [Next]_vars => CircuitInv'
<1> SUFFICES ASSUME CircuitInv, [Next]_vars PROVE CircuitInv'
  OBVIOUS
<1>1. CASE UNCHANGED vars
  BY <1>1 DEF CircuitInv, TypeOK, TrialHasOneOwner, OwnsTrial, Current,
              ClosedBelowThreshold, StampsFromThePast, CurrentReportsAreAboutClosed
<1>2. CASE Next
  BY <1>2, PermitKeepsInv, FailureKeepsInv, HeadKeepsInv, NeutralKeepsInv,
     BodyEndKeepsInv, DeadlineKeepsInv DEF Next
<1> QED BY <1>1, <1>2

THEOREM CircuitInvariant == Spec => []CircuitInv
  BY InitCircuitInv, NextKeepsCircuitInv, PTL DEF Spec

-----------------------------------------------------------------------------
(* The breaker's variables keep their types; the failure count never       *)
(* passes the threshold.                                                   *)
THEOREM CircuitTypesHold == Spec => []TypeOK
<1>1. CircuitInv => TypeOK BY DEF CircuitInv
<1> QED BY <1>1, CircuitInvariant, PTL

(* A half-open circuit is decided by one trial, which never gets lost.     *)
THEOREM OneTrialDecides == Spec => []TrialHasOneOwner
<1>1. CircuitInv => TrialHasOneOwner BY DEF CircuitInv
<1> QED BY <1>1, CircuitInvariant, PTL

(* A closed circuit has failures to spare.                                 *)
THEOREM ClosedIsBelowThreshold == Spec => []ClosedBelowThreshold
<1>1. CircuitInv => ClosedBelowThreshold BY DEF CircuitInv
<1> QED BY <1>1, CircuitInvariant, PTL

(* Late reports cannot close, half-open or re-open an open circuit: only   *)
(* its deadline and then a new trial move it.                              *)
THEOREM LateReportsAreIgnored == Spec => OpenOnlyElapses
<1>1. CircuitInv /\ [Next]_vars =>
        [/\ circuit = "Open" => circuit' = "Elapsed"
         /\ circuit = "Elapsed" => circuit' = "Trial"]_breaker
  <2> SUFFICES ASSUME CircuitInv, [Next]_vars, circuit \in {"Open", "Elapsed"}
               PROVE  \/ UNCHANGED breaker
                      \/ circuit = "Open" /\ circuit' = "Elapsed"
                      \/ circuit = "Elapsed" /\ circuit' = "Trial"
    OBVIOUS
  <2>1. \A r \in Requests : request[r].phase # "idle" => ~Current(r)
    BY DEF CircuitInv, TypeOK, TrialHasOneOwner, OwnsTrial, CurrentReportsAreAboutClosed
  <2>2. CASE UNCHANGED vars
    BY <2>2
  <2>3. CASE DeadlinePasses
    BY <2>3 DEF DeadlinePasses
  <2>4. ASSUME NEW r \in Requests, TryCircuitPermit(r)
        PROVE  circuit = "Elapsed" /\ circuit' = "Trial"
    BY <2>4 DEF TryCircuitPermit
  <2>5. ASSUME NEW r \in Requests,
               \/ FailureOutcome(r) \/ AcceptableHead(r) \/ NeutralOutcome(r)
               \/ BodyError(r) \/ BodyComplete(r) \/ BodyAbandoned(r)
        PROVE  UNCHANGED breaker
    BY <2>1, <2>5 DEF FailureOutcome, AcceptableHead, NeutralOutcome, BodyError,
                      BodyComplete, BodyAbandoned
  <2> QED BY <2>2, <2>3, <2>4, <2>5 DEF Next
<1> QED BY <1>1, CircuitInvariant, PTL DEF Spec, OpenOnlyElapses

-----------------------------------------------------------------------------
(* The choice by pressure.                                                 *)

USE RoutingAssumption

(* The variables' types, the ones PressureTypeOK leaves out included.      *)
SlotType == [mode : {"Active", "Draining"}, acquired : Nat, active : Nat]
Slots == [Backends -> SlotType]
Obs == {NoObservation} \cup Observation
LiveType == [ready : BOOLEAN, circuit : {"Closed", "HalfOpen", "Open"}, obs : Obs]
Begun == [phase : {"begun"}, dispatches : Nat, transit : SUBSET Callers]
Answered == [phase : {"read"}, load : Nat, kv : Nat, dispatches : Nat, transit : SUBSET Callers]
Scrape == {NoScrape} \cup Begun \cup Answered
CallType == [pc : {"idle", "snapshot", "ranked", "transit", "engine", "done"},
             at : Backends \cup {Nobody}]
Candidate == [id : Backends, obs : Obs]
Snapshots == {<<>>} \cup Slots
Rankings == Seq(Candidate)
ChoiceType == [snapshot : Snapshots, ranked : Rankings]

Types ==
    /\ slot \in Slots
    /\ live \in [Backends -> LiveType]
    /\ scrape \in [Backends -> Scrape]
    /\ call \in [Callers -> CallType]
    /\ choice \in [Callers -> ChoiceType]
    /\ cursor \in {0, 1}

(* The requests a backend holds, and what an observation o accounts for of *)
(* those held after so many were acquired: all but the ones that were on   *)
(* their way when its scrape began.  Before the engine has answered it is  *)
(* only those on their way that need an account.                           *)
Held(b) == InTransit(b) \cup InEngine(b)

Accounts(o, acquired, held) ==
    /\ o.dispatches <= acquired
    /\ Cardinality(held \ o.transit) <= o.load + (acquired - o.dispatches)

AccountsOnTheWay(s, acquired, transit) ==
    /\ s.dispatches <= acquired
    /\ Cardinality(transit \ s.transit) <= acquired - s.dispatches

HeldInv ==
    /\ \A r \in Callers : call[r].pc \in {"transit", "engine"} => call[r].at \in Backends
    /\ \A b \in Backends : slot[b].active = Cardinality(Held(b))

CountInv ==
    \A b \in Backends :
        /\ live[b].obs.known => Accounts(live[b].obs, slot[b].acquired, Held(b))
        /\ scrape[b].phase = "read" => Accounts(scrape[b], slot[b].acquired, Held(b))
        /\ scrape[b].phase = "begun" =>
               AccountsOnTheWay(scrape[b], slot[b].acquired, InTransit(b))

(* One selection at a time: what it has read of the leases is still so,    *)
(* and its candidates are still in order.                                  *)
Selecting == {r \in Callers : call[r].pc \in {"snapshot", "ranked"}}
Acquired == [b \in Backends |-> slot[b].acquired]

PressureAt(c, acquired) ==
    LeastPressureV1(c.id, c.obs, Above(acquired[c.id], c.obs.dispatches) + 1)

InOrder(ranked, acquired) ==
    \A i, j \in DOMAIN ranked :
        i < j /\ Scored(ranked[i].id, ranked[i].obs) /\ Scored(ranked[j].id, ranked[j].obs) =>
            ~Less(PressureAt(ranked[j], acquired), PressureAt(ranked[i], acquired))

MutexInv ==
    /\ selection = Selecting
    /\ \A r, q \in Selecting : r = q

SnapshotInv ==
    \A r \in Callers : call[r].pc = "snapshot" =>
        /\ choice[r].snapshot \in Slots
        /\ \A b \in Backends : choice[r].snapshot[b].acquired = Acquired[b]

RankedInv ==
    \A r \in Callers : call[r].pc = "ranked" =>
        choice[r].ranked # <<>> /\ InOrder(choice[r].ranked, Acquired)

PressureInv == Types /\ HeldInv /\ CountInv /\ MutexInv /\ SnapshotInv /\ RankedInv
-----------------------------------------------------------------------------
(* Sorting.                                                                *)

(* A factor that is not zero can be cancelled.                             *)
LEMMA Cancel ==
    ASSUME NEW x \in Nat, NEW y \in Nat, NEW k \in Nat, k > 0, k * x < k * y
    PROVE  x < y
<1>1. SUFFICES ASSUME y <= x PROVE FALSE
  OBVIOUS
<1>2. PICK d \in Nat : x = y + d
  BY <1>1
<1>3. k * x = k * y + k * d
  BY <1>2
<1>4. k * d \in Nat /\ k * x \in Nat /\ k * y \in Nat
  OBVIOUS
<1> QED BY <1>3, <1>4

(* A factor that is not zero keeps the order.                              *)
LEMMA Scale ==
    ASSUME NEW x \in Nat, NEW y \in Nat, NEW k \in Nat, k > 0, x < y
    PROVE  k * x < k * y
<1> DEFINE d == y - x
<1>2. d \in Nat /\ d > 0 /\ y = x + d
  OBVIOUS
<1> HIDE DEF d
<1>3. k * y = k * x + k * d
  BY <1>2
<1>4. k * d \in Nat /\ k * x \in Nat /\ k * d > 0
  BY <1>2
<1> QED BY <1>3, <1>4

(* A finite set in a strict total order R can be listed in that order: an  *)
(* element's place is one more than the number of those before it.         *)
LEMMA SortExists ==
    ASSUME NEW S, IsFiniteSet(S), NEW R,
           \A x \in S : <<x, x>> \notin R,
           \A x, y, z \in S : <<x, y>> \in R /\ <<y, z>> \in R => <<x, z>> \in R,
           \A x, y \in S : x # y => <<x, y>> \in R \/ <<y, x>> \in R
    PROVE  \E s \in [1 .. Cardinality(S) -> S] :
               \A i, j \in 1 .. Cardinality(S) : i < j => <<s[i], s[j]>> \in R
<1> DEFINE n == Cardinality(S)
           before(x) == {y \in S : <<y, x>> \in R}
           place == [x \in S |-> Cardinality(before(x)) + 1]
<1>1. n \in Nat
  BY FS_CardinalityType
<1>2. ASSUME NEW x \in S
      PROVE  IsFiniteSet(before(x)) /\ Cardinality(before(x)) \in Nat /\ place[x] \in 1 .. n
  <2>1. before(x) \in SUBSET (S \ {x})
    OBVIOUS
  <2>2. IsFiniteSet(S \ {x}) /\ Cardinality(S \ {x}) = n - 1
    BY FS_RemoveElement
  <2>3. IsFiniteSet(before(x)) /\ Cardinality(before(x)) <= n - 1
    <3> HIDE DEF before, n
    <3> QED BY <2>1, <2>2, FS_Subset
  <2>4. Cardinality(before(x)) \in Nat
    BY <2>3, FS_CardinalityType
  <2> QED BY <2>3, <2>4, <1>1
<1>3. ASSUME NEW x \in S, NEW y \in S, <<x, y>> \in R PROVE place[x] < place[y]
  <2>1. before(x) \in SUBSET before(y)
    BY <1>3
  <2>2. before(x) # before(y)
    <3>1. x \in before(y) /\ x \notin before(x)
      BY <1>3
    <3> QED BY <3>1
  <2>3. Cardinality(before(x)) <= Cardinality(before(y))
        /\ Cardinality(before(y)) # Cardinality(before(x))
    <3> HIDE DEF before
    <3> QED BY <2>1, <2>2, <1>2, FS_Subset
  <2>4. Cardinality(before(x)) \in Nat /\ Cardinality(before(y)) \in Nat
    BY <1>2
  <2>5. place[x] = Cardinality(before(x)) + 1 /\ place[y] = Cardinality(before(y)) + 1
    OBVIOUS
  <2> HIDE DEF place, before
  <2> QED BY <2>3, <2>4, <2>5
<1>4. place \in Injection(S, 1 .. n)
  <2>1. place \in [S -> 1 .. n]
    BY <1>2
  <2>2. ASSUME NEW x \in S, NEW y \in S, place[x] = place[y] PROVE x = y
    <3>1. place[x] \in Nat
      <4>1. place[x] \in 1 .. n
        BY <1>2
      <4> HIDE DEF place, n
      <4> QED BY <1>1, <4>1
    <3> HIDE DEF place, n
    <3>2. ~(place[x] < place[y]) /\ ~(place[y] < place[x])
      BY <2>2, <3>1
    <3>3. ~(<<x, y>> \in R) /\ ~(<<y, x>> \in R)
      BY <1>3, <3>2
    <3> QED BY <3>3
  <2> HIDE DEF place, n
  <2> QED BY <2>1, <2>2 DEF Injection, IsInjective
<1>5. IsFiniteSet(1 .. n) /\ Cardinality(1 .. n) = n
  BY <1>1, FS_Interval
<1>6. place \in Surjection(S, 1 .. n)
  BY <1>4, <1>5, FS_Injection
<1> DEFINE s == [i \in 1 .. n |-> CHOOSE x \in S : place[x] = i]
<1>7. \A i \in 1 .. n : s[i] \in S /\ place[s[i]] = i
  <2> HIDE DEF place
  <2> QED BY <1>6 DEF Surjection
<1>8. ASSUME NEW i \in 1 .. n, NEW j \in 1 .. n, i < j PROVE <<s[i], s[j]>> \in R
  <2> HIDE DEF s, place
  <2>1. s[i] # s[j]
    BY <1>7, <1>8
  <2>2. ~(<<s[j], s[i]>> \in R)
    BY <1>3, <1>7, <1>8
  <2> QED BY <2>1, <2>2, <1>7
<1>9. s \in [1 .. n -> S]
  BY <1>7
<1> HIDE DEF s
<1> QED BY <1>8, <1>9
(* Fractions compared by cross products.                                   *)
Fraction == [num : Nat, den : Nat \ {0}]

(* a/b <= c/d and c/d <= e/f give a/b <= e/f, strictly if one of them is.  *)
LEMMA CrossProducts ==
    ASSUME NEW a \in Nat, NEW b \in Nat, NEW c \in Nat, NEW d \in Nat, NEW e \in Nat, NEW f \in Nat,
           b > 0, d > 0, f > 0, a * d <= c * b, c * f <= e * d
    PROVE  /\ a * f <= e * b
           /\ a * d < c * b \/ c * f < e * d => a * f < e * b
<1> DEFINE ad == a * d  cb == c * b  cf == c * f  ed == e * d  af == a * f  eb == e * b
<1>1. ad \in Nat /\ cb \in Nat /\ cf \in Nat /\ ed \in Nat /\ af \in Nat /\ eb \in Nat
  OBVIOUS
<1>2. d * af = f * ad /\ f * cb = b * cf /\ b * ed = d * eb
  OBVIOUS
<1> HIDE DEF ad, cb, cf, ed, af, eb
<1>3. ad <= cb /\ cf <= ed
  BY DEF ad, cb, cf, ed
<1>4. /\ f * ad \in Nat /\ f * cb \in Nat /\ b * cf \in Nat /\ b * ed \in Nat
      /\ d * eb \in Nat /\ d * af \in Nat
  BY <1>1
<1>5. /\ ad < cb => f * ad < f * cb
      /\ ad = cb => f * ad = f * cb
  BY <1>1, Scale
<1>6. /\ cf < ed => b * cf < b * ed
      /\ cf = ed => b * cf = b * ed
  BY <1>1, Scale
<1>7. ad < cb \/ cf < ed => d * af < d * eb
  BY <1>1, <1>2, <1>3, <1>4, <1>5, <1>6
<1>8. ad < cb \/ cf < ed => af < eb
  BY <1>1, <1>7, Cancel
<1>9. ad = cb /\ cf = ed => d * af = d * eb
  BY <1>2, <1>5, <1>6
<1>10. ad = cb /\ cf = ed => ~(eb < af)
  BY <1>1, <1>4, <1>9, Scale
<1>11. af <= eb
  BY <1>1, <1>3, <1>8, <1>10
<1> QED BY <1>8, <1>11 DEF ad, cb, cf, ed, af, eb

(* Less is a strict weak order.                                            *)
LEMMA LessOrders ==
    ASSUME NEW p \in Fraction, NEW q \in Fraction, NEW t \in Fraction
    PROVE  /\ ~Less(p, p)
           /\ Less(p, q) => ~Less(q, p)
           /\ ~Less(q, p) /\ ~Less(t, q) => ~Less(t, p)
           /\ ~Less(q, p) /\ Less(q, t) => Less(p, t)
           /\ Less(p, q) /\ ~Less(t, q) => Less(p, t)
<1>1. /\ p.num \in Nat /\ q.num \in Nat /\ t.num \in Nat
      /\ p.den \in Nat /\ q.den \in Nat /\ t.den \in Nat
      /\ p.den > 0 /\ q.den > 0 /\ t.den > 0
  BY DEF Fraction
<1> DEFINE pq == p.num * q.den  qp == q.num * p.den  qt == q.num * t.den
           tq == t.num * q.den  pt == p.num * t.den  tp == t.num * p.den
<1>2. pq \in Nat /\ qp \in Nat /\ qt \in Nat /\ tq \in Nat /\ pt \in Nat /\ tp \in Nat
      /\ p.num * p.den \in Nat
  BY <1>1
<1>3. pq <= qp /\ qt <= tq => pt <= tp /\ (pq < qp \/ qt < tq => pt < tp)
  BY <1>1, CrossProducts
<1>4. /\ Less(p, q) <=> pq < qp
      /\ Less(q, p) <=> qp < pq
      /\ Less(q, t) <=> qt < tq
      /\ Less(t, q) <=> tq < qt
      /\ Less(p, t) <=> pt < tp
      /\ Less(t, p) <=> tp < pt
      /\ Less(p, p) <=> p.num * p.den < p.num * p.den
  BY DEF Less
<1> HIDE DEF pq, qp, qt, tq, pt, tp
<1> QED BY <1>2, <1>3, <1>4
-----------------------------------------------------------------------------
(* select()'s order.                                                       *)

(* An observation is missing or has all its fields.                        *)
LEMMA ObsFacts ==
    ASSUME NEW o \in Obs, o.known
    PROVE  o \in Observation
  BY DEF Obs, NoObservation

LEMMA AboveNat == \A a, b \in Nat : Above(a, b) \in Nat
  BY DEF Above

LEMMA CapacityNat == \A b \in Backends : EffectiveCapacity(b) \in Nat
  BY DEF EffectiveCapacity, Lower

(* The score of a scored backend is a fraction.                            *)
LEMMA ScoreIsFraction ==
    ASSUME NEW b \in Backends, NEW o \in Obs, Scored(b, o), NEW new \in Nat
    PROVE  LeastPressureV1(b, o, new) \in Fraction
<1> DEFINE c == EffectiveCapacity(b)
           q == 100 - SoftLimit
           above == Above(o.kv, SoftLimit)
<1>1. o \in Observation
  BY ObsFacts DEF Scored
<1>2. c \in Nat /\ c > 0
  BY CapacityNat DEF Scored
<1>3. q \in Nat /\ q > 0
  OBVIOUS
<1>4. above \in Nat /\ o.load + new \in Nat
  <2>1. o.kv \in Nat /\ o.load \in Nat /\ SoftLimit \in Nat
    BY <1>1 DEF Observation
  <2>2. Above(o.kv, SoftLimit) \in Nat
    BY <2>1, AboveNat
  <2>3. o.load + new \in Nat
    BY <2>1
  <2> QED BY <2>2, <2>3
<1>5. LeastPressureV1(b, o, new) = [num |-> (o.load + new) * q + above * c, den |-> c * q]
  BY DEF LeastPressureV1
<1> HIDE DEF c, q, above
<1> DEFINE n == o.load + new
<1>6. n \in Nat
  BY <1>4
<1> HIDE DEF n
<1>7. n * q + above * c \in Nat /\ c * q \in Nat /\ c * q > 0
  BY <1>2, <1>3, <1>4, <1>6
<1>8. LeastPressureV1(b, o, new) = [num |-> n * q + above * c, den |-> c * q]
  BY <1>5 DEF n
<1> QED BY <1>7, <1>8 DEF Fraction

(* What select() scores with is a number of new requests.                  *)
LEMMA ScoreAtIsFraction ==
    ASSUME Types, NEW snapshot \in Slots, NEW b \in Backends, Scored(b, live[b].obs)
    PROVE  ScoreAt(snapshot, b) \in Fraction
<1>1. live[b].obs \in Obs /\ live[b].obs \in Observation
  BY ObsFacts DEF Types, LiveType, Scored
<1>2. snapshot[b].acquired \in Nat /\ live[b].obs.dispatches \in Nat
  BY <1>1 DEF Slots, SlotType, Observation
<1>3. Above(snapshot[b].acquired, live[b].obs.dispatches) + 1 \in Nat
  <2>1. Above(snapshot[b].acquired, live[b].obs.dispatches) \in Nat
    BY <1>2, AboveNat
  <2> QED BY <2>1
<1> QED BY <1>1, <1>3, ScoreIsFraction DEF ScoreAt, ScoreCandidate

(* Requests in flight, then the rotated identifier: a strict total order.  *)
LEMMA TieOrders ==
    ASSUME cursor \in {0, 1}, NEW snapshot \in Slots,
           NEW a \in Backends, NEW b \in Backends, NEW c \in Backends
    PROVE  LET Tie(x, y) == \/ snapshot[x].active < snapshot[y].active
                            \/ snapshot[x].active = snapshot[y].active /\ RotatedCmp(x, y)
           IN /\ ~Tie(a, a)
              /\ Tie(a, b) /\ Tie(b, c) => Tie(a, c)
              /\ a # b => Tie(a, b) \/ Tie(b, a)
<1>1. /\ snapshot[a].active \in Nat /\ snapshot[b].active \in Nat /\ snapshot[c].active \in Nat
      /\ a \in Nat /\ b \in Nat /\ c \in Nat
  BY DEF Slots, SlotType
<1> QED BY <1>1 DEF RotatedCmp

(* sort_by's comparison is a strict total order of the candidates.         *)
LEMMA BeforeOrders ==
    ASSUME Types, NEW snapshot \in Slots, NEW byScore \in BOOLEAN,
           NEW S \in SUBSET Backends, byScore => \A b \in S : Scored(b, live[b].obs),
           NEW a \in S, NEW b \in S, NEW c \in S
    PROVE  /\ ~Before(snapshot, a, a, byScore)
           /\ Before(snapshot, a, b, byScore) /\ Before(snapshot, b, c, byScore)
                  => Before(snapshot, a, c, byScore)
           /\ a # b => Before(snapshot, a, b, byScore) \/ Before(snapshot, b, a, byScore)
<1> DEFINE Tie(x, y) == \/ snapshot[x].active < snapshot[y].active
                        \/ snapshot[x].active = snapshot[y].active /\ RotatedCmp(x, y)
<1>1. /\ ~Tie(a, a)
      /\ Tie(a, b) /\ Tie(b, c) => Tie(a, c)
      /\ a # b => Tie(a, b) \/ Tie(b, a)
  BY TieOrders DEF Types
<1>2. /\ Before(snapshot, a, a, byScore) <=>
             \/ byScore /\ Less(ScoreAt(snapshot, a), ScoreAt(snapshot, a))
             \/ (byScore => ~Less(ScoreAt(snapshot, a), ScoreAt(snapshot, a))) /\ Tie(a, a)
      /\ Before(snapshot, a, b, byScore) <=>
             \/ byScore /\ Less(ScoreAt(snapshot, a), ScoreAt(snapshot, b))
             \/ (byScore => ~Less(ScoreAt(snapshot, b), ScoreAt(snapshot, a))) /\ Tie(a, b)
      /\ Before(snapshot, b, a, byScore) <=>
             \/ byScore /\ Less(ScoreAt(snapshot, b), ScoreAt(snapshot, a))
             \/ (byScore => ~Less(ScoreAt(snapshot, a), ScoreAt(snapshot, b))) /\ Tie(b, a)
      /\ Before(snapshot, b, c, byScore) <=>
             \/ byScore /\ Less(ScoreAt(snapshot, b), ScoreAt(snapshot, c))
             \/ (byScore => ~Less(ScoreAt(snapshot, c), ScoreAt(snapshot, b))) /\ Tie(b, c)
      /\ Before(snapshot, a, c, byScore) <=>
             \/ byScore /\ Less(ScoreAt(snapshot, a), ScoreAt(snapshot, c))
             \/ (byScore => ~Less(ScoreAt(snapshot, c), ScoreAt(snapshot, a))) /\ Tie(a, c)
  BY DEF Before
<1> HIDE DEF Tie
<1>3. CASE ~byScore
  BY <1>1, <1>2, <1>3
<1>4. CASE byScore
  <2> DEFINE p == ScoreAt(snapshot, a)
             q == ScoreAt(snapshot, b)
             t == ScoreAt(snapshot, c)
  <2>1. p \in Fraction /\ q \in Fraction /\ t \in Fraction
    BY <1>4, ScoreAtIsFraction
  <2> HIDE DEF p, q, t
  <2>2. /\ ~Less(p, p)
        /\ Less(p, q) => ~Less(q, p)
        /\ ~Less(q, p) /\ ~Less(t, q) => ~Less(t, p)
        /\ ~Less(q, p) /\ Less(q, t) => Less(p, t)
        /\ Less(p, q) /\ ~Less(t, q) => Less(p, t)
    BY <2>1, LessOrders
  <2>3. Less(q, t) => ~Less(t, q)
    BY <2>1, LessOrders
  <2> QED BY <1>1, <1>2, <1>4, <2>2, <2>3 DEF p, q, t
<1> QED BY <1>3, <1>4

(* Ranked lists the candidates, each with its observation, in order.       *)
LEMMA RankedFacts ==
    ASSUME Types, NEW snapshot \in Slots, Candidates(snapshot) # {}
    PROVE  LET ranked == Ranked(snapshot)
               byScore == \E b \in Candidates(snapshot) : Scored(b, live[b].obs)
           IN /\ ranked \in Seq(Candidate) /\ ranked # <<>>
              /\ \A i \in DOMAIN ranked : /\ ranked[i].id \in Candidates(snapshot)
                                          /\ ranked[i].obs = live[ranked[i].id].obs
              /\ \A i, j \in DOMAIN ranked :
                     i < j => Before(snapshot, ranked[i].id, ranked[j].id, byScore)
<1> DEFINE S == Candidates(snapshot)
           byScore == \E b \in S : Scored(b, live[b].obs)
           n == Cardinality(S)
           P(s) == \A i, j \in DOMAIN s : i < j => Before(snapshot, s[i], s[j], byScore)
           order == CHOOSE s \in [1 .. n -> S] : P(s)
           R == {e \in S \X S : Before(snapshot, e[1], e[2], byScore)}
           ranked == [i \in DOMAIN order |-> [id |-> order[i], obs |-> live[order[i]].obs]]
<1>1. S \in SUBSET Backends /\ byScore \in BOOLEAN
  BY DEF Candidates
<1>2. byScore => \A b \in S : Scored(b, live[b].obs)
  BY DEF Candidates
<1>3. Ranked(snapshot) = ranked
  BY DEF Ranked
<1>4. IsFiniteSet(S) /\ n \in Nat
  <2>1. IsFiniteSet(S)
    <3> HIDE DEF S
    <3> QED BY <1>1, FS_Subset
  <2> QED BY <2>1, FS_CardinalityType
<1>5. n # 0
  BY <1>4, FS_EmptySet
<1> HIDE DEF S, byScore
<1>6. \A x, y, z \in S :
        /\ ~Before(snapshot, x, x, byScore)
        /\ Before(snapshot, x, y, byScore) /\ Before(snapshot, y, z, byScore)
               => Before(snapshot, x, z, byScore)
        /\ x # y => Before(snapshot, x, y, byScore) \/ Before(snapshot, y, x, byScore)
  BY <1>1, <1>2, BeforeOrders
<1>7. \A x, y \in S : <<x, y>> \in R <=> Before(snapshot, x, y, byScore)
  OBVIOUS
<1> HIDE DEF R
<1>8. \E s \in [1 .. n -> S] : \A i, j \in 1 .. n : i < j => <<s[i], s[j]>> \in R
  BY <1>4, <1>6, <1>7, SortExists
<1>9. \E s \in [1 .. n -> S] : P(s)
  BY <1>7, <1>8
<1>10. order \in [1 .. n -> S] /\ P(order)
  <2> HIDE DEF P
  <2> QED BY <1>9
<1> HIDE DEF order
<1>11. /\ DOMAIN ranked = 1 .. n
       /\ \A i \in 1 .. n : ranked[i] = [id |-> order[i], obs |-> live[order[i]].obs]
  BY <1>10
<1> HIDE DEF ranked
<1>12. \A i \in 1 .. n : ranked[i] \in Candidate
  <2>1. \A i \in 1 .. n : order[i] \in Backends
    BY <1>1, <1>10
  <2>2. \A b \in Backends : live[b].obs \in Obs
    BY DEF Types, LiveType
  <2>3. \A b \in Backends, o \in Obs : [id |-> b, obs |-> o] \in Candidate
    BY DEF Candidate
  <2> SUFFICES ASSUME NEW i \in 1 .. n PROVE ranked[i] \in Candidate
    OBVIOUS
  <2>4. ranked[i] = [id |-> order[i], obs |-> live[order[i]].obs]
    BY <1>11
  <2>5. order[i] \in Backends /\ live[order[i]].obs \in Obs
    BY <2>1, <2>2
  <2> QED BY <2>3, <2>4, <2>5
<1>13. ranked \in Seq(Candidate)
  <2>1. ranked \in [1 .. n -> Candidate]
    BY <1>3, <1>11, <1>12 DEF ranked
  <2> QED BY <2>1, <1>4, SeqDef
<1>14. ranked # <<>>
  BY <1>4, <1>5, <1>11
<1>15. \A i \in 1 .. n : ranked[i].id = order[i] /\ ranked[i].obs = live[order[i]].obs
  BY <1>11
<1>16. \A i, j \in 1 .. n : i < j => Before(snapshot, ranked[i].id, ranked[j].id, byScore)
  BY <1>10, <1>15
<1>17. \A i \in 1 .. n : ranked[i].id \in S /\ ranked[i].obs = live[ranked[i].id].obs
  BY <1>10, <1>15
<1> QED BY <1>3, <1>11, <1>13, <1>14, <1>16, <1>17 DEF S, byScore
-----------------------------------------------------------------------------
(* Accounts.                                                               *)

(* Fewer requests need no more account.                                    *)
LEMMA AccountsShrink ==
    ASSUME NEW o, NEW acquired, NEW held, NEW less, less \subseteq held, IsFiniteSet(held),
           o.load + (acquired - o.dispatches) \in Int
    PROVE  Accounts(o, acquired, held) => Accounts(o, acquired, less)
<1>1. IsFiniteSet(held \ o.transit) /\ less \ o.transit \in SUBSET (held \ o.transit)
  BY FS_Difference
<1>2. /\ Cardinality(less \ o.transit) <= Cardinality(held \ o.transit)
      /\ IsFiniteSet(less \ o.transit)
  BY <1>1, FS_Subset
<1>3. Cardinality(less \ o.transit) \in Nat /\ Cardinality(held \ o.transit) \in Nat
  BY <1>1, <1>2, FS_CardinalityType
<1> QED BY <1>2, <1>3 DEF Accounts

(* A request that gets its lease is one more of both.                      *)
LEMMA AccountsGrow ==
    ASSUME NEW o, NEW acquired \in Nat, NEW held, NEW r, IsFiniteSet(held),
           o.load \in Nat, o.dispatches \in Nat, Accounts(o, acquired, held)
    PROVE  Accounts(o, acquired + 1, held \cup {r})
<1> DEFINE before == held \ o.transit
           after == (held \cup {r}) \ o.transit
<1>1. IsFiniteSet(before)
  BY FS_Difference
<1>2. /\ IsFiniteSet(before \cup {r})
      /\ Cardinality(before \cup {r}) <= Cardinality(before) + 1
      /\ Cardinality(before) \in Nat /\ Cardinality(before \cup {r}) \in Nat
  <2> HIDE DEF before
  <2>1. IsFiniteSet(before \cup {r}) /\ Cardinality(before) \in Nat
    BY <1>1, FS_AddElement, FS_CardinalityType
  <2>2. Cardinality(before \cup {r}) \in Nat
    BY <2>1, FS_CardinalityType
  <2>3. Cardinality(before \cup {r}) =
           IF r \in before THEN Cardinality(before) ELSE Cardinality(before) + 1
    BY <1>1, FS_AddElement
  <2> QED BY <2>1, <2>2, <2>3
<1>3. after \in SUBSET (before \cup {r})
  OBVIOUS
<1>4. IsFiniteSet(after) /\ Cardinality(after) <= Cardinality(before \cup {r})
  <2> HIDE DEF before, after
  <2> QED BY <1>2, <1>3, FS_Subset
<1>5. Cardinality(after) \in Nat
  BY <1>4, FS_CardinalityType
<1>6. o.dispatches <= acquired /\ Cardinality(before) <= o.load + (acquired - o.dispatches)
  BY DEF Accounts
<1>7. o.dispatches <= acquired + 1 /\ Cardinality(after) <= o.load + (acquired + 1 - o.dispatches)
  <2> HIDE DEF before, after
  <2> QED BY <1>2, <1>4, <1>5, <1>6
<1> QED BY <1>7 DEF Accounts

(* What is on its way is accounted for as a load of zero would be.         *)
LEMMA OnTheWay ==
    ASSUME NEW s \in Begun, NEW acquired \in Nat, NEW transit
    PROVE  AccountsOnTheWay(s, acquired, transit) <=>
           Accounts([load |-> 0, dispatches |-> s.dispatches, transit |-> s.transit],
                    acquired, transit)
<1>1. s.dispatches \in Nat
  BY DEF Begun
<1>2. 0 + (acquired - s.dispatches) = acquired - s.dispatches
  BY <1>1
<1> QED BY <1>2 DEF AccountsOnTheWay, Accounts

(* The engine's answer: what is in it is the load.                         *)
LEMMA AnswerAccounts ==
    ASSUME NEW s \in Begun, NEW acquired \in Nat, NEW transit, NEW inside, NEW o,
           IsFiniteSet(transit), IsFiniteSet(inside),
           o.load = Cardinality(inside), o.dispatches = s.dispatches, o.transit = s.transit,
           AccountsOnTheWay(s, acquired, transit)
    PROVE  Accounts(o, acquired, transit \cup inside)
<1> DEFINE way == transit \ s.transit
           all == (transit \cup inside) \ s.transit
<1>1. IsFiniteSet(way) /\ IsFiniteSet(way \cup inside)
  BY FS_Difference, FS_Union
<1>2. Cardinality(way \cup inside) <= Cardinality(way) + Cardinality(inside)
  <2> HIDE DEF way
  <2>1. Cardinality(way \cup inside) =
            Cardinality(way) + Cardinality(inside) - Cardinality(way \cap inside)
    BY <1>1, FS_Union
  <2>2. Cardinality(way \cap inside) \in Nat
    BY <1>1, FS_Intersection, FS_CardinalityType
  <2>3. Cardinality(way) \in Nat /\ Cardinality(inside) \in Nat
    BY <1>1, FS_CardinalityType
  <2> QED BY <2>1, <2>2, <2>3
<1>3. all \in SUBSET (way \cup inside)
  OBVIOUS
<1>4. IsFiniteSet(all) /\ Cardinality(all) <= Cardinality(way \cup inside)
  <2> HIDE DEF way, all
  <2> QED BY <1>1, <1>3, FS_Subset
<1>5. /\ Cardinality(all) \in Nat /\ Cardinality(way) \in Nat /\ Cardinality(inside) \in Nat
      /\ Cardinality(way \cup inside) \in Nat
  BY <1>1, <1>4, FS_CardinalityType
<1>6. s.dispatches \in Nat /\ s.dispatches <= acquired
      /\ Cardinality(way) <= acquired - s.dispatches
  BY DEF Begun, AccountsOnTheWay
<1>7. Cardinality(all) <= Cardinality(inside) + (acquired - s.dispatches)
  <2> HIDE DEF way, all
  <2> QED BY <1>2, <1>4, <1>5, <1>6
<1> QED BY <1>6, <1>7 DEF Accounts
-----------------------------------------------------------------------------
(* What a step leaves alone.                                               *)

LEMMA HeldFinite ==
    ASSUME NEW b
    PROVE  /\ IsFiniteSet(InTransit(b)) /\ IsFiniteSet(InEngine(b)) /\ IsFiniteSet(Held(b))
           /\ Cardinality(InEngine(b)) \in Nat /\ Cardinality(Held(b)) \in Nat
<1>1. InTransit(b) \in SUBSET Callers /\ InEngine(b) \in SUBSET Callers
  BY DEF InTransit, InEngine
<1>2. Held(b) \in SUBSET Callers
  BY <1>1 DEF Held
<1>3. IsFiniteSet(InTransit(b)) /\ IsFiniteSet(InEngine(b)) /\ IsFiniteSet(Held(b))
  BY <1>1, <1>2, FS_Subset
<1> QED BY <1>3, FS_CardinalityType

(* Requests that neither get nor lose a lease leave what is held.          *)
LEMMA HeldSame ==
    ASSUME \A r \in Callers :
               \/ call'[r] = call[r]
               \/ call[r].pc \notin {"transit", "engine"} /\ call'[r].pc \notin {"transit", "engine"},
           NEW b
    PROVE  InTransit(b)' = InTransit(b) /\ InEngine(b)' = InEngine(b) /\ Held(b)' = Held(b)
<1>1. \A r \in Callers : call'[r] = [pc |-> "transit", at |-> b] <=> call[r] = [pc |-> "transit", at |-> b]
  OBVIOUS
<1>2. \A r \in Callers : call'[r] = [pc |-> "engine", at |-> b] <=> call[r] = [pc |-> "engine", at |-> b]
  OBVIOUS
<1>3. InTransit(b)' = InTransit(b)
  BY <1>1 DEF InTransit
<1>4. InEngine(b)' = InEngine(b)
  BY <1>2 DEF InEngine
<1> QED BY <1>3, <1>4 DEF Held

LEMMA CountSame ==
    ASSUME CountInv, UNCHANGED <<live, scrape>>,
           \A b \in Backends : slot'[b].acquired = slot[b].acquired,
           \A b \in Backends : InTransit(b)' = InTransit(b) /\ Held(b)' = Held(b)
    PROVE  CountInv'
  BY DEF CountInv

(* Steps outside select() that acquire nothing.                            *)
LEMMA SelectionSame ==
    ASSUME MutexInv, SnapshotInv, RankedInv, UNCHANGED <<choice, selection>>,
           \A r \in Callers :
               \/ call'[r] = call[r]
               \/ call[r].pc \notin {"snapshot", "ranked"} /\ call'[r].pc \notin {"snapshot", "ranked"},
           \A b \in Backends : slot'[b].acquired = slot[b].acquired
    PROVE  MutexInv' /\ SnapshotInv' /\ RankedInv'
<1>1. Acquired' = Acquired
  BY DEF Acquired
<1>2. Selecting' = Selecting
  BY DEF Selecting
<1>3. MutexInv'
  BY <1>2 DEF MutexInv
<1>4. SnapshotInv'
  BY <1>1 DEF SnapshotInv
<1>5. RankedInv'
  BY <1>1 DEF RankedInv
<1> QED BY <1>3, <1>4, <1>5

(* Field by field: what a record of each type is made of.                  *)
LEMMA RecordFacts ==
    ASSUME Types
    PROVE  /\ \A b \in Backends : /\ slot[b] \in SlotType /\ slot[b].acquired \in Nat
                                  /\ slot[b].active \in Nat
                                  /\ live[b] \in LiveType /\ live[b].obs \in Obs
                                  /\ scrape[b] \in Scrape
           /\ \A r \in Callers : call[r] \in CallType /\ choice[r] \in ChoiceType
  BY DEF Types, Slots, SlotType, LiveType

(* A scrape's phase says which fields it has.                              *)
LEMMA PhaseFacts ==
    ASSUME NEW s \in Scrape
    PROVE  /\ s.phase = "begun" => s \in Begun
           /\ s.phase = "read" => s \in Answered
           /\ s # NoScrape => s.phase # "none"
  BY DEF Scrape, Begun, Answered, NoScrape

LEMMA InitPressureInv == PressureInit => PressureInv
<1> SUFFICES ASSUME PressureInit PROVE PressureInv
  OBVIOUS
<1> USE DEF PressureInit
<1>1. Types
  <2>1. slot \in Slots
    BY DEF Slots, SlotType
  <2>2. live \in [Backends -> LiveType]
    BY DEF LiveType, Obs
  <2>3. scrape \in [Backends -> Scrape]
    BY DEF Scrape
  <2>4. NoCall \in CallType
    BY DEF NoCall, CallType
  <2>5. NoChoice \in ChoiceType
    <3>1. <<>> \in Rankings
      BY DEF Rankings
    <3> QED BY <3>1 DEF NoChoice, ChoiceType, Snapshots
  <2> QED BY <2>1, <2>2, <2>3, <2>4, <2>5 DEF Types
<1>2. \A r \in Callers : call[r].pc = "idle"
  BY DEF NoCall
<1>3. \A b : InTransit(b) = {} /\ InEngine(b) = {} /\ Held(b) = {}
  BY <1>2 DEF InTransit, InEngine, Held
<1>4. HeldInv
  BY <1>2, <1>3, FS_EmptySet DEF HeldInv
<1>5. CountInv
  BY DEF CountInv, NoObservation, NoScrape
<1>6. MutexInv /\ SnapshotInv /\ RankedInv
  BY <1>2 DEF MutexInv, SnapshotInv, RankedInv, Selecting
<1> QED BY <1>1, <1>4, <1>5, <1>6 DEF PressureInv
-----------------------------------------------------------------------------
(* select().                                                               *)

(* A caller's step inside select(): only its own call and choice change.   *)
LEMMA CallerMoves ==
    ASSUME Types, NEW r \in Callers,
           NEW p \in {"idle", "snapshot", "ranked", "transit", "engine", "done"},
           call' = [call EXCEPT ![r].pc = p]
    PROVE  /\ call' \in [Callers -> CallType]
           /\ call'[r].pc = p /\ call'[r].at = call[r].at
           /\ \A q \in Callers \ {r} : call'[q] = call[q]
  BY DEF Types, CallType

LEMMA EmptyChoice == NoChoice \in ChoiceType
<1>1. <<>> \in Rankings
  BY DEF Rankings
<1> QED BY <1>1 DEF NoChoice, ChoiceType, Snapshots

(* Inside select() nothing is acquired: leases and counts stay.            *)
LEMMA SelectingKeepsCounts ==
    ASSUME PressureInv, UNCHANGED <<slot, live, scrape>>, NEW r \in Callers,
           call[r].pc \notin {"transit", "engine"}, call'[r].pc \notin {"transit", "engine"},
           \A q \in Callers \ {r} : call'[q] = call[q]
    PROVE  HeldInv' /\ CountInv' /\ Acquired' = Acquired
<1>1. \A b : InTransit(b)' = InTransit(b) /\ Held(b)' = Held(b)
  BY HeldSame
<1>2. HeldInv'
  BY <1>1 DEF PressureInv, HeldInv
<1>3. CountInv'
  BY <1>1, CountSame DEF PressureInv
<1> QED BY <1>2, <1>3 DEF Acquired

LEMMA SnapshotKeepsInv ==
    ASSUME PressureInv, NEW r \in Callers, SelectSnapshot(r) PROVE PressureInv'
<1> USE DEF SelectSnapshot
<1>0. Types /\ MutexInv /\ SnapshotInv /\ RankedInv
  BY DEF PressureInv
<1>1. /\ call' \in [Callers -> CallType] /\ call'[r].pc = "snapshot"
      /\ \A q \in Callers \ {r} : call'[q] = call[q]
  BY <1>0, CallerMoves
<1>2. call[r].pc = "idle"
  BY DEF NoCall
<1>3. /\ choice' \in [Callers -> ChoiceType] /\ choice'[r].snapshot = slot
      /\ \A q \in Callers \ {r} : choice'[q] = choice[q]
  <2>1. slot \in Snapshots
    BY <1>0 DEF Types, Snapshots
  <2> QED BY <1>0, <2>1 DEF Types, ChoiceType
<1>4. Types'
  BY <1>0, <1>1, <1>3 DEF Types
<1>5. HeldInv' /\ CountInv' /\ Acquired' = Acquired
  BY <1>1, <1>2, SelectingKeepsCounts
<1>6. Selecting = {}
  BY <1>0 DEF MutexInv
<1>7. Selecting' = {r}
  BY <1>1, <1>6 DEF Selecting
<1>8. MutexInv'
  BY <1>7 DEF MutexInv
<1>9. \A q \in Callers \ {r} : call'[q].pc \notin {"snapshot", "ranked"}
  BY <1>7 DEF Selecting
<1>10. SnapshotInv'
  BY <1>0, <1>1, <1>3, <1>5, <1>9 DEF SnapshotInv, Types, Acquired
<1>11. RankedInv'
  BY <1>1, <1>9 DEF RankedInv
<1> QED BY <1>4, <1>5, <1>8, <1>10, <1>11 DEF PressureInv

(* A refusal ends the selection.                                           *)
LEMMA RefuseKeepsInv ==
    ASSUME PressureInv, NEW r \in Callers, call[r].pc \in {"snapshot", "ranked"}, Refuse(r),
           UNCHANGED <<slot, live, scrape>>, cursor' \in {0, 1}
    PROVE  PressureInv'
<1> USE DEF Refuse
<1>0. Types /\ MutexInv
  BY DEF PressureInv
<1>1. /\ call' \in [Callers -> CallType] /\ call'[r].pc = "done"
      /\ \A q \in Callers \ {r} : call'[q] = call[q]
  BY <1>0, CallerMoves
<1>2. choice' \in [Callers -> ChoiceType]
  BY <1>0, EmptyChoice DEF Types
<1>3. Types'
  BY <1>0, <1>1, <1>2 DEF Types
<1>4. HeldInv' /\ CountInv'
  BY <1>1, SelectingKeepsCounts
<1>5. Selecting = {r}
  BY <1>0 DEF MutexInv, Selecting
<1>6. Selecting' = {}
  BY <1>1, <1>5 DEF Selecting
<1>7. MutexInv'
  BY <1>0, <1>5, <1>6 DEF MutexInv
<1>8. SnapshotInv' /\ RankedInv'
  BY <1>6 DEF Selecting, SnapshotInv, RankedInv
<1> QED BY <1>3, <1>4, <1>7, <1>8 DEF PressureInv

(* The order of the ranking is the order of the pressures at the snapshot, *)
(* and the snapshot's leases are today's.                                  *)
LEMMA RankedIsInOrder ==
    ASSUME Types, NEW snapshot \in Slots, Candidates(snapshot) # {},
           \A b \in Backends : snapshot[b].acquired = Acquired[b]
    PROVE  InOrder(Ranked(snapshot), Acquired)
<1> DEFINE ranked == Ranked(snapshot)
           byScore == \E b \in Candidates(snapshot) : Scored(b, live[b].obs)
<1>1. /\ \A i \in DOMAIN ranked : /\ ranked[i].id \in Candidates(snapshot)
                                  /\ ranked[i].obs = live[ranked[i].id].obs
      /\ \A i, j \in DOMAIN ranked :
             i < j => Before(snapshot, ranked[i].id, ranked[j].id, byScore)
  BY RankedFacts
<1> HIDE DEF ranked
<1>2. ASSUME NEW i \in DOMAIN ranked, NEW j \in DOMAIN ranked, i < j,
             Scored(ranked[i].id, ranked[i].obs), Scored(ranked[j].id, ranked[j].obs)
      PROVE  ~Less(PressureAt(ranked[j], Acquired), PressureAt(ranked[i], Acquired))
  <2> DEFINE a == ranked[i].id
             b == ranked[j].id
  <2>1. /\ a \in Candidates(snapshot) /\ b \in Candidates(snapshot)
        /\ ranked[i].obs = live[a].obs /\ ranked[j].obs = live[b].obs
        /\ Scored(a, live[a].obs) /\ Scored(b, live[b].obs)
    BY <1>1, <1>2
  <2>2. a \in Backends /\ b \in Backends
    BY <2>1 DEF Candidates
  <2>3. Before(snapshot, a, b, TRUE)
    BY <1>1, <1>2, <2>1
  <2>4. ScoreAt(snapshot, a) \in Fraction /\ ScoreAt(snapshot, b) \in Fraction
    BY <2>1, <2>2, ScoreAtIsFraction
  <2>5. ~Less(ScoreAt(snapshot, b), ScoreAt(snapshot, a))
    BY <2>3, <2>4, LessOrders DEF Before
  <2>6. /\ PressureAt(ranked[i], Acquired) = ScoreAt(snapshot, a)
        /\ PressureAt(ranked[j], Acquired) = ScoreAt(snapshot, b)
    BY <2>1, <2>2 DEF PressureAt, ScoreAt, ScoreCandidate
  <2> QED BY <2>5, <2>6
<1>3. InOrder(ranked, Acquired)
  BY <1>2 DEF InOrder
<1> QED BY <1>3 DEF ranked

LEMMA RankKeepsInv ==
    ASSUME PressureInv, NEW r \in Callers, SelectRank(r) PROVE PressureInv'
<1>0. Types /\ MutexInv /\ SnapshotInv /\ RankedInv
  BY DEF PressureInv
<1>1. /\ call[r].pc = "snapshot" /\ cursor' \in {0, 1} /\ UNCHANGED <<slot, live, scrape>>
  BY <1>0 DEF SelectRank, Types
<1>2. CASE Candidates(choice[r].snapshot) = {}
  BY <1>1, <1>2, RefuseKeepsInv DEF SelectRank
<1>3. CASE Candidates(choice[r].snapshot) # {}
  <2> DEFINE ranked == Ranked(choice[r].snapshot)
  <2>1. /\ choice' = [choice EXCEPT ![r] = [snapshot |-> <<>>, ranked |-> ranked]]
        /\ call' = [call EXCEPT ![r].pc = "ranked"] /\ selection' = selection
    BY <1>3 DEF SelectRank
  <2>2. /\ choice[r].snapshot \in Slots
        /\ \A b \in Backends : choice[r].snapshot[b].acquired = Acquired[b]
    BY <1>0, <1>1 DEF SnapshotInv
  <2>3. ranked \in Rankings /\ ranked # <<>>
    BY <1>0, <1>3, <2>2, RankedFacts DEF Rankings
  <2>4. InOrder(ranked, Acquired)
    BY <1>0, <1>3, <2>2, RankedIsInOrder
  <2> HIDE DEF ranked
  <2>5. /\ choice' \in [Callers -> ChoiceType] /\ choice'[r].ranked = ranked
        /\ \A q \in Callers \ {r} : choice'[q] = choice[q]
    <3>1. [snapshot |-> <<>>, ranked |-> ranked] \in ChoiceType
      BY <2>3 DEF ChoiceType, Snapshots
    <3> QED BY <1>0, <2>1, <3>1 DEF Types
  <2>6. /\ call' \in [Callers -> CallType] /\ call'[r].pc = "ranked"
        /\ \A q \in Callers \ {r} : call'[q] = call[q]
    BY <1>0, <2>1, CallerMoves
  <2>7. Types'
    BY <1>0, <1>1, <2>5, <2>6 DEF Types
  <2>8. HeldInv' /\ CountInv' /\ Acquired' = Acquired
    BY <1>1, <2>6, SelectingKeepsCounts
  <2>9. Selecting = {r} /\ Selecting' = {r}
    BY <1>0, <1>1, <2>6 DEF MutexInv, Selecting
  <2>10. MutexInv'
    BY <1>0, <2>1, <2>9 DEF MutexInv
  <2>11. \A q \in Callers \ {r} : call'[q].pc \notin {"snapshot", "ranked"}
    BY <2>9 DEF Selecting
  <2>12. SnapshotInv'
    BY <2>6, <2>11 DEF SnapshotInv
  <2>13. RankedInv'
    BY <2>3, <2>4, <2>5, <2>8, <2>11 DEF RankedInv
  <2> QED BY <2>7, <2>8, <2>10, <2>12, <2>13 DEF PressureInv
<1> QED BY <1>2, <1>3

(* The rest of an ordered ranking is in order.                             *)
LEMMA TailInOrder ==
    ASSUME NEW ranked \in Rankings, ranked # <<>>, NEW acquired, InOrder(ranked, acquired)
    PROVE  Tail(ranked) \in Rankings /\ InOrder(Tail(ranked), acquired)
<1> DEFINE rest == Tail(ranked)
<1>1. /\ rest \in Seq(Candidate) /\ Len(rest) = Len(ranked) - 1
      /\ \A i \in 1 .. Len(rest) : rest[i] = ranked[i + 1]
  BY HeadTailProperties DEF Rankings
<1>2. DOMAIN rest = 1 .. Len(rest) /\ DOMAIN ranked = 1 .. Len(ranked) /\ Len(ranked) \in Nat
  BY <1>1 DEF Rankings
<1> HIDE DEF rest
<1>3. ASSUME NEW i \in DOMAIN rest, NEW j \in DOMAIN rest, i < j
      PROVE  /\ i + 1 \in DOMAIN ranked /\ j + 1 \in DOMAIN ranked /\ i + 1 < j + 1
             /\ rest[i] = ranked[i + 1] /\ rest[j] = ranked[j + 1]
  BY <1>1, <1>2, <1>3
<1>4. InOrder(rest, acquired)
  BY <1>3 DEF InOrder
<1> QED BY <1>1, <1>4 DEF rest, Rankings

LEMMA SkipKeepsInv ==
    ASSUME PressureInv, NEW r \in Callers, SelectSkip(r) PROVE PressureInv'
<1>0. Types /\ MutexInv /\ SnapshotInv /\ RankedInv
  BY DEF PressureInv
<1>1. /\ call[r].pc = "ranked" /\ cursor' \in {0, 1} /\ UNCHANGED <<slot, live, scrape>>
  BY <1>0 DEF SelectSkip, Types
<1>2. CASE Tail(choice[r].ranked) = <<>>
  BY <1>1, <1>2, RefuseKeepsInv DEF SelectSkip
<1>3. CASE Tail(choice[r].ranked) # <<>>
  <2> DEFINE rest == Tail(choice[r].ranked)
  <2>1. choice' = [choice EXCEPT ![r].ranked = rest] /\ UNCHANGED <<call, selection>>
    BY <1>3 DEF SelectSkip
  <2>2. choice[r].ranked \in Rankings
    BY <1>0 DEF Types, ChoiceType
  <2>3. rest \in Rankings /\ InOrder(rest, Acquired)
    BY <1>0, <1>1, <2>2, TailInOrder DEF RankedInv
  <2>4. rest # <<>>
    BY <1>3
  <2> HIDE DEF rest
  <2>5. /\ choice' \in [Callers -> ChoiceType] /\ choice'[r].ranked = rest
        /\ \A q \in Callers \ {r} : choice'[q] = choice[q]
    BY <1>0, <2>1, <2>3 DEF Types, ChoiceType
  <2>6. Types'
    BY <1>0, <1>1, <2>1, <2>5 DEF Types
  <2>7. HeldInv' /\ CountInv' /\ Acquired' = Acquired
    BY <1>1, <2>1, SelectingKeepsCounts
  <2>8. Selecting = {r} /\ Selecting' = {r}
    BY <1>0, <1>1, <2>1 DEF MutexInv, Selecting
  <2>9. MutexInv'
    BY <1>0, <2>1, <2>8 DEF MutexInv
  <2>10. SnapshotInv'
    BY <1>1, <2>1, <2>8 DEF SnapshotInv, Selecting
  <2>11. RankedInv'
    BY <1>0, <2>1, <2>3, <2>4, <2>5, <2>7 DEF RankedInv
  <2> QED BY <2>6, <2>7, <2>9, <2>10, <2>11 DEF PressureInv
<1> QED BY <1>2, <1>3
(* A lease: one more request is held, and one more has been acquired.      *)
LEMMA AcquireKeepsInv ==
    ASSUME PressureInv, NEW r \in Callers, SelectAcquire(r) PROVE PressureInv'
<1>0. Types /\ HeldInv /\ CountInv /\ MutexInv /\ RankedInv
  BY DEF PressureInv
<1>a. call[r].pc = "ranked"
  BY DEF SelectAcquire
<1>2. PICK b \in Backends : b = Head(choice[r].ranked).id
  <2>1. choice[r].ranked \in Seq(Candidate) /\ choice[r].ranked # <<>>
    BY <1>0, <1>a DEF Types, ChoiceType, Rankings, RankedInv
  <2>2. Head(choice[r].ranked) \in Candidate
    BY <2>1, HeadTailProperties
  <2> QED BY <2>2 DEF Candidate
<1>1. /\ call[r].pc = "ranked"
      /\ slot' = [slot EXCEPT ![b].acquired = @ + 1, ![b].active = @ + 1]
      /\ call' = [call EXCEPT ![r] = [pc |-> "transit", at |-> b]]
      /\ choice' = [choice EXCEPT ![r] = NoChoice] /\ selection' = selection \ {r}
      /\ UNCHANGED <<live, scrape, cursor>>
  BY <1>2 DEF SelectAcquire
<1>3. /\ slot' \in Slots
      /\ slot'[b].acquired = slot[b].acquired + 1 /\ slot'[b].active = slot[b].active + 1
      /\ \A c \in Backends \ {b} : slot'[c] = slot[c]
  <2>0. slot[b].acquired + 1 \in Nat /\ slot[b].active + 1 \in Nat
    BY <1>0, RecordFacts
  <2> DEFINE half == [slot EXCEPT ![b].acquired = @ + 1]
  <2>1. /\ half \in Slots /\ half[b].acquired = slot[b].acquired + 1
        /\ half[b].active = slot[b].active /\ \A c \in Backends \ {b} : half[c] = slot[c]
    BY <1>0, <1>2, <2>0 DEF Types, Slots, SlotType
  <2>2. slot' = [half EXCEPT ![b].active = @ + 1]
    BY <1>1
  <2> HIDE DEF half
  <2>3. half[b].active + 1 \in Nat
    BY <2>0, <2>1
  <2>4. slot' \in Slots
    BY <2>1, <2>2, <2>3 DEF Slots, SlotType
  <2>5. /\ slot'[b].acquired = half[b].acquired /\ slot'[b].active = half[b].active + 1
        /\ \A c \in Backends \ {b} : slot'[c] = half[c]
    BY <2>1, <2>2 DEF Slots, SlotType
  <2> QED BY <2>1, <2>4, <2>5
<1>4. /\ call' \in [Callers -> CallType] /\ call'[r] = [pc |-> "transit", at |-> b]
      /\ \A q \in Callers \ {r} : call'[q] = call[q]
  <2>1. [pc |-> "transit", at |-> b] \in CallType
    BY <1>2 DEF CallType
  <2> QED BY <1>0, <1>1, <2>1 DEF Types
<1>5. choice' \in [Callers -> ChoiceType]
  BY <1>0, <1>1, EmptyChoice DEF Types
<1>6. Types'
  BY <1>0, <1>1, <1>3, <1>4, <1>5 DEF Types
<1>7. /\ r \notin Held(b)
      /\ InTransit(b)' = InTransit(b) \cup {r} /\ Held(b)' = Held(b) \cup {r}
  <2>1. call[r] # [pc |-> "transit", at |-> b] /\ call[r] # [pc |-> "engine", at |-> b]
    BY <1>1
  <2>2. InTransit(b)' = InTransit(b) \cup {r}
    BY <1>4 DEF InTransit
  <2>3. InEngine(b)' = InEngine(b)
    BY <1>4, <2>1 DEF InEngine
  <2> QED BY <2>1, <2>2, <2>3 DEF Held, InTransit, InEngine
<1>8. \A c \in Backends \ {b} : InTransit(c)' = InTransit(c) /\ Held(c)' = Held(c)
  <2> SUFFICES ASSUME NEW c \in Backends \ {b}
               PROVE  InTransit(c)' = InTransit(c) /\ Held(c)' = Held(c)
    OBVIOUS
  <2>1. /\ call[r] # [pc |-> "transit", at |-> c] /\ call[r] # [pc |-> "engine", at |-> c]
        /\ call'[r] # [pc |-> "transit", at |-> c] /\ call'[r] # [pc |-> "engine", at |-> c]
    BY <1>1, <1>4
  <2>2. InTransit(c)' = InTransit(c)
    BY <1>4, <2>1 DEF InTransit
  <2>3. InEngine(c)' = InEngine(c)
    BY <1>4, <2>1 DEF InEngine
  <2> QED BY <2>2, <2>3 DEF Held
<1>9. HeldInv'
  <2>1. Cardinality(Held(b) \cup {r}) = Cardinality(Held(b)) + 1
    BY <1>7, HeldFinite, FS_AddElement
  <2>2. slot'[b].active = Cardinality(Held(b)')
    BY <1>0, <1>2, <1>3, <1>7, <2>1 DEF HeldInv
  <2>3. ASSUME NEW c \in Backends \ {b} PROVE slot'[c].active = Cardinality(Held(c)')
    BY <1>0, <1>3, <1>8 DEF HeldInv
  <2>4. \A q \in Callers : call'[q].pc \in {"transit", "engine"} => call'[q].at \in Backends
    BY <1>0, <1>2, <1>4 DEF HeldInv
  <2> QED BY <2>2, <2>3, <2>4 DEF HeldInv
<1>10. CountInv'
  <2>0. slot[b].acquired \in Nat /\ live[b].obs \in Obs /\ scrape[b] \in Scrape
    BY <1>0, <1>2, RecordFacts
  <2>1. live[b].obs.known => Accounts(live[b].obs, slot[b].acquired + 1, Held(b) \cup {r})
    <3> HAVE live[b].obs.known
    <3>1. live[b].obs.load \in Nat /\ live[b].obs.dispatches \in Nat
      BY <2>0, ObsFacts DEF Observation
    <3>2. Accounts(live[b].obs, slot[b].acquired, Held(b))
      BY <1>0, <1>2 DEF CountInv
    <3> QED BY <2>0, <3>1, <3>2, HeldFinite, AccountsGrow
  <2>2. scrape[b].phase = "read" => Accounts(scrape[b], slot[b].acquired + 1, Held(b) \cup {r})
    <3> HAVE scrape[b].phase = "read"
    <3>1. scrape[b].load \in Nat /\ scrape[b].dispatches \in Nat
      BY <2>0, PhaseFacts DEF Answered
    <3>2. Accounts(scrape[b], slot[b].acquired, Held(b))
      BY <1>0, <1>2 DEF CountInv
    <3> QED BY <2>0, <3>1, <3>2, HeldFinite, AccountsGrow
  <2>3. scrape[b].phase = "begun" =>
            AccountsOnTheWay(scrape[b], slot[b].acquired + 1, InTransit(b) \cup {r})
    <3> HAVE scrape[b].phase = "begun"
    <3> DEFINE o == [load |-> 0, dispatches |-> scrape[b].dispatches,
                     transit |-> scrape[b].transit]
    <3>1. scrape[b] \in Begun /\ o.load = 0 /\ o.dispatches \in Nat /\ slot[b].acquired + 1 \in Nat
      BY <2>0, PhaseFacts DEF Begun
    <3>2. Accounts(o, slot[b].acquired, InTransit(b))
      BY <1>0, <1>2, <2>0, <3>1, OnTheWay DEF CountInv
    <3>3. Accounts(o, slot[b].acquired + 1, InTransit(b) \cup {r})
      <4>1. o.load \in Nat /\ o.dispatches \in Nat
        BY <3>1
      <4>2. IsFiniteSet(InTransit(b))
        BY HeldFinite
      <4> HIDE DEF o
      <4> QED BY <2>0, <3>2, <4>1, <4>2, AccountsGrow
    <3> QED BY <3>1, <3>3, OnTheWay
  <2>4. ASSUME NEW c \in Backends \ {b}
        PROVE  /\ live[c].obs.known => Accounts(live[c].obs, slot'[c].acquired, Held(c)')
               /\ scrape[c].phase = "read" => Accounts(scrape[c], slot'[c].acquired, Held(c)')
               /\ scrape[c].phase = "begun" =>
                      AccountsOnTheWay(scrape[c], slot'[c].acquired, InTransit(c)')
    BY <1>0, <1>3, <1>8 DEF CountInv
  <2> QED BY <1>1, <1>3, <1>7, <2>1, <2>2, <2>3, <2>4 DEF CountInv
<1>11. Selecting = {r}
  BY <1>0, <1>1 DEF MutexInv, Selecting
<1>12. Selecting' = {}
  BY <1>4, <1>11 DEF Selecting
<1>13. MutexInv'
  BY <1>0, <1>1, <1>11, <1>12 DEF MutexInv
<1>14. SnapshotInv' /\ RankedInv'
  BY <1>12 DEF Selecting, SnapshotInv, RankedInv
<1> QED BY <1>6, <1>9, <1>10, <1>13, <1>14 DEF PressureInv

-----------------------------------------------------------------------------
(* The request's way.                                                      *)

(* When a backend holds no more than before, its accounts still hold.      *)
LEMMA CountShrinks ==
    ASSUME Types, CountInv, UNCHANGED <<live, scrape>>,
           \A b \in Backends : slot'[b].acquired = slot[b].acquired,
           \A b \in Backends : InTransit(b)' \subseteq InTransit(b) /\ Held(b)' \subseteq Held(b)
    PROVE  CountInv'
<1> SUFFICES ASSUME NEW b \in Backends
             PROVE  /\ live[b].obs.known => Accounts(live[b].obs, slot[b].acquired, Held(b)')
                    /\ scrape[b].phase = "read" => Accounts(scrape[b], slot[b].acquired, Held(b)')
                    /\ scrape[b].phase = "begun" =>
                           AccountsOnTheWay(scrape[b], slot[b].acquired, InTransit(b)')
  BY DEF CountInv
<1>0. slot[b].acquired \in Nat /\ live[b].obs \in Obs /\ scrape[b] \in Scrape
  BY RecordFacts
<1>1. ASSUME live[b].obs.known PROVE Accounts(live[b].obs, slot[b].acquired, Held(b)')
  <2>1. live[b].obs.load \in Nat /\ live[b].obs.dispatches \in Nat
    BY <1>0, <1>1, ObsFacts DEF Observation
  <2>2. Accounts(live[b].obs, slot[b].acquired, Held(b))
    BY <1>1 DEF CountInv
  <2>3. live[b].obs.load + (slot[b].acquired - live[b].obs.dispatches) \in Int
    BY <1>0, <2>1
  <2> QED BY <2>2, <2>3, HeldFinite, AccountsShrink
<1>2. ASSUME scrape[b].phase = "read" PROVE Accounts(scrape[b], slot[b].acquired, Held(b)')
  <2>1. scrape[b].load \in Nat /\ scrape[b].dispatches \in Nat
    BY <1>0, <1>2, PhaseFacts DEF Answered
  <2>2. Accounts(scrape[b], slot[b].acquired, Held(b))
    BY <1>2 DEF CountInv
  <2>3. scrape[b].load + (slot[b].acquired - scrape[b].dispatches) \in Int
    BY <1>0, <2>1
  <2> QED BY <2>2, <2>3, HeldFinite, AccountsShrink
<1>3. ASSUME scrape[b].phase = "begun"
      PROVE  AccountsOnTheWay(scrape[b], slot[b].acquired, InTransit(b)')
  <2> DEFINE o == [load |-> 0, dispatches |-> scrape[b].dispatches, transit |-> scrape[b].transit]
  <2>1. scrape[b] \in Begun /\ o.load = 0 /\ o.dispatches \in Nat
    BY <1>0, <1>3, PhaseFacts DEF Begun
  <2>2. Accounts(o, slot[b].acquired, InTransit(b))
    BY <1>0, <1>3, <2>1, OnTheWay DEF CountInv
  <2>3. o.load + (slot[b].acquired - o.dispatches) \in Int
    BY <1>0, <2>1
  <2>4. Accounts(o, slot[b].acquired, InTransit(b)')
    <3> HIDE DEF o
    <3> QED BY <2>2, <2>3, HeldFinite, AccountsShrink
  <2> QED BY <1>0, <2>1, <2>4, OnTheWay
<1> QED BY <1>1, <1>2, <1>3

LEMMA ArriveKeepsInv ==
    ASSUME PressureInv, NEW r \in Callers, Arrive(r) PROVE PressureInv'
<1>0. Types /\ HeldInv /\ CountInv /\ MutexInv /\ SnapshotInv /\ RankedInv
  BY DEF PressureInv
<1>1. /\ call[r].pc = "transit" /\ call' = [call EXCEPT ![r].pc = "engine"]
      /\ UNCHANGED <<slot, live, scrape, choice, selection, cursor>>
  BY DEF Arrive
<1>2. /\ call' \in [Callers -> CallType] /\ call'[r].pc = "engine" /\ call'[r].at = call[r].at
      /\ \A q \in Callers \ {r} : call'[q] = call[q]
  BY <1>0, <1>1, CallerMoves
<1>3. Types'
  BY <1>0, <1>1, <1>2 DEF Types
<1>4. ASSUME NEW b \in Backends PROVE InTransit(b)' \subseteq InTransit(b) /\ Held(b)' = Held(b)
  <2>1. call[r] \in CallType /\ call'[r] \in CallType
    BY <1>0, <1>2 DEF Types
  <2>2. call'[r] # [pc |-> "transit", at |-> b] /\ call[r] # [pc |-> "engine", at |-> b]
    BY <1>1, <1>2
  <2>3. call'[r] = [pc |-> "engine", at |-> b] <=> call[r] = [pc |-> "transit", at |-> b]
    BY <1>1, <1>2, <2>1 DEF CallType
  <2>4. InTransit(b)' \subseteq InTransit(b)
    BY <1>2, <2>2 DEF InTransit
  <2>5. \A q \in Callers : q \in Held(b)' <=> q \in Held(b)
    BY <1>2, <2>2, <2>3 DEF Held, InTransit, InEngine
  <2>6. Held(b)' = Held(b)
    BY <2>5 DEF Held, InTransit, InEngine
  <2> QED BY <2>4, <2>6
<1>5. HeldInv'
  BY <1>0, <1>1, <1>2, <1>4 DEF HeldInv
<1>6. CountInv'
  BY <1>0, <1>1, <1>4, CountShrinks
<1>7. MutexInv' /\ SnapshotInv' /\ RankedInv'
  BY <1>0, <1>1, <1>2, SelectionSame
<1> QED BY <1>3, <1>5, <1>6, <1>7 DEF PressureInv

(* Dropping a lease.                                                       *)
LEMMA FinishKeepsInv ==
    ASSUME PressureInv, NEW r \in Callers, Finish(r) PROVE PressureInv'
<1>0. Types /\ HeldInv /\ CountInv /\ MutexInv /\ SnapshotInv /\ RankedInv
  BY DEF PressureInv
<1>1. call[r].pc \in {"transit", "engine"}
  BY DEF Finish
<1>2. PICK b \in Backends : b = call[r].at
  BY <1>0, <1>1 DEF HeldInv
<1>3. /\ slot' = [slot EXCEPT ![b].active = @ - 1]
      /\ call' = [call EXCEPT ![r] = [pc |-> "done", at |-> Nobody]]
      /\ UNCHANGED <<live, scrape, choice, selection, cursor>>
  BY <1>2 DEF Finish
<1>4. r \in Held(b)
  <2>1. call[r] \in CallType
    BY <1>0 DEF Types
  <2>2. call[r] = [pc |-> "transit", at |-> b] \/ call[r] = [pc |-> "engine", at |-> b]
    BY <1>1, <1>2, <2>1 DEF CallType
  <2> QED BY <2>2 DEF Held, InTransit, InEngine
<1>5. /\ call' \in [Callers -> CallType] /\ call'[r].pc = "done"
      /\ \A q \in Callers \ {r} : call'[q] = call[q]
  <2>1. [pc |-> "done", at |-> Nobody] \in CallType
    BY DEF CallType
  <2> QED BY <1>0, <1>3, <2>1 DEF Types
<1>6. ASSUME NEW c \in Backends
      PROVE  InTransit(c)' \subseteq InTransit(c) /\ Held(c)' = Held(c) \ {r}
  <2>1. call'[r] # [pc |-> "transit", at |-> c] /\ call'[r] # [pc |-> "engine", at |-> c]
    BY <1>5
  <2>2. InTransit(c)' = InTransit(c) \ {r}
    BY <1>5, <2>1 DEF InTransit
  <2>3. InEngine(c)' = InEngine(c) \ {r}
    BY <1>5, <2>1 DEF InEngine
  <2> QED BY <2>2, <2>3 DEF Held
<1>7. ASSUME NEW c \in Backends \ {b} PROVE r \notin Held(c)
  BY <1>2 DEF Held, InTransit, InEngine
<1>8. Cardinality(Held(b) \ {r}) = Cardinality(Held(b)) - 1 /\ Cardinality(Held(b) \ {r}) \in Nat
  <2>1. IsFiniteSet(Held(b)) /\ IsFiniteSet(Held(b) \ {r})
    BY HeldFinite, FS_RemoveElement
  <2>2. Cardinality(Held(b) \ {r}) = Cardinality(Held(b)) - 1
    BY <1>4, <2>1, FS_RemoveElement
  <2> QED BY <2>1, <2>2, FS_CardinalityType
<1>9. slot[b].active = Cardinality(Held(b)) /\ slot[b].active - 1 \in Nat
  BY <1>0, <1>8 DEF HeldInv
<1>10. /\ slot' \in Slots
       /\ slot'[b].active = slot[b].active - 1
       /\ \A c \in Backends : slot'[c].acquired = slot[c].acquired
       /\ \A c \in Backends \ {b} : slot'[c] = slot[c]
  BY <1>0, <1>3, <1>9 DEF Types, Slots, SlotType
<1>11. Types'
  BY <1>0, <1>3, <1>5, <1>10 DEF Types
<1>12. HeldInv'
  <2>1. slot'[b].active = Cardinality(Held(b)')
    BY <1>6, <1>8, <1>9, <1>10
  <2>2. ASSUME NEW c \in Backends \ {b} PROVE slot'[c].active = Cardinality(Held(c)')
    <3>1. Held(c)' = Held(c)
      <4>1. Held(c)' = Held(c) \ {r} /\ r \notin Held(c)
        BY <1>6, <1>7
      <4> HIDE DEF Held
      <4> QED BY <4>1
    <3> QED BY <1>0, <1>10, <3>1 DEF HeldInv
  <2>3. \A q \in Callers : call'[q].pc \in {"transit", "engine"} => call'[q].at \in Backends
    BY <1>0, <1>5 DEF HeldInv
  <2> QED BY <2>1, <2>2, <2>3 DEF HeldInv
<1>13. CountInv'
  BY <1>0, <1>3, <1>6, <1>10, CountShrinks
<1>14. MutexInv' /\ SnapshotInv' /\ RankedInv'
  BY <1>0, <1>1, <1>3, <1>5, <1>10, SelectionSame
<1> QED BY <1>11, <1>12, <1>13, <1>14 DEF PressureInv
-----------------------------------------------------------------------------
(* Scrapes.                                                                *)

(* What a scrape leaves alone.                                             *)
LEMMA ScrapeKeepsTheRest ==
    ASSUME PressureInv, UNCHANGED <<slot, call, choice, selection, cursor>>
    PROVE  /\ HeldInv' /\ MutexInv' /\ SnapshotInv' /\ RankedInv'
           /\ \A b \in Backends : InTransit(b)' = InTransit(b) /\ Held(b)' = Held(b)
<1>1. \A b : InTransit(b)' = InTransit(b) /\ Held(b)' = Held(b)
  BY HeldSame
<1>2. HeldInv'
  BY <1>1 DEF PressureInv, HeldInv
<1>3. MutexInv' /\ SnapshotInv' /\ RankedInv'
  BY SelectionSame DEF PressureInv
<1> QED BY <1>1, <1>2, <1>3

(* One backend's scrape or observation changes; its new accounts are       *)
(* given.                                                                  *)
LEMMA ScrapeKeepsInv ==
    ASSUME PressureInv, UNCHANGED <<slot, call, choice, selection, cursor>>,
           NEW b \in Backends, NEW s, NEW o, s \in Scrape, o \in Obs,
           scrape' = [scrape EXCEPT ![b] = s],
           \/ live' = live /\ o = live[b].obs
           \/ live' = [live EXCEPT ![b].obs = o],
           o.known => Accounts(o, slot[b].acquired, Held(b)),
           s.phase = "read" => Accounts(s, slot[b].acquired, Held(b)),
           s.phase = "begun" => AccountsOnTheWay(s, slot[b].acquired, InTransit(b))
    PROVE  PressureInv'
<1>0. Types /\ CountInv
  BY DEF PressureInv
<1>1. /\ scrape' \in [Backends -> Scrape] /\ scrape'[b] = s
      /\ \A c \in Backends \ {b} : scrape'[c] = scrape[c]
  BY <1>0 DEF Types
<1>2. /\ live' \in [Backends -> LiveType] /\ live'[b].obs = o
      /\ \A c \in Backends \ {b} : live'[c] = live[c]
  BY <1>0 DEF Types, LiveType
<1>3. Types'
  BY <1>0, <1>1, <1>2 DEF Types
<1>4. /\ HeldInv' /\ MutexInv' /\ SnapshotInv' /\ RankedInv'
      /\ \A c \in Backends : InTransit(c)' = InTransit(c) /\ Held(c)' = Held(c)
  BY ScrapeKeepsTheRest
<1>5. CountInv'
  BY <1>0, <1>1, <1>2, <1>4 DEF CountInv
<1> QED BY <1>3, <1>4, <1>5 DEF PressureInv

LEMMA BeginScrapeKeepsInv ==
    ASSUME PressureInv, NEW b \in Backends, BeginMetricsScrape(b) PROVE PressureInv'
<1>0. Types /\ CountInv /\ live[b].obs \in Obs /\ slot[b].acquired \in Nat
  BY RecordFacts DEF PressureInv
<1>1. PICK s : s = [phase |-> "begun", dispatches |-> slot[b].acquired, transit |-> InTransit(b)]
  OBVIOUS
<1>2. PICK o : o = live[b].obs
  OBVIOUS
<1>3. /\ scrape' = [scrape EXCEPT ![b] = s] /\ live' = live
      /\ UNCHANGED <<slot, call, choice, selection, cursor>>
  BY <1>1 DEF BeginMetricsScrape
<1>4. s \in Scrape /\ s.phase = "begun"
  <2>1. InTransit(b) \in SUBSET Callers
    BY DEF InTransit
  <2> QED BY <1>0, <1>1, <2>1 DEF Scrape, Begun
<1>5. AccountsOnTheWay(s, slot[b].acquired, InTransit(b))
  <2>1. InTransit(b) \ s.transit = {} /\ s.dispatches = slot[b].acquired
    BY <1>1
  <2>2. Cardinality(InTransit(b) \ s.transit) = 0
    BY <2>1, FS_EmptySet
  <2>3. slot[b].acquired <= slot[b].acquired /\ 0 <= slot[b].acquired - slot[b].acquired
    BY <1>0
  <2> QED BY <2>1, <2>2, <2>3 DEF AccountsOnTheWay
<1>6. o.known => Accounts(o, slot[b].acquired, Held(b))
  BY <1>0, <1>2 DEF CountInv
<1> QED BY <1>0, <1>2, <1>3, <1>4, <1>5, <1>6, ScrapeKeepsInv

LEMMA ReadGaugesKeepsInv ==
    ASSUME PressureInv, NEW b \in Backends, ReadGauges(b) PROVE PressureInv'
<1>0. Types /\ CountInv /\ live[b].obs \in Obs /\ slot[b].acquired \in Nat /\ scrape[b] \in Scrape
  BY RecordFacts DEF PressureInv
<1>1. PICK s : s = [phase |-> "read", load |-> Cardinality(InEngine(b)), kv |-> Kv[b],
                    dispatches |-> scrape[b].dispatches, transit |-> scrape[b].transit]
  OBVIOUS
<1>2. PICK o : o = live[b].obs
  OBVIOUS
<1>3. /\ scrape' = [scrape EXCEPT ![b] = s] /\ live' = live
      /\ UNCHANGED <<slot, call, choice, selection, cursor>> /\ scrape[b].phase = "begun"
  BY <1>1 DEF ReadGauges
<1>4. scrape[b] \in Begun
  BY <1>0, <1>3, PhaseFacts
<1>5. s \in Scrape /\ s.phase = "read"
  <2>1. Cardinality(InEngine(b)) \in Nat /\ Kv[b] \in Nat
    BY HeldFinite
  <2>2. scrape[b].dispatches \in Nat /\ scrape[b].transit \in SUBSET Callers
    BY <1>4 DEF Begun
  <2> QED BY <1>1, <2>1, <2>2 DEF Scrape, Answered
<1>6. Accounts(s, slot[b].acquired, Held(b))
  <2>1. /\ s.load = Cardinality(InEngine(b)) /\ s.dispatches = scrape[b].dispatches
        /\ s.transit = scrape[b].transit
    BY <1>1
  <2>2. AccountsOnTheWay(scrape[b], slot[b].acquired, InTransit(b))
    BY <1>0, <1>3 DEF CountInv
  <2> QED BY <1>0, <1>4, <2>1, <2>2, HeldFinite, AnswerAccounts DEF Held
<1>7. o.known => Accounts(o, slot[b].acquired, Held(b))
  BY <1>0, <1>2 DEF CountInv
<1> QED BY <1>0, <1>2, <1>3, <1>5, <1>6, <1>7, ScrapeKeepsInv

LEMMA RecordSuccessKeepsInv ==
    ASSUME PressureInv, NEW b \in Backends, RecordMetricsSuccess(b) PROVE PressureInv'
<1>0. Types /\ CountInv /\ scrape[b] \in Scrape
  BY RecordFacts DEF PressureInv
<1>1. PICK s : s = NoScrape
  OBVIOUS
<1>2. PICK o : o = [known |-> TRUE, fresh |-> TRUE, load |-> scrape[b].load, kv |-> scrape[b].kv,
                    dispatches |-> scrape[b].dispatches, transit |-> scrape[b].transit]
  OBVIOUS
<1>3. /\ scrape' = [scrape EXCEPT ![b] = s] /\ live' = [live EXCEPT ![b].obs = o]
      /\ UNCHANGED <<slot, call, choice, selection, cursor>> /\ scrape[b].phase = "read"
  BY <1>1, <1>2 DEF RecordMetricsSuccess
<1>4. scrape[b] \in Answered
  BY <1>0, <1>3, PhaseFacts
<1>5. o \in Obs
  BY <1>2, <1>4 DEF Obs, Observation, Answered
<1>6. s \in Scrape /\ s.phase = "none"
  BY <1>1 DEF Scrape, NoScrape
<1>7. Accounts(o, slot[b].acquired, Held(b))
  <2>1. Accounts(scrape[b], slot[b].acquired, Held(b))
    BY <1>0, <1>3 DEF CountInv
  <2>2. /\ o.load = scrape[b].load /\ o.dispatches = scrape[b].dispatches
        /\ o.transit = scrape[b].transit
    BY <1>2
  <2> QED BY <2>1, <2>2 DEF Accounts
<1> QED BY <1>3, <1>5, <1>6, <1>7, ScrapeKeepsInv

LEMMA RecordFailureKeepsInv ==
    ASSUME PressureInv, NEW b \in Backends, RecordMetricsFailure(b) PROVE PressureInv'
<1>0. Types /\ CountInv /\ live[b].obs \in Obs
  BY RecordFacts DEF PressureInv
<1>1. PICK s : s = NoScrape
  OBVIOUS
<1>2. PICK o : o = live[b].obs
  OBVIOUS
<1>3. /\ scrape' = [scrape EXCEPT ![b] = s] /\ live' = live
      /\ UNCHANGED <<slot, call, choice, selection, cursor>>
  BY <1>1 DEF RecordMetricsFailure
<1>4. s \in Scrape /\ s.phase = "none"
  BY <1>1 DEF Scrape, NoScrape
<1>5. o.known => Accounts(o, slot[b].acquired, Held(b))
  BY <1>0, <1>2 DEF CountInv
<1> QED BY <1>0, <1>2, <1>3, <1>4, <1>5, ScrapeKeepsInv

LEMMA GoStaleKeepsInv ==
    ASSUME PressureInv, NEW b \in Backends, GoStale(b) PROVE PressureInv'
<1>0. Types /\ CountInv /\ live[b].obs \in Obs /\ live[b] \in LiveType /\ scrape[b] \in Scrape
  BY RecordFacts DEF PressureInv
<1>1. PICK s : s = scrape[b]
  OBVIOUS
<1>2. PICK o : o = [live[b].obs EXCEPT !.fresh = FALSE]
  OBVIOUS
<1>3. /\ UNCHANGED <<slot, scrape, call, choice, selection, cursor>> /\ live[b].obs.known
      /\ live' = [live EXCEPT ![b].obs.fresh = FALSE]
  BY DEF GoStale
<1>4. scrape' = [scrape EXCEPT ![b] = s]
  BY <1>0, <1>1, <1>3 DEF Types
<1>5. live' = [live EXCEPT ![b].obs = o]
  BY <1>2, <1>3
<1>6. live[b].obs \in Observation
  BY <1>0, <1>3, ObsFacts
<1>7. /\ o \in Obs /\ o.load = live[b].obs.load /\ o.dispatches = live[b].obs.dispatches
      /\ o.transit = live[b].obs.transit
  BY <1>2, <1>6 DEF Obs, Observation
<1>8. Accounts(o, slot[b].acquired, Held(b))
  <2>1. Accounts(live[b].obs, slot[b].acquired, Held(b))
    BY <1>0, <1>3 DEF CountInv
  <2> QED BY <1>7, <2>1 DEF Accounts
<1>9. /\ s.phase = "read" => Accounts(s, slot[b].acquired, Held(b))
      /\ s.phase = "begun" => AccountsOnTheWay(s, slot[b].acquired, InTransit(b))
  BY <1>0, <1>1 DEF CountInv
<1>10. s \in Scrape
  BY <1>0, <1>1
<1> QED BY <1>3, <1>4, <1>5, <1>7, <1>8, <1>9, <1>10, ScrapeKeepsInv

(* Operators, probes and circuits change no lease and no observation.      *)
LEMMA DisturbKeepsInv ==
    ASSUME PressureInv, NEW b \in Backends, Disturb(b) PROVE PressureInv'
<1>0. Types /\ HeldInv /\ CountInv /\ MutexInv /\ SnapshotInv /\ RankedInv
  BY DEF PressureInv
<1>1. UNCHANGED <<scrape, call, choice, selection, cursor>>
  BY DEF Disturb
<1>2. /\ slot' \in Slots
      /\ \A c \in Backends : /\ slot'[c].acquired = slot[c].acquired
                             /\ slot'[c].active = slot[c].active
  <2>1. \/ slot' = slot
        \/ \E m \in {"Active", "Draining"} : slot' = [slot EXCEPT ![b].mode = m]
    BY DEF Disturb
  <2>2. slot \in [Backends -> SlotType]
    BY <1>0 DEF Types, Slots
  <2>3. CASE slot' = slot
    BY <2>2, <2>3 DEF Slots
  <2>4. ASSUME NEW m \in {"Active", "Draining"}, slot' = [slot EXCEPT ![b].mode = m]
        PROVE  /\ slot' \in Slots
               /\ \A c \in Backends : /\ slot'[c].acquired = slot[c].acquired
                                      /\ slot'[c].active = slot[c].active
    BY <2>2, <2>4 DEF Slots, SlotType
  <2> QED BY <2>1, <2>3, <2>4
<1>3. /\ live' \in [Backends -> LiveType]
      /\ \A c \in Backends : live'[c].obs = live[c].obs
  <2>1. \/ live' = live
        \/ live' = [live EXCEPT ![b].ready = ~@]
        \/ \E c \in {"Closed", "HalfOpen", "Open"} : live' = [live EXCEPT ![b].circuit = c]
    BY DEF Disturb
  <2>2. live \in [Backends -> LiveType]
    BY <1>0 DEF Types
  <2>3. CASE live' = live
    BY <2>2, <2>3
  <2>4. CASE live' = [live EXCEPT ![b].ready = ~@]
    <3>1. PICK ready \in BOOLEAN : ready = ~live[b].ready
      OBVIOUS
    <3>2. live' = [live EXCEPT ![b].ready = ready]
      BY <2>4, <3>1
    <3> QED BY <2>2, <3>2 DEF LiveType
  <2>5. ASSUME NEW c \in {"Closed", "HalfOpen", "Open"}, live' = [live EXCEPT ![b].circuit = c]
        PROVE  /\ live' \in [Backends -> LiveType]
               /\ \A d \in Backends : live'[d].obs = live[d].obs
    BY <2>2, <2>5 DEF LiveType
  <2> QED BY <2>1, <2>3, <2>4, <2>5
<1>4. Types'
  BY <1>0, <1>1, <1>2, <1>3 DEF Types
<1>5. \A c : InTransit(c)' = InTransit(c) /\ Held(c)' = Held(c)
  BY <1>1, HeldSame
<1>6. HeldInv'
  BY <1>0, <1>1, <1>2, <1>5 DEF HeldInv
<1>7. CountInv'
  BY <1>0, <1>1, <1>2, <1>3, <1>5 DEF CountInv
<1>8. MutexInv' /\ SnapshotInv' /\ RankedInv'
  BY <1>0, <1>1, <1>2, SelectionSame
<1> QED BY <1>4, <1>6, <1>7, <1>8 DEF PressureInv

LEMMA NextKeepsPressureInv == PressureInv /\ [PressureNext]_pressureVars => PressureInv'
<1> SUFFICES ASSUME PressureInv, [PressureNext]_pressureVars PROVE PressureInv'
  OBVIOUS
<1>1. CASE UNCHANGED pressureVars
  <2>1. UNCHANGED <<slot, live, scrape, call, choice, selection, cursor>>
    BY <1>1 DEF pressureVars
  <2>2. Types'
    BY <2>1 DEF PressureInv, Types
  <2>3. /\ HeldInv' /\ MutexInv' /\ SnapshotInv' /\ RankedInv'
        /\ \A b \in Backends : InTransit(b)' = InTransit(b) /\ Held(b)' = Held(b)
    BY <2>1, ScrapeKeepsTheRest
  <2>4. CountInv'
    BY <2>1, <2>3, CountSame DEF PressureInv
  <2> QED BY <2>2, <2>3, <2>4 DEF PressureInv
<1>2. ASSUME NEW r \in Callers,
             \/ SelectSnapshot(r) \/ SelectRank(r) \/ SelectAcquire(r) \/ SelectSkip(r)
             \/ Arrive(r) \/ Finish(r)
      PROVE  PressureInv'
  BY <1>2, SnapshotKeepsInv, RankKeepsInv, AcquireKeepsInv, SkipKeepsInv, ArriveKeepsInv,
     FinishKeepsInv
<1>3. ASSUME NEW b \in Backends,
             \/ BeginMetricsScrape(b) \/ ReadGauges(b) \/ RecordMetricsSuccess(b)
             \/ RecordMetricsFailure(b) \/ GoStale(b) \/ Disturb(b)
      PROVE  PressureInv'
  BY <1>3, BeginScrapeKeepsInv, ReadGaugesKeepsInv, RecordSuccessKeepsInv,
     RecordFailureKeepsInv, GoStaleKeepsInv, DisturbKeepsInv
<1> QED BY <1>1, <1>2, <1>3 DEF PressureNext

-----------------------------------------------------------------------------
(* The inductive invariant: types, leases and their accounts, and the      *)
(* selection under way, whatever scrapes, operators and probes do          *)
(* meanwhile.                                                              *)
THEOREM PressureInvariant == PressureSpec => []PressureInv
  BY InitPressureInv, NextKeepsPressureInv, PTL DEF PressureSpec

(* What the invariant says of a state.                                     *)
LEMMA InvGivesTypes == PressureInv => PressureTypeOK
<1> SUFFICES ASSUME PressureInv PROVE PressureTypeOK
  OBVIOUS
<1>1. slot \in [Backends -> [mode : {"Active", "Draining"}, acquired : Nat, active : Nat]]
  BY DEF PressureInv, Types, Slots, SlotType
<1>2. \A b \in Backends : live[b].obs # NoObservation => live[b].obs \in Observation
  BY RecordFacts DEF PressureInv, Obs
<1>3. \A b \in Backends : slot[b].active = Cardinality(InTransit(b) \cup InEngine(b))
  BY DEF PressureInv, HeldInv, Held
<1>4. selection \subseteq Callers
  BY DEF PressureInv, MutexInv, Selecting
<1> QED BY <1>1, <1>2, <1>3, <1>4 DEF PressureTypeOK

LEMMA InvGivesCounts == PressureInv => CountedUnlessInTransit
<1> SUFFICES ASSUME PressureInv, NEW b \in Backends, live[b].obs.known
             PROVE  Cardinality((InTransit(b) \cup InEngine(b)) \ live[b].obs.transit)
                        <= live[b].obs.load + Above(slot[b].acquired, live[b].obs.dispatches)
  BY DEF CountedUnlessInTransit
<1>1. Accounts(live[b].obs, slot[b].acquired, Held(b))
  BY DEF PressureInv, CountInv
<1>2. live[b].obs \in Observation /\ slot[b].acquired \in Nat
  BY RecordFacts, ObsFacts DEF PressureInv
<1>3. live[b].obs.dispatches \in Nat
  BY <1>2 DEF Observation
<1>4. live[b].obs.dispatches <= slot[b].acquired
  BY <1>1 DEF Accounts
<1>5. Above(slot[b].acquired, live[b].obs.dispatches)
          = slot[b].acquired - live[b].obs.dispatches
  BY <1>2, <1>3, <1>4 DEF Above
<1> QED BY <1>1, <1>5 DEF Accounts, Held

LEMMA InvGivesDisplay == PressureInv => ShownAsRouted
<1> SUFFICES ASSUME PressureInv, NEW b \in Backends
             PROVE  Eligible(slot, b) <=> DisplayState(b) \in {"Ready", "Degraded", "Probing"}
  BY DEF ShownAsRouted
<1>1. /\ slot[b].mode \in {"Active", "Draining"} /\ live[b].ready \in BOOLEAN
      /\ live[b].circuit \in {"Closed", "HalfOpen", "Open"}
  BY RecordFacts DEF PressureInv, SlotType, LiveType
<1> QED BY <1>1 DEF Eligible, DisplayState

(* The types of the routing state, and local_active counts exactly the     *)
(* requests that hold a lease.                                             *)
THEOREM PressureTypesHold == PressureSpec => []PressureTypeOK
<1> QED BY InvGivesTypes, PressureInvariant, PTL

(* begin_metrics_scrape notes the assignments before the engine reads its  *)
(* gauges: a score counts every request of its backend except those that   *)
(* were on their way when the scrape began, however leases, responses and  *)
(* the scrape's steps interleave.                                          *)
THEOREM NothingIsUncounted == PressureSpec => []CountedUnlessInTransit
<1> QED BY InvGivesCounts, PressureInvariant, PTL

(* display_state shows as ready, degraded or probing exactly the backends  *)
(* that select() would consider.                                           *)
THEOREM DisplayTellsRouting == PressureSpec => []ShownAsRouted
<1> QED BY InvGivesDisplay, PressureInvariant, PTL

(* select() holds the selection mutex from its snapshot to its lease: a    *)
(* request goes to a candidate with the least pressure at that moment,     *)
(* the reservations of every earlier selection included.                   *)
THEOREM LeastPressureIsChosen == PressureSpec => NoStampede
<1> DEFINE Chosen ==
        \A r \in Callers : call[r].pc = "ranked" /\ call'[r].pc = "transit" =>
            LET first == Head(choice[r].ranked)
                Pressure(c) == LeastPressureV1(c.id, c.obs,
                                    Above(slot[c.id].acquired, c.obs.dispatches) + 1)
            IN \A i \in DOMAIN choice[r].ranked : LET c == choice[r].ranked[i] IN
                Scored(c.id, c.obs) /\ Scored(first.id, first.obs)
                    => ~Less(Pressure(c), Pressure(first))
<1>1. PressureInv => Chosen
  <2> SUFFICES ASSUME PressureInv, NEW r \in Callers, call[r].pc = "ranked",
                      NEW i \in DOMAIN choice[r].ranked
               PROVE  LET first == Head(choice[r].ranked)
                          Pressure(c) == LeastPressureV1(c.id, c.obs,
                                    Above(slot[c.id].acquired, c.obs.dispatches) + 1)
                          c == choice[r].ranked[i]
                      IN Scored(c.id, c.obs) /\ Scored(first.id, first.obs)
                             => ~Less(Pressure(c), Pressure(first))
    OBVIOUS
  <2> DEFINE ranked == choice[r].ranked
             c == ranked[i]
             first == Head(ranked)
  <2>1. ranked \in Seq(Candidate) /\ ranked # <<>> /\ InOrder(ranked, Acquired)
    BY DEF PressureInv, Types, ChoiceType, Rankings, RankedInv
  <2>2. /\ first = ranked[1] /\ 1 \in DOMAIN ranked /\ i \in Nat /\ i >= 1
        /\ c \in Candidate /\ first \in Candidate
    BY <2>1
  <2>3. c.id \in Backends /\ first.id \in Backends /\ c.obs \in Obs /\ first.obs \in Obs
    BY <2>2 DEF Candidate
  <2>4. /\ Acquired[c.id] = slot[c.id].acquired /\ Acquired[first.id] = slot[first.id].acquired
        /\ slot[first.id].acquired \in Nat
    BY <2>3, RecordFacts DEF Acquired, PressureInv
  <2>5. ASSUME Scored(c.id, c.obs), Scored(first.id, first.obs)
        PROVE  ~Less(PressureAt(c, Acquired), PressureAt(first, Acquired))
    <3>1. CASE i > 1
      BY <2>1, <2>2, <2>5, <3>1 DEF InOrder
    <3>2. CASE i = 1
      <4>1. first.obs.dispatches \in Nat
        BY <2>3, <2>5, ObsFacts DEF Scored, Observation
      <4>2. Above(Acquired[first.id], first.obs.dispatches) + 1 \in Nat
        <5>1. Above(Acquired[first.id], first.obs.dispatches) \in Nat
          BY <2>4, <4>1, AboveNat
        <5> QED BY <5>1
      <4>3. PressureAt(first, Acquired) \in Fraction
        BY <2>3, <2>5, <4>2, ScoreIsFraction DEF PressureAt
      <4>4. c = first
        BY <2>2, <3>2
      <4> QED BY <4>3, <4>4, LessOrders
    <3> QED BY <2>2, <3>1, <3>2
  <2> QED BY <2>4, <2>5 DEF PressureAt
<1>2. PressureInv /\ [PressureNext]_pressureVars => [Chosen]_pressureVars
  BY <1>1
<1> QED BY <1>2, PressureInvariant, PTL DEF PressureSpec, NoStampede

-----------------------------------------------------------------------------
(* Both halves.                                                            *)

LEMMA NextKeepsBoth ==
    CircuitInv /\ PressureInv /\ [RoutingNext]_<<vars, pressureVars>> => CircuitInv' /\ PressureInv'
<1> SUFFICES ASSUME CircuitInv, PressureInv, [RoutingNext]_<<vars, pressureVars>>
             PROVE  CircuitInv' /\ PressureInv'
  OBVIOUS
<1>1. [Next]_vars /\ [PressureNext]_pressureVars
  <2> HIDE DEF vars
  <2> QED BY DEF RoutingNext
<1> QED BY <1>1, NextKeepsCircuitInv, NextKeepsPressureInv

(* What the run of MCRouting checks of states, for every value of the      *)
(* constants: its specification lets each half move alone, so each keeps   *)
(* its invariant.                                                          *)
THEOREM RoutingHolds ==
    RoutingSpec => [](/\ RoutingTypeOK
                      /\ TrialHasOneOwner /\ ClosedBelowThreshold
                      /\ CountedUnlessInTransit /\ ShownAsRouted)
<1>1. RoutingInit => CircuitInv /\ PressureInv
  BY InitCircuitInv, InitPressureInv DEF RoutingInit
<1>2. CircuitInv => TypeOK /\ TrialHasOneOwner /\ ClosedBelowThreshold
  BY DEF CircuitInv
<1>3. PressureInv => PressureTypeOK /\ CountedUnlessInTransit /\ ShownAsRouted
  BY InvGivesTypes, InvGivesCounts, InvGivesDisplay
<1>4. CircuitInv /\ PressureInv =>
        /\ RoutingTypeOK
        /\ TrialHasOneOwner /\ ClosedBelowThreshold
        /\ CountedUnlessInTransit /\ ShownAsRouted
  BY <1>2, <1>3 DEF RoutingTypeOK
<1> QED BY <1>1, <1>4, NextKeepsBoth, PTL DEF RoutingSpec
=============================================================================
