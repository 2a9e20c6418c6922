------------------------------ MODULE Circuit ------------------------------
(***************************************************************************)
(* The circuit breaker of one backend (src/routing.rs), for the lifetime of*)
(* one LiveBackend, together with the requests that report to it.          *)
(*                                                                         *)
(* select() hands a request a CircuitPermit stamped with the breaker's     *)
(* epoch.  The outcome is reported once: at the response head, at a        *)
(* transport error, or by the permit's Drop.  A successful head leaves a   *)
(* BodyFailureObserver behind, which reports a body that breaks later.     *)
(* Reports of any number of requests arrive in any order; the epoch tells  *)
(* the breaker which of them are about its current state.                  *)
(*                                                                         *)
(* The clock is abstracted to one fact: an open circuit whose deadline has *)
(* passed is "Elapsed".  HalfOpen{trial_in_flight} is "HalfOpen" when no   *)
(* trial is in flight and "Trial" when one is.                             *)
(***************************************************************************)
EXTENDS Integers

CONSTANTS Requests,     \* tasks that forward requests, one after another
          Threshold,    \* CIRCUIT_FAILURE_THRESHOLD
          MaxEpoch      \* the epoch counter stops here: u64::MAX in the code

ASSUME CircuitAssumption ==
    /\ Threshold \in Nat \ {0}
    /\ MaxEpoch \in Nat

VARIABLES
    circuit,        \* LiveBackend.circuit
    circuit_epoch,  \* LiveBackend.circuit_epoch
    failures,       \* LiveBackend.consecutive_request_failures
    request,        \* per task: phase, and the permit's or observer's fields
    failedInARow    \* history: failed requests since the last good one, in this epoch

breaker == <<circuit, circuit_epoch, failures>>
vars == <<breaker, request, failedInARow>>

CircuitState == {"Closed", "Open", "Elapsed", "HalfOpen", "Trial"}

Idle == [phase |-> "idle", epoch |-> 0, trial |-> FALSE]

Min2(a, b) == IF a <= b THEN a ELSE b

-----------------------------------------------------------------------------
Init ==
    /\ circuit = "Closed"
    /\ circuit_epoch = 0
    /\ failures = 0
    /\ request = [r \in Requests |-> Idle]
    /\ failedInARow = 0

Current(r) == request[r].epoch = circuit_epoch

(* The request is over.                                                    *)
Done(r) == request' = [request EXCEPT ![r] = Idle]

(* try_circuit_permit.  An open circuit and one whose trial is under way   *)
(* give no permit: select() moves on to another backend.                   *)
TryCircuitPermit(r) ==
    /\ request[r].phase = "idle"
    /\ circuit \in {"Closed", "Elapsed", "HalfOpen"}
    /\ circuit' = IF circuit = "Closed" THEN "Closed" ELSE "Trial"
    /\ request' = [request EXCEPT ![r] = [phase |-> "permit", epoch |-> circuit_epoch,
                                          trial |-> circuit # "Closed"]]
    /\ UNCHANGED <<circuit_epoch, failures, failedInARow>>

(* Mutant: one failure more than the threshold.                            *)
CountFailureLate(immediately) ==
    LET count == IF immediately THEN Threshold ELSE failures + 1 IN
    /\ failures' = count
    /\ IF count > Threshold
       THEN /\ circuit_epoch < MaxEpoch
            /\ circuit_epoch' = circuit_epoch + 1
            /\ circuit' = "Open"
       ELSE UNCHANGED <<circuit, circuit_epoch>>

(* A failure about the current epoch, from record_circuit_outcome or       *)
(* record_body_failure: a trial's opens the circuit at once, another's     *)
(* when it makes Threshold in a row.                                       *)
CountFailure(immediately) ==
    LET count == IF immediately THEN Threshold ELSE failures + 1 IN
    /\ failures' = count
    /\ IF count >= Threshold
       THEN /\ circuit_epoch < MaxEpoch
            /\ circuit_epoch' = circuit_epoch + 1
            /\ circuit' = "Open"
       ELSE UNCHANGED <<circuit, circuit_epoch>>

RequestFailed ==
    failedInARow' = IF circuit_epoch' # circuit_epoch THEN 0
                    ELSE Min2(failedInARow + 1, Threshold)

(* A transport error (record_transport_failure) or a head with status 500, *)
(* 502, 503 or 504 (into_response_guard).                                  *)
FailureOutcome(r) ==
    /\ request[r].phase = "permit"
    /\ \/ Current(r) /\ CountFailure(request[r].trial) /\ RequestFailed
       \/ ~Current(r) /\ UNCHANGED <<breaker, failedInARow>>
    /\ Done(r)

(* Mutant: the report of an old epoch is believed.                         *)
AcceptableHeadAnyEpoch(r) ==
    /\ request[r].phase = "permit"
    /\ circuit_epoch < MaxEpoch
    /\ failures' = 0
    /\ circuit' = "Closed"
    /\ circuit_epoch' = IF request[r].trial THEN circuit_epoch + 1 ELSE circuit_epoch
    /\ request' = [request EXCEPT ![r].phase = "body", ![r].epoch = circuit_epoch']
    /\ failedInARow' = IF request[r].trial THEN 0 ELSE failedInARow

(* Any other head but 429: record_success_and_observer closes the circuit  *)
(* and clears the count; after a trial it starts a new epoch.  The observer*)
(* carries the epoch it was made in.  A late head leaves no observer.      *)
AcceptableHead(r) ==
    /\ request[r].phase = "permit"
    /\ \/ /\ Current(r)
          /\ request[r].trial => circuit_epoch < MaxEpoch
          /\ failures' = 0
          /\ circuit' = "Closed"
          /\ circuit_epoch' = IF request[r].trial THEN circuit_epoch + 1 ELSE circuit_epoch
          /\ request' = [request EXCEPT ![r].phase = "body", ![r].epoch = circuit_epoch']
          /\ failedInARow' = IF request[r].trial THEN 0 ELSE failedInARow
       \/ ~Current(r) /\ UNCHANGED <<breaker, failedInARow>> /\ Done(r)

(* Mutant: a dropped trial is not given back.                              *)
NeutralOutcomeKeepsTrial(r) ==
    /\ request[r].phase = "permit"
    /\ UNCHANGED <<breaker, failedInARow>>
    /\ Done(r)

(* Status 429, a URI that cannot be built, a lease that could not be       *)
(* acquired after all, or the client gone before the head: the permit      *)
(* resolves as neutral, at the latest in its Drop.                         *)
NeutralOutcome(r) ==
    /\ request[r].phase = "permit"
    /\ circuit' = IF Current(r) /\ request[r].trial THEN "HalfOpen" ELSE circuit
    /\ UNCHANGED <<circuit_epoch, failures, failedInARow>>
    /\ Done(r)

(* The upstream body breaks: BackendResponseGuard::body_error.             *)
BodyError(r) ==
    /\ request[r].phase = "body"
    /\ \/ Current(r) /\ CountFailure(request[r].trial) /\ RequestFailed
       \/ ~Current(r) /\ UNCHANGED <<breaker, failedInARow>>
    /\ Done(r)

(* The body reaches EOF: the guard, and its observer with it, is dropped.  *)
BodyComplete(r) ==
    /\ request[r].phase = "body"
    /\ failedInARow' = IF Current(r) THEN 0 ELSE failedInARow
    /\ UNCHANGED breaker
    /\ Done(r)

(* The client abandons the body: the guard is dropped, neutrally.          *)
BodyAbandoned(r) ==
    /\ request[r].phase = "body"
    /\ UNCHANGED <<breaker, failedInARow>>
    /\ Done(r)

(* CIRCUIT_OPEN_FOR passes.                                                *)
DeadlinePasses ==
    /\ circuit = "Open"
    /\ circuit' = "Elapsed"
    /\ UNCHANGED <<circuit_epoch, failures, request, failedInARow>>

Next ==
    \/ DeadlinePasses
    \/ \E r \in Requests :
        \/ TryCircuitPermit(r)
        \/ FailureOutcome(r)
        \/ AcceptableHead(r)
        \/ NeutralOutcome(r)
        \/ BodyError(r)
        \/ BodyComplete(r)
        \/ BodyAbandoned(r)

Spec == Init /\ [][Next]_vars

-----------------------------------------------------------------------------
TypeOK ==
    /\ circuit \in CircuitState
    /\ circuit_epoch \in 0..MaxEpoch
    /\ failures \in 0..Threshold
    /\ request \in [Requests -> [phase : {"idle", "permit", "body"},
                                 epoch : 0..MaxEpoch, trial : BOOLEAN]]
    /\ failedInARow \in 0..Threshold

OwnsTrial(r) == request[r].phase = "permit" /\ request[r].trial /\ Current(r)

(* "A single half-open trial decides" (README): while the breaker waits for*)
(* a trial exactly one request owns it, and no request owns one otherwise. *)
(* So the breaker can neither let two trials in nor wait for none.         *)
TrialHasOneOwner ==
    /\ circuit = "Trial" => \E r \in Requests : OwnsTrial(r)
    /\ \A r \in Requests : OwnsTrial(r) => circuit = "Trial"
    /\ \A r, q \in Requests : OwnsTrial(r) /\ OwnsTrial(q) => r = q

(* A closed circuit never carries a full count of failures, whatever the   *)
(* order in which concurrent requests report.                              *)
ClosedBelowThreshold == circuit = "Closed" => failures < Threshold

(* A report that was on its way when the circuit opened changes nothing: an*)
(* open circuit waits for its deadline, and then for a trial.              *)
OpenOnlyElapses ==
    [][/\ circuit = "Open" => circuit' = "Elapsed"
       /\ circuit = "Elapsed" => circuit' = "Trial"]_breaker

(* "Three consecutive transport failures or upstream 500, 502, 503, or 504 *)
(* responses open that backend's circuit" (README), and "an upstream body  *)
(* error counts as a transport failure" (routing.rs): as many failed       *)
(* requests in a row as the threshold leave no circuit closed.             *)
FailuresInARowOpen == failedInARow = Threshold => circuit # "Closed"
=============================================================================
