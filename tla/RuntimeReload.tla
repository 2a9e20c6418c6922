-------------------------- MODULE RuntimeReload --------------------------
(***************************************************************************)
(* Reloading the configuration under traffic (src/runtime.rs), seen from   *)
(* one backend among others: the published configuration, the registry's   *)
(* slot, the live state of src/routing.rs that select() decides by, the    *)
(* readiness worker that feeds it and the requests that are routed on it.  *)
(*                                                                         *)
(* apply_with_modes changes the registry, the modes and the published      *)
(* configuration one after the other, while select() reads the registry,   *)
(* the configuration and the live state one after the other, and probes of *)
(* an endpoint are answered after it has been replaced.  A generation      *)
(* names one life of the backend at one endpoint.                          *)
(*                                                                         *)
(* A backend's three URLs are one endpoint.  Operator commands hold the    *)
(* lifecycle lock and are one step each: DrainControl has their inside, and*)
(* shows that gate and durable fence agree between them.  The circuit is   *)
(* Circuit's.                                                              *)
(***************************************************************************)
EXTENDS Naturals

CONSTANTS Requests,             \* requests that may be in flight at once
          Endpoints,            \* endpoints the configuration may name
          Absent,               \* "not in the configuration"
          SuccessThreshold,     \* readiness.success_threshold
          FailureThreshold,     \* readiness.failure_threshold
          MaxGeneration         \* generations stop here: u64::MAX in the code

ASSUME ReloadAssumption ==
    /\ Endpoints # {} /\ Absent \notin Endpoints
    /\ SuccessThreshold \in Nat \ {0} /\ FailureThreshold \in Nat \ {0}
    /\ MaxGeneration \in Nat \ {0}

VARIABLES
    config,         \* PublishedRuntime: this backend's endpoint and generation
    next_backend_generation,
    slot,           \* the registry's slot: registered, spec, mode
    fence,          \* BackendStateStore's mode; "Active" is no entry
    reload,         \* the reload that holds the lifecycle lock, if any
    live,           \* RoutingInner's LiveBackend
    probe,          \* the readiness worker's probe in flight
    selector,       \* the request inside select(), under the selection lock
    lease,          \* each request's lease: endpoint, generation
    specGeneration, \* history: the generation the slot's spec belongs to
    answers         \* history: successful probes of each generation

published == <<config, next_backend_generation>>
history == <<specGeneration, answers>>
vars == <<published, slot, fence, reload, live, probe, selector, lease, history>>

Generation == 0..MaxGeneration
BackendMode == {"Active", "Draining", "Disabled"}
NoConfig == [endpoint |-> Absent, generation |-> 0]
NoReload == [step |-> "free", target |-> Absent, generation |-> 0, revived |-> FALSE]
NewLive(g) == [generation |-> g, readiness |-> "Checking", successes |-> 0, failures |-> 0]
NoLive == NewLive(0)
NoProbe == [busy |-> FALSE, generation |-> 0]
NoSelector == [step |-> "free", generation |-> 0]
NoLease == [endpoint |-> Absent, generation |-> 0]

Idle == \A r \in Requests : lease[r] = NoLease
Min2(a, b) == IF a <= b THEN a ELSE b

-----------------------------------------------------------------------------
(* from_config and restore_modes: what the file names is registered, and   *)
(* active unless an earlier process left a fence.                          *)
Init ==
    /\ config \in {[endpoint |-> e, generation |-> 1] : e \in Endpoints} \cup {NoConfig}
    /\ next_backend_generation = 2
    /\ fence \in BackendMode
    /\ \E e \in Endpoints :
        slot = IF config = NoConfig
               THEN [registered |-> FALSE, spec |-> e, mode |-> "Disabled"]
               ELSE [registered |-> TRUE, spec |-> config.endpoint, mode |-> fence]
    /\ reload = NoReload
    /\ live = NoLive
    /\ probe = NoProbe
    /\ selector = NoSelector
    /\ lease = [r \in Requests |-> NoLease]
    /\ specGeneration = config.generation
    /\ answers = [g \in Generation |-> 0]

-----------------------------------------------------------------------------
(* ensure_backends, at every entry to the routing state: live state starts *)
(* anew with every generation, and goes with the configuration's entry.    *)
Ensured ==
    IF config = NoConfig THEN NoLive
    ELSE IF live.generation # config.generation THEN NewLive(config.generation)
    ELSE live

(* A status request or a metrics scrape.                                   *)
Observe ==
    /\ live' = Ensured
    /\ UNCHANGED <<published, slot, fence, reload, probe, selector, lease, history>>

-----------------------------------------------------------------------------
(* The readiness worker probes a coherent topology snapshot.               *)
BeginProbe ==
    /\ ~probe.busy /\ config # NoConfig
    /\ probe' = [busy |-> TRUE, generation |-> config.generation]
    /\ UNCHANGED <<published, slot, fence, reload, live, selector, lease, history>>

(* Results of another generation are discarded.                            *)
Accepted == Ensured # NoLive /\ Ensured.generation = probe.generation

(* Mutant: the generation is not compared.                                 *)
RecordReadinessSuccessOfAny ==
    /\ probe.busy
    /\ probe' = NoProbe
    /\ LET n == Min2(Ensured.successes + 1, SuccessThreshold) IN
        live' = IF Ensured # NoLive
                THEN [Ensured EXCEPT !.failures = 0, !.successes = n,
                        !.readiness = IF n >= SuccessThreshold THEN "Ready" ELSE @]
                ELSE Ensured
    /\ answers' = [answers EXCEPT ![probe.generation] = Min2(@ + 1, SuccessThreshold)]
    /\ UNCHANGED <<published, slot, fence, reload, selector, lease, specGeneration>>

RecordReadinessSuccess ==
    /\ probe.busy
    /\ probe' = NoProbe
    /\ LET n == Min2(Ensured.successes + 1, SuccessThreshold) IN
        live' = IF Accepted
                THEN [Ensured EXCEPT !.failures = 0, !.successes = n,
                        !.readiness = IF n >= SuccessThreshold THEN "Ready" ELSE @]
                ELSE Ensured
    /\ answers' = [answers EXCEPT ![probe.generation] = Min2(@ + 1, SuccessThreshold)]
    /\ UNCHANGED <<published, slot, fence, reload, selector, lease, specGeneration>>

(* Unready and Unreachable differ only in their display.                   *)
RecordReadinessFailure ==
    /\ probe.busy
    /\ probe' = NoProbe
    /\ LET n == Min2(Ensured.failures + 1, FailureThreshold) IN
        live' = IF Accepted
                THEN [Ensured EXCEPT !.successes = 0, !.failures = n,
                        !.readiness = IF n >= FailureThreshold THEN "Unready" ELSE @]
                ELSE Ensured
    /\ UNCHANGED <<published, slot, fence, reload, selector, lease, history>>

-----------------------------------------------------------------------------
(* select(), which one request at a time is in: the registry's snapshots,  *)
(* the configuration, the live state, the circuit's permit, the lease.     *)
SelectSnapshot ==
    /\ selector = NoSelector /\ \E r \in Requests : lease[r] = NoLease
    /\ slot.registered /\ slot.mode = "Active"
    /\ selector' = [step |-> "config", generation |-> 0]
    /\ UNCHANGED <<published, slot, fence, reload, live, probe, lease, history>>

SelectConfig ==
    /\ selector.step = "config"
    /\ selector' = IF config = NoConfig THEN NoSelector
                   ELSE [step |-> "live", generation |-> config.generation]
    /\ UNCHANGED <<published, slot, fence, reload, live, probe, lease, history>>

SelectLive ==
    /\ selector.step = "live"
    /\ live' = Ensured
    /\ selector' = IF /\ Ensured # NoLive /\ Ensured.readiness = "Ready"
                      /\ Ensured.generation = selector.generation
                   THEN [selector EXCEPT !.step = "permit"] ELSE NoSelector
    /\ UNCHANGED <<published, slot, fence, reload, probe, lease, history>>

(* The permit is asked for by name, of whatever is live by now.            *)
SelectPermit ==
    /\ selector.step = "permit"
    /\ selector' = IF live = NoLive THEN NoSelector ELSE [selector EXCEPT !.step = "acquire"]
    /\ UNCHANGED <<published, slot, fence, reload, live, probe, lease, history>>

(* So is the lease, which captures the slot's spec of now.                 *)
SelectAcquire(r) ==
    /\ selector.step = "acquire" /\ lease[r] = NoLease
    /\ selector' = NoSelector
    /\ lease' = IF slot.registered /\ slot.mode = "Active"
                THEN [lease EXCEPT ![r] = [endpoint |-> slot.spec, generation |-> specGeneration]]
                ELSE lease
    /\ UNCHANGED <<published, slot, fence, reload, live, probe, history>>

Release(r) ==
    /\ lease[r] # NoLease
    /\ lease' = [lease EXCEPT ![r] = NoLease]
    /\ UNCHANGED <<published, slot, fence, reload, live, probe, selector, history>>

-----------------------------------------------------------------------------
(* Operator commands, with the durable fence.                              *)
SetMode(m) ==
    /\ reload = NoReload
    /\ slot.registered
    /\ slot' = [slot EXCEPT !.mode = m]
    /\ fence' = m
    /\ UNCHANGED <<published, reload, probe, selector, lease, history>>

(* activate: only a disabled backend that is ready, in this generation.    *)
Activate ==
    /\ slot.mode = "Disabled"
    /\ Ensured # NoLive /\ Ensured.readiness = "Ready"
    /\ live' = Ensured
    /\ SetMode("Active")

BeginDrain == slot.mode # "Draining" /\ SetMode("Draining") /\ UNCHANGED live

DriveClose == slot.mode = "Draining" /\ Idle /\ SetMode("Disabled") /\ live' = Ensured

Disable(force) ==
    /\ slot.mode # "Disabled"
    /\ force \/ Idle
    /\ live' = Ensured
    /\ SetMode("Disabled")

-----------------------------------------------------------------------------
(* ControlState::reload and apply_with_modes.  The stored modes are read   *)
(* once, here, under the lifecycle lock: they cannot change before its end.*)
BeginReload ==
    /\ reload = NoReload
    /\ \E e \in Endpoints \cup {Absent} :
        reload' = [NoReload EXCEPT !.step = "check", !.target = e]
    /\ UNCHANGED <<published, slot, fence, live, probe, selector, lease, history>>

(* Whatever is not as it was gets a new generation.                        *)
TargetGeneration ==
    IF reload.target = config.endpoint THEN config.generation
    ELSE IF reload.target = Absent THEN 0
    ELSE next_backend_generation

(* Mutant: requests in flight do not matter.                               *)
CheckConfigModeOnly ==
    /\ reload.step = "check"
    /\ IF config # NoConfig /\ reload.target # config.endpoint /\ slot.mode # "Disabled"
       THEN reload' = NoReload
       ELSE /\ TargetGeneration <= MaxGeneration
            /\ reload' = [reload EXCEPT !.step = "reconcile", !.generation = TargetGeneration]
    /\ UNCHANGED <<published, slot, fence, live, probe, selector, lease, history>>

(* A backend that is removed or changes its endpoint must be disabled, with*)
(* nothing in flight.                                                      *)
CheckConfig ==
    /\ reload.step = "check"
    /\ IF /\ config # NoConfig /\ reload.target # config.endpoint
          /\ slot.mode # "Disabled" \/ ~Idle
       THEN reload' = NoReload
       ELSE /\ TargetGeneration <= MaxGeneration
            /\ reload' = [reload EXCEPT !.step = "reconcile", !.generation = TargetGeneration]
    /\ UNCHANGED <<published, slot, fence, live, probe, selector, lease, history>>

(* Mutant: retiring a slot forgets its spec.                               *)
ReconcileClearsSpec ==
    /\ reload.step = "reconcile"
    /\ slot' = [slot EXCEPT !.registered = reload.target # Absent, !.spec = reload.target]
    /\ specGeneration' = reload.generation
    /\ reload' = [reload EXCEPT !.step = "modes",
                                !.revived = reload.target # Absent /\ ~slot.registered]
    /\ UNCHANGED <<published, fence, live, probe, selector, lease, answers>>

(* BackendRegistry::reconcile.                                             *)
Reconcile ==
    /\ reload.step = "reconcile"
    /\ slot' = IF reload.target = Absent
               THEN [slot EXCEPT !.registered = FALSE,
                                 !.mode = IF @ = "Active" THEN "Disabled" ELSE @]
               ELSE [slot EXCEPT !.registered = TRUE, !.spec = reload.target]
    /\ specGeneration' = reload.generation
    /\ reload' = [reload EXCEPT !.step = "modes",
                                !.revived = reload.target # Absent /\ ~slot.registered]
    /\ UNCHANGED <<published, fence, live, probe, selector, lease, answers>>

(* Mutant: what comes back comes back active.                              *)
RestoreModesActive ==
    /\ reload.step = "modes"
    /\ slot' = IF reload.revived THEN [slot EXCEPT !.mode = "Active"] ELSE slot
    /\ reload' = [reload EXCEPT !.step = "publish"]
    /\ UNCHANGED <<published, fence, live, probe, selector, lease, history>>

(* Added and revived backends take their stored mode, or become active;    *)
(* stored fences are reasserted on every registered one.                   *)
RestoreModes ==
    /\ reload.step = "modes"
    /\ slot' = IF reload.revived \/ (slot.registered /\ fence # "Active")
               THEN [slot EXCEPT !.mode = fence] ELSE slot
    /\ reload' = [reload EXCEPT !.step = "publish"]
    /\ UNCHANGED <<published, fence, live, probe, selector, lease, history>>

Publish ==
    /\ reload.step = "publish"
    /\ config' = [endpoint |-> reload.target, generation |-> reload.generation]
    /\ next_backend_generation' = IF reload.generation = next_backend_generation
                                  THEN next_backend_generation + 1
                                  ELSE next_backend_generation
    /\ reload' = NoReload
    /\ UNCHANGED <<slot, fence, live, probe, selector, lease, history>>

-----------------------------------------------------------------------------
Next ==
    \/ Observe
    \/ BeginProbe \/ RecordReadinessSuccess \/ RecordReadinessFailure
    \/ SelectSnapshot \/ SelectConfig \/ SelectLive \/ SelectPermit
    \/ \E r \in Requests : SelectAcquire(r) \/ Release(r)
    \/ Activate \/ BeginDrain \/ DriveClose
    \/ \E force \in BOOLEAN : Disable(force)
    \/ BeginReload \/ CheckConfig \/ Reconcile \/ RestoreModes \/ Publish

Spec == Init /\ [][Next]_vars

-----------------------------------------------------------------------------
Named == Endpoints \cup {Absent}

(* Types; a slot always has the spec of some endpoint.                     *)
TypeOK ==
    /\ config \in [endpoint : Named, generation : Generation]
    /\ next_backend_generation \in 1..(MaxGeneration + 1)
    /\ slot \in [registered : BOOLEAN, spec : Endpoints, mode : BackendMode]
    /\ fence \in BackendMode
    /\ reload \in [step : {"free", "check", "reconcile", "modes", "publish"},
                   target : Named, generation : Generation, revived : BOOLEAN]
    /\ live \in [generation : Generation, readiness : {"Checking", "Ready", "Unready"},
                 successes : 0..SuccessThreshold, failures : 0..FailureThreshold]
    /\ probe \in [busy : BOOLEAN, generation : Generation]
    /\ selector \in [step : {"free", "config", "live", "permit", "acquire"},
                     generation : Generation]
    /\ lease \in [Requests -> [endpoint : Named, generation : Generation]]
    /\ specGeneration \in Generation
    /\ answers \in [Generation -> 0..SuccessThreshold]

(* A request is only ever sent to an endpoint that has answered enough     *)
(* readiness probes in its present life, although select() decides on one  *)
(* snapshot and acquires by name from another, and probes of a replaced    *)
(* endpoint are answered late ("allowing late results from an older        *)
(* endpoint to be discarded").                                             *)
DispatchedWasProbed ==
    \A r \in Requests : lease[r] # NoLease => answers[lease[r].generation] >= SuccessThreshold

(* No endpoint is changed or removed under a request: a lease's backend is *)
(* registered, and is at the lease's endpoint, until the lease ends.       *)
LeasesKeepTheirEndpoint ==
    \A r \in Requests :
        lease[r] # NoLease =>
            /\ slot.registered
            /\ lease[r] = [endpoint |-> slot.spec, generation |-> specGeneration]

(* A durable fence outlasts the configuration: a fenced backend that is    *)
(* removed and named again is never open, not even between the steps of a  *)
(* reload.                                                                 *)
FencedStaysClosed == fence # "Active" => slot.mode # "Active"
=============================================================================
