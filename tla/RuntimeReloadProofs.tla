------------------------- MODULE RuntimeReloadProofs -------------------------
(***************************************************************************)
(* Proofs about RuntimeReload, for any number of requests, endpoints,      *)
(* generations and any thresholds.                                         *)
(*                                                                         *)
(* A selection may have been decided by an earlier life of the backend     *)
(* than the one its lease is taken from.  What saves it: a backend changes *)
(* its life only while it is disabled, and opens again only by activate,   *)
(* which asks for the new life's readiness; a backend that is named for    *)
(* the first time opens by itself, but then no selection can have begun.   *)
(***************************************************************************)
EXTENDS RuntimeReload, TLAPS

(* An entry of the configuration has a generation, no entry has none.      *)
ConfigInv == config.endpoint = Absent <=> config.generation = 0

(* Except while a reload is in the middle of its changes, the registry is  *)
(* the configuration's, and a registered slot's gate is the stored mode.   *)
Coherent ==
    /\ slot.registered <=> config # NoConfig
    /\ slot.registered => slot.spec = config.endpoint /\ slot.mode = fence
    /\ specGeneration = config.generation

(* Then it is the target's, and a revived slot is not open yet.            *)
Applied ==
    /\ slot.registered <=> reload.target # Absent
    /\ slot.registered => slot.spec = reload.target
    /\ specGeneration = reload.generation
    /\ reload.revived => config = NoConfig /\ reload.target # Absent
    /\ slot.registered /\ (reload.step = "publish" \/ ~reload.revived) => slot.mode = fence
    /\ reload.step = "modes" /\ reload.revived =>
        slot.mode # "Active" /\ (fence = "Active" => selector = NoSelector)

RegistryInv ==
    /\ reload.step \in {"free", "check", "reconcile"} => Coherent
    /\ reload.step \in {"modes", "publish"} => Applied

(* A backend that is not registered is closed; if it was never fenced, it  *)
(* has never been registered and nobody has begun to select it.            *)
UnregisteredInv ==
    ~slot.registered => /\ slot.mode # "Active"
                        /\ fence = "Active" => selector = NoSelector

(* What has been checked stays true until it is published.                 *)
ReloadInv ==
    reload.step \in {"reconcile", "modes", "publish"} =>
        \/ reload.target = config.endpoint /\ reload.generation = config.generation
        \/ /\ reload.target # config.endpoint
           /\ reload.generation = IF reload.target = Absent THEN 0 ELSE next_backend_generation
           /\ config # NoConfig => slot.mode = "Disabled" /\ fence = "Disabled"
           /\ reload.step = "reconcile" => Idle

(* Generations are new when they are given out.                            *)
FreshInv ==
    /\ config.generation < next_backend_generation
    /\ probe.generation < next_backend_generation
    /\ \A g \in Generation : g >= next_backend_generation => answers[g] = 0

(* The live state counts no more than what its generation has answered.    *)
LiveInv ==
    /\ live.successes <= answers[live.generation]
    /\ live.readiness = "Ready" => answers[live.generation] >= SuccessThreshold

(* Whoever has passed the readiness check will find, if the gate is open,  *)
(* a life of the backend that has been probed.                             *)
SelectionInv ==
    slot.registered /\ slot.mode = "Active" /\ selector.step \in {"permit", "acquire"} =>
        answers[specGeneration] >= SuccessThreshold

(* The inductive invariant.                                                *)
Inv ==
    /\ TypeOK /\ ConfigInv /\ RegistryInv /\ UnregisteredInv /\ ReloadInv /\ FreshInv /\ LiveInv
    /\ SelectionInv /\ DispatchedWasProbed /\ LeasesKeepTheirEndpoint /\ FencedStaysClosed

(* A backend's new life starts without a past.                             *)
NewLifeIsNew ==
    reload.step \in {"reconcile", "modes", "publish"}
        /\ reload.target # config.endpoint /\ reload.target # Absent =>
            /\ answers[reload.generation] = 0
            /\ reload.generation \notin {config.generation, probe.generation}
-----------------------------------------------------------------------------
USE ReloadAssumption DEF published, history, vars, NoConfig, NoReload, NewLive, NoLive, NoProbe,
    NoSelector, NoLease

(* Generations are numbers.                                                *)
LEMMA Generations == 0 \in Generation /\ Generation \subseteq Nat
  BY DEF Generation

(* The invariant holds when from_config and restore_modes are done.        *)
LEMMA InitInv == Init => Inv
<1> SUFFICES ASSUME Init PROVE Inv
  OBVIOUS
<1> USE DEF Generation, Named, BackendMode
<1>1. PICK e \in Endpoints :
        slot = IF config = NoConfig
               THEN [registered |-> FALSE, spec |-> e, mode |-> "Disabled"]
               ELSE [registered |-> TRUE, spec |-> config.endpoint, mode |-> fence]
  BY DEF Init
<1>2. /\ config \in [endpoint : Named, generation : {0, 1}]
      /\ config.endpoint = Absent <=> config.generation = 0
      /\ config # NoConfig <=> config.endpoint \in Endpoints
  BY DEF Init
<1>3. slot \in [registered : BOOLEAN, spec : Endpoints, mode : BackendMode]
  BY <1>1, <1>2 DEF Init
<1>4. TypeOK
  <2>1. lease \in [Requests -> [endpoint : Named, generation : Generation]]
    BY DEF Init
  <2>2. answers \in [Generation -> 0..SuccessThreshold]
    BY DEF Init
  <2> QED BY <1>2, <1>3, <2>1, <2>2 DEF Init, TypeOK
<1>5. ConfigInv /\ RegistryInv /\ UnregisteredInv /\ ReloadInv
  BY <1>1, <1>2 DEF Init, ConfigInv, RegistryInv, Coherent, UnregisteredInv, ReloadInv
<1>6. FreshInv /\ LiveInv /\ SelectionInv
  BY <1>2 DEF Init, FreshInv, LiveInv, SelectionInv
<1>7. DispatchedWasProbed /\ LeasesKeepTheirEndpoint /\ FencedStaysClosed
  BY <1>1 DEF Init, DispatchedWasProbed, LeasesKeepTheirEndpoint, FencedStaysClosed
<1> QED BY <1>4, <1>5, <1>6, <1>7 DEF Inv

(* The type of the live state, with its ranges named.                      *)
Shown == {"Checking", "Ready", "Unready"}
UpTo(n) == 0..n
LiveType == [generation : Generation, readiness : Shown,
             successes : UpTo(SuccessThreshold), failures : UpTo(FailureThreshold)]

(* ensure_backends: live state that was brought up to date is the          *)
(* configured generation's, and has counted none but its answers.          *)
LEMMA EnsuredFacts ==
  ASSUME Inv
  PROVE  /\ Ensured \in LiveType
         /\ Ensured.successes <= answers[Ensured.generation]
         /\ Ensured.readiness = "Ready" => answers[Ensured.generation] >= SuccessThreshold
         /\ Ensured # NoLive => Ensured.generation = config.generation /\ config # NoConfig
<1>1. config.generation \in Generation /\ live \in LiveType
      /\ \A g \in Generation : answers[g] \in 0..SuccessThreshold
  BY DEF Inv, TypeOK, LiveType, UpTo, Shown
<1>2. \A g \in Generation : NewLive(g) \in LiveType /\ NewLive(g).successes = 0
        /\ NewLive(g).readiness = "Checking" /\ NewLive(g).generation = g
  BY DEF LiveType, UpTo, Shown
<1>3. CASE config = NoConfig
  BY <1>1, <1>2, <1>3 DEF Ensured
<1>4. CASE config # NoConfig /\ live.generation # config.generation
  <2> HIDE DEF NewLive
  <2> QED BY <1>1, <1>2, <1>4 DEF Ensured
<1>5. CASE config # NoConfig /\ live.generation = config.generation
  BY <1>1, <1>5 DEF Ensured, Inv, LiveInv
<1> QED BY <1>3, <1>4, <1>5

(* The live state may be brought up to date at any time.                   *)
LEMMA ObserveStep ==
  ASSUME Inv, Observe
  PROVE  Inv'
<1> USE DEF Observe
<1>1. TypeOK'
  BY EnsuredFacts DEF Inv, TypeOK, LiveType, UpTo, Shown
<1>2. LiveInv'
  BY EnsuredFacts DEF Inv, LiveInv
<1>3. ConfigInv' /\ RegistryInv' /\ UnregisteredInv' /\ ReloadInv' /\ FreshInv' /\ SelectionInv'
  BY DEF Inv, ConfigInv, RegistryInv, Coherent, Applied, UnregisteredInv, ReloadInv, Idle, FreshInv,
         SelectionInv
<1>4. DispatchedWasProbed' /\ LeasesKeepTheirEndpoint' /\ FencedStaysClosed'
  BY DEF Inv, DispatchedWasProbed, LeasesKeepTheirEndpoint, FencedStaysClosed
<1> QED BY <1>1, <1>2, <1>3, <1>4 DEF Inv

(* A probe is sent.                                                        *)
LEMMA BeginProbeStep ==
  ASSUME Inv, BeginProbe
  PROVE  Inv'
<1> USE DEF BeginProbe
<1>1. TypeOK'
  BY DEF Inv, TypeOK
<1>2. ConfigInv' /\ RegistryInv' /\ UnregisteredInv' /\ ReloadInv' /\ FreshInv' /\ LiveInv'
  BY DEF Inv, ConfigInv, RegistryInv, Coherent, Applied, UnregisteredInv, ReloadInv, Idle, FreshInv, LiveInv
<1>3. SelectionInv' /\ DispatchedWasProbed' /\ LeasesKeepTheirEndpoint' /\ FencedStaysClosed'
  BY DEF Inv, SelectionInv, DispatchedWasProbed, LeasesKeepTheirEndpoint, FencedStaysClosed
<1> QED BY <1>1, <1>2, <1>3 DEF Inv

(* A probe is answered, perhaps one of an earlier life.                    *)
LEMMA ProbeSuccessStep ==
  ASSUME Inv, RecordReadinessSuccess
  PROVE  Inv'
<1> DEFINE g == probe.generation
           n == Min2(Ensured.successes + 1, SuccessThreshold)
<1>1. /\ g \in Generation /\ g < next_backend_generation /\ next_backend_generation \in Nat
      /\ probe' = NoProbe /\ answers \in [Generation -> 0..SuccessThreshold]
      /\ answers' = [answers EXCEPT ![g] = Min2(@ + 1, SuccessThreshold)]
      /\ UNCHANGED <<published, slot, fence, reload, selector, lease, specGeneration>>
  BY DEF RecordReadinessSuccess, Inv, TypeOK, FreshInv
<1>2. /\ answers' \in [Generation -> 0..SuccessThreshold]
      /\ \A x \in Generation : answers'[x] >= answers[x]
      /\ \A x \in Generation : x # g => answers'[x] = answers[x]
      /\ answers'[g] = Min2(answers[g] + 1, SuccessThreshold)
  BY <1>1 DEF Min2
<1>3. /\ Ensured \in LiveType /\ Ensured.successes <= answers[Ensured.generation]
      /\ Ensured.readiness = "Ready" => answers[Ensured.generation] >= SuccessThreshold
  BY EnsuredFacts
<1>4. live' \in LiveType /\ LiveInv'
  <2>1. CASE ~Accepted
    <3>1. live' = Ensured
      BY <2>1 DEF RecordReadinessSuccess
    <3>2. Ensured.generation \in Generation /\ Ensured.successes \in Nat
      BY <1>3 DEF LiveType, UpTo, Shown
    <3>3. /\ answers[Ensured.generation] \in Nat /\ answers'[Ensured.generation] \in Nat
          /\ answers'[Ensured.generation] >= answers[Ensured.generation]
      BY <1>1, <1>2, <3>2
    <3> QED BY <1>3, <3>1, <3>2, <3>3 DEF LiveInv
  <2>2. CASE Accepted
    <3>1. Ensured.generation = g
      BY <2>2 DEF Accepted
    <3>2. n \in 0..SuccessThreshold /\ n <= answers'[g]
      BY <1>1, <1>2, <1>3, <3>1 DEF Min2, LiveType, UpTo, Shown
    <3>3. live' = [Ensured EXCEPT !.failures = 0, !.successes = n,
                        !.readiness = IF n >= SuccessThreshold THEN "Ready" ELSE @]
      BY <2>2 DEF RecordReadinessSuccess
    <3> HIDE DEF n
    <3> DEFINE shown == IF n >= SuccessThreshold THEN "Ready" ELSE Ensured.readiness
    <3>4. shown \in {"Checking", "Ready", "Unready"}
      BY <1>3 DEF LiveType, UpTo, Shown
    <3>5. live' = [Ensured EXCEPT !.failures = 0, !.successes = n, !.readiness = shown]
      BY <1>3, <3>3 DEF LiveType, UpTo, Shown
    <3> HIDE DEF shown
    <3>6. live' \in LiveType /\ live'.generation = g /\ live'.successes = n /\ live'.readiness = shown
      <4>1. n \in UpTo(SuccessThreshold) /\ 0 \in UpTo(FailureThreshold) /\ shown \in Shown
        BY <3>2, <3>4 DEF UpTo, Shown
      <4> QED BY <1>3, <3>1, <3>5, <4>1 DEF LiveType
    <3>7. answers[g] \in 0..SuccessThreshold /\ answers'[g] \in 0..SuccessThreshold
      BY <1>1, <1>2
    <3>8. shown = "Ready" => answers'[g] >= SuccessThreshold
      BY <1>2, <1>3, <3>1, <3>2, <3>7, <1>1 DEF shown
    <3> QED BY <3>2, <3>6, <3>8 DEF LiveInv
  <2> QED BY <2>1, <2>2
<1>5. TypeOK'
  BY <1>1, <1>2, <1>4, Generations DEF Inv, TypeOK, LiveType, UpTo, Shown
<1>6. ConfigInv' /\ RegistryInv' /\ UnregisteredInv' /\ ReloadInv'
  BY <1>1 DEF Inv, ConfigInv, RegistryInv, Coherent, Applied, UnregisteredInv, ReloadInv, Idle
<1>7. FreshInv'
  <2>1. next_backend_generation > 0
    BY DEF Inv, TypeOK
  <2> QED BY <1>1, <1>2, <2>1, Generations DEF Inv, FreshInv
<1>8. SelectionInv' /\ DispatchedWasProbed'
  <2>1. specGeneration \in Generation /\ \A r \in Requests : lease[r].generation \in Generation
    BY DEF Inv, TypeOK
  <2> QED BY <1>1, <1>2, <2>1 DEF Inv, SelectionInv, DispatchedWasProbed
<1>9. LeasesKeepTheirEndpoint' /\ FencedStaysClosed'
  BY <1>1 DEF Inv, LeasesKeepTheirEndpoint, FencedStaysClosed
<1> QED BY <1>4, <1>5, <1>6, <1>7, <1>8, <1>9 DEF Inv

(* A probe fails.                                                          *)
LEMMA ProbeFailureStep ==
  ASSUME Inv, RecordReadinessFailure
  PROVE  Inv'
<1> DEFINE n == Min2(Ensured.failures + 1, FailureThreshold)
<1>1. /\ probe' = NoProbe
      /\ UNCHANGED <<published, slot, fence, reload, selector, lease, history>>
      /\ answers \in [Generation -> 0..SuccessThreshold] /\ next_backend_generation \in 1..(MaxGeneration + 1)
  BY DEF RecordReadinessFailure, Inv, TypeOK
<1>2. /\ Ensured \in LiveType /\ Ensured.successes <= answers[Ensured.generation]
      /\ Ensured.readiness = "Ready" => answers[Ensured.generation] >= SuccessThreshold
  BY EnsuredFacts
<1>3. live' \in LiveType /\ LiveInv'
  <2>1. CASE ~Accepted
    BY <1>1, <1>2, <2>1 DEF LiveInv, RecordReadinessFailure
  <2>2. CASE Accepted
    <3>1. n \in 0..FailureThreshold
      BY <1>2 DEF Min2, LiveType, UpTo, Shown
    <3>2. live' = [Ensured EXCEPT !.successes = 0, !.failures = n,
                        !.readiness = IF n >= FailureThreshold THEN "Unready" ELSE @]
      BY <2>2 DEF RecordReadinessFailure
    <3> HIDE DEF n
    <3> DEFINE shown == IF n >= FailureThreshold THEN "Unready" ELSE Ensured.readiness
    <3>5. shown \in {"Checking", "Ready", "Unready"} /\ (shown = "Ready" => Ensured.readiness = "Ready")
      BY <1>2 DEF LiveType, UpTo, Shown
    <3>6. live' = [Ensured EXCEPT !.successes = 0, !.failures = n, !.readiness = shown]
      BY <1>2, <3>2 DEF LiveType, UpTo, Shown
    <3> HIDE DEF shown
    <3>3. /\ live' \in LiveType /\ live'.generation = Ensured.generation /\ live'.successes = 0
          /\ live'.readiness = shown
      <4>1. 0 \in UpTo(SuccessThreshold) /\ n \in UpTo(FailureThreshold) /\ shown \in Shown
        BY <3>1, <3>5 DEF UpTo, Shown
      <4> QED BY <1>2, <3>6, <4>1 DEF LiveType
    <3>4. answers[Ensured.generation] \in Nat
      BY <1>1, <1>2 DEF LiveType, UpTo, Shown
    <3> QED BY <1>1, <1>2, <3>3, <3>4, <3>5 DEF LiveInv
  <2> QED BY <2>1, <2>2
<1>4. TypeOK'
  BY <1>1, <1>3, Generations DEF Inv, TypeOK, LiveType, UpTo, Shown
<1>5. ConfigInv' /\ RegistryInv' /\ UnregisteredInv' /\ ReloadInv' /\ FreshInv'
  BY <1>1 DEF Inv, ConfigInv, RegistryInv, Coherent, Applied, UnregisteredInv, ReloadInv, Idle, FreshInv
<1>6. SelectionInv' /\ DispatchedWasProbed' /\ LeasesKeepTheirEndpoint' /\ FencedStaysClosed'
  BY <1>1 DEF Inv, SelectionInv, DispatchedWasProbed, LeasesKeepTheirEndpoint, FencedStaysClosed
<1> QED BY <1>3, <1>4, <1>5, <1>6 DEF Inv
(* select() finds the backend registered and open.                         *)
LEMMA SelectSnapshotStep ==
  ASSUME Inv, SelectSnapshot
  PROVE  Inv'
<1> USE DEF SelectSnapshot
<1>1. TypeOK'
  BY Generations DEF Inv, TypeOK
<1>2. ConfigInv' /\ ReloadInv' /\ FreshInv' /\ LiveInv' /\ UnregisteredInv'
  BY DEF Inv, ConfigInv, ReloadInv, Idle, FreshInv, LiveInv, UnregisteredInv
<1>3. RegistryInv'
  BY DEF Inv, RegistryInv, Coherent, Applied
<1>4. SelectionInv' /\ DispatchedWasProbed' /\ LeasesKeepTheirEndpoint' /\ FencedStaysClosed'
  BY DEF Inv, SelectionInv, DispatchedWasProbed, LeasesKeepTheirEndpoint, FencedStaysClosed
<1> QED BY <1>1, <1>2, <1>3, <1>4 DEF Inv

(* It reads the configuration.                                             *)
LEMMA SelectConfigStep ==
  ASSUME Inv, SelectConfig
  PROVE  Inv'
<1> USE DEF SelectConfig
<1>1. TypeOK'
  BY Generations DEF Inv, TypeOK
<1>2. ConfigInv' /\ ReloadInv' /\ FreshInv' /\ LiveInv' /\ UnregisteredInv'
  BY DEF Inv, ConfigInv, ReloadInv, Idle, FreshInv, LiveInv, UnregisteredInv
<1>3. RegistryInv'
  BY DEF Inv, RegistryInv, Coherent, Applied
<1>4. SelectionInv' /\ DispatchedWasProbed' /\ LeasesKeepTheirEndpoint' /\ FencedStaysClosed'
  BY DEF Inv, SelectionInv, DispatchedWasProbed, LeasesKeepTheirEndpoint, FencedStaysClosed
<1> QED BY <1>1, <1>2, <1>3, <1>4 DEF Inv

(* It reads the live state: a backend that is open, ready and configured   *)
(* is the life the slot's spec is of, even in the middle of a reload.      *)
LEMMA SelectLiveStep ==
  ASSUME Inv, SelectLive
  PROVE  Inv'
<1>1. /\ live' = Ensured /\ selector.step = "live"
      /\ UNCHANGED <<published, slot, fence, reload, probe, lease, history>>
  BY DEF SelectLive
<1>2. \/ selector' = NoSelector
      \/ /\ selector' = [selector EXCEPT !.step = "permit"]
         /\ Ensured # NoLive /\ Ensured.readiness = "Ready"
  BY DEF SelectLive
<1>3. TypeOK'
  BY <1>1, <1>2, EnsuredFacts, Generations DEF Inv, TypeOK, LiveType, UpTo, Shown
<1>4. ConfigInv' /\ ReloadInv' /\ FreshInv' /\ LiveInv'
  BY <1>1, EnsuredFacts DEF Inv, ConfigInv, ReloadInv, Idle, FreshInv, LiveInv
<1>5. UnregisteredInv' /\ RegistryInv'
  BY <1>1, <1>2 DEF Inv, RegistryInv, Coherent, Applied, UnregisteredInv
<1>6. SelectionInv'
  <2> SUFFICES ASSUME slot.registered, slot.mode = "Active", selector'.step \in {"permit", "acquire"}
               PROVE  answers[specGeneration] >= SuccessThreshold
    BY <1>1 DEF SelectionInv
  <2>1. Ensured # NoLive /\ Ensured.readiness = "Ready"
    BY <1>2
  <2>2. config # NoConfig /\ answers[config.generation] >= SuccessThreshold
    BY <2>1, EnsuredFacts
  <2>3. specGeneration = config.generation
    <3>1. CASE reload.step \in {"free", "check", "reconcile"}
      BY <3>1 DEF Inv, RegistryInv, Coherent
    <3>2. CASE reload.step \in {"modes", "publish"}
      BY <2>2, <3>2 DEF Inv, RegistryInv, Applied, ReloadInv
    <3> QED BY <3>1, <3>2 DEF Inv, TypeOK
  <2> QED BY <2>2, <2>3
<1>7. DispatchedWasProbed' /\ LeasesKeepTheirEndpoint' /\ FencedStaysClosed'
  BY <1>1 DEF Inv, DispatchedWasProbed, LeasesKeepTheirEndpoint, FencedStaysClosed
<1> QED BY <1>3, <1>4, <1>5, <1>6, <1>7 DEF Inv

(* It has its permit.                                                      *)
LEMMA SelectPermitStep ==
  ASSUME Inv, SelectPermit
  PROVE  Inv'
<1> USE DEF SelectPermit
<1>1. TypeOK'
  BY Generations DEF Inv, TypeOK
<1>2. ConfigInv' /\ ReloadInv' /\ FreshInv' /\ LiveInv' /\ UnregisteredInv'
  BY DEF Inv, ConfigInv, ReloadInv, Idle, FreshInv, LiveInv, UnregisteredInv
<1>3. RegistryInv'
  BY DEF Inv, RegistryInv, Coherent, Applied
<1>4. SelectionInv' /\ DispatchedWasProbed' /\ LeasesKeepTheirEndpoint' /\ FencedStaysClosed'
  BY DEF Inv, SelectionInv, DispatchedWasProbed, LeasesKeepTheirEndpoint, FencedStaysClosed
<1> QED BY <1>1, <1>2, <1>3, <1>4 DEF Inv

(* It takes its lease, from the slot as it is by now.                      *)
LEMMA SelectAcquireStep ==
  ASSUME Inv, NEW r \in Requests, SelectAcquire(r)
  PROVE  Inv'
<1> DEFINE new == [endpoint |-> slot.spec, generation |-> specGeneration]
<1>1. /\ selector.step = "acquire" /\ selector' = NoSelector
      /\ UNCHANGED <<published, slot, fence, reload, live, probe, history>>
      /\ \/ lease' = lease
         \/ slot.registered /\ slot.mode = "Active" /\ lease' = [lease EXCEPT ![r] = new]
  BY DEF SelectAcquire
<1>2. new \in [endpoint : Named, generation : Generation]
  BY DEF Inv, TypeOK, Named
<1>3. TypeOK'
  BY <1>1, <1>2, Generations DEF Inv, TypeOK
<1>4. ConfigInv' /\ FreshInv' /\ LiveInv' /\ UnregisteredInv' /\ RegistryInv' /\ SelectionInv' /\ FencedStaysClosed'
  BY <1>1 DEF Inv, ConfigInv, FreshInv, LiveInv, UnregisteredInv, RegistryInv, Coherent, Applied,
              SelectionInv, FencedStaysClosed
<1>5. ReloadInv'
  <2>1. CASE lease' = lease
    BY <1>1, <2>1 DEF Inv, ReloadInv, Idle
  <2>2. CASE slot.registered /\ slot.mode = "Active"
    <3>1. reload.step = "reconcile" => Coherent
      BY DEF Inv, RegistryInv
    <3> QED BY <1>1, <2>2, <3>1 DEF Inv, ReloadInv, Coherent
  <2> QED BY <1>1, <2>1, <2>2
<1>6. DispatchedWasProbed'
  <2>1. slot.registered /\ slot.mode = "Active" => answers[specGeneration] >= SuccessThreshold
    BY <1>1 DEF Inv, SelectionInv
  <2> QED BY <1>1, <2>1 DEF Inv, TypeOK, DispatchedWasProbed
<1>7. LeasesKeepTheirEndpoint'
  BY <1>1 DEF Inv, TypeOK, LeasesKeepTheirEndpoint
<1> QED BY <1>3, <1>4, <1>5, <1>6, <1>7 DEF Inv

(* A lease ends.                                                           *)
LEMMA ReleaseStep ==
  ASSUME Inv, NEW r \in Requests, Release(r)
  PROVE  Inv'
<1> USE DEF Release
<1>1. TypeOK'
  <2>1. NoLease \in [endpoint : Named, generation : Generation]
    BY Generations DEF Named
  <2> HIDE DEF NoLease
  <2> QED BY <2>1 DEF Inv, TypeOK
<1>2. ConfigInv' /\ FreshInv' /\ LiveInv' /\ UnregisteredInv' /\ RegistryInv' /\ SelectionInv' /\ FencedStaysClosed'
  BY DEF Inv, ConfigInv, FreshInv, LiveInv, UnregisteredInv, RegistryInv, Coherent, Applied,
         SelectionInv, FencedStaysClosed
<1>3. ReloadInv'
  BY DEF Inv, TypeOK, ReloadInv, Idle
<1>4. DispatchedWasProbed' /\ LeasesKeepTheirEndpoint'
  BY DEF Inv, TypeOK, DispatchedWasProbed, LeasesKeepTheirEndpoint
<1> QED BY <1>1, <1>2, <1>3, <1>4 DEF Inv

(* An operator command, which needs a probed backend to open it.           *)
LEMMA SetModeStep ==
  ASSUME Inv, NEW m \in BackendMode, SetMode(m), live' = live \/ live' = Ensured,
         m = "Active" => answers[specGeneration] >= SuccessThreshold
  PROVE  Inv'
<1>1. /\ reload.step = "free" /\ slot.registered /\ slot' = [slot EXCEPT !.mode = m] /\ fence' = m
      /\ UNCHANGED <<published, reload, probe, selector, lease, history>>
  BY DEF SetMode
<1>2. /\ slot' \in [registered : BOOLEAN, spec : Endpoints, mode : BackendMode]
      /\ slot'.registered = slot.registered /\ slot'.spec = slot.spec /\ slot'.mode = m
  BY <1>1 DEF Inv, TypeOK
<1>3. TypeOK' /\ LiveInv'
  <2>1. live' \in LiveType
    BY EnsuredFacts DEF Inv, TypeOK, LiveType, UpTo, Shown
  <2>2. LiveInv'
    BY <1>1, EnsuredFacts DEF Inv, LiveInv
  <2> QED BY <1>1, <1>2, <2>1, <2>2 DEF Inv, TypeOK, LiveType, UpTo, Shown
<1>4. ConfigInv' /\ FreshInv' /\ ReloadInv' /\ RegistryInv' /\ UnregisteredInv' /\ FencedStaysClosed'
  BY <1>1, <1>2 DEF Inv, ConfigInv, FreshInv, ReloadInv, RegistryInv, Coherent, UnregisteredInv,
                    FencedStaysClosed
<1>5. SelectionInv' /\ DispatchedWasProbed' /\ LeasesKeepTheirEndpoint'
  BY <1>1, <1>2 DEF Inv, SelectionInv, DispatchedWasProbed, LeasesKeepTheirEndpoint
<1> QED BY <1>3, <1>4, <1>5 DEF Inv

(* The four operator commands.                                             *)
LEMMA OperatorStep ==
  ASSUME Inv, Activate \/ BeginDrain \/ DriveClose \/ \E force \in BOOLEAN : Disable(force)
  PROVE  Inv'
<1> USE DEF BackendMode
<1>1. CASE Activate
  <2>1. Ensured # NoLive /\ Ensured.readiness = "Ready" /\ live' = Ensured /\ SetMode("Active")
    BY <1>1 DEF Activate
  <2>2. answers[config.generation] >= SuccessThreshold
    BY <2>1, EnsuredFacts
  <2>3. specGeneration = config.generation
    BY <2>1 DEF SetMode, Inv, RegistryInv, Coherent
  <2> QED BY <2>1, <2>2, <2>3, SetModeStep
<1>2. CASE BeginDrain
  BY <1>2, SetModeStep DEF BeginDrain
<1>3. CASE DriveClose
  BY <1>3, SetModeStep DEF DriveClose
<1>4. CASE \E force \in BOOLEAN : Disable(force)
  BY <1>4, SetModeStep DEF Disable
<1> QED BY <1>1, <1>2, <1>3, <1>4

(* A reload takes the lifecycle lock.                                      *)
LEMMA BeginReloadStep ==
  ASSUME Inv, BeginReload
  PROVE  Inv'
<1>1. PICK e \in Named : reload' = [NoReload EXCEPT !.step = "check", !.target = e]
  BY DEF BeginReload, Named
<1>2. /\ reload = NoReload
      /\ UNCHANGED <<published, slot, fence, live, probe, selector, lease, history>>
  BY DEF BeginReload
<1>3. TypeOK'
  BY <1>1, <1>2, Generations DEF Inv, TypeOK
<1>4. ConfigInv' /\ FreshInv' /\ LiveInv' /\ UnregisteredInv' /\ SelectionInv' /\ FencedStaysClosed'
  BY <1>2 DEF Inv, ConfigInv, FreshInv, LiveInv, UnregisteredInv, SelectionInv, FencedStaysClosed
<1>5. RegistryInv' /\ ReloadInv'
  BY <1>1, <1>2 DEF Inv, RegistryInv, Coherent, ReloadInv
<1>6. DispatchedWasProbed' /\ LeasesKeepTheirEndpoint'
  BY <1>2 DEF Inv, DispatchedWasProbed, LeasesKeepTheirEndpoint
<1> QED BY <1>3, <1>4, <1>5, <1>6 DEF Inv
(* The check: what it finds disabled and idle stays so.                    *)
LEMMA CheckConfigStep ==
  ASSUME Inv, CheckConfig
  PROVE  Inv'
<1>1. /\ reload.step = "check"
      /\ UNCHANGED <<published, slot, fence, live, probe, selector, lease, history>>
  BY DEF CheckConfig
<1>2. Coherent
  BY <1>1 DEF Inv, RegistryInv
<1>3. ConfigInv' /\ FreshInv' /\ LiveInv' /\ UnregisteredInv' /\ SelectionInv' /\ FencedStaysClosed'
  BY <1>1 DEF Inv, ConfigInv, FreshInv, LiveInv, UnregisteredInv, SelectionInv, FencedStaysClosed
<1>4. DispatchedWasProbed' /\ LeasesKeepTheirEndpoint'
  BY <1>1 DEF Inv, DispatchedWasProbed, LeasesKeepTheirEndpoint
<1>5. CASE reload' = NoReload
  <2>1. TypeOK'
    BY <1>1, <1>5, Generations DEF Inv, TypeOK, Named
  <2>2. RegistryInv' /\ ReloadInv'
    BY <1>1, <1>2, <1>5 DEF RegistryInv, Coherent, ReloadInv
  <2> QED BY <1>3, <1>4, <2>1, <2>2 DEF Inv
<1>6. CASE reload' # NoReload
  <2>1. /\ TargetGeneration <= MaxGeneration
        /\ reload' = [reload EXCEPT !.step = "reconcile", !.generation = TargetGeneration]
        /\ ~(config # NoConfig /\ reload.target # config.endpoint /\ (slot.mode # "Disabled" \/ ~Idle))
    BY <1>6 DEF CheckConfig
  <2>2. TargetGeneration \in Generation
    BY <2>1 DEF TargetGeneration, Inv, TypeOK, Generation
  <2> HIDE DEF NoReload
  <2>3. /\ reload'.step = "reconcile" /\ reload'.target = reload.target
        /\ reload'.generation = TargetGeneration /\ reload'.revived = reload.revived
        /\ TypeOK'
    BY <1>1, <2>1, <2>2 DEF Inv, TypeOK
  <2>4. RegistryInv'
    BY <1>1, <1>2, <2>3 DEF RegistryInv, Coherent
  <2>5. ReloadInv'
    <3>1. CASE reload.target = config.endpoint
      BY <1>1, <2>3, <3>1 DEF ReloadInv, TargetGeneration
    <3>2. CASE reload.target # config.endpoint
      <4>1. Idle
        BY <1>2, <2>1, <3>2 DEF Coherent, Inv, LeasesKeepTheirEndpoint, Idle
      <4>2. config # NoConfig => slot.mode = "Disabled" /\ fence = "Disabled"
        BY <1>2, <2>1, <3>2 DEF Coherent
      <4> QED BY <1>1, <2>3, <3>2, <4>1, <4>2 DEF ReloadInv, TargetGeneration, Idle
    <3> QED BY <3>1, <3>2
  <2> QED BY <1>3, <1>4, <2>3, <2>4, <2>5 DEF Inv
<1> QED BY <1>5, <1>6

(* The registry takes the new life, while it is closed.                    *)
LEMMA ReconcileStep ==
  ASSUME Inv, Reconcile
  PROVE  Inv'
<1>1. /\ reload.step = "reconcile" /\ specGeneration' = reload.generation
      /\ UNCHANGED <<published, fence, live, probe, selector, lease, answers>>
      /\ Coherent
  BY DEF Reconcile, Inv, RegistryInv
<1>2. /\ reload' = [reload EXCEPT !.step = "modes",
                                  !.revived = reload.target # Absent /\ ~slot.registered]
      /\ slot' = IF reload.target = Absent
                 THEN [slot EXCEPT !.registered = FALSE,
                                   !.mode = IF slot.mode = "Active" THEN "Disabled" ELSE slot.mode]
                 ELSE [slot EXCEPT !.registered = TRUE, !.spec = reload.target]
  BY DEF Reconcile, Inv, TypeOK
<1>3. /\ reload'.step = "modes" /\ reload'.target = reload.target
      /\ reload'.generation = reload.generation
      /\ reload'.revived <=> reload.target # Absent /\ ~slot.registered
      /\ reload' \in [step : {"free", "check", "reconcile", "modes", "publish"},
                      target : Named, generation : Generation, revived : BOOLEAN]
  BY <1>2 DEF Inv, TypeOK
<1>4. CASE reload.target = Absent
  <2>1. /\ slot' \in [registered : BOOLEAN, spec : Endpoints, mode : BackendMode]
        /\ ~slot'.registered /\ slot'.spec = slot.spec /\ slot'.mode # "Active"
        /\ slot.mode = "Disabled" => slot'.mode = "Disabled"
    BY <1>2, <1>4 DEF Inv, TypeOK, BackendMode
  <2>2. TypeOK'
    BY <1>1, <1>3, <2>1 DEF Inv, TypeOK
  <2>3. Idle
    <3>1. CASE config = NoConfig
      BY <1>1, <3>1 DEF Coherent, Inv, LeasesKeepTheirEndpoint, Idle
    <3>2. CASE config # NoConfig
      BY <1>1, <1>4, <3>2 DEF Inv, ReloadInv, ConfigInv, Coherent, TypeOK
    <3> QED BY <3>1, <3>2
  <2>4. fence = "Active" => selector = NoSelector
    <3>1. CASE config = NoConfig
      BY <1>1, <3>1 DEF Coherent, Inv, UnregisteredInv
    <3>2. CASE config # NoConfig
      BY <1>1, <1>4, <3>2 DEF Inv, ReloadInv, ConfigInv, Coherent, TypeOK
    <3> QED BY <3>1, <3>2
  <2>5. ConfigInv' /\ FreshInv' /\ LiveInv' /\ SelectionInv' /\ FencedStaysClosed' /\ UnregisteredInv'
    BY <1>1, <2>1, <2>4 DEF Inv, ConfigInv, FreshInv, LiveInv, SelectionInv, FencedStaysClosed, UnregisteredInv
  <2>6. RegistryInv'
    BY <1>1, <1>3, <1>4, <2>1 DEF RegistryInv, Applied
  <2>7. ReloadInv'
    BY <1>1, <1>3, <2>1 DEF Inv, ReloadInv
  <2>8. DispatchedWasProbed' /\ LeasesKeepTheirEndpoint'
    BY <1>1, <2>3 DEF Idle, DispatchedWasProbed, LeasesKeepTheirEndpoint
  <2> QED BY <2>2, <2>5, <2>6, <2>7, <2>8 DEF Inv
<1>5. CASE reload.target # Absent
  <2>1. /\ slot' \in [registered : BOOLEAN, spec : Endpoints, mode : BackendMode]
        /\ slot'.registered /\ slot'.spec = reload.target /\ slot'.mode = slot.mode
    BY <1>2, <1>5 DEF Inv, TypeOK, Named
  <2>2. TypeOK'
    BY <1>1, <1>3, <2>1 DEF Inv, TypeOK
  <2>3. \/ Idle /\ slot.mode # "Active"
        \/ slot.registered /\ slot.spec = reload.target /\ specGeneration = reload.generation
    <3>1. CASE reload.target = config.endpoint /\ reload.generation = config.generation
      BY <1>1, <1>5, <3>1 DEF Coherent
    <3>2. CASE reload.target # config.endpoint
      BY <1>1, <3>2 DEF Inv, ReloadInv, Coherent, UnregisteredInv
    <3> QED BY <1>1, <3>1, <3>2 DEF Inv, ReloadInv
  <2>4. ConfigInv' /\ FreshInv' /\ LiveInv' /\ FencedStaysClosed' /\ UnregisteredInv'
    BY <1>1, <2>1 DEF Inv, ConfigInv, FreshInv, LiveInv, FencedStaysClosed, UnregisteredInv
  <2>5. SelectionInv'
    BY <1>1, <2>1, <2>3 DEF Inv, SelectionInv
  <2>6. RegistryInv'
    <3>1. reload'.revived => config = NoConfig /\ reload.target # Absent /\ ~slot.registered
      BY <1>1, <1>3 DEF Coherent
    <3>2. ~reload'.revived => slot.mode = fence
      BY <1>1, <1>3, <1>5 DEF Coherent
    <3> QED BY <1>1, <1>3, <1>5, <2>1, <3>1, <3>2 DEF RegistryInv, Applied, Inv, UnregisteredInv
  <2>7. ReloadInv'
    BY <1>1, <1>3, <2>1 DEF Inv, ReloadInv
  <2>8. DispatchedWasProbed' /\ LeasesKeepTheirEndpoint'
    BY <1>1, <2>1, <2>3 DEF Inv, Idle, DispatchedWasProbed, LeasesKeepTheirEndpoint
  <2> QED BY <2>2, <2>4, <2>5, <2>6, <2>7, <2>8 DEF Inv
<1> QED BY <1>4, <1>5

(* A revived backend opens only when nobody is selecting it.               *)
LEMMA RestoreModesStep ==
  ASSUME Inv, RestoreModes
  PROVE  Inv'
<1>1. /\ reload.step = "modes" /\ Applied
      /\ UNCHANGED <<published, fence, live, probe, selector, lease, history>>
  BY DEF RestoreModes, Inv, RegistryInv
<1>2. /\ reload' = [reload EXCEPT !.step = "publish"]
      /\ slot' = IF reload.revived \/ (slot.registered /\ fence # "Active")
                 THEN [slot EXCEPT !.mode = fence] ELSE slot
  BY DEF RestoreModes
<1>3. /\ reload'.step = "publish" /\ reload'.target = reload.target
      /\ reload'.generation = reload.generation /\ reload'.revived = reload.revived
      /\ reload' \in [step : {"free", "check", "reconcile", "modes", "publish"},
                      target : Named, generation : Generation, revived : BOOLEAN]
  BY <1>2 DEF Inv, TypeOK
<1>4. /\ slot' \in [registered : BOOLEAN, spec : Endpoints, mode : BackendMode]
      /\ slot'.registered = slot.registered /\ slot'.spec = slot.spec
      /\ slot'.mode = IF reload.revived \/ (slot.registered /\ fence # "Active") THEN fence ELSE slot.mode
  BY <1>2 DEF Inv, TypeOK
<1>5. TypeOK'
  BY <1>1, <1>3, <1>4 DEF Inv, TypeOK
<1>6. ConfigInv' /\ FreshInv' /\ LiveInv'
  BY <1>1 DEF Inv, ConfigInv, FreshInv, LiveInv
<1>7. reload.revived => slot.registered
  BY <1>1 DEF Applied
<1>8. UnregisteredInv' /\ FencedStaysClosed'
  BY <1>1, <1>4, <1>7 DEF Inv, UnregisteredInv, FencedStaysClosed
<1>9. RegistryInv'
  BY <1>1, <1>3, <1>4 DEF RegistryInv, Applied
<1>10. ReloadInv'
  BY <1>1, <1>3, <1>4 DEF Inv, ReloadInv, Applied
<1>11. SelectionInv'
  BY <1>1, <1>4 DEF Inv, SelectionInv, Applied
<1>12. DispatchedWasProbed' /\ LeasesKeepTheirEndpoint'
  BY <1>1, <1>4 DEF Inv, DispatchedWasProbed, LeasesKeepTheirEndpoint
<1> QED BY <1>5, <1>6, <1>8, <1>9, <1>10, <1>11, <1>12 DEF Inv

(* The configuration is published, and agrees with the registry again.     *)
LEMMA PublishStep ==
  ASSUME Inv, Publish
  PROVE  Inv'
<1>1. /\ reload.step = "publish" /\ Applied /\ reload' = NoReload
      /\ config' = [endpoint |-> reload.target, generation |-> reload.generation]
      /\ next_backend_generation' = IF reload.generation = next_backend_generation
                                    THEN next_backend_generation + 1
                                    ELSE next_backend_generation
      /\ UNCHANGED <<slot, fence, live, probe, selector, lease, history>>
  BY DEF Publish, Inv, RegistryInv
<1>2. /\ next_backend_generation \in 1..(MaxGeneration + 1)
      /\ reload.target \in Named /\ reload.generation \in Generation
      /\ config.generation \in Generation /\ probe.generation \in Generation
  BY DEF Inv, TypeOK
<1>3. /\ reload.target = Absent <=> reload.generation = 0
      /\ reload.generation <= next_backend_generation
  <2>1. /\ next_backend_generation \in Nat \ {0} /\ config.generation \in Nat
        /\ config.generation < next_backend_generation
    BY <1>2 DEF Generation, Inv, FreshInv
  <2> QED BY <1>1, <2>1 DEF Inv, ReloadInv, ConfigInv
<1>4. TypeOK'
  <2>1. next_backend_generation' \in 1..(MaxGeneration + 1)
    BY <1>1, <1>2 DEF Generation
  <2>2. config' \in [endpoint : Named, generation : Generation]
    BY <1>1, <1>2
  <2>3. NoReload \in [step : {"free", "check", "reconcile", "modes", "publish"},
                      target : Named, generation : Generation, revived : BOOLEAN]
    BY Generations DEF Named
  <2> HIDE DEF NoReload
  <2> QED BY <1>1, <2>1, <2>2, <2>3 DEF Inv, TypeOK
<1>5. ConfigInv'
  BY <1>1, <1>3 DEF ConfigInv
<1>6. config' # NoConfig <=> reload.target # Absent
  BY <1>1, <1>3
<1>7. RegistryInv'
  <2>1. reload'.step = "free"
    BY <1>1
  <2>2. slot'.registered <=> config' # NoConfig
    BY <1>1, <1>6 DEF Applied
  <2>3. slot'.registered => slot'.spec = config'.endpoint /\ slot'.mode = fence'
    BY <1>1 DEF Applied
  <2>4. specGeneration' = config'.generation
    BY <1>1 DEF Applied
  <2> QED BY <2>1, <2>2, <2>3, <2>4 DEF RegistryInv, Coherent
<1>8. UnregisteredInv' /\ ReloadInv' /\ LiveInv' /\ SelectionInv' /\ FencedStaysClosed'
  BY <1>1 DEF Inv, UnregisteredInv, ReloadInv, LiveInv, SelectionInv, FencedStaysClosed
<1>9. FreshInv'
  <2>1. config'.generation < next_backend_generation' /\ probe'.generation < next_backend_generation'
    <3>1. /\ next_backend_generation \in Nat /\ reload.generation \in Nat /\ probe.generation \in Nat
          /\ probe.generation < next_backend_generation
      BY <1>2 DEF Generation, Inv, FreshInv
    <3> QED BY <1>1, <1>3, <3>1
  <2>2. \A g \in Generation : g >= next_backend_generation' => answers'[g] = 0
    BY <1>1, <1>2, Generations DEF Inv, FreshInv
  <2> QED BY <2>1, <2>2 DEF FreshInv
<1>10. DispatchedWasProbed' /\ LeasesKeepTheirEndpoint'
  BY <1>1 DEF Inv, DispatchedWasProbed, LeasesKeepTheirEndpoint
<1> QED BY <1>4, <1>5, <1>7, <1>8, <1>9, <1>10 DEF Inv

(* Every step keeps the invariant.                                         *)
LEMMA NextKeepsInv == Inv /\ [Next]_vars => Inv'
<1> SUFFICES ASSUME Inv, [Next]_vars PROVE Inv'
  OBVIOUS
<1>1. CASE UNCHANGED vars
  BY <1>1 DEF Inv, TypeOK, ConfigInv, RegistryInv, Coherent, Applied, UnregisteredInv, ReloadInv, Idle,
              FreshInv, LiveInv, SelectionInv, DispatchedWasProbed, LeasesKeepTheirEndpoint,
              FencedStaysClosed
<1>2. CASE Next
  BY <1>2, ObserveStep, BeginProbeStep, ProbeSuccessStep, ProbeFailureStep, SelectSnapshotStep,
     SelectConfigStep, SelectLiveStep, SelectPermitStep, SelectAcquireStep, ReleaseStep, OperatorStep,
     BeginReloadStep, CheckConfigStep, ReconcileStep, RestoreModesStep, PublishStep DEF Next
<1> QED BY <1>1, <1>2

(* The invariant holds of every reachable state.                           *)
THEOREM ReloadInvariant == Spec => []Inv
  BY InitInv, NextKeepsInv, PTL DEF Spec

(* Types, for every number of generations: the counter of generations      *)
(* stops one above the last.                                               *)
THEOREM TypesHold == Spec => []TypeOK
<1>1. Inv => TypeOK
  BY DEF Inv
<1> QED BY <1>1, ReloadInvariant, PTL

(* Across select(), apply_with_modes and the readiness worker in any       *)
(* interleaving: no request is sent to a life of the backend that has not  *)
(* passed its probes.                                                      *)
THEOREM OnlyProbedIsUsed == Spec => []DispatchedWasProbed
<1>1. Inv => DispatchedWasProbed
  BY DEF Inv
<1> QED BY <1>1, ReloadInvariant, PTL

(* apply_with_modes refuses what reconcile must not do: no reload changes  *)
(* or removes the endpoint of a request in flight.                         *)
THEOREM LeasesAreNotMoved == Spec => []LeasesKeepTheirEndpoint
<1>1. Inv => LeasesKeepTheirEndpoint
  BY DEF Inv
<1> QED BY <1>1, ReloadInvariant, PTL

(* restore_modes and apply_with_modes: a stored fence is never open.       *)
THEOREM FencesOutlastReloads == Spec => []FencedStaysClosed
<1>1. Inv => FencedStaysClosed
  BY DEF Inv
<1> QED BY <1>1, ReloadInvariant, PTL

(* next_backend_generation: a reload gives a changed endpoint a generation *)
(* that nothing has answered for and no probe in flight bears.             *)
THEOREM LivesAreFresh == Spec => []NewLifeIsNew
<1>1. Inv => NewLifeIsNew
  <2> SUFFICES ASSUME Inv, reload.step \in {"reconcile", "modes", "publish"},
                      reload.target # config.endpoint, reload.target # Absent
               PROVE  /\ answers[reload.generation] = 0
                      /\ reload.generation \notin {config.generation, probe.generation}
    BY DEF NewLifeIsNew
  <2>1. reload.generation = next_backend_generation /\ reload.generation \in Generation
    BY DEF Inv, ReloadInv, TypeOK
  <2>2. next_backend_generation \in Nat /\ config.generation \in Nat /\ probe.generation \in Nat
    BY DEF Inv, TypeOK, Generation
  <2> QED BY <2>1, <2>2 DEF Inv, FreshInv
<1> QED BY <1>1, ReloadInvariant, PTL
=============================================================================
