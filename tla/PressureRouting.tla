-------------------------- MODULE PressureRouting --------------------------
(***************************************************************************)
(* least-pressure-v1: select() of src/routing.rs over several backends,    *)
(* the score of src/telemetry.rs, and the scrapes the score rests on.      *)
(*                                                                         *)
(* A selection holds the selection mutex from its snapshot to its lease;   *)
(* scrapes, mode changes and responses go on meanwhile.  A scrape is three *)
(* steps: the proxy notes how many requests it has assigned, the engine    *)
(* reads its gauges, the proxy records them.  A request that has its lease *)
(* is on its way before it is in the engine.  The telemetry worker scrapes *)
(* all backends in rounds; here each is scraped at its own pace, which     *)
(* allows for every interleaving of a round and for more.                  *)
(*                                                                         *)
(* A backend's identifier is a number: identifiers break ties by their     *)
(* order.  Ratios are percentages, a pressure is a fraction; the code's    *)
(* f64 is exact on such numbers up to rounding.  Circuits are an           *)
(* environment that may refuse a permit (Circuit is about them).           *)
(***************************************************************************)
EXTENDS Naturals, FiniteSets, Sequences, TLC

CONSTANTS Backends,         \* a set of numbers
          Callers,          \* requests
          Reported,         \* capacity each engine reports, 0 when it does not
          Configured,       \* capacity each backend is configured with, or 0
          Kv,               \* cache use each engine reports, per cent, or 0
          SoftLimit,        \* kv_soft_limit, per cent
          MaxScrapes,       \* bound on scrapes of all backends
          MaxShocks         \* bound on mode, readiness and circuit changes

(* Identifiers are distinct numbers; RuntimeConfig::parse refuses a        *)
(* kv_soft_limit of 1 and above; counts and ratios are not negative.       *)
ASSUME RoutingAssumption ==
    /\ Backends \subseteq Nat \ {0} /\ IsFiniteSet(Backends)
    /\ IsFiniteSet(Callers)
    /\ Reported \in [Backends -> Nat] /\ Configured \in [Backends -> Nat]
    /\ Kv \in [Backends -> Nat]
    /\ SoftLimit \in 0 .. 99

VARIABLES
    slot,       \* per backend: mode, leases granted since start, leases held
    live,       \* per backend: ready?, circuit, latest observation
    scrape,     \* per backend: the scrape under way
    call,       \* per caller: where its request is
    choice,     \* per caller: its snapshot of the slots, its candidates left
    selection,  \* who holds the selection mutex
    cursor,     \* rotating_cursor, as far as its parity goes
    scrapes,    \* scrapes so far, of MaxScrapes
    shocks      \* changes so far, of MaxShocks

pressureVars == <<slot, live, scrape, call, choice, selection, cursor, scrapes, shocks>>

Nobody == 0
NoObservation == [known |-> FALSE]
NoScrape == [phase |-> "none"]
NoCall == [pc |-> "idle", at |-> Nobody]
NoChoice == [snapshot |-> <<>>, ranked |-> <<>>]

PressureInit ==
    /\ slot = [b \in Backends |-> [mode |-> "Active", acquired |-> 0, active |-> 0]]
    /\ live = [b \in Backends |-> [ready |-> TRUE, circuit |-> "Closed", obs |-> NoObservation]]
    /\ scrape = [b \in Backends |-> NoScrape]
    /\ call = [r \in Callers |-> NoCall]
    /\ choice = [r \in Callers |-> NoChoice]
    /\ selection = {}
    /\ cursor = 0
    /\ scrapes = 0 /\ shocks = 0

InTransit(b) == {r \in Callers : call[r] = [pc |-> "transit", at |-> b]}
InEngine(b) == {r \in Callers : call[r] = [pc |-> "engine", at |-> b]}

-----------------------------------------------------------------------------
(* least_pressure_v1_with_soft_limit: occupancy plus the cache penalty.    *)

Lower(a, b) == IF a < b THEN a ELSE b
Above(a, b) == IF a > b THEN a - b ELSE 0

(* The smaller of both capacities; the one that is there; or none.         *)
EffectiveCapacity(b) ==
    IF Reported[b] = 0 THEN Configured[b]
    ELSE IF Configured[b] = 0 THEN Reported[b]
    ELSE Lower(Reported[b], Configured[b])

(* The fraction ((load + new) / capacity) + (kv - soft) / (100 - soft).    *)
LeastPressureV1(b, o, new) ==
    LET c == EffectiveCapacity(b)
        q == 100 - SoftLimit
    IN [num |-> (o.load + new) * q + Above(o.kv, SoftLimit) * c, den |-> c * q]

Less(p, q) == p.num * q.den < q.num * p.den

Scored(b, o) == o.known /\ o.fresh /\ EffectiveCapacity(b) # 0

(* Mutant: the requests assigned since the scrape are forgotten.           *)
ScoreCandidateBlind(b, o, new) == LeastPressureV1(b, o, 1)

(* score_candidate counts the assignments since the scrape, and this one.  *)
ScoreCandidate(b, o, new) == LeastPressureV1(b, o, new + 1)

-----------------------------------------------------------------------------
(* select(): snapshot, candidates, order, and the first that takes it.     *)

(* A scored candidate's score at a snapshot of the slots.                  *)
ScoreAt(snapshot, b) ==
    ScoreCandidate(b, live[b].obs, Above(snapshot[b].acquired, live[b].obs.dispatches))

(* Not the slot's mode now but in the snapshot; the rest is as it is now.  *)
Eligible(snapshot, b) ==
    /\ snapshot[b].mode = "Active"
    /\ live[b].ready
    /\ live[b].circuit # "Open"

RotatedCmp(a, b) == IF cursor = 0 THEN a < b ELSE b < a

(* a sorts before b: pressure, then requests in flight, then identifier.   *)
Before(snapshot, a, b, byScore) ==
    \/ byScore /\ Less(ScoreAt(snapshot, a), ScoreAt(snapshot, b))
    \/ /\ byScore => ~Less(ScoreAt(snapshot, b), ScoreAt(snapshot, a))
       /\ \/ snapshot[a].active < snapshot[b].active
          \/ snapshot[a].active = snapshot[b].active /\ RotatedCmp(a, b)

(* When one candidate has a score, those that have none are left out.      *)
Candidates(snapshot) ==
    LET eligible == {b \in Backends : Eligible(snapshot, b)}
        scored == {b \in eligible : Scored(b, live[b].obs)}
    IN IF scored # {} THEN scored ELSE eligible

(* The candidates in order, each with the observation that ranked it.      *)
Ranked(snapshot) ==
    LET candidates == Candidates(snapshot)
        byScore == \E b \in candidates : Scored(b, live[b].obs)
        order == CHOOSE s \in [1 .. Cardinality(candidates) -> candidates] :
                    \A i, j \in DOMAIN s : i < j => Before(snapshot, s[i], s[j], byScore)
    IN [i \in DOMAIN order |-> [id |-> order[i], obs |-> live[order[i]].obs]]

(* Mutant: selections are not serialized.                                  *)
SelectSnapshotUnlocked(r) ==
    /\ call[r] = NoCall
    /\ selection' = selection \cup {r}
    /\ choice' = [choice EXCEPT ![r].snapshot = slot]
    /\ call' = [call EXCEPT ![r].pc = "snapshot"]
    /\ UNCHANGED <<slot, live, scrape, cursor, scrapes, shocks>>

(* The selection mutex is taken and the registry's slots are read.         *)
SelectSnapshot(r) ==
    /\ call[r] = NoCall /\ selection = {}
    /\ selection' = {r}
    /\ choice' = [choice EXCEPT ![r].snapshot = slot]
    /\ call' = [call EXCEPT ![r].pc = "snapshot"]
    /\ UNCHANGED <<slot, live, scrape, cursor, scrapes, shocks>>

(* The request is refused, and the mutex released.                         *)
Refuse(r) ==
    /\ call' = [call EXCEPT ![r].pc = "done"]
    /\ choice' = [choice EXCEPT ![r] = NoChoice]
    /\ selection' = selection \ {r}

(* The live state is read, candidates are scored and sorted.  When there   *)
(* is none the request is refused.                                         *)
SelectRank(r) ==
    /\ call[r].pc = "snapshot"
    /\ cursor' = 1 - cursor
    /\ IF Candidates(choice[r].snapshot) = {}
       THEN Refuse(r)
       ELSE /\ choice' = [choice EXCEPT ![r] = [snapshot |-> <<>>,
                                               ranked |-> Ranked(choice[r].snapshot)]]
            /\ call' = [call EXCEPT ![r].pc = "ranked"]
            /\ UNCHANGED selection
    /\ UNCHANGED <<slot, live, scrape, scrapes, shocks>>

(* The first candidate gives permit and lease, and the mutex is released.  *)
SelectAcquire(r) ==
    /\ call[r].pc = "ranked"
    /\ LET b == Head(choice[r].ranked).id IN
        /\ slot[b].mode = "Active" /\ live[b].circuit # "Open"
        /\ slot' = [slot EXCEPT ![b].acquired = @ + 1, ![b].active = @ + 1]
        /\ call' = [call EXCEPT ![r] = [pc |-> "transit", at |-> b]]
    /\ choice' = [choice EXCEPT ![r] = NoChoice]
    /\ selection' = selection \ {r}
    /\ UNCHANGED <<live, scrape, cursor, scrapes, shocks>>

(* It gives no permit (open, or another trial is under way) or no lease:   *)
(* the next candidate is asked, and after the last the request is refused. *)
SelectSkip(r) ==
    /\ call[r].pc = "ranked"
    /\ LET b == Head(choice[r].ranked).id
           rest == Tail(choice[r].ranked)
       IN /\ slot[b].mode # "Active" \/ live[b].circuit # "Closed"
          /\ IF rest = <<>>
             THEN Refuse(r)
             ELSE choice' = [choice EXCEPT ![r].ranked = rest] /\ UNCHANGED <<call, selection>>
    /\ UNCHANGED <<slot, live, scrape, cursor, scrapes, shocks>>

-----------------------------------------------------------------------------
(* The request's way: into the engine, out of it, or lost before.          *)

Arrive(r) ==
    /\ call[r].pc = "transit"
    /\ call' = [call EXCEPT ![r].pc = "engine"]
    /\ UNCHANGED <<slot, live, scrape, choice, selection, cursor, scrapes, shocks>>

(* Mutant: a request that fails on its way keeps its lease.                *)
FinishLeaky(r) ==
    /\ call[r].pc \in {"transit", "engine"}
    /\ slot' = [slot EXCEPT ![call[r].at].active = IF call[r].pc = "engine" THEN @ - 1 ELSE @]
    /\ call' = [call EXCEPT ![r] = [pc |-> "done", at |-> Nobody]]
    /\ UNCHANGED <<live, scrape, choice, selection, cursor, scrapes, shocks>>

(* The response ends, or the request fails before: the lease is dropped.   *)
Finish(r) ==
    /\ call[r].pc \in {"transit", "engine"}
    /\ slot' = [slot EXCEPT ![call[r].at].active = @ - 1]
    /\ call' = [call EXCEPT ![r] = [pc |-> "done", at |-> Nobody]]
    /\ UNCHANGED <<live, scrape, choice, selection, cursor, scrapes, shocks>>

-----------------------------------------------------------------------------
(* One round of run_telemetry_worker for one backend.                      *)

(* What is noted before the call goes out; transit is history.             *)
BeginMetricsScrape(b) ==
    /\ scrape[b] = NoScrape /\ scrapes < MaxScrapes
    /\ scrapes' = scrapes + 1
    /\ scrape' = [scrape EXCEPT ![b] = [phase |-> "begun", dispatches |-> slot[b].acquired,
                                       transit |-> InTransit(b)]]
    /\ UNCHANGED <<slot, live, call, choice, selection, cursor, shocks>>

(* Mutant: the assignments are noted when the gauges come back.            *)
ReadGaugesNoting(b) ==
    /\ scrape[b].phase = "begun"
    /\ scrape' = [scrape EXCEPT ![b] = [phase |-> "read", load |-> Cardinality(InEngine(b)),
                                        kv |-> Kv[b], dispatches |-> slot[b].acquired,
                                        transit |-> scrape[b].transit]]
    /\ UNCHANGED <<slot, live, call, choice, selection, cursor, scrapes, shocks>>

(* The engine answers with its running and waiting sequences.              *)
ReadGauges(b) ==
    /\ scrape[b].phase = "begun"
    /\ scrape' = [scrape EXCEPT ![b] = [phase |-> "read", load |-> Cardinality(InEngine(b)),
                                        kv |-> Kv[b], dispatches |-> scrape[b].dispatches,
                                        transit |-> scrape[b].transit]]
    /\ UNCHANGED <<slot, live, call, choice, selection, cursor, scrapes, shocks>>

RecordMetricsSuccess(b) ==
    /\ scrape[b].phase = "read"
    /\ live' = [live EXCEPT ![b].obs = [known |-> TRUE, fresh |-> TRUE,
                                        load |-> scrape[b].load, kv |-> scrape[b].kv,
                                        dispatches |-> scrape[b].dispatches,
                                        transit |-> scrape[b].transit]]
    /\ scrape' = [scrape EXCEPT ![b] = NoScrape]
    /\ UNCHANGED <<slot, call, choice, selection, cursor, scrapes, shocks>>

(* A scrape that fails leaves the last observation to age.                 *)
RecordMetricsFailure(b) ==
    /\ scrape[b] # NoScrape
    /\ scrape' = [scrape EXCEPT ![b] = NoScrape]
    /\ UNCHANGED <<slot, live, call, choice, selection, cursor, scrapes, shocks>>

(* stale_after passes since the observation.                               *)
GoStale(b) ==
    /\ live[b].obs.known /\ live[b].obs.fresh
    /\ live' = [live EXCEPT ![b].obs.fresh = FALSE]
    /\ UNCHANGED <<slot, scrape, call, choice, selection, cursor, scrapes, shocks>>

(* Operators, probes and circuits, on their own.                           *)
Disturb(b) ==
    /\ shocks < MaxShocks
    /\ shocks' = shocks + 1
    /\ \/ /\ slot' = [slot EXCEPT ![b].mode = IF @ = "Active" THEN "Draining" ELSE "Active"]
          /\ UNCHANGED live
       \/ /\ \/ live' = [live EXCEPT ![b].ready = ~@]
             \/ \E c \in {"Closed", "HalfOpen", "Open"} \ {live[b].circuit} :
                    live' = [live EXCEPT ![b].circuit = c]
          /\ UNCHANGED slot
    /\ UNCHANGED <<scrape, call, choice, selection, cursor, scrapes>>

-----------------------------------------------------------------------------
(* What statuses() shows of a backend.                                     *)

TelemetryShown(b) ==
    IF ~live[b].obs.known THEN "Unavailable"
    ELSE IF live[b].obs.fresh THEN "Fresh" ELSE "Stale"

(* Mutant: a half-open circuit is shown as open.                           *)
DisplayStateWrong(b) ==
    IF slot[b].mode # "Active" THEN slot[b].mode
    ELSE IF ~live[b].ready THEN "Unready"
    ELSE IF live[b].circuit # "Closed" THEN "CircuitOpen"
    ELSE IF TelemetryShown(b) # "Fresh" THEN "Degraded"
    ELSE "Ready"

(* The first test that holds decides.                                      *)
DisplayState(b) ==
    IF slot[b].mode # "Active" THEN slot[b].mode
    ELSE IF ~live[b].ready THEN "Unready"
    ELSE IF live[b].circuit = "Open" THEN "CircuitOpen"
    ELSE IF live[b].circuit = "HalfOpen" THEN "Probing"
    ELSE IF TelemetryShown(b) # "Fresh" THEN "Degraded"
    ELSE "Ready"

-----------------------------------------------------------------------------
PressureNext ==
    \/ \E r \in Callers : \/ SelectSnapshot(r) \/ SelectRank(r)
                          \/ SelectAcquire(r) \/ SelectSkip(r)
                          \/ Arrive(r) \/ Finish(r)
    \/ \E b \in Backends : \/ BeginMetricsScrape(b) \/ ReadGauges(b)
                           \/ RecordMetricsSuccess(b) \/ RecordMetricsFailure(b)
                           \/ GoStale(b) \/ Disturb(b)

PressureSpec == PressureInit /\ [][PressureNext]_pressureVars

-----------------------------------------------------------------------------
Observation ==
    [known : {TRUE}, fresh : BOOLEAN, load : Nat, kv : Nat, dispatches : Nat,
     transit : SUBSET Callers]

(* Types; local_active is the number of requests that hold a lease.        *)
PressureTypeOK ==
    /\ slot \in [Backends -> [mode : {"Active", "Draining"}, acquired : Nat, active : Nat]]
    /\ \A b \in Backends :
        /\ live[b].obs # NoObservation => live[b].obs \in Observation
        /\ slot[b].active = Cardinality(InTransit(b) \cup InEngine(b))
    /\ selection \subseteq Callers

(* "Everything routed after this snapshot is conservatively treated as not *)
(* yet reflected by the returned engine gauges" (begin_metrics_scrape):    *)
(* every request a backend has, in its engine or on its way, is counted in *)
(* the load its score is made of, except one that was on its way when the  *)
(* scrape began.                                                           *)
CountedUnlessInTransit ==
    \A b \in Backends : LET o == live[b].obs IN
        o.known => Cardinality((InTransit(b) \cup InEngine(b)) \ o.transit)
                      <= o.load + Above(slot[b].acquired, o.dispatches)

(* "The next selector therefore observes our reservation": a request goes  *)
(* to a backend that has the least pressure at that moment, reservations   *)
(* included, of the candidates left whose observation has not been         *)
(* replaced since it was ranked.                                           *)
NoStampede ==
    [][\A r \in Callers : call[r].pc = "ranked" /\ call'[r].pc = "transit" =>
        LET first == Head(choice[r].ranked)
            Pressure(c) == LeastPressureV1(c.id, c.obs,
                                Above(slot[c.id].acquired, c.obs.dispatches) + 1)
        IN \A i \in DOMAIN choice[r].ranked : LET c == choice[r].ranked[i] IN
            Scored(c.id, c.obs) /\ Scored(first.id, first.obs) => ~Less(Pressure(c), Pressure(first))]_pressureVars

(* What the operator is shown (display_state) is what select() does: a     *)
(* backend is a candidate of a selection begun now exactly when it is      *)
(* shown as ready, degraded or probing.                                    *)
ShownAsRouted ==
    \A b \in Backends :
        Eligible(slot, b) <=> DisplayState(b) \in {"Ready", "Degraded", "Probing"}
=============================================================================
