----------------------------- MODULE MCRouting -----------------------------
(***************************************************************************)
(* The two halves of select(): one backend's circuit with the requests     *)
(* that report to it, and the choice between backends by pressure.  Each   *)
(* is explored while the other is where it starts: PressureRouting takes   *)
(* the circuits as an environment that may do anything.                    *)
(*                                                                         *)
(* The circuit has the code's threshold of 3.  Four concurrent requests    *)
(* can open it and still have a late report under way; five epochs hold    *)
(* two openings with a reopened trial between them.                        *)
(***************************************************************************)
EXTENDS Circuit, PressureRouting

(* Engine 1 reports a capacity below the configured one and a full cache,  *)
(* engine 2 reports neither.                                               *)
ReportedCapacity == [b \in Backends |-> IF b = 1 THEN 2 ELSE 0]
ConfiguredCapacity == [b \in Backends |-> 3]
CacheUse == [b \in Backends |-> IF b = 1 THEN 95 ELSE 0]

(* The callers are three of the circuit's four requests: one permutation   *)
(* renames them in both halves.                                            *)
Interchangeable == Permutations(Callers)

RoutingInit == Init /\ PressureInit

RoutingNext ==
    \/ PressureInit /\ Next /\ UNCHANGED pressureVars
    \/ Init /\ PressureNext /\ UNCHANGED vars

RoutingSpec == RoutingInit /\ [][RoutingNext]_<<vars, pressureVars>>

(* Both type invariants.                                                   *)
RoutingTypeOK == TypeOK /\ PressureTypeOK
=============================================================================
