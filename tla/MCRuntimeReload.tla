------------------------- MODULE MCRuntimeReload -------------------------
(* RuntimeReload for TLC: requests, and endpoints, are interchangeable.    *)
EXTENDS RuntimeReload, TLC

Symmetry == Permutations(Requests) \cup Permutations(Endpoints)
==========================================================================
