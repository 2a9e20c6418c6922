--------------------------- MODULE MCBackendSlot ---------------------------
(***************************************************************************)
(* BackendSlot with two waiters, two endpoints and MaxSequence published   *)
(* changes: enough for two leases, a drain, a supersession, a second drain *)
(* and a removal with its revival.                                         *)
(***************************************************************************)
EXTENDS BackendSlot
=============================================================================
