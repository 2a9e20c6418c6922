---------------------------- MODULE MCAuditLog ----------------------------
(***************************************************************************)
(* AuditLog on small instances: more requests than admission slots.        *)
(***************************************************************************)
EXTENDS AuditLog, TLC

(* The requests are interchangeable; used where only safety is checked.    *)
Symmetry == Permutations(Requests)
=============================================================================
