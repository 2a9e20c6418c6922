-------------------------- MODULE MCDrainControl --------------------------
(***************************************************************************)
(* DrainControl on small instances; see the configurations.                *)
(***************************************************************************)
EXTENDS DrainControl
=============================================================================
