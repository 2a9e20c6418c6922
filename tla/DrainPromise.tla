--------------------------- MODULE DrainPromise ---------------------------
(***************************************************************************)
(* What a lease gate promises to whoever wants to stop a backend, with no  *)
(* word about epochs, tokens, waiters, files or scrapes.                   *)
(*                                                                         *)
(* A gate admits work while it is open.  Once it is closed and the admitted*)
(* work has gone, a certificate may be issued; the certificate is withdrawn*)
(* at the latest when the gate opens again.  BackendSlot (the in-memory    *)
(* gate) and DrainControl (the durable, crash-prone control plane) are both*)
(* shown to implement this specification.                                  *)
(***************************************************************************)
VARIABLES gateOpen,     \* may new work be admitted?
          inFlight,     \* the admitted work that has not ended
          certified     \* has the backend been declared free of work?

promiseVars == <<gateOpen, inFlight, certified>>

PromiseInit ==
    /\ gateOpen \in BOOLEAN
    /\ inFlight = {}
    /\ certified = FALSE

Admit ==
    /\ gateOpen
    /\ inFlight \subseteq inFlight'
    /\ UNCHANGED <<gateOpen, certified>>

Finish ==
    /\ inFlight' \in SUBSET inFlight
    /\ UNCHANGED <<gateOpen, certified>>

(* Work may end in the same step: a proxy that goes down drops it all.     *)
Close ==
    /\ gateOpen' = FALSE
    /\ inFlight' \in SUBSET inFlight
    /\ UNCHANGED certified

Certify ==
    /\ ~gateOpen
    /\ inFlight = {}
    /\ certified' = TRUE
    /\ UNCHANGED <<gateOpen, inFlight>>

(* The certificate is void; only now may the gate open. *)
Withdraw ==
    /\ certified' = FALSE
    /\ gateOpen' \in BOOLEAN
    /\ inFlight' \in SUBSET inFlight

PromiseNext == Admit \/ Finish \/ Close \/ Certify \/ Withdraw

PromiseSpec == PromiseInit /\ [][PromiseNext]_promiseVars

(* A certified backend is closed and idle. *)
CertifiedIsIdle == certified => ~gateOpen /\ inFlight = {}
=============================================================================
