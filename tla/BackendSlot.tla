---------------------------- MODULE BackendSlot ----------------------------
(***************************************************************************)
(* One BackendSlot of src/backend.rs: the local lease gate of a backend.   *)
(*                                                                         *)
(* Every operation runs under the slot's mutex, so each is one atomic      *)
(* action; what interleaves are the request tasks that own leases, the     *)
(* control plane that changes the mode, the configuration reload that      *)
(* retires and revives the slot, and the tasks inside wait_for_local_zero, *)
(* whose subscribe, check and await are separate steps.  A call that finds *)
(* nothing to change (activate on an active slot, ...) leaves every        *)
(* variable as it is and is a stuttering step.                             *)
(*                                                                         *)
(* A lease key is its serial number; started_at only orders keys for the   *)
(* oldest-request display and is left out.                                 *)
(***************************************************************************)
EXTENDS Integers

CONSTANTS Waiters,      \* tasks that begin a drain and wait for it
          Specs,        \* backend specifications (endpoints)
          MaxSequence   \* the slot's counters stop here: u64::MAX in the code

ASSUME SlotAssumption ==
    /\ Specs # {}
    /\ MaxSequence \in Nat

VARIABLES
    registered,         \* is the backend in the current configuration?
    spec,               \* SlotState.spec
    mode,               \* SlotState.mode
    mode_epoch,         \* bumped by every change of mode
    sequence,           \* bumped by every published change (the watch value)
    spec_revision,
    next_lease_serial,
    total_acquired,
    leases,             \* serials of the live leases, SlotState.leases
    held,               \* the BackendLease values owned by request tasks
    waiter              \* per waiter: program counter, token epoch, seen version

gate == <<mode, mode_epoch>>
config == <<registered, spec, spec_revision>>
books == <<next_lease_serial, total_acquired, leases, held>>
vars == <<gate, config, books, sequence, waiter>>

BackendMode == {"Active", "Draining", "Disabled"}
WaiterPC == {"none", "token", "check", "await", "zero", "superseded"}

-----------------------------------------------------------------------------
(* publish_locked: the next sequence number, sent to every subscriber.     *)
Publish ==
    /\ sequence < MaxSequence
    /\ sequence' = sequence + 1

(* Mutants of ChangeMode: the waiters are not told; the epoch is kept.     *)
ChangeModeSilently(m) ==
    /\ mode # m
    /\ mode' = m
    /\ mode_epoch' = mode_epoch + 1
    /\ UNCHANGED sequence

ChangeModeSameEpoch(m) ==
    /\ mode # m
    /\ mode' = m
    /\ UNCHANGED mode_epoch
    /\ Publish

(* A change of mode starts a new epoch.                                    *)
ChangeMode(m) ==
    /\ mode # m
    /\ mode' = m
    /\ mode_epoch' = mode_epoch + 1
    /\ Publish

(* BackendRegistry::reconcile creates slots disabled.                      *)
Init ==
    /\ registered = TRUE
    /\ spec \in Specs
    /\ mode = "Disabled"
    /\ mode_epoch = 0
    /\ sequence = 0
    /\ spec_revision = 0
    /\ next_lease_serial = 0
    /\ total_acquired = 0
    /\ leases = {}
    /\ held = {}
    /\ waiter = [w \in Waiters |-> [pc |-> "none", epoch |-> 0, seen |-> 0]]

(* The next serial keys the new lease, which captures the current spec.    *)
GrantLease ==
    /\ Publish
    /\ next_lease_serial' = next_lease_serial + 1
    /\ total_acquired' = total_acquired + 1
    /\ leases' = leases \cup {next_lease_serial}
    /\ held' = held \cup {[serial |-> next_lease_serial, spec |-> spec]}
    /\ UNCHANGED <<gate, config, waiter>>

(* Mutant: a draining backend still takes work.                            *)
TryAcquireWhileDraining == registered /\ mode # "Disabled" /\ GrantLease

(* try_acquire: refused (a stutter) unless registered and active.          *)
TryAcquire == registered /\ mode = "Active" /\ GrantLease

(* Mutants of Release: nothing is published; the oldest key goes.          *)
ReleaseSilently(l) ==
    /\ l \in held
    /\ leases' = leases \ {l.serial}
    /\ held' = held \ {l}
    /\ UNCHANGED <<gate, config, next_lease_serial, total_acquired, sequence, waiter>>

ReleaseOldest(l) ==
    /\ l \in held
    /\ Publish
    /\ leases' = leases \ {CHOOSE k \in leases : \A j \in leases : k <= j}
    /\ held' = held \ {l}
    /\ UNCHANGED <<gate, config, next_lease_serial, total_acquired, waiter>>

(* Drop of a BackendLease, on every way a request can end.                 *)
Release(l) ==
    /\ l \in held
    /\ Publish
    /\ leases' = leases \ {l.serial}
    /\ held' = held \ {l}
    /\ UNCHANGED <<gate, config, next_lease_serial, total_acquired, waiter>>

Activate == registered /\ ChangeMode("Active") /\ UNCHANGED <<config, books, waiter>>

(* Allowed on a retired slot too: it disposes of a retained drain.         *)
Disable == ChangeMode("Disabled") /\ UNCHANGED <<config, books, waiter>>

(* begin_drain: a waiter closes the gate, or joins the drain under way,    *)
(* and keeps the token of the resulting epoch.                             *)
BeginDrain(w) ==
    /\ waiter[w].pc \in {"none", "zero", "superseded"}
    /\ \/ ChangeMode("Draining")
       \/ mode = "Draining" /\ UNCHANGED <<gate, sequence>>
    /\ waiter' = [waiter EXCEPT ![w].pc = "token", ![w].epoch = mode_epoch']
    /\ UNCHANGED <<config, books>>

-----------------------------------------------------------------------------
(* wait_for_local_zero, in the order its steps run: subscribe, then        *)
(* snapshot and decide, then await a newer version and decide again.       *)

Subscribe(w) ==
    /\ waiter[w].pc = "token"
    /\ waiter' = [waiter EXCEPT ![w].pc = "check", ![w].seen = sequence]
    /\ UNCHANGED <<gate, config, books, sequence>>

Superseded(w) == mode # "Draining" \/ mode_epoch # waiter[w].epoch

Check(w) ==
    /\ waiter[w].pc = "check"
    /\ waiter' = [waiter EXCEPT ![w].pc = IF Superseded(w) THEN "superseded"
                                          ELSE IF leases = {} THEN "zero"
                                          ELSE "await"]
    /\ UNCHANGED <<gate, config, books, sequence>>

(* changed().await returns once the published version differs from the one *)
(* this receiver has seen, and marks the new one as seen.                  *)
Changed(w) ==
    /\ waiter[w].pc = "await"
    /\ waiter[w].seen # sequence
    /\ waiter' = [waiter EXCEPT ![w].pc = "check", ![w].seen = sequence]
    /\ UNCHANGED <<gate, config, books, sequence>>

(* Dropping the wait future undoes nothing; the token stays usable.        *)
DropWait(w) ==
    /\ waiter[w].pc \in {"check", "await"}
    /\ waiter' = [waiter EXCEPT ![w].pc = "token"]
    /\ UNCHANGED <<gate, config, books, sequence>>

-----------------------------------------------------------------------------
(* The configuration names this backend (again), perhaps with a new spec.  *)
ReconcilePresent(s) ==
    /\ ~registered \/ spec # s
    /\ registered' = TRUE
    /\ spec' = s
    /\ spec_revision' = IF spec # s THEN spec_revision + 1 ELSE spec_revision
    /\ Publish
    /\ UNCHANGED <<gate, books, waiter>>

(* Mutants of ReconcileAbsent: the mode is left alone; a mode of its own.  *)
ReconcileAbsentKeepMode ==
    /\ registered
    /\ registered' = FALSE
    /\ Publish
    /\ UNCHANGED <<gate, spec, spec_revision, books, waiter>>

ReconcileAbsentAsRetired ==
    /\ registered
    /\ registered' = FALSE
    /\ mode' = "Retired" /\ mode_epoch' = mode_epoch + 1
    /\ Publish
    /\ UNCHANGED <<spec, spec_revision, books, waiter>>

(* The configuration no longer names it: an active slot is disabled, a     *)
(* drain keeps its epoch so that its waiter stays valid.                   *)
ReconcileAbsent ==
    /\ registered
    /\ registered' = FALSE
    /\ \/ mode = "Active" /\ mode' = "Disabled" /\ mode_epoch' = mode_epoch + 1
       \/ mode # "Active" /\ UNCHANGED gate
    /\ Publish
    /\ UNCHANGED <<spec, spec_revision, books, waiter>>

Next ==
    \/ TryAcquire
    \/ \E l \in held : Release(l)
    \/ Activate
    \/ Disable
    \/ ReconcileAbsent
    \/ \E s \in Specs : ReconcilePresent(s)
    \/ \E w \in Waiters : BeginDrain(w)
    \/ \E w \in Waiters : Subscribe(w)
    \/ \E w \in Waiters : Check(w)
    \/ \E w \in Waiters : Changed(w)
    \/ \E w \in Waiters : DropWait(w)

Spec == Init /\ [][Next]_vars

(* The runtime polls a woken wait future; nothing obliges a request to end,*)
(* an operator to act or a waiter to be dropped.                           *)
FairSpec == Spec /\ \A w \in Waiters : WF_vars(Check(w)) /\ WF_vars(Changed(w))

-----------------------------------------------------------------------------
Lease == [serial : Nat, spec : Specs]

TypeOK ==
    /\ registered \in BOOLEAN
    /\ spec \in Specs
    /\ mode \in BackendMode
    /\ mode_epoch \in Nat
    /\ sequence \in Nat
    /\ spec_revision \in Nat
    /\ next_lease_serial \in Nat
    /\ total_acquired \in Nat
    /\ leases \in SUBSET Nat
    /\ held \in SUBSET Lease
    /\ waiter \in [Waiters -> [pc : WaiterPC, epoch : Nat, seen : Nat]]

(* The gate's books balance: the slot counts exactly the leases that tasks *)
(* hold, each under a serial of its own, so that Release's assertion       *)
(* ("backend lease released more than once") can never fire.               *)
LeasesBalance ==
    /\ leases = {l.serial : l \in held}
    /\ \A l, k \in held : l.serial = k.serial => l = k

(* Removing a backend from the configuration closes its gate, and naming   *)
(* it again does not reopen it: a slot outside the configuration is never  *)
(* active (reconcile_absent, reconcile_present).                           *)
RetiredNeverActive == ~registered => mode # "Active"

(* A token names one drain for good: while the epoch is the token's, the   *)
(* slot is draining, whatever activations, removals and later drains came  *)
(* in between.                                                             *)
TokenNamesADrain ==
    \A w \in Waiters :
        waiter[w].pc # "none" /\ waiter[w].epoch = mode_epoch => mode = "Draining"

(* "Never a false zero-count success" (wait_for_local_zero): once a waiter *)
(* has returned, no lease exists, and none can appear, until its drain is  *)
(* superseded.                                                             *)
ZeroIsFinal ==
    \A w \in Waiters :
        waiter[w].pc = "zero" /\ waiter[w].epoch = mode_epoch => leases = {}

(* No lost wake-up: a waiter parked with nothing left to be told has good  *)
(* reason to be parked.  This is what subscribing before checking is for.  *)
ParkedForAReason ==
    \A w \in Waiters :
        waiter[w].pc = "await" /\ waiter[w].seen = sequence =>
            /\ leases # {}
            /\ mode = "Draining"
            /\ mode_epoch = waiter[w].epoch

(* Liveness of wait_for_local_zero: a waiter whose backend has become idle *)
(* returns (or is told that it was superseded) without any further help.   *)
IdleWaiterReturns ==
    \A w \in Waiters :
        waiter[w].pc \in {"check", "await"} /\ leases = {}
            ~> waiter[w].pc \in {"zero", "superseded", "token"}

-----------------------------------------------------------------------------
(* The slot implements DrainPromise; the certificate is a waiter's success *)
(* in the current drain epoch.                                             *)
Promise == INSTANCE DrainPromise WITH
    gateOpen <- registered /\ mode = "Active",
    inFlight <- leases,
    certified <- \E w \in Waiters : waiter[w].pc = "zero" /\ waiter[w].epoch = mode_epoch

(* Every behaviour of the slot is one of DrainPromise.                     *)
ImplementsDrainPromise == Promise!PromiseSpec
=============================================================================
