------------------------- MODULE BackendSlotProofs -------------------------
(***************************************************************************)
(* Proofs about BackendSlot, for any number of waiters, endpoints, leases  *)
(* and mode changes.                                                       *)
(***************************************************************************)
EXTENDS BackendSlot, TLAPS

USE DEF gate, config, books, vars

-----------------------------------------------------------------------------
(* Serials are handed out once, tokens come from the past, and so do the   *)
(* versions that waiters have seen.                                        *)
FreshNumbers ==
    /\ \A l \in held : l.serial < next_lease_serial
    /\ \A w \in Waiters : waiter[w].epoch <= mode_epoch
    /\ \A w \in Waiters : waiter[w].seen <= sequence

(* The inductive invariant.  FreshNumbers is what makes the others         *)
(* inductive: a new serial differs from every held one, a new epoch from   *)
(* every token, a published change from every version seen.                *)
IInv ==
    /\ TypeOK
    /\ LeasesBalance
    /\ RetiredNeverActive
    /\ TokenNamesADrain
    /\ ZeroIsFinal
    /\ ParkedForAReason
    /\ FreshNumbers

(* The slot's variables keep their types (SlotState and the wait futures). *)
THEOREM TypeCorrect == Spec => []TypeOK
<1>1. Init => TypeOK
  BY SlotAssumption DEF Init, TypeOK, BackendMode, WaiterPC
<1>2. TypeOK /\ [Next]_vars => TypeOK'
  <2> SUFFICES ASSUME TypeOK, [Next]_vars PROVE TypeOK'
    OBVIOUS
  <2> USE DEF TypeOK, BackendMode, WaiterPC, Lease
  <2>1. CASE TryAcquire
    BY <2>1 DEF TryAcquire, GrantLease, Publish
  <2>2. ASSUME NEW l \in held, Release(l) PROVE TypeOK'
    <3>1. sequence' \in Nat
      BY <2>2 DEF Release, Publish
    <3>2. leases' \in SUBSET Nat
      BY <2>2 DEF Release
    <3>3. held' \in SUBSET Lease
      BY <2>2 DEF Release
    <3>4. UNCHANGED <<registered, spec, spec_revision, mode, mode_epoch,
                      next_lease_serial, total_acquired, waiter>>
      BY <2>2 DEF Release
    <3> QED BY <3>1, <3>2, <3>3, <3>4
  <2>3. CASE Activate
    BY <2>3 DEF Activate, ChangeMode, Publish
  <2>4. CASE Disable
    BY <2>4 DEF Disable, ChangeMode, Publish
  <2>5. CASE ReconcileAbsent
    <3>1. sequence' \in Nat
      BY <2>5 DEF ReconcileAbsent, Publish
    <3>2. registered' \in BOOLEAN
      BY <2>5 DEF ReconcileAbsent
    <3>3. mode' \in BackendMode /\ mode_epoch' \in Nat
      BY <2>5 DEF ReconcileAbsent
    <3>4. UNCHANGED <<spec, spec_revision, books, waiter>>
      BY <2>5 DEF ReconcileAbsent
    <3> QED BY <3>1, <3>2, <3>3, <3>4
  <2>6. ASSUME NEW s \in Specs, ReconcilePresent(s) PROVE TypeOK'
    BY <2>6 DEF ReconcilePresent, Publish
  <2>7. ASSUME NEW w \in Waiters, BeginDrain(w) PROVE TypeOK'
    <3>1. sequence' \in Nat /\ mode' \in BackendMode /\ mode_epoch' \in Nat
      BY <2>7 DEF BeginDrain, ChangeMode, Publish
    <3>2. waiter' \in [Waiters -> [pc : WaiterPC, epoch : Nat, seen : Nat]]
      BY <2>7, <3>1 DEF BeginDrain
    <3>3. UNCHANGED <<config, books>>
      BY <2>7 DEF BeginDrain
    <3> QED BY <3>1, <3>2, <3>3
  <2>8. ASSUME NEW w \in Waiters,
               Subscribe(w) \/ Check(w) \/ Changed(w) \/ DropWait(w)
        PROVE TypeOK'
    BY <2>8 DEF Subscribe, Check, Changed, DropWait
  <2>9. CASE UNCHANGED vars
    BY <2>9
  <2> QED
    BY <2>1, <2>2, <2>3, <2>4, <2>5, <2>6, <2>7, <2>8, <2>9 DEF Next
<1> QED
  BY <1>1, <1>2, PTL DEF Spec

-----------------------------------------------------------------------------
LEMMA InitEstablishesInv == Init => IInv
  BY SlotAssumption
  DEF Init, IInv, TypeOK, LeasesBalance, RetiredNeverActive, TokenNamesADrain,
      ZeroIsFinal, ParkedForAReason, FreshNumbers, BackendMode, WaiterPC, Lease

(* try_acquire needs an active slot, so no drain is under way and no       *)
(* waiter's success is current.                                            *)
LEMMA TryAcquireKeepsInv ==
  ASSUME IInv, TypeOK', TryAcquire PROVE IInv'
<1> USE DEF IInv, TypeOK, TryAcquire, GrantLease, Publish
<1>1. LeasesBalance'
  <2>1. leases' = {l.serial : l \in held'}
    <3> DEFINE new == [serial |-> next_lease_serial, spec |-> spec]
    <3>1. leases' = leases \cup {new.serial} /\ held' = held \cup {new}
      OBVIOUS
    <3> HIDE DEF new
    <3> QED BY <3>1 DEF LeasesBalance
  <2>2. ASSUME NEW l \in held', NEW k \in held', l.serial = k.serial PROVE l = k
    BY <2>2 DEF LeasesBalance, FreshNumbers, Lease
  <2> QED BY <2>1, <2>2 DEF LeasesBalance
<1>2. RetiredNeverActive' /\ TokenNamesADrain' /\ ZeroIsFinal'
  BY DEF RetiredNeverActive, TokenNamesADrain, ZeroIsFinal, WaiterPC
<1>3. ParkedForAReason' /\ FreshNumbers'
  BY DEF ParkedForAReason, FreshNumbers, Lease
<1> QED BY <1>1, <1>2, <1>3

LEMMA ReleaseKeepsInv ==
  ASSUME IInv, TypeOK', NEW l \in held, Release(l) PROVE IInv'
<1> USE DEF IInv, TypeOK, Release, Publish
<1>1. LeasesBalance'
  BY DEF LeasesBalance, Lease
<1>2. RetiredNeverActive' /\ TokenNamesADrain' /\ ZeroIsFinal'
  BY DEF RetiredNeverActive, TokenNamesADrain, ZeroIsFinal
<1>3. ParkedForAReason' /\ FreshNumbers'
  BY DEF ParkedForAReason, FreshNumbers
<1> QED BY <1>1, <1>2, <1>3

(* Activate, Disable and the two reconciliations start a new epoch or      *)
(* leave the mode alone, and publish either way.                           *)
LEMMA OperatorKeepsInv ==
  ASSUME IInv, TypeOK',
         Activate \/ Disable \/ ReconcileAbsent \/ (\E s \in Specs : ReconcilePresent(s))
  PROVE  IInv'
<1> USE DEF IInv, TypeOK, Activate, Disable, ReconcileAbsent, ReconcilePresent,
            ChangeMode, Publish
<1>1. LeasesBalance'
  BY DEF LeasesBalance
<1>2. RetiredNeverActive'
  BY DEF RetiredNeverActive
<1>3. TokenNamesADrain' /\ ZeroIsFinal'
  BY DEF TokenNamesADrain, ZeroIsFinal, FreshNumbers
<1>4. ParkedForAReason' /\ FreshNumbers'
  BY DEF ParkedForAReason, FreshNumbers
<1> QED BY <1>1, <1>2, <1>3, <1>4

LEMMA BeginDrainKeepsInv ==
  ASSUME IInv, TypeOK', NEW w \in Waiters, BeginDrain(w) PROVE IInv'
<1> USE DEF IInv, TypeOK, BeginDrain, ChangeMode, Publish
<1>1. LeasesBalance' /\ RetiredNeverActive'
  BY DEF LeasesBalance, RetiredNeverActive
<1>2. TokenNamesADrain' /\ ZeroIsFinal'
  BY DEF TokenNamesADrain, ZeroIsFinal, FreshNumbers, WaiterPC
<1>3. ParkedForAReason' /\ FreshNumbers'
  BY DEF ParkedForAReason, FreshNumbers, WaiterPC
<1> QED BY <1>1, <1>2, <1>3

LEMMA WaitStepKeepsInv ==
  ASSUME IInv, TypeOK', NEW w \in Waiters,
         Subscribe(w) \/ Check(w) \/ Changed(w) \/ DropWait(w)
  PROVE  IInv'
<1> USE DEF IInv, TypeOK, Subscribe, Check, Changed, DropWait, Superseded
<1>1. LeasesBalance' /\ RetiredNeverActive'
  BY DEF LeasesBalance, RetiredNeverActive
<1>2. TokenNamesADrain' /\ ZeroIsFinal'
  BY DEF TokenNamesADrain, ZeroIsFinal, WaiterPC
<1>3. ParkedForAReason' /\ FreshNumbers'
  BY DEF ParkedForAReason, FreshNumbers, WaiterPC
<1> QED BY <1>1, <1>2, <1>3

LEMMA NextKeepsInv == IInv /\ TypeOK' /\ [Next]_vars => IInv'
<1> SUFFICES ASSUME IInv, TypeOK', [Next]_vars PROVE IInv'
  OBVIOUS
<1>1. CASE UNCHANGED vars
  BY <1>1 DEF IInv, TypeOK, LeasesBalance, RetiredNeverActive, TokenNamesADrain,
              ZeroIsFinal, ParkedForAReason, FreshNumbers
<1>2. CASE Next
  BY <1>2, TryAcquireKeepsInv, ReleaseKeepsInv, OperatorKeepsInv,
     BeginDrainKeepsInv, WaitStepKeepsInv DEF Next
<1> QED BY <1>1, <1>2

(* The slot's operations keep the inductive invariant IInv.                *)
THEOREM InvHolds == Spec => []IInv
  BY InitEstablishesInv, NextKeepsInv, TypeCorrect, PTL DEF Spec

(* Every live lease is counted once and released once (backend.rs release).*)
THEOREM LeasesAlwaysBalance == Spec => []LeasesBalance
<1>1. IInv => LeasesBalance BY DEF IInv
<1> QED BY <1>1, InvHolds, PTL

(* wait_for_local_zero never reports a false zero.                         *)
THEOREM ZeroStaysZero == Spec => []ZeroIsFinal
<1>1. IInv => ZeroIsFinal BY DEF IInv
<1> QED BY <1>1, InvHolds, PTL

(* wait_for_local_zero never misses the change that would end its wait.    *)
THEOREM NoLostWakeUp == Spec => []ParkedForAReason
<1>1. IInv => ParkedForAReason BY DEF IInv
<1> QED BY <1>1, InvHolds, PTL

(* A waiter's token of the current epoch names a drain that is in force    *)
(* (backend.rs begin_drain and every later change of mode).                *)
THEOREM TokensNameDrains == Spec => []TokenNamesADrain
<1>1. IInv => TokenNamesADrain BY DEF IInv
<1> QED BY <1>1, InvHolds, PTL

(* A backend that reconcile has retired is never active.                   *)
THEOREM RetiredIsClosed == Spec => []RetiredNeverActive
<1>1. IInv => RetiredNeverActive BY DEF IInv
<1> QED BY <1>1, InvHolds, PTL

-----------------------------------------------------------------------------
(* Refinement.  The drain epoch ties a waiter's success to the closed gate;*)
(* every mode change starts a new epoch and so withdraws it.               *)
LEMMA StepSimulation == IInv /\ [Next]_vars => [Promise!PromiseNext]_(Promise!promiseVars)
<1> SUFFICES ASSUME IInv, [Next]_vars
             PROVE  Promise!PromiseNext \/ UNCHANGED Promise!promiseVars
  BY DEF Promise!promiseVars
<1> USE DEF IInv, TypeOK, Promise!PromiseNext, Promise!promiseVars
<1>1. CASE TryAcquire
  BY <1>1 DEF TryAcquire, GrantLease, Promise!Admit
<1>2. ASSUME NEW l \in held, Release(l)
      PROVE  Promise!PromiseNext
  BY <1>2 DEF Release, Promise!Finish
<1>3. CASE Activate \/ Disable
  BY <1>3 DEF Activate, Disable, ChangeMode, FreshNumbers, Promise!Withdraw
<1>4. CASE ReconcileAbsent
  BY <1>4 DEF ReconcileAbsent, FreshNumbers, Promise!Withdraw, Promise!Close
<1>5. ASSUME NEW s \in Specs, ReconcilePresent(s)
      PROVE  UNCHANGED Promise!promiseVars
  BY <1>5 DEF ReconcilePresent, RetiredNeverActive
<1>6. ASSUME NEW w \in Waiters, BeginDrain(w)
      PROVE  Promise!PromiseNext \/ UNCHANGED Promise!promiseVars
  BY <1>6 DEF BeginDrain, ChangeMode, FreshNumbers, Promise!Withdraw, WaiterPC
<1>7. ASSUME NEW w \in Waiters, Check(w)
      PROVE  Promise!PromiseNext \/ UNCHANGED Promise!promiseVars
  BY <1>7 DEF Check, Superseded, Promise!Certify, WaiterPC
<1>8. ASSUME NEW w \in Waiters, Subscribe(w) \/ Changed(w) \/ DropWait(w)
      PROVE  UNCHANGED Promise!promiseVars
  BY <1>8 DEF Subscribe, Changed, DropWait, WaiterPC
<1>9. CASE UNCHANGED vars
  BY <1>9
<1> QED
  BY <1>1, <1>2, <1>3, <1>4, <1>5, <1>6, <1>7, <1>8, <1>9 DEF Next

(* The slot implements DrainPromise: a waiter's success is a certificate   *)
(* that the backend is closed and idle.                                    *)
THEOREM SlotImplementsPromise == Spec => ImplementsDrainPromise
<1>1. Init => Promise!PromiseInit
  BY DEF Init, Promise!PromiseInit
<1> QED
  BY <1>1, StepSimulation, InvHolds, PTL
  DEF Spec, ImplementsDrainPromise, Promise!PromiseSpec
=============================================================================
