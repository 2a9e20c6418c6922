------------------------ MODULE DrainControlProofs ------------------------
(***************************************************************************)
(* Proofs about DrainControl for every set of requests and commands and    *)
(* any number of crashes.  The types and the evidence of a drain do not    *)
(* depend on how save_file ends; the fences need that it either writes the *)
(* new file or leaves the old one (NoTornSave; MCTornSave.cfg shows what   *)
(* happens otherwise).                                                     *)
(***************************************************************************)
EXTENDS DrainControl, TLAPS

USE ControlAssumption DEF telemetry, vars

NoTornSave == "torn" \notin SaveOutcomes

(* What the holder of the lifecycle lock has done so far, by its next step.*)
LockInv ==
    \/ lifecycle = Free /\ mode = disk
    \/ /\ Holds("drain", "persist")
       /\ mode = "Draining" /\ disk = lifecycle.before /\ disk # "Draining"
    \/ lifecycle.cmd \in {"drain", "reload"} /\ lifecycle.step = "ensure" /\ mode = disk
    \/ Holds("activate", "persist") /\ mode = "Disabled" /\ disk = "Disabled"
    \/ Holds("activate", "open") /\ mode = "Disabled" /\ disk = "Active" /\ ~certified
    \/ lifecycle.cmd \in {"disable", "force"} /\ lifecycle.step = "persist" /\ mode = disk
    \/ lifecycle.cmd \in {"disable", "force"} /\ lifecycle.step = "close" /\ disk = "Disabled"
    \/ Holds("reload", "apply") /\ mode = disk
    \/ /\ Holds("driver", "persist") /\ mode = "Draining" /\ disk = "Draining"
       /\ leases = {} /\ op.phase = "Draining" /\ op.pc = "confirm"
    \/ /\ Holds("driver", "close") /\ mode = "Draining" /\ disk = "Disabled"
       /\ leases = {} /\ op.phase = "Draining" /\ op.pc = "confirm"

(* A certificate is backed by the file, so that no restart loses it.       *)
CertificateInv ==
    certified => disk # "Active" /\ mode # "Active" /\ leases = {}

(* Between a drain's first step and its last, nobody may drive it yet.     *)
DrivenInv ==
    mode = "Draining" /\ lifecycle.cmd # "drain" => Driven

(* The inductive invariant, besides the types.                             *)
Core == memory = disk /\ LockInv /\ CertificateInv /\ DrivenInv
Inv == TypeOK /\ Core

(* How the evidence of an operation that has not outlived its closing of   *)
(* the gate is counted: the gate is closed, the handler that might undo    *)
(* its closing found it closed, every scrape that counts was begun since,  *)
(* and the idle streak and the last serial do not both run ahead of the    *)
(* idle scrapes begun since the gate closed.                               *)
OwnOperation == op.phase = "Draining" /\ ~op.outlived

DriverInv ==
    lifecycle.cmd = "driver" =>
        /\ lifecycle.step \in {"persist", "close"}
        /\ op.phase = "Draining" /\ op.pc = "confirm"
        /\ ~op.outlived => op.evidence = Confirmations

GateInv ==
    OwnOperation => /\ mode # "Active"
                    /\ Holds("drain", "persist") => lifecycle.before # "Active"

ScrapeInv ==
    /\ scrape.busy => scrape.serial = started
    /\ streak > 0 => started <= observed.serial + (IF scrape.busy THEN 1 ELSE 0)

CountInv ==
    OwnOperation =>
        /\ scrape.busy /\ scrape.serial > 0 => scrape.sinceClosed
        /\ streak <= confirmations \/ observed.serial <= confirmations

EvidenceInv == DriverInv /\ GateInv /\ ScrapeInv /\ CountInv
-----------------------------------------------------------------------------
(* Types, whatever save_file does.                                         *)

LEMMA FreshRecords ==
  /\ NoOperation \in OperationType /\ NewOperation \in OperationType
  /\ NoScrape \in ScrapeType /\ NoObservation \in ObservationType
<1>1. NoOperation \in OperationType
  BY DEF NoOperation, OperationType, Confirmations
<1>2. NewOperation \in OperationType
  BY <1>1 DEF NewOperation, OperationType
<1>3. NoScrape \in ScrapeType /\ NoObservation \in ObservationType
  BY DEF NoScrape, NoObservation, ScrapeType, ObservationType, Confirmations
<1> QED BY <1>1, <1>2, <1>3

(* What an operation is once its driver has returned.                      *)
LEMMA EndedFacts ==
  ASSUME TypeOK, NEW phase \in {"Complete", "Cancelled", "Failed"}
  PROVE  /\ Ended(phase) \in OperationType
         /\ Ended(phase).phase = phase /\ Ended(phase).late = op.late
<1>1. op.late \in BOOLEAN
  BY DEF TypeOK, ControlTypeOK, OperationType
<1> QED BY <1>1, FreshRecords DEF Ended, OperationType

LEMMA InitTypes == Init => TypeOK
<1> SUFFICES ASSUME Init PROVE TypeOK
  OBVIOUS
<1> USE DEF Init
<1>1. lifecycle \in LifecycleType
  BY DEF Free, LifecycleType, BackendMode
<1>2. op \in OperationType /\ scrape \in ScrapeType /\ observed \in ObservationType
  BY FreshRecords
<1>3. ControlTypeOK
  <2>1. mode \in BackendMode /\ memory \in BackendMode /\ disk \in BackendMode
    BY DEF BackendMode
  <2>2. crashes \in 0..MaxCrashes
    OBVIOUS
  <2>3. certified \in BOOLEAN /\ leases \in SUBSET Requests
    OBVIOUS
  <2> QED BY <1>1, <1>2, <2>1, <2>2, <2>3 DEF ControlTypeOK
<1>4. TelemetryTypeOK
  BY <1>2 DEF TelemetryTypeOK, Confirmations
<1> QED BY <1>3, <1>4 DEF TypeOK

(* The helpers the actions are built from keep the types.                  *)
LEMMA HelperTypes ==
  ASSUME TypeOK
  PROVE  /\ \A m \in BackendMode : SetMode(m) =>
              /\ mode' \in BackendMode /\ confirmations' \in 0..Confirmations
              /\ scrape' \in ScrapeType
         /\ KeepMode =>
              /\ mode' \in BackendMode /\ confirmations' \in 0..Confirmations
              /\ scrape' \in ScrapeType
         /\ \A m \in BackendMode, o \in SaveOutcomes :
              Save(m, o) => memory' \in BackendMode /\ disk' \in BackendMode
         /\ \A c \in {"drain", "activate", "disable", "force", "reload", "driver"},
               s \in {"persist", "ensure", "apply"} : Lock(c, s) => lifecycle' \in LifecycleType
         /\ \A s \in {"ensure", "open", "close"} : Goto(s) => lifecycle' \in LifecycleType
         /\ Unlock => lifecycle' \in LifecycleType
         /\ \A n \in Nat : UpTo(n) \in 0..Confirmations
<1> USE DEF TypeOK, ControlTypeOK, TelemetryTypeOK
<1>1. \A m \in BackendMode : SetMode(m) =>
        /\ mode' \in BackendMode /\ confirmations' \in 0..Confirmations
        /\ scrape' \in ScrapeType
  <2>1. [scrape EXCEPT !.sinceClosed = FALSE] \in ScrapeType
    BY DEF ScrapeType
  <2>2. 0 \in 0..Confirmations
    BY DEF Confirmations
  <2> QED BY <2>1, <2>2 DEF SetMode
<1>2. KeepMode =>
        /\ mode' \in BackendMode /\ confirmations' \in 0..Confirmations
        /\ scrape' \in ScrapeType
  BY DEF KeepMode
<1>3. \A m \in BackendMode, o \in SaveOutcomes :
        Save(m, o) => memory' \in BackendMode /\ disk' \in BackendMode
  BY DEF Save
<1>4. \A c \in {"drain", "activate", "disable", "force", "reload", "driver"},
         s \in {"persist", "ensure", "apply"} : Lock(c, s) => lifecycle' \in LifecycleType
  BY DEF Lock, LifecycleType, BackendMode
<1>5. \A s \in {"ensure", "open", "close"} : Goto(s) => lifecycle' \in LifecycleType
  BY DEF Goto, LifecycleType
<1>6. Unlock => lifecycle' \in LifecycleType
  BY DEF Unlock, Free, LifecycleType, BackendMode
<1>7. \A n \in Nat : UpTo(n) \in 0..Confirmations
  BY DEF UpTo, Confirmations
<1> QED BY <1>1, <1>2, <1>3, <1>4, <1>5, <1>6, <1>7

LEMMA NextKeepsTypes == TypeOK /\ [Next]_vars => TypeOK'
<1> SUFFICES ASSUME TypeOK, [Next]_vars PROVE TypeOK'
  OBVIOUS
<1>1. ASSUME UNCHANGED <<mode, leases, memory, disk, lifecycle, op, crashes, certified>>
      PROVE  ControlTypeOK'
  BY <1>1 DEF TypeOK, ControlTypeOK
<1>2. ASSUME UNCHANGED telemetry, UNCHANGED <<engine, confirmations>>
      PROVE  TelemetryTypeOK'
  BY <1>2 DEF TypeOK, TelemetryTypeOK
<1>3. CASE UNCHANGED vars
  BY <1>3, <1>1, <1>2 DEF TypeOK
<1>4. ASSUME NEW r \in Requests, Acquire(r) \/ Release(r) PROVE TypeOK'
  <2>1. leases' \in SUBSET Requests
    BY <1>4 DEF TypeOK, ControlTypeOK, Acquire, Release
  <2>2. ControlTypeOK'
    BY <1>4, <2>1 DEF TypeOK, ControlTypeOK, Acquire, Release
  <2> QED BY <1>4, <1>2, <2>2 DEF TypeOK, Acquire, Release
<1>5. CASE BeginMetricsScrape
  <2> USE <1>5 DEF BeginMetricsScrape
  <2>1. started' \in 0..Confirmations
    BY HelperTypes DEF TypeOK, TelemetryTypeOK
  <2>2. scrape' \in ScrapeType
    BY <2>1 DEF ScrapeType
  <2> QED BY <1>1, <2>1, <2>2 DEF TypeOK, TelemetryTypeOK
<1>6. CASE RecordMetricsSuccess
  <2> USE <1>6 DEF RecordMetricsSuccess
  <2>1. scrape' \in ScrapeType
    BY FreshRecords
  <2>2. observed' \in ObservationType
    BY DEF TypeOK, TelemetryTypeOK, ScrapeType, ObservationType
  <2>3. streak' \in 0..Confirmations /\ confirmations' \in 0..Confirmations
    BY HelperTypes DEF TypeOK, TelemetryTypeOK, Confirmations
  <2> QED BY <1>1, <2>1, <2>2, <2>3 DEF TypeOK, TelemetryTypeOK
<1>7. CASE RecordMetricsFailure
  <2> USE <1>7 DEF RecordMetricsFailure
  <2>1. scrape' \in ScrapeType /\ 0 \in 0..Confirmations
    BY FreshRecords DEF Confirmations
  <2> QED BY <1>1, <2>1 DEF TypeOK, TelemetryTypeOK
<1>8. CASE TelemetryGoesStale
  <2> USE <1>8 DEF TelemetryGoesStale
  <2>1. observed' \in ObservationType
    BY DEF TypeOK, TelemetryTypeOK, ObservationType
  <2> QED BY <1>1, <2>1 DEF TypeOK, TelemetryTypeOK
<1>9. CASE EngineChanges
  BY <1>9, <1>1 DEF EngineChanges, TypeOK, TelemetryTypeOK
<1>10. CASE BeginDrain
  <2> USE <1>10 DEF BeginDrain
  <2>1. /\ mode' \in BackendMode /\ confirmations' \in 0..Confirmations
        /\ scrape' \in ScrapeType
    BY HelperTypes DEF BackendMode
  <2>2. lifecycle' \in LifecycleType
    BY HelperTypes
  <2> QED BY <2>1, <2>2 DEF TypeOK, ControlTypeOK, TelemetryTypeOK
<1>11. CASE BeginActivate \/ BeginReload
  <2>1. lifecycle' \in LifecycleType
    BY <1>11, HelperTypes DEF BeginActivate, BeginReload
  <2> QED
    BY <1>11, <1>2, <2>1 DEF BeginActivate, BeginReload, TypeOK, ControlTypeOK
<1>12. ASSUME NEW cmd \in {"disable", "force"}, BeginDisable(cmd) PROVE TypeOK'
  <2>1. lifecycle' \in LifecycleType
    BY <1>12, HelperTypes DEF BeginDisable
  <2> QED BY <1>12, <1>2, <2>1 DEF BeginDisable, TypeOK, ControlTypeOK
<1>13. CASE PersistDrain
  <2> USE <1>13 DEF PersistDrain
  <2>0. lifecycle.before \in BackendMode
    BY DEF TypeOK, ControlTypeOK, LifecycleType
  <2>1. PICK o \in SaveOutcomes :
          /\ Save("Draining", o)
          /\ IF o = "saved" THEN KeepMode /\ Goto("ensure")
                            ELSE SetMode(lifecycle.before) /\ Unlock
    OBVIOUS
  <2>2. memory' \in BackendMode /\ disk' \in BackendMode
    BY <2>1, HelperTypes DEF BackendMode
  <2>3. /\ mode' \in BackendMode /\ confirmations' \in 0..Confirmations
        /\ scrape' \in ScrapeType /\ lifecycle' \in LifecycleType
    BY <2>0, <2>1, HelperTypes
  <2> QED BY <2>2, <2>3 DEF TypeOK, ControlTypeOK, TelemetryTypeOK
<1>14. CASE EnsureDrainOperation
  <2> USE <1>14 DEF EnsureDrainOperation
  <2>1. lifecycle' \in LifecycleType
    BY HelperTypes
  <2>2. op' \in OperationType
    BY FreshRecords DEF TypeOK, ControlTypeOK, OperationType
  <2>3. started' \in 0..Confirmations
    BY DEF TypeOK, TelemetryTypeOK, Confirmations
  <2>4. 0 \in 0..Confirmations
    BY DEF Confirmations
  <2>5. scrape' \in ScrapeType
    BY <2>4 DEF TypeOK, TelemetryTypeOK, ScrapeType
  <2>6. observed' \in ObservationType
    BY <2>4 DEF TypeOK, TelemetryTypeOK, ObservationType
  <2> QED BY <2>1, <2>2, <2>3, <2>5, <2>6 DEF TypeOK, ControlTypeOK, TelemetryTypeOK
<1>15. CASE PersistActivate
  <2> USE <1>15 DEF PersistActivate
  <2>1. PICK o \in SaveOutcomes :
          /\ Save("Active", o)
          /\ IF o = "saved" THEN Goto("open") /\ certified' = FALSE
                            ELSE Unlock /\ UNCHANGED certified
    OBVIOUS
  <2>2. memory' \in BackendMode /\ disk' \in BackendMode
    BY <2>1, HelperTypes DEF BackendMode
  <2>3. lifecycle' \in LifecycleType /\ certified' \in BOOLEAN
    BY <2>1, HelperTypes DEF TypeOK, ControlTypeOK
  <2> QED BY <1>2, <2>2, <2>3 DEF TypeOK, ControlTypeOK
<1>16. CASE OpenGate \/ CloseGate
  <2>1. /\ mode' \in BackendMode /\ confirmations' \in 0..Confirmations
        /\ scrape' \in ScrapeType /\ lifecycle' \in LifecycleType
    BY <1>16, HelperTypes DEF OpenGate, CloseGate, BackendMode
  <2>2. op' \in OperationType
    BY <1>16 DEF OpenGate, CloseGate, TypeOK, ControlTypeOK, OperationType
  <2> QED
    BY <1>16, <2>1, <2>2 DEF OpenGate, CloseGate, TypeOK, ControlTypeOK, TelemetryTypeOK
<1>17. CASE PersistDisable
  <2> USE <1>17 DEF PersistDisable
  <2>1. PICK o \in SaveOutcomes :
          Save("Disabled", o) /\ IF o = "saved" THEN Goto("close") ELSE Unlock
    OBVIOUS
  <2>2. memory' \in BackendMode /\ disk' \in BackendMode
    BY <2>1, HelperTypes DEF BackendMode
  <2>3. lifecycle' \in LifecycleType
    BY <2>1, HelperTypes
  <2> QED BY <1>2, <2>2, <2>3 DEF TypeOK, ControlTypeOK
<1>18. CASE ApplyReload
  <2> USE <1>18 DEF ApplyReload
  <2>1. /\ mode' \in BackendMode /\ confirmations' \in 0..Confirmations
        /\ scrape' \in ScrapeType
    BY HelperTypes DEF TypeOK, ControlTypeOK
  <2>2. lifecycle' \in LifecycleType
    BY HelperTypes
  <2> QED BY <2>1, <2>2 DEF TypeOK, ControlTypeOK, TelemetryTypeOK
<1>19. CASE DrivePersist
  <2> USE <1>19 DEF DrivePersist
  <2>1. PICK o \in SaveOutcomes :
          /\ Save("Disabled", o)
          /\ IF o = "saved" THEN Goto("close") /\ UNCHANGED op
                            ELSE Unlock /\ op' = Ended("Failed")
    OBVIOUS
  <2>2. memory' \in BackendMode /\ disk' \in BackendMode
    BY <2>1, HelperTypes DEF BackendMode
  <2>3. lifecycle' \in LifecycleType
    BY <2>1, HelperTypes
  <2>4. op' \in OperationType
    BY <2>1, EndedFacts DEF TypeOK, ControlTypeOK
  <2> QED BY <1>2, <2>2, <2>3, <2>4 DEF TypeOK, ControlTypeOK
<1>20. CASE DriveClose
  <2> USE <1>20 DEF DriveClose
  <2>1. /\ mode' \in BackendMode /\ confirmations' \in 0..Confirmations
        /\ scrape' \in ScrapeType /\ lifecycle' \in LifecycleType
    BY HelperTypes DEF BackendMode
  <2>2. op' \in OperationType
    BY EndedFacts
  <2> QED BY <2>1, <2>2 DEF TypeOK, ControlTypeOK, TelemetryTypeOK
<1>21. CASE DriveTick \/ DrivePublish
  <2>1. CASE DriveTick
    <3>1. op' \in OperationType
      BY <2>1 DEF DriveTick, TypeOK, ControlTypeOK, OperationType
    <3> QED BY <2>1, <1>2, <3>1 DEF DriveTick, TypeOK, ControlTypeOK
  <2>2. CASE DrivePublish
    <3>1. op' \in OperationType
      BY <2>2, EndedFacts DEF DrivePublish
    <3> QED BY <2>2, <1>2, <3>1 DEF DrivePublish, TypeOK, ControlTypeOK
  <2> QED BY <1>21, <2>1, <2>2
<1>22. CASE DriveConfirm
  <2> USE <1>22 DEF DriveConfirm
  <2>1. op' \in OperationType
    BY DEF TypeOK, ControlTypeOK, TelemetryTypeOK, OperationType
  <2>2. lifecycle' \in LifecycleType
    BY HelperTypes DEF TypeOK, ControlTypeOK
  <2> QED BY <1>2, <2>1, <2>2 DEF TypeOK, ControlTypeOK
<1>23. CASE Restart
  <2> USE <1>23 DEF Restart
  <2>1. lifecycle' \in LifecycleType
    BY HelperTypes DEF Unlock
  <2>2. /\ op' \in OperationType /\ scrape' \in ScrapeType /\ observed' \in ObservationType
    BY FreshRecords
  <2>3. crashes' \in 0..MaxCrashes
    BY DEF TypeOK, ControlTypeOK
  <2>4. ControlTypeOK'
    BY <2>1, <2>2, <2>3 DEF TypeOK, ControlTypeOK
  <2>5. TelemetryTypeOK'
    BY <2>2 DEF TypeOK, TelemetryTypeOK, Confirmations
  <2> QED BY <2>4, <2>5 DEF TypeOK
<1> QED
  BY <1>3, <1>4, <1>5, <1>6, <1>7, <1>8, <1>9, <1>10, <1>11, <1>12, <1>13, <1>14, <1>15,
     <1>16, <1>17, <1>18, <1>19, <1>20, <1>21, <1>22, <1>23
     DEF Next, Handlers

(* Type correctness of every instance, torn saves included.                *)
THEOREM TypeCorrect == Spec => []TypeOK
<1>1. Init => TypeOK
  BY InitTypes
<1>2. TypeOK /\ [Next]_vars => TypeOK'
  BY NextKeepsTypes
<1> QED BY <1>1, <1>2, PTL DEF Spec

-----------------------------------------------------------------------------
(* The fences.                                                             *)

LEMMA InitCore == Init => Core
  BY DEF Init, Core, LockInv, CertificateInv, DrivenInv, Driven

(* A save either does what it should, in both places, or nothing.          *)
LEMMA SaveIsAtomic ==
  ASSUME NoTornSave, memory = disk, NEW m, NEW o \in SaveOutcomes, Save(m, o)
  PROVE  /\ memory' = disk'
         /\ o = "saved" => disk' = m
         /\ o # "saved" => disk' = disk
<1>1. o \in {"saved", "failed"}
  BY DEF NoTornSave
<1> QED BY <1>1 DEF Save

LEMMA ModeHelpers ==
  /\ \A m : SetMode(m) => mode' = m
  /\ KeepMode => mode' = mode
  BY DEF SetMode, KeepMode

(* Requests: the gate is closed while a certificate stands and while the   *)
(* driver holds the lock.                                                  *)
LEMMA RequestsKeepCore ==
  ASSUME Core, NEW r \in Requests, Acquire(r) \/ Release(r) PROVE Core'
<1>1. UNCHANGED <<mode, memory, disk, lifecycle, op, certified>>
  BY DEF Acquire, Release
<1>2. leases = {} /\ mode # "Active" => leases' = {}
  BY DEF Acquire, Release
<1>3. LockInv'
  BY <1>1, <1>2 DEF Core, LockInv, Holds
<1>4. CertificateInv' /\ DrivenInv'
  BY <1>1, <1>2 DEF Core, CertificateInv, DrivenInv, Driven
<1> QED BY <1>1, <1>3, <1>4 DEF Core

LEMMA TelemetryKeepsCore ==
  ASSUME Core, UNCHANGED <<mode, leases, memory, disk, lifecycle, op, certified>>
  PROVE  Core'
  BY DEF Core, LockInv, CertificateInv, DrivenInv, Driven, Holds

LEMMA DrainKeepsCore ==
  ASSUME NoTornSave, TypeOK, Core, BeginDrain \/ PersistDrain \/ EnsureDrainOperation
  PROVE  Core'
<1>1. CASE BeginDrain
  <2>1. /\ mode' = "Draining" /\ lifecycle = Free /\ mode = disk
        /\ lifecycle' = [cmd |-> "drain", before |-> mode,
                         step |-> IF mode = "Draining" THEN "ensure" ELSE "persist"]
        /\ UNCHANGED <<leases, memory, disk, op, certified>>
    BY <1>1, ModeHelpers DEF BeginDrain, Lock, Core, LockInv, Holds, Free
  <2>2. LockInv'
    BY <2>1 DEF LockInv, Holds
  <2> QED BY <2>1, <2>2 DEF Core, CertificateInv, DrivenInv, Driven
<1>2. CASE PersistDrain
  <2>1. PICK o \in SaveOutcomes :
          /\ Save("Draining", o)
          /\ IF o = "saved" THEN KeepMode /\ Goto("ensure")
                            ELSE SetMode(lifecycle.before) /\ Unlock
    BY <1>2 DEF PersistDrain
  <2>2. /\ Holds("drain", "persist") /\ mode = "Draining"
        /\ disk = lifecycle.before /\ disk # "Draining"
        /\ UNCHANGED <<leases, op, certified>>
    BY <1>2 DEF PersistDrain, Core, LockInv, Holds, Free
  <2>3. CASE o = "saved"
    <3>1. /\ memory' = disk' /\ disk' = "Draining" /\ mode' = "Draining"
          /\ lifecycle' = [lifecycle EXCEPT !.step = "ensure"]
      BY <2>1, <2>3, <2>2, SaveIsAtomic, ModeHelpers DEF Goto, Core
    <3>2. lifecycle'.cmd = "drain" /\ lifecycle'.step = "ensure"
      BY <3>1, <2>2 DEF TypeOK, ControlTypeOK, LifecycleType, Holds
    <3> QED BY <3>1, <3>2, <2>2 DEF Core, LockInv, CertificateInv, DrivenInv, Driven, Holds
  <2>4. CASE o # "saved"
    <3>1. memory' = disk' /\ disk' = disk /\ mode' = disk /\ lifecycle' = Free
      BY <2>1, <2>4, <2>2, SaveIsAtomic, ModeHelpers DEF Unlock, Core
    <3> QED BY <3>1, <2>2 DEF Core, LockInv, CertificateInv, DrivenInv, Driven, Holds
  <2> QED BY <2>3, <2>4
<1>3. CASE EnsureDrainOperation
  <2>1. /\ mode = disk /\ lifecycle' = Free
        /\ mode' = mode
        /\ UNCHANGED <<leases, memory, disk, certified>>
    BY <1>3 DEF EnsureDrainOperation, Unlock, Core, LockInv, Holds, Free
  <2>2. mode = "Draining" => Driven'
    <3>1. CASE mode = "Draining" /\ op.phase # "Draining"
      BY <1>3, <3>1 DEF EnsureDrainOperation, NewOperation, NoOperation, Driven
    <3>2. CASE mode = "Draining" /\ op.phase = "Draining"
      <4>1. op' = [op EXCEPT !.late = @ \/ JoinedLate]
        BY <1>3, <3>2 DEF EnsureDrainOperation
      <4>2. /\ op'.phase = "Draining" /\ op'.pc = op.pc
            /\ op.pc \in {"tick", "confirm", "disabled", "superseded"}
            /\ op'.late <=> (op.late \/ JoinedLate)
        BY <4>1, <3>2 DEF TypeOK, ControlTypeOK, OperationType
      <4> QED BY <4>2, <3>2 DEF Driven, JoinedLate
    <3> QED BY <3>1, <3>2
  <2> QED BY <2>1, <2>2 DEF Core, LockInv, CertificateInv, DrivenInv, Driven
<1> QED BY <1>1, <1>2, <1>3

LEMMA ActivateKeepsCore ==
  ASSUME NoTornSave, TypeOK, Core, BeginActivate \/ PersistActivate \/ OpenGate
  PROVE  Core'
<1>1. CASE BeginActivate
  <2>1. /\ lifecycle = Free /\ mode = "Disabled" /\ mode = disk
        /\ lifecycle' = [cmd |-> "activate", step |-> "persist", before |-> mode]
        /\ UNCHANGED <<mode, leases, memory, disk, op, certified>>
    BY <1>1 DEF BeginActivate, Lock, Core, LockInv, Holds, Free
  <2>2. LockInv'
    BY <2>1 DEF LockInv, Holds
  <2> QED BY <2>1, <2>2 DEF Core, CertificateInv, DrivenInv, Driven
<1>2. CASE PersistActivate
  <2>1. PICK o \in SaveOutcomes :
          /\ Save("Active", o)
          /\ IF o = "saved" THEN Goto("open") /\ certified' = FALSE
                            ELSE Unlock /\ UNCHANGED certified
    BY <1>2 DEF PersistActivate
  <2>2. /\ Holds("activate", "persist") /\ mode = "Disabled" /\ disk = "Disabled"
        /\ UNCHANGED <<mode, leases, op>>
    BY <1>2 DEF PersistActivate, Core, LockInv, Holds, Free
  <2>3. CASE o = "saved"
    <3>1. /\ memory' = disk' /\ disk' = "Active" /\ certified' = FALSE
          /\ lifecycle' = [lifecycle EXCEPT !.step = "open"]
      BY <2>1, <2>3, <2>2, SaveIsAtomic DEF Goto, Core
    <3>2. lifecycle'.cmd = "activate" /\ lifecycle'.step = "open"
      BY <3>1, <2>2 DEF TypeOK, ControlTypeOK, LifecycleType, Holds
    <3> QED BY <3>1, <3>2, <2>2 DEF Core, LockInv, CertificateInv, DrivenInv, Driven, Holds
  <2>4. CASE o # "saved"
    <3>1. /\ memory' = disk' /\ disk' = disk /\ lifecycle' = Free
          /\ UNCHANGED certified
      BY <2>1, <2>4, <2>2, SaveIsAtomic DEF Unlock, Core
    <3> QED BY <3>1, <2>2 DEF Core, LockInv, CertificateInv, DrivenInv, Driven, Holds
  <2> QED BY <2>3, <2>4
<1>3. CASE OpenGate
  <2>1. /\ disk = "Active" /\ mode' = "Active" /\ lifecycle' = Free /\ ~certified
        /\ UNCHANGED <<leases, memory, disk, certified>>
    BY <1>3, ModeHelpers DEF OpenGate, Unlock, Core, LockInv, Holds, Free
  <2> QED BY <2>1 DEF Core, LockInv, CertificateInv, DrivenInv, Driven
<1> QED BY <1>1, <1>2, <1>3

LEMMA DisableKeepsCore ==
  ASSUME NoTornSave, TypeOK, Core,
         (\E cmd \in {"disable", "force"} : BeginDisable(cmd)) \/ PersistDisable \/ CloseGate
  PROVE  Core'
<1>1. ASSUME NEW cmd \in {"disable", "force"}, BeginDisable(cmd) PROVE Core'
  <2>1. /\ lifecycle = Free /\ mode = disk
        /\ lifecycle' = [cmd |-> cmd, step |-> "persist", before |-> mode]
        /\ UNCHANGED <<mode, leases, memory, disk, op, certified>>
    BY <1>1 DEF BeginDisable, Lock, Core, LockInv, Holds, Free
  <2>2. LockInv'
    BY <2>1 DEF LockInv, Holds
  <2>3. mode = "Draining" => Driven
    BY <2>1 DEF Core, DrivenInv, Free
  <2> QED BY <2>1, <2>2, <2>3 DEF Core, CertificateInv, DrivenInv, Driven
<1>2. CASE PersistDisable
  <2>1. PICK o \in SaveOutcomes :
          Save("Disabled", o) /\ IF o = "saved" THEN Goto("close") ELSE Unlock
    BY <1>2 DEF PersistDisable
  <2>2. /\ lifecycle.cmd \in {"disable", "force"} /\ mode = disk
        /\ UNCHANGED <<mode, leases, op, certified>>
    BY <1>2 DEF PersistDisable, Core, LockInv, Holds, Free
  <2>3. CASE o = "saved"
    <3>1. /\ memory' = disk' /\ disk' = "Disabled"
          /\ lifecycle' = [lifecycle EXCEPT !.step = "close"]
      BY <2>1, <2>3, SaveIsAtomic DEF Goto, Core
    <3>2. lifecycle'.cmd = lifecycle.cmd /\ lifecycle'.step = "close"
      BY <3>1, <2>2 DEF TypeOK, ControlTypeOK, LifecycleType
    <3> QED BY <3>1, <3>2, <2>2 DEF Core, LockInv, CertificateInv, DrivenInv, Driven, Holds
  <2>4. CASE o # "saved"
    <3>1. memory' = disk' /\ disk' = disk /\ lifecycle' = Free
      BY <2>1, <2>4, SaveIsAtomic DEF Unlock, Core
    <3>2. mode = "Draining" => Driven
      BY <2>2 DEF Core, DrivenInv
    <3> QED BY <3>1, <3>2, <2>2 DEF Core, LockInv, CertificateInv, DrivenInv, Driven
  <2> QED BY <2>3, <2>4
<1>3. CASE CloseGate
  <2>1. /\ disk = "Disabled" /\ mode' = "Disabled" /\ lifecycle' = Free
        /\ UNCHANGED <<leases, memory, disk, op, certified>>
    BY <1>3, ModeHelpers DEF CloseGate, Unlock, Core, LockInv, Holds, Free
  <2> QED BY <2>1 DEF Core, LockInv, CertificateInv, DrivenInv, Driven
<1> QED BY <1>1, <1>2, <1>3

LEMMA ReloadKeepsCore ==
  ASSUME NoTornSave, TypeOK, Core, BeginReload \/ ApplyReload PROVE Core'
<1>1. CASE BeginReload
  <2>1. /\ lifecycle = Free /\ mode = disk
        /\ lifecycle' = [cmd |-> "reload", step |-> "apply", before |-> mode]
        /\ UNCHANGED <<mode, leases, memory, disk, op, certified>>
    BY <1>1 DEF BeginReload, Lock, Core, LockInv, Holds, Free
  <2>2. LockInv'
    BY <2>1 DEF LockInv, Holds
  <2>3. mode = "Draining" => Driven
    BY <2>1 DEF Core, DrivenInv, Free
  <2> QED BY <2>1, <2>2, <2>3 DEF Core, CertificateInv, DrivenInv, Driven
<1>2. CASE ApplyReload
  <2>1. /\ lifecycle.cmd = "reload" /\ mode = disk
        /\ UNCHANGED <<leases, memory, disk, op, certified>>
    BY <1>2 DEF ApplyReload, Core, LockInv, Holds, Free
  <2>2. mode' = mode /\ (Goto("ensure") \/ Unlock)
    BY <1>2, <2>1, ModeHelpers DEF ApplyReload, Core
  <2>3. mode = "Draining" => Driven
    BY <2>1 DEF Core, DrivenInv
  <2>4. \/ lifecycle'.cmd = "reload" /\ lifecycle'.step = "ensure"
        \/ lifecycle' = Free
    BY <2>1, <2>2 DEF Goto, Unlock, TypeOK, ControlTypeOK, LifecycleType
  <2> QED BY <2>1, <2>2, <2>3, <2>4 DEF Core, LockInv, CertificateInv, DrivenInv, Driven
<1> QED BY <1>1, <1>2

LEMMA DriverKeepsCore ==
  ASSUME NoTornSave, TypeOK, Core,
         DriveTick \/ DrivePublish \/ DriveConfirm \/ DrivePersist \/ DriveClose
  PROVE  Core'
<1>1. CASE DriveTick
  <2>1. /\ UNCHANGED <<mode, leases, memory, disk, lifecycle, certified>>
        /\ op.pc = "tick"
    BY <1>1 DEF DriveTick
  <2>2. mode = "Draining" => op'.phase = "Draining" /\ op'.pc = "confirm"
    BY <1>1 DEF DriveTick, TypeOK, ControlTypeOK, OperationType
  <2>3. LockInv'
    BY <2>1 DEF Core, LockInv, Holds
  <2> QED BY <2>1, <2>2, <2>3 DEF Core, CertificateInv, DrivenInv, Driven
<1>2. CASE DriveConfirm
  <2>1. /\ lifecycle = Free /\ mode = disk /\ op.phase = "Draining" /\ op.pc = "confirm"
        /\ UNCHANGED <<mode, leases, memory, disk, certified>>
    BY <1>2 DEF DriveConfirm, Core, LockInv, Holds, Free
  <2>2. CASE mode = "Draining" /\ Drained
    <3>1. /\ lifecycle' = [cmd |-> "driver", step |-> "persist", before |-> mode]
          /\ op' = [op EXCEPT !.evidence = confirmations] /\ leases = {}
      BY <1>2, <2>2 DEF DriveConfirm, Lock, Drained
    <3>2. op'.phase = "Draining" /\ op'.pc = "confirm"
      BY <3>1, <2>1 DEF TypeOK, ControlTypeOK, OperationType
    <3>3. LockInv'
      BY <3>1, <3>2, <2>1, <2>2 DEF LockInv, Holds
    <3> QED BY <3>1, <3>2, <3>3, <2>1 DEF Core, CertificateInv, DrivenInv, Driven
  <2>3. CASE ~(mode = "Draining" /\ Drained)
    <3>1. lifecycle' = lifecycle /\ op' = [op EXCEPT !.pc = "tick"]
      BY <1>2, <2>3 DEF DriveConfirm
    <3>2. op'.phase = "Draining" /\ op'.pc = "tick"
      BY <3>1, <2>1 DEF TypeOK, ControlTypeOK, OperationType
    <3> QED BY <3>1, <3>2, <2>1 DEF Core, LockInv, CertificateInv, DrivenInv, Driven
  <2> QED BY <2>2, <2>3
<1>3. CASE DrivePersist
  <2>1. PICK o \in SaveOutcomes :
          /\ Save("Disabled", o)
          /\ IF o = "saved" THEN Goto("close") /\ UNCHANGED op
                            ELSE Unlock /\ op' = Ended("Failed")
    BY <1>3 DEF DrivePersist
  <2>2. /\ Holds("driver", "persist") /\ mode = "Draining" /\ disk = "Draining"
        /\ leases = {} /\ op.phase = "Draining" /\ op.pc = "confirm"
        /\ UNCHANGED <<mode, leases, certified>>
    BY <1>3 DEF DrivePersist, Core, LockInv, Holds, Free
  <2>3. CASE o = "saved"
    <3>1. /\ memory' = disk' /\ disk' = "Disabled" /\ op' = op
          /\ lifecycle' = [lifecycle EXCEPT !.step = "close"]
      BY <2>1, <2>3, SaveIsAtomic DEF Goto, Core
    <3>2. lifecycle'.cmd = "driver" /\ lifecycle'.step = "close"
      BY <3>1, <2>2 DEF TypeOK, ControlTypeOK, LifecycleType, Holds
    <3> QED BY <3>1, <3>2, <2>2 DEF Core, LockInv, CertificateInv, DrivenInv, Driven, Holds
  <2>4. CASE o # "saved"
    <3>1. /\ memory' = disk' /\ disk' = disk /\ lifecycle' = Free
          /\ op' = Ended("Failed")
      BY <2>1, <2>4, SaveIsAtomic DEF Unlock, Core
    <3>2. op'.phase = "Failed"
      BY <3>1, EndedFacts
    <3> QED BY <3>1, <3>2, <2>2 DEF Core, LockInv, CertificateInv, DrivenInv, Driven
  <2> QED BY <2>3, <2>4
<1>4. CASE DriveClose
  <2>1. /\ disk = "Disabled" /\ leases = {} /\ mode' = "Disabled" /\ lifecycle' = Free
        /\ UNCHANGED <<leases, memory, disk>>
    BY <1>4, ModeHelpers DEF DriveClose, Unlock, Core, LockInv, Holds, Free
  <2> QED BY <2>1 DEF Core, LockInv, CertificateInv, DrivenInv, Driven
<1>5. CASE DrivePublish
  <2>1. /\ UNCHANGED <<mode, leases, memory, disk, lifecycle, certified>>
        /\ op.phase = "Draining" /\ op.pc \in {"disabled", "superseded"}
    BY <1>5 DEF DrivePublish
  <2>2. op'.late = op.late
    BY <1>5, EndedFacts DEF DrivePublish
  <2>3. LockInv'
    BY <2>1 DEF Core, LockInv, Holds
  <2> QED BY <2>1, <2>2, <2>3 DEF Core, CertificateInv, DrivenInv, Driven
<1> QED BY <1>1, <1>2, <1>3, <1>4, <1>5

LEMMA RestartKeepsCore == ASSUME Core, Restart PROVE Core'
<1>1. /\ mode' = disk /\ memory' = disk /\ disk' = disk /\ leases' = {}
      /\ lifecycle' = Free /\ certified' = certified
      /\ disk = "Draining" => op'.phase = "Draining" /\ op'.pc = "tick"
  BY DEF Restart, NewOperation, NoOperation
<1> QED BY <1>1 DEF Core, LockInv, CertificateInv, DrivenInv, Driven

LEMMA NextKeepsInv == NoTornSave /\ Inv /\ [Next]_vars => Inv'
<1> SUFFICES ASSUME NoTornSave, Inv, [Next]_vars PROVE Inv'
  OBVIOUS
<1>1. TypeOK'
  BY NextKeepsTypes DEF Inv
<1>2. CASE \/ UNCHANGED vars \/ BeginMetricsScrape \/ RecordMetricsSuccess
           \/ RecordMetricsFailure \/ TelemetryGoesStale \/ EngineChanges
  <2>1. UNCHANGED <<mode, leases, memory, disk, lifecycle, op, certified>>
    BY <1>2 DEF BeginMetricsScrape, RecordMetricsSuccess, RecordMetricsFailure,
                TelemetryGoesStale, EngineChanges
  <2> QED BY <2>1, <1>1, TelemetryKeepsCore DEF Inv
<1>3. CASE \E r \in Requests : Acquire(r) \/ Release(r)
  BY <1>3, <1>1, RequestsKeepCore DEF Inv
<1>4. CASE BeginDrain \/ PersistDrain \/ EnsureDrainOperation
  BY <1>4, <1>1, DrainKeepsCore DEF Inv
<1>5. CASE BeginActivate \/ PersistActivate \/ OpenGate
  BY <1>5, <1>1, ActivateKeepsCore DEF Inv
<1>6. CASE (\E cmd \in {"disable", "force"} : BeginDisable(cmd)) \/ PersistDisable \/ CloseGate
  BY <1>6, <1>1, DisableKeepsCore DEF Inv
<1>7. CASE BeginReload \/ ApplyReload
  BY <1>7, <1>1, ReloadKeepsCore DEF Inv
<1>8. CASE DriveTick \/ DrivePublish \/ DriveConfirm \/ DrivePersist \/ DriveClose
  BY <1>8, <1>1, DriverKeepsCore DEF Inv
<1>9. CASE Restart
  BY <1>9, <1>1, RestartKeepsCore DEF Inv
<1> QED BY <1>2, <1>3, <1>4, <1>5, <1>6, <1>7, <1>8, <1>9 DEF Next, Handlers

(* The inductive invariant holds of every instance without torn saves.     *)
THEOREM InvHolds == NoTornSave => (Spec => []Inv)
<1> SUFFICES ASSUME NoTornSave PROVE Spec => []Inv
  OBVIOUS
<1>1. Init => Inv
  BY InitTypes, InitCore DEF Inv
<1>2. Inv /\ [Next]_vars => Inv'
  BY NextKeepsInv
<1> QED BY <1>1, <1>2, PTL DEF Spec

(* A confirmed drain stays safe to stop, through crashes and failed saves, *)
(* until an activation has removed its fence from the file.                *)
THEOREM StaysSafeToStop == NoTornSave => (Spec => []SafeToStop)
<1> SUFFICES ASSUME NoTornSave PROVE Spec => []SafeToStop
  OBVIOUS
<1>1. Inv => SafeToStop
  BY DEF Inv, Core, CertificateInv, SafeToStop
<1> QED BY <1>1, InvHolds, PTL

(* Outside the handlers the gate is what the file says: no crash, and no   *)
(* failed command, changes a backend's mode.                               *)
THEOREM FencesMatch == NoTornSave => (Spec => []FenceMatchesGate)
<1> SUFFICES ASSUME NoTornSave PROVE Spec => []FenceMatchesGate
  OBVIOUS
<1>1. Inv => FenceMatchesGate
  BY DEF Inv, Core, LockInv, Holds, Free, FenceMatchesGate
<1> QED BY <1>1, InvHolds, PTL

(* Across restarts, reloads and superseded drains, the one way a draining  *)
(* backend loses its driver without a word of failure is to join an        *)
(* operation whose driver has looked at it for the last time.              *)
THEOREM DrainsAreDriven == NoTornSave => (Spec => []DrainIsDriven)
<1> SUFFICES ASSUME NoTornSave PROVE Spec => []DrainIsDriven
  OBVIOUS
<1>1. Inv => DrainIsDriven
  BY DEF Inv, Core, DrivenInv, Free, DrainIsDriven
<1> QED BY <1>1, InvHolds, PTL

-----------------------------------------------------------------------------
(* The evidence of a drain, whatever save_file does.                       *)

(* Nothing is counted before the first operation.                          *)
LEMMA InitEvidence == Init => EvidenceInv
<1> SUFFICES ASSUME Init PROVE EvidenceInv
  OBVIOUS
<1>1. DriverInv
  BY DEF Init, DriverInv, Free
<1>2. GateInv /\ CountInv
  BY DEF Init, GateInv, CountInv, OwnOperation, NoOperation
<1>3. ScrapeInv
  BY DEF Init, ScrapeInv, NoScrape
<1> QED BY <1>1, <1>2, <1>3 DEF EvidenceInv

(* What the telemetry types say of the numbers compared.                   *)
LEMMA Counts ==
  ASSUME TypeOK
  PROVE  /\ started \in 0..2 /\ scrape.serial \in 0..2 /\ observed.serial \in 0..2
         /\ streak \in 0..2 /\ confirmations \in 0..2
         /\ scrape.busy \in BOOLEAN /\ scrape.sinceClosed \in BOOLEAN
  BY DEF TypeOK, TelemetryTypeOK, ScrapeType, ObservationType, Confirmations

(* UpTo counts one further, up to the two confirmations.                   *)
LEMMA UpToTwo == \A n \in 0..2 : UpTo(n + 1) = IF n = 2 THEN 2 ELSE n + 1
  BY DEF UpTo, Confirmations

(* Only the gate, the lock and the operation matter to the driver's and    *)
(* the gate's part.                                                        *)
LEMMA TelemetryKeepsEvidence ==
  ASSUME TypeOK, EvidenceInv,
         BeginMetricsScrape \/ RecordMetricsSuccess \/ RecordMetricsFailure \/ TelemetryGoesStale
  PROVE  EvidenceInv'
<1>0. UNCHANGED <<mode, lifecycle, op>>
  BY DEF BeginMetricsScrape, RecordMetricsSuccess, RecordMetricsFailure, TelemetryGoesStale
<1>1. DriverInv' /\ GateInv'
  BY <1>0 DEF EvidenceInv, DriverInv, GateInv, OwnOperation, Holds
<1>2. OwnOperation' <=> OwnOperation
  BY <1>0 DEF OwnOperation
<1>3. CASE BeginMetricsScrape
  <2>1. /\ started' = UpTo(started + 1) /\ scrape' = [busy |-> TRUE, serial |-> started',
                                                    sinceClosed |-> mode # "Active"]
        /\ ~scrape.busy /\ UNCHANGED <<observed, streak, confirmations>>
    BY <1>3 DEF BeginMetricsScrape
  <2>2. scrape'.busy /\ scrape'.serial = started' /\ scrape'.sinceClosed = (mode # "Active")
    BY <2>1
  <2>3. started' = IF started = 2 THEN 2 ELSE started + 1
    BY <2>1, Counts, UpToTwo
  <2>4. ScrapeInv'
    BY <2>1, <2>2, <2>3, Counts DEF EvidenceInv, ScrapeInv
  <2>5. CountInv'
    BY <2>1, <2>2, <1>2 DEF EvidenceInv, CountInv, GateInv
  <2> QED BY <1>1, <2>4, <2>5 DEF EvidenceInv
<1>4. CASE RecordMetricsSuccess
  <2>1. /\ scrape.busy /\ scrape' = NoScrape /\ UNCHANGED started
        /\ observed' = [idle |-> engine = "idle", serial |-> scrape.serial, fresh |-> TRUE]
        /\ streak' = (IF engine = "idle" THEN UpTo(streak + 1) ELSE 0)
        /\ confirmations' = (IF engine = "idle" /\ scrape.sinceClosed
                             THEN UpTo(confirmations + 1) ELSE 0)
    BY <1>4 DEF RecordMetricsSuccess
  <2>2. /\ scrape'.busy = FALSE /\ observed'.serial = scrape.serial
        /\ scrape.serial = started
    BY <2>1 DEF NoScrape, EvidenceInv, ScrapeInv
  <2>3. ScrapeInv'
    BY <2>1, <2>2, Counts DEF ScrapeInv
  <2>4. CASE engine = "idle" /\ scrape.sinceClosed
    <3>1. /\ streak' = IF streak = 2 THEN 2 ELSE streak + 1
          /\ confirmations' = IF confirmations = 2 THEN 2 ELSE confirmations + 1
      BY <2>1, <2>4, Counts, UpToTwo
    <3>2. streak > 0 => started <= observed.serial + 1
      BY <2>1 DEF EvidenceInv, ScrapeInv
    <3>3. OwnOperation => streak <= confirmations \/ observed.serial <= confirmations
      BY DEF EvidenceInv, CountInv
    <3>4. OwnOperation => streak' <= confirmations' \/ observed'.serial <= confirmations'
      BY <3>1, <3>2, <3>3, <2>2, Counts
    <3> QED BY <3>4, <2>2, <2>3, <1>1, <1>2 DEF EvidenceInv, CountInv
  <2>5. CASE ~(engine = "idle" /\ scrape.sinceClosed)
    <3>1. OwnOperation => streak' <= confirmations' \/ observed'.serial <= confirmations'
      BY <2>1, <2>2, <2>5, Counts DEF EvidenceInv, CountInv
    <3> QED BY <3>1, <2>2, <2>3, <1>1, <1>2 DEF EvidenceInv, CountInv
  <2> QED BY <2>4, <2>5
<1>5. CASE RecordMetricsFailure
  <2>1. scrape'.busy = FALSE /\ streak' = 0 /\ confirmations' = 0
    BY <1>5 DEF RecordMetricsFailure, NoScrape
  <2>2. ScrapeInv' /\ CountInv'
    BY <2>1 DEF ScrapeInv, CountInv
  <2> QED BY <1>1, <2>2 DEF EvidenceInv
<1>6. CASE TelemetryGoesStale
  <2>1. observed'.serial = observed.serial /\ UNCHANGED <<started, scrape, streak, confirmations>>
    BY <1>6 DEF TelemetryGoesStale, TypeOK, TelemetryTypeOK, ObservationType
  <2>2. ScrapeInv' /\ CountInv'
    BY <2>1, <1>2 DEF EvidenceInv, ScrapeInv, CountInv
  <2> QED BY <1>1, <2>2 DEF EvidenceInv
<1> QED BY <1>3, <1>4, <1>5, <1>6

(* A change of the mode while no operation of its own closing is under     *)
(* way, or between closed modes, disturbs no count.                        *)
LEMMA SetModeKeepsCounts ==
  ASSUME TypeOK, EvidenceInv, NEW m \in BackendMode, SetMode(m) \/ (KeepMode /\ m = mode),
         UNCHANGED <<started, observed, streak>>, OwnOperation' => OwnOperation
  PROVE  ScrapeInv' /\ CountInv' /\ mode' = m
<1>1. scrape'.busy = scrape.busy /\ scrape'.serial = scrape.serial
  BY DEF SetMode, KeepMode, TypeOK, TelemetryTypeOK, ScrapeType
<1>2. ScrapeInv'
  BY <1>1 DEF EvidenceInv, ScrapeInv
<1>3. OwnOperation => UNCHANGED <<scrape, confirmations>>
  BY DEF SetMode, KeepMode, EvidenceInv, GateInv
<1>4. CountInv'
  BY <1>3 DEF EvidenceInv, CountInv
<1>5. mode' = m
  BY DEF SetMode, KeepMode
<1> QED BY <1>2, <1>4, <1>5

(* Steps that leave telemetry and gate alone: only the lock and the        *)
(* operation are to be looked at.                                          *)
LEMMA QuietKeepsCounts ==
  ASSUME EvidenceInv, UNCHANGED telemetry, UNCHANGED confirmations,
         OwnOperation' => OwnOperation
  PROVE  ScrapeInv' /\ CountInv'
  BY DEF EvidenceInv, ScrapeInv, CountInv

(* A handler's first step.                                                 *)
LEMMA BeginKeepsEvidence ==
  ASSUME TypeOK, EvidenceInv,
         BeginDrain \/ BeginActivate \/ BeginReload
            \/ \E cmd \in {"disable", "force"} : BeginDisable(cmd)
  PROVE  EvidenceInv'
<1>1. op' = op
  BY DEF BeginDrain, BeginActivate, BeginReload, BeginDisable
<1>2. OwnOperation' <=> OwnOperation
  BY <1>1 DEF OwnOperation
<1>3. lifecycle'.cmd # "driver" /\ lifecycle'.before = mode
  BY DEF BeginDrain, BeginActivate, BeginReload, BeginDisable, Lock
<1>4. DriverInv'
  BY <1>3 DEF DriverInv
<1>5. CASE BeginDrain
  <2>1. ScrapeInv' /\ CountInv' /\ mode' = "Draining"
    BY <1>5, <1>2, SetModeKeepsCounts DEF BeginDrain, BackendMode
  <2>2. GateInv'
    BY <1>2, <1>3, <2>1 DEF EvidenceInv, GateInv
  <2> QED BY <1>4, <2>1, <2>2 DEF EvidenceInv
<1>6. CASE BeginActivate \/ BeginReload \/ \E cmd \in {"disable", "force"} : BeginDisable(cmd)
  <2>1. UNCHANGED telemetry /\ UNCHANGED <<mode, confirmations>>
    BY <1>6 DEF BeginActivate, BeginReload, BeginDisable
  <2>2. ScrapeInv' /\ CountInv'
    BY <2>1, <1>2, QuietKeepsCounts
  <2>3. GateInv'
    BY <1>2, <1>3, <2>1 DEF EvidenceInv, GateInv
  <2> QED BY <1>4, <2>2, <2>3 DEF EvidenceInv
<1> QED BY <1>5, <1>6

(* A handler's later steps that leave the operation alone.                 *)
LEMMA HandlersKeepEvidence ==
  ASSUME TypeOK, EvidenceInv,
         PersistDrain \/ PersistActivate \/ PersistDisable \/ CloseGate \/ ApplyReload
  PROVE  EvidenceInv'
<1>1. op' = op /\ lifecycle.cmd # "driver"
  BY DEF PersistDrain, PersistActivate, PersistDisable, CloseGate, ApplyReload, Holds
<1>2. OwnOperation' <=> OwnOperation
  BY <1>1 DEF OwnOperation
<1>3. /\ lifecycle'.cmd \in {lifecycle.cmd, "none"}
      /\ lifecycle'.step # "persist"
  BY DEF PersistDrain, PersistActivate, PersistDisable, CloseGate, ApplyReload,
         Goto, Unlock, Free, TypeOK, ControlTypeOK, LifecycleType
<1>4. DriverInv'
  BY <1>1, <1>3 DEF DriverInv
<1>5. ScrapeInv' /\ CountInv' /\ (OwnOperation => mode' # "Active")
  <2>1. CASE PersistDrain
    <3>1. \/ KeepMode
          \/ SetMode(lifecycle.before)
      BY <2>1 DEF PersistDrain
    <3>2. lifecycle.before \in BackendMode /\ mode \in BackendMode
      BY DEF TypeOK, ControlTypeOK, LifecycleType
    <3>3. UNCHANGED <<started, observed, streak>> /\ Holds("drain", "persist")
      BY <2>1 DEF PersistDrain
    <3>4. CASE KeepMode
      BY <3>2, <3>3, <3>4, <1>2, SetModeKeepsCounts DEF EvidenceInv, GateInv
    <3>5. CASE SetMode(lifecycle.before)
      BY <3>2, <3>3, <3>5, <1>2, SetModeKeepsCounts DEF EvidenceInv, GateInv
    <3> QED BY <3>1, <3>4, <3>5
  <2>2. CASE PersistActivate \/ PersistDisable
    <3>1. UNCHANGED telemetry /\ UNCHANGED <<mode, confirmations>>
      BY <2>2 DEF PersistActivate, PersistDisable
    <3> QED BY <3>1, <1>2, QuietKeepsCounts DEF EvidenceInv, GateInv
  <2>3. CASE CloseGate
    BY <2>3, <1>2, SetModeKeepsCounts DEF CloseGate, BackendMode
  <2>4. CASE ApplyReload
    <3>1. \/ KeepMode
          \/ memory # "Active" /\ SetMode(memory)
      BY <2>4 DEF ApplyReload
    <3>2. memory \in BackendMode /\ mode \in BackendMode
      BY DEF TypeOK, ControlTypeOK
    <3>3. UNCHANGED <<started, observed, streak>>
      BY <2>4 DEF ApplyReload
    <3>4. CASE KeepMode
      BY <3>2, <3>3, <3>4, <1>2, SetModeKeepsCounts DEF EvidenceInv, GateInv
    <3>5. CASE memory # "Active" /\ SetMode(memory)
      BY <3>2, <3>3, <3>5, <1>2, SetModeKeepsCounts
    <3> QED BY <3>1, <3>4, <3>5
  <2> QED BY <2>1, <2>2, <2>3, <2>4
<1>6. GateInv'
  BY <1>2, <1>3, <1>5 DEF GateInv, Holds
<1> QED BY <1>4, <1>5, <1>6 DEF EvidenceInv

(* A new operation starts counting from nothing, behind a closed gate.     *)
LEMMA EnsureKeepsEvidence ==
  ASSUME TypeOK, EvidenceInv, EnsureDrainOperation PROVE EvidenceInv'
<1>1. /\ lifecycle'.cmd = "none" /\ UNCHANGED <<mode, streak, confirmations>>
  BY DEF EnsureDrainOperation, Unlock, Free
<1>2. DriverInv'
  BY <1>1 DEF DriverInv
<1>3. CASE mode = "Draining" /\ op.phase # "Draining"
  <2>1. /\ started' = 0 /\ scrape' = [scrape EXCEPT !.serial = 0]
        /\ observed' = [observed EXCEPT !.serial = 0]
    BY <1>3 DEF EnsureDrainOperation
  <2>2. scrape'.serial = 0 /\ observed'.serial = 0 /\ scrape'.busy = scrape.busy
    BY <2>1 DEF TypeOK, TelemetryTypeOK, ScrapeType, ObservationType
  <2>3. ScrapeInv' /\ CountInv'
    BY <2>1, <2>2, <1>1, Counts DEF ScrapeInv, CountInv
  <2>4. GateInv'
    BY <1>1, <1>3 DEF GateInv, Holds
  <2> QED BY <1>2, <2>3, <2>4 DEF EvidenceInv
<1>4. CASE ~(mode = "Draining" /\ op.phase # "Draining")
  <2>1. /\ UNCHANGED <<started, scrape, observed>>
        /\ op'.phase = op.phase /\ op'.outlived = op.outlived
    BY <1>4 DEF EnsureDrainOperation, TypeOK, ControlTypeOK, OperationType
  <2>2. OwnOperation' <=> OwnOperation
    BY <2>1 DEF OwnOperation
  <2>3. ScrapeInv' /\ CountInv'
    BY <2>1, <2>2, <1>1, QuietKeepsCounts
  <2>4. GateInv'
    BY <2>2, <1>1 DEF EvidenceInv, GateInv, Holds
  <2> QED BY <1>2, <2>3, <2>4 DEF EvidenceInv
<1> QED BY <1>3, <1>4

(* Opening the gate ends whatever operation was counting.                  *)
LEMMA OpenKeepsEvidence ==
  ASSUME TypeOK, EvidenceInv, OpenGate PROVE EvidenceInv'
<1>1. /\ op' = [op EXCEPT !.outlived = op.phase = "Draining"]
      /\ lifecycle'.cmd = "none"
  BY DEF OpenGate, Unlock, Free
<1>2. ~OwnOperation'
  BY <1>1 DEF OwnOperation, TypeOK, ControlTypeOK, OperationType
<1>3. ScrapeInv' /\ CountInv'
  BY <1>2, SetModeKeepsCounts DEF OpenGate, BackendMode
<1> QED BY <1>1, <1>2, <1>3 DEF EvidenceInv, DriverInv, GateInv

(* The driver takes the lock with all the evidence it needs.               *)
LEMMA DriverKeepsEvidence ==
  ASSUME TypeOK, EvidenceInv,
         DriveTick \/ DrivePublish \/ DriveConfirm \/ DrivePersist \/ DriveClose
  PROVE  EvidenceInv'
<1>1. CASE DriveTick
  <2>1. /\ UNCHANGED telemetry /\ UNCHANGED <<mode, lifecycle, confirmations>>
        /\ op.phase = "Draining" /\ op.pc = "tick" /\ op'.outlived = op.outlived
    BY <1>1 DEF DriveTick, TypeOK, ControlTypeOK, OperationType
  <2>2. OwnOperation' => OwnOperation
    BY <2>1 DEF OwnOperation
  <2>3. ScrapeInv' /\ CountInv'
    BY <2>1, <2>2, QuietKeepsCounts
  <2>4. DriverInv' /\ GateInv'
    BY <2>1, <2>2 DEF EvidenceInv, DriverInv, GateInv, Holds
  <2> QED BY <2>3, <2>4 DEF EvidenceInv
<1>2. CASE DriveConfirm
  <2>1. /\ UNCHANGED telemetry /\ UNCHANGED <<mode, confirmations>>
        /\ lifecycle = Free /\ op.phase = "Draining" /\ op.pc = "confirm"
        /\ op'.phase = op.phase /\ op'.outlived = op.outlived
    BY <1>2 DEF DriveConfirm, TypeOK, ControlTypeOK, OperationType
  <2>2. OwnOperation' <=> OwnOperation
    BY <2>1 DEF OwnOperation
  <2>3. ScrapeInv' /\ CountInv'
    BY <2>1, <2>2, QuietKeepsCounts
  <2>4. CASE mode = "Draining" /\ Drained
    <3>1. /\ lifecycle' = [cmd |-> "driver", step |-> "persist", before |-> mode]
          /\ op'.evidence = confirmations /\ op'.pc = op.pc
      BY <1>2, <2>4 DEF DriveConfirm, Lock, TypeOK, ControlTypeOK, OperationType
    <3>2. streak = 2 /\ observed.serial = 2
      BY <2>4, Counts DEF Drained, Confirmations
    <3>3. OwnOperation => confirmations = Confirmations
      BY <3>2, Counts DEF EvidenceInv, CountInv, Confirmations
    <3>4. DriverInv'
      BY <3>1, <3>3, <2>1 DEF DriverInv, OwnOperation
    <3>5. GateInv'
      BY <3>1, <2>1, <2>2 DEF EvidenceInv, GateInv, Holds
    <3> QED BY <3>4, <3>5, <2>3 DEF EvidenceInv
  <2>5. CASE ~(mode = "Draining" /\ Drained)
    <3>1. lifecycle' = Free
      BY <1>2, <2>5, <2>1 DEF DriveConfirm
    <3> QED BY <3>1, <2>1, <2>2, <2>3 DEF EvidenceInv, DriverInv, GateInv, Holds, Free
  <2> QED BY <2>4, <2>5
<1>3. CASE DrivePersist
  <2>1. /\ UNCHANGED telemetry /\ UNCHANGED <<mode, confirmations>>
        /\ \/ op' = op /\ Goto("close")
           \/ Unlock /\ op' = Ended("Failed")
    BY <1>3 DEF DrivePersist
  <2>2. \/ op' = op /\ lifecycle'.cmd = lifecycle.cmd /\ lifecycle'.step = "close"
        \/ op'.phase = "Failed" /\ lifecycle'.cmd = "none"
    BY <2>1, EndedFacts DEF Goto, Unlock, Free, TypeOK, ControlTypeOK, LifecycleType
  <2>3. OwnOperation' => OwnOperation
    BY <2>2 DEF OwnOperation
  <2>4. ScrapeInv' /\ CountInv'
    BY <2>1, <2>3, QuietKeepsCounts
  <2>5. DriverInv' /\ GateInv'
    BY <2>1, <2>2, <2>3 DEF EvidenceInv, DriverInv, GateInv, Holds
  <2> QED BY <2>4, <2>5 DEF EvidenceInv
<1>4. CASE DriveClose
  <2>1. op'.phase = "Complete" /\ lifecycle'.cmd = "none"
    BY <1>4, EndedFacts DEF DriveClose, Unlock, Free
  <2>2. ~OwnOperation'
    BY <2>1 DEF OwnOperation
  <2>3. ScrapeInv' /\ CountInv'
    BY <1>4, <2>2, SetModeKeepsCounts DEF DriveClose, BackendMode
  <2> QED BY <2>1, <2>2, <2>3 DEF EvidenceInv, DriverInv, GateInv
<1>5. CASE DrivePublish
  <2>1. /\ UNCHANGED telemetry /\ UNCHANGED <<mode, lifecycle, confirmations>>
        /\ op.pc # "confirm" /\ op'.phase # "Draining"
    BY <1>5, EndedFacts DEF DrivePublish
  <2>2. ~OwnOperation'
    BY <2>1 DEF OwnOperation
  <2>3. ScrapeInv' /\ CountInv'
    BY <2>1, <2>2, QuietKeepsCounts
  <2>4. DriverInv' /\ GateInv'
    BY <2>1, <2>2 DEF EvidenceInv, DriverInv, GateInv
  <2> QED BY <2>3, <2>4 DEF EvidenceInv
<1> QED BY <1>1, <1>2, <1>3, <1>4, <1>5

(* A restart begins without telemetry, and resumes a drain behind its      *)
(* fence.                                                                  *)
LEMMA RestartKeepsEvidence == ASSUME Restart PROVE EvidenceInv'
<1>1. /\ lifecycle' = Free /\ mode' = disk
      /\ op'.phase = "Draining" => disk = "Draining"
      /\ scrape'.busy = FALSE /\ streak' = 0 /\ confirmations' = 0
  BY DEF Restart, NewOperation, NoOperation, NoScrape
<1>2. DriverInv' /\ GateInv'
  BY <1>1 DEF DriverInv, GateInv, OwnOperation, Holds, Free
<1>3. ScrapeInv' /\ CountInv'
  BY <1>1 DEF ScrapeInv, CountInv
<1> QED BY <1>2, <1>3 DEF EvidenceInv

(* Every step keeps the evidence of an operation.                          *)
LEMMA NextKeepsEvidence == TypeOK /\ EvidenceInv /\ [Next]_vars => EvidenceInv'
<1> SUFFICES ASSUME TypeOK, EvidenceInv, [Next]_vars PROVE EvidenceInv'
  OBVIOUS
<1>1. CASE UNCHANGED vars \/ EngineChanges \/ \E r \in Requests : Acquire(r) \/ Release(r)
  <2>1. UNCHANGED telemetry /\ UNCHANGED <<mode, lifecycle, op, confirmations>>
    BY <1>1 DEF EngineChanges, Acquire, Release
  <2>2. OwnOperation' <=> OwnOperation
    BY <2>1 DEF OwnOperation
  <2>3. ScrapeInv' /\ CountInv'
    BY <2>1, <2>2, QuietKeepsCounts
  <2> QED BY <2>1, <2>2, <2>3 DEF EvidenceInv, DriverInv, GateInv, Holds
<1>2. CASE BeginMetricsScrape \/ RecordMetricsSuccess \/ RecordMetricsFailure \/ TelemetryGoesStale
  BY <1>2, TelemetryKeepsEvidence
<1>3. CASE BeginDrain \/ BeginActivate \/ BeginReload
             \/ \E cmd \in {"disable", "force"} : BeginDisable(cmd)
  BY <1>3, BeginKeepsEvidence
<1>4. CASE PersistDrain \/ PersistActivate \/ PersistDisable \/ CloseGate \/ ApplyReload
  BY <1>4, HandlersKeepEvidence
<1>5. CASE EnsureDrainOperation
  BY <1>5, EnsureKeepsEvidence
<1>6. CASE OpenGate
  BY <1>6, OpenKeepsEvidence
<1>7. CASE DriveTick \/ DrivePublish \/ DriveConfirm \/ DrivePersist \/ DriveClose
  BY <1>7, DriverKeepsEvidence
<1>8. CASE Restart
  BY <1>8, RestartKeepsEvidence
<1> QED BY <1>1, <1>2, <1>3, <1>4, <1>5, <1>6, <1>7, <1>8 DEF Next, Handlers

(* drive_drain certifies on two idle scrapes that were both begun after    *)
(* the gate closed, unless its operation is older than that closing: for   *)
(* every number of requests and crashes, and torn saves included.          *)
THEOREM OwnEvidenceHolds == Spec => []OwnEvidenceIsFresh
<1>1. EvidenceInv => OwnEvidenceIsFresh
  BY DEF EvidenceInv, DriverInv, OwnEvidenceIsFresh
<1> QED BY <1>1, TypeCorrect, InitEvidence, NextKeepsEvidence, PTL DEF Spec

-----------------------------------------------------------------------------
(* Apart from admissions and certificates, a step only lets requests go    *)
(* and certificates lapse.                                                 *)
LEMMA OtherStepsOnlyWithdraw ==
  ASSUME [Next]_vars, ~DriveClose, \A r \in Requests : ~Acquire(r)
  PROVE  leases' \in SUBSET leases /\ certified' \in {certified, FALSE}
<1>1. CASE UNCHANGED vars
  BY <1>1
<1>2. CASE \E r \in Requests : Release(r)
  BY <1>2 DEF Release
<1>3. CASE \/ BeginMetricsScrape \/ RecordMetricsSuccess \/ RecordMetricsFailure
           \/ TelemetryGoesStale \/ EngineChanges
  BY <1>3 DEF BeginMetricsScrape, RecordMetricsSuccess, RecordMetricsFailure,
              TelemetryGoesStale, EngineChanges
<1>4. CASE BeginDrain \/ BeginActivate \/ BeginReload
  BY <1>4 DEF BeginDrain, BeginActivate, BeginReload
<1>5. CASE \E cmd \in {"disable", "force"} : BeginDisable(cmd)
  BY <1>5 DEF BeginDisable
<1>6. CASE Handlers
  BY <1>6 DEF Handlers, PersistDrain, EnsureDrainOperation, PersistActivate, OpenGate,
              PersistDisable, CloseGate, ApplyReload, DrivePersist
<1>7. CASE DriveTick \/ DrivePublish \/ DriveConfirm \/ Restart
  BY <1>7 DEF DriveTick, DrivePublish, DriveConfirm, Restart
<1> QED BY <1>1, <1>2, <1>3, <1>4, <1>5, <1>6, <1>7 DEF Next

LEMMA StepSimulation ==
  ASSUME NoTornSave, Inv, [Next]_vars
  PROVE  Promise!PromiseNext \/ UNCHANGED Promise!promiseVars
<1> USE DEF Promise!PromiseNext
<1>1. ASSUME NEW r \in Requests, Acquire(r) PROVE Promise!PromiseNext
  BY <1>1 DEF Acquire, Promise!Admit
<1>2. CASE DriveClose
  <2>1. /\ mode = "Draining" /\ leases = {} /\ mode' = "Disabled"
        /\ certified' = TRUE /\ leases' = leases
    BY <1>2, ModeHelpers DEF DriveClose, Inv, Core, LockInv, Holds, Free
  <2> QED BY <2>1 DEF Promise!Certify
<1>3. CASE ~DriveClose /\ \A r \in Requests : ~Acquire(r)
  <2>1. leases' \in SUBSET leases /\ certified' \in {certified, FALSE}
    BY <1>3, OtherStepsOnlyWithdraw
  <2>2. CASE certified' = FALSE
    BY <2>1, <2>2 DEF Promise!Withdraw
  <2>3. CASE certified' # FALSE
    <3>1. certified' = certified /\ certified' = TRUE
      BY <2>1, <2>3 DEF Inv, TypeOK, ControlTypeOK
    <3>2. mode' # "Active"
      BY <3>1, NextKeepsInv DEF Inv, Core, CertificateInv
    <3> QED BY <2>1, <3>1, <3>2 DEF Promise!Close
  <2> QED BY <2>2, <2>3
<1> QED BY <1>1, <1>2, <1>3

(* The control plane keeps the drain promise, crashes included: every step *)
(* is one of DrainPromise or leaves its variables alone.                   *)
THEOREM ControlImplementsPromise == NoTornSave => (Spec => ImplementsDrainPromise)
<1> SUFFICES ASSUME NoTornSave PROVE Spec => ImplementsDrainPromise
  OBVIOUS
<1>1. Init => Promise!PromiseInit
  BY DEF Init, Promise!PromiseInit
<1>2. Inv /\ [Next]_vars => [Promise!PromiseNext]_(Promise!promiseVars)
  BY StepSimulation
<1> QED
  BY <1>1, <1>2, InvHolds, PTL
  DEF Spec, ImplementsDrainPromise, Promise!PromiseSpec
=============================================================================
