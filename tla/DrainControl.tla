--------------------------- MODULE DrainControl ---------------------------
(***************************************************************************)
(* The control plane of one backend: the handlers of src/control.rs, the   *)
(* drain driver they start, the durable mode file of src/backend_state.rs  *)
(* and the telemetry the driver decides by, around the slot's gate.        *)
(*                                                                         *)
(* Handlers and the driver's last phase run under the async lifecycle lock;*)
(* inside it, every change of the gate and every write of the file is a    *)
(* step of its own, between which requests come and go, scrapes complete   *)
(* and the proxy may crash.  The slot's operations are atomic, as in       *)
(* BackendSlot.                                                            *)
(*                                                                         *)
(* Scrape serials are counted from the operation's                         *)
(* metrics_scrapes_started_at_start and, with the idle streak, capped at   *)
(* Confirmations: the driver only ever asks whether the smaller of the two *)
(* has reached it.  What the engine does is the environment's choice, and  *)
(* so is whether a probe finds it ready.                                   *)
(***************************************************************************)
EXTENDS Integers

CONSTANTS Requests,         \* requests that may be in flight at once
          Commands,         \* the operator commands of this instance
          SaveOutcomes,     \* how save_file may end
          MaxCrashes        \* bound on the number of crashes

ASSUME ControlAssumption ==
    /\ Commands \subseteq {"drain", "activate", "disable", "force", "reload"}
    /\ SaveOutcomes \subseteq {"saved", "failed", "torn"}
    /\ MaxCrashes \in Nat

VARIABLES
    mode,           \* the slot's mode
    leases,         \* the requests that hold one of the slot's leases
    memory, disk,   \* BackendStateStore's view and the file; "Active" is no entry
    lifecycle,      \* who holds the lifecycle lock, and what it does next
    op,             \* the latest drain operation and its driver; history: the idle
                    \* scrapes it was confirmed by, whether the gate has been open
                    \* since it began, and whether a drain joined it too late
    started,        \* scrapes begun since the operation began
    scrape,         \* the telemetry worker's scrape in flight
    observed,       \* the last good observation: idle, serial, fresh
    streak,         \* engine_idle_streak
    engine,         \* environment: "idle", "busy" or "down"
    crashes,
    certified,      \* history: a drain was confirmed, and not yet activated again
    confirmations   \* history: idle scrapes in a row begun since the gate closed

telemetry == <<started, scrape, observed, streak>>
vars == <<mode, leases, memory, disk, lifecycle, op, telemetry, engine, crashes,
          certified, confirmations>>

BackendMode == {"Active", "Draining", "Disabled"}
Confirmations == 2

Free == [cmd |-> "none", step |-> "free", before |-> "Active"]
NoScrape == [busy |-> FALSE, serial |-> 0, sinceClosed |-> FALSE]
NoObservation == [idle |-> FALSE, serial |-> 0, fresh |-> FALSE]
NoOperation == [phase |-> "none", pc |-> "tick", evidence |-> 0, outlived |-> FALSE,
                late |-> FALSE]
NewOperation == [NoOperation EXCEPT !.phase = "Draining"]

(* The driver has published its last phase and returned.                   *)
Ended(phase) == [NoOperation EXCEPT !.phase = phase, !.late = op.late]

UpTo(n) == IF n >= Confirmations THEN Confirmations ELSE n

-----------------------------------------------------------------------------
Init ==
    /\ mode = "Active" /\ memory = "Active" /\ disk = "Active"
    /\ leases = {}
    /\ lifecycle = Free
    /\ op = NoOperation
    /\ started = 0 /\ scrape = NoScrape /\ observed = NoObservation /\ streak = 0
    /\ engine = "idle"
    /\ crashes = 0
    /\ certified = FALSE
    /\ confirmations = 0

-----------------------------------------------------------------------------
(* Requests: select() and try_acquire; the end of the response, or of the  *)
(* client's patience.                                                      *)
Acquire(r) ==
    /\ mode = "Active"
    /\ r \notin leases
    /\ leases' = leases \cup {r}
    /\ UNCHANGED <<mode, memory, disk, lifecycle, op, telemetry, engine, crashes,
                   certified, confirmations>>

Release(r) ==
    /\ r \in leases
    /\ leases' = leases \ {r}
    /\ UNCHANGED <<mode, memory, disk, lifecycle, op, telemetry, engine, crashes,
                   certified, confirmations>>

-----------------------------------------------------------------------------
(* The telemetry worker keeps one scrape of a backend in flight.           *)
BeginMetricsScrape ==
    /\ ~scrape.busy
    /\ started' = UpTo(started + 1)
    /\ scrape' = [busy |-> TRUE, serial |-> started', sinceClosed |-> mode # "Active"]
    /\ UNCHANGED <<mode, leases, memory, disk, lifecycle, op, observed, streak, engine,
                   crashes, certified, confirmations>>

RecordMetricsSuccess ==
    /\ scrape.busy /\ engine # "down"
    /\ scrape' = NoScrape
    /\ observed' = [idle |-> engine = "idle", serial |-> scrape.serial, fresh |-> TRUE]
    /\ streak' = IF engine = "idle" THEN UpTo(streak + 1) ELSE 0
    /\ confirmations' = IF engine = "idle" /\ scrape.sinceClosed
                        THEN UpTo(confirmations + 1) ELSE 0
    /\ UNCHANGED <<mode, leases, memory, disk, lifecycle, op, started, engine, crashes,
                   certified>>

(* A failed scrape keeps the last observation and ends the idle streak.    *)
RecordMetricsFailure ==
    /\ scrape.busy /\ engine = "down"
    /\ scrape' = NoScrape
    /\ streak' = 0
    /\ confirmations' = 0
    /\ UNCHANGED <<mode, leases, memory, disk, lifecycle, op, started, observed, engine,
                   crashes, certified>>

(* stale_after_ms pass without a good scrape: an engine that is down, or   *)
(* too busy to answer in time.                                             *)
TelemetryGoesStale ==
    /\ engine # "idle" /\ observed.fresh
    /\ observed' = [observed EXCEPT !.fresh = FALSE]
    /\ UNCHANGED <<mode, leases, memory, disk, lifecycle, op, started, scrape, streak,
                   engine, crashes, certified, confirmations>>

EngineChanges ==
    /\ engine' \in {"idle", "busy", "down"} \ {engine}
    /\ UNCHANGED <<mode, leases, memory, disk, lifecycle, op, telemetry, crashes,
                   certified, confirmations>>

-----------------------------------------------------------------------------
(* The slot takes mode m.  Closing the gate outdates, for the history, the *)
(* idle observations made so far and the scrape in flight.                 *)
SetMode(m) ==
    /\ mode' = m
    /\ IF mode = "Active" /\ m # "Active"
       THEN /\ confirmations' = 0
            /\ scrape' = [scrape EXCEPT !.sinceClosed = FALSE]
       ELSE UNCHANGED <<confirmations, scrape>>

KeepMode == UNCHANGED <<mode, confirmations, scrape>>

(* BackendStateStore::set_mode.  An error puts the old view back; when the *)
(* directory sync after the rename is what failed ("torn"), the file has   *)
(* the new contents all the same.                                          *)
Save(m, outcome) ==
    /\ memory' = IF outcome = "saved" THEN m ELSE memory
    /\ disk' = IF outcome = "failed" THEN disk ELSE m

Holds(cmd, step) == lifecycle.cmd = cmd /\ lifecycle.step = step
Lock(cmd, step) == lifecycle' = [cmd |-> cmd, step |-> step, before |-> mode]
Goto(step) == lifecycle' = [lifecycle EXCEPT !.step = step]
Unlock == lifecycle' = Free

-----------------------------------------------------------------------------
(* POST /backends/{id}/drain: close the gate, persist the fence, make sure *)
(* an operation drives the drain.  A drain under way is joined.            *)
BeginDrain ==
    /\ "drain" \in Commands /\ lifecycle = Free
    /\ SetMode("Draining")
    /\ Lock("drain", IF mode = "Draining" THEN "ensure" ELSE "persist")
    /\ UNCHANGED <<leases, memory, disk, op, started, observed, streak, engine, crashes,
                   certified>>

(* Mutant: an error leaves the gate closed and unfenced.                   *)
PersistDrainNoRollback ==
    /\ Holds("drain", "persist")
    /\ \E o \in SaveOutcomes :
        /\ Save("Draining", o)
        /\ KeepMode
        /\ IF o = "saved" THEN Goto("ensure") ELSE Unlock
    /\ UNCHANGED <<leases, op, started, observed, streak, engine, crashes, certified>>

PersistDrain ==
    /\ Holds("drain", "persist")
    /\ \E o \in SaveOutcomes :
        /\ Save("Draining", o)
        /\ IF o = "saved" THEN KeepMode /\ Goto("ensure")
                          ELSE SetMode(lifecycle.before) /\ Unlock
    /\ UNCHANGED <<leases, op, started, observed, streak, engine, crashes, certified>>

(* A drain joins an operation whose driver has made up its mind to end it. *)
JoinedLate == mode = "Draining" /\ op.pc \in {"disabled", "superseded"}

(* Mutant: the new operation counts from the observation, not from the     *)
(* scrapes begun.                                                          *)
EnsureDrainOperationLate ==
    /\ lifecycle.step = "ensure"
    /\ IF mode = "Draining" /\ op.phase # "Draining"
       THEN /\ op' = NewOperation
            /\ UNCHANGED <<started, scrape, observed>>
       ELSE /\ op' = [op EXCEPT !.late = @ \/ JoinedLate]
            /\ UNCHANGED <<started, scrape, observed>>
    /\ Unlock
    /\ UNCHANGED <<mode, leases, memory, disk, streak, engine, crashes, certified,
                   confirmations>>

(* ensure_drain_operation (and resume_persisted_drains after a reload):    *)
(* an operation that is still in phase Draining is reused as it is, though *)
(* its driver may be about to publish the end of it.                       *)
EnsureDrainOperation ==
    /\ lifecycle.step = "ensure"
    /\ IF mode = "Draining" /\ op.phase # "Draining"
       THEN /\ op' = NewOperation
            /\ started' = 0
            /\ scrape' = [scrape EXCEPT !.serial = 0]
            /\ observed' = [observed EXCEPT !.serial = 0]
       ELSE /\ op' = [op EXCEPT !.late = @ \/ JoinedLate]
            /\ UNCHANGED <<started, scrape, observed>>
    /\ Unlock
    /\ UNCHANGED <<mode, leases, memory, disk, streak, engine, crashes, certified,
                   confirmations>>

-----------------------------------------------------------------------------
(* POST /backends/{id}/activate, past its checks: the fence goes first.    *)
BeginActivate ==
    /\ "activate" \in Commands /\ lifecycle = Free
    /\ mode = "Disabled" /\ observed.fresh
    /\ Lock("activate", "persist")
    /\ UNCHANGED <<mode, leases, memory, disk, op, telemetry, engine, crashes, certified,
                   confirmations>>

PersistActivate ==
    /\ Holds("activate", "persist")
    /\ \E o \in SaveOutcomes :
        /\ Save("Active", o)
        /\ IF o = "saved" THEN Goto("open") /\ certified' = FALSE
                          ELSE Unlock /\ UNCHANGED certified
    /\ UNCHANGED <<mode, leases, op, telemetry, engine, crashes, confirmations>>

OpenGate ==
    /\ Holds("activate", "open")
    /\ SetMode("Active") /\ Unlock
    /\ op' = [op EXCEPT !.outlived = op.phase = "Draining"]
    /\ UNCHANGED <<leases, memory, disk, started, observed, streak, engine, crashes,
                   certified>>

(* POST /backends/{id}/disable: refused with requests in flight, unless    *)
(* forced; the fence is written before the gate closes.                    *)
BeginDisable(cmd) ==
    /\ cmd \in Commands /\ lifecycle = Free
    /\ mode # "Disabled"
    /\ cmd = "force" \/ leases = {}
    /\ Lock(cmd, "persist")
    /\ UNCHANGED <<mode, leases, memory, disk, op, telemetry, engine, crashes, certified,
                   confirmations>>

PersistDisable ==
    /\ lifecycle.cmd \in {"disable", "force"} /\ lifecycle.step = "persist"
    /\ \E o \in SaveOutcomes :
        /\ Save("Disabled", o)
        /\ IF o = "saved" THEN Goto("close") ELSE Unlock
    /\ UNCHANGED <<mode, leases, op, telemetry, engine, crashes, certified, confirmations>>

CloseGate ==
    /\ lifecycle.cmd \in {"disable", "force"} /\ lifecycle.step = "close"
    /\ SetMode("Disabled") /\ Unlock
    /\ UNCHANGED <<leases, memory, disk, op, started, observed, streak, engine, crashes,
                   certified>>

(* POST /runtime/reload: the file is read under the lock (and may be       *)
(* refused); then stored fences are reasserted on the slot.                *)
BeginReload ==
    /\ "reload" \in Commands /\ lifecycle = Free
    /\ Lock("reload", "apply")
    /\ UNCHANGED <<mode, leases, memory, disk, op, telemetry, engine, crashes, certified,
                   confirmations>>

ApplyReload ==
    /\ Holds("reload", "apply")
    /\ \/ /\ IF memory = "Active" THEN KeepMode ELSE SetMode(memory)
          /\ Goto("ensure")
       \/ KeepMode /\ Unlock
    /\ UNCHANGED <<leases, memory, disk, op, started, observed, streak, engine, crashes,
                   certified>>

-----------------------------------------------------------------------------
(* drive_drain.                                                            *)

(* Mutant: the proxy's own requests are not looked at.                     *)
DrainedEngineOnly ==
    /\ observed.fresh /\ observed.idle
    /\ streak >= Confirmations /\ observed.serial >= Confirmations

(* Nothing in flight here, and fresh telemetry that the engine has been    *)
(* idle on enough scrapes begun since the operation began.                 *)
Drained ==
    /\ leases = {}
    /\ observed.fresh /\ observed.idle
    /\ streak >= Confirmations /\ observed.serial >= Confirmations

(* One turn of the loop reads the status, without the lock; "not yet" is a *)
(* stuttering step and a sleep.                                            *)
DriveTick ==
    /\ op.phase = "Draining" /\ op.pc = "tick"
    /\ \/ /\ mode # "Draining"
          /\ op' = [op EXCEPT !.pc = IF mode = "Disabled" THEN "disabled" ELSE "superseded"]
       \/ /\ mode = "Draining" /\ Drained
          /\ op' = [op EXCEPT !.pc = "confirm"]
    /\ UNCHANGED <<mode, leases, memory, disk, lifecycle, telemetry, engine, crashes,
                   certified, confirmations>>

(* What it saw is published later, whatever the mode is by then; the driver*)
(* returns.                                                                *)
DrivePublish ==
    /\ op.phase = "Draining" /\ op.pc \in {"disabled", "superseded"}
    /\ op' = Ended(IF op.pc = "disabled" THEN "Complete" ELSE "Cancelled")
    /\ UNCHANGED <<mode, leases, memory, disk, lifecycle, telemetry, engine, crashes,
                   certified, confirmations>>

(* Mutant: what the tick saw is good enough.                               *)
DriveConfirmBlindly ==
    /\ op.phase = "Draining" /\ op.pc = "confirm" /\ lifecycle = Free
    /\ Lock("driver", "persist")
    /\ op' = [op EXCEPT !.evidence = confirmations]
    /\ UNCHANGED <<mode, leases, memory, disk, telemetry, engine, crashes, certified,
                   confirmations>>

(* The lock may have taken a while: everything is looked at again.         *)
DriveConfirm ==
    /\ op.phase = "Draining" /\ op.pc = "confirm" /\ lifecycle = Free
    /\ IF mode = "Draining" /\ Drained
       THEN /\ Lock("driver", "persist")
            /\ op' = [op EXCEPT !.evidence = confirmations]
       ELSE /\ UNCHANGED lifecycle
            /\ op' = [op EXCEPT !.pc = "tick"]
    /\ UNCHANGED <<mode, leases, memory, disk, telemetry, engine, crashes, certified,
                   confirmations>>

(* Mutant: the operation stays in phase Draining, with nobody driving it.  *)
DrivePersistHang ==
    /\ Holds("driver", "persist")
    /\ \E o \in SaveOutcomes :
        /\ Save("Disabled", o)
        /\ IF o = "saved" THEN Goto("close") /\ UNCHANGED op
                          ELSE Unlock /\ op' = [op EXCEPT !.pc = "gone"]
    /\ UNCHANGED <<mode, leases, telemetry, engine, crashes, certified, confirmations>>

DrivePersist ==
    /\ Holds("driver", "persist")
    /\ \E o \in SaveOutcomes :
        /\ Save("Disabled", o)
        /\ IF o = "saved" THEN Goto("close") /\ UNCHANGED op
                          ELSE Unlock /\ op' = Ended("Failed")
    /\ UNCHANGED <<mode, leases, telemetry, engine, crashes, certified, confirmations>>

DriveClose ==
    /\ Holds("driver", "close")
    /\ SetMode("Disabled") /\ Unlock
    /\ op' = Ended("Complete")
    /\ certified' = TRUE
    /\ UNCHANGED <<leases, memory, disk, started, observed, streak, engine, crashes>>

-----------------------------------------------------------------------------
(* Mutant: persisted drains are not resumed.                               *)
RestartWithoutResume ==
    /\ crashes < MaxCrashes
    /\ crashes' = crashes + 1
    /\ mode' = disk /\ memory' = disk /\ leases' = {}
    /\ lifecycle' = Free
    /\ op' = NoOperation
    /\ started' = 0 /\ scrape' = NoScrape /\ observed' = NoObservation /\ streak' = 0
    /\ confirmations' = 0
    /\ UNCHANGED <<disk, engine, certified>>

(* The proxy dies at any point and is started again: modes are restored    *)
(* from the file before traffic is accepted, persisted drains are resumed. *)
Restart ==
    /\ crashes < MaxCrashes
    /\ crashes' = crashes + 1
    /\ mode' = disk /\ memory' = disk /\ leases' = {}
    /\ lifecycle' = Free
    /\ op' = IF disk = "Draining" THEN NewOperation ELSE NoOperation
    /\ started' = 0 /\ scrape' = NoScrape /\ observed' = NoObservation /\ streak' = 0
    /\ confirmations' = 0
    /\ UNCHANGED <<disk, engine, certified>>

-----------------------------------------------------------------------------
Handlers ==
    \/ PersistDrain \/ EnsureDrainOperation
    \/ PersistActivate \/ OpenGate
    \/ PersistDisable \/ CloseGate
    \/ ApplyReload
    \/ DrivePersist \/ DriveClose

Next ==
    \/ \E r \in Requests : Acquire(r) \/ Release(r)
    \/ BeginMetricsScrape \/ RecordMetricsSuccess \/ RecordMetricsFailure
    \/ TelemetryGoesStale \/ EngineChanges
    \/ BeginDrain \/ BeginActivate \/ BeginReload
    \/ \E cmd \in {"disable", "force"} : BeginDisable(cmd)
    \/ Handlers
    \/ DriveTick \/ DrivePublish \/ DriveConfirm
    \/ Restart

Spec == Init /\ [][Next]_vars

(* Tasks keep running: handlers finish, the driver ticks, the telemetry    *)
(* worker loops, and its HTTP calls end by their timeout.  The lifecycle   *)
(* lock is FIFO (tokio's Mutex), so the driver is not overtaken for ever.  *)
(* Requests end: upstreams answer or clients give up.                      *)
Fairness ==
    /\ WF_vars(Handlers)
    /\ WF_vars(DriveTick) /\ WF_vars(DrivePublish)
    /\ SF_vars(DriveConfirm)
    /\ WF_vars(BeginMetricsScrape)
    /\ WF_vars(RecordMetricsSuccess \/ RecordMetricsFailure)
    /\ \A r \in Requests : WF_vars(Release(r))

FairSpec == Spec /\ Fairness

-----------------------------------------------------------------------------
LifecycleType ==
    [cmd : {"none", "drain", "activate", "disable", "force", "reload", "driver"},
     step : {"free", "persist", "ensure", "open", "close", "apply"},
     before : BackendMode]
OperationType ==
    [phase : {"none", "Draining", "Complete", "Cancelled", "Failed"},
     pc : {"tick", "confirm", "disabled", "superseded"},
     evidence : 0..Confirmations, outlived : BOOLEAN, late : BOOLEAN]
ScrapeType == [busy : BOOLEAN, serial : 0..Confirmations, sinceClosed : BOOLEAN]
ObservationType == [idle : BOOLEAN, serial : 0..Confirmations, fresh : BOOLEAN]

ControlTypeOK ==
    /\ mode \in BackendMode /\ memory \in BackendMode /\ disk \in BackendMode
    /\ leases \in SUBSET Requests
    /\ lifecycle \in LifecycleType
    /\ op \in OperationType
    /\ crashes \in 0..MaxCrashes
    /\ certified \in BOOLEAN

TelemetryTypeOK ==
    /\ started \in 0..Confirmations
    /\ scrape \in ScrapeType /\ observed \in ObservationType
    /\ streak \in 0..Confirmations
    /\ engine \in {"idle", "busy", "down"}
    /\ confirmations \in 0..Confirmations

(* The variables keep the types of the code's fields; every record of the  *)
(* lock and of the operation is one that the handlers can be in.           *)
TypeOK == ControlTypeOK /\ TelemetryTypeOK

(* "safe to stop" stays true: once a drain has been certified the backend  *)
(* holds no request and gets none, through crashes, failed commands and    *)
(* reloads, until an activation has durably removed the fence.             *)
SafeToStop == certified => mode # "Active" /\ leases = {}

(* The file, the store's view and the gate agree whenever no handler is at *)
(* work, so that a crash changes no mode: rollbacks undo exactly what was  *)
(* done.                                                                   *)
FenceMatchesGate == lifecycle = Free => mode = disk /\ memory = disk

(* A driver will look at the mode again, or has told its clients that it   *)
(* failed; or a drain has joined its operation too late.                   *)
Driven ==
    \/ op.phase = "Draining" /\ op.pc \in {"tick", "confirm"}
    \/ op.phase = "Failed"
    \/ op.late

(* A draining backend has a driver, or its operation has failed; unless    *)
(* the drain joined an operation whose driver had already seen the backend *)
(* not draining and was about to publish that: then nobody drives it until *)
(* a drain is asked for once more.                                         *)
DrainIsDriven == lifecycle = Free /\ mode = "Draining" => Driven

(* "Both confirmations must be distinct idle observations made after the   *)
(* acquisition gate closed" (a comment of control.rs).                     *)
CertifiedByFreshEvidence ==
    lifecycle.cmd = "driver" => op.evidence = Confirmations

(* The same, of an operation that began after the gate last closed: scrapes*)
(* in flight when it began, failed scrapes and stale ones do not count.    *)
OwnEvidenceIsFresh ==
    lifecycle.cmd = "driver" /\ ~op.outlived => op.evidence = Confirmations

(* A drain ends: once the engine stays reachable and idle, and operators   *)
(* leave the backend's mode alone (reloads may go on for ever), every      *)
(* operation eventually reports completion, cancellation or failure.       *)
DrainEnds ==
    <>[](engine = "idle" /\ lifecycle.cmd \in {"none", "reload", "driver"})
        => (op.phase = "Draining" ~> op.phase # "Draining")

-----------------------------------------------------------------------------
(* The control plane implements DrainPromise, crashes included.            *)
Promise == INSTANCE DrainPromise WITH
    gateOpen <- mode = "Active", inFlight <- leases, certified <- certified

(* Every behaviour of the control plane is one of DrainPromise.            *)
ImplementsDrainPromise == Promise!PromiseSpec
=============================================================================
