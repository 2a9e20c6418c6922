----------------------------- MODULE AuditLog -----------------------------
(***************************************************************************)
(* The audit log of src/logging.rs and the requests of src/proxy.rs that   *)
(* report to it: admission permits, the bounded event channel, the writer  *)
(* thread with its buffered file, its failure, and run() of src/main.rs,   *)
(* which stops the proxy when the writer is gone or at a signal: it gives  *)
(* the connections a grace period, aborts the rest, waits for the writer a *)
(* bounded time and returns a result.                                      *)
(*                                                                         *)
(* Handlers run on several threads, so every access to the admission       *)
(* counter, the health flag and the channel is a step of its own.  A       *)
(* request is its UUID; what an event carries is left out, and a pending   *)
(* entry or a record is the set of the events that have been merged in it. *)
(* A record counts as written to the file when the buffer is flushed.      *)
(***************************************************************************)
EXTENDS Naturals, Sequences, FiniteSets

CONSTANTS Requests,         \* the requests that may arrive
          RequestSlots,     \* AUDIT_REQUEST_SLOTS
          MaxEvents         \* MAX_EVENTS_PER_REQUEST

VARIABLES
    phase,          \* where each request's handler (then its body) is
    sent,           \* history: the events each request has reported
    admitted,       \* the admission counter
    queue,          \* the sync_channel's contents
    healthy,        \* LogHealthState: the flag
    notified,       \*   and the permit stored in its Notify
    supervisor,     \* where run() is: in wait_until_unhealthy, then stopping
    outcome,        \* the result it will return
    writer,         \* the writer thread
    pending,        \* its map: request to events merged
    written,        \* records in its BufWriter
    flushed         \* records in the file

requestVars == <<phase, sent>>
health == <<healthy, notified>>
writerVars == <<writer, pending, written, flushed>>
runVars == <<supervisor, outcome>>
vars == <<requestVars, admitted, queue, health, runVars, writerVars>>

Kinds == {"start", "routed", "error", "response", "finish"}

(* "One admitted request emits start, route, optional error,               *)
(* response-start, and finish events": as many as the code allows it.      *)
ASSUME AuditAssumption ==
    /\ RequestSlots \in Nat \ {0}
    /\ MaxEvents \in Nat /\ Cardinality(Kinds) <= MaxEvents

(* Mutant: the optional error event is forgotten.                          *)
EventSlotsNoError == RequestSlots * (MaxEvents - 1)

EventSlots == RequestSlots * MaxEvents
Event(r, kind) == [id |-> r, kind |-> kind]
Phases == {"new", "checked", "reserved", "vetted", "open", "routed", "failed", "answered",
           "done", "refused"}

Ended(r) == phase[r] \in {"new", "done", "refused"}
Accepting == supervisor \in {"check", "await", "stopping", "aborting"}
Connected == writer \in {"running", "wedged", "unwinding", "closing"}
NoEntries == [r \in {} |-> {}]

-----------------------------------------------------------------------------
Init ==
    /\ phase = [r \in Requests |-> "new"]
    /\ sent = [r \in Requests |-> {}]
    /\ admitted = 0
    /\ queue = <<>>
    /\ healthy = TRUE /\ notified = FALSE
    /\ supervisor = "check" /\ outcome = "ok"
    /\ writer = "running" /\ pending = NoEntries
    /\ written = {} /\ flushed = {}

-----------------------------------------------------------------------------
(* Mutant: the flag alone.                                                 *)
MarkFailedQuietly == healthy' = FALSE /\ UNCHANGED notified

(* mark_failed: only the first failure wakes the supervisor.               *)
MarkFailed ==
    /\ healthy' = FALSE
    /\ notified' = (notified \/ healthy)

(* try_send: a full channel, or one whose receiver is gone, fails the log. *)
TrySendSucceeds == Connected /\ Len(queue) < EventSlots

Send(r, kind) ==
    IF TrySendSucceeds
    THEN queue' = Append(queue, Event(r, kind)) /\ UNCHANGED health
    ELSE MarkFailed /\ UNCHANGED queue

Report(r, kind, next) ==
    /\ Send(r, kind)
    /\ phase' = [phase EXCEPT ![r] = next]
    /\ sent' = [sent EXCEPT ![r] = @ \cup {kind}]
    /\ UNCHANGED <<admitted, runVars, writerVars>>

-----------------------------------------------------------------------------
(* request_started: health, a permit, health again, the start event.  An   *)
(* accepted connection may bring a request until it is closed.             *)
CheckHealth(r) ==
    /\ phase[r] = "new" /\ Accepting
    /\ phase' = [phase EXCEPT ![r] = IF healthy THEN "checked" ELSE "refused"]
    /\ UNCHANGED <<sent, admitted, queue, health, runVars, writerVars>>

ReservePermit(r) ==
    /\ phase[r] = "checked"
    /\ IF admitted < RequestSlots
       THEN /\ admitted' = admitted + 1
            /\ phase' = [phase EXCEPT ![r] = "reserved"]
       ELSE /\ phase' = [phase EXCEPT ![r] = "refused"]
            /\ UNCHANGED admitted
    /\ UNCHANGED <<sent, queue, health, runVars, writerVars>>

RecheckHealth(r) ==
    /\ phase[r] = "reserved"
    /\ IF healthy
       THEN /\ phase' = [phase EXCEPT ![r] = "vetted"]
            /\ UNCHANGED admitted
       ELSE /\ phase' = [phase EXCEPT ![r] = "refused"]
            /\ admitted' = admitted - 1
    /\ UNCHANGED <<sent, queue, health, runVars, writerVars>>

(* Mutant: the permit of a start event that was not sent is forgotten.     *)
SendStartLeaky(r) ==
    /\ phase[r] = "vetted"
    /\ Send(r, "start")
    /\ IF TrySendSucceeds
       THEN /\ phase' = [phase EXCEPT ![r] = "open"]
            /\ sent' = [sent EXCEPT ![r] = {"start"}]
       ELSE /\ phase' = [phase EXCEPT ![r] = "refused"]
            /\ UNCHANGED sent
    /\ UNCHANGED <<admitted, runVars, writerVars>>

SendStart(r) ==
    /\ phase[r] = "vetted"
    /\ Send(r, "start")
    /\ IF TrySendSucceeds
       THEN /\ phase' = [phase EXCEPT ![r] = "open"]
            /\ sent' = [sent EXCEPT ![r] = {"start"}]
            /\ UNCHANGED admitted
       ELSE /\ phase' = [phase EXCEPT ![r] = "refused"]
            /\ admitted' = admitted - 1
            /\ UNCHANGED sent
    /\ UNCHANGED <<runVars, writerVars>>

-----------------------------------------------------------------------------
(* proxy and forward.                                                      *)
Route(r) == phase[r] = "open" /\ Report(r, "routed", "routed")

BackendRequestFails(r) == phase[r] = "routed" /\ Report(r, "error", "failed")

(* The handler is dropped while it waits for the backend: the RequestGuard *)
(* closes the record.                                                      *)
Abandon(r) == phase[r] = "routed" /\ Report(r, "finish", "done")

(* Mutant: the body, which may be over already, is wrapped before the      *)
(* response is reported.                                                   *)
RespondBodyFirst(r) ==
    /\ phase[r] \in {"open", "routed", "failed"}
    /\ IF TrySendSucceeds
       THEN /\ queue' = queue \o <<Event(r, "finish"), Event(r, "response")>>
            /\ UNCHANGED health
       ELSE MarkFailed /\ UNCHANGED queue
    /\ phase' = [phase EXCEPT ![r] = "done"]
    /\ sent' = [sent EXCEPT ![r] = @ \cup {"response", "finish"}]
    /\ UNCHANGED <<admitted, runVars, writerVars>>

(* disarm() and finish(): a refusal, an error page or the backend's answer;*)
(* from here on the observed body answers for the record.                  *)
Respond(r) ==
    /\ phase[r] \in {"open", "routed", "failed"}
    /\ Report(r, "response", "answered")

(* Mutant: a body that is dropped half-way says nothing.                   *)
FinishIfComplete(r) ==
    /\ phase[r] = "answered"
    /\ \/ Report(r, "finish", "done")
       \/ /\ phase' = [phase EXCEPT ![r] = "done"]
          /\ UNCHANGED <<sent, admitted, queue, health, runVars, writerVars>>

(* CompletionGuard::finish, at the body's end, error or drop: once.        *)
Finish(r) == phase[r] = "answered" /\ Report(r, "finish", "done")

-----------------------------------------------------------------------------
(* run_worker and handle_event.                                            *)
Without(r) == [q \in DOMAIN pending \ {r} |-> pending[q]]

(* Mutant: the permit is dropped as soon as the entry is made.             *)
HandleStartFreesPermit(r) ==
    /\ pending' = [q \in DOMAIN pending \cup {r} |-> IF q = r THEN {} ELSE pending[q]]
    /\ admitted' = admitted - 1
    /\ UNCHANGED <<writer, written, flushed>>

HandleStart(r) ==
    /\ pending' = [q \in DOMAIN pending \cup {r} |-> IF q = r THEN {} ELSE pending[q]]
    /\ UNCHANGED <<admitted, writer, written, flushed>>

HandleDetail(r, kind) ==
    /\ pending' = IF r \in DOMAIN pending THEN [pending EXCEPT ![r] = @ \cup {kind}]
                                          ELSE pending
    /\ UNCHANGED <<admitted, writer, written, flushed>>

(* The entry, and with it the permit, is gone once the record is in the    *)
(* buffer; writing may spill the buffer and fail.                          *)
HandleFinish(r) ==
    IF r \in DOMAIN pending
    THEN /\ pending' = Without(r)
         /\ admitted' = admitted - 1
         /\ \/ written' = written \cup {[id |-> r, saw |-> pending[r]]} /\ UNCHANGED writer
            \/ writer' = "unwinding" /\ UNCHANGED written
         /\ UNCHANGED flushed
    ELSE UNCHANGED <<pending, admitted, writer, written, flushed>>

HandleEvent ==
    /\ writer = "running" /\ queue # <<>>
    /\ queue' = Tail(queue)
    /\ LET e == Head(queue) IN
        CASE e.kind = "start" -> HandleStart(e.id)
          [] e.kind = "finish" -> HandleFinish(e.id)
          [] OTHER -> HandleDetail(e.id, e.kind)
    /\ UNCHANGED <<requestVars, health, runVars>>

(* A write that the file system never completes.                           *)
Wedge ==
    /\ writer = "running"
    /\ writer' = "wedged"
    /\ UNCHANGED <<requestVars, admitted, queue, health, runVars, pending, written, flushed>>

Flush ==
    /\ writer = "running" /\ written # {}
    /\ \/ flushed' = flushed \cup written /\ written' = {} /\ UNCHANGED writer
       \/ writer' = "unwinding" /\ UNCHANGED <<written, flushed>>
    /\ UNCHANGED <<requestVars, admitted, queue, health, runVars, pending>>

(* Mutant: the writer returns without the last flush.                      *)
DisconnectNoFlush ==
    /\ writer = "running" /\ queue = <<>>
    /\ supervisor = "joining"
    /\ writer' = "stopped" /\ pending' = NoEntries
    /\ UNCHANGED <<requestVars, admitted, queue, health, runVars, written, flushed>>

(* All senders are gone and the channel is drained: what is still pending  *)
(* is written, and everything flushed.                                     *)
Disconnect ==
    /\ writer = "running" /\ queue = <<>>
    /\ supervisor = "joining"
    /\ \/ /\ writer' = "stopped"
          /\ flushed' = flushed \cup written
                        \cup {[id |-> r, saw |-> pending[r]] : r \in DOMAIN pending}
          /\ written' = {} /\ pending' = NoEntries
          /\ admitted' = admitted - Cardinality(DOMAIN pending)
       \/ writer' = "unwinding" /\ UNCHANGED <<pending, written, flushed, admitted>>
    /\ UNCHANGED <<requestVars, queue, health, runVars>>

-----------------------------------------------------------------------------
(* The writer returns an error: its locals, then its receiver are dropped, *)
(* with the permits in them; then the health guard runs.                   *)
DropPending ==
    /\ writer = "unwinding"
    /\ writer' = "closing"
    /\ pending' = NoEntries
    /\ admitted' = admitted - Cardinality(DOMAIN pending)
    /\ UNCHANGED <<requestVars, queue, health, runVars, written, flushed>>

DropReceiver ==
    /\ writer = "closing"
    /\ writer' = "gone"
    /\ queue' = <<>>
    /\ admitted' = admitted - Cardinality({i \in DOMAIN queue : queue[i].kind = "start"})
    /\ UNCHANGED <<requestVars, health, runVars, pending, written, flushed>>

DropHealthGuard ==
    /\ writer \in {"gone", "stopped"} /\ healthy
    /\ MarkFailed
    /\ UNCHANGED <<requestVars, admitted, queue, runVars, writerVars>>

-----------------------------------------------------------------------------
(* wait_until_unhealthy.                                                   *)
CheckWriter ==
    /\ supervisor = "check"
    /\ IF healthy THEN supervisor' = "await" /\ UNCHANGED outcome
                  ELSE supervisor' = "stopping" /\ outcome' = "error"
    /\ UNCHANGED <<requestVars, admitted, queue, health, writerVars>>

WakeSupervisor ==
    /\ supervisor = "await" /\ notified
    /\ notified' = FALSE
    /\ supervisor' = "check"
    /\ UNCHANGED <<requestVars, admitted, queue, healthy, outcome, writerVars>>

(* SIGTERM, or the end of a server or of a worker, which is an error.      *)
Shutdown ==
    /\ supervisor = "await"
    /\ supervisor' = "stopping" /\ outcome' \in {"ok", "error"}
    /\ UNCHANGED <<requestVars, admitted, queue, health, writerVars>>

(* Mutant: connections are waited for as long as they take.                *)
GraceExpiresNever == FALSE /\ UNCHANGED vars

(* drain_connections_with_grace: some are left when the grace is over.     *)
GraceExpires ==
    /\ supervisor = "stopping" /\ \E r \in Requests : ~Ended(r)
    /\ supervisor' = "aborting"
    /\ UNCHANGED <<requestVars, admitted, queue, health, outcome, writerVars>>

(* Every connection is closed: the service, and with it every sender of    *)
(* events, is dropped, and run() waits for the writer.                     *)
ConnectionsClosed ==
    /\ supervisor \in {"stopping", "aborting"} /\ \A r \in Requests : Ended(r)
    /\ supervisor' = "joining"
    /\ UNCHANGED <<requestVars, admitted, queue, health, outcome, writerVars>>

(* Mutant: a writer that is given up on is not an error.                   *)
JoinLenient ==
    /\ supervisor = "joining"
    /\ supervisor' = "exited"
    /\ outcome' = IF writer = "gone" THEN "error" ELSE outcome
    /\ UNCHANGED <<requestVars, admitted, queue, health, writerVars>>

(* join_timeout: the writer has ended, or is detached after its grace.     *)
Join ==
    /\ supervisor = "joining"
    /\ supervisor' = "exited"
    /\ outcome' = IF writer = "stopped" /\ ~healthy THEN outcome ELSE "error"
    /\ UNCHANGED <<requestVars, admitted, queue, health, writerVars>>

-----------------------------------------------------------------------------
(* What a handler does between two awaits; and what ends when its client,  *)
(* its backend or its connection does.                                     *)
Runs(r) ==
    \/ ReservePermit(r) \/ RecheckHealth(r) \/ SendStart(r) \/ Route(r)
    \/ phase[r] # "routed" /\ Respond(r)
Awaits(r) ==
    \/ BackendRequestFails(r) \/ Abandon(r) \/ Finish(r)
    \/ phase[r] = "routed" /\ Respond(r)
Writer == HandleEvent \/ Disconnect \/ DropPending \/ DropReceiver \/ DropHealthGuard
Supervise == CheckWriter \/ WakeSupervisor \/ GraceExpires \/ ConnectionsClosed \/ Join

(* The process has ended with run().                                       *)
Next ==
    \/ \E r \in Requests : CheckHealth(r) \/ Runs(r) \/ Awaits(r)
    \/ supervisor # "exited" /\ (Writer \/ Flush \/ Wedge)
    \/ Supervise \/ Shutdown

Spec == Init /\ [][Next]_vars

(* Threads run; the buffer is flushed at most FLUSH_INTERVAL after a       *)
(* write; timers fire.  A backend that never answers and a body that never *)
(* ends are allowed for, until the connection is aborted.                  *)
FairSpec ==
    /\ Spec
    /\ \A r \in Requests :
        WF_vars(Runs(r)) /\ WF_vars(supervisor = "aborting" /\ Awaits(r))
    /\ WF_vars(supervisor # "exited" /\ Writer) /\ WF_vars(supervisor # "exited" /\ Flush)
    /\ WF_vars(Supervise)

-----------------------------------------------------------------------------
RecordType == [id : Requests, saw : SUBSET Kinds]

(* Types; the counter never passes the limit, nor the channel its capacity.*)
TypeOK ==
    /\ phase \in [Requests -> Phases]
    /\ sent \in [Requests -> SUBSET Kinds]
    /\ admitted \in 0..RequestSlots
    /\ queue \in Seq([id : Requests, kind : Kinds])
    /\ Len(queue) <= EventSlots
    /\ healthy \in BOOLEAN /\ notified \in BOOLEAN
    /\ supervisor \in {"check", "await", "stopping", "aborting", "joining", "exited"}
    /\ outcome \in {"ok", "error"}
    /\ writer \in {"running", "wedged", "unwinding", "closing", "gone", "stopped"}
    /\ DOMAIN pending \subseteq Requests /\ \A r \in DOMAIN pending : pending[r] \subseteq Kinds
    /\ written \subseteq RecordType /\ flushed \subseteq RecordType

(* A permit is in a handler that has reserved it, in a start event, or in  *)
(* a pending entry; the counter counts them exactly, so that no slot leaks *)
(* and none is given twice ("audit admission permit released twice").      *)
PermitHolders ==
    {r \in Requests : phase[r] \in {"reserved", "vetted"}}
    \cup {queue[i].id : i \in {j \in DOMAIN queue : queue[j].kind = "start"}}
    \cup DOMAIN pending
PermitsBalance == admitted = Cardinality(PermitHolders)

(* "The channel is provisioned for every possible event from each admitted *)
(* request": while the writer is at work, stalled or about to unwind, the  *)
(* log does not fail, so the channel is never full for an event.  (Between *)
(* the drop of the writer's map and the drop of its receiver it may be:    *)
(* the permits are free again, and the events are still there.)            *)
FailsOnlyWithTheWriter == ~healthy => writer \notin {"running", "wedged", "unwinding"}

(* A request has one record, with all that was reported of it.             *)
RecordsAreWhole ==
    /\ \A a \in written \cup flushed : a.saw = sent[a.id] \ {"start", "finish"}
    /\ written \cap flushed = {}

(* The proxy stops without an error only when every request it admitted,   *)
(* the ones it aborted at the end of the grace included, is in the file    *)
(* ("all background workers and the audit writer must be shut down and     *)
(* flushed").                                                              *)
NothingLostAtExit ==
    supervisor = "exited" /\ outcome = "ok" =>
        \A r \in Requests : Ended(r) /\ (phase[r] = "done" => \E a \in flushed : a.id = r)

(* A request that has ended is recorded, unless the writer fails or hangs. *)
EndedIsRecorded ==
    \A r \in Requests :
        phase[r] = "done" ~> \/ writer \in {"wedged", "unwinding"} \/ supervisor = "exited"
                             \/ \E a \in flushed : a.id = r

(* "If the log cannot be written, the proxy stops serving traffic": no     *)
(* wake-up of the supervisor is lost; and once it is stopping no backend,  *)
(* body or file system that hangs keeps it from ending.                    *)
ProxyStops == (writer = "unwinding" \/ supervisor = "stopping") ~> supervisor = "exited"
=============================================================================
