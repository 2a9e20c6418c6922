---------------------------- MODULE BackendConsole ----------------------------
(***************************************************************************)
(* The two clients that stay connected to a running proxy: the terminal    *)
(* manager `backend manage` (src/backend_manage.rs), which lists the       *)
(* backends every second and acts on the selected one, and `backend drain` *)
(* (src/backend_cli.rs), which starts a drain and polls its operation.     *)
(*                                                                         *)
(* The control server's commands hold its lifecycle lock and are one step  *)
(* each; DrainControl has their inside, and why a drain may finish.  The   *)
(* driver of an operation holds no lock when it reads that its backend is  *)
(* not draining any more, and publishes that in a step of its own.  Here   *)
(* the server's operations, modes and configuration change under the       *)
(* clients' hands: by other operators, reloads and restarts.  A request    *)
(* may fail, or be answered too late after it took effect.  A backend is   *)
(* its number; the list is sorted by it.  The help screen, which swallows  *)
(* keys, and quitting are left out.                                        *)
(***************************************************************************)
EXTENDS Integers, FiniteSets, Sequences

CONSTANTS Fleet,        \* numbers of the backends that may be configured
          MaxOperations,    \* bound: operations of one process
          MaxChanges        \* bound: other operators' commands, reloads, restarts

ASSUME ConsoleAssumption == Fleet \subseteq Nat /\ Fleet # {} /\ IsFiniteSet(Fleet)

VARIABLES
    modes,          \* the backends' modes, durable
    configured,     \* the backends of the runtime configuration
    operations,     \* ControlState.operations: sequence of backend, phase, and
                    \* the last phase its driver is about to publish
    epoch,          \* the process that keeps them: restarts so far
    changes,
    console,        \* App: rows, selected, mode; the backend that its prompt
                    \* names, and whether a refresh is due
    waiter,         \* wait_for_drain: state, and the operation it polls
    reopened,       \* history: left Disabled since the driver of the waiter's
                    \* operation found it so
    lost,           \* history: a list since the prompt was without that backend
    strayed         \* history: an answer acted on another, though none had

serverVars == <<modes, configured, operations, epoch, changes>>
consoleVars == <<serverVars, console, waiter, reopened, lost, strayed>>

DrainPhases == {"Draining", "Complete", "Failed", "Cancelled"}
NewOperation(b) == [backend |-> b, phase |-> "Draining", next |-> "none"]
NoOne == -1

-----------------------------------------------------------------------------
(* The control server.                                                     *)

Ascending(S) == CHOOSE s \in [1..Cardinality(S) -> S] :
                    \A i, j \in DOMAIN s : i < j => s[i] < s[j]

List(C, M) == [i \in 1..Cardinality(C) |-> [id |-> Ascending(C)[i], mode |-> M[Ascending(C)[i]]]]
BackendList == List(configured, modes)

Driving(ops, b) == {i \in DOMAIN ops : ops[i].backend = b /\ ops[i].phase = "Draining"}

(* ensure_drain_operation: the operation under way, or a new one.          *)
EnsureDrainOperation(ops, b) ==
    IF Driving(ops, b) # {} THEN ops ELSE Append(ops, NewOperation(b))
RoomFor(b) == Driving(operations, b) # {} \/ Len(operations) < MaxOperations

(* Mutant: the operation's place is enough to find it.                     *)
KnownByPlace == waiter.operation \in DOMAIN operations

(* get_operation: identifiers are never used again.                        *)
Known == waiter.epoch = epoch /\ waiter.operation \in DOMAIN operations

(* The driver has found the backend disabled, or has disabled it.          *)
FoundDisabled(i) == "Complete" \in {operations[i].phase, operations[i].next}

Opens(b) ==
    \/ reopened
    \/ /\ b = waiter.backend
       /\ waiter.state = "waiting" => Known /\ FoundDisabled(waiter.operation)

(* begin_drain(), disable(), activate(): what a command that succeeds does.*)
StartDrain(b) ==
    /\ b \in configured /\ RoomFor(b)
    /\ modes' = [modes EXCEPT ![b] = "Draining"]
    /\ operations' = EnsureDrainOperation(operations, b)
    /\ reopened' = Opens(b)
    /\ UNCHANGED <<configured, epoch>>

DisableBackend(b) ==
    /\ b \in configured
    /\ modes' = [modes EXCEPT ![b] = "Disabled"]
    /\ UNCHANGED <<configured, operations, epoch, reopened>>

(* A draining backend cannot be activated.                                 *)
ActivateBackend(b) ==
    /\ b \in configured /\ modes[b] # "Draining"
    /\ modes' = [modes EXCEPT ![b] = "Active"]
    /\ reopened' = Opens(b)
    /\ UNCHANGED <<configured, operations, epoch>>

(* reload(): only a disabled backend can be taken out; a fence outlives it.*)
ReloadRuntime(new) ==
    /\ new # {} /\ \A b \in configured \ new : modes[b] = "Disabled"
    /\ configured' = new
    /\ UNCHANGED <<modes, operations, epoch, reopened>>

Changed == changes < MaxChanges /\ changes' = changes + 1

OtherOperator ==
    /\ Changed
    /\ \/ \E b \in Fleet : StartDrain(b) \/ DisableBackend(b) \/ ActivateBackend(b)
       \/ \E new \in SUBSET Fleet : ReloadRuntime(new)
    /\ UNCHANGED <<console, waiter, lost, strayed>>

(* The driver finds proxy and engine idle, and the backend is disabled.    *)
DriverCompletes(i) ==
    /\ operations[i].phase = "Draining" /\ operations[i].next = "none"
    /\ operations[i].backend \in configured /\ modes[operations[i].backend] = "Draining"
    /\ modes' = [modes EXCEPT ![operations[i].backend] = "Disabled"]
    /\ operations' = [operations EXCEPT ![i].phase = "Complete"]
    /\ UNCHANGED <<configured, epoch, changes, console, waiter, reopened, lost, strayed>>

(* The driver's tick when the backend is gone or is not draining any more. *)
SupersededPhase(b) ==
    IF b \notin configured THEN "Failed"
    ELSE IF modes[b] = "Disabled" THEN "Complete"
    ELSE "Cancelled"

DriverNotices(i) ==
    LET b == operations[i].backend IN
    /\ operations[i].phase = "Draining" /\ operations[i].next = "none"
    /\ b \notin configured \/ modes[b] # "Draining"
    /\ operations' = [operations EXCEPT ![i].next = SupersededPhase(b)]
    /\ UNCHANGED <<modes, configured, epoch, changes, console, waiter, reopened, lost, strayed>>

(* What it saw is published, though a drain may have joined the operation. *)
DriverPublishes(i) ==
    /\ operations[i].phase = "Draining" /\ operations[i].next # "none"
    /\ operations' = [operations EXCEPT ![i].phase = operations[i].next]
    /\ UNCHANGED <<modes, configured, epoch, changes, console, waiter, reopened, lost, strayed>>

(* The proxy starts again: operations are gone, persisted drains resumed.  *)
RestartServer ==
    /\ Changed
    /\ LET draining == Ascending({b \in configured : modes[b] = "Draining"}) IN
       operations' = [i \in DOMAIN draining |-> NewOperation(draining[i])]
    /\ epoch' = epoch + 1
    /\ UNCHANGED <<modes, configured, console, waiter, reopened, lost, strayed>>

-----------------------------------------------------------------------------
(* The manager.                                                            *)

RowOf(rows, b) == {i \in DOMAIN rows : rows[i].id = b}
SelectedBackend == IF console.selected \in DOMAIN console.rows
                   THEN console.rows[console.selected].id ELSE NoOne
Clamp(i, rows) == IF i > Len(rows) THEN Len(rows) ELSE i

(* Mutant: the selection stays on its row.                                 *)
ReselectRow(rows) == Clamp(console.selected, rows)

(* refresh(): the selection follows the backend, or keeps its row.         *)
Reselect(rows) ==
    LET at == RowOf(rows, SelectedBackend) IN
    IF at # {} THEN CHOOSE i \in at : TRUE ELSE Clamp(console.selected, rows)

RefreshList ==
    /\ LET rows == BackendList IN
       /\ console' = [console EXCEPT !.rows = rows, !.selected = Reselect(rows), !.due = FALSE]
       /\ lost' = (lost \/ (console.mode # "Browse" /\ RowOf(rows, console.named) = {}))
    /\ UNCHANGED <<serverVars, waiter, reopened, strayed>>

(* handle() waits for its own refresh before the next key, or gives it up. *)
Browsing == ~console.due /\ console.mode = "Browse"
Asked == ~console.due /\ console.mode # "Browse"

GiveUpRefresh ==
    /\ console.due
    /\ console' = [console EXCEPT !.due = FALSE]
    /\ UNCHANGED <<serverVars, waiter, reopened, lost, strayed>>

Press(next) ==
    /\ console' = next
    /\ lost' = (lost /\ next.mode # "Browse")
    /\ UNCHANGED <<serverVars, waiter, reopened, strayed>>

MoveSelection ==
    /\ Browsing
    /\ \E i \in {1, console.selected - 1, console.selected + 1, Len(console.rows)}
                \cap DOMAIN console.rows :
        Press([console EXCEPT !.selected = i])

(* d and D: asked only of a backend that the list does not show as closed. *)
AskConfirm ==
    /\ Browsing /\ SelectedBackend # NoOne
    /\ LET row == console.rows[console.selected] IN
       \E ask \in (IF row.mode = "Active" THEN {"ConfirmDrain"} ELSE {})
                  \cup (IF row.mode # "Disabled" THEN {"ConfirmDisable"} ELSE {}) :
        Press([console EXCEPT !.mode = ask, !.named = row.id])

Decline ==
    /\ Asked
    /\ Press([console EXCEPT !.mode = "Browse", !.named = NoOne])

(* A request that is answered is followed by a refresh; one that is not,   *)
(* or is refused, is not.                                                  *)
Request(command, effect) ==
    /\ \/ effect /\ Changed /\ console' = [command EXCEPT !.due = TRUE]
       \/ effect /\ Changed /\ console' = command
       \/ UNCHANGED <<serverVars, reopened>> /\ console' = command
    /\ lost' = FALSE
    /\ UNCHANGED waiter

(* y: what is selected now is drained, or disabled by force.               *)
Confirm ==
    LET b == SelectedBackend IN
    /\ Asked /\ b # NoOne
    /\ Request([console EXCEPT !.mode = "Browse", !.named = NoOne],
               IF console.mode = "ConfirmDrain" THEN StartDrain(b) ELSE DisableBackend(b))
    /\ strayed' = (strayed \/ (b # console.named /\ ~lost))

ActivateSelected ==
    /\ Browsing /\ SelectedBackend # NoOne
    /\ Request(console, ActivateBackend(SelectedBackend))
    /\ UNCHANGED strayed

ReloadFromConsole ==
    /\ Browsing
    /\ \E new \in SUBSET Fleet : Request(console, ReloadRuntime(new))
    /\ UNCHANGED strayed

-----------------------------------------------------------------------------
(* `backend drain`.                                                        *)

(* client.drain(): an answer names the operation; the rest is an error.    *)
BeginWait(b) ==
    /\ waiter.state = "idle"
    /\ modes' = [modes EXCEPT ![b] = "Draining"]
    /\ b \in configured /\ RoomFor(b)
    /\ operations' = EnsureDrainOperation(operations, b)
    /\ waiter' = [state |-> "waiting", backend |-> b, epoch |-> epoch,
                  operation |-> CHOOSE i \in Driving(operations', b) : TRUE]
    /\ reopened' = (\E i \in Driving(operations, b) : FoundDisabled(i))
    /\ UNCHANGED <<configured, epoch, changes, console, lost, strayed>>

Tell(what) ==
    /\ waiter.state = "waiting"
    /\ waiter' = [waiter EXCEPT !.state = what]
    /\ UNCHANGED <<serverVars, console, reopened, lost, strayed>>

(* One poll; the wait goes on while the phase is Draining.  An operation   *)
(* that is not known, or a request that fails, is an error.                *)
PollOperation ==
    \/ Known /\ operations[waiter.operation].phase = "Complete" /\ Tell("safe")
    \/ Known /\ operations[waiter.operation].phase \in {"Failed", "Cancelled"} /\ Tell("error")
    \/ ~Known /\ Tell("error")

(* --no-wait, the deadline, Ctrl-C, or a request that fails.               *)
StopWaiting == Tell("detached")

-----------------------------------------------------------------------------
ConsoleInit ==
    /\ modes \in [Fleet -> {"Active"}]
    /\ configured = Fleet
    /\ operations = <<>> /\ epoch = 0 /\ changes = 0
    /\ console = [rows |-> BackendList, selected |-> 1, mode |-> "Browse", named |-> NoOne,
                  due |-> FALSE]
    /\ waiter = [state |-> "idle", backend |-> NoOne, epoch |-> 0, operation |-> 0]
    /\ reopened = FALSE /\ lost = FALSE /\ strayed = FALSE

ConsoleNext ==
    \/ OtherOperator \/ RestartServer
    \/ \E i \in DOMAIN operations :
        DriverCompletes(i) \/ DriverNotices(i) \/ DriverPublishes(i)
    \/ RefreshList \/ GiveUpRefresh
    \/ MoveSelection \/ AskConfirm \/ Decline \/ Confirm
    \/ ActivateSelected \/ ReloadFromConsole
    \/ \E b \in Fleet : BeginWait(b)
    \/ PollOperation \/ StopWaiting

ConsoleSpec == ConsoleInit /\ [][ConsoleNext]_consoleVars

-----------------------------------------------------------------------------
(* Types; and the selection is a row of the list.                          *)
ConsoleTypeOK ==
    /\ modes \in [Fleet -> {"Active", "Draining", "Disabled"}]
    /\ configured \subseteq Fleet
    /\ \A i \in DOMAIN operations :
        /\ operations[i].backend \in Fleet /\ operations[i].phase \in DrainPhases
        /\ operations[i].next \in {"none", "Complete", "Failed", "Cancelled"}
    /\ console.selected \in DOMAIN console.rows
    /\ console.mode \in {"Browse", "ConfirmDrain", "ConfirmDisable"}
    /\ waiter.state \in {"idle", "waiting", "safe", "error", "detached"}

(* "Drain {}? It will stop receiving new requests immediately. y / n": the *)
(* answer acts on the backend the question named, whatever refreshes came  *)
(* between them, as long as every list has shown that backend: others that *)
(* come and go move the rows, and not the selection.  (When a list leaves  *)
(* it out, the selection moves to a neighbour and the question stays up.)  *)
ConfirmedIsNamedWhileShown == ~strayed

(* `backend drain` prints "safe to stop" only of a backend that is         *)
(* disabled, or has been opened or drained again since the driver of its   *)
(* operation found it disabled: not of one whose operation a restart has   *)
(* forgotten, that was taken out of the configuration, or whose drain was  *)
(* superseded by an activation.  (The client's own drain may be the one    *)
(* that came after the driver's look: it joins the operation, and is told  *)
(* "safe to stop" of a backend that has begun to drain.)                   *)
SafeMeansDisabled ==
    waiter.state = "safe" => modes[waiter.backend] = "Disabled" \/ reopened
===============================================================================
