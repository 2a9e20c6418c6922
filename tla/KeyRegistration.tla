-------------------------- MODULE KeyRegistration --------------------------
(***************************************************************************)
(* Runtime registration of API keys: POST /register of src/register.rs and *)
(* KeyStore::create_non_admin of src/auth.rs.                              *)
(*                                                                         *)
(* A registration waits for the writer's gate, then has a blocking task    *)
(* load the key file, check it, add a key and save it; when the task has   *)
(* ended the handler publishes the saved snapshot and answers.  A client   *)
(* that hangs up drops the handler, and with it the gate; the task, once   *)
(* started, runs to its end.  A key is its owner and its name; digests and *)
(* plaintexts are left out, as they are unique.                            *)
(*                                                                         *)
(* The steps of KeyFile::save (src/keys.rs) are told apart: the tasks  *)
(* of a process share the name of their temporary file, so two of them may *)
(* be at work on one file.  A file is named after the task that created    *)
(* it, the first one after the operator; one whose text does not parse     *)
(* holds no keys.                                                          *)
(***************************************************************************)
EXTENDS Naturals, FiniteSets

CONSTANTS Clients,          \* registrations that may be attempted
          Names,            \* the names they may ask for
          Operator,         \* the owner of the key the file starts with
          MaxKeys,          \* [registration] max_keys
          MaxCrashes        \* bound on the number of restarts

ASSUME KeyAssumption ==
    /\ Operator \notin Clients
    /\ MaxKeys \in Nat \ {0} /\ MaxCrashes \in Nat

VARIABLES
    handler,        \* each registration's handler
    wanted,         \* the name it asks for
    gate,           \* who holds KeyWriter's gate; Operator when nobody does
    task,           \* its blocking task
    loaded,         \* the keys the task has read
    content,        \* the keys in each file
    path,           \* the file the database's name refers to
    temp,           \* the file temporary_name refers to; Operator when none
    open,           \* the file each task has open, or NoFile
    index,          \* the published snapshot
    acknowledged,   \* history: keys handed to their clients
    crashes

files == <<content, path, temp, open>>
vars == <<handler, wanted, gate, task, loaded, files, index, acknowledged, crashes>>

Key(c) == [owner |-> c, name |-> wanted[c]]
Nobody == Operator
NoFile == Operator
file == content[path]

-----------------------------------------------------------------------------
Init ==
    /\ handler = [c \in Clients |-> "idle"]
    /\ wanted \in [Clients -> Names]
    /\ gate = Nobody
    /\ task = [c \in Clients |-> "none"]
    /\ loaded = [c \in Clients |-> {}]
    /\ content = [f \in Clients \cup {Operator} |->
                    IF f = Operator THEN {[owner |-> Operator, name |-> "operator"]} ELSE {}]
    /\ path = Operator /\ temp = NoFile
    /\ open = [c \in Clients |-> NoFile]
    /\ index = file
    /\ acknowledged = {}
    /\ crashes = 0

-----------------------------------------------------------------------------
(* The advisory check of create() in register.rs.                          *)
Ask(c) ==
    /\ handler[c] = "idle"
    /\ handler' = [handler EXCEPT
                    ![c] = IF Cardinality(index) < MaxKeys THEN "waiting" ELSE "refused"]
    /\ UNCHANGED <<wanted, gate, task, loaded, files, index, acknowledged, crashes>>

(* Mutant: registrations are not serialized.                               *)
LockGateShared(c) ==
    /\ handler[c] = "waiting"
    /\ gate' = c
    /\ handler' = [handler EXCEPT ![c] = "working"]
    /\ task' = [task EXCEPT ![c] = "load"]
    /\ UNCHANGED <<wanted, loaded, files, index, acknowledged, crashes>>

LockGate(c) ==
    /\ handler[c] = "waiting" /\ gate = Nobody
    /\ gate' = c
    /\ handler' = [handler EXCEPT ![c] = "working"]
    /\ task' = [task EXCEPT ![c] = "load"]
    /\ UNCHANGED <<wanted, loaded, files, index, acknowledged, crashes>>

-----------------------------------------------------------------------------
(* The blocking task: load and check, then save.  A file that does not     *)
(* parse is an error.                                                      *)

(* Mutant: the limit was checked before the gate was taken.                *)
AcceptableAnyCount(c) == file # {} /\ \A k \in file : k.name # wanted[c]

Acceptable(c) ==
    /\ file # {}
    /\ Cardinality(file) < MaxKeys
    /\ \A k \in file : k.name # wanted[c]

LoadKeys(c) ==
    /\ task[c] = "load"
    /\ IF Acceptable(c)
       THEN /\ loaded' = [loaded EXCEPT ![c] = file]
            /\ task' = [task EXCEPT ![c] = "save"]
       ELSE /\ task' = [task EXCEPT ![c] = "failed"]
            /\ UNCHANGED loaded
    /\ UNCHANGED <<handler, wanted, gate, files, index, acknowledged, crashes>>

(* save(): the temporary file is created, or emptied if there is one; the  *)
(* text is written and synced; the file is renamed.  An error after the    *)
(* first of these removes the temporary file.                              *)
FailedSave(c) ==
    /\ temp' = NoFile
    /\ open' = [open EXCEPT ![c] = NoFile]
    /\ loaded' = [loaded EXCEPT ![c] = {}]
    /\ task' = [task EXCEPT ![c] = "failed"]

(* Mutant: the database itself is opened and emptied.                      *)
OpenTempInPlace(c) ==
    /\ task[c] = "save"
    /\ temp' = path
    /\ open' = [open EXCEPT ![c] = path]
    /\ content' = [content EXCEPT ![path] = {}]
    /\ task' = [task EXCEPT ![c] = "write"]
    /\ UNCHANGED <<handler, wanted, gate, loaded, path, index, acknowledged, crashes>>

OpenTemp(c) ==
    /\ task[c] = "save"
    /\ \/ /\ LET f == IF temp = NoFile THEN c ELSE temp IN
                /\ temp' = f
                /\ open' = [open EXCEPT ![c] = f]
                /\ content' = [content EXCEPT ![f] = {}]
          /\ task' = [task EXCEPT ![c] = "write"]
          /\ UNCHANGED loaded
       \/ /\ loaded' = [loaded EXCEPT ![c] = {}]
          /\ task' = [task EXCEPT ![c] = "failed"]
          /\ UNCHANGED <<temp, open, content>>
    /\ UNCHANGED <<handler, wanted, gate, path, index, acknowledged, crashes>>

(* Written over another task's text, a shorter one leaves a tail that does *)
(* not parse.                                                              *)
Saved(c) == loaded[c] \cup {Key(c)}

WriteTemp(c) ==
    /\ task[c] = "write"
    /\ \/ /\ \E text \in {Saved(c), {}} :
              /\ text = Saved(c) \/ content[open[c]] # {}
              /\ content' = [content EXCEPT ![open[c]] = text]
          /\ task' = [task EXCEPT ![c] = "rename"]
          /\ UNCHANGED <<temp, open, loaded>>
       \/ /\ \E text \in {Saved(c), {}} : content' = [content EXCEPT ![open[c]] = text]
          /\ FailedSave(c)
    /\ UNCHANGED <<handler, wanted, gate, path, index, acknowledged, crashes>>

(* The name may be gone: another task has renamed or removed the file.     *)
RenameTemp(c) ==
    /\ task[c] = "rename"
    /\ \/ /\ temp # NoFile
          /\ path' = temp /\ temp' = NoFile
          /\ open' = [open EXCEPT ![c] = NoFile]
          /\ task' = [task EXCEPT ![c] = "saved"]
          /\ UNCHANGED loaded
       \/ /\ FailedSave(c)
          /\ UNCHANGED path
    /\ UNCHANGED <<handler, wanted, gate, content, index, acknowledged, crashes>>

-----------------------------------------------------------------------------
Publish(c) ==
    /\ handler[c] = "working" /\ task[c] = "saved"
    /\ index' = Saved(c)
    /\ acknowledged' = acknowledged \cup {Key(c)}
    /\ handler' = [handler EXCEPT ![c] = "answered"]
    /\ gate' = Nobody
    /\ UNCHANGED <<wanted, task, loaded, files, crashes>>

Fail(c) ==
    /\ handler[c] = "working" /\ task[c] = "failed"
    /\ handler' = [handler EXCEPT ![c] = "refused"]
    /\ gate' = Nobody
    /\ UNCHANGED <<wanted, task, loaded, files, index, acknowledged, crashes>>

(* The handler is dropped at one of its two awaits.  At the second, its    *)
(* task is left to itself.                                                 *)
HangUp(c) ==
    /\ handler[c] \in {"waiting", "working"}
    /\ handler' = [handler EXCEPT
                    ![c] = IF handler[c] = "working" THEN "detached" ELSE "gone"]
    /\ gate' = IF handler[c] = "working" THEN Nobody ELSE gate
    /\ UNCHANGED <<wanted, task, loaded, files, index, acknowledged, crashes>>

(* The proxy dies and starts again from the file, if that can be read.  It *)
(* has another process id, and so another temporary file.                  *)
Restart ==
    /\ crashes < MaxCrashes /\ file # {}
    /\ crashes' = crashes + 1
    /\ handler' = [c \in Clients |-> IF handler[c] \in {"waiting", "working"}
                                     THEN "gone" ELSE handler[c]]
    /\ gate' = Nobody
    /\ task' = [c \in Clients |-> "none"]
    /\ loaded' = [c \in Clients |-> {}]
    /\ temp' = NoFile
    /\ open' = [c \in Clients |-> NoFile]
    /\ content' = [f \in DOMAIN content |-> IF f = path THEN file ELSE {}]
    /\ index' = file
    /\ UNCHANGED <<wanted, path, acknowledged>>

-----------------------------------------------------------------------------
Next ==
    \/ \E c \in Clients :
        \/ Ask(c) \/ LockGate(c)
        \/ LoadKeys(c) \/ OpenTemp(c) \/ WriteTemp(c) \/ RenameTemp(c)
        \/ Publish(c) \/ Fail(c)
        \/ HangUp(c)
    \/ Restart

Spec == Init /\ [][Next]_vars

-----------------------------------------------------------------------------
KeyType == [owner : Clients \cup {Operator}, name : Names \cup {"operator"}]

(* Types; and the gate belongs to the one handler at work.                 *)
TypeOK ==
    /\ handler \in [Clients -> {"idle", "waiting", "working", "answered", "refused", "gone",
                              "detached"}]
    /\ wanted \in [Clients -> Names]
    /\ gate \in Clients \cup {Nobody}
    /\ task \in [Clients -> {"none", "load", "save", "write", "rename", "saved", "failed"}]
    /\ loaded \in [Clients -> SUBSET KeyType]
    /\ content \in [Clients \cup {Operator} -> SUBSET KeyType]
    /\ path \in Clients \cup {Operator} /\ temp \in Clients \cup {NoFile}
    /\ open \in [Clients -> Clients \cup {Operator}]
    /\ index \in SUBSET KeyType
    /\ acknowledged \in SUBSET KeyType
    /\ crashes \in 0..MaxCrashes
    /\ \A c \in Clients : handler[c] = "working" => gate = c

(* A key that was handed to its client works, now and after a restart: it  *)
(* is published and in the file ("publishes the complete saved snapshot    *)
(* before allowing the next transaction to begin").                        *)
AcknowledgedIsDurable == acknowledged \subseteq file /\ acknowledged \subseteq index

(* So it is as long as no client has hung up on a running task; and until  *)
(* then "an interrupted save cannot truncate an existing database".        *)
DurableUnlessDetached ==
    (\A c \in Clients : handler[c] # "detached") => AcknowledgedIsDurable /\ file # {}

(* The limit holds for concurrent registrations that all passed the        *)
(* advisory check, and no two keys share a name.                           *)
LimitAndNamesHold ==
    /\ Cardinality(file) <= MaxKeys
    /\ \A k, l \in file : k.name = l.name => k = l
=============================================================================
