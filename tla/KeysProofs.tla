----------------------------- MODULE KeysProofs -----------------------------
(***************************************************************************)
(* Proofs about the proxy's keys, for any number of clients, names, places *)
(* and restarts, of keys, and of writers of the key file.                  *)
(*                                                                         *)
(* Registration (KeyRegistration): as long as no client has hung up on its *)
(* task, nobody changes the database between what a task loads and what    *)
(* its handler publishes.                                                  *)
(*                                                                         *)
(* The key file (KeyManager): it keeps an enabled admin key and a revoked  *)
(* key stays out.  The first inductive invariant says of every copy a      *)
(* writer may save what it says of the file, and that a deletion that was  *)
(* asked about can go ahead; the second, that a copy no one has overtaken  *)
(* has the file's contents.                                                *)
(***************************************************************************)
EXTENDS MCKeys, FiniteSetTheorems, TLAPS

USE KeyAssumption DEF vars, files, Nobody, NoFile

(* No client has hung up on a running task; once one has, this stays FALSE.*)
Calm == \A c \in Clients : handler[c] # "detached"

AtWork == {"load", "save", "write", "rename"}

(* A task runs for the handler that holds the gate, and nobody changes the *)
(* database between what it loads and what its handler publishes.          *)
TaskInv ==
    \A c \in Clients :
        /\ task[c] \in AtWork => handler[c] = "working"
        /\ task[c] \in {"save", "write", "rename"} => loaded[c] = file
        /\ handler[c] = "working" /\ task[c] = "saved" => file = Saved(c)

(* There is a temporary file only while a task writes or renames its own,  *)
(* and it is not the database; a file bears its creator's name, so one who *)
(* has yet to create it has none.                                          *)
TempInv ==
    /\ file # {}
    /\ \A c \in Clients :
        /\ task[c] \in {"write", "rename"} => temp = c /\ open[c] = c
        /\ task[c] = "write" => content[c] = {}
        /\ task[c] = "rename" => content[c] = Saved(c)
        /\ temp = c => task[c] \in {"write", "rename"}
        /\ path = c => handler[c] \notin {"idle", "waiting"} /\ task[c] \notin AtWork

(* A handler that has not the gate yet has no task.                        *)
NoTaskYet == \A c \in Clients : handler[c] \in {"idle", "waiting"} => task[c] = "none"

(* The inductive invariant.                                                *)
CalmInv == TaskInv /\ TempInv /\ NoTaskYet /\ AcknowledgedIsDurable
Inv == TypeOK /\ (Calm => CalmInv)

-----------------------------------------------------------------------------
LEMMA InitInv == Init => Inv
<1> SUFFICES ASSUME Init PROVE Inv
  OBVIOUS
<1>1. content \in [Clients \cup {Operator} -> SUBSET KeyType] /\ file \in SUBSET KeyType
  BY DEF Init, KeyType, file
<1>2. TypeOK
  BY <1>1 DEF Init, TypeOK
<1>3. TaskInv /\ NoTaskYet /\ AcknowledgedIsDurable
  BY DEF Init, TaskInv, AtWork, NoTaskYet, AcknowledgedIsDurable
<1>4. TempInv
  BY DEF Init, TempInv, file, AtWork
<1> QED BY <1>2, <1>3, <1>4 DEF Inv, CalmInv

LEMMA KeyTypes ==
  ASSUME TypeOK, NEW c \in Clients
  PROVE  Key(c) \in KeyType /\ Saved(c) \in SUBSET KeyType
  BY DEF TypeOK, Key, KeyType, Saved

LEMMA NextKeepsTypes == TypeOK /\ [Next]_vars => TypeOK'
<1> SUFFICES ASSUME TypeOK, [Next]_vars PROVE TypeOK'
  OBVIOUS
<1> USE DEF TypeOK
<1>1. CASE UNCHANGED vars
  BY <1>1
<1>2. ASSUME NEW c \in Clients, Ask(c) PROVE TypeOK'
  BY <1>2 DEF Ask
<1>3. ASSUME NEW c \in Clients, LockGate(c) PROVE TypeOK'
  BY <1>3 DEF LockGate
<1>4. ASSUME NEW c \in Clients, LoadKeys(c) PROVE TypeOK'
  BY <1>4 DEF LoadKeys, file
<1>5a. ASSUME NEW c \in Clients, OpenTemp(c) PROVE TypeOK'
  BY <1>5a DEF OpenTemp
<1>5b. ASSUME NEW c \in Clients, WriteTemp(c) PROVE TypeOK'
  <2>1. content' \in [Clients \cup {Operator} -> SUBSET KeyType]
    BY <1>5b, KeyTypes DEF WriteTemp
  <2> QED BY <1>5b, <2>1 DEF WriteTemp, FailedSave
<1>5c. ASSUME NEW c \in Clients, RenameTemp(c) PROVE TypeOK'
  BY <1>5c DEF RenameTemp, FailedSave
<1>6. ASSUME NEW c \in Clients, Publish(c) PROVE TypeOK'
  <2>1. index' \in SUBSET KeyType /\ acknowledged' \in SUBSET KeyType
    BY <1>6, KeyTypes DEF Publish
  <2> QED BY <1>6, <2>1 DEF Publish
<1>7. ASSUME NEW c \in Clients, Fail(c) PROVE TypeOK'
  BY <1>7 DEF Fail
<1>8. ASSUME NEW c \in Clients, HangUp(c) PROVE TypeOK'
  BY <1>8 DEF HangUp
<1>9. CASE Restart
  <2>1. content' \in [Clients \cup {Operator} -> SUBSET KeyType] /\ index' \in SUBSET KeyType
    BY <1>9 DEF Restart, file
  <2> QED BY <1>9, <2>1 DEF Restart
<1> QED BY <1>1, <1>2, <1>3, <1>4, <1>5a, <1>5b, <1>5c, <1>6, <1>7, <1>8, <1>9 DEF Next

(* Only one handler is at work.                                            *)
LEMMA OneAtWork ==
  ASSUME TypeOK, NEW c \in Clients, NEW d \in Clients,
         handler[c] = "working", handler[d] = "working"
  PROVE  c = d
  BY DEF TypeOK

LEMMA CalmBefore == ASSUME TypeOK, [Next]_vars, Calm' PROVE Calm
<1> SUFFICES ASSUME NEW d \in Clients, handler[d] = "detached" PROVE handler'[d] = "detached"
  BY DEF Calm
<1> QED
  BY DEF TypeOK, Next, Ask, LockGate, LoadKeys, OpenTemp, WriteTemp, RenameTemp,
         FailedSave, Publish, Fail, HangUp, Restart

(* While all is calm, only the task of the handler at work is at work.     *)
LEMMA OneTaskAtWork ==
  ASSUME TypeOK, TaskInv, NEW c \in Clients, NEW d \in Clients, d # c, handler[c] = "working"
  PROVE  task[d] \notin AtWork /\ handler[d] # "working"
  BY OneAtWork DEF TaskInv

LEMMA NextKeepsInv == Inv /\ [Next]_vars => Inv'
<1> SUFFICES ASSUME Inv, [Next]_vars, Calm' PROVE CalmInv'
  BY NextKeepsTypes DEF Inv
<1>0. TypeOK /\ Calm /\ TaskInv /\ TempInv /\ NoTaskYet /\ AcknowledgedIsDurable
  BY CalmBefore DEF Inv, CalmInv
<1> USE <1>0 DEF CalmInv, TaskInv, TempInv, NoTaskYet, AcknowledgedIsDurable, AtWork, file
<1>1. CASE UNCHANGED vars
  BY <1>1 DEF Key, Saved
<1>2. ASSUME NEW c \in Clients, Ask(c) PROVE CalmInv'
  BY <1>2 DEF TypeOK, Ask, Key, Saved
<1>3. ASSUME NEW c \in Clients, LockGate(c) PROVE CalmInv'
  BY <1>3 DEF TypeOK, LockGate, Key, Saved
<1>4. ASSUME NEW c \in Clients, LoadKeys(c) PROVE CalmInv'
  BY <1>4 DEF TypeOK, LoadKeys, Key, Saved
<1>5. ASSUME NEW c \in Clients, OpenTemp(c) PROVE CalmInv'
  <2>1. handler[c] = "working" /\ loaded[c] = file /\ path # c
    BY <1>5 DEF OpenTemp
  <2>2. \A d \in Clients : d # c => task[d] \notin AtWork /\ handler[d] # "working"
    BY <2>1, OneTaskAtWork
  <2>3. temp = NoFile
    BY <1>5, <2>2 DEF OpenTemp, TypeOK
  <2>4. file' = file
    BY <1>5, <2>1, <2>3 DEF OpenTemp, TypeOK
  <2>5. TempInv'
    BY <1>5, <2>1, <2>2, <2>3, <2>4 DEF OpenTemp, TypeOK, Key, Saved
  <2>6. TaskInv'
    BY <1>5, <2>1, <2>2, <2>4 DEF OpenTemp, TypeOK, Key, Saved
  <2>7. NoTaskYet' /\ AcknowledgedIsDurable'
    BY <1>5, <2>1, <2>4 DEF OpenTemp, TypeOK
  <2> QED BY <2>5, <2>6, <2>7
<1>6. ASSUME NEW c \in Clients, WriteTemp(c) PROVE CalmInv'
  <2>1. handler[c] = "working" /\ loaded[c] = file /\ temp = c /\ open[c] = c /\ path # c
    BY <1>6 DEF WriteTemp
  <2>2. \A d \in Clients : d # c => task[d] \notin AtWork /\ handler[d] # "working"
    BY <2>1, OneTaskAtWork
  <2>3. file' = file
    BY <1>6, <2>1 DEF WriteTemp, TypeOK
  <2>4. TempInv'
    BY <1>6, <2>1, <2>2, <2>3 DEF WriteTemp, FailedSave, TypeOK, Key, Saved
  <2>5. TaskInv'
    BY <1>6, <2>1, <2>2, <2>3 DEF WriteTemp, FailedSave, TypeOK, Key, Saved
  <2>6. NoTaskYet' /\ AcknowledgedIsDurable'
    BY <1>6, <2>1, <2>3 DEF WriteTemp, FailedSave, TypeOK
  <2> QED BY <2>4, <2>5, <2>6
<1>7. ASSUME NEW c \in Clients, RenameTemp(c) PROVE CalmInv'
  <2>1. handler[c] = "working" /\ loaded[c] = file /\ temp = c /\ content[c] = Saved(c)
    BY <1>7 DEF RenameTemp
  <2>2. \A d \in Clients : d # c => task[d] \notin AtWork /\ handler[d] # "working"
    BY <2>1, OneTaskAtWork
  <2>3. file \subseteq file' /\ (task'[c] = "saved" => file' = Saved(c))
    BY <1>7, <2>1 DEF RenameTemp, FailedSave, TypeOK, Saved
  <2>4. TempInv'
    BY <1>7, <2>1, <2>2, <2>3 DEF RenameTemp, FailedSave, TypeOK
  <2>5. TaskInv'
    BY <1>7, <2>1, <2>2, <2>3 DEF RenameTemp, FailedSave, TypeOK, Key, Saved
  <2>6. NoTaskYet' /\ AcknowledgedIsDurable'
    BY <1>7, <2>1, <2>3 DEF RenameTemp, FailedSave, TypeOK
  <2> QED BY <2>4, <2>5, <2>6
<1>8. ASSUME NEW c \in Clients, Publish(c) PROVE CalmInv'
  <2>1. file = Saved(c)
    BY <1>8 DEF Publish
  <2>2. AcknowledgedIsDurable'
    BY <1>8, <2>1 DEF Publish, Saved
  <2>3. TaskInv' /\ TempInv' /\ NoTaskYet'
    BY <1>8 DEF Publish, TypeOK, Key, Saved
  <2> QED BY <2>2, <2>3
<1>9. ASSUME NEW c \in Clients, Fail(c) PROVE CalmInv'
  BY <1>9 DEF Fail, TypeOK, Key, Saved
<1>10. ASSUME NEW c \in Clients, HangUp(c) PROVE CalmInv'
  <2>1. handler[c] = "waiting"
    BY <1>10 DEF HangUp, Calm, TypeOK
  <2> QED BY <1>10, <2>1 DEF HangUp, TypeOK, Key, Saved
<1>11. CASE Restart
  <2>1. file' = file /\ path' = path /\ temp' = NoFile
    BY <1>11 DEF Restart, TypeOK
  <2>2. \A c \in Clients : /\ task'[c] = "none" /\ handler'[c] # "working"
                           /\ handler'[c] \in {"idle", "waiting"} => handler'[c] = handler[c]
    BY <1>11 DEF Restart, TypeOK
  <2>3. TempInv'
    BY <2>1, <2>2
  <2> QED BY <1>11, <2>1, <2>2, <2>3 DEF Restart
<1> QED
  BY <1>1, <1>2, <1>3, <1>4, <1>5, <1>6, <1>7, <1>8, <1>9, <1>10, <1>11 DEF Next

(* The inductive invariant holds in every reachable state.                 *)
THEOREM InvHolds == Spec => []Inv
<1> QED BY InitInv, NextKeepsInv, PTL DEF Spec

(* Type correctness; at most one handler holds KeyWriter's gate.           *)
THEOREM TypeCorrect == Spec => []TypeOK
<1>1. Inv => TypeOK
  BY DEF Inv
<1> QED BY <1>1, InvHolds, PTL

(* As long as no client has hung up on a running create_non_admin task,    *)
(* every key handed out is published and in the file, restarts included.   *)
THEOREM KeysAreDurable == Spec => []DurableUnlessDetached
<1>1. Inv => DurableUnlessDetached
  BY DEF Inv, CalmInv, TempInv, Calm, DurableUnlessDetached
<1> QED BY <1>1, InvHolds, PTL
-----------------------------------------------------------------------------
(* The limit holds of every file and of all that a task is about to write, *)
(* hang-ups and overlapping saves included: it is checked on what has been *)
(* loaded, under the limit the key is added to.                            *)
Fits(keys) ==
    /\ IsFiniteSet(keys) /\ Cardinality(keys) <= MaxKeys
    /\ \A k, l \in keys : k.name = l.name => k = l

LimitInv ==
    /\ \A f \in Clients \cup {Operator} : Fits(content[f])
    /\ \A c \in Clients : task[c] \in {"save", "write"} => Fits(Saved(c))

LEMMA EmptyFits == Fits({})
  BY FS_EmptySet DEF Fits

LEMMA AcceptableFits ==
  ASSUME NEW c \in Clients, Fits(file), Acceptable(c)
  PROVE  Fits(file \cup {Key(c)})
<1>1. Key(c) \notin file /\ Key(c).name = wanted[c]
  BY DEF Acceptable, Key
<1>2. IsFiniteSet(file \cup {Key(c)}) /\ Cardinality(file \cup {Key(c)}) = Cardinality(file) + 1
  BY <1>1, FS_AddElement DEF Fits
<1>3. Cardinality(file) \in Nat /\ Cardinality(file) < MaxKeys
  BY FS_CardinalityType DEF Fits, Acceptable
<1>4. \A k, l \in file \cup {Key(c)} : k.name = l.name => k = l
  BY <1>1 DEF Fits, Acceptable
<1> QED BY <1>2, <1>3, <1>4 DEF Fits

LEMMA InitLimit == Init => LimitInv
<1> SUFFICES ASSUME Init PROVE LimitInv
  OBVIOUS
<1> DEFINE first == [owner |-> Operator, name |-> "operator"]
<1>1. IsFiniteSet({first}) /\ Cardinality({first}) = 1
  BY FS_Singleton
<1>2. Fits({first})
  BY <1>1 DEF Fits
<1> QED BY <1>2, EmptyFits DEF Init, LimitInv

LEMMA NextKeepsLimit == TypeOK /\ LimitInv /\ [Next]_vars => LimitInv'
<1> SUFFICES ASSUME TypeOK, LimitInv, [Next]_vars PROVE LimitInv'
  OBVIOUS
<1> USE DEF LimitInv
<1>1. CASE UNCHANGED vars
  BY <1>1 DEF Saved, Key
<1>2. ASSUME NEW c \in Clients, Ask(c) \/ LockGate(c) \/ Publish(c) \/ Fail(c) \/ HangUp(c)
      PROVE  LimitInv'
  BY <1>2 DEF TypeOK, Ask, LockGate, Publish, Fail, HangUp, Saved, Key
<1>3. ASSUME NEW c \in Clients, LoadKeys(c) PROVE LimitInv'
  <2>1. Fits(file)
    BY DEF file, TypeOK
  <2>2. task'[c] = "save" => Fits(Saved(c)')
    BY <1>3, <2>1, AcceptableFits DEF LoadKeys, TypeOK, Saved, Key
  <2>3. \A d \in Clients : d # c => Saved(d)' = Saved(d) /\ task'[d] = task[d]
    BY <1>3 DEF LoadKeys, TypeOK, Saved, Key
  <2> QED BY <1>3, <2>2, <2>3 DEF LoadKeys, TypeOK
<1>4. ASSUME NEW c \in Clients, OpenTemp(c) PROVE LimitInv'
  <2>1. \A f \in Clients \cup {Operator} : content'[f] = content[f] \/ content'[f] = {}
    BY <1>4 DEF OpenTemp, TypeOK
  <2>2. \A d \in Clients : task'[d] \in {"save", "write"} =>
            task[d] \in {"save", "write"} /\ Saved(d)' = Saved(d)
    BY <1>4 DEF OpenTemp, TypeOK, Saved, Key
  <2> QED BY <2>1, <2>2, EmptyFits
<1>5. ASSUME NEW c \in Clients, WriteTemp(c) PROVE LimitInv'
  <2>1. \A f \in Clients \cup {Operator} : content'[f] \in {content[f], {}, Saved(c)}
    BY <1>5 DEF WriteTemp, TypeOK
  <2>2. Fits(Saved(c))
    BY <1>5 DEF WriteTemp
  <2>3. \A d \in Clients : task'[d] \in {"save", "write"} =>
            task[d] \in {"save", "write"} /\ Saved(d)' = Saved(d)
    BY <1>5 DEF WriteTemp, FailedSave, TypeOK, Saved, Key
  <2> QED BY <2>1, <2>2, <2>3, EmptyFits
<1>6. ASSUME NEW c \in Clients, RenameTemp(c) PROVE LimitInv'
  <2>1. \A d \in Clients : task'[d] \in {"save", "write"} =>
            task[d] \in {"save", "write"} /\ Saved(d)' = Saved(d)
    BY <1>6 DEF RenameTemp, FailedSave, TypeOK, Saved, Key
  <2> QED BY <1>6, <2>1 DEF RenameTemp
<1>7. CASE Restart
  <2>1. \A f \in Clients \cup {Operator} : content'[f] = content[f] \/ content'[f] = {}
    BY <1>7 DEF Restart, TypeOK, file
  <2> QED BY <1>7, <2>1, EmptyFits DEF Restart
<1> QED BY <1>1, <1>2, <1>3, <1>4, <1>5, <1>6, <1>7 DEF Next

(* The limit and the uniqueness of names hold of the key file for any      *)
(* number of concurrent create_non_admin calls, and whatever their clients *)
(* and the file system do.                                                 *)
THEOREM LimitHolds == Spec => []LimitAndNamesHold
<1>1. TypeOK /\ LimitInv => LimitAndNamesHold
  BY DEF TypeOK, LimitInv, Fits, LimitAndNamesHold, file
<1> QED BY <1>1, InitLimit, NextKeepsLimit, TypeCorrect, PTL DEF Spec

-----------------------------------------------------------------------------
(* The key file.                                                           *)

Kept(db) == DOMAIN db # {} => EnabledAdmins(db) # {}

(* The strengthening: copies keep an admin as the file does.               *)
CopiesKeepAnAdmin ==
    /\ Kept(disk)
    /\ \A w \in Writers : Kept(copy[w])
    /\ \A i \in Issuers : phase[i] = "open" => issue[i].name \notin DOMAIN copy[i]
    /\ \A m \in Managers :
        phase[m] = "open" /\ app[m].mode = "ConfirmDelete" =>
            EnabledAdmins(copy[m]) # {app[m].selected}

-----------------------------------------------------------------------------
(* Operators on files.                                                     *)

LEMMA FileFacts ==
    ASSUME NEW db \in Files
    PROVE  /\ DOMAIN db \subseteq KeyNames
           /\ \A n \in DOMAIN db : db[n] \in Flags
  BY DEF Files

LEMMA FileIntro ==
    ASSUME NEW N \in SUBSET KeyNames, NEW db \in [N -> Flags]
    PROVE  db \in Files
  BY DEF Files

LEMMA NoKeysFile == NoKeys \in Files /\ DOMAIN NoKeys = {}
<1>1. NoKeys \in [{} -> Flags]
  BY DEF NoKeys, Flags
<1>2. {} \in SUBSET KeyNames
  OBVIOUS
<1> QED BY <1>1, <1>2, FileIntro DEF NoKeys

LEMMA WithoutFile ==
    ASSUME NEW db \in Files, NEW n
    PROVE  Without(db, n) \in Files /\ DOMAIN Without(db, n) = DOMAIN db \ {n}
<1>1. DOMAIN db \ {n} \in SUBSET KeyNames
  BY FileFacts
<1>2. Without(db, n) \in [DOMAIN db \ {n} -> Flags]
  BY FileFacts DEF Without
<1> QED BY <1>1, <1>2, FileIntro DEF Without

LEMMA WithFile ==
    ASSUME NEW db \in Files, NEW n \in KeyNames, NEW flags \in Flags
    PROVE  With(db, n, flags) \in Files /\ DOMAIN With(db, n, flags) = DOMAIN db \cup {n}
<1>1. DOMAIN db \cup {n} \in SUBSET KeyNames
  BY FileFacts
<1>2. With(db, n, flags) \in [DOMAIN db \cup {n} -> Flags]
  BY FileFacts DEF With
<1> QED BY <1>1, <1>2, FileIntro DEF With

LEMMA ToggleFile ==
    ASSUME NEW db \in Files, NEW n \in DOMAIN db, NEW flags \in Flags
    PROVE  [db EXCEPT ![n] = flags] \in Files
           /\ DOMAIN [db EXCEPT ![n] = flags] = DOMAIN db
<1>1. DOMAIN db \in SUBSET KeyNames /\ db \in [DOMAIN db -> Flags]
  BY DEF Files
<1>2. [db EXCEPT ![n] = flags] \in [DOMAIN db -> Flags]
  BY <1>1
<1> QED BY <1>1, <1>2, FileIntro

(* Deleting a key that is not the only enabled admin leaves one.           *)
LEMMA WithoutKeeps ==
    ASSUME NEW db \in Files, NEW n, EnabledAdmins(db) # {}, EnabledAdmins(db) # {n}
    PROVE  EnabledAdmins(Without(db, n)) # {}
<1>1. PICK k \in EnabledAdmins(db) : k # n
  OBVIOUS
<1>2. k \in DOMAIN Without(db, n) /\ Without(db, n)[k] = db[k]
  BY <1>1 DEF EnabledAdmins, Without
<1> QED BY <1>1, <1>2 DEF EnabledAdmins

(* Changing its flags leaves one too.                                      *)
LEMMA ToggleKeeps ==
    ASSUME NEW db \in Files, NEW n, NEW flags,
           EnabledAdmins(db) # {}, EnabledAdmins(db) # {n}
    PROVE  EnabledAdmins([db EXCEPT ![n] = flags]) # {}
<1>1. PICK k \in EnabledAdmins(db) : k # n
  OBVIOUS
<1>2. k \in DOMAIN [db EXCEPT ![n] = flags] /\ [db EXCEPT ![n] = flags][k] = db[k]
  BY <1>1 DEF EnabledAdmins
<1> QED BY <1>1, <1>2 DEF EnabledAdmins

(* A new key is an enabled admin or joins one.                             *)
LEMMA WithKeeps ==
    ASSUME NEW db \in Files, NEW n \in KeyNames, n \notin DOMAIN db, NEW admin \in BOOLEAN,
           Kept(db)
    PROVE  Kept(With(db, n, [admin |-> admin \/ DOMAIN db = {}, disabled |-> FALSE]))
<1> DEFINE new == With(db, n, [admin |-> admin \/ DOMAIN db = {}, disabled |-> FALSE])
<1>1. CASE DOMAIN db = {}
  <2>1. n \in DOMAIN new /\ new[n] = [admin |-> TRUE, disabled |-> FALSE]
    BY <1>1 DEF With
  <2>2. n \in EnabledAdmins(new)
    BY <2>1 DEF EnabledAdmins
  <2> QED BY <2>2 DEF Kept
<1>2. CASE DOMAIN db # {}
  <2>1. PICK k \in EnabledAdmins(db) : TRUE
    BY <1>2 DEF Kept
  <2>2. k \in DOMAIN new /\ new[k] = db[k]
    BY <2>1 DEF With, EnabledAdmins
  <2>3. k \in EnabledAdmins(new)
    BY <2>1, <2>2 DEF EnabledAdmins
  <2> QED BY <2>3 DEF Kept
<1> QED BY <1>1, <1>2

(* Both toggles replace the flags of one key.                              *)
LEMMA Toggles ==
    ASSUME NEW db \in Files, NEW n \in DOMAIN db
    PROVE  /\ [db EXCEPT ![n].admin = ~@] =
                  [db EXCEPT ![n] = [db[n] EXCEPT !.admin = ~db[n].admin]]
           /\ [db EXCEPT ![n].disabled = ~@] =
                  [db EXCEPT ![n] = [db[n] EXCEPT !.disabled = ~db[n].disabled]]
           /\ [db[n] EXCEPT !.admin = ~db[n].admin] \in Flags
           /\ [db[n] EXCEPT !.disabled = ~db[n].disabled] \in Flags
<1>1. db[n] \in Flags
  BY FileFacts
<1> QED BY <1>1 DEF Flags

-----------------------------------------------------------------------------
(* Types.                                                                  *)

LEMMA ManagerTypeInit == ManagerInit => ManagerTypeOK
<1> SUFFICES ASSUME ManagerInit PROVE ManagerTypeOK
  OBVIOUS
<1>1. Closed \in [selected : KeyNames, dirty : BOOLEAN,
                   mode : {"Browse", "ConfirmDelete", "ConfirmDiscard"}]
  BY WritersAssumption DEF Closed
<1>2. (CHOOSE n \in KeyNames : TRUE) \in KeyNames
  BY WritersAssumption
<1> QED BY <1>1, <1>2, NoKeysFile DEF ManagerInit, ManagerTypeOK, Writers

LEMMA ManagerTypeNext == ManagerTypeOK /\ [ManagerNext]_managerVars => ManagerTypeOK'
<1> SUFFICES ASSUME ManagerTypeOK, [ManagerNext]_managerVars PROVE ManagerTypeOK'
  OBVIOUS
<1> USE DEF ManagerTypeOK
<1>0. Managers \subseteq Writers /\ Issuers \subseteq Writers
      /\ Managers \cap Issuers = {}
  BY WritersAssumption DEF Writers
<1>c. Closed \in [selected : KeyNames, dirty : BOOLEAN,
                   mode : {"Browse", "ConfirmDelete", "ConfirmDiscard"}]
  BY WritersAssumption DEF Closed
<1>d. DOMAIN disk \subseteq KeyNames
  BY FileFacts
<1>1. ASSUME NEW m \in Managers, OpenManager(m) PROVE ManagerTypeOK'
  BY <1>1, <1>0, <1>d DEF OpenManager, Load
<1>2. ASSUME NEW m \in Managers, Move(m) PROVE ManagerTypeOK'
  <2>1. DOMAIN copy[m] \subseteq KeyNames
    BY <1>0, FileFacts
  <2> QED BY <1>2, <1>0, <2>1 DEF Move, Browsing
<1>3. ASSUME NEW m \in Managers, ToggleAdmin(m) \/ ToggleDisabled(m) PROVE ManagerTypeOK'
  <2>1. copy[m] \in Files /\ app[m].selected \in DOMAIN copy[m]
    BY <1>3, <1>0 DEF ToggleAdmin, ToggleDisabled, Browsing
  <2>2. PICK flags \in Flags : Edit(m, [copy[m] EXCEPT ![app[m].selected] = flags])
    BY <1>3, <2>1, Toggles DEF ToggleAdmin, ToggleDisabled
  <2>3. [copy[m] EXCEPT ![app[m].selected] = flags] \in Files
        /\ DOMAIN [copy[m] EXCEPT ![app[m].selected] = flags] = DOMAIN copy[m]
    BY <2>1, ToggleFile
  <2>4. app' = [app EXCEPT ![m].dirty = TRUE]
    BY <2>2 DEF Edit
  <2>5. \A v \in Managers : app'[v].selected = app[v].selected
    BY <2>4
  <2>6. /\ copy' \in [Writers -> Files]
        /\ \A v \in Managers : DOMAIN copy'[v] = DOMAIN copy[v]
    BY <2>2, <2>3, <1>0 DEF Edit
  <2>7. app' \in [Managers -> [selected : KeyNames, dirty : BOOLEAN,
                             mode : {"Browse", "ConfirmDelete", "ConfirmDiscard"}]]
    BY <2>4
  <2> QED BY <2>2, <2>5, <2>6, <2>7 DEF Edit
<1>4. ASSUME NEW m \in Managers, AskDelete(m) \/ Cancel(m) \/ AskDiscard(m) PROVE ManagerTypeOK'
  BY <1>4, <1>0 DEF AskDelete, Cancel, AskDiscard
<1>5. ASSUME NEW m \in Managers, Delete(m) PROVE ManagerTypeOK'
  <2>1. /\ Without(copy[m], app[m].selected) \in Files
        /\ DOMAIN Without(copy[m], app[m].selected) \subseteq KeyNames
    BY <1>0, WithoutFile, FileFacts
  <2> QED BY <1>5, <2>1, <1>0 DEF Delete
<1>6. ASSUME NEW m \in Managers, SaveEdits(m) PROVE ManagerTypeOK'
  <2>1. revoked' \subseteq KeyNames
    BY <1>6, <1>d DEF SaveEdits, RevokedBy
  <2>2. copy' = [copy EXCEPT ![m] = copy[m]] /\ disk' = copy[m]
    BY <1>6 DEF SaveEdits, Save
  <2>3. copy' = copy
    BY <2>2, <1>0
  <2>4. app' = [app EXCEPT ![m].dirty = FALSE]
    BY <1>6 DEF SaveEdits
  <2>5. \A v \in Managers : app'[v].selected = app[v].selected
    BY <2>4
  <2>6. app' \in [Managers -> [selected : KeyNames, dirty : BOOLEAN,
                             mode : {"Browse", "ConfirmDelete", "ConfirmDiscard"}]]
    BY <2>4
  <2>7. stale' \subseteq Writers /\ overlapped' \in BOOLEAN /\ ended' \subseteq KeyNames
    BY <1>6, <2>1 DEF SaveEdits, Save
  <2> QED BY <1>6, <1>0, <2>1, <2>2, <2>3, <2>5, <2>6, <2>7 DEF SaveEdits
<1>7. ASSUME NEW m \in Managers, ReloadFile(m) PROVE ManagerTypeOK'
  <2>1. PICK n \in DOMAIN disk : app' = [app EXCEPT ![m].selected = n, ![m].dirty = FALSE]
    BY <1>7 DEF ReloadFile
  <2>2. /\ app'[m].selected = n
        /\ \A v \in Managers \ {m} : app'[v] = app[v]
    BY <2>1
  <2>3. app' \in [Managers -> [selected : KeyNames, dirty : BOOLEAN,
                             mode : {"Browse", "ConfirmDelete", "ConfirmDiscard"}]]
    BY <2>1, <1>d
  <2>4. copy' = [copy EXCEPT ![m] = disk]
    BY <1>7 DEF ReloadFile, Load
  <2>5. \A v \in Managers : phase'[v] = "open" => app'[v].selected \in DOMAIN copy'[v]
    BY <1>7, <1>0, <2>2, <2>4 DEF ReloadFile
  <2> QED BY <1>7, <1>0, <2>3, <2>4, <2>5 DEF ReloadFile, Load
<1>8. ASSUME NEW m \in Managers, Quit(m) PROVE ManagerTypeOK'
  BY <1>8, <1>0, <1>c, NoKeysFile DEF Quit
<1>9. ASSUME NEW i \in Issuers, LoadIssuer(i) PROVE ManagerTypeOK'
  BY <1>9, <1>0 DEF LoadIssuer, Load
<1>10. ASSUME NEW i \in Issuers, SaveIssuer(i) PROVE ManagerTypeOK'
  <2>1. Issued(i) \in Files
    BY <1>0, WithFile DEF Issued, Flags
  <2>2. i \notin Managers
    BY <1>0
  <2> QED BY <1>10, <1>0, <2>1, <2>2, NoKeysFile DEF SaveIssuer, Save
<1>11. ASSUME NEW i \in Issuers, GiveUp(i) PROVE ManagerTypeOK'
  BY <1>11, <1>0, NoKeysFile DEF GiveUp
<1>12. ASSUME StartProxy PROVE ManagerTypeOK'
  BY <1>12, <1>0, NoKeysFile DEF StartProxy
<1>13. ASSUME UNCHANGED managerVars PROVE ManagerTypeOK'
  BY <1>13 DEF managerVars
<1> QED BY <1>1, <1>2, <1>3, <1>4, <1>5, <1>6, <1>7, <1>8, <1>9, <1>10, <1>11, <1>12, <1>13
        DEF ManagerNext

-----------------------------------------------------------------------------
(* The admin key.                                                          *)

LEMMA CopiesInit == ManagerInit => CopiesKeepAnAdmin
  BY NoKeysFile DEF ManagerInit, CopiesKeepAnAdmin, Kept, Writers

LEMMA CopiesNext ==
    ManagerTypeOK /\ CopiesKeepAnAdmin /\ [ManagerNext]_managerVars => CopiesKeepAnAdmin'
<1> SUFFICES ASSUME ManagerTypeOK, CopiesKeepAnAdmin, [ManagerNext]_managerVars
             PROVE  CopiesKeepAnAdmin'
  OBVIOUS
<1> USE DEF ManagerTypeOK, CopiesKeepAnAdmin
<1>0. Managers \subseteq Writers /\ Issuers \subseteq Writers
      /\ Managers \cap Issuers = {}
  BY WritersAssumption DEF Writers
<1>k. Kept(NoKeys)
  BY NoKeysFile DEF Kept
<1>1. ASSUME NEW m \in Managers, OpenManager(m) PROVE CopiesKeepAnAdmin'
  <2>1. copy' = [copy EXCEPT ![m] = disk] /\ disk' = disk /\ issue' = issue
    BY <1>1 DEF OpenManager, Load
  <2>2. PICK n \in DOMAIN disk :
            app' = [app EXCEPT ![m] = [selected |-> n, dirty |-> FALSE, mode |-> "Browse"]]
    BY <1>1 DEF OpenManager
  <2>3. \A v \in Managers \ {m} : app'[v] = app[v] /\ phase'[v] = phase[v] /\ copy'[v] = copy[v]
    BY <1>1, <1>0, <2>1, <2>2 DEF OpenManager
  <2>4. app'[m].mode = "Browse"
    BY <2>2
  <2>5. \A i \in Issuers : phase'[i] = phase[i] /\ copy'[i] = copy[i]
    BY <1>1, <1>0, <2>1 DEF OpenManager
  <2>6. \A w \in Writers : Kept(copy'[w])
    BY <2>1
  <2> QED BY <2>1, <2>3, <2>4, <2>5, <2>6
<1>2. ASSUME NEW m \in Managers, Move(m) PROVE CopiesKeepAnAdmin'
  BY <1>2, <1>0 DEF Move, Browsing
<1>3. ASSUME NEW m \in Managers, ToggleAdmin(m) \/ ToggleDisabled(m) PROVE CopiesKeepAnAdmin'
  <2>1. /\ copy[m] \in Files /\ app[m].selected \in DOMAIN copy[m]
        /\ app[m].mode = "Browse" /\ EnabledAdmins(copy[m]) # {app[m].selected}
    BY <1>3, <1>0 DEF ToggleAdmin, ToggleDisabled, Browsing, WouldOrphanAdmin
  <2>2. PICK flags \in Flags : Edit(m, [copy[m] EXCEPT ![app[m].selected] = flags])
    BY <1>3, <2>1, Toggles DEF ToggleAdmin, ToggleDisabled
  <2>3. EnabledAdmins(copy[m]) # {}
    BY <2>1, <1>0 DEF Kept
  <2>4. Kept([copy[m] EXCEPT ![app[m].selected] = flags])
    BY <2>1, <2>3, ToggleKeeps DEF Kept
  <2> QED BY <2>1, <2>2, <2>4, <1>0 DEF Edit
<1>4. ASSUME NEW m \in Managers, AskDelete(m) \/ Cancel(m) \/ AskDiscard(m)
      PROVE CopiesKeepAnAdmin'
  <2>1. /\ disk' = disk /\ copy' = copy /\ phase' = phase /\ issue' = issue
        /\ \A v \in Managers \ {m} : app'[v] = app[v]
        /\ app'[m].selected = app[m].selected
        /\ app'[m].mode = "ConfirmDelete" => ~WouldOrphanAdmin(m)
    BY <1>4 DEF AskDelete, Cancel, AskDiscard
  <2> QED BY <2>1 DEF WouldOrphanAdmin
<1>5. ASSUME NEW m \in Managers, Delete(m) PROVE CopiesKeepAnAdmin'
  <2>1. /\ copy[m] \in Files /\ app[m].selected \in DOMAIN copy[m]
        /\ EnabledAdmins(copy[m]) # {app[m].selected}
    BY <1>5, <1>0 DEF Delete
  <2>2. EnabledAdmins(copy[m]) # {}
    BY <2>1, <1>0 DEF Kept
  <2>3. Kept(Without(copy[m], app[m].selected))
    BY <2>1, <2>2, WithoutKeeps DEF Kept
  <2>4. /\ copy' = [copy EXCEPT ![m] = Without(copy[m], app[m].selected)]
        /\ disk' = disk /\ issue' = issue /\ phase' = phase
    BY <1>5 DEF Delete
  <2>5. /\ app'[m].mode = "Browse"
        /\ \A v \in Managers \ {m} : app'[v] = app[v] /\ copy'[v] = copy[v]
    BY <1>5, <1>0, <2>4 DEF Delete
  <2>6. \A i \in Issuers : copy'[i] = copy[i]
    BY <1>0, <2>4
  <2>7. \A w \in Writers : Kept(copy'[w])
    BY <2>3, <2>4
  <2> QED BY <2>4, <2>5, <2>6, <2>7
<1>6. ASSUME NEW m \in Managers, SaveEdits(m) PROVE CopiesKeepAnAdmin'
  <2>1. copy' = [copy EXCEPT ![m] = copy[m]] /\ disk' = copy[m]
    BY <1>6 DEF SaveEdits, Save
  <2> QED BY <1>6, <2>1, <1>0 DEF SaveEdits
<1>7. ASSUME NEW m \in Managers, ReloadFile(m) PROVE CopiesKeepAnAdmin'
  <2>1. copy' = [copy EXCEPT ![m] = disk] /\ disk' = disk /\ issue' = issue /\ phase' = phase
    BY <1>7 DEF ReloadFile, Load
  <2>2. /\ app'[m].mode = "Browse"
        /\ \A v \in Managers \ {m} : app'[v] = app[v] /\ copy'[v] = copy[v]
    BY <1>7, <1>0, <2>1 DEF ReloadFile, Browsing
  <2>3. \A i \in Issuers : copy'[i] = copy[i]
    BY <1>0, <2>1
  <2>4. \A w \in Writers : Kept(copy'[w])
    BY <2>1
  <2> QED BY <2>1, <2>2, <2>3, <2>4
<1>8. ASSUME NEW m \in Managers, Quit(m) PROVE CopiesKeepAnAdmin'
  BY <1>8, <1>0, <1>k DEF Quit
<1>9. ASSUME NEW i \in Issuers, LoadIssuer(i) PROVE CopiesKeepAnAdmin'
  <2>1. PICK n \in KeyNames \ DOMAIN disk, admin \in BOOLEAN, proxy \in BOOLEAN :
            issue' = [issue EXCEPT ![i] = [name |-> n, admin |-> admin, proxy |-> proxy]]
    BY <1>9 DEF LoadIssuer
  <2>2. copy' = [copy EXCEPT ![i] = disk] /\ disk' = disk /\ app' = app
    BY <1>9 DEF LoadIssuer, Load
  <2>3. issue'[i].name \notin DOMAIN copy'[i]
    BY <2>1, <2>2, <1>0
  <2>4. \A v \in Writers \ {i} : phase'[v] = phase[v] /\ copy'[v] = copy[v]
    BY <1>9, <1>0, <2>2 DEF LoadIssuer
  <2>5. \A j \in Issuers \ {i} : issue'[j] = issue[j]
    BY <2>1
  <2>6. \A w \in Writers : Kept(copy'[w])
    BY <2>2
  <2>7. \A m \in Managers : m # i
    BY <1>0
  <2> QED BY <2>2, <2>3, <2>4, <2>5, <2>6, <2>7, <1>0
<1>10. ASSUME NEW i \in Issuers, SaveIssuer(i) PROVE CopiesKeepAnAdmin'
  <2>1. Kept(Issued(i))
    BY <1>10, <1>0, WithKeeps DEF SaveIssuer, Issued
  <2>2. copy' = [copy EXCEPT ![i] = NoKeys] /\ disk' = Issued(i)
    BY <1>10, <1>0 DEF SaveIssuer, Save
  <2> QED BY <1>10, <2>1, <2>2, <1>0, <1>k DEF SaveIssuer
<1>11. ASSUME NEW i \in Issuers, GiveUp(i) PROVE CopiesKeepAnAdmin'
  BY <1>11, <1>0, <1>k DEF GiveUp
<1>12. ASSUME StartProxy PROVE CopiesKeepAnAdmin'
  BY <1>12, <1>0, <1>k DEF StartProxy
<1>13. ASSUME UNCHANGED managerVars PROVE CopiesKeepAnAdmin'
  BY <1>13 DEF managerVars
<1> QED BY <1>1, <1>2, <1>3, <1>4, <1>5, <1>6, <1>7, <1>8, <1>9, <1>10, <1>11, <1>12, <1>13
        DEF ManagerNext

-----------------------------------------------------------------------------
(* Revocation.                                                             *)

(* The strengthening: an issuer whose copy is not stale has the file's     *)
(* contents, and the proxy's snapshot lets in no key whose end it has      *)
(* started with.                                                           *)
CopiesAreFresh ==
    \A i \in Issuers : phase[i] = "open" /\ i \notin stale => copy[i] = disk

RevocationInv ==
    /\ CopiesAreFresh
    /\ ended \subseteq revoked
    /\ RevokedStaysRevoked

(* Issuing a key leaves every other key as usable as it was.               *)
LEMMA WithAllows ==
    ASSUME NEW db, NEW n, NEW flags, NEW k, k # n
    PROVE  Allows(With(db, n, flags), k) <=> Allows(db, k)
  BY DEF Allows, With

(* Before the first key there is nothing to revoke.                        *)
LEMMA RevocationInit == ManagerInit => RevocationInv
  BY DEF ManagerInit, RevocationInv, CopiesAreFresh, RevokedStaysRevoked, Writers

(* A step that saves nothing and starts no proxy: issuers only load the    *)
(* file or close.                                                          *)
LEMMA QuietKeepsRevocation ==
    ASSUME RevocationInv, UNCHANGED <<disk, snapshot, revoked, ended, overlapped>>,
           \A i \in Issuers : phase'[i] = "open" /\ i \notin stale' =>
               \/ copy'[i] = disk
               \/ phase[i] = "open" /\ i \notin stale /\ copy'[i] = copy[i]
    PROVE  RevocationInv'
<1>1. CopiesAreFresh'
  BY DEF RevocationInv, CopiesAreFresh
<1>2. RevokedStaysRevoked'
  BY DEF RevocationInv, RevokedStaysRevoked, Authenticated
<1> QED BY <1>1, <1>2 DEF RevocationInv

(* Every step keeps revoked keys out.                                      *)
LEMMA RevocationNext ==
    ManagerTypeOK /\ RevocationInv /\ [ManagerNext]_managerVars => RevocationInv'
<1> SUFFICES ASSUME ManagerTypeOK, RevocationInv, [ManagerNext]_managerVars
             PROVE  RevocationInv'
  OBVIOUS
<1>0. /\ Managers \subseteq Writers /\ Issuers \subseteq Writers
      /\ Managers \cap Issuers = {}
      /\ copy \in [Writers -> Files] /\ phase \in [Writers -> {"idle", "open"}]
  BY WritersAssumption DEF Writers, ManagerTypeOK
<1>1. ASSUME NEW m \in Managers, \/ OpenManager(m) \/ Move(m) \/ ToggleAdmin(m)
                                 \/ ToggleDisabled(m) \/ AskDelete(m) \/ Delete(m)
                                 \/ Cancel(m) \/ ReloadFile(m) \/ AskDiscard(m) \/ Quit(m)
      PROVE RevocationInv'
  <2>1. UNCHANGED <<disk, snapshot, revoked, ended, overlapped>>
    BY <1>1 DEF OpenManager, Move, ToggleAdmin, ToggleDisabled, Edit, AskDelete, Delete,
                Cancel, ReloadFile, AskDiscard, Quit
  <2>2. \A i \in Issuers : i # m
    BY <1>0
  <2>3. \A i \in Issuers : phase'[i] = phase[i] /\ copy'[i] = copy[i]
    BY <1>0, <1>1, <2>2 DEF OpenManager, Load, Move, ToggleAdmin, ToggleDisabled, Edit,
                AskDelete, Delete, Cancel, ReloadFile, AskDiscard, Quit
  <2>4. stale' \in {stale, stale \ {m}}
    BY <1>1 DEF OpenManager, Load, Move, ToggleAdmin, ToggleDisabled, Edit,
                AskDelete, Delete, Cancel, ReloadFile, AskDiscard, Quit
  <2> QED BY <2>1, <2>2, <2>3, <2>4, QuietKeepsRevocation
<1>2. ASSUME NEW m \in Managers, SaveEdits(m) PROVE RevocationInv'
  <2>1. /\ disk' = copy[m] /\ snapshot' = snapshot /\ phase' = phase
        /\ revoked' = RevokedBy(copy[m]) /\ ended' = ended \cap revoked'
        /\ stale' = (stale \cup {v \in Writers : phase[v] = "open"}) \ {m}
        /\ overlapped' = (overlapped \/ m \in stale)
    BY <1>2 DEF SaveEdits, Save
  <2>2. CopiesAreFresh'
    BY <2>1, <1>0 DEF CopiesAreFresh
  <2>3. \A n \in revoked' : ~Allows(disk', n)
    BY <2>1 DEF RevokedBy, Allows
  <2>4. ~overlapped => \A n \in ended' : ~Allows(snapshot', n)
    BY <2>1 DEF RevocationInv, RevokedStaysRevoked, Authenticated
  <2>5. RevokedStaysRevoked'
    BY <2>1, <2>3, <2>4 DEF RevokedStaysRevoked, Authenticated
  <2> QED BY <2>1, <2>2, <2>5 DEF RevocationInv
<1>3. ASSUME NEW i \in Issuers, LoadIssuer(i) PROVE RevocationInv'
  <2>1. /\ UNCHANGED <<disk, snapshot, revoked, ended, overlapped>>
        /\ copy' = [copy EXCEPT ![i] = disk] /\ stale' = stale \ {i}
        /\ phase' = [phase EXCEPT ![i] = "open"]
    BY <1>3 DEF LoadIssuer, Load
  <2>2. copy'[i] = disk
    BY <2>1, <1>0
  <2>3. \A j \in Issuers \ {i} : copy'[j] = copy[j] /\ phase'[j] = phase[j]
    BY <2>1, <1>0
  <2> QED BY <2>1, <2>2, <2>3, QuietKeepsRevocation
<1>4. ASSUME NEW i \in Issuers, SaveIssuer(i) PROVE RevocationInv'
  <2>1. /\ phase[i] = "open" /\ disk' = Issued(i)
        /\ stale' = (stale \cup {v \in Writers : phase[v] = "open"}) \ {i}
        /\ overlapped' = (overlapped \/ i \in stale)
        /\ phase' = [phase EXCEPT ![i] = "idle"]
        /\ snapshot' = IF issue[i].proxy THEN Issued(i) ELSE snapshot
        /\ revoked' = revoked \ {issue[i].name} /\ ended' = ended \ {issue[i].name}
    BY <1>4 DEF SaveIssuer, Save
  <2>2. CopiesAreFresh'
    BY <2>1, <1>0 DEF CopiesAreFresh
  <2>3. ASSUME ~overlapped' PROVE \A n \in revoked' : ~Allows(Issued(i), n)
    <3>1. ~overlapped /\ copy[i] = disk
      BY <2>1, <2>3 DEF RevocationInv, CopiesAreFresh
    <3>2. \A n \in revoked' : n # issue[i].name /\ ~Allows(copy[i], n)
      BY <2>1, <3>1 DEF RevocationInv, RevokedStaysRevoked
    <3> QED BY <3>2, WithAllows DEF Issued
  <2>4. ended' \subseteq revoked'
    BY <2>1 DEF RevocationInv
  <2>5. ~overlapped' => \A n \in ended' : ~Allows(snapshot', n)
    BY <2>1, <2>3, <2>4 DEF RevocationInv, RevokedStaysRevoked, Authenticated
  <2>6. RevokedStaysRevoked'
    BY <2>1, <2>3, <2>5 DEF RevokedStaysRevoked, Authenticated
  <2> QED BY <2>2, <2>4, <2>6 DEF RevocationInv
<1>5. ASSUME NEW i \in Issuers, GiveUp(i) PROVE RevocationInv'
  <2>1. /\ UNCHANGED <<disk, snapshot, revoked, ended, overlapped>>
        /\ copy' = [copy EXCEPT ![i] = NoKeys] /\ stale' = stale \ {i}
        /\ phase' = [phase EXCEPT ![i] = "idle"]
    BY <1>5 DEF GiveUp
  <2>2. phase'[i] = "idle"
    BY <2>1, <1>0
  <2>3. \A j \in Issuers \ {i} : copy'[j] = copy[j] /\ phase'[j] = phase[j]
    BY <2>1, <1>0
  <2> QED BY <2>1, <2>2, <2>3, QuietKeepsRevocation
<1>6. ASSUME StartProxy PROVE RevocationInv'
  <2> DEFINE gone == {i \in Issuers : phase[i] = "open" /\ issue[i].proxy}
  <2>1. /\ UNCHANGED <<disk, revoked, overlapped>> /\ snapshot' = disk /\ ended' = revoked
        /\ phase' = [w \in Writers |-> IF w \in gone THEN "idle" ELSE phase[w]]
        /\ copy' = [w \in Writers |-> IF w \in gone THEN NoKeys ELSE copy[w]]
        /\ stale' = stale \ gone
    BY <1>6 DEF StartProxy
  <2>2. \A i \in Issuers : phase'[i] = "open" => i \notin gone /\ phase[i] = "open" /\ copy'[i] = copy[i]
    BY <2>1, <1>0
  <2>3. CopiesAreFresh'
    BY <2>1, <2>2 DEF RevocationInv, CopiesAreFresh
  <2>4. RevokedStaysRevoked'
    BY <2>1 DEF RevocationInv, RevokedStaysRevoked, Authenticated
  <2> QED BY <2>1, <2>3, <2>4 DEF RevocationInv
<1>7. ASSUME UNCHANGED managerVars PROVE RevocationInv'
  BY <1>7, QuietKeepsRevocation DEF managerVars
<1> QED BY <1>1, <1>2, <1>3, <1>4, <1>5, <1>6, <1>7 DEF ManagerNext

-----------------------------------------------------------------------------
(* The state of the key file's writers is well typed.                      *)
THEOREM ManagerTypesHold == ManagerSpec => []ManagerTypeOK
  BY ManagerTypeInit, ManagerTypeNext, PTL DEF ManagerSpec

(* Once the key file has a key it has an enabled admin key, whatever the   *)
(* managers, `key create` and the registrations save over each other.      *)
THEOREM EnabledAdminIsKept == ManagerSpec => []EnabledAdminKept
<1>1. CopiesKeepAnAdmin => EnabledAdminKept
  BY DEF CopiesKeepAnAdmin, EnabledAdminKept, Kept
<1> QED BY <1>1, ManagerTypesHold, CopiesInit, CopiesNext, PTL DEF ManagerSpec

(* A saved deletion or disabling ends the key, at the latest when          *)
(* KeyStore::from_file has read the file again: no registration, no        *)
(* `key create` and no manager brings it back unless a copy older than the *)
(* file is saved.                                                          *)
THEOREM RevokedIsRevoked == ManagerSpec => []RevokedStaysRevoked
<1>1. RevocationInv => RevokedStaysRevoked
  BY DEF RevocationInv
<1> QED BY <1>1, ManagerTypesHold, RevocationInit, RevocationNext, PTL DEF ManagerSpec

-----------------------------------------------------------------------------
(* Both together: the run's specification implies each of theirs.          *)
LEMMA KeysAreKeys == KeysSpec => Spec /\ ManagerSpec
<1>1. KeysInit => Init /\ ManagerInit
  BY DEF KeysInit
<1>2. [KeysNext]_keysVars => [Next]_vars /\ [ManagerNext]_managerVars
  <2> HIDE DEF vars
  <2> QED BY DEF KeysNext, keysVars
<1> QED BY <1>1, <1>2, PTL DEF KeysSpec, Spec, ManagerSpec

(* What the run of MCKeys checks, for every value of the constants.        *)
THEOREM KeysHold ==
    KeysSpec => [](/\ DurableUnlessDetached /\ LimitAndNamesHold
                   /\ EnabledAdminKept /\ RevokedStaysRevoked)
  BY KeysAreKeys, KeysAreDurable, LimitHolds, EnabledAdminIsKept, RevokedIsRevoked, PTL
=============================================================================
