------------------------------ MODULE KeyManager ------------------------------
(***************************************************************************)
(* The key file and everyone who rewrites it: `key manage` and             *)
(* `key create` of src/manage.rs, and the registrations of a running proxy *)
(* (src/auth.rs), which authenticates with the snapshot it last loaded.    *)
(*                                                                         *)
(* Each writer loads the whole file, changes its copy and replaces the     *)
(* file by rename (src/keys.rs).  A file is a function from the names of   *)
(* its keys to their flags.  Arrow keys take the manager's selection to    *)
(* any row, so the order of the rows is left out.                          *)
(***************************************************************************)
EXTENDS Naturals, FiniteSets

CONSTANTS KeyNames,     \* names of keys
          Managers,     \* processes running `key manage`
          Issuers       \* `key create` processes and registrations at a time

ASSUME WritersAssumption == Managers \cap Issuers = {} /\ KeyNames # {}

VARIABLES
    disk,       \* the key file; empty when there is none
    copy,       \* each writer's copy
    phase,      \* each writer: idle, or open when it holds a copy
    app,        \* each manager's selected, dirty and mode
    issue,      \* each issuer's name, admin flag and whether it is the proxy's
    snapshot,   \* the proxy's snapshot; empty when it is down
    revoked,    \* history: keys whose deletion or disabling was saved
    ended,      \* history: those that were when the proxy last started
    stale,      \* history: writers whose copy is older than the file
    overlapped  \* history: a stale copy was saved

managerVars == <<disk, copy, phase, app, issue, snapshot, revoked, ended, stale, overlapped>>

Writers == Managers \cup Issuers
Flags == [admin : BOOLEAN, disabled : BOOLEAN]
Files == UNION {[N -> Flags] : N \in SUBSET KeyNames}
NoKeys == [n \in {} |-> [admin |-> FALSE, disabled |-> FALSE]]

EnabledAdmins(file) == {n \in DOMAIN file : file[n].admin /\ ~file[n].disabled}
Without(file, n) == [m \in DOMAIN file \ {n} |-> file[m]]
With(file, n, flags) == [m \in DOMAIN file \cup {n} |-> IF m = n THEN flags ELSE file[m]]
Closed == [selected |-> CHOOSE n \in KeyNames : TRUE, dirty |-> FALSE, mode |-> "Browse"]
Usable(file) == \E n \in DOMAIN file : ~file[n].disabled

-----------------------------------------------------------------------------
(* KeyFile::load, into the writer's copy; and KeyFile::save of it.         *)

Load(w) ==
    /\ copy' = [copy EXCEPT ![w] = disk]
    /\ stale' = stale \ {w}

Save(w, file) ==
    /\ disk' = file
    /\ copy' = [copy EXCEPT ![w] = IF w \in Managers THEN file ELSE NoKeys]
    /\ overlapped' = (overlapped \/ w \in stale)
    /\ stale' = (stale \cup {v \in Writers : phase[v] = "open"}) \ {w}

-----------------------------------------------------------------------------
(* manage()                                                                *)

OpenManager(m) ==
    /\ phase[m] = "idle" /\ DOMAIN disk # {}
    /\ Load(m)
    /\ phase' = [phase EXCEPT ![m] = "open"]
    /\ \E n \in DOMAIN disk :
        app' = [app EXCEPT ![m] = [selected |-> n, dirty |-> FALSE, mode |-> "Browse"]]
    /\ UNCHANGED <<disk, issue, snapshot, revoked, ended, overlapped>>

Browsing(m) == phase[m] = "open" /\ app[m].mode = "Browse"

Move(m) ==
    /\ Browsing(m)
    /\ \E n \in DOMAIN copy[m] : app' = [app EXCEPT ![m].selected = n]
    /\ UNCHANGED <<disk, copy, phase, issue, snapshot, revoked, ended, stale, overlapped>>

(* Mutant: an admin key counts although it is disabled.                    *)
WouldOrphanAdminBlind(m) ==
    /\ app[m].selected \in EnabledAdmins(copy[m])
    /\ {n \in DOMAIN copy[m] : copy[m][n].admin} = {app[m].selected}

(* would_orphan_admin: the selected key is the only enabled admin.         *)
WouldOrphanAdmin(m) == EnabledAdmins(copy[m]) = {app[m].selected}

Edit(m, file) ==
    /\ copy' = [copy EXCEPT ![m] = file]
    /\ app' = [app EXCEPT ![m].dirty = TRUE]
    /\ UNCHANGED <<disk, phase, issue, snapshot, revoked, ended, stale, overlapped>>

ToggleAdmin(m) ==
    /\ Browsing(m) /\ ~WouldOrphanAdmin(m)
    /\ Edit(m, [copy[m] EXCEPT ![app[m].selected].admin = ~@])

ToggleDisabled(m) ==
    /\ Browsing(m) /\ ~WouldOrphanAdmin(m)
    /\ Edit(m, [copy[m] EXCEPT ![app[m].selected].disabled = ~@])

AskDelete(m) ==
    /\ Browsing(m) /\ ~WouldOrphanAdmin(m) /\ DOMAIN copy[m] # {app[m].selected}
    /\ app' = [app EXCEPT ![m].mode = "ConfirmDelete"]
    /\ UNCHANGED <<disk, copy, phase, issue, snapshot, revoked, ended, stale, overlapped>>

(* y deletes the row, and the selection falls on another; any other key    *)
(* cancels.                                                                *)
Delete(m) ==
    /\ phase[m] = "open" /\ app[m].mode = "ConfirmDelete"
    /\ LET file == Without(copy[m], app[m].selected) IN
       /\ copy' = [copy EXCEPT ![m] = file]
       /\ \E n \in DOMAIN file :
            app' = [app EXCEPT ![m] = [selected |-> n, dirty |-> TRUE, mode |-> "Browse"]]
    /\ UNCHANGED <<disk, phase, issue, snapshot, revoked, ended, stale, overlapped>>

Cancel(m) ==
    /\ phase[m] = "open" /\ app[m].mode # "Browse"
    /\ app' = [app EXCEPT ![m].mode = "Browse"]
    /\ UNCHANGED <<disk, copy, phase, issue, snapshot, revoked, ended, stale, overlapped>>

(* A key that was usable in the file, and is not in what replaces it, is   *)
(* revoked; one that is usable again is not.                               *)
Allows(file, n) == n \in DOMAIN file /\ ~file[n].disabled
RevokedBy(file) == (revoked \cup {n \in DOMAIN disk : ~Allows(file, n)})
                       \ {n \in DOMAIN file : Allows(file, n)}

(* A save that fails leaves the copy dirty, and changes nothing.           *)
SaveEdits(m) ==
    /\ Browsing(m) /\ app[m].dirty
    /\ Save(m, copy[m])
    /\ app' = [app EXCEPT ![m].dirty = FALSE]
    /\ revoked' = RevokedBy(copy[m])
    /\ ended' = ended \cap revoked'
    /\ UNCHANGED <<phase, issue, snapshot>>

ReloadFile(m) ==
    /\ Browsing(m)
    /\ Load(m)
    /\ \E n \in DOMAIN disk :
        app' = [app EXCEPT ![m].selected = n, ![m].dirty = FALSE]
    /\ UNCHANGED <<disk, phase, issue, snapshot, revoked, ended, overlapped>>

AskDiscard(m) ==
    /\ Browsing(m) /\ app[m].dirty
    /\ app' = [app EXCEPT ![m].mode = "ConfirmDiscard"]
    /\ UNCHANGED <<disk, copy, phase, issue, snapshot, revoked, ended, stale, overlapped>>

(* q when nothing is unsaved, y when it was asked, or Ctrl-C at any time.  *)
Quit(m) ==
    /\ phase[m] = "open"
    /\ phase' = [phase EXCEPT ![m] = "idle"]
    /\ copy' = [copy EXCEPT ![m] = NoKeys]
    /\ app' = [app EXCEPT ![m] = Closed]
    /\ stale' = stale \ {m}
    /\ UNCHANGED <<disk, issue, snapshot, revoked, ended, overlapped>>

-----------------------------------------------------------------------------
(* create() and create_non_admin(): a load and a save.                     *)

(* The proxy registers while it is up; a name that is taken is refused.    *)
LoadIssuer(i) ==
    /\ phase[i] = "idle"
    /\ \E n \in KeyNames \ DOMAIN disk, admin, proxy \in BOOLEAN :
        /\ proxy => DOMAIN snapshot # {} /\ ~admin
        /\ issue' = [issue EXCEPT ![i] = [name |-> n, admin |-> admin, proxy |-> proxy]]
    /\ Load(i)
    /\ phase' = [phase EXCEPT ![i] = "open"]
    /\ UNCHANGED <<disk, app, snapshot, revoked, ended, overlapped>>

(* The first key is always an admin.  A registration publishes what it     *)
(* saved.                                                                  *)
Issued(i) ==
    With(copy[i], issue[i].name,
         [admin |-> issue[i].admin \/ DOMAIN copy[i] = {}, disabled |-> FALSE])

SaveIssuer(i) ==
    /\ phase[i] = "open"
    /\ Save(i, Issued(i))
    /\ phase' = [phase EXCEPT ![i] = "idle"]
    /\ snapshot' = IF issue[i].proxy THEN Issued(i) ELSE snapshot
    /\ revoked' = revoked \ {issue[i].name}
    /\ ended' = ended \ {issue[i].name}
    /\ UNCHANGED <<app, issue>>

(* An error ends it, or the process dies.                                  *)
GiveUp(i) ==
    /\ phase[i] = "open"
    /\ phase' = [phase EXCEPT ![i] = "idle"]
    /\ copy' = [copy EXCEPT ![i] = NoKeys]
    /\ stale' = stale \ {i}
    /\ UNCHANGED <<disk, app, issue, snapshot, revoked, ended, overlapped>>

-----------------------------------------------------------------------------
(* KeyStore::from_file: the proxy starts, again, from a file that has an   *)
(* enabled key; its registrations are gone.                                *)
StartProxy ==
    LET gone == {i \in Issuers : phase[i] = "open" /\ issue[i].proxy} IN
    /\ Usable(disk)
    /\ snapshot' = disk
    /\ ended' = revoked
    /\ phase' = [w \in Writers |-> IF w \in gone THEN "idle" ELSE phase[w]]
    /\ copy' = [w \in Writers |-> IF w \in gone THEN NoKeys ELSE copy[w]]
    /\ stale' = stale \ gone
    /\ UNCHANGED <<disk, app, issue, revoked, overlapped>>

(* Mutant: a key that is known is let in.                                  *)
AuthenticatedKnown(n) == n \in DOMAIN snapshot

(* authenticate(): the presented key is known and enabled.                 *)
Authenticated(n) == Allows(snapshot, n)

-----------------------------------------------------------------------------
ManagerInit ==
    /\ disk = NoKeys
    /\ copy = [w \in Writers |-> NoKeys]
    /\ phase = [w \in Writers |-> "idle"]
    /\ app = [m \in Managers |-> Closed]
    /\ issue = [i \in Issuers |-> [name |-> CHOOSE n \in KeyNames : TRUE,
                                  admin |-> FALSE, proxy |-> FALSE]]
    /\ snapshot = NoKeys
    /\ revoked = {} /\ ended = {} /\ stale = {} /\ overlapped = FALSE

ManagerNext ==
    \/ \E m \in Managers :
        \/ OpenManager(m) \/ Move(m) \/ ToggleAdmin(m) \/ ToggleDisabled(m)
        \/ AskDelete(m) \/ Delete(m) \/ Cancel(m)
        \/ SaveEdits(m) \/ ReloadFile(m) \/ AskDiscard(m) \/ Quit(m)
    \/ \E i \in Issuers : LoadIssuer(i) \/ SaveIssuer(i) \/ GiveUp(i)
    \/ StartProxy

ManagerSpec == ManagerInit /\ [][ManagerNext]_managerVars

-----------------------------------------------------------------------------
(* Types; the row a manager has selected is one of its copy of the file.   *)
ManagerTypeOK ==
    /\ disk \in Files /\ copy \in [Writers -> Files] /\ snapshot \in Files
    /\ phase \in [Writers -> {"idle", "open"}]
    /\ app \in [Managers -> [selected : KeyNames, dirty : BOOLEAN,
                             mode : {"Browse", "ConfirmDelete", "ConfirmDiscard"}]]
    /\ issue \in [Issuers -> [name : KeyNames, admin : BOOLEAN, proxy : BOOLEAN]]
    /\ {revoked, ended} \subseteq SUBSET KeyNames /\ stale \subseteq Writers /\ overlapped \in BOOLEAN
    /\ \A m \in Managers : phase[m] = "open" => app[m].selected \in DOMAIN copy[m]

(* "The last enabled admin key cannot be disabled or deleted", and the     *)
(* first key is an admin's "so the file is never left without one": once   *)
(* the file has a key it has an enabled admin key, whatever managers,      *)
(* `key create` and registrations do to it at the same time, and however   *)
(* stale the copies they save.                                             *)
EnabledAdminKept == DOMAIN disk # {} => EnabledAdmins(disk) # {}

(* Disabling or deleting a key and saving it ends the key, at the latest   *)
(* when the proxy starts again ("Restart mistralrs_proxy to apply          *)
(* changes"): as long as nobody saves a copy older than the file, no       *)
(* registration and no other manager brings it back, in the file or in     *)
(* what the proxy authenticates with.                                      *)
RevokedStaysRevoked ==
    ~overlapped =>
        /\ \A n \in revoked : ~Allows(disk, n)
        /\ \A n \in ended : ~Authenticated(n)
===============================================================================
