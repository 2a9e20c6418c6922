------------------------------- MODULE MCKeys -------------------------------
(***************************************************************************)
(* The keys of the proxy: registration seen from the handlers of one       *)
(* process (KeyRegistration), and the key file seen from all the processes *)
(* that rewrite it (KeyManager).  They are explored one at a time, each    *)
(* while the other is where it starts.                                     *)
(***************************************************************************)
EXTENDS KeyRegistration, KeyManager

(* The file's writers are explored from one choice of the clients' names.  *)
SomeWish == CHOOSE w \in [Clients -> Names] : TRUE

keysVars == <<vars, managerVars>>

KeysInit == Init /\ ManagerInit

KeysNext ==
    \/ ManagerInit /\ Next /\ UNCHANGED managerVars
    \/ wanted = SomeWish /\ Init /\ ManagerNext /\ UNCHANGED vars

KeysSpec == KeysInit /\ [][KeysNext]_keysVars
=============================================================================
