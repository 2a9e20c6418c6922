------------------------------ MODULE MCReaders ------------------------------
(***************************************************************************)
(* The readers of what other processes write: of a response body, of a     *)
(* metrics page, of the audit log, and of the control server's lists and   *)
(* operations.  They share no state, so they are explored one at a time,   *)
(* each while the others are where they start.                             *)
(***************************************************************************)
EXTENDS UsageSniffer, MetricsText, LogExplorer, BackendConsole

(* Three requests: one of key 1, one of key 2 that failed, and one that    *)
(* makes key 1 a key that forwards users, and failed too.                  *)
MCKey == <<1, 2, 1>>
MCUser == <<0, 0, 1>>
MCMatches == <<1, 0, 1>>

readersVars == <<sniffVars, textVars, explorerVars, consoleVars>>

ReadersInit == SniffInit /\ TextInit /\ ExplorerInit /\ ConsoleInit

ReadersNext ==
    \/ /\ TextInit /\ ExplorerInit /\ ConsoleInit
       /\ SniffNext /\ UNCHANGED <<textVars, explorerVars, consoleVars>>
    \/ /\ SniffInit /\ ExplorerInit /\ ConsoleInit
       /\ TextNext /\ UNCHANGED <<sniffVars, explorerVars, consoleVars>>
    \/ /\ SniffInit /\ TextInit /\ ConsoleInit
       /\ ExplorerNext /\ UNCHANGED <<sniffVars, textVars, consoleVars>>
    \/ /\ SniffInit /\ TextInit /\ ExplorerInit
       /\ ConsoleNext /\ UNCHANGED <<sniffVars, textVars, explorerVars>>

ReadersSpec == ReadersInit /\ [][ReadersNext]_readersVars

(* The type invariants of the scanner, the explorer and the manager.       *)
ReadersTypeOK == SniffTypeOK /\ ExplorerTypeOK /\ ConsoleTypeOK
=============================================================================
