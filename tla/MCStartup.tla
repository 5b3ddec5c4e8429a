----------------------------- MODULE MCStartup -----------------------------
(***************************************************************************)
(* The two parts of a node's start for TLC, side by side: a behaviour is   *)
(* one of NodeIDs or one of Recovery, so the state spaces add up.          *)
(*                                                                         *)
(* NodeIDs has two nodes and two ids: a crash between CAS and registration *)
(* uses the ids up, and the third number of a run meets the end of the     *)
(* LocalSpan.  The bounds of Recovery are those of MCRecovery.             *)
(***************************************************************************)
EXTENDS NodeIDs, MCRecovery

VARIABLE part

StartupInit ==
    /\ Init
    /\ RecoveryInit
    /\ part \in {"ids", "recovery"}
    /\ part = "ids" => lockMgr /\ validate

StartupNext ==
    /\ \/ part = "ids" /\ Next /\ UNCHANGED recoveryVars
       \/ part = "recovery" /\ RecoveryNext /\ UNCHANGED vars
    /\ UNCHANGED part

StartupSpec ==
    StartupInit /\ [][StartupNext]_<<vars, recoveryVars, part>> /\ RecoveryFairness
=============================================================================
