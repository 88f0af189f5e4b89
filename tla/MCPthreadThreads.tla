-------------------------- MODULE MCPthreadThreads --------------------------
(***************************************************************************)
(* TLC instance of PthreadThreads: two pthread tasks besides main, two     *)
(* entries and two results.                                                *)
(***************************************************************************)
EXTENDS PthreadThreads
=============================================================================
