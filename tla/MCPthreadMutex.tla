--------------------------- MODULE MCPthreadMutex ---------------------------
(***************************************************************************)
(* TLC instance of PthreadMutex.                                           *)
(***************************************************************************)
EXTENDS PthreadMutex
=============================================================================
