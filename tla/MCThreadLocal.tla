--------------------------- MODULE MCThreadLocal ---------------------------
(***************************************************************************)
(* TLC instance of ThreadLocal.                                            *)
(***************************************************************************)
EXTENDS ThreadLocal
=============================================================================
