----------------------------- MODULE MCScanout -----------------------------
(***************************************************************************)
(* TLC instance of Scanout.                                                *)
(***************************************************************************)
EXTENDS Scanout
=============================================================================
