------------------------------ MODULE MCCondVar ------------------------------
(***************************************************************************)
(* TLC instance of CondVar.                                                *)
(***************************************************************************)
EXTENDS CondVar
=============================================================================
