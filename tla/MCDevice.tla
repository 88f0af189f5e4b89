------------------------------ MODULE MCDevice ------------------------------
(***************************************************************************)
(* TLC instance of Device.                                                 *)
(***************************************************************************)
EXTENDS Device
=============================================================================
