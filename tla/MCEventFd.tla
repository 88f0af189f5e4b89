----------------------------- MODULE MCEventFd -----------------------------
(***************************************************************************)
(* TLC instance of EventFd.                                                *)
(***************************************************************************)
EXTENDS EventFd

TestTimeouts == {-1, 0, 1, 3}
=============================================================================
