------------------------------ MODULE MCRwLock ------------------------------
(***************************************************************************)
(* TLC instances of RwLock: three tasks, for writers queued behind readers *)
(* and behind each other, and one task that takes many read locks.         *)
(***************************************************************************)
EXTENDS RwLock

ASSUME ReadersFitOrOverflow == ReadersFit \/ MaxHold > 127
=============================================================================
