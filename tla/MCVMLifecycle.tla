--------------------------- MODULE MCVMLifecycle ---------------------------
(* One router and the owlab process that acts on it, for TLC. *)
EXTENDS VMLifecycle

CONSTANT p1

OneProc == {p1}
=============================================================================
