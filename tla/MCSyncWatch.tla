---------------------------- MODULE MCSyncWatch ----------------------------
(* Two routers and two source files, for TLC. *)
EXTENDS SyncWatch

TwoRouters == <<"owrt2410", "owrt2512">>
=============================================================================
