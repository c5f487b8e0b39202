---------------------------- MODULE MCRouterTest ----------------------------
(* A class and a code, and room for two pages around a command.              *)
EXTENDS RouterTest
=============================================================================
