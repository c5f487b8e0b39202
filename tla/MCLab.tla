------------------------------- MODULE MCLab -------------------------------
(* One container and two VMs; the second VM that is wedged ends the two       *)
(* minutes of a teardown.                                                    *)
EXTENDS Lab
=============================================================================
