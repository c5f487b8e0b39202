---------------------------- MODULE AtomicCache ----------------------------
(***************************************************************************)
(* What internal/qemu's image cache promises: an image is absent or whole, *)
(* it becomes whole in one step, and whoever is handed a path is handed a  *)
(* whole image, until the host loses power. A power loss may leave half of *)
(* an image, which is then handed out as it is.                            *)
(***************************************************************************)
CONSTANT Procs

VARIABLES image,    \* "absent", "whole", or "half" after a power loss
          caller    \* each caller: "idle", "asking", "served" or "refused"

vars == <<image, caller>>

Init == image = "absent" /\ caller = [p \in Procs |-> "idle"]

Ask(p) ==
  /\ caller[p] # "asking"
  /\ caller' = [caller EXCEPT ![p] = "asking"]
  /\ UNCHANGED image

\* The image appears, and its maker has it; or it was there all along, whole or
\* what a power loss has left of it.
Serve(p) ==
  /\ caller[p] = "asking"
  /\ image' = IF image = "half" THEN "half" ELSE "whole"
  /\ caller' = [caller EXCEPT ![p] = "served"]

\* The maker may also be interrupted, or refused.
Refuse(p, outcome) ==
  /\ caller[p] = "asking"
  /\ caller' = [caller EXCEPT ![p] = outcome]
  /\ UNCHANGED image

\* A power loss may take an image nobody has synced, or a part of it.
Lose ==
  /\ image' \in IF image = "absent" THEN {"absent"} ELSE {image, "absent", "half"}
  /\ caller' = [p \in Procs |-> "idle"]

Next == \/ \E p \in Procs : Ask(p) \/ Serve(p)
        \/ \E p \in Procs, o \in {"idle", "refused"} : Refuse(p, o)
        \/ Lose

Spec == Init /\ [][Next]_vars
=============================================================================
