------------------------------ MODULE Lab_proofs ------------------------------
(***************************************************************************)
(* Proofs about Lab, for any containers, VMs and patience of the teardown: *)
(* what an exit status says, and what a command leaves running. Then about *)
(* RouterTest, for any assertions: what the report of one router says.     *)
(***************************************************************************)
EXTENDS Lab, RouterTest, FiniteSetTheorems, SequenceTheorems, TLAPS

-----------------------------------------------------------------------------
(* Types, and which command gets where *)

PathInv ==
  /\ pc = "idle" => cmd.name = "none" /\ ready = {} /\ unread = {} /\ ~heard
  /\ pc \in {"idle", "exited"} => todo = {}
  /\ pc = "inspect" => ~cmd.build /\ named \subseteq Containers
  /\ pc \in {"inspect", "join", "missing"} => cmd.name = "up"
  /\ pc \in {"build", "start", "vms", "wait"} => cmd.name \in {"up", "test"}
  /\ pc = "checks" => cmd.name = "test"
  /\ pc = "teardown" => cmd.name = "test" /\ ~cmd.keep /\ todo \subseteq VMs
  /\ pc = "down" => cmd.name = "down" /\ todo \subseteq VMs
  /\ cmd.name = "test" => cmd.wait
  /\ cmd.name = "down" => ~cmd.keep
  /\ cmd.all => named = Routers

Typed == TypeOK /\ PathInv

TypedCommand ==
  /\ pc \in Label /\ cmd \in Flags /\ named \subseteq Routers /\ todo \subseteq named
  /\ over \in {"no", "signal", "deadline"} /\ exit \in {0, 1, 130}

TypedRest ==
  /\ ready \subseteq named /\ ok \in BOOLEAN
  /\ left \in 0..Patience
  /\ image \in [Routers -> Origin] /\ made \in [Containers -> Origin]
  /\ booted \subseteq VMs
  /\ built \subseteq Containers /\ swapped \subseteq Containers
  /\ unread \subseteq named /\ wasUp \subseteq VMs /\ aged \subseteq VMs
  /\ heard \in BOOLEAN /\ broken \in BOOLEAN

LEMMA TypedParts == /\ TypeOK <=> TypedCommand /\ TypedRest
                    /\ TypeOK' <=> TypedCommand' /\ TypedRest'
BY DEF TypeOK, TypedCommand, TypedRest

LEMMA MadeFacts ==
  /\ \A inputs : Made(inputs) \subseteq Origin
  /\ \A inputs : \A o \in Made(inputs) : o.from = inputs
  /\ Nothing \in Origin /\ Nothing.from = "none"
BY DEF Made, Nothing, Origin

LEMMA LeftFact == Patience \in 0..Patience
BY LabAssumption

LEMMA CodesFacts == \A code \in Codes : code \in {1, 130}
BY DEF Codes

\* A command that returns leaves by its teardown, or has nothing more to do.
LEMMA Returned ==
  ASSUME Typed, NEW code \in {0, 1, 130}, Return(code), UNCHANGED <<command, over>>,
         pc \notin {"idle", "teardown", "exited"}
  PROVE  TypedCommand' /\ PathInv'
<1>1. \/ pc' = "teardown" /\ todo' = named \cap VMs /\ cmd.name = "test" /\ ~cmd.keep
      \/ pc' = "exited" /\ todo' = {}
  BY DEF Return, Goto
<1>2. exit' = code
  BY DEF Return
<1>3. QED
  BY <1>1, <1>2 DEF Typed, TypeOK, PathInv, TypedCommand, command, Label

LEMMA RemoveType == ASSUME made \in [Containers -> Origin], NEW S, Remove(S)
                    PROVE  made' \in [Containers -> Origin]
BY MadeFacts DEF Remove

LEMMA TypedHolds == Spec => []Typed
<1>1. Init => Typed
  <2> SUFFICES ASSUME Init PROVE TypedCommand /\ TypedRest /\ PathInv
    BY TypedParts DEF Typed
  <2>1. TypedCommand
    BY DEF Init, TypedCommand, Label, NoCommand, Flags
  <2>2. TypedRest
    <3>1. image \in [Routers -> Origin] /\ made \in [Containers -> Origin]
      BY MadeFacts DEF Init
    <3>2. QED
      BY <3>1, LeftFact DEF Init, TypedRest
  <2>3. PathInv
    BY DEF Init, PathInv, NoCommand
  <2>4. QED
    BY <2>1, <2>2, <2>3
<1>2. Typed /\ [Next]_vars => Typed'
  <2> SUFFICES ASSUME Typed, [Next]_vars PROVE TypedCommand' /\ TypedRest' /\ PathInv'
    BY TypedParts DEF Typed
  <2>0. TypedCommand /\ TypedRest /\ PathInv
    BY TypedParts DEF Typed
  <2>1. CASE Begin
    <3>1. cmd' \in Flags /\ Accepted(cmd') /\ named' \subseteq Routers
      BY <2>1 DEF Begin
    <3>2. todo' \subseteq named'
      BY <2>1 DEF Begin, Goto
    <3>3. pc' \in Label
      BY <2>1 DEF Begin, Goto, Label
    <3>4. TypedCommand'
      BY <2>0, <2>1, <3>1, <3>2, <3>3 DEF Begin, TypedCommand, progress
    <3>5. TypedRest'
      BY <2>0, <2>1 DEF Begin, TypedRest, PathInv, progress, lab
    <3>6. PathInv'
      <4>1. CASE cmd'.name = "down"
        BY <2>1, <3>1, <4>1 DEF Begin, Accepted, PathInv, Goto
      <4>2. CASE cmd'.name # "down"
        <5>1. cmd'.name \in {"up", "test"} /\ ~cmd'.all
          BY <3>1, <4>2 DEF Accepted, Flags
        <5>2. cmd'.name = "test" => cmd'.wait /\ cmd'.build
          BY <3>1 DEF Accepted
        <5>3. /\ pc' \in {"vms", "build", "inspect"}
              /\ pc' = "inspect" => ~cmd'.build /\ named' \cap VMs = {}
          BY <2>1, <4>2, <5>1, <5>2 DEF Begin, Goto
        <5>4. QED
          BY <3>1, <4>2, <5>1, <5>2, <5>3 DEF PathInv, Routers
      <4>3. QED
        BY <4>1, <4>2
    <3>7. QED
      BY <3>4, <3>5, <3>6
  <2>2. CASE Build
    <3>1. PICK done \in SUBSET (named \cap Containers), code \in {0, 1, 130} :
            /\ built' = built \cup done
            /\ \E o \in [done -> Made("ours") \cup Made("other")] :
                 image' = [r \in Routers |-> IF r \in done THEN o[r] ELSE image[r]]
            /\ IF code = 0 THEN Goto("start", {}) /\ UNCHANGED exit ELSE Return(code)
      BY <2>2 DEF Build
    <3>2. image' \in [Routers -> Origin]
      <4>1. PICK o \in [done -> Made("ours") \cup Made("other")] :
              image' = [r \in Routers |-> IF r \in done THEN o[r] ELSE image[r]]
        BY <3>1
      <4>2. QED
        BY <2>0, <4>1, MadeFacts DEF TypedRest
    <3>3. TypedRest'
      BY <2>0, <2>2, <3>1, <3>2 DEF Build, TypedRest, command
    <3>4. TypedCommand' /\ PathInv'
      <4>1. CASE code = 0
        BY <2>0, <2>2, <3>1, <4>1 DEF Build, Goto, TypedCommand, PathInv, Label, command
      <4>2. CASE code # 0
        BY <2>2, <3>1, <4>2, Returned DEF Build
      <4>3. QED
        BY <4>1, <4>2
    <3>5. QED
      BY <3>3, <3>4
  <2>3. CASE Inspect
    <3>1. PICK r \in todo :
            \/ /\ built' = built \cup {r} /\ UNCHANGED exit
               /\ IF todo = {r} THEN Goto("start", {}) ELSE Goto("inspect", todo \ {r})
            \/ Return(1) /\ UNCHANGED built
      BY <2>3 DEF Inspect
    <3>2. r \in Containers
      BY <2>0, <2>3 DEF Inspect, PathInv, TypedCommand
    <3>3. TypedRest'
      BY <2>0, <2>3, <3>1, <3>2 DEF Inspect, TypedRest, command, lab
    <3>4. CASE Return(1)
      BY <2>3, <3>3, <3>4, Returned DEF Inspect
    <3>5. CASE UNCHANGED exit /\ IF todo = {r} THEN Goto("start", {}) ELSE Goto("inspect", todo \ {r})
      BY <2>0, <2>3, <3>3, <3>5 DEF Inspect, Goto, TypedCommand, PathInv, Label, command
    <3>6. QED
      BY <3>1, <3>4, <3>5
  <2>4. CASE Start
    <3>1. PICK done \in SUBSET (named \cap Containers), code \in {0, 1, 130} :
            /\ made' = [r \in Containers |-> IF r \in done THEN image[r] ELSE made[r]]
            /\ IF code = 0 THEN Goto("vms", named) /\ UNCHANGED exit ELSE Return(code)
      BY <2>4 DEF Start
    <3>2. TypedRest'
      BY <2>0, <2>4, <3>1 DEF Start, TypedRest, command, history, Routers
    <3>3. CASE code = 0
      BY <2>0, <2>4, <3>1, <3>2, <3>3 DEF Start, Goto, TypedCommand, PathInv, Label, command
    <3>4. CASE code # 0
      BY <2>4, <3>1, <3>2, <3>4, Returned DEF Start
    <3>5. QED
      BY <3>3, <3>4
  <2>5. CASE StartVM
    <3>1. PICK r \in todo \cap VMs :
            \/ Goto("vms", todo \ {r}) /\ UNCHANGED <<exit, image, booted>>
            \/ /\ \E o \in Origin : image' = [image EXCEPT ![r] = o]
               /\ booted' = booted \cup {r}
               /\ Goto("vms", todo \ {r}) /\ UNCHANGED exit
            \/ /\ booted' \in {booted, booted \cup {r}, booted \ {r}}
               /\ image' \in {image, [image EXCEPT ![r] = Nothing]}
               /\ \E code \in Codes : Return(code)
      <4>1. PICK r \in todo \cap VMs :
              \/ Goto("vms", todo \ {r}) /\ UNCHANGED <<exit, image, booted>>
              \/ /\ \E o \in IF cmd.rebuild \/ image[r].from = "none" THEN Made("ours")
                             ELSE {image[r]} : image' = [image EXCEPT ![r] = o]
                 /\ booted' = booted \cup {r}
                 /\ Goto("vms", todo \ {r}) /\ UNCHANGED exit
              \/ /\ booted' \in {booted, booted \cup {r}, booted \ {r}}
                 /\ image' \in {image} \cup (IF cmd.rebuild THEN {[image EXCEPT ![r] = Nothing]}
                                             ELSE {})
                 /\ \E code \in Codes : Return(code)
        BY <2>5 DEF StartVM
      <4>2. image[r] \in Origin /\ Made("ours") \subseteq Origin
        BY <2>0, <4>1, MadeFacts DEF TypedRest, TypedCommand, Routers
      <4>3. QED
        BY <4>1, <4>2
    <3>2. r \in VMs /\ r \in Routers
      BY <3>1 DEF Routers
    <3>3. booted' \subseteq VMs
      BY <2>0, <3>1, <3>2 DEF TypedRest
    <3>4. image' \in [Routers -> Origin]
      BY <2>0, <3>1, <3>2, MadeFacts DEF TypedRest
    <3>5. TypedRest'
      BY <2>0, <2>5, <3>3, <3>4 DEF StartVM, TypedRest, command, history
    <3>6. CASE Goto("vms", todo \ {r}) /\ UNCHANGED exit
      BY <2>0, <2>5, <3>5, <3>6 DEF StartVM, Goto, TypedCommand, PathInv, command
    <3>7. CASE \E code \in Codes : Return(code)
      BY <2>5, <3>5, <3>7, CodesFacts, Returned DEF StartVM
    <3>8. QED
      BY <3>1, <3>6, <3>7
  <2>6. CASE StartVMsDone
    BY <2>0, <2>6 DEF StartVMsDone, Goto, TypedCommand, TypedRest, PathInv, Label,
                      command, progress, lab, history
  <2>7. ASSUME NEW r \in Routers, Answer(r) PROVE TypedCommand' /\ TypedRest' /\ PathInv'
    BY <2>0, <2>7 DEF Answer, Goto, TypedCommand, TypedRest, PathInv, command, lab, history
  <2>8. CASE Waited
    <3>1. \/ pc' = "checks" /\ todo' = named /\ cmd.name = "test"
          \/ pc' = "join" /\ todo' = {} /\ cmd.name = "up"
      BY <2>0, <2>8 DEF Waited, Goto, PathInv
    <3>2. QED
      BY <2>0, <2>8, <3>1 DEF Waited, TypedCommand, TypedRest, PathInv, Label,
                              command, progress, lab, history
  <2>9. CASE Join
    BY <2>0, <2>9 DEF Join, Joined, Goto, TypedCommand, TypedRest, PathInv, Label,
                      command, lab, history
  <2>10. CASE Missing
    <3>1. unread' \subseteq named /\ exit' \in {exit, 1}
      BY <2>10 DEF Missing
    <3>2. QED
      BY <2>0, <2>10, <3>1 DEF Missing, Goto, TypedCommand, TypedRest, PathInv, Label, command, lab
  <2>11. CASE Checks
    <3>1. PICK r \in todo, read \in BOOLEAN, rest \in BOOLEAN :
            /\ unread' = IF read THEN unread ELSE unread \cup {r}
            /\ ok' = (ok /\ Passes(r, read) /\ rest)
            /\ Goto("checks", todo \ {r})
      BY <2>11 DEF Checks
    <3>2. ok' \in BOOLEAN
      BY <3>1
    <3>3. unread' \subseteq named
      BY <2>0, <3>1 DEF TypedCommand, TypedRest
    <3>4. QED
      BY <2>0, <2>11, <3>1, <3>2, <3>3 DEF Checks, Goto, TypedCommand, TypedRest, PathInv, command,
         lab
  <2>12. CASE ChecksDone
    <3>1. PICK code \in {0, 1, 130} : Return(code)
      BY <2>12 DEF ChecksDone
    <3>2. TypedCommand' /\ PathInv'
      BY <2>12, <3>1, Returned DEF ChecksDone
    <3>3. QED
      BY <2>0, <2>12, <3>2 DEF ChecksDone, TypedRest, command, lab, history
  <2>13. CASE Teardown
    <3>1. PICK r \in todo : Goto("teardown", todo \ {r})
      BY <2>13 DEF Teardown
    <3>2. booted' \subseteq VMs /\ left' \in 0..Patience
      BY <2>0, <2>13, LabAssumption DEF Teardown, Stopped, TypedRest
    <3>3. QED
      BY <2>0, <2>13, <3>1, <3>2
         DEF Teardown, Goto, TypedCommand, TypedRest, PathInv, command, history
  <2>14. CASE TeardownCompose
    <3>1. made' \in [Containers -> Origin] /\ broken' \in BOOLEAN
      BY <2>0, <2>14, RemoveType DEF TeardownCompose, TypedRest
    <3>2. QED
      BY <2>0, <2>14, <3>1
         DEF TeardownCompose, Goto, TypedCommand, TypedRest, PathInv, Label, command, progress
  <2>15. CASE Down
    <3>1. PICK r \in todo :
            /\ booted' \in {booted, booted \ {r}}
            /\ image' \in {image, [image EXCEPT ![r] = Nothing]}
            /\ \/ Goto("down", todo \ {r}) /\ UNCHANGED exit
               \/ \E code \in Codes : Return(code)
      BY <2>15 DEF Down
    <3>2. booted' \subseteq VMs /\ image' \in [Routers -> Origin]
      BY <2>0, <3>1, MadeFacts DEF TypedRest
    <3>3. TypedRest'
      BY <2>0, <2>15, <3>2 DEF Down, TypedRest, command, history
    <3>4. CASE Goto("down", todo \ {r}) /\ UNCHANGED exit
      BY <2>0, <2>15, <3>3, <3>4 DEF Down, Goto, TypedCommand, PathInv, command
    <3>5. CASE \E code \in Codes : Return(code)
      BY <2>15, <3>3, <3>5, CodesFacts, Returned DEF Down
    <3>6. QED
      BY <3>1, <3>4, <3>5
  <2>16. CASE DownCompose
    <3>1. PICK code \in {0, 1, 130} : Return(code)
      BY <2>16, CodesFacts DEF DownCompose
    <3>2. TypedCommand' /\ PathInv'
      BY <2>16, <3>1, Returned DEF DownCompose
    <3>3. made' \in [Containers -> Origin]
      BY <2>0, <2>16, RemoveType DEF DownCompose, TypedRest
    <3>4. QED
      BY <2>0, <2>16, <3>2, <3>3 DEF DownCompose, TypedRest, command, history
  <2>17. CASE Interrupt
    <3>1. over' \in {"signal", "deadline"} /\ heard' \in BOOLEAN /\ pc # "idle"
      BY <2>17 DEF Interrupt
    <3>2. QED
      BY <2>0, <2>17, <3>1 DEF Interrupt, TypedCommand, TypedRest, PathInv, command, progress, lab
  <2>18. CASE Edit
    <3>1. image' \in [Routers -> Origin]
      BY <2>0, <2>18 DEF Edit, TypedRest, Origin
    <3>2. QED
      BY <2>0, <2>18, <3>1 DEF Edit, TypedCommand, TypedRest, PathInv, command, progress, history
  <2>19. CASE Exited
    <3>1. cmd' \in Flags
      BY <2>19 DEF Exited, NoCommand, Flags
    <3>2. cmd'.name = "none" /\ cmd'.all = FALSE /\ cmd'.keep = FALSE
      BY <2>19 DEF Exited, NoCommand
    <3>3. todo' = {} /\ pc' = "idle" /\ pc' \in Label
      BY <2>0, <2>19 DEF Exited, PathInv, Label
    <3>4. TypedCommand' /\ PathInv'
      BY <2>19, <3>1, <3>2, <3>3 DEF Exited, TypedCommand, PathInv
    <3>5. TypedRest'
      BY <2>0, <2>19, LeftFact DEF Exited, TypedRest, lab
    <3>6. QED
      BY <3>4, <3>5
  <2>20. ASSUME NEW r \in Containers, LoadImage(r) PROVE TypedCommand' /\ TypedRest' /\ PathInv'
    <3>1. image' \in [Routers -> Origin]
      BY <2>0, <2>20, MadeFacts DEF LoadImage, TypedRest
    <3>2. swapped' \subseteq Containers
      BY <2>0, <2>20 DEF LoadImage, TypedRest
    <3>3. QED
      BY <2>0, <2>20, <3>1, <3>2 DEF LoadImage, TypedCommand, TypedRest, PathInv, command, progress
  <2>21. CASE UNCHANGED vars
    BY <2>0, <2>21 DEF vars, TypedCommand, TypedRest, PathInv, command, progress, lab, history
  <2>22. QED
    BY <2>1, <2>2, <2>3, <2>4, <2>5, <2>6, <2>7, <2>8, <2>9, <2>10, <2>11, <2>12, <2>13, <2>14,
       <2>15, <2>16, <2>17, <2>18, <2>19, <2>20, <2>21 DEF Next
<1>3. QED
  BY <1>1, <1>2, PTL DEF Spec

\* The type invariant, for any containers, VMs and patience.
THEOREM TypeCorrect == Spec => []TypeOK
<1>1. Typed => TypeOK
  BY DEF Typed
<1>2. QED
  BY <1>1, TypedHolds, PTL

-----------------------------------------------------------------------------
(* Ctrl-C *)

\* Once up heard it, up is on its way out, with 130 as soon as it has a status.
HeardInv ==
  heard /\ cmd.name = "up" =>
    /\ over = "signal" /\ pc \in {"wait", "join", "missing", "exited"}
    /\ pc \in {"missing", "exited"} => exit = 130

LEMMA HeardStep == ASSUME Typed, HeardInv, [Next]_vars PROVE HeardInv'
<1> USE DEF HeardInv
<1>1. PathInv
  BY DEF Typed
<1>2. ASSUME UNCHANGED <<heard, cmd>>, pc \notin {"wait", "join", "missing", "exited"}
      PROVE  HeardInv'
  BY <1>2
<1>3. CASE Begin
  BY <1>1, <1>3 DEF Begin, PathInv
<1>4. CASE Build \/ Inspect \/ Start \/ StartVM \/ StartVMsDone \/ Checks \/ ChecksDone
           \/ Teardown \/ TeardownCompose \/ Down \/ DownCompose
  BY <1>2, <1>4 DEF Build, Inspect, Start, StartVM, StartVMsDone, Checks, ChecksDone, Teardown,
                    TeardownCompose, Down, DownCompose, command, history
<1>5. CASE \E r \in Routers : Answer(r)
  BY <1>5 DEF Answer, Goto, command, history
<1>6. CASE Waited
  BY <1>6 DEF Waited, Goto, command, history
<1>7. CASE Join
  BY <1>7 DEF Join, Joined, Goto, command, history
<1>8. CASE Missing
  BY <1>8 DEF Missing, Goto, command
<1>9. CASE Interrupt
  BY <1>9 DEF Interrupt, command, progress
<1>10. CASE Edit \/ \E r \in Containers : LoadImage(r)
  BY <1>10 DEF Edit, LoadImage, command, progress, history
<1>11. CASE Exited
  BY <1>11 DEF Exited
<1>12. CASE UNCHANGED vars
  BY <1>12 DEF vars, command, progress, history
<1>13. QED
  BY <1>3, <1>4, <1>5, <1>6, <1>7, <1>8, <1>9, <1>10, <1>11, <1>12 DEF Next

\* A Ctrl-C during the wait exits 130, and neither as a router that did not answer
\* nor as one that lacks a package.
THEOREM InterruptProved == Spec => []InterruptShows
<1>1. Init => HeardInv
  BY DEF Init, HeardInv
<1>2. HeardInv => InterruptShows
  BY DEF HeardInv, InterruptShows
<1>3. QED
  BY <1>1, <1>2, HeardStep, TypedHolds, PTL DEF Spec

-----------------------------------------------------------------------------
(* What is left running *)

\* A VM that the loop of a teardown or of down is done with is stopped; in a teardown,
\* while its two minutes last.
LeftInv ==
  /\ pc = "teardown" /\ left > 0 => booted \cap named \subseteq todo
  /\ pc = "down" => booted \cap named \subseteq todo
  /\ NothingLeftBehind

LEMMA RemovedFacts ==
  ASSUME TypeOK, NEW S, Remove(S)
  PROVE  \A r \in Containers \cap S : made'[r].from = "none"
BY MadeFacts DEF Remove

LEMMA LeftStep == ASSUME Typed, LeftInv, [Next]_vars PROVE LeftInv'
<1>0. TypeOK /\ PathInv
  BY DEF Typed
<1>1. ASSUME pc' \notin {"teardown", "down", "exited"} PROVE LeftInv'
  BY <1>1 DEF LeftInv, NothingLeftBehind
<1>2. ASSUME NEW code, Return(code), UNCHANGED command, pc \notin {"idle", "exited"},
             booted' \subseteq VMs, cmd.name = "down" => code # 0
      PROVE  LeftInv'
  <2>1. \/ pc' = "teardown" /\ todo' = named \cap VMs
        \/ pc' = "exited" /\ ~(cmd.name = "test" /\ ~cmd.keep)
    BY <1>2 DEF Return, Goto
  <2>2. exit' = code
    BY <1>2 DEF Return
  <2>3. QED
    BY <1>2, <2>1, <2>2 DEF LeftInv, NothingLeftBehind, command
<1>3. CASE Begin
  <2>1. CASE pc' = "down" /\ todo' = named' \cap VMs /\ booted' = booted
    BY <1>0, <2>1 DEF LeftInv, NothingLeftBehind, TypeOK
  <2>2. CASE pc' \in {"vms", "build", "inspect"}
    BY <1>1, <2>2
  <2>3. QED
    BY <1>3, <2>1, <2>2 DEF Begin, Goto, lab
<1>4. CASE Build \/ Inspect \/ Start \/ StartVM
  <2>1. cmd.name # "down" /\ UNCHANGED command /\ pc \notin {"idle", "exited"}
    BY <1>0, <1>4 DEF Build, Inspect, Start, StartVM, PathInv
  <2>2. booted' \subseteq VMs
    BY <1>0, <1>4 DEF Build, Inspect, Start, StartVM, lab, TypeOK
  <2>3. (\E code : Return(code)) \/ pc' \in {"start", "inspect", "vms"}
    BY <1>4 DEF Build, Inspect, Start, StartVM, Goto
  <2>4. QED
    BY <1>1, <1>2, <2>1, <2>2, <2>3
<1>5. CASE StartVMsDone \/ Waited \/ Join \/ Checks \/ \E r \in Routers : Answer(r)
  BY <1>1, <1>5 DEF StartVMsDone, Waited, Join, Checks, Answer, Goto
<1>6. CASE Missing
  <2>1. pc' = "exited" /\ cmd'.name = "up"
    BY <1>0, <1>6 DEF Missing, Goto, PathInv, command
  <2>2. QED
    BY <2>1 DEF LeftInv, NothingLeftBehind
<1>7. CASE ChecksDone
  <2>1. cmd.name # "down" /\ UNCHANGED command /\ pc \notin {"idle", "exited"}
    BY <1>0, <1>7 DEF ChecksDone, PathInv
  <2>2. booted' \subseteq VMs
    BY <1>0, <1>7 DEF ChecksDone, lab, TypeOK
  <2>3. \E code : Return(code)
    BY <1>7 DEF ChecksDone
  <2>4. QED
    BY <1>2, <2>1, <2>2, <2>3
<1>8. CASE Teardown
  <2>1. PICK r \in todo :
          /\ \/ booted' = booted \ {r} /\ UNCHANGED left
             \/ IF left > 0 THEN booted' = booted \ {r} /\ left' = left - 1
                ELSE UNCHANGED <<booted, left>>
          /\ Goto("teardown", todo \ {r})
    BY <1>8 DEF Teardown, Stopped
  <2>2. left' > 0 => left > 0 /\ booted' = booted \ {r}
    BY <1>0, <2>1, LabAssumption DEF TypeOK
  <2>3. QED
    BY <1>8, <2>1, <2>2 DEF Teardown, Goto, command, LeftInv, NothingLeftBehind
<1>9. CASE TeardownCompose
  <2>1. pc' = "exited" /\ todo = {} /\ UNCHANGED <<command, booted, left, exit>> /\ pc = "teardown"
    BY <1>9 DEF TeardownCompose, Goto, progress
  <2>2. cmd.name = "test"
    BY <1>0, <2>1 DEF PathInv
  <2>3. SUFFICES ASSUME left > 0, ~broken'
                 PROVE  Running' \cap (named \cup IF named \cap Containers = {} THEN {} ELSE Containers) = {}
    BY <2>1, <2>2 DEF LeftInv, NothingLeftBehind, command
  <2>4. booted \cap named = {} /\ booted \cap Containers = {}
    BY <1>0, <2>1, <2>3, LabAssumption DEF LeftInv, TypeOK
  <2>5. named \cap Containers # {} => \A r \in Containers : made'[r].from = "none"
    BY <1>0, <1>9, <2>3, RemovedFacts DEF TeardownCompose
  <2>6. QED
    BY <2>1, <2>4, <2>5 DEF Running
<1>10. CASE Down
  <2>1. PICK r \in todo :
          /\ booted' \in {booted, booted \ {r}}
          /\ \/ booted' = booted \ {r} /\ Goto("down", todo \ {r})
             \/ \E code \in Codes : Return(code)
    BY <1>10 DEF Down
  <2>2. pc = "down" /\ UNCHANGED command /\ booted' \subseteq VMs
    BY <1>0, <1>10, <2>1 DEF Down, TypeOK
  <2>3. CASE booted' = booted \ {r} /\ Goto("down", todo \ {r})
    BY <2>2, <2>3 DEF Goto, command, LeftInv, NothingLeftBehind
  <2>4. CASE \E code \in Codes : Return(code)
    BY <1>2, <2>2, <2>4, CodesFacts
  <2>5. QED
    BY <2>1, <2>3, <2>4
<1>11. CASE DownCompose
  <2> DEFINE wanted == IF cmd.all THEN Containers ELSE named \cap Containers
  <2>1. /\ pc = "down" /\ todo = {} /\ UNCHANGED <<command, booted>> /\ booted' \subseteq VMs
        /\ cmd.name = "down"
    BY <1>0, <1>11 DEF DownCompose, TypeOK, PathInv
  <2>2. CASE Remove(wanted) /\ Return(0)
    <3>1. pc' = "exited"
      BY <2>1, <2>2 DEF Return, Goto
    <3>2. named \cap booted = {}
      BY <2>1 DEF LeftInv
    <3>3. \A r \in named \cap Containers : made'[r].from = "none"
      BY <1>0, <2>2, RemovedFacts
    <3>4. named \cap Running' = {}
      BY <2>1, <3>2, <3>3 DEF Running
    <3>5. QED
      BY <2>1, <3>1, <3>4 DEF LeftInv, NothingLeftBehind, command
  <2>3. CASE \E code \in Codes : Return(code)
    BY <1>2, <2>1, <2>3, CodesFacts
  <2>4. QED
    BY <1>11, <2>2, <2>3 DEF DownCompose
<1>12. CASE Interrupt
  BY <1>12 DEF Interrupt, command, progress, lab, LeftInv, NothingLeftBehind
<1>13. CASE Edit \/ Exited \/ \E r \in Containers : LoadImage(r)
  <2>1. pc' \notin {"teardown", "down", "exited"}
    BY <1>13 DEF Edit, Exited, LoadImage
  <2>2. QED
    BY <1>1, <2>1
<1>14. CASE UNCHANGED vars
  BY <1>14 DEF vars, command, progress, lab, history, LeftInv, NothingLeftBehind, Running
<1>15. QED
  BY <1>3, <1>4, <1>5, <1>6, <1>7, <1>8, <1>9, <1>10, <1>11, <1>12, <1>13, <1>14 DEF Next

\* A test leaves nothing that holds the ports of the next run while its two minutes
\* last and the engine does as it is asked, and a down that succeeded has stopped
\* what it names.
THEOREM LeftProved == Spec => []NothingLeftBehind
<1>1. Init => LeftInv
  BY DEF Init, LeftInv, NothingLeftBehind
<1>2. LeftInv => NothingLeftBehind
  BY DEF LeftInv
<1>3. QED
  BY <1>1, <1>2, LeftStep, TypedHolds, PTL DEF Spec

-----------------------------------------------------------------------------
(* What exit status 0 says *)

\* The command is about to say 0, or has said it.
Zero == /\ exit = 0
        /\ \/ pc = "exited" /\ (cmd.name = "up" \/ cmd.keep)
           \/ pc = "teardown" /\ todo = named \cap VMs

Started == {"vms", "wait", "join", "missing", "checks"}

MadeAsAsked(r) ==
  r \in swapped \/ (r \in built /\ IF cmd.build THEN made[r] = image[r] ELSE made[r].from = "ours")
ContainersUp == \A r \in named \cap Containers : made[r].from # "none" /\ MadeAsAsked(r)

IsUp(r) == r \in booted /\ SetUpAsAsked(r)
VMsUp == \A r \in named \cap VMs : IsUp(r)

\* What each loop has established of the routers it is done with.
ZeroInv ==
  /\ pc \in {"build", "inspect", "start"} => \A r \in VMs : image[r].from # "none" => r \in aged
  /\ pc \in {"build", "inspect", "start"} => booted \subseteq wasUp
  /\ pc = "build" => cmd.build
  /\ pc = "inspect" => \A r \in named \ todo :
       r \in built /\ (r \in swapped \/ image[r].from = "ours")
  /\ pc = "start" => \A r \in named \cap Containers :
       r \in built /\ (cmd.build \/ r \in swapped \/ image[r].from = "ours")
  /\ pc = "vms" => /\ todo \cap booted \subseteq wasUp
                   /\ \A r \in todo \cap VMs : image[r].from # "none" => r \in aged
                   /\ \A r \in (named \cap VMs) \ todo : IsUp(r)
  /\ pc \in Started \/ Zero => ContainersUp
  /\ pc \in Started \ {"vms"} \/ Zero => VMsUp
  /\ pc = "missing" /\ exit = 0 /\ cmd.wait => ready = named
  /\ pc = "checks" /\ ok => \A r \in named \ todo : r \in ready /\ (Lacks(r) => r \in unread)
  /\ Zero => \A r \in named : (cmd.wait => r \in ready) /\ (Lacks(r) => r \in unread)

LEMMA ZeroStep == ASSUME Typed, ZeroInv, [Next]_vars PROVE ZeroInv'
<1>0. TypeOK /\ PathInv
  BY DEF Typed
<1>1. ASSUME pc' \in {"idle", "down"} PROVE ZeroInv'
  BY <1>1 DEF ZeroInv, Zero, Started
<1>2. ASSUME NEW code, Return(code), code # 0 PROVE ZeroInv'
  BY <1>2 DEF Return, Goto, ZeroInv, Zero, Started
<1>3. ASSUME UNCHANGED <<cmd, named, image, made, booted, built, swapped, wasUp, aged>>
      PROVE  /\ ContainersUp' <=> ContainersUp
             /\ VMsUp' <=> VMsUp
             /\ \A r \in named : Lacks(r)' <=> Lacks(r)
  BY <1>3 DEF ContainersUp, MadeAsAsked, VMsUp, IsUp, SetUpAsAsked, Lacks
<1>4. CASE Begin
  <2>1. /\ pc' \in {"down", "vms", "build", "inspect"} /\ wasUp' = booted /\ booted' = booted
        /\ aged' = {r \in VMs : image[r].from # "none"} /\ image' = image
        /\ pc' = "build" => cmd'.build
        /\ pc' \in {"vms", "inspect"} => todo' = named'
        /\ pc' = "vms" => named' \cap Containers = {}
    BY <1>4 DEF Begin, Goto, lab
  <2>2. QED
    BY <2>1 DEF ZeroInv, Zero, Started, ContainersUp
<1>5. CASE Build
  <2>1. PICK done \in SUBSET (named \cap Containers), code \in {0, 1, 130} :
          /\ code = 0 => done = named \cap Containers
          /\ built' = built \cup done
          /\ IF code = 0 THEN Goto("start", {}) /\ UNCHANGED exit ELSE Return(code)
    BY <1>5 DEF Build
  <2>2. CASE code = 0
    <3>1. \A r \in VMs : image'[r] = image[r]
      <4>1. PICK d \in SUBSET (named \cap Containers) :
              \E o \in [d -> Made("ours") \cup Made("other")] :
                image' = [r \in Routers |-> IF r \in d THEN o[r] ELSE image[r]]
        BY <1>5 DEF Build
      <4>2. QED
        BY <4>1, LabAssumption DEF Routers
    <3>2. QED
      BY <1>5, <2>1, <2>2, <3>1 DEF Build, Goto, ZeroInv, Zero, Started, command
  <2>3. CASE code # 0
    BY <1>2, <2>1, <2>3
  <2>4. QED
    BY <2>2, <2>3
<1>6. CASE Inspect
  <2>1. PICK r \in todo :
          \/ /\ BuiltFrom(image[r]) /\ built' = built \cup {r}
             /\ IF todo = {r} THEN Goto("start", {}) ELSE Goto("inspect", todo \ {r})
          \/ Return(1)
    BY <1>6 DEF Inspect
  <2>2. CASE Return(1)
    BY <1>2, <2>2
  <2>3. CASE /\ BuiltFrom(image[r]) /\ built' = built \cup {r}
             /\ IF todo = {r} THEN Goto("start", {}) ELSE Goto("inspect", todo \ {r})
    BY <1>6, <2>3 DEF Inspect, BuiltFrom, Goto, ZeroInv, Zero, Started, command, lab
  <2>4. QED
    BY <2>1, <2>2, <2>3
<1>7. CASE Start
  <2>1. PICK done \in SUBSET (named \cap Containers), code \in {0, 1, 130} :
          /\ code = 0 => done = named \cap Containers
          /\ \A r \in done : image[r].from # "none"
          /\ made' = [r \in Containers |-> IF r \in done THEN image[r] ELSE made[r]]
          /\ IF code = 0 THEN Goto("vms", named) /\ UNCHANGED exit ELSE Return(code)
    BY <1>7 DEF Start
  <2>2. CASE code = 0
    <3>1. ContainersUp'
      BY <1>7, <2>1, <2>2 DEF Start, ZeroInv, ContainersUp, MadeAsAsked, command, history
    <3>2. QED
      BY <1>7, <2>1, <2>2, <3>1 DEF Start, Goto, ZeroInv, Zero, Started, command, history
  <2>3. CASE code # 0
    BY <1>2, <2>1, <2>3
  <2>4. QED
    BY <2>2, <2>3
<1>8. CASE StartVM
  <2>1. PICK r \in todo \cap VMs :
          \/ /\ r \in booted /\ ~cmd.rebuild
             /\ Goto("vms", todo \ {r}) /\ UNCHANGED <<exit, image, booted>>
          \/ /\ \E o \in IF cmd.rebuild \/ image[r].from = "none" THEN Made("ours")
                         ELSE {image[r]} : image' = [image EXCEPT ![r] = o]
             /\ booted' = booted \cup {r}
             /\ Goto("vms", todo \ {r}) /\ UNCHANGED exit
          \/ \E code \in Codes : Return(code)
    BY <1>8 DEF StartVM
  <2>2. r \in VMs /\ r \in Routers /\ image \in [Routers -> Origin]
    BY <1>0, <2>1 DEF TypeOK, Routers
  <2>3. CASE /\ r \in booted /\ ~cmd.rebuild
             /\ Goto("vms", todo \ {r}) /\ UNCHANGED <<exit, image, booted>>
    <3>1. IsUp(r)
      BY <1>8, <2>1, <2>3 DEF StartVM, ZeroInv, IsUp, SetUpAsAsked
    <3>2. ContainersUp'
      BY <1>3, <1>8, <2>3 DEF StartVM, ZeroInv, Started, command, history
    <3>3. QED
      BY <1>8, <2>3, <3>1, <3>2
         DEF StartVM, Goto, ZeroInv, Zero, Started, IsUp, SetUpAsAsked, command, history
  <2>4. CASE /\ \E o \in IF cmd.rebuild \/ image[r].from = "none" THEN Made("ours")
                         ELSE {image[r]} : image' = [image EXCEPT ![r] = o]
             /\ booted' = booted \cup {r}
             /\ Goto("vms", todo \ {r}) /\ UNCHANGED exit
    <3>1. PICK o \in IF cmd.rebuild \/ image[r].from = "none" THEN Made("ours")
                      ELSE {image[r]} : image' = [image EXCEPT ![r] = o]
      BY <2>4
    <3>2. /\ image'[r] = o /\ \A q \in Routers \ {r} : image'[q] = image[q]
          /\ o.from = "ours" \/ (~cmd.rebuild /\ o = image[r] /\ image[r].from # "none")
      BY <2>2, <3>1 DEF Made
    <3>3. IsUp(r)'
      BY <1>8, <2>1, <2>4, <3>2 DEF StartVM, ZeroInv, IsUp, SetUpAsAsked, command, history
    <3>4. ContainersUp'
      BY <1>8, <2>2, <3>2, LabAssumption
         DEF StartVM, ZeroInv, Started, ContainersUp, MadeAsAsked, Routers, command, history
    <3>5. \A q \in (named \cap VMs) \ todo' : IsUp(q)'
      BY <1>8, <2>2, <2>4, <3>2, <3>3
         DEF StartVM, Goto, ZeroInv, IsUp, SetUpAsAsked, Routers, command, history
    <3>6. QED
      BY <1>8, <2>2, <2>4, <3>2, <3>4, <3>5
         DEF StartVM, Goto, ZeroInv, Zero, Started, Routers, command, history
  <2>5. CASE \E code \in Codes : Return(code)
    BY <1>2, <2>5, CodesFacts
  <2>6. QED
    BY <2>1, <2>3, <2>4, <2>5
<1>9. CASE StartVMsDone \/ Waited \/ Join \/ \E r \in Routers : Answer(r)
  <2>1. UNCHANGED <<cmd, named, image, made, booted, built, swapped, wasUp, aged>>
    BY <1>9 DEF StartVMsDone, Waited, Join, Answer, command, lab, history
  <2>2. pc \in {"vms", "wait", "join"} /\ pc' \in {"wait", "join", "missing", "checks"}
    BY <1>9 DEF StartVMsDone, Waited, Join, Answer, Goto
  <2>3. ContainersUp'
    BY <1>3, <2>1, <2>2 DEF ZeroInv, Started
  <2>4. VMsUp'
    BY <1>3, <1>9, <2>1, <2>2 DEF StartVMsDone, ZeroInv, Started, VMsUp, Waited, Join, Answer
  <2>5. pc' = "missing" /\ exit' = 0 /\ cmd'.wait => ready' = named'
    BY <1>9 DEF StartVMsDone, Waited, Join, Joined, Answer, Goto, command
  <2>6. pc' = "checks" => todo' = named'
    BY <1>9 DEF StartVMsDone, Waited, Join, Answer, Goto, command
  <2>7. QED
    BY <2>2, <2>3, <2>4, <2>5, <2>6 DEF ZeroInv, Zero
<1>10. CASE Missing
  <2>1. UNCHANGED <<cmd, named, image, made, booted, built, swapped, wasUp, aged, ready>>
    BY <1>10 DEF Missing, command, lab
  <2>2. pc = "missing" /\ pc' = "exited"
    BY <1>10 DEF Missing, Goto
  <2>3. exit' = 0 => exit = 0 /\ \A r \in named \ unread' : ~Lacks(r)
    BY <1>10 DEF Missing
  <2>4. QED
    BY <1>3, <2>1, <2>2, <2>3 DEF ZeroInv, Zero, Started
<1>11. CASE Checks
  <2>1. UNCHANGED <<cmd, named, image, made, booted, built, swapped, wasUp, aged, ready>>
    BY <1>11 DEF Checks, command, lab
  <2>2. PICK r \in todo, read \in BOOLEAN :
          /\ unread' = IF read THEN unread ELSE unread \cup {r}
          /\ ok' => ok /\ Passes(r, read)
          /\ Goto("checks", todo \ {r})
    BY <1>11 DEF Checks
  <2>3. pc = "checks" /\ pc' = "checks" /\ todo' = todo \ {r}
    BY <1>11, <2>2 DEF Checks, Goto
  <2>4. ASSUME ok', NEW q \in named \ todo' PROVE q \in ready /\ (Lacks(q) => q \in unread')
    <3>1. CASE q = r
      BY <2>2, <2>4, <3>1 DEF Passes
    <3>2. CASE q # r
      BY <2>2, <2>3, <2>4, <3>2 DEF ZeroInv
    <3>3. QED
      BY <3>1, <3>2
  <2>5. QED
    BY <1>3, <2>1, <2>3, <2>4 DEF ZeroInv, Zero, Started
<1>12. CASE ChecksDone
  <2>1. UNCHANGED <<cmd, named, image, made, booted, built, swapped, wasUp, aged, ready, unread>>
    BY <1>12 DEF ChecksDone, command, lab, history
  <2>2. pc = "checks" /\ todo = {} /\ pc' \in {"teardown", "exited"} /\ (exit' = 0 => ok)
    BY <1>12 DEF ChecksDone, Return, Goto
  <2>3. QED
    BY <1>3, <2>1, <2>2 DEF ZeroInv, Zero, Started
<1>13. CASE Teardown
  <2>1. PICK r \in todo : Goto("teardown", todo \ {r})
    BY <1>13 DEF Teardown
  <2>2. r \in named \cap VMs /\ UNCHANGED command
    BY <1>0, <1>13 DEF Teardown, TypeOK, PathInv
  <2>3. QED
    BY <2>1, <2>2 DEF Goto, command, ZeroInv, Zero, Started
<1>14. CASE TeardownCompose
  <2>1. pc' = "exited" /\ cmd'.name = "test" /\ ~cmd'.keep
    BY <1>0, <1>14 DEF TeardownCompose, Goto, PathInv, command
  <2>2. QED
    BY <2>1 DEF ZeroInv, Zero, Started
<1>15. CASE Down
  BY <1>1, <1>2, <1>15, CodesFacts DEF Down, Goto
<1>16. CASE DownCompose
  <2>1. pc' = "exited" /\ cmd'.name = "down" /\ ~cmd'.keep
    BY <1>0, <1>16 DEF DownCompose, Return, Goto, PathInv, command
  <2>2. QED
    BY <2>1 DEF ZeroInv, Zero, Started
<1>17. CASE Interrupt
  BY <1>3, <1>17 DEF Interrupt, command, progress, lab, ZeroInv, Zero, Started, IsUp, SetUpAsAsked
<1>18. CASE Edit \/ Exited
  BY <1>1, <1>18 DEF Edit, Exited
<1>19. ASSUME NEW r \in Containers, LoadImage(r) PROVE ZeroInv'
  <2>1. CASE pc = "idle"
    BY <1>1, <1>19, <2>1 DEF LoadImage
  <2>2. CASE pc # "idle"
    <3>1. pc \in {"inspect", "build", "start"} /\ pc' = pc /\ swapped' = swapped \cup {r}
      BY <1>19, <2>2 DEF LoadImage
    <3>2. \A q \in Routers \ {r} : image'[q] = image[q]
      BY <1>0, <1>19 DEF LoadImage, TypeOK
    <3>3. QED
      BY <1>0, <1>19, <3>1, <3>2, LabAssumption
         DEF LoadImage, TypeOK, Routers, command, progress, ZeroInv, Zero, Started
  <2>3. QED
    BY <2>1, <2>2
<1>20. CASE UNCHANGED vars
  BY <1>3, <1>20
     DEF vars, command, progress, lab, history, ZeroInv, Zero, Started, IsUp, SetUpAsAsked
<1>21. QED
  BY <1>4, <1>5, <1>6, <1>7, <1>8, <1>9, <1>10, <1>11, <1>12, <1>13, <1>14, <1>15, <1>16, <1>17,
     <1>18, <1>19, <1>20 DEF Next

\* Exit status 0 of up, of test and of test --keep means that the lab is what the
\* config describes, for any number of routers.
THEOREM ZeroProved == Spec => []ZeroMeansTheLab
<1>1. Init => ZeroInv
  BY DEF Init, ZeroInv, Zero, Started
<1>2. Typed /\ ZeroInv => ZeroMeansTheLab
  <2> SUFFICES ASSUME Typed, ZeroInv, Zero, NEW r \in named
               PROVE  /\ cmd.wait => r \in ready
                      /\ Lacks(r) => r \in unread
                      /\ cmd.name = "up" \/ cmd.keep => r \in Running
                      /\ r \in VMs => SetUpAsAsked(r)
                      /\ r \in Containers \ swapped =>
                           /\ r \in built
                           /\ IF cmd.build THEN made[r] = image[r] ELSE made[r].from = "ours"
    BY DEF ZeroMeansTheLab, Zero
  <2>1. /\ cmd.wait => r \in ready
        /\ Lacks(r) => r \in unread
    BY DEF ZeroInv
  <2>2. r \in VMs => IsUp(r)
    BY DEF ZeroInv, VMsUp
  <2>3. r \in Containers => made[r].from # "none" /\ MadeAsAsked(r)
    BY DEF ZeroInv, ContainersUp
  <2>4. r \in VMs \/ r \in Containers
    BY DEF Typed, TypeOK, Routers
  <2>5. QED
    BY <2>1, <2>2, <2>3, <2>4 DEF IsUp, MadeAsAsked, Running
<1>3. QED
  BY <1>1, <1>2, ZeroStep, TypedHolds, PTL DEF Spec

-----------------------------------------------------------------------------
(* The report of one router in `owlab test` (RouterTest) *)

LEMMA PairConcat ==
  ASSUME NEW S, NEW a \in S, NEW b \in S
  PROVE  <<a>> \o <<b>> = <<a, b>>
<1> DEFINE s == <<a>> \o <<b>>
           t == <<a, b>>
<1>1. <<a>> \in Seq(S) /\ <<b>> \in Seq(S) /\ t \in Seq(S)
  OBVIOUS
<1>2. s \in Seq(S) /\ Len(s) = 2 /\ s[1] = a /\ s[2] = b
  BY <1>1, ConcatProperties
<1>3. Len(s) = Len(t) /\ \A k \in 1..Len(s) : s[k] = t[k]
  BY <1>2
<1> HIDE DEF s, t
<1>4. s = t
  BY <1>1, <1>2, <1>3, SeqEqual
<1>5. QED
  BY <1>4 DEF s, t

\* A step is no assertion, and what a command asks has its types.
LEMMA StepFacts ==
  /\ \A p \in Places : Step(p) \in Steps /\ Step(p).kind = p
  /\ \A s \in Steps : s.kind \in Places
  /\ \A a \in Assertions : a.kind \in {"http", "exec", "look"}
  /\ Steps \cap Assertions = {}
BY DEF Step, Steps, Places, Assertions

LEMMA OrderFacts ==
  ASSUME asked \in Orders
  PROVE  /\ asked.asserts \in Seq(Assertions) /\ asked.sync \in BOOLEAN
         /\ asked.install \in {"none", "names", "files"}
BY DEF Orders, RouterTestAssumption

\* The sequences the report is compared with.
LEMMA StepSequences ==
  ASSUME asked \in Orders, extras \in BOOLEAN
  PROVE  /\ BuildSteps \in Seq(Steps) /\ InstallSteps \in Seq(Steps)
         /\ AllSteps \in Seq(Steps)
         /\ BuildSteps = IF extras
              THEN <<Step("boot"), Step("packages")>> \o <<Step("extra_packages")>>
              ELSE <<Step("boot"), Step("packages")>>
         /\ InstallSteps = IF asked.install = "none" THEN BuildSteps
                           ELSE BuildSteps \o <<Step("install")>>
         /\ AllSteps = IF asked.sync THEN InstallSteps \o <<Step("sync")>> ELSE InstallSteps
<1> DEFINE bare == <<Step("boot"), Step("packages")>>
<1>1. /\ bare \in Seq(Steps) /\ <<>> \in Seq(Steps)
      /\ <<Step("extra_packages")>> \in Seq(Steps)
      /\ <<Step("install")>> \in Seq(Steps) /\ <<Step("sync")>> \in Seq(Steps)
  BY StepFacts DEF Places
<1>2. \A s, t \in Seq(Steps) : s \o t \in Seq(Steps)
  BY ConcatProperties
<1>3. \A s \in Seq(Steps) : s \o <<>> = s
  BY ConcatEmptySeq
<1>4. /\ BuildSteps \in Seq(Steps)
      /\ BuildSteps = IF extras THEN bare \o <<Step("extra_packages")>> ELSE bare
  BY <1>1, <1>2, <1>3 DEF BuildSteps
<1>5. /\ InstallSteps \in Seq(Steps)
      /\ InstallSteps = IF asked.install = "none" THEN BuildSteps
                        ELSE BuildSteps \o <<Step("install")>>
  BY <1>1, <1>2, <1>3, <1>4 DEF InstallSteps
<1>6. /\ AllSteps \in Seq(Steps)
      /\ AllSteps = IF asked.sync THEN InstallSteps \o <<Step("sync")>> ELSE InstallSteps
  BY <1>1, <1>2, <1>3, <1>5 DEF AllSteps
<1>7. QED
  BY <1>4, <1>5, <1>6

\* What the report is made of, and that it can be counted.
LEMMA ReportFacts ==
  ASSUME record \in Seq(Entries)
  PROVE  /\ Reported \in Seq(Steps \cup Assertions) /\ Len(Reported) = Len(record)
         /\ DOMAIN record = 1..Len(record)
         /\ \A k \in DOMAIN record : record[k] \in Entries /\ Reported[k] = record[k].check
         /\ IsFiniteSet({k \in DOMAIN record : record[k].check \in Assertions})
         /\ Asserted \in Nat
<1>1. DOMAIN record = 1..Len(record) /\ Len(record) \in Nat
  OBVIOUS
<1>2. \A k \in DOMAIN record : record[k] \in Entries /\ record[k].check \in Steps \cup Assertions
  <2>1. \A k \in DOMAIN record : record[k] \in Entries
    BY <1>1
  <2>2. \A e \in Entries : e.check \in Steps \cup Assertions
    BY DEF Entries
  <2>3. QED
    BY <2>1, <2>2
<1>3. Reported \in Seq(Steps \cup Assertions) /\ Len(Reported) = Len(record)
  BY <1>1, <1>2 DEF Reported
<1>4. IsFiniteSet(1..Len(record))
  BY <1>1, FS_Interval
<1>5. IsFiniteSet({k \in DOMAIN record : record[k].check \in Assertions})
  BY <1>1, <1>4, FS_Subset
<1>6. QED
  BY <1>1, <1>2, <1>3, <1>5, FS_CardinalityType DEF Reported, Asserted

\* What one more entry does to the report.
LEMMA OneMore ==
  ASSUME record \in Seq(Entries), NEW e \in Entries, record' = Append(record, e)
  PROVE  /\ record' \in Seq(Entries)
         /\ DOMAIN record' = DOMAIN record \cup {Len(record) + 1}
         /\ Len(record) + 1 \notin DOMAIN record
         /\ \A k \in DOMAIN record : record'[k] = record[k]
         /\ record'[Len(record) + 1] = e
         /\ Reported' = Reported \o <<e.check>>
         /\ OK' <=> OK /\ e.ok
         /\ Asserted' = IF e.check \in Assertions THEN Asserted + 1 ELSE Asserted
<1> DEFINE m == Len(record) + 1
           asserted == {k \in DOMAIN record : record[k].check \in Assertions}
<1>1. /\ record' \in Seq(Entries) /\ Len(record') = m
      /\ DOMAIN record = 1..Len(record) /\ DOMAIN record' = 1..m /\ Len(record) \in Nat
      /\ \A k \in DOMAIN record : record'[k] = record[k]
      /\ record'[m] = e
  BY AppendProperties
<1>2. DOMAIN record' = DOMAIN record \cup {m} /\ m \notin DOMAIN record
  BY <1>1
<1>3. Reported' = Reported \o <<e.check>>
  <2>1. /\ Reported \in Seq(Steps \cup Assertions) /\ Len(Reported) = Len(record)
        /\ \A k \in DOMAIN record : Reported[k] = record[k].check
    BY ReportFacts
  <2>2. Reported' = [k \in 1..m |-> record'[k].check]
    BY <1>1 DEF Reported
  <2>3. e.check \in Steps \cup Assertions
    BY DEF Entries
  <2>4. /\ Reported \o <<e.check>> \in Seq(Steps \cup Assertions)
        /\ Len(Reported \o <<e.check>>) = m
        /\ \A k \in 1..Len(record) : (Reported \o <<e.check>>)[k] = Reported[k]
        /\ (Reported \o <<e.check>>)[m] = e.check
    BY <1>1, <2>1, <2>3, ConcatProperties
  <2>5. /\ DOMAIN (Reported \o <<e.check>>) = 1..m
        /\ Reported \o <<e.check>> = [k \in 1..m |-> (Reported \o <<e.check>>)[k]]
    BY <2>4
  <2>6. \A k \in 1..m : (Reported \o <<e.check>>)[k] = record'[k].check
    BY <1>1, <1>2, <2>1, <2>4
  <2>7. QED
    BY <2>2, <2>5, <2>6
<1>4. OK' <=> OK /\ e.ok
  BY <1>1, <1>2 DEF OK
<1>5. Asserted' = IF e.check \in Assertions THEN Asserted + 1 ELSE Asserted
  <2>1. IsFiniteSet(asserted) /\ Asserted = Cardinality(asserted) /\ m \notin asserted
    BY ReportFacts, <1>2 DEF Asserted
  <2>2. Asserted' = Cardinality({k \in DOMAIN record' : record'[k].check \in Assertions})
    BY DEF Asserted
  <2>3. {k \in DOMAIN record' : record'[k].check \in Assertions}
          = IF e.check \in Assertions THEN asserted \cup {m} ELSE asserted
    BY <1>1, <1>2
  <2>4. QED
    BY <2>1, <2>2, <2>3, FS_AddElement
<1>6. QED
  BY <1>1, <1>2, <1>3, <1>4, <1>5

\* A report of steps only.
LEMMA StepsOnly ==
  ASSUME record \in Seq(Entries), Reported \in Seq(Steps)
  PROVE  Asserted = 0 /\ \A k \in DOMAIN record : record[k].check \in Steps
<1>1. \A k \in DOMAIN record : record[k].check \in Steps
  <2>1. \A k \in DOMAIN record : Reported[k] = record[k].check /\ k \in 1..Len(Reported)
    BY ReportFacts
  <2>2. QED
    BY <2>1
<1>2. \A k \in DOMAIN record : record[k].check \notin Assertions
  BY <1>1, StepFacts
<1>3. {k \in DOMAIN record : record[k].check \in Assertions} = {}
  BY <1>2
<1>4. QED
  BY <1>1, <1>3, FS_EmptySet DEF Asserted

LEMMA EarlyReport ==
  ASSUME RTTypeOK, Progress, place \in Places
  PROVE  /\ Reported \in Seq(Steps) /\ Asserted = 0
         /\ \A k \in DOMAIN record : record[k].check \in Steps
<1>1. /\ <<>> \in Seq(Steps) /\ <<Step("boot")>> \in Seq(Steps)
      /\ <<Step("boot"), Step("packages")>> \in Seq(Steps)
  BY StepFacts DEF Places
<1>2. BuildSteps \in Seq(Steps) /\ InstallSteps \in Seq(Steps)
  BY StepSequences DEF RTTypeOK, Places
<1>3. Reported \in Seq(Steps)
  BY <1>1, <1>2 DEF Progress, Places
<1>4. QED
  BY <1>3, StepsOnly DEF RTTypeOK, Places

LEMMA RouterKeeps ==
  ASSUME UNCHANGED router
  PROVE  extras' = extras /\ luci' = luci /\ page' = page /\ lacks' = lacks /\ known' = known
BY DEF router

LEMMA SequencesKeep ==
  ASSUME asked' = asked, extras' = extras
  PROVE  BuildSteps' = BuildSteps /\ InstallSteps' = InstallSteps /\ AllSteps' = AllSteps
<1>1. BuildSteps' = BuildSteps
  BY DEF BuildSteps
<1>2. InstallSteps' = InstallSteps
  BY <1>1 DEF InstallSteps
<1>3. QED
  BY <1>1, <1>2 DEF AllSteps

\* One more step of a report that has steps only.
LEMMA StepTaken ==
  ASSUME RTTypeOK, Progress, place \in Places,
         NEW s \in Steps, NEW passed \in BOOLEAN, Recorded(s, passed)
  PROVE  /\ record' \in Seq(Entries) /\ Reported' = Reported \o <<s>>
         /\ OK' <=> OK /\ passed
         /\ Asserted' = 0 /\ \A k \in DOMAIN record' : record'[k].check \in Steps
<1> DEFINE e == Entry(s, passed, "none", FALSE)
<1>1. e \in Entries /\ e.check = s /\ e.ok = passed /\ record' = Append(record, e)
  BY DEF Entry, Entries, Recorded
<1> HIDE DEF e
<1>2. /\ record' \in Seq(Entries) /\ Reported' = Reported \o <<s>> /\ (OK' <=> OK /\ passed)
      /\ DOMAIN record' = DOMAIN record \cup {Len(record) + 1}
      /\ \A k \in DOMAIN record : record'[k] = record[k]
      /\ record'[Len(record) + 1] = e
      /\ Asserted' = IF s \in Assertions THEN Asserted + 1 ELSE Asserted
  BY <1>1, OneMore DEF RTTypeOK, Places
<1>3. Asserted = 0 /\ \A k \in DOMAIN record : record[k].check \in Steps
  BY EarlyReport
<1>4. \A k \in DOMAIN record' : record'[k].check \in Steps
  BY <1>1, <1>2, <1>3
<1>5. Asserted' = 0
  BY <1>2, <1>3, StepFacts
<1>6. QED
  BY <1>1, <1>2, <1>4, <1>5

\* A report of steps has no verdict to be right about.
LEMMA NoVerdict ==
  ASSUME record' \in Seq(Entries), \A k \in DOMAIN record' : record'[k].check \in Steps
  PROVE  VerdictIsRoots' /\ AssertedOnlyWhenEquipped'
<1>1. \A k \in DOMAIN record' : record'[k].check \notin Assertions /\ record'[k].check.kind # "http"
  BY StepFacts DEF Places
<1>2. QED
  BY <1>1 DEF VerdictIsRoots, AssertedOnlyWhenEquipped, IsHTTP

LEMMA EarlyStays ==
  ASSUME RTTypeOK, Progress, place \in Places, UNCHANGED record
  PROVE  /\ record' \in Seq(Entries) /\ Reported' = Reported /\ (OK' <=> OK)
         /\ Asserted' = 0 /\ \A k \in DOMAIN record' : record'[k].check \in Steps
<1>1. Reported' = Reported /\ (OK' <=> OK) /\ Asserted' = Asserted
  BY DEF Reported, OK, Asserted
<1>2. QED
  BY <1>1, EarlyReport DEF RTTypeOK, Places

LEMMA ChecksBehind ==
  ASSUME RTTypeOK, Progress
  PROVE  /\ place = "boot" => Reported \o <<Step("boot")>> = <<Step("boot")>>
         /\ place = "packages" =>
              Reported \o <<Step("packages")>> = <<Step("boot"), Step("packages")>>
         /\ place = "extra_packages" =>
              BuildSteps = IF extras THEN Reported \o <<Step("extra_packages")>> ELSE Reported
         /\ place = "install" =>
              InstallSteps = IF Installs THEN Reported \o <<Step("install")>> ELSE Reported
         /\ place = "sync" =>
              AllSteps = IF asked.sync THEN Reported \o <<Step("sync")>> ELSE Reported
<1>1. /\ <<Step("boot")>> \in Seq(Steps)
      /\ Step("boot") \in Steps /\ Step("packages") \in Steps
  BY StepFacts DEF Places
<1>2. <<>> \o <<Step("boot")>> = <<Step("boot")>>
  BY <1>1, ConcatEmptySeq
<1>3. <<Step("boot")>> \o <<Step("packages")>> = <<Step("boot"), Step("packages")>>
  BY <1>1, PairConcat
<1>4. QED
  BY <1>2, <1>3, StepSequences DEF Progress, RTTypeOK, Installs

-----------------------------------------------------------------------------
(* The steps ahead of the assertions *)

LEMMA BootStep ==
  ASSUME IInv, Boot
  PROVE  IInv'
<1>1. RTTypeOK /\ Progress /\ place = "boot" /\ place \in Places /\ asked \in Orders
  BY DEF IInv, Boot, RTTypeOK, Places
<1>2. PICK up \in BOOLEAN : Recorded(Step("boot"), up) /\ place' = IF up THEN "reach" ELSE "ended"
  BY DEF Boot
<1>3. /\ record' \in Seq(Entries) /\ Reported' = Reported \o <<Step("boot")>>
      /\ (OK' <=> OK /\ up)
      /\ \A k \in DOMAIN record' : record'[k].check \in Steps
  BY <1>1, <1>2, StepTaken, StepFacts DEF Places
<1>4. RTTypeOK'
  BY <1>1, <1>2, <1>3 DEF Boot, RTTypeOK, Places
<1>5. Reported' = <<Step("boot")>>
  BY <1>1, <1>3, ChecksBehind
<1>6. Progress'
  BY <1>2, <1>5 DEF Progress, Asserting
<1>7. Equipped' /\ PassIsComplete'
  BY <1>2, <1>3 DEF Equipped, PassIsComplete, Asserting
<1>8. QED
  BY <1>3, <1>4, <1>6, <1>7, NoVerdict DEF IInv

LEMMA ReachStep ==
  ASSUME IInv, Reach
  PROVE  IInv'
<1>1. RTTypeOK /\ Progress /\ place = "reach" /\ place \in Places
  BY DEF IInv, Reach, Places
<1>2. /\ asked' = asked /\ client' = client /\ blind' = blind
      /\ extras' = extras /\ luci' = luci /\ page' = page /\ lacks' = lacks /\ known' = known
  BY RouterKeeps DEF Reach
<1>3. CASE place' = "packages" /\ UNCHANGED record
  <2>1. /\ record' \in Seq(Entries) /\ Reported' = Reported
        /\ \A k \in DOMAIN record' : record'[k].check \in Steps
    BY <1>1, <1>3, EarlyStays
  <2>2. RTTypeOK' /\ Progress'
    BY <1>1, <1>2, <1>3, <2>1 DEF RTTypeOK, Places, Progress, Asserting
  <2>3. Equipped' /\ PassIsComplete'
    BY <1>3 DEF Equipped, PassIsComplete, Asserting
  <2>4. QED
    BY <2>1, <2>2, <2>3, NoVerdict DEF IInv
<1>4. CASE place' = "ended" /\ Recorded(Step("reach"), FALSE)
  <2>1. /\ record' \in Seq(Entries) /\ ~OK'
        /\ \A k \in DOMAIN record' : record'[k].check \in Steps
    BY <1>1, <1>4, StepTaken, StepFacts DEF Places
  <2>2. RTTypeOK' /\ Progress'
    BY <1>1, <1>2, <1>4, <2>1 DEF RTTypeOK, Places, Progress, Asserting
  <2>3. Equipped' /\ PassIsComplete'
    BY <1>4, <2>1 DEF Equipped, PassIsComplete, Asserting
  <2>4. QED
    BY <2>1, <2>2, <2>3, NoVerdict DEF IInv
<1>5. QED
  BY <1>3, <1>4 DEF Reach

LEMMA PackagesStep ==
  ASSUME IInv, Packages
  PROVE  IInv'
<1>1. RTTypeOK /\ Progress /\ place = "packages" /\ place \in Places /\ place' = "extra_packages"
  BY DEF IInv, Packages, Places
<1>2. /\ asked' = asked /\ client' = client
      /\ extras' = extras /\ luci' = luci /\ page' = page /\ lacks' = lacks /\ known' = known
  BY RouterKeeps DEF Packages
<1>3. PICK read \in BOOLEAN : /\ Recorded(Step("packages"), ~(read /\ "packages" \in lacks))
                              /\ blind' = (blind \/ ~read) /\ blind' \in BOOLEAN
  BY DEF Packages, RecordStep
<1>4. /\ record' \in Seq(Entries) /\ Reported' = Reported \o <<Step("packages")>>
      /\ OK' <=> OK /\ ~(read /\ "packages" \in lacks)
      /\ \A k \in DOMAIN record' : record'[k].check \in Steps
  BY <1>1, <1>3, StepTaken, StepFacts DEF Places
<1>5. RTTypeOK'
  BY <1>1, <1>2, <1>3, <1>4 DEF RTTypeOK, Places
<1>6. Progress'
  BY <1>1, <1>4, ChecksBehind DEF Progress, Asserting
<1>7. Equipped' /\ PassIsComplete'
  BY <1>1, <1>2, <1>3, <1>4 DEF Equipped, PassIsComplete, Asserting, RTTypeOK
<1>8. QED
  BY <1>4, <1>5, <1>6, <1>7, NoVerdict DEF IInv

LEMMA ExtrasStep ==
  ASSUME IInv, Extras
  PROVE  IInv'
<1>1. /\ RTTypeOK /\ Progress /\ place = "extra_packages" /\ place \in Places
      /\ place' = "install"
      /\ Equipped
  BY DEF IInv, Extras, Places
<1>2. /\ asked' = asked /\ client' = client /\ BuildSteps' = BuildSteps
      /\ extras' = extras /\ luci' = luci /\ page' = page /\ lacks' = lacks /\ known' = known
  BY RouterKeeps, SequencesKeep DEF Extras
<1>3. CASE extras
  <2>1. PICK read \in BOOLEAN :
          /\ Recorded(Step("extra_packages"), ~(read /\ "extra_packages" \in lacks))
          /\ blind' = (blind \/ ~read) /\ blind' \in BOOLEAN
    BY <1>3 DEF Extras, RecordStep
  <2>2. /\ record' \in Seq(Entries) /\ Reported' = Reported \o <<Step("extra_packages")>>
        /\ OK' <=> OK /\ ~(read /\ "extra_packages" \in lacks)
        /\ \A k \in DOMAIN record' : record'[k].check \in Steps
    BY <1>1, <2>1, StepTaken, StepFacts DEF Places
  <2>3. RTTypeOK'
    BY <1>1, <1>2, <2>1, <2>2 DEF RTTypeOK, Places
  <2>4. Progress'
    BY <1>1, <1>2, <1>3, <2>2, ChecksBehind DEF Progress, Asserting
  <2>5. Equipped' /\ PassIsComplete'
    BY <1>1, <1>2, <2>1, <2>2 DEF Equipped, PassIsComplete, Asserting, RTTypeOK
  <2>6. QED
    BY <2>2, <2>3, <2>4, <2>5, NoVerdict DEF IInv
<1>4. CASE ~extras
  <2>1. UNCHANGED <<record, blind>>
    BY <1>4 DEF Extras
  <2>2. /\ record' \in Seq(Entries) /\ Reported' = Reported /\ (OK' <=> OK)
        /\ \A k \in DOMAIN record' : record'[k].check \in Steps
    BY <1>1, <2>1, EarlyStays
  <2>3. RTTypeOK'
    BY <1>1, <1>2, <2>1, <2>2 DEF RTTypeOK, Places
  <2>4. Progress'
    BY <1>1, <1>2, <1>4, <2>2, ChecksBehind DEF Progress, Asserting
  <2>5. Equipped' /\ PassIsComplete'
    BY <1>1, <1>2, <1>4, <2>1, <2>2 DEF Equipped, PassIsComplete, Asserting, RTTypeOK
  <2>6. QED
    BY <2>2, <2>3, <2>4, <2>5, NoVerdict DEF IInv
<1>5. QED
  BY <1>1, <1>3, <1>4 DEF RTTypeOK, Places

LEMMA InstallsStep ==
  ASSUME IInv, InstallStep
  PROVE  IInv'
<1>1. /\ RTTypeOK /\ Progress /\ place = "install" /\ place \in Places /\ place' = "sync"
      /\ Equipped
  BY DEF IInv, InstallStep, Places
<1>2. /\ asked' = asked /\ client' = client /\ extras' = extras /\ luci' = luci
      /\ lacks' = lacks /\ known' = known /\ blind' = blind
      /\ InstallSteps' = InstallSteps
  BY SequencesKeep DEF InstallStep
<1>3. /\ record' \in Seq(Entries) /\ page' \in Pages /\ (OK' => OK)
      /\ Reported' = InstallSteps
      /\ \A k \in DOMAIN record' : record'[k].check \in Steps
  <2>1. CASE Installs
    <3>1. PICK passed \in BOOLEAN : Recorded(Step("install"), passed)
      BY <2>1 DEF InstallStep
    <3>2. page' \in Pages
      BY <2>1 DEF InstallStep
    <3>3. /\ record' \in Seq(Entries) /\ Reported' = Reported \o <<Step("install")>>
          /\ (OK' <=> OK /\ passed)
          /\ \A k \in DOMAIN record' : record'[k].check \in Steps
      BY <1>1, <3>1, StepTaken, StepFacts DEF Places
    <3>4. QED
      BY <1>1, <2>1, <3>2, <3>3, ChecksBehind
  <2>2. CASE ~Installs
    <3>1. UNCHANGED record /\ page' = page
      BY <2>2 DEF InstallStep
    <3>2. QED
      BY <1>1, <2>2, <3>1, EarlyStays, ChecksBehind DEF RTTypeOK
  <2>3. QED
    BY <2>1, <2>2
<1>4. RTTypeOK' /\ Progress'
  BY <1>1, <1>2, <1>3 DEF RTTypeOK, Places, Progress, Asserting
<1>5. Equipped' /\ PassIsComplete'
  BY <1>1, <1>2, <1>3 DEF Equipped, PassIsComplete, Asserting
<1>6. QED
  BY <1>3, <1>4, <1>5, NoVerdict DEF IInv

\* A router that passed every step gets to its assertions, with all of its build.
LEMMA SyncStep ==
  ASSUME IInv, Sync
  PROVE  IInv'
<1>1. /\ RTTypeOK /\ Progress /\ place = "sync" /\ place \in Places
      /\ Equipped
  BY DEF IInv, Sync, Places
<1>2. /\ asked' = asked /\ client' = client /\ extras' = extras /\ luci' = luci
      /\ lacks' = lacks /\ known' = known /\ blind' = blind
      /\ AllSteps' = AllSteps
  BY SequencesKeep DEF Sync
<1>3. /\ record' \in Seq(Entries) /\ page' \in Pages /\ Asserted' = 0
      /\ \A k \in DOMAIN record' : record'[k].check \in Steps
      /\ \/ place' = "assert" /\ OK /\ OK' /\ Reported' = AllSteps
         \/ place' = "ended" /\ ~OK'
  <2>1. CASE asked.sync /\ Fit
    <3>1. PICK passed \in BOOLEAN : /\ Recorded(Step("sync"), passed)
                                /\ place' = IF passed THEN "assert" ELSE "ended"
      BY <2>1 DEF Sync
    <3>2. page' \in Pages
      BY <2>1 DEF Sync
    <3>3. /\ record' \in Seq(Entries) /\ Reported' = Reported \o <<Step("sync")>>
          /\ (OK' <=> OK /\ passed) /\ Asserted' = 0
          /\ \A k \in DOMAIN record' : record'[k].check \in Steps
      BY <1>1, <3>1, StepTaken, StepFacts DEF Places
    <3>4. OK /\ AllSteps = Reported \o <<Step("sync")>>
      BY <1>1, <2>1, ChecksBehind DEF Fit
    <3>5. QED
      BY <3>1, <3>2, <3>3, <3>4
  <2>2. CASE ~(asked.sync /\ Fit)
    <3>1. UNCHANGED record /\ page' = page /\ place' = (IF Fit THEN "assert" ELSE "ended")
      BY <2>2 DEF Sync
    <3>2. /\ record' \in Seq(Entries) /\ Reported' = Reported /\ (OK' <=> OK) /\ Asserted' = 0
          /\ \A k \in DOMAIN record' : record'[k].check \in Steps
      BY <1>1, <3>1, EarlyStays
    <3>3. OK => Reported = AllSteps
      BY <1>1, <2>2, ChecksBehind DEF Fit
    <3>4. QED
      BY <1>1, <3>1, <3>2, <3>3 DEF RTTypeOK, Fit
  <2>3. QED
    BY <2>1, <2>2
<1>4. RTTypeOK'
  BY <1>1, <1>2, <1>3 DEF RTTypeOK, Places
<1>5. asked.asserts \in Seq(Assertions) /\ AllSteps \in Seq(Steps)
  BY <1>1, OrderFacts, StepSequences DEF RTTypeOK
<1>6. /\ SubSeq(asked.asserts, 1, 0) = <<>> /\ AllSteps \o <<>> = AllSteps
      /\ 0 <= Len(asked.asserts)
  BY <1>5, ConcatEmptySeq, SubSeqEmpty
<1>7. Progress'
  BY <1>2, <1>3, <1>6 DEF Progress, Asserting
<1>8. Equipped'
  <2>1. ASSUME place' = "assert"
        PROVE  blind \/ lacks \subseteq (IF extras THEN {} ELSE {"extra_packages"})
    BY <1>1, <1>3, <2>1 DEF Equipped, RTTypeOK
  <2>2. ASSUME place' = "assert"
        PROVE  \A k \in DOMAIN record' : record'[k].ok
    BY <1>3, <2>2 DEF OK
  <2>3. QED
    BY <1>2, <1>3, <2>1, <2>2 DEF Equipped, Asserting
<1>9. PassIsComplete'
  BY <1>3 DEF PassIsComplete
<1>10. QED
  BY <1>3, <1>4, <1>7, <1>8, <1>9, NoVerdict DEF IInv

-----------------------------------------------------------------------------
(* The assertions *)

\* The next assertion of the command.
LEMMA CurrentFacts ==
  ASSUME RTTypeOK, Asserted < Len(asked.asserts)
  PROVE  Current \in Assertions /\ Asserted \in Nat /\ asked.asserts \in Seq(Assertions)
<1>1. Asserted \in Nat /\ asked.asserts \in Seq(Assertions)
  BY ReportFacts, OrderFacts DEF RTTypeOK
<1>2. Asserted + 1 \in 1..Len(asked.asserts)
  BY <1>1
<1>3. asked.asserts[Asserted + 1] \in Assertions
  BY <1>1, <1>2, ElementOfSeq
<1>4. QED
  BY <1>1, <1>3 DEF Current

\* One more assertion is answered.
LEMMA Answered ==
  ASSUME IInv, Asserting, Asserted < Len(asked.asserts),
         NEW e \in Entries, e.check = Current, record' = Append(record, e),
         IsHTTP(e) /\ ~e.lost => e.ok = AsRoot(e),
         asked' = asked, extras' = extras, lacks' = lacks, blind' = blind, place' = "assert"
  PROVE  record' \in Seq(Entries) /\ Progress' /\ Equipped'
         /\ VerdictIsRoots' /\ AssertedOnlyWhenEquipped' /\ PassIsComplete'
<1>1. RTTypeOK /\ Progress /\ Equipped /\ VerdictIsRoots /\ AssertedOnlyWhenEquipped
  BY DEF IInv
<1>2. Current \in Assertions /\ Asserted \in Nat /\ asked.asserts \in Seq(Assertions)
  BY <1>1, CurrentFacts
<1>3. /\ record' \in Seq(Entries) /\ Reported' = Reported \o <<Current>>
      /\ Asserted' = Asserted + 1
      /\ DOMAIN record' = DOMAIN record \cup {Len(record) + 1}
      /\ \A k \in DOMAIN record : record'[k] = record[k]
      /\ record'[Len(record) + 1] = e
      /\ DOMAIN record = 1..Len(record) /\ Len(record) \in Nat
  BY <1>1, <1>2, OneMore DEF RTTypeOK
<1>4. AllSteps \in Seq(Steps) /\ AllSteps' = AllSteps
  BY <1>1, StepSequences, SequencesKeep DEF RTTypeOK
<1>5. Reported' = AllSteps \o SubSeq(asked.asserts, 1, Asserted + 1)
  <2> DEFINE S == Steps \cup Assertions
             before == SubSeq(asked.asserts, 1, Asserted)
  <2>1. Reported = AllSteps \o before
    BY <1>1 DEF Progress
  <2>2. /\ AllSteps \in Seq(S) /\ asked.asserts \in Seq(S)
        /\ before \in Seq(S) /\ <<Current>> \in Seq(S)
    BY <1>2, <1>4, SeqMonotonic, SubSeqProperties
  <2>3. before \o <<Current>> = SubSeq(asked.asserts, 1, Asserted + 1)
    <3>1. 1 \in 1..Len(asked.asserts) /\ Asserted + 1 \in 1..Len(asked.asserts)
      BY <1>2
    <3>2. SubSeq(asked.asserts, 1, Asserted + 1)
            = SubSeq(asked.asserts, 1, (Asserted + 1) - 1) \o <<asked.asserts[Asserted + 1]>>
      BY <1>2, <3>1, SubSeqRecursiveSecond
    <3>3. QED
      BY <1>2, <3>2 DEF Current
  <2> HIDE DEF S, before
  <2>4. (AllSteps \o before) \o <<Current>> = AllSteps \o (before \o <<Current>>)
    BY <2>2, ConcatAssociative
  <2>5. QED
    BY <1>3, <2>1, <2>3, <2>4
<1>6. Progress'
  <2>1. Asserted' <= Len(asked'.asserts)
    BY <1>2, <1>3
  <2>2. Reported' = AllSteps' \o SubSeq(asked'.asserts, 1, Asserted')
    BY <1>3, <1>4, <1>5
  <2>3. QED
    BY <2>1, <2>2 DEF Progress
<1>7. e.check \notin Steps
  BY <1>2, StepFacts
<1>8. Equipped'
  BY <1>1, <1>3, <1>7 DEF Equipped, Asserting
<1>9. VerdictIsRoots'
  BY <1>1, <1>3 DEF VerdictIsRoots
<1>10. AssertedOnlyWhenEquipped'
  <2>1. \A k \in DOMAIN record' : record'[k].check \in Steps => record'[k].ok
    BY <1>1, <1>3, <1>7 DEF Equipped
  <2>2. \A k \in DOMAIN record' : \A j \in 1..k : j \in DOMAIN record'
    BY <1>3
  <2>3. blind' \/ lacks' \subseteq (IF extras' THEN {} ELSE {"extra_packages"})
    BY <1>1 DEF Equipped
  <2>4. QED
    BY <2>1, <2>2, <2>3 DEF AssertedOnlyWhenEquipped
<1>11. QED
  BY <1>3, <1>6, <1>8, <1>9, <1>10 DEF PassIsComplete

\* A step that records nothing.
LEMMA Unrecorded ==
  ASSUME IInv, UNCHANGED <<asked, record, blind>>, extras' = extras, lacks' = lacks,
         Asserting
  PROVE  /\ record' \in Seq(Entries) /\ Reported' = Reported /\ Asserted' = Asserted
         /\ AllSteps' = AllSteps /\ (Asserting' => Equipped')
         /\ VerdictIsRoots' /\ AssertedOnlyWhenEquipped'
<1>1. RTTypeOK /\ Progress /\ Equipped /\ VerdictIsRoots /\ AssertedOnlyWhenEquipped
  BY DEF IInv
<1>2. Reported' = Reported /\ Asserted' = Asserted /\ AllSteps' = AllSteps
  BY SequencesKeep DEF Reported, Asserted
<1>3. Asserting' => Equipped'
  BY <1>1 DEF Equipped, Asserting
<1>4. VerdictIsRoots' /\ AssertedOnlyWhenEquipped'
  BY <1>1 DEF VerdictIsRoots, AssertedOnlyWhenEquipped, IsHTTP, AsRoot, Match
<1>5. QED
  BY <1>1, <1>2, <1>3, <1>4 DEF RTTypeOK

LEMMA AllMadeStep ==
  ASSUME IInv, AllMade
  PROVE  IInv'
<1>1. /\ RTTypeOK /\ Progress /\ Asserting /\ Asserted = Len(asked.asserts)
      /\ place' = "ended"
      /\ asked' = asked /\ record' = record /\ client' = client /\ blind' = blind
  BY DEF IInv, AllMade, Asserting
<1>2. extras' = extras /\ luci' = luci /\ page' = page /\ lacks' = lacks /\ known' = known
  BY RouterKeeps DEF AllMade
<1>3. /\ record' \in Seq(Entries) /\ Reported' = Reported /\ AllSteps' = AllSteps
      /\ VerdictIsRoots' /\ AssertedOnlyWhenEquipped'
  BY <1>1, <1>2, Unrecorded
<1>4. RTTypeOK' /\ Progress' /\ Equipped'
  BY <1>1, <1>2, <1>3 DEF RTTypeOK, Places, Progress, Equipped, Asserting
<1>5. PassIsComplete'
  <2>1. asked.asserts \in Seq(Assertions)
    BY <1>1, OrderFacts DEF RTTypeOK
  <2>2. SubSeq(asked.asserts, 1, Asserted) = asked.asserts
    BY <1>1, <2>1, SubSeqFull
  <2>3. Reported = AllSteps \o asked.asserts
    BY <1>1, <2>2 DEF Progress
  <2>4. QED
    BY <1>1, <1>3, <2>3 DEF PassIsComplete, Wanted
<1>6. QED
  BY <1>3, <1>4, <1>5 DEF IInv

LEMMA ShellStep ==
  ASSUME IInv, Shell
  PROVE  IInv'
<1>1. /\ RTTypeOK /\ Asserting /\ place = "assert" /\ place' = "assert"
      /\ Asserted < Len(asked.asserts) /\ Current.kind # "http"
      /\ asked' = asked /\ extras' = extras /\ luci' = luci /\ lacks' = lacks
      /\ client' = client /\ blind' = blind
  BY DEF IInv, Shell, Asserting
<1>2. page' \in Pages /\ known' \in BOOLEAN
  BY <1>1 DEF Shell, RTTypeOK
<1>3. PICK passed \in BOOLEAN : Recorded(Current, passed)
  BY DEF Shell
<1> DEFINE e == Entry(Current, passed, "none", FALSE)
<1>4. e \in Entries /\ e.check = Current /\ record' = Append(record, e) /\ ~IsHTTP(e)
  BY <1>1, <1>3, CurrentFacts DEF Entry, Entries, Recorded, IsHTTP
<1> HIDE DEF e
<1>5. /\ record' \in Seq(Entries) /\ Progress' /\ Equipped'
      /\ VerdictIsRoots' /\ AssertedOnlyWhenEquipped' /\ PassIsComplete'
  BY <1>1, <1>4, Answered
<1>6. RTTypeOK'
  BY <1>1, <1>2, <1>5 DEF RTTypeOK
<1>7. QED
  BY <1>5, <1>6 DEF IInv

LEMMA OpenPageStep ==
  ASSUME IInv, OpenPage
  PROVE  IInv'
<1>1. /\ RTTypeOK /\ Progress /\ Asserting /\ place' \in {"login", "get"}
      /\ place' = "get" => client.loggedIn
      /\ Asserted < Len(asked.asserts) /\ Current.kind = "http"
      /\ asked' = asked /\ record' = record /\ client' = client /\ blind' = blind
  BY DEF IInv, OpenPage, Asserting
<1>2. extras' = extras /\ luci' = luci /\ page' = page /\ lacks' = lacks /\ known' = known
  BY RouterKeeps DEF OpenPage
<1>3. /\ record' \in Seq(Entries) /\ Reported' = Reported /\ AllSteps' = AllSteps
      /\ Asserted' = Asserted
      /\ VerdictIsRoots' /\ AssertedOnlyWhenEquipped' /\ (Asserting' => Equipped')
  BY <1>1, <1>2, Unrecorded
<1>4. RTTypeOK' /\ Equipped' /\ PassIsComplete'
  BY <1>1, <1>2, <1>3 DEF RTTypeOK, PassIsComplete, Asserting
<1>5. Progress'
  BY <1>1, <1>3 DEF Progress, Asserting, Current
<1>6. QED
  BY <1>3, <1>4, <1>5 DEF IInv

LEMMA UnansweredStep ==
  ASSUME IInv, NEW at \in {"login", "get"}, Unanswered(at)
  PROVE  IInv'
<1>1. /\ RTTypeOK /\ Asserting /\ Asserted < Len(asked.asserts) /\ place' = "assert"
      /\ asked' = asked /\ client' = client /\ blind' = blind
      /\ Recorded(Current, FALSE)
  BY DEF IInv, Unanswered, Asserting, Progress
<1>2. extras' = extras /\ luci' = luci /\ page' = page /\ lacks' = lacks /\ known' = known
  BY RouterKeeps DEF Unanswered
<1> DEFINE e == Entry(Current, FALSE, "none", FALSE)
<1>3. e \in Entries /\ e.check = Current /\ record' = Append(record, e) /\ ~IsHTTP(e)
  BY <1>1, CurrentFacts DEF Entry, Entries, Recorded, IsHTTP
<1> HIDE DEF e
<1>4. /\ record' \in Seq(Entries) /\ Progress' /\ Equipped'
      /\ VerdictIsRoots' /\ AssertedOnlyWhenEquipped' /\ PassIsComplete'
  BY <1>1, <1>2, <1>3, Answered
<1>5. RTTypeOK'
  BY <1>1, <1>2, <1>4 DEF RTTypeOK
<1>6. QED
  BY <1>4, <1>5 DEF IInv

LEMMA LoginStep ==
  ASSUME IInv, Login
  PROVE  IInv'
<1>1. CASE Unanswered("login")
  BY <1>1, UnansweredStep
<1>2. CASE /\ place = "login" /\ LoggedIn /\ place' = "get"
           /\ client' = [loggedIn |-> TRUE, cookie |-> luci = "open"] /\ known' = (luci = "open")
           /\ UNCHANGED <<asked, record, extras, luci, page, lacks, blind>>
  <2>1. /\ RTTypeOK /\ Progress /\ Asserting
        /\ Asserted < Len(asked.asserts) /\ Current.kind = "http"
    BY <1>2 DEF IInv, Asserting, Progress
  <2>2. /\ record' \in Seq(Entries) /\ Reported' = Reported /\ AllSteps' = AllSteps
        /\ Asserted' = Asserted
        /\ VerdictIsRoots' /\ AssertedOnlyWhenEquipped' /\ (Asserting' => Equipped')
    BY <1>2, <2>1, Unrecorded
  <2>3. client' = [loggedIn |-> TRUE, cookie |-> TRUE] /\ known' \in BOOLEAN
    BY <1>2 DEF LoggedIn
  <2>4. RTTypeOK' /\ Equipped' /\ PassIsComplete'
    BY <1>2, <2>1, <2>2, <2>3 DEF RTTypeOK, PassIsComplete, Asserting
  <2>5. Progress'
    <3>1. client'.loggedIn /\ Current' = Current /\ asked' = asked /\ place' = "get"
      BY <1>2, <2>2, <2>3 DEF Current
    <3>2. QED
      BY <2>1, <2>2, <3>1 DEF Progress, Asserting
  <2>6. QED
    BY <2>2, <2>4, <2>5 DEF IInv
<1>3. QED
  BY <1>1, <1>2 DEF Login

\* With a session the router still knows, the answer is the one root gets.
LEMMA AsRootAnswers ==
  ASSUME client.cookie /\ known, page \in Pages, NEW code \in Answers, NEW e,
         e.check = Current, e.page = page,
         e.ok = (Match(Current.want, code) /\ Healthy(code))
  PROVE  e.ok = AsRoot(e)
<1>1. code = Status[page]
  BY DEF Answers
<1>2. page = "exception" => code = 200
  BY <1>1 DEF Status
<1>3. 200 \div 100 = 2
  OBVIOUS
<1>4. Healthy(code) <=> page # "exception"
  BY <1>2, <1>3 DEF Healthy
<1>5. QED
  BY <1>1, <1>4 DEF AsRoot

LEMMA GetStep ==
  ASSUME IInv, Get
  PROVE  IInv'
<1>1. CASE Unanswered("get")
  BY <1>1, UnansweredStep
<1>2. CASE ~Unanswered("get")
  <2>1. /\ RTTypeOK /\ Asserting /\ place = "get" /\ place' = "assert"
        /\ Asserted < Len(asked.asserts) /\ client.loggedIn /\ client.cookie
        /\ asked' = asked /\ client' = client /\ blind' = blind
    BY <1>2 DEF IInv, Get, Asserting, Progress, RTTypeOK
  <2>2. extras' = extras /\ luci' = luci /\ page' = page /\ lacks' = lacks /\ known' = known
    BY <1>2, RouterKeeps DEF Get
  <2>3. PICK code \in Answers :
          record' = Append(record,
            Entry(Current, Match(Current.want, code) /\ Healthy(code), page,
                     client.cookie /\ ~known))
    BY <1>2 DEF Get
  <2> DEFINE e == Entry(Current, Match(Current.want, code) /\ Healthy(code), page,
                        client.cookie /\ ~known)
  <2>4. /\ e.check = Current /\ e.page = page /\ record' = Append(record, e)
        /\ e.ok = (Match(Current.want, code) /\ Healthy(code))
        /\ e.lost = (client.cookie /\ ~known)
    BY <2>3 DEF Entry
  <2>5. e \in Entries
    <3>1. /\ (Match(Current.want, code) /\ Healthy(code)) \in BOOLEAN
          /\ (client.cookie /\ ~known) \in BOOLEAN
      OBVIOUS
    <3>2. Current \in Assertions /\ page \in Pages
      BY <2>1, CurrentFacts DEF RTTypeOK
    <3>3. QED
      BY <3>1, <3>2 DEF Entry, Entries
  <2>6. ~e.lost => client.cookie /\ known
    BY <2>1, <2>4
  <2> HIDE DEF e
  <2>7. IsHTTP(e) /\ ~e.lost => e.ok = AsRoot(e)
    BY <2>1, <2>4, <2>6, AsRootAnswers DEF RTTypeOK
  <2>8. /\ record' \in Seq(Entries) /\ Progress' /\ Equipped'
        /\ VerdictIsRoots' /\ AssertedOnlyWhenEquipped' /\ PassIsComplete'
    BY <2>1, <2>2, <2>4, <2>5, <2>7, Answered
  <2>9. RTTypeOK'
    BY <2>1, <2>2, <2>8 DEF RTTypeOK
  <2>10. QED
    BY <2>8, <2>9 DEF IInv
<1>3. QED
  BY <1>1, <1>2

LEMMA NoReport == <<>> \in Seq(Entries)
OBVIOUS

LEMMA EmptyReport ==
  ASSUME RTTypeOK', record' = <<>>, place' = "boot"
  PROVE  IInv'
<1>1. DOMAIN record' = {} /\ Reported' = <<>>
  BY DEF Reported
<1>2. Progress' /\ Equipped' /\ PassIsComplete'
  BY <1>1 DEF Progress, Equipped, PassIsComplete, Asserting
<1>3. VerdictIsRoots' /\ AssertedOnlyWhenEquipped'
  BY <1>1 DEF VerdictIsRoots, AssertedOnlyWhenEquipped
<1>4. QED
  BY <1>2, <1>3 DEF IInv

LEMMA NextRouterStep ==
  ASSUME IInv, NextRouter
  PROVE  IInv'
<1>1. RTTypeOK'
  BY NoReport DEF IInv, NextRouter, RTTypeOK, NoClient, Pages, Places
<1>2. QED
  BY <1>1, EmptyReport DEF NextRouter

LEMMA IInit ==
  ASSUME RTInit
  PROVE  IInv
<1>1. RTTypeOK
  BY NoReport DEF RTInit, RTTypeOK, NoClient, Pages, Places
<1>2. DOMAIN record = {} /\ Reported = <<>> /\ place = "boot"
  BY DEF RTInit, Reported
<1>3. Progress /\ Equipped /\ PassIsComplete
  BY <1>2 DEF Progress, Equipped, PassIsComplete, Asserting
<1>4. VerdictIsRoots /\ AssertedOnlyWhenEquipped
  BY <1>2 DEF VerdictIsRoots, AssertedOnlyWhenEquipped
<1>5. QED
  BY <1>1, <1>3, <1>4 DEF IInv

LEMMA IStutter ==
  ASSUME IInv, UNCHANGED rtVars
  PROVE  IInv'
<1>1. /\ place' = place /\ asked' = asked /\ record' = record /\ client' = client /\ blind' = blind
      /\ router' = router
  BY DEF rtVars
<1>2. extras' = extras /\ luci' = luci /\ page' = page /\ lacks' = lacks /\ known' = known
  BY <1>1, RouterKeeps
<1>3. BuildSteps' = BuildSteps /\ InstallSteps' = InstallSteps /\ AllSteps' = AllSteps
  BY <1>1, <1>2, SequencesKeep
<1>4. Reported' = Reported /\ Asserted' = Asserted /\ (OK' <=> OK)
  BY <1>1 DEF Reported, Asserted, OK
<1>5. RTTypeOK' /\ Progress' /\ Equipped'
  <2>1. RTTypeOK'
    BY <1>1, <1>2 DEF IInv, RTTypeOK
  <2>2. Current' = Current /\ (Asserting' <=> Asserting)
    BY <1>1, <1>4 DEF Current, Asserting
  <2>3. Progress'
    BY <1>1, <1>3, <1>4, <2>2 DEF IInv, Progress
  <2>4. Equipped'
    BY <1>1, <1>2, <1>4, <2>2 DEF IInv, Equipped
  <2>5. QED
    BY <2>1, <2>3, <2>4
<1>6. VerdictIsRoots' /\ AssertedOnlyWhenEquipped' /\ PassIsComplete'
  BY <1>1, <1>2, <1>3, <1>4 DEF IInv, VerdictIsRoots, AssertedOnlyWhenEquipped,
     PassIsComplete,
     IsHTTP, AsRoot, Match, Wanted
<1>7. QED
  BY <1>5, <1>6 DEF IInv

LEMMA RouterInductive == RTSpec => []IInv
<1>1. RTInit => IInv
  BY IInit
<1>2. ASSUME IInv, RTNext PROVE IInv'
  BY <1>2, BootStep, ReachStep, PackagesStep, ExtrasStep, InstallsStep, SyncStep, AllMadeStep,
     ShellStep, OpenPageStep, LoginStep, GetStep, NextRouterStep DEF RTNext
<1>3. IInv /\ [RTNext]_rtVars => IInv'
  BY <1>2, IStutter
<1>4. QED
  BY <1>1, <1>3, PTL DEF RTSpec

\* The session of check.luci holds a cookie whenever it is taken for a logged-in one,
\* and the report of a router is one of steps and assertions: for any assertions, in
\* any number, whatever they do to the router.
THEOREM SessionProved == RTSpec => []RTTypeOK
<1>1. IInv => RTTypeOK
  BY DEF IInv
<1>2. RTSpec => []IInv
  BY RouterInductive
<1>3. QED
  BY <1>1, <1>2, PTL

\* An http assertion that was answered says what root sees, as long as the router knows
\* the session, an exception behind a 200 included.
THEOREM VerdictProved == RTSpec => []VerdictIsRoots
<1>1. IInv => VerdictIsRoots
  BY DEF IInv
<1>2. RTSpec => []IInv
  BY RouterInductive
<1>3. QED
  BY <1>1, <1>2, PTL

\* No assertion is made of a router that failed a step, or that is known to lack a
\* package of its build.
THEOREM EquippedProved == RTSpec => []AssertedOnlyWhenEquipped
<1>1. IInv => AssertedOnlyWhenEquipped
  BY DEF IInv
<1>2. RTSpec => []IInv
  BY RouterInductive
<1>3. QED
  BY <1>1, <1>2, PTL

\* A router that passes was asked everything the command line asks of it, in order.
THEOREM CompleteProved == RTSpec => []PassIsComplete
<1>1. IInv => PassIsComplete
  BY DEF IInv
<1>2. RTSpec => []IInv
  BY RouterInductive
<1>3. QED
  BY <1>1, <1>2, PTL

=============================================================================
