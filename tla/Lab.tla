-------------------------------- MODULE Lab --------------------------------
(***************************************************************************)
(* The commands that start and stop a lab: `owlab up`, `up --no-build`,    *)
(* `down` and `test` (cmd/owlab/commands.go: up, upBuilt, startVM, down;   *)
(* cmd/owlab/test.go: test), one after another on one machine, with the    *)
(* exit status main gives each. Inside a router there is only the record   *)
(* of what its build could not install; VMLifecycle has the rest of a VM.  *)
(***************************************************************************)
EXTENDS Naturals, FiniteSets

CONSTANTS
  Containers, VMs, \* the routers of owlab.yaml
  Patience         \* wedged VMs the two minutes of a teardown pay for

ASSUME LabAssumption ==
  /\ Containers \cap VMs = {}
  /\ Patience \in Nat

Routers == Containers \cup VMs

VARIABLES
  pc,
  cmd,       \* the command and its flags
  named,     \* the routers it acts on
  todo,      \* those the loop at pc still has: it takes them in the order the
             \* command line has them, which may be any
  over,      \* why its context is done: Ctrl-C, --timeout, or not yet
  ready,     \* routers LuCI answered on
  ok,        \* test: no router has had a step that is not OK
  left,      \* teardown: wedged VMs the budget still pays for
  exit,      \* exit status
  image,     \* router -> what it starts from: an image, or a VM's disk
  made,      \* container -> what it was created from, while it runs
  booted,    \* VMs that run
  built,     \* history: images this command built or found labelled
  swapped,   \* history: images somebody else replaced meanwhile
  unread,    \* history: records that could not be read
  wasUp,     \* history: VMs that ran when the command began
  aged,      \* history: VMs whose disk was set up before the command began
  heard,     \* history: Ctrl-C came while the command waited for LuCI
  broken     \* history: the engine did not do what the teardown asked

command == <<cmd, named>>
progress == <<ready, ok, left, exit>>
lab == <<image, made, booted>>
history == <<built, swapped, unread, wasUp, aged, heard, broken>>
vars == <<pc, command, todo, over, progress, lab, history>>

\* from: nothing (a disk that is not provisioned), the inputs owlab.yaml has
\* now, or other inputs. lacks: a package is in the record of the build.
Origin == [from : {"none", "ours", "other"}, lacks : BOOLEAN]
Nothing == [from |-> "none", lacks |-> FALSE]
Made(inputs) == {o \in Origin : o.from = inputs}

Flags == [name : {"none", "up", "test", "down"}, all : BOOLEAN, build : BOOLEAN,
          rebuild : BOOLEAN, wait : BOOLEAN, keep : BOOLEAN, purge : BOOLEAN]
NoCommand == [name |-> "none", all |-> FALSE, build |-> FALSE, rebuild |-> FALSE,
              wait |-> FALSE, keep |-> FALSE, purge |-> FALSE]
Label == {"idle", "inspect", "build", "start", "vms", "wait", "join", "missing",
          "checks", "teardown", "down", "exited"}

TypeOK ==
  /\ pc \in Label /\ cmd \in Flags /\ named \subseteq Routers /\ todo \subseteq named
  /\ over \in {"no", "signal", "deadline"}
  /\ ready \subseteq named /\ ok \in BOOLEAN
  /\ left \in 0..Patience /\ exit \in {0, 1, 130}
  /\ image \in [Routers -> Origin] /\ made \in [Containers -> Origin]
  /\ booted \subseteq VMs
  /\ built \subseteq Containers /\ swapped \subseteq Containers
  /\ unread \subseteq named /\ wasUp \subseteq VMs /\ aged \subseteq VMs
  /\ heard \in BOOLEAN /\ broken \in BOOLEAN

Init ==
  /\ pc = "idle" /\ cmd = NoCommand /\ named = {} /\ todo = {} /\ over = "no"
  /\ ready = {} /\ ok = TRUE /\ left = Patience /\ exit = 0
  /\ image = [r \in Routers |-> Nothing] /\ made = [r \in Containers |-> Nothing]
  /\ booted = {}
  /\ built = {} /\ swapped = {} /\ unread = {} /\ wasUp = {} /\ aged = {}
  /\ heard = FALSE /\ broken = FALSE

Running == booted \cup {r \in Containers : made[r].from # "none"}
Remove(S) == made' = [r \in Containers |-> IF r \in S THEN Nothing ELSE made[r]]

Goto(l, S) == pc' = l /\ todo' = S

\* The command returns. test runs its teardown first, in the order of a defer.
Return(code) ==
  /\ exit' = code
  /\ IF cmd.name = "test" /\ ~cmd.keep
     THEN Goto("teardown", named \cap VMs) ELSE Goto("exited", {})

\* What a command fails with: 130 is Go's context.Canceled, and docker's own status
\* after a Ctrl-C; every other status counts as 1.
Codes == IF over = "deadline" THEN {1} ELSE {1, 130}

-----------------------------------------------------------------------------
(* up, and the same steps of test *)

\* The flags that mean something, after the refusals: --rebuild with --no-build, a
\* VM with --no-build, a fidelity this host does not have. all is for `down`, where
\* no ids is another request than every id.
Accepted(c) ==
  /\ c.name # "none"
  /\ c.name = "up" => ~c.all /\ ~c.keep /\ ~c.purge /\ ~(c.rebuild /\ ~c.build)
  /\ c.name = "test" => ~c.all /\ c.build /\ c.wait /\ ~c.purge
  /\ c.name = "down" => ~c.build /\ ~c.rebuild /\ ~c.wait /\ ~c.keep

Begin ==
  /\ pc = "idle"
  /\ cmd' \in {c \in Flags : Accepted(c)}
  /\ named' \in IF cmd'.all THEN {Routers} ELSE SUBSET Routers \ {{}}
  /\ cmd'.name = "up" /\ ~cmd'.build => named' \cap VMs = {}
  /\ IF cmd'.name = "down" THEN Goto("down", named' \cap VMs)
     ELSE IF named' \cap Containers = {} THEN Goto("vms", named')
     ELSE IF cmd'.build THEN Goto("build", {})
     ELSE Goto("inspect", named')
  /\ wasUp' = booted /\ aged' = {r \in VMs : image[r].from # "none"}
  /\ UNCHANGED <<over, progress, lab, built, swapped, unread, heard, broken>>

\* compose.Prepare and `compose build`, after resolveBaseImages: each router's
\* image is replaced when its own build is done. One that fell back to the tarball
\* is labelled with other inputs than a later command computes.
Build ==
  /\ pc = "build"
  /\ \E done \in SUBSET (named \cap Containers), code \in {0, 1, 130} :
       /\ code = 0 => over = "no" /\ done = named \cap Containers
       /\ code # 0 => code \in Codes
       /\ over # "no" => done = {}
       /\ built' = built \cup done
       /\ \E o \in [done -> Made("ours") \cup Made("other")] :
            image' = [r \in Routers |-> IF r \in done THEN o[r] ELSE image[r]]
       /\ IF code = 0 THEN Goto("start", {}) /\ UNCHANGED exit ELSE Return(code)
  /\ UNCHANGED <<command, over, ready, ok, left, made, booted,
                 swapped, unread, wasUp, aged, heard, broken>>

\* Mutant of BuiltFrom: any image that carries a label will do.
AnyLabel(o) == o.from # "none"

\* The image is there, and its label names the inputs of this owlab.yaml.
BuiltFrom(o) == o.from = "ours"

\* upBuilt looks at one image after another.
Inspect ==
  /\ pc = "inspect"
  /\ \E r \in todo :
       IF over = "no" /\ BuiltFrom(image[r])
       THEN /\ built' = built \cup {r} /\ UNCHANGED exit
            /\ IF todo = {r} THEN Goto("start", {}) ELSE Goto("inspect", todo \ {r})
       ELSE Return(1) /\ UNCHANGED built
  /\ UNCHANGED <<command, over, ready, ok, left, lab,
                 swapped, unread, wasUp, aged, heard, broken>>

\* `compose up -d`: a container is created again from the image its name has.
Start ==
  /\ pc = "start"
  /\ \E done \in SUBSET (named \cap Containers), code \in {0, 1, 130} :
       /\ code = 0 => over = "no" /\ done = named \cap Containers
       /\ code # 0 => code \in Codes
       /\ over # "no" => done = {}
       /\ \A r \in done : image[r].from # "none"
       /\ made' = [r \in Containers |-> IF r \in done THEN image[r] ELSE made[r]]
       /\ IF code = 0 THEN Goto("vms", named) /\ UNCHANGED exit ELSE Return(code)
  /\ UNCHANGED <<command, over, ready, ok, left, image, booted, history>>

\* startVM: a VM that runs is left alone, --rebuild throws its disk away, a disk
\* that is not set up is provisioned, one that is boots as it is. The first error ends the loop.
StartVM ==
  /\ pc = "vms"
  /\ \E r \in todo \cap VMs :
        \/ /\ r \in booted /\ ~cmd.rebuild
           /\ Goto("vms", todo \ {r}) /\ UNCHANGED <<exit, image, booted>>
        \/ /\ ~(r \in booted /\ ~cmd.rebuild)
           /\ over = "no"
           /\ \E o \in IF cmd.rebuild \/ image[r].from = "none" THEN Made("ours")
                       ELSE {image[r]} : image' = [image EXCEPT ![r] = o]
           /\ booted' = booted \cup {r}
           /\ Goto("vms", todo \ {r}) /\ UNCHANGED exit
        \/ /\ ~(r \in booted /\ ~cmd.rebuild)
           /\ booted' \in {booted, booted \cup {r}, booted \ {r}}
           /\ image' \in {image} \cup (IF cmd.rebuild THEN {[image EXCEPT ![r] = Nothing]}
                                       ELSE {})
           /\ \E code \in Codes : Return(code)
  /\ UNCHANGED <<command, over, ready, ok, left, made, history>>

StartVMsDone ==
  /\ pc = "vms" /\ todo \cap VMs = {}
  /\ Goto(IF cmd.wait THEN "wait" ELSE "join", named)
  /\ UNCHANGED <<command, over, progress, lab, history>>

\* LuCI of a router answers.
Answer(r) ==
  /\ pc = "wait" /\ r \in (todo \cap Running)
  /\ ready' = ready \cup {r} /\ Goto("wait", todo \ {r})
  /\ UNCHANGED <<command, over, ok, left, exit, lab, history>>

\* Every router answered, or 90 s have passed, or the context is done.
Waited ==
  /\ pc = "wait"
  /\ IF cmd.name = "test" THEN Goto("checks", named) ELSE Goto("join", {})
  /\ UNCHANGED <<command, over, progress, lab, history>>

-----------------------------------------------------------------------------
(* How up and test end *)

\* What the record of a router says of it.
Lacks(r) == IF r \in VMs THEN image[r].lacks ELSE made[r].lacks

\* Mutant of Joined: a router that did not answer is looked at first.
NotReadyFirst == IF cmd.wait /\ ready # named THEN 1
                 ELSE IF over = "signal" THEN 130 ELSE 0

\* The context's own error, then the routers that did not answer.
Joined == IF over = "signal" THEN 130
          ELSE IF cmd.wait /\ ready # named THEN 1 ELSE 0

Join ==
  /\ pc = "join" /\ exit' = Joined /\ Goto("missing", {})
  /\ UNCHANGED <<command, over, ready, ok, left, lab, history>>

\* reportMissing passes over a record it cannot read.
Missing ==
  /\ pc = "missing"
  /\ unread' \in IF over = "no" THEN SUBSET named ELSE {named}
  /\ exit' = IF exit = 0 /\ \E r \in named \ unread' : Lacks(r) THEN 1 ELSE exit
  /\ Goto("exited", {})
  /\ UNCHANGED <<command, over, ready, ok, left, lab,
                 built, swapped, wasUp, aged, heard, broken>>

\* The boot and the packages step; what is installed, synced and asserted after
\* them may fail as well.
Passes(r, read) == r \in ready /\ ~(read /\ Lacks(r))

Checks ==
  /\ pc = "checks"
  /\ \E r \in todo, read, rest \in BOOLEAN :
       /\ over # "no" => ~read
       /\ unread' = IF read THEN unread ELSE unread \cup {r}
       /\ ok' = (ok /\ Passes(r, read) /\ rest)
       /\ Goto("checks", todo \ {r})
  /\ UNCHANGED <<command, over, ready, left, exit, lab,
                 built, swapped, wasUp, aged, heard, broken>>

ChecksDone ==
  /\ pc = "checks" /\ todo = {}
  /\ Return(IF ok THEN 0 ELSE 1)
  /\ UNCHANGED <<command, over, ready, ok, left, lab, history>>

-----------------------------------------------------------------------------
(* Stopping *)

\* Mutant of Stopped: the teardown uses the context of the test.
StoppedByTest(r) == IF over = "no" THEN booted \ {r} ELSE booted

\* What runs after VM.Stop ended, with an error or without one.
Stopped(r) == booted \ {r}

\* The teardown's VM.Stop of one VM: it powers off, or it is wedged and killed
\* after the waits, as long as the two minutes last; then it is only terminated,
\* if it can be, and the error is dropped.
Teardown ==
  /\ pc = "teardown"
  /\ \E r \in todo :
       /\ \/ booted' = Stopped(r) /\ UNCHANGED left
          \/ /\ r \in booted
             /\ IF left > 0 THEN booted' = Stopped(r) /\ left' = left - 1
                ELSE UNCHANGED <<booted, left>>
       /\ Goto("teardown", todo \ {r})
  /\ UNCHANGED <<command, over, ready, ok, exit, image, made, history>>

\* `compose down` with what is left of the budget. It stops every container of the
\* project, the ones the test did not name too.
TeardownCompose ==
  /\ pc = "teardown" /\ todo = {}
  /\ IF named \cap Containers = {} THEN UNCHANGED <<made, broken>>
     ELSE \/ left > 0 /\ Remove(Containers) /\ UNCHANGED broken
          \/ \E s \in SUBSET Containers : Remove(s) /\ broken' = TRUE
  /\ Goto("exited", {})
  /\ UNCHANGED <<command, over, progress, image, booted,
                 built, swapped, unread, wasUp, aged, heard>>

\* VMs first. One that had to be killed, or a context that is done, ends the
\* command with the rest of the lab running. --purge throws the disk away.
Down ==
  /\ pc = "down"
  /\ \E r \in todo :
     LET wiped == IF cmd.purge THEN [image EXCEPT ![r] = Nothing] ELSE image
     IN \/ /\ over = "no" \/ r \notin booted
           /\ booted' = booted \ {r} /\ image' = wiped
           /\ Goto("down", todo \ {r}) /\ UNCHANGED exit
        \/ /\ r \in booted \/ cmd.purge
           /\ booted' \in {booted, booted \ {r}} /\ image' \in {image, wiped}
           /\ \E code \in Codes : Return(code)
  /\ UNCHANGED <<command, over, ready, ok, left, made, history>>

\* `compose rm -sf` of the named containers, or `compose down` of all.
DownCompose ==
  /\ pc = "down" /\ todo = {}
  /\ LET asked == IF cmd.all THEN Containers ELSE named \cap Containers
     IN \/ /\ asked = {} \/ over = "no"
           /\ Remove(asked) /\ Return(0)
        \/ /\ asked # {}
           /\ \E s \in SUBSET asked : Remove(s)
           /\ \E code \in Codes : Return(code)
  /\ UNCHANGED <<command, over, ready, ok, left, image, booted, history>>

-----------------------------------------------------------------------------
(* The world *)

\* Ctrl-C, once; test has a deadline too. The teardown listens to neither.
Interrupt ==
  /\ pc \notin {"idle", "exited", "teardown"} /\ over = "no"
  /\ over' \in {"signal"} \cup (IF cmd.name = "test" THEN {"deadline"} ELSE {})
  /\ heard' = (over' = "signal" /\ pc = "wait")
  /\ UNCHANGED <<pc, command, todo, progress, lab,
                 built, swapped, unread, wasUp, aged, broken>>

\* `docker load`, a build of another project state: the name moves to another image.
LoadImage(r) ==
  /\ \/ pc = "idle"
     \/ pc \in {"inspect", "build", "start"} /\ r \in named
  /\ \E o \in Made("ours") \cup Made("other") : image' = [image EXCEPT ![r] = o]
  /\ swapped' = IF pc = "idle" THEN swapped ELSE swapped \cup {r}
  /\ UNCHANGED <<pc, command, todo, over, progress, made, booted,
                 built, unread, wasUp, aged, heard, broken>>

\* owlab.yaml changes, or owlab does. The disk of a VM is as old as an image is
\* then, and carries no label that would tell.
Edit ==
  /\ pc = "idle"
  /\ image' = [r \in Routers |-> IF image[r].from = "ours"
                                 THEN [image[r] EXCEPT !.from = "other"] ELSE image[r]]
  /\ UNCHANGED <<pc, command, todo, over, progress, made, booted, history>>

\* The next command is a new process.
Exited ==
  /\ pc = "exited"
  /\ pc' = "idle" /\ cmd' = NoCommand /\ named' = {} /\ over' = "no"
  /\ ready' = {} /\ ok' = TRUE /\ left' = Patience /\ exit' = 0
  /\ built' = {} /\ swapped' = {} /\ unread' = {} /\ wasUp' = {} /\ aged' = {}
  /\ heard' = FALSE /\ broken' = FALSE
  /\ UNCHANGED <<todo, lab>>

Next ==
  \/ Begin \/ Build \/ Inspect \/ Start \/ StartVM \/ StartVMsDone
  \/ \E r \in Routers : Answer(r)
  \/ Waited \/ Join \/ Missing \/ Checks \/ ChecksDone
  \/ Teardown \/ TeardownCompose \/ Down \/ DownCompose
  \/ Interrupt \/ Edit \/ Exited
  \/ \E r \in Containers : LoadImage(r)

Spec == Init /\ [][Next]_vars

-----------------------------------------------------------------------------
(* Properties *)

\* A VM that has what owlab.yaml says now, or what startVM leaves as it is.
SetUpAsAsked(r) ==
  \/ image[r].from = "ours"
  \/ ~cmd.rebuild /\ (r \in wasUp \/ (r \in aged /\ image[r].from # "none"))

\* A script that runs owlab before its own checks reads exit status 0 as "the lab is
\* what the config describes" (commands.go:217). So it is: every router the
\* command names runs, answered if it was waited for, is not recorded as without a
\* package, and was made from an image this command built or found labelled with
\* these inputs, or from a disk set up from this owlab.yaml. It may be otherwise where
\* somebody replaced an image under its name meanwhile, or a record was unreadable;
\* and a VM that ran already, or whose disk was set up before, keeps what it had
\* under the config of that time, unless --rebuild was given (commands.go:378, 394).
ZeroMeansTheLab ==
  /\ exit = 0
  /\ \/ pc = "exited" /\ (cmd.name = "up" \/ cmd.keep)
     \/ pc = "teardown" /\ todo = named \cap VMs
  =>
    \A r \in named :
      /\ cmd.wait => r \in ready
      /\ Lacks(r) => r \in unread
      /\ cmd.name = "up" \/ cmd.keep => r \in Running
      /\ r \in VMs => SetUpAsAsked(r)
      /\ r \in Containers \ swapped =>
           r \in built /\ IF cmd.build THEN made[r] = image[r] ELSE made[r].from = "ours"

\* "A Ctrl-C during the wait still exits 130 rather than as a router that did not
\* answer" (commands.go:130), or as one that lacks a package.
InterruptShows ==
  pc = "exited" /\ cmd.name = "up" /\ heard => exit = 130

\* A test leaves nothing that holds the ports of the next run, however it ended and
\* though its own context is done, unless the VMs used up the two minutes or the
\* engine failed. A down that succeeded has stopped what it names.
NothingLeftBehind ==
  pc = "exited" =>
    /\ cmd.name = "test" /\ ~cmd.keep /\ left > 0 /\ ~broken =>
         Running \cap (named \cup IF named \cap Containers = {} THEN {} ELSE Containers) = {}
    /\ cmd.name = "down" /\ exit = 0 => named \cap Running = {}

=============================================================================
