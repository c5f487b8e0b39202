------------------------------ MODULE Install ------------------------------
(***************************************************************************)
(* `owlab install` and the install step of `owlab test`                    *)
(* (cmd/owlab/commands.go: install, installOffline; test.go: testInstall)  *)
(* with the scripts they run on each router (internal/pkgmgr: AddFeed,     *)
(* feedCheck, Install): package files of the host, and names out of a      *)
(* signed feed under test. One command after another on routers that keep  *)
(* what earlier ones left, while the feeds and their signatures change.    *)
(***************************************************************************)
EXTENDS Naturals, Sequences

CONSTANTS
  N,         \* routers, in the order of owlab.yaml
  Manager,   \* router -> apk or opkg
  Files,     \* package files of the host, numbered as they are given
  Format,    \* file -> the manager that reads it, or "any" if its name does not tell
  Dest,      \* file -> its base name, and so its place in the router's /tmp
  URLs,      \* where --feed may point
  Keys,      \* the key files --feed-key may name
  Entries    \* bound: lines a router's feed list has for --feed-name

Routers == 1..N

\* What the URL of an index brings: one that is signed with a key, with one that no
\* command names, or nothing.
Replies == Keys \cup {"stranger", "none"}

ASSUME InstallAssumption ==
  /\ N \in Nat \ {0} /\ Entries \in Nat \ {0}
  /\ Manager \in [Routers -> {"apk", "opkg"}]
  /\ Files \in SUBSET Nat /\ Format \in [Files -> {"apk", "opkg", "any"}]
  /\ Dest \in [Files -> {Dest[f] : f \in Files}]
  /\ "none" \notin URLs \cup Keys /\ "stranger" \notin Keys

VARIABLES
  pc,
  run,       \* the command: which one, its files, whether it has names, its feed
  i,         \* the router it is at
  todo,      \* files that router has yet to be sent
  tmp,       \* what this command put into its /tmp: base name -> file
  failed,    \* routers it failed on
  server,    \* URL -> what it serves
  trusted,   \* router -> keys in its keyring
  entries,   \* router -> the URLs its feed list has under --feed-name
  index,     \* router -> where the index it holds under that name came from
  holds,     \* router -> files that are installed on it
  verified   \* history: router -> the URL this command's refresh read and verified

command == <<run, i, todo, tmp>>
router == <<trusted, entries, index, holds>>
vars == <<pc, command, failed, server, router, verified>>

Runs == [test : BOOLEAN, files : SUBSET Files, names : BOOLEAN,
         url : URLs \cup {"none"}, key : Keys \cup {"none"}]
Label == {"idle", "reach", "key", "push", "offline", "feed", "refresh", "check",
          "add", "ended"}

TypeOK ==
  /\ pc \in Label /\ run \in Runs /\ i \in Routers
  /\ todo \subseteq run.files /\ failed \subseteq Routers
  /\ server \in [URLs -> Replies]
  /\ DOMAIN tmp \subseteq {Dest[f] : f \in run.files}
  /\ \A d \in DOMAIN tmp : tmp[d] \in run.files
  /\ entries \in [Routers -> Seq(URLs)]
  /\ \A r \in Routers : Len(entries[r]) <= Entries
  /\ trusted \in [Routers -> SUBSET Keys]
  /\ index \in [Routers -> URLs \cup {"none"}]
  /\ holds \in [Routers -> SUBSET Files]
  /\ verified \in [Routers -> URLs \cup {"none"}]

NoRun == [test |-> FALSE, files |-> {}, names |-> FALSE, url |-> "none", key |-> "none"]
Nowhere == [r \in Routers |-> "none"]

Init ==
  /\ pc = "idle" /\ run = NoRun /\ i = 1 /\ todo = {} /\ failed = {}
  /\ server \in [URLs -> Replies]
  /\ tmp = [d \in {} |-> 0]
  /\ trusted = [r \in Routers |-> {}]
  /\ entries = [r \in Routers |-> <<>>] /\ index = Nowhere
  /\ holds = [r \in Routers |-> {}] /\ verified = Nowhere

-----------------------------------------------------------------------------
(* Which router, and what of the command it gets *)

\* A feed and its key go together, and the command names something. What cannot be
\* read on the host is refused before any router is touched. (A command for one
\* router is one that reaches no other.)
Begin ==
  /\ pc = "idle"
  /\ run' \in Runs
  /\ (run'.url = "none") = (run'.key = "none")
  /\ run'.files # {} \/ run'.names
  /\ pc' = "reach" /\ i' = 1 /\ todo' = {} /\ UNCHANGED tmp
  /\ failed' = {} /\ verified' = Nowhere
  /\ UNCHANGED <<server, router>>

\* Installable, FilterFiles: the files but those of the other manager's format.
Own(r) == {f \in run.files : Format[f] \in {Manager[r], "any"}}

Goto(l) == pc' = l /\ UNCHANGED command

NextRouter ==
  /\ todo' = {} /\ tmp' = [d \in {} |-> 0] /\ UNCHANGED run
  /\ IF i < N THEN pc' = "reach" /\ i' = i + 1 ELSE pc' = "ended" /\ UNCHANGED i

\* Mutant of Fail: the command goes on, and forgets.
FailQuietly == UNCHANGED failed /\ NextRouter

\* A command on the router failed; install goes on with the next router, and test
\* with the next one's steps.
Fail == failed' = failed \cup {i} /\ NextRouter

\* test pushes the key before the files, install after them.
Reach ==
  /\ pc = "reach"
  /\ \/ Fail
     \/ /\ UNCHANGED failed
        /\ IF Own(i) = {} /\ ~run.names THEN NextRouter
           ELSE /\ pc' = IF run.test /\ run.url # "none" THEN "key" ELSE "push"
                /\ todo' = Own(i) /\ UNCHANGED <<run, i, tmp>>
  /\ UNCHANGED <<server, router, verified>>

\* The files in order, each into /tmp under its base name.
Push ==
  /\ pc = "push"
  /\ \E f \in todo :
       /\ \A g \in todo : f <= g
       /\ \/ /\ tmp' = [d \in DOMAIN tmp \cup {Dest[f]} |->
                         IF d = Dest[f] THEN f ELSE tmp[d]]
             /\ todo' = todo \ {f} /\ UNCHANGED <<pc, run, i, failed>>
          \/ Fail
  /\ UNCHANGED <<server, router, verified>>

\* installOffline is tried when nothing but files is asked for.
Pushed ==
  /\ pc = "push" /\ todo = {}
  /\ Goto(IF run.url # "none" THEN IF run.test THEN "feed" ELSE "key"
          ELSE IF ~run.test /\ ~run.names THEN "offline" ELSE "refresh")
  /\ UNCHANGED <<failed, server, router, verified>>

PushKey ==
  /\ pc = "key"
  /\ \/ Fail
     \/ /\ UNCHANGED failed
        /\ IF run.test THEN pc' = "push" ELSE pc' = "feed"
        /\ UNCHANGED command
  /\ UNCHANGED <<server, router, verified>>

-----------------------------------------------------------------------------
(* The script on the router *)

\* Mutant of Registered: a line that is there already stays in front.
RegisteredBehind(r) ==
  IF Manager[r] = "apk" THEN <<run.url>>
  ELSE IF Len(entries[r]) < Entries THEN Append(entries[r], run.url) ELSE entries[r]

\* The feed list after AddFeed: apk's file is written anew, opkg's lines of that
\* name are deleted before one is appended.
Registered(r) == <<run.url>>

\* AddFeed: every step stops the script.
AddFeed ==
  /\ pc = "feed"
  /\ \/ Fail /\ UNCHANGED <<trusted, entries>>
     \/ /\ trusted' = [trusted EXCEPT ![i] = @ \cup {run.key}]
        /\ \/ /\ entries' = [entries EXCEPT ![i] = Registered(i)]
              /\ Goto("refresh") /\ UNCHANGED failed
           \/ /\ entries' \in {entries, [entries EXCEPT ![i] =
                                          IF Manager[i] = "opkg" THEN <<>> ELSE @]}
              /\ Fail
  /\ UNCHANGED <<server, index, holds, verified>>

\* What a fetch of the index of u does on router r.
Verifies(r, u) == server[u] \in trusted[r]

\* opkg keeps the first line of a name.
FeedOf(r) == IF entries[r] = <<>> THEN "none" ELSE Head(entries[r])

\* feedCheck, ahead of the refresh: opkg's list is removed.
Before(r) == IF Manager[r] = "opkg" /\ run.url # "none" THEN "none" ELSE index[r]

\* UpdateShell with regard to this feed. An index that does not verify is deleted
\* by opkg, and passed over by apk; one that is not served leaves the earlier one.
\* The script ends if no feed at all answered.
Refresh ==
  /\ pc = "refresh"
  /\ LET u == FeedOf(i)
     IN IF u # "none" /\ Verifies(i, u)
        THEN /\ index' = [index EXCEPT ![i] = u]
             /\ verified' = [verified EXCEPT ![i] = u]
        ELSE /\ index' = [index EXCEPT ![i] =
                            IF Manager[i] = "opkg" /\ u # "none" /\ server[u] # "none"
                            THEN "none" ELSE Before(i)]
             /\ UNCHANGED verified
  /\ \/ Goto(IF run.url # "none" THEN "check" ELSE "add") /\ UNCHANGED failed
     \/ Fail
  /\ UNCHANGED <<server, trusted, entries, holds>>

\* feedCheck, behind it: opkg's list is there again; apk fetches the index once more,
\* of the URL in the file, and caches it.
Check ==
  /\ pc = "check"
  /\ \/ /\ IF Manager[i] = "opkg"
           THEN index[i] # "none" /\ UNCHANGED <<index, verified>>
           ELSE /\ Verifies(i, FeedOf(i))
                /\ index' = [index EXCEPT ![i] = FeedOf(i)]
                /\ verified' = [verified EXCEPT ![i] = FeedOf(i)]
        /\ Goto("add") /\ UNCHANGED failed
     \/ Fail /\ UNCHANGED <<index, verified>>
  /\ UNCHANGED <<server, trusted, entries, holds>>

\* What the paths of the command line hold by now.
Arrived(r) == {tmp[Dest[f]] : f \in Own(r)}

\* `apk add` or `opkg install` of all at once. opkg may install some and fail.
Add ==
  /\ pc = "add"
  /\ \E got \in {{}, Arrived(i)} \cup (IF Manager[i] = "opkg" THEN SUBSET Arrived(i) ELSE {}) :
       /\ holds' = [holds EXCEPT ![i] = @ \cup got]
       /\ \/ got = Arrived(i) /\ NextRouter /\ UNCHANGED failed
          \/ Fail
  /\ UNCHANGED <<server, trusted, entries, index, verified>>

\* installOffline hands back what a refresh can change.
Retried(r, unsatisfied) == Manager[r] = "opkg" \/ unsatisfied

\* It asks no feed. A refusal that is final fails the router.
Offline ==
  /\ pc = "offline"
  /\ \E got \in {{}, Arrived(i)} \cup (IF Manager[i] = "opkg" THEN SUBSET Arrived(i) ELSE {}),
        refused, unsatisfied \in BOOLEAN :
       /\ ~refused => got = Arrived(i)
       /\ holds' = [holds EXCEPT ![i] = @ \cup got]
       /\ IF ~refused THEN NextRouter /\ UNCHANGED failed
          ELSE IF Retried(i, unsatisfied) THEN Goto("refresh") /\ UNCHANGED failed
          ELSE Fail
  /\ UNCHANGED <<server, trusted, entries, index, verified>>

\* The reload runs on every router, and the exit status says whether one failed.
Ended ==
  /\ pc = "ended" /\ pc' = "idle"
  /\ run' = NoRun /\ i' = 1 /\ failed' = {} /\ verified' = Nowhere
  /\ UNCHANGED <<todo, tmp, server, router>>

\* A feed is published anew with another key, goes away, or comes back: nothing else looks at it.
Serve(u) ==
  /\ pc \in {"idle", "refresh", "check"}
  /\ \E k \in Replies : server' = [server EXCEPT ![u] = k]
  /\ UNCHANGED <<pc, command, failed, router, verified>>

\* `owlab up --rebuild`: a router as its image has it.
Rebuild(r) ==
  /\ pc = "idle"
  /\ trusted' = [trusted EXCEPT ![r] = {}]
  /\ entries' = [entries EXCEPT ![r] = <<>>] /\ index' = [index EXCEPT ![r] = "none"]
  /\ holds' = [holds EXCEPT ![r] = {}]
  /\ UNCHANGED <<pc, command, failed, server, verified>>

Next == \/ Begin \/ Reach \/ Push \/ Pushed \/ PushKey
        \/ AddFeed \/ Refresh \/ Check \/ Add \/ Offline \/ Ended
        \/ \E u \in URLs : Serve(u)
        \/ \E r \in Routers : Rebuild(r)

Spec == Init /\ [][Next]_vars

-----------------------------------------------------------------------------
(* Properties *)

\* Routers the command is done with, and succeeded on.
Passed == IF pc = "ended" THEN Routers \ failed ELSE (1..(i - 1)) \ failed

\* "The install stops unless that feed was read" (test.go:480): a router passes with
\* --feed only if this command fetched the index of the very URL it was given, and
\* verified it with a key it was given, whatever earlier commands registered under
\* that name and left in its list or cache. Which of its feeds the manager then takes
\* the package from is the manager's choice.
OutOfTheFeed ==
  \A r \in Passed :
    run.url # "none" /\ (Own(r) # {} \/ run.names) => verified[r] = run.url

\* An exit 0 does not say "installed" for a router that refused the package
\* (commands.go:820): every file of its own format is installed on a router that
\* passes, except one that a later file of the same base name replaced on the way.
InstalledEverywhere ==
  \A r \in Passed : \A f \in Own(r) :
    f \in holds[r] \/ \E g \in Own(r) : g > f /\ Dest[g] = Dest[f]

=============================================================================
