---------------------------- MODULE Install_proofs ----------------------------
(***************************************************************************)
(* Proofs about Install, for any routers, files, feeds and keys: what a    *)
(* router that passes was installed from, and that it has its files. Then  *)
(* about SDKBuild, for any packages, architectures and number of builds:   *)
(* what `owlab build` leaves in the output directory.                      *)
(***************************************************************************)
EXTENDS Install, SDKBuild, TLAPS

-----------------------------------------------------------------------------
(* Types *)

Empty == [d \in {} |-> 0]
Sends == {"key", "push", "offline", "feed", "refresh", "check", "add"}

LEMMA OwnFacts == TypeOK => \A r \in Routers : Own(r) \subseteq run.files
BY DEF Own

LEMMA NextRouterMoves ==
  ASSUME TypeOK, NextRouter
  PROVE  /\ todo' = {} /\ tmp' = Empty /\ run' = run
         /\ \/ pc' = "reach" /\ i' = i + 1 /\ i < N
            \/ pc' = "ended" /\ i' = i /\ i = N
         /\ pc' \in Label /\ i' \in Routers
BY InstallAssumption DEF NextRouter, TypeOK, Routers, Label, Empty

\* The part of the type invariant that is about the command.
TypedCommand ==
  /\ pc \in Label /\ run \in Runs /\ i \in Routers
  /\ todo \subseteq run.files /\ failed \subseteq Routers
  /\ DOMAIN tmp \subseteq {Dest[f] : f \in run.files}
  /\ \A d \in DOMAIN tmp : tmp[d] \in run.files

TypedRouters ==
  /\ server \in [URLs -> Replies]
  /\ trusted \in [Routers -> SUBSET Keys]
  /\ entries \in [Routers -> Seq(URLs)] /\ \A r \in Routers : Len(entries[r]) <= Entries
  /\ index \in [Routers -> URLs \cup {"none"}]
  /\ holds \in [Routers -> SUBSET Files]
  /\ verified \in [Routers -> URLs \cup {"none"}]

LEMMA TypedParts == /\ TypeOK <=> TypedCommand /\ TypedRouters
                    /\ TypeOK' <=> TypedCommand' /\ TypedRouters'
BY DEF TypeOK, TypedCommand, TypedRouters

LEMMA PassedOn ==
  ASSUME TypeOK, NextRouter, failed' = failed \/ failed' = failed \cup {i}
  PROVE  TypedCommand'
<1>1. /\ todo' = {} /\ tmp' = Empty /\ run' = run /\ pc' \in Label /\ i' \in Routers
  BY NextRouterMoves
<1>2. DOMAIN tmp' = {}
  BY <1>1 DEF Empty
<1>3. QED
  BY <1>1, <1>2 DEF TypeOK, TypedCommand

LEMMA FailedOn == ASSUME TypeOK, Fail PROVE TypedCommand' /\ failed' = failed \cup {i}
BY PassedOn DEF Fail

LEMMA WentTo ==
  ASSUME TypeOK, NEW l \in Label, Goto(l), UNCHANGED failed
  PROVE  TypedCommand'
BY DEF Goto, command, TypeOK, TypedCommand

\* Between two routers nothing is under way, and only a command with a feed and
\* its key gets to the steps that use them.
Resting ==
  /\ pc \in {"idle", "reach", "ended"} => DOMAIN tmp = {} /\ todo = {}
  /\ pc = "idle" => i = 1
  /\ run.url = "none" <=> run.key = "none"
  /\ pc \in {"key", "feed", "check"} => run.url # "none"

\* The file is in /tmp, or a later one of the same base name is.
Sent(f) ==
  /\ Dest[f] \in DOMAIN tmp
  /\ tmp[Dest[f]] \in Own(i) /\ Dest[tmp[Dest[f]]] = Dest[f] /\ f <= tmp[Dest[f]]

\* The files are sent in order, and all of them before the script starts.
SentInv ==
  /\ pc \in Sends =>
       /\ todo \subseteq Own(i)
       /\ \A f \in Own(i) \ todo : Sent(f) /\ \A g \in todo : f < g
  /\ pc \in Sends \ {"key", "push"} \/ (pc = "key" /\ ~run.test) => todo = {}

LEMMA SentStays ==
  ASSUME SentInv, pc \in Sends, UNCHANGED command, pc' \in Sends,
         pc' \in Sends \ {"key", "push"} \/ (pc' = "key" /\ ~run.test) => todo = {}
  PROVE  SentInv'
BY DEF SentInv, Sent, Own, command

LEMMA SentStep ==
  ASSUME TypeOK, SentInv, [Next]_vars
  PROVE  SentInv'
<1>1. ASSUME pc' \notin Sends PROVE SentInv'
  BY <1>1 DEF SentInv, Sends
<1>2. ASSUME NextRouter \/ Fail PROVE SentInv'
  BY <1>1, <1>2, NextRouterMoves DEF Fail, Sends
<1>3. ASSUME pc \in Sends \ {"key", "push"}, pc' \in Sends \ {"key", "push"}, UNCHANGED command
      PROVE  SentInv'
  <2>1. todo = {}
    BY <1>3 DEF SentInv
  <2>2. QED
    BY <1>3, <2>1, SentStays
<1>4. CASE Begin \/ Ended
  BY <1>1, <1>4 DEF Begin, Ended, Sends
<1>5. CASE Reach
  <2>1. ASSUME pc' = IF run.test /\ run.url # "none" THEN "key" ELSE "push",
               todo' = Own(i) /\ UNCHANGED <<run, i, tmp>>
        PROVE  SentInv'
    <3>1. Own(i)' = Own(i)
      BY <2>1 DEF Own
    <3>2. QED
      BY <2>1, <3>1 DEF SentInv, Sends
  <2>2. QED
    BY <1>2, <1>5, <2>1 DEF Reach
<1>6. CASE Push
  <2>1. PICK f \in todo :
          /\ \A g \in todo : f <= g
          /\ \/ /\ tmp' = [d \in DOMAIN tmp \cup {Dest[f]} |-> IF d = Dest[f] THEN f ELSE tmp[d]]
                /\ todo' = todo \ {f} /\ UNCHANGED <<pc, run, i, failed>>
             \/ Fail
    BY <1>6 DEF Push
  <2>2. CASE /\ tmp' = [d \in DOMAIN tmp \cup {Dest[f]} |-> IF d = Dest[f] THEN f ELSE tmp[d]]
             /\ todo' = todo \ {f} /\ UNCHANGED <<pc, run, i, failed>>
    <3>1. pc = "push" /\ pc' = "push" /\ Own(i)' = Own(i)
      BY <1>6, <2>2 DEF Push, Own
    <3>2. todo \subseteq Own(i) /\ \A h \in Own(i) \ todo : Sent(h) /\ \A g \in todo : h < g
      BY <3>1 DEF SentInv, Sends
    <3>3. Own(i) \subseteq Nat
      BY InstallAssumption DEF TypeOK, Runs, Own
    <3>4. ASSUME NEW h \in Own(i) \ todo' PROVE Sent(h)' /\ \A g \in todo' : h < g
      <4>1. CASE h = f
        BY <2>1, <2>2, <3>1, <3>2, <3>3, <3>4, <4>1 DEF Sent
      <4>2. CASE h # f
        <5>1. Sent(h) /\ h < f /\ \A g \in todo : h < g
          BY <2>2, <3>2, <3>4, <4>2
        <5>2. QED
          BY <2>2, <3>1, <3>2, <3>3, <5>1 DEF Sent
      <4>3. QED
        BY <4>1, <4>2
    <3>5. QED
      BY <2>2, <3>1, <3>2, <3>4 DEF SentInv
  <2>3. QED
    BY <1>2, <2>1, <2>2
<1>7. CASE Pushed
  <2>1. pc = "push" /\ todo = {} /\ pc' \in Sends /\ UNCHANGED command
    BY <1>7 DEF Pushed, Goto, Sends
  <2>2. QED
    BY <2>1, SentStays DEF Sends
<1>8. CASE PushKey
  <2>1. CASE Fail
    BY <1>2, <2>1
  <2>2. CASE UNCHANGED command /\ pc' = IF run.test THEN "push" ELSE "feed"
    <3>1. pc = "key" /\ (~run.test => todo = {})
      BY <1>8 DEF PushKey, SentInv
    <3>2. QED
      BY <2>2, <3>1, SentStays DEF Sends
  <2>3. QED
    BY <1>8, <2>1, <2>2 DEF PushKey
<1>9. CASE AddFeed \/ Refresh \/ Check \/ Offline
  BY <1>2, <1>3, <1>9 DEF AddFeed, Refresh, Check, Offline, Goto, Sends
<1>10. CASE Add
  BY <1>2, <1>10 DEF Add
<1>11. CASE UNCHANGED <<pc, command>>
  BY <1>11 DEF SentInv, Sent, Own, command
<1>12. QED
  BY <1>4, <1>5, <1>6, <1>7, <1>8, <1>9, <1>10, <1>11 DEF Next, Serve, Rebuild, vars

\* What the command line of the install names by then.
LEMMA ArrivedFacts ==
  ASSUME TypeOK, SentInv, pc \in {"add", "offline"}
  PROVE  /\ Arrived(i) \subseteq Own(i) /\ Arrived(i) \subseteq Files
         /\ \A f \in Own(i) :
              \E g \in Own(i) : g \in Arrived(i) /\ Dest[g] = Dest[f] /\ (g = f \/ g > f)
<1>1. \A f \in Own(i) : Sent(f)
  BY DEF SentInv, Sends
<1>2. Own(i) \subseteq Files /\ Files \subseteq Nat
  BY InstallAssumption DEF TypeOK, Runs, Own
<1>3. \A f \in Own(i) : tmp[Dest[f]] \in Arrived(i)
  BY DEF Arrived
<1>4. Arrived(i) \subseteq Own(i)
  BY <1>1 DEF Arrived, Sent
<1>5. ASSUME NEW f \in Own(i)
      PROVE  \E g \in Own(i) : g \in Arrived(i) /\ Dest[g] = Dest[f] /\ (g = f \/ g > f)
  <2>1. Sent(f) /\ tmp[Dest[f]] \in Nat /\ f \in Nat
    BY <1>1, <1>2, <1>5 DEF Sent
  <2>2. tmp[Dest[f]] = f \/ tmp[Dest[f]] > f
    BY <2>1 DEF Sent
  <2>3. QED
    BY <1>3, <1>5, <2>1, <2>2 DEF Sent
<1>6. QED
  BY <1>2, <1>4, <1>5

Typed == TypeOK /\ Resting /\ SentInv

LEMMA TypedHolds == Spec => []Typed
<1> USE DEF Typed
<1>1. Init => Typed
  <2> SUFFICES ASSUME Init PROVE Typed
    OBVIOUS
  <2>1. 1 \in Routers
    BY InstallAssumption DEF Routers
  <2>2. run \in Runs /\ pc \in Label
    BY DEF Init, NoRun, Runs, Label
  <2>3. DOMAIN tmp = {}
    BY DEF Init
  <2>4. TypedRouters
    <3>1. <<>> \in Seq(URLs) /\ Len(<<>>) = 0 /\ Entries \in Nat
      BY InstallAssumption
    <3>2. QED
      BY <3>1 DEF Init, TypedRouters, Nowhere
  <2>5. TypedCommand
    BY <2>1, <2>2, <2>3 DEF Init, TypedCommand
  <2>6. QED
    BY <2>3, <2>4, <2>5, TypedParts DEF Resting, Init, NoRun, SentInv, Sends
<1>2. Typed /\ [Next]_vars => Typed'
  <2> SUFFICES ASSUME TypeOK, Resting, SentInv, [Next]_vars
               PROVE  TypedCommand' /\ TypedRouters' /\ Resting'
    BY TypedParts, SentStep
  <2>0. TypedCommand /\ TypedRouters
    BY TypedParts
  <2>1. ASSUME Fail PROVE TypedCommand' /\ Resting'
    BY <2>1, FailedOn, NextRouterMoves DEF Fail, Resting, Empty
  <2>2. ASSUME NextRouter, UNCHANGED failed PROVE TypedCommand' /\ Resting'
    BY <2>2, PassedOn, NextRouterMoves DEF Resting, Empty
  <2>3. ASSUME NEW l \in Sends, Goto(l), UNCHANGED failed,
               l \in {"key", "feed", "check"} => run.url # "none"
        PROVE  TypedCommand' /\ Resting'
    <3>1. l \in Label /\ pc' = l /\ l \notin {"idle", "reach", "ended"}
      BY <2>3 DEF Sends, Label, Goto
    <3>2. QED
      BY <2>3, <3>1, WentTo DEF Resting, Goto, command
  <2>4. ASSUME UNCHANGED <<server, router, verified>> PROVE TypedRouters'
    BY <2>0, <2>4 DEF TypedRouters, router
  <2>5. CASE Begin
    <3>1. 1 \in Routers /\ "reach" \in Label
      BY InstallAssumption DEF Routers, Label
    <3>2. DOMAIN tmp' = {} /\ tmp' = tmp
      BY <2>5 DEF Begin, Resting
    <3>3. TypedCommand' /\ Resting'
      BY <2>5, <3>1, <3>2 DEF Begin, TypedCommand, Resting
    <3>4. TypedRouters'
      BY <2>0, <2>5 DEF Begin, TypedRouters, Nowhere, router
    <3>5. QED
      BY <3>3, <3>4
  <2>6. CASE Reach
    <3>1. ASSUME UNCHANGED <<run, i, tmp, failed>>, todo' = Own(i),
                 pc' = IF run.test /\ run.url # "none" THEN "key" ELSE "push"
          PROVE  TypedCommand' /\ Resting'
      BY <2>0, <3>1, OwnFacts DEF TypedCommand, Resting, Label
    <3>2. TypedCommand' /\ Resting'
      BY <2>1, <2>2, <2>6, <3>1 DEF Reach
    <3>3. QED
      BY <2>4, <2>6, <3>2 DEF Reach
  <2>7. CASE Push
    <3>1. PICK f \in todo :
            \/ /\ tmp' = [d \in DOMAIN tmp \cup {Dest[f]} |-> IF d = Dest[f] THEN f ELSE tmp[d]]
               /\ todo' = todo \ {f} /\ UNCHANGED <<pc, run, i, failed>>
            \/ Fail
      BY <2>7 DEF Push
    <3>2. CASE /\ tmp' = [d \in DOMAIN tmp \cup {Dest[f]} |-> IF d = Dest[f] THEN f ELSE tmp[d]]
               /\ todo' = todo \ {f} /\ UNCHANGED <<pc, run, i, failed>>
      <4>1. f \in run.files /\ DOMAIN tmp' = DOMAIN tmp \cup {Dest[f]}
        BY <2>0, <3>2 DEF TypedCommand
      <4>2. \A d \in DOMAIN tmp' : tmp'[d] \in run.files
        BY <2>0, <3>2, <4>1 DEF TypedCommand
      <4>3. DOMAIN tmp' \subseteq {Dest[g] : g \in run.files}
        BY <2>0, <4>1 DEF TypedCommand
      <4>4. QED
        BY <2>0, <2>4, <2>7, <3>2, <4>2, <4>3 DEF Push, TypedCommand, Resting
    <3>3. CASE Fail
      BY <2>1, <2>4, <2>7, <3>3 DEF Push
    <3>4. QED
      BY <3>1, <3>2, <3>3
  <2>8. CASE Pushed
    <3>1. PICK l \in Sends : Goto(l) /\ (l \in {"key", "feed", "check"} => run.url # "none")
      BY <2>8 DEF Pushed, Sends
    <3>2. QED
      BY <2>3, <2>4, <2>8, <3>1 DEF Pushed
  <2>9. CASE PushKey
    <3>1. run.url # "none"
      BY <2>9 DEF PushKey, Resting
    <3>2. Fail \/ (\E l \in Sends : Goto(l) /\ UNCHANGED failed)
      BY <2>9 DEF PushKey, Sends, Goto
    <3>3. QED
      BY <2>1, <2>3, <2>4, <2>9, <3>1, <3>2 DEF PushKey
  <2>10. CASE AddFeed
    <3>1. Fail \/ (Goto("refresh") /\ UNCHANGED failed)
      BY <2>10 DEF AddFeed
    <3>2. TypedCommand' /\ Resting'
      BY <2>1, <2>3, <3>1 DEF Sends
    <3>3. run.url \in URLs /\ run.key \in Keys
      BY <2>0, <2>10 DEF AddFeed, Resting, TypedCommand, Runs
    <3>4. trusted' \in [Routers -> SUBSET Keys]
      <4>1. trusted' = trusted \/ trusted' = [trusted EXCEPT ![i] = @ \cup {run.key}]
        BY <2>10 DEF AddFeed
      <4>2. i \in Routers /\ trusted \in [Routers -> SUBSET Keys]
        BY <2>0 DEF TypedCommand, TypedRouters
      <4>3. trusted[i] \cup {run.key} \in SUBSET Keys
        BY <3>3, <4>2
      <4>4. QED
        BY <4>1, <4>2, <4>3
    <3>5. /\ entries' \in [Routers -> Seq(URLs)]
          /\ \A r \in Routers : Len(entries'[r]) <= Entries
      <4>1. /\ <<run.url>> \in Seq(URLs) /\ Len(<<run.url>>) = 1
            /\ <<>> \in Seq(URLs) /\ Len(<<>>) = 0 /\ 1 <= Entries /\ 0 <= Entries
        BY <3>3, InstallAssumption
      <4>2. entries' \in {entries, [entries EXCEPT ![i] = <<run.url>>], [entries EXCEPT ![i] = <<>>]}
        <5>1. [entries EXCEPT ![i] = IF Manager[i] = "opkg" THEN <<>> ELSE @]
              \in {entries, [entries EXCEPT ![i] = <<>>]}
          BY <2>0 DEF TypedRouters
        <5>2. QED
          BY <2>10, <5>1 DEF AddFeed, Registered
      <4>3. QED
        BY <2>0, <4>1, <4>2 DEF TypedRouters, TypedCommand
    <3>6. QED
      BY <2>0, <2>10, <3>2, <3>4, <3>5 DEF AddFeed, TypedRouters
  <2>11. CASE Refresh
    <3>1. Fail \/ (\E l \in Sends : /\ Goto(l) /\ UNCHANGED failed
                                    /\ l \in {"key", "feed", "check"} => run.url # "none")
      BY <2>11 DEF Refresh, Sends
    <3>2. TypedCommand' /\ Resting'
      BY <2>1, <2>3, <3>1
    <3>3. FeedOf(i) \in URLs \cup {"none"} /\ Before(i) \in URLs \cup {"none"}
      BY <2>0 DEF FeedOf, Before, TypedCommand, TypedRouters
    <3>4. /\ index' \in [Routers -> URLs \cup {"none"}]
          /\ verified' \in [Routers -> URLs \cup {"none"}]
      BY <2>0, <2>11, <3>3 DEF Refresh, TypedCommand, TypedRouters
    <3>5. QED
      BY <2>0, <2>11, <3>2, <3>4 DEF Refresh, TypedRouters
  <2>12. CASE Check
    <3>1. Fail \/ (Goto("add") /\ UNCHANGED failed)
      BY <2>12 DEF Check
    <3>2. TypedCommand' /\ Resting'
      BY <2>1, <2>3, <3>1 DEF Sends
    <3>3. FeedOf(i) \in URLs \cup {"none"}
      BY <2>0 DEF FeedOf, TypedCommand, TypedRouters
    <3>4. /\ index' \in [Routers -> URLs \cup {"none"}]
          /\ verified' \in [Routers -> URLs \cup {"none"}]
      BY <2>0, <2>12, <3>3 DEF Check, TypedCommand, TypedRouters
    <3>5. QED
      BY <2>0, <2>12, <3>2, <3>4 DEF Check, TypedRouters
  <2>13. ASSUME NEW got \in SUBSET Arrived(i), pc \in {"add", "offline"},
                holds' = [holds EXCEPT ![i] = @ \cup got],
                UNCHANGED <<server, trusted, entries, index, verified>>
         PROVE  TypedRouters'
    <3>1. got \subseteq Files
      BY <2>13, ArrivedFacts
    <3>2. QED
      BY <2>0, <2>13, <3>1 DEF TypedCommand, TypedRouters
  <2>14. CASE Add
    <3>1. TypedCommand' /\ Resting'
      BY <2>1, <2>2, <2>14 DEF Add
    <3>2. QED
      BY <2>13, <2>14, <3>1 DEF Add
  <2>15. CASE Offline
    <3>1. TypedCommand' /\ Resting'
      BY <2>1, <2>2, <2>3, <2>15 DEF Offline, Sends
    <3>2. QED
      BY <2>13, <2>15, <3>1 DEF Offline
  <2>16. CASE Ended
    <3>1. run' \in Runs /\ run'.files = {} /\ run'.url = "none" /\ run'.key = "none"
      BY <2>16 DEF Ended, NoRun, Runs
    <3>2. DOMAIN tmp' = {} /\ todo' = {}
      BY <2>16 DEF Ended, Resting
    <3>3. 1 \in Routers /\ pc' \in Label
      BY <2>16, InstallAssumption DEF Ended, Routers, Label
    <3>4. TypedCommand' /\ Resting'
      BY <2>16, <3>1, <3>2, <3>3 DEF Ended, TypedCommand, Resting
    <3>5. TypedRouters'
      BY <2>0, <2>16 DEF Ended, TypedRouters, Nowhere, router
    <3>6. QED
      BY <3>4, <3>5
  <2>17. ASSUME NEW u \in URLs, Serve(u) PROVE TypedCommand' /\ TypedRouters' /\ Resting'
    BY <2>0, <2>17 DEF Serve, TypedCommand, TypedRouters, Resting, command, router
  <2>18. ASSUME NEW r \in Routers, Rebuild(r) PROVE TypedCommand' /\ TypedRouters' /\ Resting'
    <3>1. <<>> \in Seq(URLs) /\ Len(<<>>) = 0 /\ 0 <= Entries
      BY InstallAssumption
    <3>2. TypedRouters'
      BY <2>0, <2>18, <3>1 DEF Rebuild, TypedRouters
    <3>3. QED
      BY <2>0, <2>18, <3>2 DEF Rebuild, TypedCommand, Resting, command
  <2>19. CASE UNCHANGED vars
    BY <2>0, <2>19 DEF vars, TypedCommand, TypedRouters, Resting, command, router
  <2>20. QED
    BY <2>5, <2>6, <2>7, <2>8, <2>9, <2>10, <2>11, <2>12, <2>14, <2>15, <2>16, <2>17, <2>18,
       <2>19 DEF Next
<1>3. QED
  BY <1>1, <1>2, PTL DEF Spec

\* The type invariant, for any routers, files, feeds and keys.
THEOREM TypeCorrect == Spec => []TypeOK
<1>1. Typed => TypeOK
  BY DEF Typed
<1>2. QED
  BY <1>1, TypedHolds, PTL

-----------------------------------------------------------------------------
(* One router after another *)

OnRouter == Reach \/ Push \/ Pushed \/ PushKey \/ AddFeed \/ Refresh \/ Check \/ Add \/ Offline

\* A step changes the router the command is at and no other, takes no file away,
\* and adds at most that router to those that pass.
LEMMA RouterStep ==
  ASSUME TypeOK, OnRouter
  PROVE  /\ run' = run
         /\ \A r \in Passed' : \/ r \in Passed /\ r # i
                               \/ r = i /\ i \notin failed' /\ NextRouter
         /\ \A r \in Routers : /\ r # i => verified'[r] = verified[r]
                               /\ holds[r] \subseteq holds'[r]
<1>1. \/ UNCHANGED <<run, i, failed>> /\ pc' \in Sends
      \/ NextRouter /\ failed' \in {failed, failed \cup {i}}
  BY DEF OnRouter, Reach, Push, Pushed, PushKey, AddFeed, Refresh, Check, Add, Offline, Fail,
         Goto, command, Sends
<1>2. pc \in {"reach"} \cup Sends
  BY DEF OnRouter, Reach, Push, Pushed, PushKey, AddFeed, Refresh, Check, Add, Offline, Sends
<1>3. run' = run
  BY <1>1, NextRouterMoves
<1>4. ASSUME NEW r \in Passed'
      PROVE  \/ r \in Passed /\ r # i
             \/ r = i /\ i \notin failed' /\ NextRouter
  <2>1. Passed = (1..(i - 1)) \ failed /\ i \in Nat /\ i \in 1..N /\ N \in Nat
    BY <1>2, InstallAssumption DEF Passed, Sends, TypeOK, Routers
  <2>2. CASE UNCHANGED <<run, i, failed>> /\ pc' \in Sends
    BY <1>4, <2>1, <2>2 DEF Passed, Sends
  <2>3. CASE NextRouter /\ failed' \in {failed, failed \cup {i}}
    <3>1. Passed' = (1..i) \ failed'
      BY <2>1, <2>3, NextRouterMoves DEF Passed, Routers
    <3>2. r \in Nat /\ 1 <= r /\ r <= i /\ r \notin failed' /\ r \notin failed
      BY <1>4, <2>1, <2>3, <3>1
    <3>3. r = i \/ r \in 1..(i - 1)
      BY <2>1, <3>2
    <3>4. QED
      BY <2>1, <2>3, <3>2, <3>3
  <2>4. QED
    BY <1>1, <2>2, <2>3
<1>5. ASSUME NEW r \in Routers, r # i PROVE verified'[r] = verified[r]
  <2>1. verified' = verified \/ \E u : verified' = [verified EXCEPT ![i] = u]
    BY DEF OnRouter, Reach, Push, Pushed, PushKey, AddFeed, Refresh, Check, Add, Offline
  <2>2. QED
    BY <1>5, <2>1 DEF TypeOK
<1>6. ASSUME NEW r \in Routers PROVE holds[r] \subseteq holds'[r]
  <2>1. holds' = holds \/ \E got : holds' = [holds EXCEPT ![i] = @ \cup got]
    BY DEF OnRouter, Reach, Push, Pushed, PushKey, AddFeed, Refresh, Check, Add, Offline, router
  <2>2. QED
    BY <1>6, <2>1 DEF TypeOK
<1>7. QED
  BY <1>3, <1>4, <1>5, <1>6

LEMMA PassedRouters == ASSUME TypeOK PROVE Passed \subseteq Routers
BY InstallAssumption DEF Passed, TypeOK, Routers

\* No router passes before the command has done anything.
LEMMA NonePassed == ASSUME pc # "ended", i = 1 PROVE Passed = {}
BY DEF Passed

-----------------------------------------------------------------------------
(* The feed under test *)

\* From the step that registers the feed on, it is the first of its name on the
\* router the command is at; an index that is there by the check was read by this
\* refresh; and the packages are added only behind the check.
FeedInv ==
  /\ pc = "offline" => run.url = "none"
  /\ pc \in {"refresh", "check"} /\ run.url # "none" => entries[i] = <<run.url>>
  /\ pc = "check" /\ Manager[i] = "opkg" /\ index[i] # "none" => verified[i] = run.url
  /\ pc = "add" /\ run.url # "none" => verified[i] = run.url

LEMMA FeedStep ==
  ASSUME TypeOK, Resting, FeedInv, [Next]_vars
  PROVE  FeedInv'
<1>1. ASSUME pc' \notin {"offline", "refresh", "check", "add"} PROVE FeedInv'
  BY <1>1 DEF FeedInv
<1>2. ASSUME NextRouter \/ Fail PROVE FeedInv'
  BY <1>1, <1>2, NextRouterMoves DEF Fail
<1>3. CASE Begin \/ Ended
  BY <1>1, <1>3 DEF Begin, Ended
<1>4. CASE Reach \/ Push \/ PushKey
  BY <1>1, <1>2, <1>4 DEF Reach, Push, PushKey
<1>5. CASE Pushed
  BY <1>5 DEF Pushed, Goto, command, FeedInv
<1>6. CASE AddFeed
  <2>1. CASE Fail
    BY <1>2, <2>1
  <2>2. CASE Goto("refresh") /\ entries' = [entries EXCEPT ![i] = Registered(i)]
    BY <2>2 DEF Goto, command, FeedInv, Registered, TypeOK
  <2>3. QED
    BY <1>6, <2>1, <2>2 DEF AddFeed
<1>7. CASE Refresh
  <2>1. CASE Fail
    BY <1>2, <2>1
  <2>2. CASE Goto(IF run.url # "none" THEN "check" ELSE "add")
    <3>1. CASE run.url = "none"
      BY <2>2, <3>1 DEF Goto, command, FeedInv
    <3>2. CASE run.url # "none"
      <4>1. FeedOf(i) = run.url
        BY <1>7, <3>2 DEF Refresh, FeedInv, FeedOf
      <4>2. entries' = entries /\ entries[i] = <<run.url>> /\ pc' = "check" /\ UNCHANGED <<i, run>>
        BY <1>7, <2>2, <3>2 DEF Refresh, FeedInv, Goto, command
      <4>3. Manager[i] = "opkg" /\ index'[i] # "none" => verified'[i] = run.url
        BY <1>7, <3>2, <4>1 DEF Refresh, TypeOK, Before
      <4>4. QED
        BY <4>2, <4>3 DEF FeedInv
    <3>3. QED
      BY <3>1, <3>2
  <2>3. QED
    BY <1>7, <2>1, <2>2 DEF Refresh
<1>8. CASE Check
  <2>1. CASE Fail
    BY <1>2, <2>1
  <2>2. CASE ~Fail
    <3>1. run.url # "none" /\ FeedOf(i) = run.url
      BY <1>8 DEF Check, Resting, FeedInv, FeedOf
    <3>2. verified'[i] = run.url
      BY <1>8, <2>2, <3>1 DEF Check, FeedInv, TypeOK
    <3>3. QED
      BY <1>8, <2>2, <3>2 DEF Check, Goto, command, FeedInv
  <2>3. QED
    BY <2>1, <2>2
<1>9. CASE Add
  BY <1>2, <1>9 DEF Add
<1>10. CASE Offline
  <2>1. CASE NextRouter \/ Fail
    BY <1>2, <2>1
  <2>2. CASE Goto("refresh")
    BY <1>10, <2>2 DEF Offline, FeedInv, Goto, command
  <2>3. QED
    BY <1>10, <2>1, <2>2 DEF Offline
<1>11. CASE \E u \in URLs : Serve(u)
  BY <1>11 DEF Serve, FeedInv, command, router
<1>12. CASE \E r \in Routers : Rebuild(r)
  BY <1>1, <1>12 DEF Rebuild
<1>13. CASE UNCHANGED vars
  BY <1>13 DEF vars, FeedInv, command, router
<1>14. QED
  BY <1>3, <1>4, <1>5, <1>6, <1>7, <1>8, <1>9, <1>10, <1>11, <1>12, <1>13 DEF Next

\* A router passes with --feed only if this command fetched the index of the URL it
\* was given and verified it, whatever earlier commands left on the router. It does not
\* say that the package came from there.
THEOREM FeedProved == Spec => []OutOfTheFeed
<1>1. Init => FeedInv /\ OutOfTheFeed
  BY NonePassed DEF Init, FeedInv, OutOfTheFeed
<1>2. Typed /\ FeedInv /\ OutOfTheFeed /\ [Next]_vars => FeedInv' /\ OutOfTheFeed'
  <2> SUFFICES ASSUME TypeOK, Resting, FeedInv, OutOfTheFeed, [Next]_vars PROVE OutOfTheFeed'
    BY FeedStep DEF Typed
  <2>1. CASE OnRouter
    <3> SUFFICES ASSUME NEW r \in Passed', run.url # "none", Own(r) # {} \/ run.names
                 PROVE  verified'[r] = run.url
      BY <2>1, RouterStep DEF OutOfTheFeed, Own
    <3>1. CASE r \in Passed /\ r # i
      BY <2>1, <3>1, RouterStep, PassedRouters DEF OutOfTheFeed
    <3>2. CASE r = i /\ i \notin failed' /\ NextRouter
      <4>1. ~Fail
        BY <3>2 DEF Fail
      <4>2. pc' \in {"reach", "ended"}
        BY <3>2, NextRouterMoves
      <4>3. Add
        BY <2>1, <3>2, <4>1, <4>2
           DEF OnRouter, Reach, Push, Pushed, PushKey, AddFeed, Refresh, Check, Offline, Goto, FeedInv
      <4>4. QED
        BY <3>2, <4>3 DEF Add, FeedInv
    <3>3. QED
      BY <2>1, <3>1, <3>2, RouterStep
  <2>2. CASE Begin \/ Ended
    BY <2>2, NonePassed DEF Begin, Ended, OutOfTheFeed, Passed
  <2>3. CASE UNCHANGED <<pc, run, i, failed, verified>>
    BY <2>3 DEF OutOfTheFeed, Passed, Own
  <2>4. QED
    BY <2>1, <2>2, <2>3 DEF Next, OnRouter, Serve, Rebuild, command, vars
<1>3. QED
  BY <1>1, <1>2, TypedHolds, PTL DEF Spec

-----------------------------------------------------------------------------
(* The files *)

\* Every file of its own format is installed on a router that passes, unless a later
\* one of the same base name took its place on the way.
THEOREM FilesProved == Spec => []InstalledEverywhere
<1>1. Init => InstalledEverywhere
  BY NonePassed DEF Init, InstalledEverywhere
<1>2. Typed /\ InstalledEverywhere /\ [Next]_vars => InstalledEverywhere'
  <2> SUFFICES ASSUME TypeOK, Resting, SentInv, InstalledEverywhere, [Next]_vars
               PROVE  InstalledEverywhere'
    BY DEF Typed
  <2>1. CASE OnRouter
    <3> SUFFICES ASSUME NEW r \in Passed', NEW f \in Own(r)
                 PROVE  f \in holds'[r] \/ \E g \in Own(r) : g > f /\ Dest[g] = Dest[f]
      BY <2>1, RouterStep DEF InstalledEverywhere, Own
    <3>1. CASE r \in Passed /\ r # i
      <4>1. f \in holds[r] \/ \E g \in Own(r) : g > f /\ Dest[g] = Dest[f]
        BY <3>1 DEF InstalledEverywhere
      <4>2. QED
        BY <2>1, <3>1, <4>1, RouterStep, PassedRouters
    <3>2. CASE r = i /\ i \notin failed' /\ NextRouter
      <4>1. ~Fail
        BY <3>2 DEF Fail
      <4>2. pc' \in {"reach", "ended"}
        BY <3>2, NextRouterMoves
      <4>3. Add \/ Offline
        BY <2>1, <3>2, <4>1, <4>2
           DEF OnRouter, Reach, Push, Pushed, PushKey, AddFeed, Refresh, Check, Goto
      <4>4. holds' = [holds EXCEPT ![i] = @ \cup Arrived(i)]
        BY <4>1, <4>2, <4>3 DEF Add, Offline, Goto
      <4>5. Arrived(i) \subseteq holds'[i]
        BY <4>4 DEF TypeOK
      <4>6. pc \in {"add", "offline"}
        BY <4>3 DEF Add, Offline
      <4>7. QED
        BY <3>2, <4>5, <4>6, ArrivedFacts
    <3>3. QED
      BY <2>1, <3>1, <3>2, RouterStep
  <2>2. CASE Begin \/ Ended
    BY <2>2, NonePassed DEF Begin, Ended, InstalledEverywhere, Passed
  <2>3. CASE UNCHANGED <<pc, run, i, failed, holds>>
    BY <2>3 DEF InstalledEverywhere, Passed, Own
  <2>4. ASSUME NEW r \in Routers, Rebuild(r) PROVE InstalledEverywhere'
    BY <2>4, NonePassed DEF Rebuild, Resting, InstalledEverywhere, Passed, command
  <2>5. QED
    BY <2>1, <2>2, <2>3, <2>4 DEF Next, OnRouter, Serve, command, router, vars
<1>3. QED
  BY <1>1, <1>2, TypedHolds, PTL DEF Spec

-----------------------------------------------------------------------------
(* What a build leaves in the output directory (SDKBuild) *)

\* An element of a set of records of which only the name varies.
LEMMA OneOfEach ==
  ASSUME NEW S, NEW v, NEW f, NEW s,
         NEW a \in [name : S, version : {v}, format : {f}, arch : {s}]
  PROVE  /\ a.name \in S /\ a.format = f /\ a.arch = s
         /\ a = [name |-> a.name, version |-> v, format |-> f, arch |-> s]
OBVIOUS

\* What a compile may make: artifacts, one of a name, all in the format of the order,
\* those of the Makefile for the architecture they say.
LEMMA MadeFacts ==
  ASSUME SBTypeOK
  PROVE  /\ Made \subseteq Artifacts
         /\ \A a, b \in Made : a.name = b.name => a = b
         /\ \A a \in Made : a.format = order.format
         /\ \A a \in Made : a.name \in Defined => a.arch = Says(source.declares)
<1> DEFINE own == [name : Defined, version : {source.version}, format : {order.format},
                   arch : {Says(source.declares)}]
           others == [name : Others, version : {1}, format : {order.format}, arch : {Says("")}]
<1>1. /\ source.version \in 1..Versions /\ 1 \in 1..Versions
      /\ source.declares \in {"", "all"} /\ order.format \in Formats /\ order.arch \in Archs
  <2>1. 1 \in 1..Versions
    BY SDKBuildAssumption
  <2>2. source.version \in 1..Versions /\ source.declares \in {"", "all"}
    BY DEF SBTypeOK
  <2>3. order.format \in Formats /\ order.arch \in Archs
    BY DEF SBTypeOK, Orders
  <2>4. QED
    BY <2>1, <2>2, <2>3
<1>2. /\ Says(source.declares) \in Archs \cup {"all", "noarch"}
      /\ Says("") \in Archs \cup {"all", "noarch"}
  BY <1>1 DEF Says
<1>3. own \subseteq Artifacts /\ others \subseteq Artifacts
  BY <1>1, <1>2 DEF Artifacts, Names
<1>4. \A a \in own : /\ a.name \in Defined /\ a.format = order.format
                     /\ a.arch = Says(source.declares)
                     /\ a = [name |-> a.name, version |-> source.version, format |-> order.format,
                             arch |-> Says(source.declares)]
  BY OneOfEach
<1>5. \A a \in others : /\ a.name \in Others /\ a.format = order.format
                        /\ a = [name |-> a.name, version |-> 1, format |-> order.format,
                                arch |-> Says("")]
  <2>1. PICK one : one = 1
    OBVIOUS
  <2>2. others = [name : Others, version : {one}, format : {order.format}, arch : {Says("")}]
    BY <2>1
  <2> HIDE DEF others, own
  <2>3. \A a \in others : /\ a.name \in Others /\ a.format = order.format
                          /\ a = [name |-> a.name, version |-> one, format |-> order.format,
                                  arch |-> Says("")]
    <3> SUFFICES ASSUME NEW a \in others
                 PROVE  /\ a.name \in Others /\ a.format = order.format
                        /\ a = [name |-> a.name, version |-> one, format |-> order.format,
                                arch |-> Says("")]
      OBVIOUS
    <3>1. a \in [name : Others, version : {one}, format : {order.format}, arch : {Says("")}]
      BY <2>2
    <3>2. QED
      BY <3>1, OneOfEach
  <2>4. QED
    BY <2>1, <2>3
<1>6. \A x : ~(x \in Defined /\ x \in Others)
  BY SDKBuildAssumption
<1>7. Made = own \cup others
  BY DEF Made
<1> HIDE DEF own, others
<1>8. \A a, b \in Made : a.name = b.name => a = b
  BY <1>4, <1>5, <1>6, <1>7
<1>9. QED
  BY <1>3, <1>4, <1>5, <1>6, <1>7, <1>8

LEMMA ArchDirFacts ==
  ASSUME SBTypeOK, NEW format \in Formats
  PROVE  ArchDir(format) \in Dirs
BY DEF ArchDir, Declared, Dirs, SBTypeOK, Orders, Formats

LEMMA DirFacts ==
  ASSUME SBTypeOK, NEW a
  PROVE  Dir(a) \in Dirs
BY DEF Dir, SBTypeOK

\* What cp leaves: files of the layout, the new one among them, and every file of
\* another name.
LEMMA PutFacts ==
  ASSUME SBTypeOK, NEW a \in Artifacts, NEW whole \in BOOLEAN
  PROVE  /\ Put(a, whole) \subseteq OutFiles
         /\ \E f \in Put(a, whole) : f.dir = Dir(a) /\ f.artifact = a /\ f.whole = whole
         /\ \A f \in out : f.artifact.name # a.name => f \in Put(a, whole)
<1> DEFINE new == [dir |-> Dir(a), artifact |-> a, whole |-> whole]
<1>1. new \in OutFiles /\ new.dir = Dir(a) /\ new.artifact = a /\ new.whole = whole
  BY DirFacts DEF OutFiles
<1>2. Put(a, whole) = {f \in out : ~(f.dir = Dir(a) /\ SameName(f.artifact, a))} \cup {new}
  BY DEF Put
<1>3. \A f : SameName(f.artifact, a) => f.artifact.name = a.name
  BY DEF SameName
<1> HIDE DEF new
<1>4. out \subseteq OutFiles
  BY DEF SBTypeOK
<1>5. QED
  BY <1>1, <1>2, <1>3, <1>4

LEMMA ContainerKeeps ==
  ASSUME UNCHANGED container
  PROVE  bin' = bin /\ pending' = pending
BY DEF container

\* A step that leaves the source, the order and what was made alone.
LEMMA Kept ==
  ASSUME source' = source, order' = order, apkDir' = apkDir, ipkDir' = ipkDir
  PROVE  /\ \A d \in {"", "all"} : Says(d)' = Says(d)
         /\ ArchDir("apk")' = ArchDir("apk") /\ ArchDir("ipk")' = ArchDir("ipk")
         /\ \A a : Dir(a)' = Dir(a)
BY DEF Says, ArchDir, Declared, Dir

LEMMA StopStep ==
  ASSUME IInv, NEW at, Stop(at), out' \subseteq OutFiles
  PROVE  IInv'
<1>1. /\ stage' = "failed" /\ builds' = builds /\ source' = source /\ order' = order
      /\ apkDir' = apkDir /\ ipkDir' = ipkDir /\ edited' = edited
      /\ bin' = bin /\ pending' = pending
  BY ContainerKeeps DEF Stop
<1>2. SBTypeOK'
  BY <1>1 DEF IInv, SBTypeOK, Found
<1>3. OneOfAName' /\ Copies' /\ ReadIsBuilt'
  BY <1>1 DEF IInv, OneOfAName, Copies, ReadIsBuilt
<1>4. QED
  BY <1>2, <1>3 DEF IInv

LEMMA BeginStep == ASSUME IInv, BeginBuild PROVE IInv'
<1>1. SBTypeOK'
  <2>1. builds' \in 0..Builds
    <3>1. builds \in 0..Builds /\ builds < Builds /\ builds' = builds + 1
      BY DEF IInv, BeginBuild, SBTypeOK
    <3>2. Builds \in Nat
      BY SDKBuildAssumption
    <3>3. QED
      BY <3>1, <3>2
  <2>2. /\ stage' = "read" /\ order' \in Orders /\ bin' = {} /\ pending' = {} /\ edited' = FALSE
        /\ source' = source /\ apkDir' = apkDir /\ ipkDir' = ipkDir /\ out' = out
    BY DEF BeginBuild
  <2>3. QED
    BY <2>1, <2>2 DEF IInv, SBTypeOK
<1>2. OneOfAName' /\ Copies' /\ ReadIsBuilt'
  BY DEF BeginBuild, OneOfAName, Copies, ReadIsBuilt
<1>3. QED
  BY <1>1, <1>2 DEF IInv

LEMMA ReadStep == ASSUME IInv, Read PROVE IInv'
<1>1. CASE Stop("read") /\ UNCHANGED out
  BY <1>1, StopStep DEF IInv, SBTypeOK
<1>2. CASE /\ stage = "read" /\ stage' = "compile"
           /\ apkDir' = ArchDir("apk") /\ ipkDir' = ArchDir("ipk") /\ edited' = FALSE
           /\ UNCHANGED <<builds, source, order, container, out>>
  <2>1. /\ builds' = builds /\ source' = source /\ order' = order /\ out' = out
        /\ bin' = bin /\ pending' = pending
    BY <1>2, ContainerKeeps
  <2>2. SBTypeOK'
    BY <1>2, <2>1, ArchDirFacts DEF IInv, SBTypeOK, Found, Formats
  <2>3. OneOfAName' /\ Copies'
    BY <1>2, <2>1 DEF IInv, OneOfAName, Copies
  <2>4. ArchDir("apk")' = ArchDir("apk") /\ ArchDir("ipk")' = ArchDir("ipk")
    BY <2>1 DEF ArchDir, Declared
  <2>5. ReadIsBuilt'
    BY <1>2, <2>4 DEF ReadIsBuilt
  <2>6. QED
    BY <2>2, <2>3, <2>5 DEF IInv
<1>3. QED
  BY <1>1, <1>2 DEF Read

LEMMA CompileStep == ASSUME IInv, Compile PROVE IInv'
<1>1. CASE Stop("compile") /\ UNCHANGED out
  BY <1>1, StopStep DEF IInv, SBTypeOK
<1>2. CASE /\ stage = "compile" /\ stage' = "copy"
           /\ bin' \in SUBSET Made /\ pending' = Found(bin')
           /\ UNCHANGED <<builds, source, order, apkDir, ipkDir, out, edited>>
  <2>1. SBTypeOK' /\ bin' \subseteq Made
    <3>1. bin' \subseteq Artifacts
      BY <1>2, MadeFacts DEF IInv
    <3>2. QED
      BY <1>2, <3>1 DEF IInv, SBTypeOK, Found
  <2>2. OneOfAName'
    BY <1>2, <2>1, MadeFacts DEF IInv, OneOfAName
  <2>3. Copies'
    BY <1>2 DEF Copies, Found
  <2>4. /\ \A d \in {"", "all"} : Says(d)' = Says(d)
        /\ ArchDir("apk")' = ArchDir("apk") /\ ArchDir("ipk")' = ArchDir("ipk")
        /\ source.declares \in {"", "all"}
    BY <1>2, Kept DEF IInv, SBTypeOK
  <2>5. (Says(source.declares))' = Says(source.declares)
    BY <1>2, <2>4
  <2>6. \A a \in bin' : a.name \in Defined => a.arch = Says(source.declares)
    BY <2>1, MadeFacts DEF IInv
  <2>7. ReadIsBuilt'
    BY <1>2, <2>4, <2>5, <2>6 DEF IInv, ReadIsBuilt
  <2>8. QED
    BY <2>1, <2>2, <2>3, <2>7 DEF IInv
<1>3. QED
  BY <1>1, <1>2 DEF Compile

LEMMA CopyStep == ASSUME IInv, Copy PROVE IInv'
<1>1. PICK a \in pending :
        \/ /\ out' = Put(a, TRUE) /\ pending' = pending \ {a}
           /\ UNCHANGED <<stage, builds, source, order, apkDir, ipkDir, bin, edited>>
        \/ CopyFailed(a)
  BY DEF Copy
<1>2. SBTypeOK /\ OneOfAName /\ Copies /\ ReadIsBuilt /\ stage = "copy"
  BY DEF IInv, Copy
<1>3. a \in Found(bin) /\ Found(bin) \subseteq bin /\ a \in Artifacts
  BY <1>2 DEF SBTypeOK, Found
<1>4. CASE CopyFailed(a)
  <2>1. out' \subseteq OutFiles
    <3>1. out' = out \/ out' = Put(a, FALSE)
      BY <1>4 DEF CopyFailed
    <3>2. Put(a, FALSE) \subseteq OutFiles
      BY <1>2, <1>3, PutFacts
    <3>3. out \subseteq OutFiles
      BY <1>2 DEF SBTypeOK
    <3>4. QED
      BY <3>1, <3>2, <3>3
  <2>2. QED
    BY <1>4, <2>1, StopStep DEF CopyFailed
<1>5. CASE /\ out' = Put(a, TRUE) /\ pending' = pending \ {a}
           /\ UNCHANGED <<stage, builds, source, order, apkDir, ipkDir, bin, edited>>
  <2>1. /\ out' \subseteq OutFiles
        /\ \E f \in out' : f.dir = Dir(a) /\ f.artifact = a /\ f.whole
        /\ \A f \in out : f.artifact.name # a.name => f \in out'
    BY <1>2, <1>3, <1>5, PutFacts
  <2>2. SBTypeOK'
    BY <1>2, <1>5, <2>1 DEF SBTypeOK, Found
  <2>3. OneOfAName'
    BY <1>2, <1>5 DEF OneOfAName
  <2>4. /\ \A d \in {"", "all"} : Says(d)' = Says(d)
        /\ ArchDir("apk")' = ArchDir("apk") /\ ArchDir("ipk")' = ArchDir("ipk")
        /\ \A b : Dir(b)' = Dir(b)
        /\ source.declares \in {"", "all"}
    BY <1>2, <1>5, Kept DEF SBTypeOK
  <2>5. Copies'
    <3>1. ASSUME NEW b \in Found(bin), b \notin pending \ {a}
          PROVE  \E f \in out' : f.dir = Dir(b) /\ f.artifact = b /\ f.whole
      <4>1. CASE b = a
        BY <2>1, <4>1
      <4>2. CASE b # a
        <5>1. b.name # a.name
          BY <1>2, <1>3, <3>1, <4>2 DEF OneOfAName
        <5>2. PICK f \in out : f.dir = Dir(b) /\ f.artifact = b /\ f.whole
          BY <1>2, <3>1, <4>2 DEF Copies
        <5>3. QED
          BY <2>1, <5>1, <5>2
      <4>3. QED
        BY <4>1, <4>2
    <3>2. Found(bin)' = Found(bin) /\ stage' = "copy"
      BY <1>2, <1>5 DEF Found
    <3>3. QED
      BY <1>5, <2>4, <3>1, <3>2 DEF Copies
  <2>6. ReadIsBuilt'
    <3>1. (Says(source.declares))' = Says(source.declares)
      BY <1>5, <2>4
    <3>2. QED
      BY <1>2, <1>5, <2>4, <3>1 DEF ReadIsBuilt
  <2>7. QED
    BY <2>2, <2>3, <2>5, <2>6 DEF IInv
<1>6. QED
  BY <1>1, <1>4, <1>5

\* Steps that move on and touch nothing the invariant speaks of.
LEMMA MovesOn ==
  ASSUME IInv, UNCHANGED <<builds, source, order, apkDir, ipkDir, container, out, edited>>,
         \/ stage = "copy" /\ pending = {} /\ stage' = "list"
         \/ stage = "list" /\ stage' \in {"failed", "ok"}
         \/ stage' = "idle"
         \/ stage' = stage
  PROVE  IInv'
<1>1. /\ builds' = builds /\ source' = source /\ order' = order /\ out' = out
      /\ apkDir' = apkDir /\ ipkDir' = ipkDir /\ edited' = edited
      /\ bin' = bin /\ pending' = pending
  BY ContainerKeeps
<1>2. SBTypeOK'
  BY <1>1 DEF IInv, SBTypeOK, Found
<1>3. /\ ArchDir("apk")' = ArchDir("apk") /\ ArchDir("ipk")' = ArchDir("ipk")
      /\ \A b : Dir(b)' = Dir(b)
      /\ (Says(source.declares))' = Says(source.declares)
      /\ Found(bin)' = Found(bin)
  BY <1>1 DEF ArchDir, Declared, Dir, Says, Found
<1>4. OneOfAName' /\ Copies' /\ ReadIsBuilt'
  BY <1>1, <1>3 DEF IInv, OneOfAName, Copies, ReadIsBuilt
<1>5. QED
  BY <1>2, <1>4 DEF IInv

LEMMA NextOf == ASSUME NEW v \in Nat, NEW n \in Nat, v >= 1, v < n PROVE v + 1 \in 1..n
OBVIOUS

LEMMA EditStep == ASSUME IInv, Edit PROVE IInv'
<1>1. /\ stage \in {"idle", "compile"} /\ stage' = stage /\ edited' = TRUE
      /\ builds' = builds /\ order' = order /\ out' = out
      /\ apkDir' = apkDir /\ ipkDir' = ipkDir /\ bin' = bin /\ pending' = pending
  BY ContainerKeeps DEF Edit
<1>2. source' \in [version : 1..Versions, declares : {"", "all"}]
  <2>1. /\ source.version \in Nat /\ source.version >= 1
        /\ source.version < Versions /\ Versions \in Nat
    <3>1. source.version \in 1..Versions /\ source.version < Versions
      BY DEF Edit, IInv, SBTypeOK
    <3>2. QED
      BY <3>1, SDKBuildAssumption
  <2>2. PICK d \in {"", "all"} : source' = [version |-> source.version + 1, declares |-> d]
    BY DEF Edit
  <2>3. source.version + 1 \in 1..Versions
    BY <2>1, NextOf
  <2>4. QED
    BY <2>2, <2>3
<1>3. SBTypeOK'
  BY <1>1, <1>2 DEF IInv, SBTypeOK, Found
<1>4. OneOfAName' /\ Copies' /\ ReadIsBuilt'
  BY <1>1 DEF IInv, OneOfAName, Copies, ReadIsBuilt
<1>5. QED
  BY <1>3, <1>4 DEF IInv

LEMMA CleanStep == ASSUME IInv, Clean PROVE IInv'
<1>1. /\ stage = "idle" /\ stage' = "idle" /\ builds' = 0 /\ out' = {}
      /\ source' = source /\ order' = order /\ apkDir' = apkDir /\ ipkDir' = ipkDir
      /\ edited' = edited /\ bin' = bin /\ pending' = pending
  BY ContainerKeeps DEF Clean
<1>2. SBTypeOK'
  <2>1. 0 \in 0..Builds
    BY SDKBuildAssumption
  <2>2. QED
    BY <1>1, <2>1 DEF IInv, SBTypeOK, Found
<1>3. OneOfAName' /\ Copies' /\ ReadIsBuilt'
  BY <1>1 DEF IInv, OneOfAName, Copies, ReadIsBuilt
<1>4. QED
  BY <1>2, <1>3 DEF IInv

LEMMA IInit == ASSUME SBInit PROVE IInv
<1>1. SBTypeOK
  <2>1. 0 \in 0..Builds /\ 1 \in 1..Versions
    BY SDKBuildAssumption
  <2>2. source \in [version : 1..Versions, declares : {"", "all"}]
    BY <2>1 DEF SBInit
  <2>3. QED
    BY <2>1, <2>2 DEF SBInit, SBTypeOK, Dirs
<1>2. OneOfAName /\ Copies /\ ReadIsBuilt
  BY DEF SBInit, OneOfAName, Copies, ReadIsBuilt
<1>3. QED
  BY <1>1, <1>2 DEF IInv

LEMMA BuildInductive == SBSpec => []IInv
<1>1. SBInit => IInv
  BY IInit
<1>2. ASSUME IInv, SBNext PROVE IInv'
  <2>1. CASE Copied \/ List \/ Exit
    BY <1>2, <2>1, MovesOn DEF Copied, List, Exit
  <2>2. QED
    BY <1>2, <2>1, BeginStep, ReadStep, CompileStep, CopyStep, EditStep, CleanStep DEF SBNext
<1>3. ASSUME IInv, UNCHANGED sbVars PROVE IInv'
  BY <1>3, MovesOn DEF sbVars
<1>4. IInv /\ [SBNext]_sbVars => IInv'
  BY <1>2, <1>3
<1>5. QED
  BY <1>1, <1>4, PTL DEF SBSpec

\* A build that exits 0 left every artifact find saw in the output directory, whole: for
\* any packages, however many builds before it were cut short.
THEOREM WholeBuildProved == SBSpec => []SuccessIsComplete
<1>1. IInv => SuccessIsComplete
  <2> SUFFICES ASSUME IInv, stage = "ok", NEW a \in Found(bin)
               PROVE  \E f \in out : f.dir = Dir(a) /\ f.artifact = a /\ f.whole
    BY DEF SuccessIsComplete
  <2>1. QED
    BY DEF IInv, Copies
<1>2. SBSpec => []IInv
  BY BuildInductive
<1>3. QED
  BY <1>1, <1>2, PTL

\* What the Makefile defines goes where the layout says, for any architectures, unless
\* the Makefile is edited while it is built.
THEOREM PlacedProved == SBSpec => []PlacedAsItSays
<1>1. IInv => PlacedAsItSays
  <2> SUFFICES ASSUME IInv, stage = "ok", ~edited, NEW f \in Mine, f.artifact.name \in Defined,
                      order.layout # "flat"
               PROVE  f.dir = f.artifact.arch
    BY DEF PlacedAsItSays, Belongs
  <2> DEFINE a == f.artifact
  <2>1. a \in bin /\ f.dir = Dir(a)
    BY DEF Mine
  <2>2. /\ apkDir = ArchDir("apk") /\ ipkDir = ArchDir("ipk")
        /\ a.arch = Says(source.declares) /\ a.format = order.format
    BY <2>1 DEF IInv, ReadIsBuilt, OneOfAName
  <2>3. /\ order.format \in {"apk", "ipk"} /\ source.declares \in {"", "all"}
        /\ order.arch # "all"
    BY SDKBuildAssumption DEF IInv, SBTypeOK, Orders, Formats
  <2>4. Dir(a) = ArchDir(order.format)
    BY <2>2, <2>3 DEF Dir
  <2>5. ArchDir(order.format) = Says(source.declares)
    BY <2>3 DEF ArchDir, Declared, Says
  <2>6. QED
    BY <2>1, <2>2, <2>4, <2>5
<1>2. SBSpec => []IInv
  BY BuildInductive
<1>3. QED
  BY <1>1, <1>2, PTL

===============================================================================
