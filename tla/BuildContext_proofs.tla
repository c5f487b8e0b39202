------------------------ MODULE BuildContext_proofs ------------------------
(***************************************************************************)
(* Proofs about BuildContext, for any number of routers, hosts, releases   *)
(* and extra packages: which hosts are asked, why a router is switched to  *)
(* the tarball, and what is in the context a build starts from. Then about *)
(* ConfigRules, for any owlab.yaml and any flags: the ports of the routers,*)
(* the release each is built from, and its packages and fixtures.          *)
(***************************************************************************)
EXTENDS BuildContext, ConfigRules, SequenceTheorems, FiniteSetTheorems,
        WellFoundedInduction, TLAPS

-----------------------------------------------------------------------------
(* The loops *)

\* What a loop does when it is done with a router.
LEMMA AdvanceFacts ==
  ASSUME i \in Routers, NEW l \in DOMAIN After, Advance(l)
  PROVE  /\ i' \in Routers /\ pc' \in Label
         /\ \/ i < N /\ i' = i + 1 /\ pc' = l
            \/ i = N /\ i' = 1 /\ pc' = After[l]
<1>1. DOMAIN After = {"resolve", "rootfs", "extra", "bundle"}
  BY DEF After
<1>2. CASE i < N
  BY <1>1, <1>2, ContextAssumption DEF Advance, Routers, Label
<1>3. CASE ~(i < N)
  <2>1. i = N /\ i' = 1 /\ pc' = After[l]
    BY <1>3, ContextAssumption DEF Advance, Routers
  <2>2. After[l] \in {"render", "extra", "bundle", "ready"}
    BY <1>1 DEF After
  <2>3. QED
    BY <2>1, <2>2, ContextAssumption DEF Routers, Label
<1>4. QED
  BY <1>2, <1>3

\* Where each loop goes when it is over.
LEMMA AfterFacts ==
  /\ DOMAIN After = {"resolve", "rootfs", "extra", "bundle"}
  /\ After["resolve"] = "render" /\ After["rootfs"] = "extra"
  /\ After["extra"] = "bundle" /\ After["bundle"] = "ready"
BY DEF After

LEMMA HostFacts ==
  \A r \in Routers : Registry[r] \in Registries /\ Server[r] \in Servers
                     /\ Release[r] \in Releases /\ Manager[r] \in Managers
BY DEF Registries, Servers, Releases, Managers

\* A request is for a host of a router.
LEMMA RequestType ==
  ASSUME TypeOK, NEW h \in Registries \cup Servers,
         NEW what \in {"probe", "rootfs", "bundle"}, Request(h, what)
  PROVE  pestered' \subseteq (Registries \cup Servers) \X {"probe", "rootfs", "bundle"}
BY DEF TypeOK, Request

-----------------------------------------------------------------------------
(* Types *)

\* Every variable keeps its type, so no loop runs past the last router, for any
\* number of routers, extra packages and versions.
THEOREM TypeCorrect == Spec => []TypeOK
<1>1. Init => TypeOK
  <2> SUFFICES ASSUME Init PROVE TypeOK
    OBVIOUS
  <2>1. 1 \in Routers /\ 1 \in 1..Versions /\ 0 \in 0..Versions
    BY ContextAssumption DEF Routers
  <2>2. {} \subseteq Registries \cup Servers /\ {} \subseteq Routers
    OBVIOUS
  <2>3. QED
    BY <2>1, <2>2 DEF Init, TypeOK, Label, Bare, None
<1>2. TypeOK /\ [Next]_vars => TypeOK'
  <2> SUFFICES ASSUME TypeOK, [Next]_vars PROVE TypeOK'
    OBVIOUS
  <2>0. 0 \in 0..Versions /\ 1..Versions \subseteq 0..Versions /\ 1 \in Routers
    BY ContextAssumption DEF Routers
  <2>1. CASE Begin
    BY <2>1, <2>0 DEF Begin, TypeOK, Label, world, context, cache
  <2>2. CASE Skip
    <3>1. pc \in DOMAIN After /\ Advance(pc) /\ i \in Routers
      BY <2>2 DEF Skip, TypeOK
    <3>2. i' \in Routers /\ pc' \in Label
      BY <3>1, AdvanceFacts
    <3>3. QED
      BY <2>2, <3>2 DEF Skip, TypeOK, world, command, resolution, hosts, context, cache
  <2>3. CASE Ask
    <3> USE DEF world, command, context, cache
    <3>1. PICK state : \/ Answered(state)
                       \/ silent' = silent \cup {Registry[i]} /\ Unanswered
      BY <2>3 DEF Ask
    <3>2. i \in Routers /\ {Registry[i]} \subseteq Registries \cup Servers /\ i \in named
      BY <2>3, HostFacts DEF TypeOK, Ask
    <3>3. pestered' \subseteq (Registries \cup Servers) \X {"probe", "rootfs", "bundle"}
      BY <2>3, HostFacts, RequestType DEF Ask, TypeOK
    <3>4. CASE Answered(state)
      <4>1. i' \in Routers /\ pc' \in Label
        BY <3>2, <3>4, AdvanceFacts, AfterFacts DEF Answered
      <4>2. fallen' \subseteq Routers
        BY <3>2, <3>4 DEF Answered, TypeOK
      <4>3. heard[i] \cup (IF state = "missing" THEN {state} ELSE {})
              \in SUBSET {"missing", "served"}
        BY <3>2 DEF TypeOK
      <4>4. heard' \in [Routers -> SUBSET {"missing", "served"}]
        BY <3>4, <4>3 DEF Answered, TypeOK
      <4>5. QED
        BY <2>3, <3>3, <3>4, <4>1, <4>2, <4>4 DEF Ask, Answered, TypeOK
    <3>5. CASE silent' = silent \cup {Registry[i]} /\ Unanswered
      <4>1. i' \in Routers /\ pc' \in Label
        BY <3>2, <3>5, AdvanceFacts, AfterFacts DEF Unanswered, Stay, Label
      <4>2. down' \subseteq Registries \cup Servers /\ silent' \subseteq Registries \cup Servers
        BY <3>2, <3>5 DEF Unanswered, TypeOK
      <4>3. QED
        BY <2>3, <3>3, <3>5, <4>1, <4>2 DEF Ask, Unanswered, TypeOK
    <3>6. QED
      BY <3>1, <3>4, <3>5
  <2>4. CASE NotAskedAgain
    <3>1. i \in Routers /\ {Registry[i]} \subseteq Registries \cup Servers
      BY HostFacts DEF TypeOK
    <3>2. i' \in Routers /\ pc' \in Label
      BY <2>4, <3>1, AdvanceFacts, AfterFacts DEF NotAskedAgain, Unanswered, Stay, Label
    <3>3. QED
      BY <2>4, <3>1, <3>2
         DEF NotAskedAgain, Unanswered, TypeOK, world, command, hosts, context, cache
  <2>5. CASE TarballOutage
    <3> USE DEF world, command, context, cache
    <3>1. i \in Routers /\ {Server[i]} \subseteq Registries \cup Servers
      BY HostFacts DEF TypeOK
    <3>2. i' \in Routers /\ pc' \in Label
      BY <2>5, <3>1, AdvanceFacts, AfterFacts DEF TarballOutage
    <3>3. pestered' \subseteq (Registries \cup Servers) \X {"probe", "rootfs", "bundle"}
      BY <2>5, HostFacts, RequestType DEF TarballOutage, TypeOK
    <3>4. heard[i] \cup {"served"} \in SUBSET {"missing", "served"}
      BY <3>1 DEF TypeOK
    <3>5. down' \subseteq Registries \cup Servers /\ silent' \subseteq Registries \cup Servers
      BY <2>5, <3>1 DEF TarballOutage, TypeOK
    <3>6. fallen' \subseteq Routers /\ heard' \in [Routers -> SUBSET {"missing", "served"}]
      BY <2>5, <3>1, <3>4 DEF TarballOutage, TypeOK
    <3>7. QED
      BY <2>5, <3>2, <3>3, <3>5, <3>6 DEF TarballOutage, TypeOK
  <2>6. CASE TarballNotAsked
    <3>1. i' \in Routers /\ pc' \in Label
      BY <2>6, AdvanceFacts, AfterFacts DEF TarballNotAsked, TypeOK
    <3>2. QED
      BY <2>6, <3>1 DEF TarballNotAsked, TypeOK, world, command, resolution, hosts, context, cache
  <2>7. CASE Render
    BY <2>7 DEF Render, BaseStage, Stay, TypeOK, Label, world, command, resolution, hosts, cache
  <2>8. CASE ExtractContext
    <3>1. rootfs' \in [Routers -> 0..Versions] /\ bundle' \in [Routers -> 0..Versions]
          /\ extra' \in [Routers -> SUBSET (1..Extras)]
      BY <2>8, <2>0 DEF ExtractContext, Bare, None
    <3>2. QED
      BY <2>8, <3>1
         DEF ExtractContext, Stay, TypeOK, Label, world, command, resolution, hosts, cache
  <2>9. CASE FetchRootfs
    <3> DEFINE d == Release[i]
               v == Fetched(Forgotten(d), d)
    <3>1. i \in Routers /\ d \in Releases
      BY HostFacts DEF TypeOK
    <3>2. Forgotten(d) \in [Releases -> 0..Versions]
      BY <2>0, <3>1 DEF Forgotten, None, TypeOK
    <3>3. v \in 0..Versions
      BY <2>0, <3>1, <3>2 DEF Fetched, TypeOK
    <3>4. tarballs' \in [Releases -> 0..Versions] /\ rootfs' \in [Routers -> 0..Versions]
      <4>1. CASE tarballs' = Forgotten(d) /\ UNCHANGED rootfs
        BY <3>2, <4>1 DEF TypeOK
      <4>2. CASE tarballs' = [Forgotten(d) EXCEPT ![d] = v] /\ rootfs' = [rootfs EXCEPT ![i] = v]
        BY <3>1, <3>2, <3>3, <4>2 DEF TypeOK
      <4>3. QED
        BY <2>9, <4>1, <4>2 DEF FetchRootfs
    <3>5. i' \in Routers /\ pc' \in Label
      BY <2>9, <3>1, AdvanceFacts, AfterFacts DEF FetchRootfs, Stay, Label
    <3>6. pestered' \subseteq (Registries \cup Servers) \X {"probe", "rootfs", "bundle"}
      BY <2>9, HostFacts, RequestType DEF FetchRootfs, TypeOK
    <3>7. QED
      BY <2>9, <3>4, <3>5, <3>6 DEF FetchRootfs, TypeOK, world, command, resolution
  <2>10. CASE FetchExtraPackages
    <3>1. i \in Routers /\ Manager[i] \in Managers
      BY HostFacts DEF TypeOK
    <3>2. PICK n \in 1..(Extras + 1) :
            /\ packages' = packages \cup ({Manager[i]} \X {e \in Builds(i) : e < n})
            /\ extra' = [extra EXCEPT ![i] = {e \in Builds(i) : e < n}]
            /\ Advance("extra") \/ Stay("failed")
      BY <2>10 DEF FetchExtraPackages
    <3>3. {e \in Builds(i) : e < n} \in SUBSET (1..Extras)
      BY DEF Builds
    <3>4. packages' \subseteq Managers \X (1..Extras)
      BY <3>1, <3>2, <3>3 DEF TypeOK
    <3>5. extra' \in [Routers -> SUBSET (1..Extras)]
      BY <3>1, <3>2, <3>3 DEF TypeOK
    <3>6. i' \in Routers /\ pc' \in Label
      BY <3>1, <3>2, AdvanceFacts, AfterFacts DEF Stay, Label
    <3>7. QED
      BY <2>10, <3>4, <3>5, <3>6 DEF FetchExtraPackages, TypeOK, world, command, resolution, hosts
  <2>11. CASE FetchCompliance
    <3> DEFINE d == Release[i]
               v == Fetched(bundles, d)
    <3>1. i \in Routers /\ d \in Releases
      BY HostFacts DEF TypeOK
    <3>2. v \in 0..Versions
      BY <2>0, <3>1 DEF Fetched, TypeOK
    <3>3. bundles' \in [Releases -> 0..Versions] /\ bundle' \in [Routers -> 0..Versions]
      BY <2>11, <3>1, <3>2 DEF FetchCompliance, TypeOK
    <3>4. i' \in Routers /\ pc' \in Label
      BY <2>11, <3>1, AdvanceFacts, AfterFacts DEF FetchCompliance
    <3>5. silent' \subseteq Registries \cup Servers
      BY <2>11, <3>1, HostFacts DEF FetchCompliance, TypeOK
    <3>6. pestered' \subseteq (Registries \cup Servers) \X {"probe", "rootfs", "bundle"}
      BY <2>11, <3>1, HostFacts DEF FetchCompliance, TypeOK
    <3>7. QED
      BY <2>11, <3>3, <3>4, <3>5, <3>6 DEF FetchCompliance, TypeOK, world, command, resolution
  <2>12. ASSUME NEW d \in Releases, Publish(d) PROVE TypeOK'
    <3>1. current[d] + 1 \in 1..Versions
      BY <2>12, ContextAssumption DEF Publish, TypeOK
    <3>2. QED
      BY <2>12, <3>1 DEF Publish, TypeOK, command, resolution, hosts, context, cache
  <2>13. CASE UNCHANGED vars
    BY <2>13 DEF TypeOK, vars, world, command, resolution, hosts, context, cache
  <2>14. QED
    BY <2>1, <2>2, <2>3, <2>4, <2>5, <2>6, <2>7, <2>8, <2>9, <2>10, <2>11, <2>12, <2>13 DEF Next
<1>3. QED
  BY <1>1, <1>2, PTL DEF Spec

-----------------------------------------------------------------------------
(* Which hosts are asked, and why a router is switched *)

\* The hosts a command will not probe again are those that did not answer it, as long
\* as it probes.
Remembered == /\ pc \in {"resolve", "tarball"} => down = silent
              /\ SilentHostsRest

\* Why the loop asks for a tarball, and why a router is built from one.
Switched ==
  /\ pc = "tarball" => i \in Routers /\ ~publish /\ Registry[i] \in silent
  /\ SwitchJustified

LEMMA RememberedHolds == Spec => []Remembered
<1>1. Init => Remembered
  BY DEF Init, Remembered, SilentHostsRest
<1>2. TypeOK /\ Remembered /\ [Next]_vars => Remembered'
  <2> SUFFICES ASSUME TypeOK, Remembered, [Next]_vars PROVE Remembered'
    OBVIOUS
  <2> USE DEF Remembered, SilentHostsRest
  <2>0. Server[i] \in Servers
    BY HostFacts DEF TypeOK
  <2>1. CASE Begin
    BY <2>1 DEF Begin
  <2>2. CASE Ask
    <3>1. pestered' = pestered
      BY <2>2 DEF Ask, Request
    <3>2. down' = silent'
      BY <2>2 DEF Ask, Answered, Unanswered
    <3>3. QED
      BY <3>1, <3>2
  <2>3. CASE NotAskedAgain
    BY <2>3 DEF NotAskedAgain, Unanswered, hosts
  <2>4. CASE TarballOutage
    <3>1. pestered' = pestered
      BY <2>4 DEF TarballOutage, Request
    <3>2. down' = silent'
      BY <2>4 DEF TarballOutage
    <3>3. QED
      BY <3>1, <3>2
  <2>5. CASE Skip \/ TarballNotAsked
    <3>1. pc' \in {"resolve", "tarball"} => pc \in {"resolve", "tarball"}
      BY <2>5, AfterFacts DEF Skip, TarballNotAsked, Advance
    <3>2. QED
      BY <2>5, <3>1 DEF Skip, TarballNotAsked, resolution, hosts
  <2>6. CASE Render \/ ExtractContext
    BY <2>6 DEF Render, ExtractContext, Stay, hosts
  <2>7. CASE FetchRootfs
    <3>1. pc' \notin {"resolve", "tarball"}
      BY <2>7, AfterFacts DEF FetchRootfs, Advance, Stay
    <3>2. pestered' \subseteq pestered \cup (Servers \X {"rootfs"})
      <4>1. pestered' = pestered \/ Request(Server[i], "rootfs")
        BY <2>7, Zenon DEF FetchRootfs
      <4>2. QED
        BY <2>0, <4>1 DEF Request
    <3>3. QED
      BY <3>1, <3>2
  <2>8. CASE FetchExtraPackages
    <3>1. pc' \notin {"resolve", "tarball"}
      BY <2>8, AfterFacts DEF FetchExtraPackages, Advance, Stay
    <3>2. QED
      BY <2>8, <3>1 DEF FetchExtraPackages, hosts
  <2>9. CASE FetchCompliance
    <3>1. pc' \notin {"resolve", "tarball"}
      BY <2>9, AfterFacts DEF FetchCompliance, Advance
    <3>2. pestered' \subseteq pestered \cup (Servers \X {"bundle"})
      BY <2>0, <2>9 DEF FetchCompliance
    <3>3. QED
      BY <3>1, <3>2
  <2>10. CASE (\E d \in Releases : Publish(d)) \/ UNCHANGED vars
    BY <2>10 DEF Publish, vars, resolution, hosts
  <2>11. QED
    BY <2>1, <2>2, <2>3, <2>4, <2>5, <2>6, <2>7, <2>8, <2>9, <2>10 DEF Next
<1>3. QED
  BY <1>1, <1>2, TypeCorrect, PTL DEF Spec

\* A registry that did not answer a command is not asked by it again, and a download
\* server only for the files of the build context, for any routers on any hosts.
THEOREM HostsRest == Spec => []SilentHostsRest
<1>1. Remembered => SilentHostsRest
  BY DEF Remembered
<1>2. QED
  BY <1>1, RememberedHolds, PTL

\* What another router's answer adds to what was heard takes nothing away.
LEMMA StillJustified ==
  ASSUME TypeOK, Switched, NEW r \in fallen, UNCHANGED <<base, publish>>,
         silent \subseteq silent', heard[r] \subseteq heard'[r]
  PROVE  \/ base'[r] = "default" /\ "missing" \in heard'[r]
         \/ ~publish' /\ Registry[r] \in silent' /\ "served" \in heard'[r]
BY DEF Switched, SwitchJustified

LEMMA SwitchedHolds == Spec => []Switched
<1>1. Init => Switched
  BY DEF Init, Switched, SwitchJustified
<1>2. TypeOK /\ Remembered /\ Switched /\ [Next]_vars => Switched'
  <2> SUFFICES ASSUME TypeOK, Remembered, Switched, [Next]_vars PROVE Switched'
    OBVIOUS
  <2>1. CASE Begin
    BY <2>1 DEF Begin, Switched, SwitchJustified
  <2>2. CASE Ask
    <3>0. i \in Routers /\ i \in DOMAIN heard /\ UNCHANGED <<base, publish>>
          /\ "resolve" \in DOMAIN After /\ HasImage(i)
      BY <2>2, AfterFacts DEF Ask, TypeOK, world, command
    <3>1. PICK state : \/ Answered(state)
                       \/ silent' = silent \cup {Registry[i]} /\ Unanswered
      BY <2>2 DEF Ask
    <3>2. CASE Answered(state)
      <4>1. pc' \in {"resolve", "render"}
        BY <3>0, <3>2, AdvanceFacts, AfterFacts DEF Answered
      <4>2. silent' = silent /\ \A r \in Routers : heard[r] \subseteq heard'[r]
        BY <3>0, <3>2 DEF Answered, TypeOK
      <4>3. base[i] \in {"default", "image"}
        BY <3>0 DEF HasImage, TypeOK
      <4>4. ASSUME NEW r \in fallen'
            PROVE  \/ base'[r] = "default" /\ "missing" \in heard'[r]
                   \/ ~publish' /\ Registry[r] \in silent' /\ "served" \in heard'[r]
        <5>1. CASE r \in fallen
          <6>1. heard[r] \subseteq heard'[r]
            BY <4>2, <5>1 DEF TypeOK
          <6>2. QED
            BY <3>0, <4>2, <5>1, <6>1, StillJustified
        <5>2. CASE r \notin fallen
          <6>1. r = i /\ state = "missing" /\ base[i] # "image"
            BY <3>2, <4>4, <5>2 DEF Answered
          <6>2. "missing" \in heard'[i]
            BY <3>0, <3>2, <6>1 DEF Answered, TypeOK
          <6>3. QED
            BY <3>0, <4>3, <6>1, <6>2
        <5>3. QED
          BY <5>1, <5>2
      <4>5. QED
        BY <4>1, <4>4 DEF Switched, SwitchJustified
    <3>3. CASE silent' = silent \cup {Registry[i]} /\ Unanswered
      <4>1. pc' = "tarball" => i' = i /\ ~publish
        BY <3>0, <3>3, AdvanceFacts, AfterFacts DEF Unanswered, Stay
      <4>2. fallen' = fallen /\ heard' = heard
        BY <3>3 DEF Unanswered
      <4>3. QED
        BY <3>0, <3>3, <4>1, <4>2 DEF Switched, SwitchJustified
    <3>4. QED
      BY <3>1, <3>2, <3>3
  <2>3. CASE NotAskedAgain
    <3>0. i \in Routers /\ "resolve" \in DOMAIN After
      BY AfterFacts DEF TypeOK
    <3>1. pc' = "tarball" => i' = i /\ ~publish
      BY <2>3, <3>0, AdvanceFacts, AfterFacts DEF NotAskedAgain, Unanswered, Stay
    <3>2. Registry[i] \in silent
      BY <2>3 DEF NotAskedAgain, Remembered
    <3>3. QED
      BY <2>3, <3>0, <3>1, <3>2
         DEF NotAskedAgain, Unanswered, Switched, SwitchJustified, world, command, hosts
  <2>4. CASE TarballOutage
    <3>0. i \in Routers /\ "resolve" \in DOMAIN After /\ ~publish /\ Registry[i] \in silent
          /\ UNCHANGED <<base, publish>>
      BY <2>4, AfterFacts DEF TarballOutage, Switched, TypeOK, world, command
    <3>1. pc' \in {"resolve", "render"}
      BY <2>4, <3>0, AdvanceFacts, AfterFacts DEF TarballOutage
    <3>2. silent \subseteq silent' /\ \A r \in Routers : heard[r] \subseteq heard'[r]
      BY <2>4, <3>0 DEF TarballOutage, TypeOK
    <3>3. \A r \in fallen' : r \in fallen \/ (r = i /\ "served" \in heard'[i])
      BY <2>4, <3>0 DEF TarballOutage, TypeOK
    <3>4. ASSUME NEW r \in fallen'
          PROVE  \/ base'[r] = "default" /\ "missing" \in heard'[r]
                 \/ ~publish' /\ Registry[r] \in silent' /\ "served" \in heard'[r]
      <4>1. CASE r \in fallen
        <5>1. heard[r] \subseteq heard'[r]
          BY <3>2, <4>1 DEF TypeOK
        <5>2. QED
          BY <3>0, <3>2, <4>1, <5>1, StillJustified
      <4>2. CASE r \notin fallen
        BY <3>0, <3>2, <3>3, <3>4, <4>2
      <4>3. QED
        BY <4>1, <4>2
    <3>5. QED
      BY <3>1, <3>4 DEF Switched, SwitchJustified
  <2>5. CASE Skip
    <3>1. pc' # "tarball"
      BY <2>5, AdvanceFacts, AfterFacts DEF Skip, TypeOK
    <3>2. QED
      BY <2>5, <3>1 DEF Skip, Switched, SwitchJustified, world, command, resolution, hosts
  <2>6. CASE TarballNotAsked
    <3>1. pc' # "tarball"
      BY <2>6, AdvanceFacts, AfterFacts DEF TarballNotAsked, TypeOK
    <3>2. QED
      BY <2>6, <3>1
         DEF TarballNotAsked, Switched, SwitchJustified, world, command, resolution, hosts
  <2>7. CASE Render \/ ExtractContext
    BY <2>7 DEF Render, ExtractContext, Stay, Switched, SwitchJustified,
                world, command, resolution, hosts
  <2>8. CASE FetchRootfs \/ FetchExtraPackages \/ FetchCompliance
    <3>1. pc' # "tarball"
      BY <2>8, AdvanceFacts, AfterFacts
         DEF FetchRootfs, FetchExtraPackages, FetchCompliance, Stay, TypeOK
    <3>2. QED
      BY <2>8, <3>1 DEF FetchRootfs, FetchExtraPackages, FetchCompliance,
                        Switched, SwitchJustified, world, command, resolution, hosts
  <2>9. CASE (\E d \in Releases : Publish(d)) \/ UNCHANGED vars
    BY <2>9 DEF Publish, Switched, SwitchJustified, vars, world, command, resolution, hosts
  <2>10. QED
    BY <2>1, <2>2, <2>3, <2>4, <2>5, <2>6, <2>7, <2>8, <2>9 DEF Next
<1>3. QED
  BY <1>1, <1>2, TypeCorrect, RememberedHolds, PTL DEF Spec

\* A router is switched to the tarball only for an answer that justifies it, however
\* many routers share its hosts, and never for an outage while publishing.
THEOREM SwitchProved == Spec => []SwitchJustified
<1>1. Switched => SwitchJustified
  BY DEF Switched
<1>2. QED
  BY <1>1, SwitchedHolds, PTL

-----------------------------------------------------------------------------
(* The build context *)

Staging == {"rootfs", "extra", "bundle", "ready"}

\* What the loops have staged so far: of router r, once the loop at l is past it.
Past(l, later, r) == pc \in later \/ (pc = l /\ r < i)

RootfsStaged(r) ==
  rootfs[r] # None <=>
    r \in named /\ ~HasImage(r) /\ Past("rootfs", {"extra", "bundle", "ready"}, r)

RootfsCurrent(r) ==
  rootfs[r] # None /\ Release[r] \in Rolling => rootfs[r] >= since[Release[r]]

ExtraStaged(r) ==
  extra[r] = IF r \in named /\ Past("extra", {"bundle", "ready"}, r) THEN Builds(r) ELSE {}

SinceFirst == \A d \in Releases : since[d] <= current[d]

\* resolve and its last step leave the loops at their first router.
FromTheFirst == pc \in {"render", "extract"} => i = 1

\* No router is switched once the compose file is written.
RenderedAsIs == pc \in Staging \cup {"extract"} => \A r \in Routers : rendered[r] = BaseStage(r)

Staged ==
  /\ SinceFirst /\ FromTheFirst /\ RenderedAsIs
  /\ pc \in Staging =>
       \A r \in Routers : RootfsStaged(r) /\ RootfsCurrent(r) /\ ExtraStaged(r)

\* Going on changes nothing for a router that the loop is not at.
LEMMA PastAdvances ==
  ASSUME TypeOK, NEW l \in DOMAIN After, pc = l, Advance(l)
  PROVE  /\ pc' \in Staging <=> l # "resolve"
         /\ \A r \in Routers :
              /\ Past("rootfs", {"extra", "bundle", "ready"}, r)' <=>
                   Past("rootfs", {"extra", "bundle", "ready"}, r) \/ (l = "rootfs" /\ r = i)
              /\ Past("extra", {"bundle", "ready"}, r)' <=>
                   Past("extra", {"bundle", "ready"}, r) \/ (l = "extra" /\ r = i)
<1>1. /\ i \in Routers
      /\ \/ i < N /\ i' = i + 1 /\ pc' = l
         \/ i = N /\ i' = 1 /\ pc' = After[l]
  BY AdvanceFacts DEF TypeOK
<1>2. CASE i < N
  BY <1>1, <1>2, AfterFacts, ContextAssumption DEF Past, Staging, Routers
<1>3. CASE i = N
  BY <1>1, <1>3, AfterFacts, ContextAssumption DEF Past, Staging, Routers
<1>4. QED
  BY <1>1, <1>2, <1>3

LEMMA StagedHolds == Spec => []Staged
<1> USE DEF SinceFirst, FromTheFirst, RenderedAsIs
<1>1. Init => Staged
  BY ContextAssumption DEF Init, Staged, Staging
<1>2. TypeOK /\ TypeOK' /\ Staged /\ [Next]_vars => Staged'
  <2> SUFFICES ASSUME TypeOK, TypeOK', Staged, [Next]_vars PROVE Staged'
    OBVIOUS
  <2>0. \A d \in Releases : current[d] \in Nat /\ since[d] \in Nat
    BY ContextAssumption DEF TypeOK
  <2>1. CASE Begin
    <3>1. \A d \in Releases : since'[d] <= current'[d]
      BY <2>0, <2>1 DEF Begin, world
    <3>2. QED
      BY <2>1, <3>1 DEF Begin, Staged, Staging
  <2>2. CASE Skip
    <3>1. pc \in DOMAIN After /\ Advance(pc)
      BY <2>2 DEF Skip
    <3>2. UNCHANGED <<base, current, named, since, fallen, rendered, rootfs, extra>>
      BY <2>2 DEF Skip, world, command, resolution, hosts, context
    <3>3. /\ pc' \in Staging => pc \in Staging
          /\ pc' # "extract" /\ (pc' = "render" => i' = 1)
      BY <3>1, PastAdvances, AdvanceFacts, AfterFacts DEF Staging, TypeOK
    <3>4. ASSUME pc \in Staging, NEW r \in Routers
          PROVE  RootfsStaged(r)' /\ RootfsCurrent(r)' /\ ExtraStaged(r)'
      <4>1. pc = "rootfs" => i \notin named \/ HasImage(i)
        BY <2>2 DEF Skip
      <4>2. pc = "extra" => i \notin named
        BY <2>2 DEF Skip
      <4>3. HasImage(r)' <=> HasImage(r)
        BY <3>2 DEF HasImage
      <4>4. RootfsStaged(r)'
        BY <3>1, <3>2, <3>4, <4>1, <4>3, PastAdvances DEF Staged, RootfsStaged
      <4>5. ExtraStaged(r)'
        BY <3>1, <3>2, <3>4, <4>2, PastAdvances DEF Staged, ExtraStaged, Builds
      <4>6. RootfsCurrent(r)'
        BY <3>2, <3>4 DEF Staged, RootfsCurrent
      <4>7. QED
        BY <4>4, <4>5, <4>6
    <3>5. \A r \in Routers : BaseStage(r)' = BaseStage(r)
      BY <3>2 DEF BaseStage, HasImage
    <3>6. QED
      BY <3>2, <3>3, <3>4, <3>5 DEF Staged
  <2>3. CASE Ask \/ NotAskedAgain \/ TarballOutage \/ TarballNotAsked
    <3>1. "resolve" \in DOMAIN After /\ i \in Routers
      BY AfterFacts DEF TypeOK
    <3>2. Advance("resolve") => pc' = "resolve" \/ (pc' = "render" /\ i' = 1)
      BY <3>1, AdvanceFacts, AfterFacts
    <3>3. pc' \in {"resolve", "tarball"} \/ (pc' = "render" /\ i' = 1)
      BY <2>3, <3>2 DEF Ask, NotAskedAgain, TarballOutage, TarballNotAsked,
                        Answered, Unanswered, Stay
    <3>4. UNCHANGED <<current, since>>
      BY <2>3 DEF Ask, NotAskedAgain, TarballOutage, TarballNotAsked, world, command
    <3>5. QED
      BY <3>3, <3>4 DEF Staged, Staging
  <2>4. CASE Render
    <3>1. pc' = "extract" /\ i' = i /\ UNCHANGED <<base, current, since, fallen>>
          /\ pc = "render" /\ rendered' = [r \in Routers |-> BaseStage(r)]
      BY <2>4 DEF Render, Stay, world, command, resolution, hosts
    <3>2. \A r \in Routers : BaseStage(r)' = BaseStage(r)
      BY <3>1 DEF BaseStage, HasImage
    <3>3. QED
      BY <3>1, <3>2 DEF Staged, Staging
  <2>5. CASE ExtractContext
    <3>1. pc' = "rootfs" /\ i' = 1 /\ pc = "extract"
          /\ UNCHANGED <<base, current, since, fallen, rendered>>
      BY <2>5 DEF ExtractContext, Stay, world, command, resolution, hosts, Staged
    <3>2. \A r \in Routers : rootfs'[r] = None /\ extra'[r] = {}
      BY <2>5 DEF ExtractContext, Bare
    <3>3. \A r \in Routers : BaseStage(r)' = BaseStage(r)
      BY <3>1 DEF BaseStage, HasImage
    <3>4. \A r \in Routers : ~(r < 1)
      BY ContextAssumption DEF Routers
    <3>5. \A r \in Routers : RootfsStaged(r)' /\ RootfsCurrent(r)' /\ ExtraStaged(r)'
      BY <3>1, <3>2, <3>4 DEF RootfsStaged, RootfsCurrent, ExtraStaged, Past
    <3>6. QED
      BY <3>1, <3>3, <3>5 DEF Staged, Staging
  <2>6. CASE FetchRootfs
    <3> DEFINE d == Release[i]
               v == Fetched(Forgotten(d), d)
    <3>1. /\ i \in Routers /\ d \in Releases /\ pc = "rootfs" /\ i \in named /\ ~HasImage(i)
          /\ UNCHANGED <<base, current, named, since, fallen, rendered, extra>>
      BY <2>6, HostFacts DEF FetchRootfs, TypeOK, world, command, resolution
    <3>2. \A r \in Routers : /\ BaseStage(r)' = BaseStage(r) /\ Builds(r)' = Builds(r)
                             /\ HasImage(r)' <=> HasImage(r)
      BY <3>1 DEF BaseStage, HasImage, Builds
    <3>3. CASE Stay("failed")
      BY <3>1, <3>3 DEF Stay, Staged, Staging
    <3>4. CASE rootfs' = [rootfs EXCEPT ![i] = v] /\ Advance("rootfs")
      <4>1. v # None /\ (d \in Rolling => v = current[d])
        BY <3>1, <2>0, ContextAssumption DEF Fetched, Forgotten, None, TypeOK
      <4>2. v >= since[d] \/ d \notin Rolling
        BY <2>0, <3>1, <4>1 DEF Staged
      <4>3. pc' \in Staging /\ "rootfs" \in DOMAIN After /\ pc \in Staging
        BY <3>1, <3>4, PastAdvances, AfterFacts DEF Staging
      <4>4. ASSUME NEW r \in Routers
            PROVE  RootfsStaged(r)' /\ RootfsCurrent(r)' /\ ExtraStaged(r)'
        <5>1. rootfs'[r] = IF r = i THEN v ELSE rootfs[r]
          BY <3>1, <3>4 DEF TypeOK
        <5>2. RootfsStaged(r)'
          BY <3>1, <3>2, <3>4, <4>1, <4>3, <5>1, PastAdvances DEF Staged, RootfsStaged
        <5>3. ExtraStaged(r)'
          BY <3>1, <3>2, <3>4, <4>3, PastAdvances DEF Staged, ExtraStaged
        <5>4. RootfsCurrent(r)'
          BY <3>1, <4>2, <4>3, <5>1 DEF Staged, RootfsCurrent
        <5>5. QED
          BY <5>2, <5>3, <5>4
      <4>5. pc' \notin {"render", "extract"}
        BY <4>3 DEF Staging
      <4>6. QED
        BY <3>1, <3>2, <4>3, <4>4, <4>5 DEF Staged
    <3>5. QED
      BY <2>6, <3>3, <3>4 DEF FetchRootfs
  <2>7. CASE FetchExtraPackages
    <3>1. /\ i \in Routers /\ pc = "extra" /\ i \in named
          /\ UNCHANGED <<base, current, named, since, fallen, rendered, rootfs>>
      BY <2>7 DEF FetchExtraPackages, TypeOK, world, command, resolution, hosts
    <3>2. \A r \in Routers : /\ BaseStage(r)' = BaseStage(r) /\ Builds(r)' = Builds(r)
                             /\ HasImage(r)' <=> HasImage(r)
      BY <3>1 DEF BaseStage, HasImage, Builds
    <3>3. PICK n \in 1..(Extras + 1) :
            /\ extra' = [extra EXCEPT ![i] = {e \in Builds(i) : e < n}]
            /\ IF n = Extras + 1 THEN Advance("extra") ELSE Stay("failed")
      BY <2>7 DEF FetchExtraPackages
    <3>4. CASE n # Extras + 1
      BY <3>1, <3>3, <3>4 DEF Stay, Staged, Staging
    <3>5. CASE n = Extras + 1
      <4>1. {e \in Builds(i) : e < n} = Builds(i)
        BY <3>5, ContextAssumption DEF Builds
      <4>2. pc' \in Staging /\ "extra" \in DOMAIN After /\ pc \in Staging /\ Advance("extra")
        BY <3>1, <3>3, <3>5, PastAdvances, AfterFacts DEF Staging
      <4>3. ASSUME NEW r \in Routers
            PROVE  RootfsStaged(r)' /\ RootfsCurrent(r)' /\ ExtraStaged(r)'
        <5>1. extra'[r] = IF r = i THEN Builds(i) ELSE extra[r]
          BY <3>1, <3>3, <4>1 DEF TypeOK
        <5>2. RootfsStaged(r)'
          BY <3>1, <3>2, <4>2, PastAdvances DEF Staged, RootfsStaged
        <5>3. ExtraStaged(r)'
          BY <3>1, <3>2, <4>2, <5>1, PastAdvances DEF Staged, ExtraStaged
        <5>4. RootfsCurrent(r)'
          BY <3>1, <4>2 DEF Staged, RootfsCurrent
        <5>5. QED
          BY <5>2, <5>3, <5>4
      <4>4. pc' \notin {"render", "extract"}
        BY <4>2 DEF Staging
      <4>5. QED
        BY <3>1, <3>2, <4>2, <4>3, <4>4 DEF Staged
    <3>6. QED
      BY <3>4, <3>5
  <2>8. CASE FetchCompliance
    <3>1. /\ i \in Routers /\ pc = "bundle" /\ Advance("bundle")
          /\ UNCHANGED <<base, current, named, since, fallen, rendered, rootfs, extra>>
      BY <2>8 DEF FetchCompliance, TypeOK, world, command, resolution
    <3>2. \A r \in Routers : /\ BaseStage(r)' = BaseStage(r) /\ Builds(r)' = Builds(r)
                             /\ HasImage(r)' <=> HasImage(r)
      BY <3>1 DEF BaseStage, HasImage, Builds
    <3>3. pc' \in Staging /\ "bundle" \in DOMAIN After /\ pc \in Staging
      BY <3>1, PastAdvances, AfterFacts DEF Staging
    <3>4. \A r \in Routers : RootfsStaged(r)' /\ RootfsCurrent(r)' /\ ExtraStaged(r)'
      BY <3>1, <3>2, <3>3, PastAdvances DEF Staged, RootfsStaged, RootfsCurrent, ExtraStaged
    <3>5. pc' \notin {"render", "extract"}
      BY <3>3 DEF Staging
    <3>6. QED
      BY <3>1, <3>2, <3>3, <3>4, <3>5 DEF Staged
  <2>9. ASSUME NEW d \in Releases, Publish(d) PROVE Staged'
    <3>1. /\ UNCHANGED <<pc, i, base, named, since, fallen, rendered, rootfs, extra>>
          /\ \A e \in Releases : current[e] <= current'[e]
      BY <2>0, <2>9 DEF Publish, command, resolution, hosts, context, TypeOK
    <3>2. \A e \in Releases : since'[e] <= current'[e]
      <4> TAKE e \in Releases
      <4>1. current'[e] \in Nat /\ since'[e] \in Nat /\ since[e] <= current[e]
        BY <2>0, ContextAssumption DEF Staged, TypeOK
      <4>2. QED
        BY <2>0, <3>1, <4>1
    <3>3. \A r \in Routers : /\ BaseStage(r)' = BaseStage(r) /\ Builds(r)' = Builds(r)
                             /\ HasImage(r)' <=> HasImage(r)
      BY <3>1 DEF BaseStage, HasImage, Builds
    <3>4. QED
      BY <3>1, <3>2, <3>3 DEF Staged, RootfsStaged, RootfsCurrent, ExtraStaged, Past
  <2>10. CASE UNCHANGED vars
    <3>1. UNCHANGED <<pc, i, base, current, named, since, fallen, rendered, rootfs, extra>>
      BY <2>10 DEF vars, world, command, resolution, hosts, context
    <3>2. QED
      BY <3>1 DEF Staged, RootfsStaged, RootfsCurrent, ExtraStaged, Past,
                  BaseStage, Builds, HasImage
  <2>11. QED
    BY <2>1, <2>2, <2>3, <2>4, <2>5, <2>6, <2>7, <2>8, <2>9, <2>10 DEF Next
<1>3. QED
  BY <1>1, <1>2, TypeCorrect, PTL DEF Spec

\* The context a build starts from is the one its compose file means, for any routers,
\* releases and extra packages, whatever was staged and cached before.
THEOREM StagedProved == Spec => []StagedForBuild
<1>1. Staged => StagedForBuild
  <2> SUFFICES ASSUME Staged, pc = "ready", NEW r \in Routers
               PROVE  /\ rootfs[r] # None <=> r \in named /\ rendered[r] = "tarball"
                      /\ rootfs[r] # None /\ Release[r] \in Rolling =>
                           rootfs[r] >= since[Release[r]]
                      /\ extra[r] = IF r \in named THEN Builds(r) ELSE {}
    BY DEF StagedForBuild
  <2>1. RootfsStaged(r) /\ RootfsCurrent(r) /\ ExtraStaged(r) /\ rendered[r] = BaseStage(r)
    BY DEF Staged, Staging, RenderedAsIs
  <2>2. rendered[r] = "tarball" <=> ~HasImage(r)
    BY <2>1 DEF BaseStage
  <2>3. QED
    BY <2>1, <2>2 DEF RootfsStaged, RootfsCurrent, ExtraStaged, Past
<1>2. QED
  BY <1>1, StagedHolds, PTL

-----------------------------------------------------------------------------
(* The rules of owlab.yaml (ConfigRules) *)

LEMMA Numbers ==
  HTTPBase \in Nat /\ HTTPBase # 0 /\ SSHBase \in Nat /\ Window \in Nat
BY RulesAssumption

\* The input has its types.
LEMMA SourceFacts ==
  ASSUME source \in Sources
  PROVE  /\ source.kind \in {"file", "flags"} /\ source.routers \in Seq(Written)
         /\ Len(source.routers) \in Nat
         /\ \A k \in 1..Len(source.routers) : source.routers[k] \in Written
<1>1. source \in [kind : {"file", "flags"}, defaults : Written, routers : Seq(Written)]
  BY RulesAssumption
<1>2. source.kind \in {"file", "flags"} /\ source.routers \in Seq(Written)
  BY <1>1
<1>3. QED
  BY <1>2

\* A port that FreePortFrom gives away was not given away before.
LEMMA FreePortFacts ==
  ASSUME NEW start \in Nat, NEW given, NEW x \in FreePortFrom(start, given)
  PROVE  /\ x.port \in Nat /\ x.port >= start
         /\ x.found => x.port \notin given /\ Given(x) = {x.port}
         /\ x.found \in BOOLEAN
<1>1. \A p \in start..(start + Window - 1) : p \in Nat /\ p >= start
  BY Numbers
<1>2. \/ \E p \in (start..(start + Window - 1)) \ given : x = [port |-> p, found |-> TRUE]
      \/ x = [port |-> start, found |-> FALSE]
  BY DEF FreePortFrom
<1>3. CASE x = [port |-> start, found |-> FALSE]
  BY <1>3
<1>4. ASSUME NEW p \in (start..(start + Window - 1)) \ given, x = [port |-> p, found |-> TRUE]
      PROVE  x.port = p /\ x.found = TRUE /\ Given(x) = {p}
  BY <1>4 DEF Given
<1>5. QED
  BY <1>1, <1>2, <1>3, <1>4

\* A router that was given ports has them, not those of its place in the list.
LEMMA GivenPorts ==
  ASSUME NEW d, NEW r, NEW index \in Nat, NEW h \in Nat, NEW s \in Nat,
         h >= HTTPBase + index, s >= SSHBase + index, r.ports = <<h, s>>
  PROVE  Merge(d, r, index).ports = [http |-> h, ssh |-> s]
<1>1. h # 0
  BY Numbers
<1>2. s = 0 => SSHBase + index = s
  BY Numbers
<1>3. Ports(d.ports, <<h, s>>, index) = [http |-> h, ssh |-> s]
  BY <1>1, <1>2 DEF Ports
<1>4. QED
  BY <1>3 DEF Merge

\* The routers are a list, of whatever.
Listed == \E S : routers \in Seq(S)

Typed == source \in Sources /\ Listed /\ phase \in {"merge", "accepted", "refused"}

\* What a list has after one more was put at its end.
LEMMA OneMore ==
  ASSUME Listed, NEW r, routers' = Append(routers, r)
  PROVE  /\ Listed'
         /\ DOMAIN routers' = DOMAIN routers \cup {Len(routers) + 1}
         /\ Len(routers') = Len(routers) + 1
         /\ Len(routers) + 1 \notin DOMAIN routers
         /\ \A k \in DOMAIN routers : routers'[k] = routers[k]
         /\ routers'[Len(routers) + 1] = r
<1>1. PICK S : routers \in Seq(S)
  BY DEF Listed
<1>2. routers \in Seq(S \cup {r}) /\ r \in S \cup {r}
  BY <1>1
<1>3. routers' \in Seq(S \cup {r})
  BY <1>2
<1>4. QED
  BY <1>2, <1>3, AppendProperties DEF Listed

\* A router that is found its two ports.
LEMMA FoundPorts ==
  ASSUME Typed, OwnPorts, source.kind = "flags", ~crowded', next \in Nat \ {0},
         SynthesizeRouter, routers' # routers
  PROVE  \E h, s \in Nat :
           /\ h \notin taken /\ s \notin taken /\ h # s
           /\ taken' = taken \cup {h, s} /\ ~crowded
           /\ \E r : routers' = Append(routers, r) /\ r.ports = [http |-> h, ssh |-> s]
<1> DEFINE d == source.defaults
           asked == source.routers[next]
           spelled == [asked EXCEPT !.id = SynthID(d.distro, asked.release)]
<1> DEFINE TakenFor(http, ssh) ==
             /\ taken' = taken \cup Given(http) \cup Given(ssh)
             /\ crowded' = (crowded \/ ~http.found \/ ~ssh.found)
             /\ routers' = Append(routers,
                  Merge(d, [spelled EXCEPT !.ports = <<http.port, ssh.port>>], next - 1))
<1>0. PICK http \in FreePortFrom(HTTPBase + next - 1, taken) :
        \E ssh \in FreePortFrom(SSHBase + next - 1, taken \cup Given(http)) : TakenFor(http, ssh)
  BY DEF SynthesizeRouter, Refuse
<1>1. PICK ssh \in FreePortFrom(SSHBase + next - 1, taken \cup Given(http)) : TakenFor(http, ssh)
  BY <1>0
<1>2. HTTPBase + next - 1 \in Nat /\ SSHBase + next - 1 \in Nat
  BY Numbers
<1>3. /\ http.port \in Nat /\ http.port >= HTTPBase + next - 1
      /\ http.port \notin taken /\ Given(http) = {http.port}
  BY <1>1, <1>2, FreePortFacts
<1>4. /\ ssh.port \in Nat /\ ssh.port >= SSHBase + next - 1
      /\ ssh.port \notin taken \cup Given(http) /\ Given(ssh) = {ssh.port}
  BY <1>1, <1>2, FreePortFacts
<1> DEFINE given == [spelled EXCEPT !.ports = <<http.port, ssh.port>>]
<1>5. given.ports = <<http.port, ssh.port>>
  <2>1. next <= Len(source.routers)
    BY DEF SynthesizeRouter
  <2>2. asked \in Written
    BY <2>1, SourceFacts DEF Typed
  <2>3. "ports" \in DOMAIN asked
    BY <2>2 DEF Written
  <2>4. DOMAIN spelled = DOMAIN asked
    OBVIOUS
  <2>5. QED
    BY <2>3, <2>4
<1>6. Merge(d, given, next - 1).ports = [http |-> http.port, ssh |-> ssh.port]
  <2>1. next - 1 \in Nat /\ http.port >= HTTPBase + (next - 1) /\ ssh.port >= SSHBase + (next - 1)
    BY <1>3, <1>4, Numbers
  <2> HIDE DEF given, d
  <2>2. QED
    BY <1>3, <1>4, <1>5, <2>1, GivenPorts
<1>7. QED
  BY <1>1, <1>3, <1>4, <1>6

\* The positions of Named are those of a list.
LEMMA NamedFacts ==
  ASSUME source \in Sources
  PROVE  /\ \A k \in Named : k \in 1..Len(source.routers) /\ source.routers[k] \in Written
         /\ \A P \in SUBSET Named : IsFiniteSet(P) /\ Cardinality(P) \in Nat
<1>1. source.routers \in Seq(Written) /\ Len(source.routers) \in Nat
  BY SourceFacts
<1>2. Named \subseteq 1..Len(source.routers)
  BY <1>1 DEF Named
<1>3. IsFiniteSet(1..Len(source.routers))
  BY <1>1, FS_Interval
<1>4. ASSUME NEW P \in SUBSET Named PROVE IsFiniteSet(P) /\ Cardinality(P) \in Nat
  BY <1>2, <1>3, FS_Subset, FS_CardinalityType
<1>5. QED
  BY <1>1, <1>2, <1>4

\* What is written is told from where it stands among Named.
LEMMA AskedIs ==
  ASSUME source \in Sources, NEW j \in Named
  PROVE  Asked(Cardinality({q \in Named : q <= j})) = source.routers[j]
<1> DEFINE UpTo(x) == {q \in Named : q <= x}
<1>1. ASSUME NEW x \in Named, NEW y \in Named, x < y
      PROVE  Cardinality(UpTo(x)) # Cardinality(UpTo(y))
  <2>1. x \in Int /\ y \in Int /\ \A q \in Named : q \in Int
    BY NamedFacts
  <2>2. UpTo(x) \subseteq UpTo(y)
    <3> SUFFICES ASSUME NEW q \in UpTo(x) PROVE q \in UpTo(y)
      OBVIOUS
    <3>1. q \in Int /\ q <= x
      BY <2>1
    <3>2. q <= y
      BY <1>1, <2>1, <3>1
    <3>3. QED
      BY <3>2
  <2>3. y \in UpTo(y) /\ y \notin UpTo(x)
    BY <1>1, <2>1
  <2>4. IsFiniteSet(UpTo(y))
    BY NamedFacts
  <2> HIDE DEF UpTo
  <2>5. QED
    BY <2>2, <2>3, <2>4, FS_Subset
<1>2. ASSUME NEW x \in Named, Cardinality(UpTo(x)) = Cardinality(UpTo(j)) PROVE x = j
  <2>1. x \in Int /\ j \in Int
    BY NamedFacts
  <2>2. x < j \/ x = j \/ j < x
    BY <2>1
  <2> HIDE DEF UpTo
  <2>3. QED
    BY <1>1, <1>2, <2>2
<1>3. (CHOOSE x \in Named : Cardinality(UpTo(x)) = Cardinality(UpTo(j))) = j
  <2> HIDE DEF UpTo
  <2> QED
    BY <1>2
<1>4. QED
  BY <1>3 DEF Asked

\* A step that does not come further in what is written.
LEMMA SameAsked ==
  ASSUME FromAsked, source' = source, next' = next, routers' = routers
  PROVE  FromAsked'
BY DEF FromAsked, Named

\* A step past what is not merged.
LEMMA PastBlank ==
  ASSUME Typed, FromAsked, source' = source, next' = next + 1, routers' = routers,
         next \in Nat, next \notin Named
  PROVE  FromAsked'
<1>1. \A q \in Named : q \in Int
  BY NamedFacts DEF Typed
<1>2. {q \in Named : q < next + 1} = {q \in Named : q < next}
  BY <1>1
<1>3. Named' = Named
  BY DEF Named
<1>4. QED
  BY <1>2, <1>3 DEF FromAsked

\* A step that merges what is next.
LEMMA NextAsked ==
  ASSUME Typed, FromAsked, source' = source, next' = next + 1, next \in Named,
         ValidFixtures(MergedFixtures(source.defaults, source.routers[next])),
         NEW x, routers' = Append(routers, x),
         x.packages = Packages(source.defaults, source.routers[next]),
         x.fixtures = Fixtures(MergedFixtures(source.defaults, source.routers[next]))
  PROVE  FromAsked'
<1> DEFINE Before == {q \in Named : q < next}
<1>1. next \in Int /\ \A q \in Named : q \in Int
  BY NamedFacts DEF Typed
<1> DEFINE UpTo == {q \in Named : q <= next}
<1>2. {q \in Named : q < next + 1} = Before \cup {next}
  BY <1>1
<1>3. UpTo = Before \cup {next}
  <2>1. \A q \in Named : q <= next <=> q < next \/ q = next
    BY <1>1
  <2>2. QED
    BY <2>1
<1>4. Cardinality(Before \cup {next}) = Cardinality(Before) + 1
  <2>1. IsFiniteSet(Before)
    BY NamedFacts DEF Typed
  <2>2. next \notin Before
    BY <1>1
  <2> HIDE DEF Before
  <2>3. QED
    BY <2>1, <2>2, FS_AddElement
<1>5. /\ DOMAIN routers' = DOMAIN routers \cup {Len(routers) + 1}
      /\ Len(routers') = Len(routers) + 1
      /\ Len(routers) + 1 \notin DOMAIN routers
      /\ \A k \in DOMAIN routers : routers'[k] = routers[k]
      /\ routers'[Len(routers) + 1] = x
  BY OneMore DEF Typed
<1>6. Named' = Named
  BY DEF Named
<1>7. Len(routers) = Cardinality(Before)
  BY DEF FromAsked
<1>8. Len(routers') = Cardinality({q \in Named : q < next'})
  BY <1>2, <1>4, <1>5, <1>7
<1> DEFINE d == source.defaults
           Of(k, y, j) == /\ k = Cardinality({q \in Named : q <= j})
                          /\ ValidFixtures(MergedFixtures(d, source.routers[j]))
                          /\ y.packages = Packages(d, source.routers[j])
                          /\ y.fixtures = Fixtures(MergedFixtures(d, source.routers[j]))
<1>9. Of(Len(routers) + 1, x, next)
  BY <1>3, <1>4, <1>7
<1>10. \A k \in DOMAIN routers : \E j \in Named : Of(k, routers[k], j)
  BY DEF FromAsked
<1> HIDE DEF Of
<1>11. \A k \in DOMAIN routers' : \E j \in Named : Of(k, routers'[k], j)
  BY <1>5, <1>9, <1>10
<1>12. QED
  BY <1>6, <1>8, <1>11 DEF FromAsked, Of

\* Before the first router.
LEMMA NothingAsked ==
  ASSUME source \in Sources
  PROVE  Cardinality({q \in Named : q < 1}) = 0 /\ DOMAIN <<>> = {} /\ Len(<<>>) = 0
<1>1. {q \in Named : q < 1} = {}
  BY NamedFacts
<1>2. QED
  BY <1>1, FS_EmptySet

\* Where a command begins.
LEMMA RulesInit == ASSUME CRInit PROVE Typed /\ IInv
<1>1. routers \in Seq({}) /\ DOMAIN routers = {}
  BY DEF CRInit
<1>2. next \in 1..(Len(source.routers) + 1)
  BY SourceFacts DEF CRInit
<1>3. FromAsked
  BY NothingAsked DEF CRInit, FromAsked
<1>4. QED
  BY <1>1, <1>2, <1>3 DEF CRInit, Typed, Listed, IInv, OwnPorts

\* A step that merges no router.
LEMMA NoRouter ==
  ASSUME Typed, IInv, source' = source, UNCHANGED ports, routers' = routers,
         next' \in 1..(Len(source.routers) + 1), switched' \subseteq DOMAIN routers,
         phase' \in {"merge", "accepted", "refused"},
         phase' = "accepted" => routers # <<>> /\ Valid(routers), FromAsked'
  PROVE  Typed' /\ IInv'
<1>1. taken' = taken /\ crowded' = crowded
  BY DEF ports
<1>2. Typed'
  BY DEF Typed, Listed
<1>3. OwnPorts'
  BY <1>1 DEF IInv, OwnPorts
<1>4. Valid(routers)' <=> Valid(routers)
  BY DEF Valid
<1>5. QED
  BY <1>2, <1>3, <1>4 DEF IInv

\* A step that merges one.
LEMMA Merged ==
  ASSUME Typed, IInv, NEW r, routers' = Append(routers, r), source' = source,
         next' = next + 1, next <= Len(source.routers), phase = "merge", phase' = phase,
         switched' = switched, OwnPorts', FromAsked'
  PROVE  Typed' /\ IInv'
<1>1. Listed' /\ DOMAIN routers \subseteq DOMAIN routers'
  BY OneMore DEF Typed
<1>2. next' \in 1..(Len(source.routers) + 1)
  BY SourceFacts DEF Typed, IInv
<1>3. QED
  BY <1>1, <1>2 DEF Typed, IInv

\* The next router of a file.
LEMMA LoadStep == ASSUME Typed, IInv, LoadRouter PROVE Typed' /\ IInv'
<1>1. CASE Refuse
  BY <1>1, NoRouter, SameAsked DEF Refuse, IInv
<1>2. CASE ~Refuse
  <2>1. /\ routers' = Append(routers, Merge(source.defaults, source.routers[next], next - 1))
        /\ next' = next + 1 /\ next <= Len(source.routers) /\ phase = "merge" /\ phase' = phase
        /\ source' = source /\ switched' = switched /\ source.kind = "file"
    BY <1>2 DEF LoadRouter
  <2>2. OwnPorts'
    BY <2>1 DEF OwnPorts
  <2>3. FromAsked'
    <3>1. next \in Named
      BY <2>1, SourceFacts DEF Named, IInv, Typed
    <3>2. ValidFixtures(MergedFixtures(source.defaults, source.routers[next]))
      BY <1>2 DEF LoadRouter, Mergeable
    <3>3. QED
      BY <2>1, <3>1, <3>2, NextAsked DEF Merge, IInv
  <2>4. QED
    BY <2>1, <2>2, <2>3, Merged
<1>3. QED
  BY <1>1, <1>2

\* The id and the ports of a router change nothing of its lists.
LEMMA Spelled ==
  ASSUME NEW asked \in Written, NEW id, NEW own
  PROVE  LET r == [asked EXCEPT !.id = id]  x == [r EXCEPT !.ports = own]
         IN /\ r.release = asked.release
            /\ r.fixtures = asked.fixtures
            /\ x.packages = asked.packages /\ x.fixtures = asked.fixtures
BY DEF Written

\* What merge makes of the lists is fixed by the lists.
LEMMA SameLists ==
  ASSUME NEW d, NEW r, NEW asked, r.fixtures = asked.fixtures, NEW index
  PROVE  /\ Mergeable(d, r) => ValidFixtures(MergedFixtures(d, asked))
         /\ Merge(d, r, index).fixtures = Fixtures(MergedFixtures(d, asked))
         /\ r.packages = asked.packages => Merge(d, r, index).packages = Packages(d, asked)
<1>1. MergedFixtures(d, r) = MergedFixtures(d, asked)
  BY DEF MergedFixtures
<1>2. r.packages = asked.packages => Packages(d, r) = Packages(d, asked)
  BY DEF Packages
<1>3. QED
  BY <1>1, <1>2 DEF Mergeable, Merge

\* The next --release of the flags: a blank one, one that is refused, one that is merged.
LEMMA SynthesizeStep == ASSUME Typed, IInv, SynthesizeRouter PROVE Typed' /\ IInv'
<1>1. CASE Refuse
  BY <1>1, NoRouter, SameAsked DEF Refuse, IInv
<1>2. /\ source' = source /\ phase = "merge" /\ source.kind = "flags"
      /\ next <= Len(source.routers) /\ next \in Nat \ {0}
  <2>1. source' = source /\ phase = "merge" /\ source.kind = "flags" /\ next <= Len(source.routers)
    BY DEF SynthesizeRouter, Refuse
  <2>2. Len(source.routers) \in Nat /\ next \in 1..(Len(source.routers) + 1)
    BY SourceFacts DEF Typed, IInv
  <2>3. QED
    BY <2>1, <2>2
<1> DEFINE d == source.defaults
           asked == source.routers[next]
           spelled == [asked EXCEPT !.id = SynthID(d.distro, asked.release)]
           Placed(http, ssh) ==
             Merge(d, [spelled EXCEPT !.ports = <<http.port, ssh.port>>], next - 1)
<1>3. asked \in Written /\ spelled.release = asked.release
  <2>1. asked \in Written
    BY <1>2, SourceFacts DEF Typed
  <2> HIDE DEF d
  <2>2. QED
    BY <2>1, Spelled
<1>4. CASE asked.release = "none"
  <2>1. next' \in 1..(Len(source.routers) + 1)
    BY <1>2, <1>3, <1>4, SourceFacts DEF Typed, SynthesizeRouter
  <2>2. next' = next + 1 /\ UNCHANGED <<phase, source, ports, routers, switched>>
    BY <1>3, <1>4 DEF SynthesizeRouter
  <2>3. next \notin Named
    BY <1>2, <1>4 DEF Named
  <2>4. FromAsked'
    BY <1>2, <2>2, <2>3, PastBlank DEF IInv
  <2>5. QED
    BY <1>2, <2>1, <2>2, <2>4, NoRouter DEF IInv
<1>5. CASE ~Refuse /\ asked.release # "none"
  <2>1. /\ next' = next + 1 /\ phase' = phase /\ switched' = switched
        /\ \E http, ssh : routers' = Append(routers, Placed(http, ssh))
        /\ Mergeable(d, spelled)
    BY <1>3, <1>5 DEF SynthesizeRouter
  <2>2. PICK http, ssh : routers' = Append(routers, Placed(http, ssh))
    BY <2>1
  <2>3. PICK r : routers' = Append(routers, r) /\ r = Placed(http, ssh)
    BY <2>2
  <2>4. /\ DOMAIN routers' = DOMAIN routers \cup {Len(routers) + 1}
        /\ Len(routers) + 1 \notin DOMAIN routers
        /\ \A k \in DOMAIN routers : routers'[k] = routers[k]
        /\ routers'[Len(routers) + 1] = r
    BY <2>3, OneMore DEF Typed
  <2>5. OwnPorts'
    <3> SUFFICES ASSUME ~crowded' PROVE OwnPorts'
      BY DEF OwnPorts
    <3>1. routers' # routers
      BY <2>4
    <3>2. PICK h \in Nat, s \in Nat :
            /\ h \notin taken /\ s \notin taken /\ h # s
            /\ taken' = taken \cup {h, s} /\ ~crowded
            /\ \E x : routers' = Append(routers, x) /\ x.ports = [http |-> h, ssh |-> s]
      BY <1>2, <3>1, FoundPorts DEF IInv
    <3>3. r.ports.http = h /\ r.ports.ssh = s
      <4>1. PICK x : routers' = Append(routers, x) /\ x.ports = [http |-> h, ssh |-> s]
        BY <3>2
      <4>2. x = r
        BY <2>4, <4>1, OneMore DEF Typed
      <4>3. QED
        BY <4>1, <4>2
    <3>4. \A a \in DOMAIN routers :
            routers[a].ports.http \in taken /\ routers[a].ports.ssh \in taken
      BY <1>2, <3>2 DEF IInv, OwnPorts
    <3>5. \A a, b \in DOMAIN routers :
            /\ routers[a].ports.http # routers[b].ports.ssh
            /\ a # b => /\ routers[a].ports.http # routers[b].ports.http
                       /\ routers[a].ports.ssh # routers[b].ports.ssh
      BY <1>2, <3>2 DEF IInv, OwnPorts
    <3>6. QED
      BY <2>4, <3>2, <3>3, <3>4, <3>5 DEF OwnPorts
  <2>6. FromAsked'
    <3>1. next \in Named
      BY <1>2, <1>5, SourceFacts DEF Named, Typed
    <3>2. /\ r.packages = Packages(d, asked) /\ r.fixtures = Fixtures(MergedFixtures(d, asked))
          /\ ValidFixtures(MergedFixtures(d, asked))
      <4> DEFINE own == [spelled EXCEPT !.ports = <<http.port, ssh.port>>]
      <4>1. /\ spelled.fixtures = asked.fixtures
            /\ own.packages = asked.packages /\ own.fixtures = asked.fixtures
        BY <1>3, Spelled
      <4>2. r = Merge(d, own, next - 1)
        BY <2>3
      <4> HIDE DEF d, asked, spelled, own
      <4>3. ValidFixtures(MergedFixtures(d, asked))
        BY <2>1, <4>1, SameLists
      <4>4. QED
        BY <4>1, <4>2, <4>3, SameLists
    <3>3. QED
      BY <1>2, <2>1, <2>3, <3>1, <3>2, NextAsked DEF IInv
  <2>7. QED
    BY <1>2, <2>1, <2>3, <2>5, <2>6, Merged
<1>6. QED
  BY <1>1, <1>4, <1>5

\* The end of the list.
LEMMA ValidateStep == ASSUME Typed, IInv, Validate PROVE Typed' /\ IInv'
<1>1. CASE Refuse
  BY <1>1, NoRouter, SameAsked DEF Refuse, IInv
<1>2. CASE ~Refuse
  BY <1>2, NoRouter, SameAsked DEF Validate, IInv
<1>3. QED
  BY <1>1, <1>2

\* A router that is switched is one of those that were merged.
LEMMA TarballStep == ASSUME Typed, IInv, UseTarball PROVE Typed' /\ IInv'
<1>1. switched' \subseteq DOMAIN routers
  BY DEF UseTarball, IInv
<1>2. QED
  BY <1>1, NoRouter, SameAsked DEF UseTarball, IInv

\* The next command begins as the first one did.
LEMMA RestartStep == ASSUME Typed, IInv, Restart PROVE Typed' /\ IInv'
<1>1. routers' \in Seq({}) /\ DOMAIN routers' = {} /\ source' = source
  BY DEF Restart
<1>2. next' \in 1..(Len(source'.routers) + 1)
  BY SourceFacts DEF Restart, Typed
<1>3. FromAsked'
  <2>1. source \in Sources /\ source' = source /\ next' = 1 /\ routers' = <<>>
    BY DEF Restart, Typed
  <2>2. Named' = Named
    BY <2>1 DEF Named
  <2>3. QED
    BY <2>1, <2>2, NothingAsked DEF FromAsked
<1>4. QED
  BY <1>1, <1>2, <1>3 DEF Restart, Typed, Listed, IInv, OwnPorts

\* The ports are apart, and what was merged is what was asked, at every step.
LEMMA RulesInductive == CRSpec => [](Typed /\ IInv)
<1>1. CRInit => Typed /\ IInv
  BY RulesInit
<1>2. ASSUME Typed, IInv, CRNext PROVE Typed' /\ IInv'
  BY <1>2, LoadStep, SynthesizeStep, ValidateStep, TarballStep, RestartStep DEF CRNext
<1>3. ASSUME Typed, IInv, UNCHANGED crVars PROVE Typed' /\ IInv'
  BY <1>3, NoRouter, SameAsked DEF crVars, Typed, IInv
<1>4. Typed /\ IInv /\ [CRNext]_crVars => (Typed /\ IInv)'
  BY <1>2, <1>3
<1>5. QED
  BY <1>1, <1>4, PTL DEF CRSpec

\* Routers that are accepted have ports of their own, and those made up for flags never
\* meet, of one kind or of two, wherever the ports begin and however many are tried.
THEOREM PortsProved == CRSpec => []PortsApart
<1>1. Typed /\ IInv => PortsApart
  <2> SUFFICES ASSUME Typed, IInv, NEW a \in DOMAIN routers, NEW b \in DOMAIN routers
               PROVE  /\ phase = "accepted" /\ a # b =>
                           /\ routers[a].ports.http # routers[b].ports.http
                           /\ routers[a].ports.ssh # routers[b].ports.ssh
                      /\ source.kind = "flags" /\ ~crowded =>
                           /\ routers[a].ports.http # routers[b].ports.ssh
                           /\ a # b => /\ routers[a].ports.http # routers[b].ports.http
                                      /\ routers[a].ports.ssh # routers[b].ports.ssh
    BY DEF PortsApart
  <2>1. a \in Nat /\ b \in Nat
    BY DEF Typed, Listed
  <2>2. a # b => a < b \/ b < a
    BY <2>1
  <2>3. QED
    BY <2>2 DEF IInv, OwnPorts, Valid
<1>2. QED
  BY <1>1, RulesInductive, PTL

\* The names of one router agree on its release.
LEMMA ReleaseFacts ==
  ASSUME NEW r, r.distro \in DOMAIN Distros, NEW hasNone \in BOOLEAN
  PROVE  OfOneRelease(r, hasNone)
<1> DEFINE image == BaseImage(r, hasNone)
           release == IF FeedBase(r)[1] = "snapshots" THEN "SNAPSHOT" ELSE FeedBase(r)[2]
           tag == IF r.release \in Snapshots THEN "master" ELSE r.release
<1>1. "SNAPSHOT" \in Snapshots /\ Distros[r.distro].force \in {"", "apk"}
  BY RulesAssumption
<1>2. release = IF r.release \in Snapshots THEN "SNAPSHOT" ELSE r.release
  BY DEF FeedBase, ReleaseDir, IsSnapshot
<1>3. release = "SNAPSHOT" <=> r.release \in Snapshots
  BY <1>1, <1>2
<1>4. VMImageName(r)[1] = release
  BY <1>2 DEF VMImageName, ArtifactVersion, IsSnapshot
<1>5. release = "SNAPSHOT" /\ r.manager = "" => PackageManager(r) = "apk"
  BY <1>1, <1>3 DEF PackageManager, PackageManagerFor
<1>6. tag = IF release = "SNAPSHOT" THEN "master" ELSE release
  BY <1>2, <1>3
<1>7. IF NamesItsImage(r, hasNone) THEN image = <<r.image>>
      ELSE \/ image = <<>> /\ FromTarball(r, hasNone)
           \/ image = <<Distros[r.distro].repo, r.arch, tag>> /\ ~FromTarball(r, hasNone)
  BY DEF BaseImage, FromTarball, IsSnapshot, NamesItsImage
<1>8. /\ FromTarball(r, hasNone) => Platform(r, hasNone) = Targets[r.arch].host
      /\ ~FromTarball(r, hasNone) => Platform(r, hasNone) = Targets[r.arch].oci
  BY DEF Platform
<1> HIDE DEF image, release, tag
<1>9. /\ hasNone => image = <<>>
      /\ image = <<>> => Platform(r, hasNone) = Targets[r.arch].host
      /\ IF NamesItsImage(r, hasNone) THEN image = <<r.image>>
         ELSE image = <<>> \/ (Platform(r, hasNone) = Targets[r.arch].oci /\ image[3] = tag)
  <2>1. hasNone => image = <<>>
    BY DEF image, BaseImage
  <2>2. CASE NamesItsImage(r, hasNone)
    <3>1. image = <<r.image>>
      BY <1>7, <2>2
    <3>2. image # <<>>
      BY <3>1
    <3>3. QED
      BY <2>1, <2>2, <3>1, <3>2
  <2>3. CASE ~NamesItsImage(r, hasNone) /\ image = <<>> /\ FromTarball(r, hasNone)
    BY <1>8, <2>3
  <2>4. CASE /\ ~NamesItsImage(r, hasNone) /\ ~FromTarball(r, hasNone)
             /\ image = <<Distros[r.distro].repo, r.arch, tag>>
    <3>1. image # <<>> /\ image[3] = tag
      BY <2>4
    <3>2. QED
      BY <1>8, <2>1, <2>4, <3>1
  <2>5. QED
    BY <1>7, <2>2, <2>3, <2>4
<1>10. QED
  BY <1>4, <1>5, <1>6, <1>9 DEF OfOneRelease, image, release

\* What owlab picks to build a router from, its VM image and its feeds are of one
\* release, for any releases, architectures and routers; an image that image: names is
\* used as it is, of whatever release.
THEOREM ReleaseProved == CRSpec => []OneRelease
<1>1. Typed /\ IInv => OneRelease
  <2> SUFFICES ASSUME IInv, phase = "accepted", NEW k \in DOMAIN routers
               PROVE  OfOneRelease(routers[k], k \in switched)
    BY DEF OneRelease
  <2>1. routers[k].distro \in DOMAIN Distros
    BY DEF IInv, Valid, Range
  <2>2. \A hasNone \in BOOLEAN : OfOneRelease(routers[k], hasNone)
    BY <2>1, ReleaseFacts
  <2>3. (k \in switched) \in BOOLEAN
    OBVIOUS
  <2>4. QED
    BY <2>2, <2>3
<1>2. QED
  BY <1>1, RulesInductive, PTL

-----------------------------------------------------------------------------
(* What the lists of owlab.yaml come to *)

\* A set of numbers that is not empty has a least one.
LEMMA Least ==
  ASSUME NEW T, T \subseteq Nat, T # {}
  PROVE  \E x \in T : \A y \in T : x <= y
<1>1. PICK x \in T : \A y \in T : ~ (<<y, x>> \in OpToRel(<, Nat))
  BY NatLessThanWellFounded, WFMin
<1>2. \A y \in T : ~ (y < x)
  BY <1>1 DEF OpToRel
<1>3. QED
  BY <1>2

\* The largest of some positions of a list, as the folds pick it.
LEMMA Largest ==
  ASSUME NEW n \in Nat, NEW T, T \subseteq 1..n, T # {}
  PROVE  Max(T) \in T /\ \A y \in T : y <= Max(T)
<1> DEFINE U == {n - y : y \in T}
<1>0. \A y \in T : y \in Int /\ n - y \in Nat
  <2> SUFFICES ASSUME NEW y \in T PROVE y \in Int /\ n - y \in Nat
    OBVIOUS
  <2>1. y \in 1..n
    OBVIOUS
  <2> HIDE DEF U
  <2>2. QED
    BY <2>1
<1>1. U \subseteq Nat /\ U # {}
  BY <1>0
<1>2. PICK u \in U : \A v \in U : u <= v
  BY <1>1, Least
<1>3. PICK x \in T : u = n - x
  OBVIOUS
<1>4. \A y \in T : x >= y
  <2> SUFFICES ASSUME NEW y \in T PROVE x >= y
    OBVIOUS
  <2>1. n - y \in U
    OBVIOUS
  <2>2. u <= n - y
    BY <1>2, <2>1
  <2>3. QED
    BY <1>3, <2>2
<1>5. Max(T) \in T /\ \A y \in T : Max(T) >= y
  BY <1>4 DEF Max
<1>6. ASSUME NEW y \in T PROVE y <= Max(T)
  <2>1. Max(T) \in Int /\ y \in Int
    BY <1>0, <1>5
  <2>2. Max(T) >= y
    BY <1>5, <1>6
  <2>3. QED
    BY <2>1, <2>2
<1>7. QED
  BY <1>5, <1>6

\* Two functions of the subsets of a finite set are one, if they agree on each that is
\* not empty as soon as they agree on it without one of its elements.
LEMMA SameBySteps ==
  ASSUME NEW S, IsFiniteSet(S), NEW f, NEW g, f[{}] = g[{}],
         \A s \in SUBSET S : s # {} => \E x \in s : f[s \ {x}] = g[s \ {x}] => f[s] = g[s]
  PROVE  f[S] = g[S]
<1> DEFINE Bad == {s \in SUBSET S : f[s] # g[s]}
           Sizes == {Cardinality(s) : s \in Bad}
<1>1. SUFFICES ASSUME Bad # {} PROVE FALSE
  OBVIOUS
<1>2. \A s \in SUBSET S : IsFiniteSet(s) /\ Cardinality(s) \in Nat
  BY FS_Subset, FS_CardinalityType
<1>3. Sizes \subseteq Nat /\ Sizes # {}
  BY <1>1, <1>2
<1>4. PICK n \in Sizes : \A m \in Sizes : n <= m
  BY <1>3, Least
<1>5. PICK s \in Bad : n = Cardinality(s)
  OBVIOUS
<1>6. PICK x \in s : f[s \ {x}] = g[s \ {x}] => f[s] = g[s]
  BY <1>5
<1>7. s \ {x} \in Bad
  BY <1>5, <1>6
<1>8. Cardinality(s \ {x}) = Cardinality(s) - 1
  BY <1>2, FS_RemoveElement
<1>9. Cardinality(s \ {x}) >= Cardinality(s)
  BY <1>4, <1>5, <1>7
<1>10. QED
  BY <1>2, <1>8, <1>9

\* What MergeList comes to once the entries at the positions of s were applied.
AppliedTo(def, list, s) ==
  {e \in ListEntries :
     LET about == {k \in s : list[k].name = e.name}
     IN IF e.sign = "" /\ about # {}
        THEN \E k \in about : list[k].sign # "-" /\ \A l \in about : l <= k
        ELSE e \in def}

\* An entry without a sign is its name.
LEMMA PlainEntry ==
  /\ \A n : Plain(n).sign = "" /\ Plain(n).name = n
  /\ \A e \in ListEntries : e.sign = "" => e = Plain(e.name)
<1>1. \A n : Plain(n).sign = "" /\ Plain(n).name = n
  BY DEF Plain
<1>2. ASSUME NEW e \in ListEntries, e.sign = "" PROVE e = Plain(e.name)
  <2>1. e = [sign |-> e.sign, name |-> e.name]
    BY DEF ListEntries
  <2>2. QED
    BY <1>2, <2>1, Zenon DEF Plain
<1>3. QED
  BY <1>1, <1>2

\* The last entry of s is the one whose word counts for its name, and no other name
\* notices it: what Applied does with it.
LEMMA OneEntry ==
  ASSUME NEW def, def \subseteq ListEntries, NEW list \in Seq(ListEntries),
         NEW s \in SUBSET (1..Len(list)), NEW x \in s, \A y \in s : y <= x
  PROVE  AppliedTo(def, list, s) = Applied(AppliedTo(def, list, s \ {x}), list[x])
<1> DEFINE About(t, e) == {k \in t : list[k].name = e.name}
           Kept(t, e) == \E k \in About(t, e) : list[k].sign # "-" /\ \A l \in About(t, e) : l <= k
<1>0. x \in 1..Len(list) /\ list[x] \in ListEntries
  OBVIOUS
<1>1. /\ list[x].sign \in {"", "+", "-"} /\ list[x].name \in STRING
      /\ Plain(list[x].name) \in ListEntries
  BY <1>0 DEF ListEntries, Plain
<1>2. SUFFICES ASSUME NEW e \in ListEntries
               PROVE  e \in AppliedTo(def, list, s)
                        <=> e \in Applied(AppliedTo(def, list, s \ {x}), list[x])
  BY <1>1 DEF AppliedTo, Applied
<1>3. \A t : e \in AppliedTo(def, list, t)
              <=> IF e.sign = "" /\ About(t, e) # {} THEN Kept(t, e) ELSE e \in def
  BY DEF AppliedTo
<1>4. e = Plain(list[x].name) <=> e.sign = "" /\ e.name = list[x].name
  BY PlainEntry
<1>5. CASE e = Plain(list[x].name)
  <2>1. x \in About(s, e) /\ e.sign = "" /\ \A l \in About(s, e) : l <= x
    BY <1>4, <1>5
  <2>2. Kept(s, e) => list[x].sign # "-"
    <3> SUFFICES ASSUME NEW k \in About(s, e), list[k].sign # "-", \A l \in About(s, e) : l <= k
                 PROVE  list[x].sign # "-"
      OBVIOUS
    <3>1. k <= x /\ x <= k
      BY <2>1
    <3>2. QED
      BY <3>1
  <2>3. list[x].sign # "-" => Kept(s, e)
    BY <2>1
  <2>4. e \in AppliedTo(def, list, s) <=> list[x].sign # "-"
    BY <1>3, <2>1, <2>2, <2>3
  <2>5. QED
    BY <1>5, <2>4 DEF Applied
<1>6. CASE e # Plain(list[x].name)
  <2>1. e.sign = "" => About(s, e) = About(s \ {x}, e)
    BY <1>4, <1>6
  <2>2. e \in AppliedTo(def, list, s) <=> e \in AppliedTo(def, list, s \ {x})
    BY <1>3, <2>1
  <2>3. QED
    BY <1>6, <2>2 DEF Applied
<1>7. QED
  BY <1>5, <1>6

\* The fold of MergeList has a closed form: the last entry about a name decides.
LEMMA Folded ==
  ASSUME NEW def, def \subseteq ListEntries, NEW list \in Seq(ListEntries)
  PROVE  FoldLeft(Applied, def, list) = AppliedTo(def, list, 1..Len(list))
<1> DEFINE S == DOMAIN list
           F(f) == [s \in SUBSET S |->
                      IF s = {} THEN def ELSE Applied(f[s \ {Max(s)}], list[Max(s)])]
           g == [s \in SUBSET S |-> AppliedTo(def, list, s)]
           f == CHOOSE h : h = F(h)
<1>1. S = 1..Len(list) /\ Len(list) \in Nat /\ IsFiniteSet(S)
  BY FS_Interval
<1>2. \A s \in SUBSET S : s # {} => Max(s) \in s /\ \A y \in s : y <= Max(s)
  BY <1>1, Largest
<1>3. AppliedTo(def, list, {}) = def
  BY DEF AppliedTo
<1>4. \A s \in SUBSET S : s # {} => g[s] = Applied(g[s \ {Max(s)}], list[Max(s)])
  BY <1>1, <1>2, OneEntry
<1>5. g = F(g)
  BY <1>3, <1>4
<1>6. f = F(f)
  BY <1>5
<1>7. f[{}] = g[{}]
  BY <1>3, <1>6
<1>8. \A s \in SUBSET S : s # {} => \E x \in s : f[s \ {x}] = g[s \ {x}] => f[s] = g[s]
  BY <1>2, <1>4, <1>6
<1>9. f[S] = g[S]
  <2> HIDE DEF f, g, S
  <2> QED
    BY <1>1, <1>7, <1>8, SameBySteps
<1>10. FoldLeft(Applied, def, list) = f[S]
  BY DEF FoldLeft, MapThenFoldSet
<1>11. QED
  BY <1>1, <1>9, <1>10

\* What a list says of a name is what its last entry about it says.
LEMMA MergedEntries ==
  ASSUME NEW def, def \subseteq ListEntries, NEW list \in Seq(ListEntries), NEW e
  PROVE  e \in MergeList(def, list) <=>
           IF list # <<>> /\ ~Signed(list) THEN e \in Range(list)
           ELSE e \in ListEntries /\
                IF e.sign = "" /\ Spoken(list, e.name) # {}
                THEN LastIsFor(list, e.name) ELSE e \in def
<1>1. CASE list = <<>>
  <2>1. Spoken(list, e.name) = {}
    BY <1>1 DEF Spoken
  <2>2. QED
    BY <1>1, <2>1 DEF MergeList
<1>2. CASE list # <<>> /\ ~Signed(list)
  BY <1>2 DEF MergeList
<1>3. CASE list # <<>> /\ Signed(list)
  <2>1. MergeList(def, list) = AppliedTo(def, list, DOMAIN list)
    BY <1>3, Folded DEF MergeList
  <2>2. QED
    BY <1>3, <2>1 DEF AppliedTo, Spoken, LastIsFor
<1>4. QED
  BY <1>1, <1>2, <1>3

\* As an operator, because a hypothesis that is a quantifier over entries misleads the
\* provers.
AllPlain(entries) == \A e \in entries : e.sign = ""

\* A list and its positions.
LEMMA Positions ==
  ASSUME NEW list \in Seq(ListEntries)
  PROVE  /\ DOMAIN list = 1..Len(list) /\ Len(list) \in Nat
         /\ list = <<>> => DOMAIN list = {}
         /\ \A k \in DOMAIN list : list[k] \in ListEntries /\ list[k] \in Range(list)
         /\ \A e \in Range(list) : \E k \in DOMAIN list : list[k] = e
BY DEF Range

\* No list puts an entry with a sign on into a plain one.
LEMMA MergedKind ==
  ASSUME NEW def, def \subseteq ListEntries, NEW list \in Seq(ListEntries)
  PROVE  /\ MergeList(def, list) \subseteq ListEntries
         /\ AllPlain(def) => AllPlain(MergeList(def, list))
<1>1. Range(list) \subseteq ListEntries
  BY DEF Range
<1>2. ~Signed(list) => \A e \in Range(list) : e.sign = ""
  BY DEF Signed, Range
<1>3. MergeList(def, list) \subseteq ListEntries
  BY <1>1, MergedEntries
<1>4. ASSUME AllPlain(def), NEW e \in MergeList(def, list) PROVE e.sign = ""
  BY <1>2, <1>4, MergedEntries DEF AllPlain
<1>5. QED
  BY <1>3, <1>4 DEF AllPlain

\* MergeList has the names Wanted says.
LEMMA MergedNames ==
  ASSUME NEW def, def \subseteq ListEntries, NEW list \in Seq(ListEntries),
         AllPlain(MergeList(def, list))
  PROVE  Names(MergeList(def, list)) = Wanted(list, Names(def))
<1> DEFINE below == Names(def)
           M == MergeList(def, list)
<1>1. \A e \in def : e.name \in below
  BY DEF Names
<1>2. \A n \in below : \E e \in def : e.name = n
  BY DEF Names
<1>0. /\ DOMAIN list = 1..Len(list) /\ Len(list) \in Nat
      /\ list = <<>> => DOMAIN list = {}
      /\ \A k \in DOMAIN list : list[k] \in ListEntries
  BY Positions
<1>3. \A k \in DOMAIN list : list[k] \in Range(list) /\ list[k].name \in Names(Range(list))
  BY Positions DEF Names
<1> HIDE DEF M
<1>4. Wanted(list, below) = {n \in below \cup Names(Range(list)) : Says(list, below, n)}
  BY DEF Wanted
<1>5. ASSUME NEW e \in M PROVE e.name \in Wanted(list, below)
  <2>1. CASE list # <<>> /\ ~Signed(list)
    <3>1. PICK k \in DOMAIN list : list[k] = e
      BY <2>1, <1>5, MergedEntries, Positions DEF M
    <3>2. LastIsFor(list, e.name)
      <4> DEFINE T == Spoken(list, e.name)
      <4>1. T \subseteq 1..Len(list) /\ T # {} /\ Len(list) \in Nat
        BY <1>0, <3>1 DEF Spoken
      <4>2. Max(T) \in T /\ \A y \in T : y <= Max(T)
        BY <4>1, Largest
      <4>3. list[Max(T)].sign # "-"
        BY <2>1, <4>2 DEF Signed, Spoken
      <4>4. QED
        BY <4>2, <4>3 DEF LastIsFor
    <3>3. QED
      BY <1>3, <1>4, <2>1, <3>1, <3>2 DEF Says
  <2>2. CASE ~(list # <<>> /\ ~Signed(list))
    <3>1. e \in ListEntries /\ e.sign = ""
      BY <1>5, MergedKind DEF M, AllPlain
    <3>2. IF Spoken(list, e.name) # {} THEN LastIsFor(list, e.name) ELSE e \in def
      BY <1>5, <2>2, <3>1, MergedEntries DEF M
    <3>3. Spoken(list, e.name) # {} => e.name \in Names(Range(list))
      BY <1>3 DEF Spoken
    <3>4. list = <<>> => Spoken(list, e.name) = {}
      BY <1>0 DEF Spoken
    <3>5. QED
      BY <1>1, <1>4, <2>2, <3>2, <3>3, <3>4 DEF Says
  <2>3. QED
    BY <2>1, <2>2
<1>6. ASSUME NEW n \in Wanted(list, below) PROVE \E e \in M : e.name = n
  <2>1. Says(list, below, n)
    BY <1>4, <1>6
  <2>2. ASSUME LastIsFor(list, n) PROVE Plain(n) \in ListEntries /\ Spoken(list, n) # {}
    <3>1. PICK k \in Spoken(list, n) : TRUE
      BY <2>2 DEF LastIsFor
    <3>2. list[k] \in ListEntries /\ list[k].name = n
      BY <1>0, <3>1 DEF Spoken
    <3>3. QED
      BY <3>1, <3>2 DEF ListEntries, Plain
  <2>3. CASE list # <<>> /\ ~Signed(list)
    <3>1. PICK k \in DOMAIN list : list[k].name = n
      BY <2>1, <2>3 DEF Says, LastIsFor, Spoken
    <3>2. list[k] \in M
      BY <1>3, <2>3, <3>1, MergedEntries DEF M
    <3>3. QED
      BY <3>1, <3>2
  <2>4. CASE ~(list # <<>> /\ ~Signed(list)) /\ Spoken(list, n) # {}
    <3>1. list # <<>> /\ Signed(list)
      BY <1>0, <2>4 DEF Spoken
    <3>2. LastIsFor(list, n)
      BY <2>1, <2>4, <3>1 DEF Says
    <3>3. PICK e \in ListEntries : e.sign = "" /\ e.name = n
      BY <2>2, <3>2, PlainEntry
    <3>4. e \in M
      BY <2>4, <3>1, <3>2, <3>3, MergedEntries DEF M
    <3>5. QED
      BY <3>3, <3>4
  <2>5. CASE ~(list # <<>> /\ ~Signed(list)) /\ Spoken(list, n) = {}
    <3>1. n \in below
      BY <2>1, <2>5 DEF Says
    <3>2. PICK e \in def : e.name = n
      BY <1>2, <3>1
    <3>3. e \in M
      BY <2>5, <3>2, MergedEntries DEF M
    <3>4. QED
      BY <3>2, <3>3
  <2>6. QED
    BY <2>3, <2>4, <2>5
<1>7. QED
  BY <1>5, <1>6 DEF Names, M

LEMMA FinitePair == \A a, b : IsFiniteSet({a, b})
<1>1. ASSUME NEW a, NEW b PROVE IsFiniteSet({a, b})
  <2>1. IsFiniteSet({a} \cup {b})
    BY FS_Singleton, FS_AddElement
  <2>2. {a} \cup {b} = {a, b}
    OBVIOUS
  <2>3. QED
    BY <2>1, <2>2
<1>2. QED
  BY <1>1

\* Profiles that were added one after the other are there with what they need, because
\* what they need needs nothing.
LEMMA AddedFixtures ==
  ASSUME NEW S, S \subseteq Profiles
  PROVE  FoldSet(AddFixture, {}, S) = S \cup UNION {Deps(a) : a \in S}
<1> DEFINE F(f) == [s \in SUBSET S |-> IF s = {} THEN {}
                      ELSE AddFixture(CHOOSE x \in s : TRUE, f[s \ {CHOOSE x \in s : TRUE}])]
           g == [s \in SUBSET S |-> s \cup UNION {Deps(a) : a \in s}]
           f == CHOOSE h : h = F(h)
<1>1. IsFiniteSet(S)
  <2>1. IsFiniteSet(Profiles)
    <3>1. IsFiniteSet({"networks", "clients"}) /\ IsFiniteSet({"wireguard", "portforwards"})
            /\ IsFiniteSet({"system", "wifi"})
      BY FinitePair
    <3>2. Profiles = ({"networks", "clients"} \cup {"wireguard", "portforwards"})
                       \cup {"system", "wifi"}
      BY DEF Profiles
    <3>3. QED
      BY <3>1, <3>2, FS_Union
  <2>2. QED
    BY <2>1, FS_Subset
<1>2. ASSUME NEW s \in SUBSET S, NEW x \in s PROVE g[s] = AddFixture(x, g[s \ {x}])
  <2>1. g[s] = g[s \ {x}] \cup {x} \cup Deps(x)
    OBVIOUS
  <2>2. x \in g[s \ {x}] => x = "networks"
    BY DEF Deps
  <2>3. Deps("networks") = {}
    BY DEF Deps
  <2> HIDE DEF g
  <2>4. QED
    BY <2>1, <2>2, <2>3 DEF AddFixture
<1>3. g = F(g)
  BY <1>2
<1>4. f = F(f)
  BY <1>3
<1> HIDE DEF f
<1>5. f[{}] = g[{}]
  BY <1>4
<1>6. ASSUME NEW s \in SUBSET S, s # {}
      PROVE  \E x \in s : f[s \ {x}] = g[s \ {x}] => f[s] = g[s]
  <2> DEFINE x == CHOOSE y \in s : TRUE
  <2>1. x \in s
    BY <1>6
  <2>2. f[s] = AddFixture(x, f[s \ {x}])
    BY <1>4, <1>6
  <2> HIDE DEF x, g
  <2>3. QED
    BY <1>2, <2>1, <2>2
<1>7. f[S] = g[S]
  <2> HIDE DEF g
  <2> QED
    BY <1>1, <1>5, <1>6, SameBySteps
<1>8. FoldSet(AddFixture, {}, S) = f[S]
  BY DEF FoldSet, MapThenFoldSet, f
<1>9. QED
  BY <1>7, <1>8

\* What stands in a list of S is of S.
LEMMA ListedElements == ASSUME NEW S, NEW list \in Seq(S) PROVE Range(list) \subseteq S
BY DEF Range

\* The fixtures of a router that was merged.
LEMMA ListedFixtures ==
  ASSUME NEW d \in Written, NEW r \in Written, ValidFixtures(MergedFixtures(d, r))
  PROVE  FixturesAsAsked(d, r, Fixtures(MergedFixtures(d, r)))
<1> DEFINE M == MergedFixtures(d, r)
           wanted == IF M = {} THEN {"lived-in"} ELSE Names(M)
           asked == UNION {Resolved(w) : w \in wanted}
           has == Fixtures(M)
<1>1. d.fixtures \in Seq(ListEntries) /\ r.fixtures \in Seq(ListEntries)
  BY DEF Written
<1>2. Range(d.fixtures) \subseteq ListEntries /\ AllPlain(M)
  <2>1. Range(d.fixtures) \subseteq ListEntries
    BY <1>1, ListedElements
  <2>2. AllPlain(M)
    BY DEF ValidFixtures, AllPlain
  <2>3. QED
    BY <2>1, <2>2
<1>3. Names(M) = Wanted(r.fixtures, Names(Range(d.fixtures)))
  BY <1>1, <1>2, MergedNames DEF MergedFixtures
<1>4. M = {} <=> Names(M) = {}
  BY DEF Names
<1>5. has = ExpandFixtures(wanted)
  BY DEF Fixtures, DefaultFixtures
<1>6. "none" \notin wanted => asked \subseteq Profiles
  <2>1. wanted \subseteq Profiles \cup {"lived-in", "all", "none"}
    BY DEF ValidFixtures, Names
  <2>2. \A w \in Profiles \cup {"lived-in", "all"} : Resolved(w) \subseteq Profiles
    BY DEF Resolved, Aliases, Profiles
  <2>3. QED
    BY <2>1, <2>2
<1>7. "none" \notin wanted => has = asked \cup UNION {Deps(a) : a \in asked}
  BY <1>5, <1>6, AddedFixtures DEF ExpandFixtures
<1>8. "none" \in wanted => has = {}
  BY <1>5 DEF ExpandFixtures
<1>9. \A a : \A f \in Deps(a) : Deps(f) = {}
  BY DEF Deps
<1> HIDE DEF M, has
<1>10. "none" \notin wanted => \A f \in has : Deps(f) \subseteq has
  BY <1>7, <1>9
<1>11. wanted = IF Wanted(r.fixtures, Names(Range(d.fixtures))) = {} THEN {"lived-in"}
                ELSE Wanted(r.fixtures, Names(Range(d.fixtures)))
  BY <1>3, <1>4
<1> HIDE DEF wanted
<1>12. QED
  BY <1>7, <1>8, <1>10, <1>11 DEF FixturesAsAsked, has, M

\* The packages of a router that was merged.
LEMMA ListedPackages ==
  ASSUME NEW d \in Written, NEW r \in Written
  PROVE  PackagesAsAsked(d, r, Packages(d, r))
<1> DEFINE below == MergeList(Range(Stock), d.packages)
<1>1. d.packages \in Seq(ListEntries) /\ r.packages \in Seq(ListEntries)
  BY DEF Written
<1>2. Range(Stock) \subseteq ListEntries /\ AllPlain(Range(Stock))
  <2> DEFINE P == {e \in ListEntries : e.sign = ""}
  <2>1. Stock \in Seq(P)
    BY RulesAssumption
  <2>2. P \subseteq ListEntries /\ AllPlain(P)
    BY DEF AllPlain
  <2> HIDE DEF P
  <2>3. Range(Stock) \subseteq P
    BY <2>1, ListedElements
  <2>4. QED
    BY <2>2, <2>3 DEF AllPlain
<1>3. below \subseteq ListEntries /\ AllPlain(below)
  BY <1>1, <1>2, MergedKind
<1>4. Names(below) = Wanted(d.packages, Names(Range(Stock)))
  BY <1>1, <1>2, <1>3, MergedNames
<1>5. AllPlain(MergeList(below, r.packages))
  BY <1>1, <1>3, MergedKind
<1>6. Names(MergeList(below, r.packages)) = Wanted(r.packages, Names(below))
  BY <1>1, <1>3, <1>5, MergedNames
<1>7. QED
  BY <1>4, <1>6 DEF Packages, PackagesAsAsked

\* For lists of any length: the packages of a router are those the last list that speaks
\* of one wants, and its fixtures those its lists ask for, with what they need.
THEOREM ListsProved == CRSpec => []ListsAsAsked
<1>1. Typed /\ IInv => ListsAsAsked
  <2> SUFFICES ASSUME Typed, IInv, NEW k \in DOMAIN routers
               PROVE  /\ PackagesAsAsked(source.defaults, Asked(k), routers[k].packages)
                      /\ FixturesAsAsked(source.defaults, Asked(k), routers[k].fixtures)
    BY DEF ListsAsAsked
  <2> DEFINE d == source.defaults
  <2>1. PICK j \in Named :
          /\ k = Cardinality({q \in Named : q <= j})
          /\ ValidFixtures(MergedFixtures(d, source.routers[j]))
          /\ routers[k].packages = Packages(d, source.routers[j])
          /\ routers[k].fixtures = Fixtures(MergedFixtures(d, source.routers[j]))
    BY DEF IInv, FromAsked
  <2>2. Asked(k) = source.routers[j]
    BY <2>1, AskedIs DEF Typed
  <2>3. d \in Written /\ source.routers[j] \in Written
    <3>1. source \in [kind : {"file", "flags"}, defaults : Written, routers : Seq(Written)]
      BY RulesAssumption DEF Typed
    <3>2. QED
      BY <3>1, NamedFacts DEF Typed
  <2> HIDE DEF d
  <2>4. QED
    BY <2>1, <2>2, <2>3, ListedPackages, ListedFixtures DEF d
<1>2. QED
  BY <1>1, RulesInductive, PTL

=============================================================================
