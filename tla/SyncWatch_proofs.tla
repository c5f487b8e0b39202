-------------------------- MODULE SyncWatch_proofs --------------------------
(***************************************************************************)
(* Proofs about SyncWatch, for any files, routers and number of edits:     *)
(* what a router that is reported ok holds, and what an idle watch has     *)
(* pushed.                                                                 *)
(***************************************************************************)
EXTENDS SyncWatch, TLAPS

-----------------------------------------------------------------------------
(* Types *)

LEMMA RouterFacts ==
  /\ Len(Routers) \in Nat /\ 1 <= Len(Routers)
  /\ \A i \in 1..Len(Routers) : Routers[i] \in Router
BY WatchAssumption DEF Router

LEMMA TreeFacts ==
  /\ Nowhere \in Tree /\ 1 \in Version /\ 0 \in Version
  /\ \A old, new \in Tree : Extracted(old, new) \in Tree
BY WatchAssumption DEF Nowhere, Tree, Version, Absent, Extracted

\* The router that is pushed to is one there is.
AtRouter == pc \in {"extract", "postsync", "reload"} => k \in 1..Len(Routers)

Typed == TypeOK /\ AtRouter

LEMMA SnapshotType == TypeOK => Snapshot \in Snapshots
BY DEF TypeOK, Snapshot, Snapshots

LEMMA NextRouterType ==
  ASSUME TypeOK, k \in 1..Len(Routers), NEW result \in {"ok", "failed"}, NextRouter(result)
  PROVE  /\ res' \in [Router -> {"ok", "failed"}]
         /\ k' \in 1..Len(Routers) + 1 /\ k' = k + 1
         /\ \/ pc' = "extract" /\ k' \in 1..Len(Routers)
            \/ pc' = "after" /\ k = Len(Routers)
BY RouterFacts DEF NextRouter, TypeOK

LEMMA TypedHolds == Spec => []Typed
<1> USE DEF Typed
<1>1. Init => Typed
  <2> SUFFICES ASSUME Init PROVE TypeOK /\ AtRouter
    OBVIOUS
  <2>1. src \in Tree
    BY TreeFacts DEF Init, Tree, Version, Absent
  <2>2. gen \in [build : BOOLEAN, from : Tree, mtime : 0..1]
    BY TreeFacts DEF Init
  <2>3. last \in Snapshots /\ now \in Snapshots
    BY <2>1, <2>2 DEF Init, Snapshot, Snapshots
  <2>4. QED
    <3>1. 1 \in Version /\ k \in 1..Len(Routers) + 1
      BY TreeFacts, RouterFacts DEF Init
    <3>2. archive \in [src : Tree, gen : Tree] /\ rtr \in [Router -> [src : Tree, gen : Tree]]
      BY TreeFacts DEF Init
    <3>3. res \in [Router -> {"ok", "failed"}] /\ fresh \in [Router -> BOOLEAN]
      BY DEF Init
    <3>4. pc = "build" /\ first = TRUE /\ missed = FALSE /\ edits = 1
      BY DEF Init
    <3>5. QED
      BY <2>1, <2>2, <2>3, <3>1, <3>2, <3>3, <3>4 DEF TypeOK, AtRouter, Running
<1>2. Typed /\ [Next]_vars => Typed'
  <2> SUFFICES ASSUME TypeOK, AtRouter, [Next]_vars PROVE TypeOK' /\ AtRouter'
    OBVIOUS
  <2>1. ASSUME NEW f \in Sources, Write(f) \/ Remove(f)
        PROVE  src' \in Tree /\ edits' \in Version /\ missed' \in BOOLEAN
    <3>1. edits + 1 \in Version
      BY <2>1, WatchAssumption DEF Write, Remove, TypeOK, Version
    <3>2. src' \in Tree /\ edits' \in Version
      <4>1. src \in [Sources -> Version] /\ 0 \in Version
        BY TreeFacts DEF TypeOK, Tree
      <4>2. edits' = edits + 1
            /\ (src' = [src EXCEPT ![f] = 0] \/ src' = [src EXCEPT ![f] = edits + 1])
        BY <2>1 DEF Write, Remove, Absent
      <4>3. QED
        BY <3>1, <4>1, <4>2 DEF Tree
    <3>3. missed' \in BOOLEAN
      BY <2>1, Zenon DEF Write, Remove, TypeOK
    <3>4. QED
      BY <3>2, <3>3
  <2>2. ASSUME NEW f \in Sources, Edit(f) PROVE TypeOK' /\ AtRouter'
    <3>1. src' \in Tree /\ edits' \in Version /\ missed' \in BOOLEAN
      BY <2>1, <2>2 DEF Edit
    <3>2. QED
      BY <2>2, <3>1 DEF Edit, TypeOK, AtRouter, routerVars
  <2>3. CASE Build
    <3>1. gen' \in [build : BOOLEAN, from : Tree, mtime : 0..1]
      <4>1. \A g \in [build : BOOLEAN, from : Tree, mtime : 0..1] :
              [g EXCEPT !.mtime = 1 - @] \in [build : BOOLEAN, from : Tree, mtime : 0..1]
        <5> TAKE g \in [build : BOOLEAN, from : Tree, mtime : 0..1]
        <5>1. 1 - g.mtime \in 0..1
          OBVIOUS
        <5>2. QED
          BY <5>1
      <4>2. [gen EXCEPT !.from = src, !.mtime = 1 - @] \in [build : BOOLEAN, from : Tree, mtime : 0..1]
        <5>1. 1 - gen.mtime \in 0..1
          BY DEF TypeOK
        <5>2. QED
          BY <5>1 DEF TypeOK
      <4>3. QED
        BY <2>3, <4>1, <4>2 DEF Build, TypeOK
    <3>2. res' \in [Router -> {"ok", "failed"}]
      BY <2>3 DEF Build, TypeOK, AllFailed
    <3>3. pc' \in {"archive", "after"}
      BY <2>3 DEF Build
    <3>4. QED
      BY <2>3, <3>1, <3>2, <3>3 DEF Build, TypeOK, AtRouter, Running, routerVars
  <2>4. CASE BuildArchive
    <3>1. archive' \in [src : Tree, gen : Tree]
      BY <2>4 DEF BuildArchive, TypeOK
    <3>2. res' \in [Router -> {"ok", "failed"}]
      BY <2>4 DEF BuildArchive, TypeOK, AllFailed
    <3>3. \/ pc' = "extract" /\ k' = 1
          \/ pc' = "after" /\ k' = k
      BY <2>4 DEF BuildArchive
    <3>4. QED
      BY <2>4, <3>1, <3>2, <3>3, RouterFacts
         DEF BuildArchive, TypeOK, AtRouter, Running, treeVars, routerVars
  <2>5. CASE Extract
    <3>1. k \in 1..Len(Routers) /\ Routers[k] \in Router
      BY <2>5, RouterFacts DEF Extract, AtRouter
    <3>2. CASE /\ pc' = "postsync"
               /\ rtr' = [rtr EXCEPT ![Routers[k]].src = Extracted(@, archive.src),
                                     ![Routers[k]].gen = IF HasBuild THEN archive.gen ELSE @]
               /\ fresh' = [fresh EXCEPT ![Routers[k]] = FALSE]
               /\ UNCHANGED <<res, k>>
      <4>1. rtr' \in [Router -> [src : Tree, gen : Tree]]
        <5>1. rtr[Routers[k]] \in [src : Tree, gen : Tree] /\ archive \in [src : Tree, gen : Tree]
          BY <3>1 DEF TypeOK
        <5>2. Extracted(rtr[Routers[k]].src, archive.src) \in Tree
          BY <5>1, TreeFacts
        <5>3. QED
          BY <3>1, <3>2, <5>1, <5>2 DEF TypeOK
      <4>2. QED
        BY <2>5, <3>1, <3>2, <4>1 DEF Extract, TypeOK, AtRouter, Running, treeVars
    <3>3. CASE \E got \in SUBSET Sources :
                 /\ rtr' = [rtr EXCEPT ![Routers[k]].src =
                              [f \in Sources |-> IF f \in got THEN Extracted(@, archive.src)[f]
                                                ELSE @[f]]]
                 /\ fresh' = [fresh EXCEPT ![Routers[k]] = @ /\ rtr' = rtr]
                 /\ NextRouter("failed")
      <4>1. PICK got \in SUBSET Sources :
              rtr' = [rtr EXCEPT ![Routers[k]].src =
                        [f \in Sources |-> IF f \in got THEN Extracted(@, archive.src)[f]
                                          ELSE @[f]]]
        BY <3>3
      <4>2. rtr[Routers[k]] \in [src : Tree, gen : Tree] /\ archive \in [src : Tree, gen : Tree]
        BY <3>1 DEF TypeOK
      <4>3. Extracted(rtr[Routers[k]].src, archive.src) \in Tree
        BY <4>2, TreeFacts
      <4>4. [f \in Sources |-> IF f \in got THEN Extracted(rtr[Routers[k]].src, archive.src)[f]
                              ELSE rtr[Routers[k]].src[f]] \in Tree
        BY <4>2, <4>3 DEF Tree
      <4>5. rtr' \in [Router -> [src : Tree, gen : Tree]]
        BY <3>1, <4>1, <4>2, <4>4 DEF TypeOK
      <4>6. fresh' \in [Router -> BOOLEAN]
        <5>1. (fresh[Routers[k]] /\ rtr' = rtr) \in BOOLEAN
          OBVIOUS
        <5>2. QED
          BY <3>1, <3>3, <5>1, Zenon DEF TypeOK
      <4>7. QED
        BY <2>5, <3>1, <3>3, <4>5, <4>6, NextRouterType
           DEF Extract, TypeOK, AtRouter, Running, treeVars
    <3>4. QED
      BY <2>5, <3>2, <3>3 DEF Extract
  <2>6. CASE PostSync
    <3>1. k \in 1..Len(Routers)
      BY <2>6 DEF PostSync, AtRouter
    <3>2. QED
      BY <2>6, <3>1, NextRouterType
         DEF PostSync, TypeOK, AtRouter, Running, treeVars, routerVars
  <2>7. CASE Reload
    <3>1. k \in 1..Len(Routers) /\ Routers[k] \in Router
      BY <2>7, RouterFacts DEF Reload, AtRouter
    <3>2. fresh' \in [Router -> BOOLEAN]
      BY <2>7 DEF Reload, TypeOK
    <3>3. QED
      BY <2>7, <3>1, <3>2, NextRouterType DEF Reload, TypeOK, AtRouter, Running, treeVars
  <2>8. CASE After
    <3>1. pc' \in {"wait", "done"} /\ first' = FALSE /\ last' \in {last, now, Snapshot}
      BY <2>8 DEF After
    <3>2. src' \in Tree /\ edits' \in Version /\ missed' \in BOOLEAN
      BY <2>1, <2>8 DEF After, TypeOK
    <3>3. last' \in Snapshots
      BY <3>1, SnapshotType DEF TypeOK
    <3>4. QED
      BY <2>8, <3>1, <3>2, <3>3 DEF After, TypeOK, AtRouter, routerVars
  <2>9. CASE Poll
    BY <2>9, SnapshotType DEF Poll, TypeOK, AtRouter, Running, treeVars, routerVars
  <2>10. CASE Stop
    BY <2>10 DEF Stop, TypeOK, AtRouter, treeVars, routerVars
  <2>11. CASE UNCHANGED vars
    BY <2>11 DEF vars, TypeOK, AtRouter
  <2>12. QED
    BY <2>2, <2>3, <2>4, <2>5, <2>6, <2>7, <2>8, <2>9, <2>10, <2>11 DEF Next, Sync
<1>3. QED
  BY <1>1, <1>2, PTL DEF Spec

\* The type invariant, for any files, routers and edits: the push never goes past the
\* last router, and every result is one of the two.
THEOREM TypeCorrect == Spec => []TypeOK
<1>1. Typed => TypeOK
  BY DEF Typed
<1>2. QED
  BY <1>1, TypedHolds, PTL

-----------------------------------------------------------------------------
(* What a run reports *)

\* r took the files of this run's archive, and then dropped LuCI's caches too.
Took(r) == Holds(r, archive.src) /\ (HasBuild => rtr[r].gen = archive.gen)
Synced(r) == Took(r) /\ fresh[r]

DoneBefore(r) == \E j \in 1..(k - 1) : Routers[j] = r

\* A router that was pushed to in this run and is reported ok is synced. The
\* results of the routers that are still to come are of the run before.
ResultsInv ==
  /\ pc = "extract" => \A r \in Router : DoneBefore(r) /\ res[r] = "ok" => Synced(r)
  /\ pc \in {"postsync", "reload"} =>
       /\ \A r \in Router : DoneBefore(r) /\ res[r] = "ok" /\ r # Routers[k] => Synced(r)
       /\ Took(Routers[k])
  /\ pc = "after" => \A r \in Router : res[r] = "ok" => Synced(r)

LEMMA NextRouterDone ==
  ASSUME TypeOK, k \in 1..Len(Routers), NEW result \in {"ok", "failed"}, NextRouter(result),
         \A r \in Router : DoneBefore(r) /\ res[r] = "ok" /\ r # Routers[k] => Synced(r)',
         \A r \in Router : r = Routers[k] /\ result = "ok" => Synced(r)'
  PROVE  ResultsInv'
<1>1. k' = k + 1 /\ k \in Nat /\ Routers[k] \in Router
  BY RouterFacts DEF NextRouter
<1>2. \/ pc' = "extract"
      \/ pc' = "after" /\ k = Len(Routers)
  BY NextRouterType
<1>3. ASSUME NEW r \in Router, DoneBefore(r)', res'[r] = "ok" PROVE Synced(r)'
  <2>1. CASE r = Routers[k]
    <3>1. res'[r] = result
      BY <1>1, <2>1 DEF NextRouter, TypeOK
    <3>2. QED
      BY <1>3, <2>1, <3>1
  <2>2. CASE r # Routers[k]
    <3>1. res[r] = "ok"
      BY <1>3, <2>2 DEF NextRouter, TypeOK
    <3>2. PICK j \in 1..(k' - 1) : Routers[j] = r
      BY <1>3 DEF DoneBefore
    <3>3. j \in 1..(k - 1)
      BY <1>1, <2>2, <3>2
    <3>4. DoneBefore(r)
      BY <3>2, <3>3 DEF DoneBefore
    <3>5. QED
      BY <2>2, <3>1, <3>4
  <2>3. QED
    BY <2>1, <2>2
<1>4. ASSUME k = Len(Routers), NEW r \in Router PROVE DoneBefore(r)'
  <2>1. PICK i \in 1..Len(Routers) : r = Routers[i]
    BY <1>4 DEF Router
  <2>2. i \in 1..(k' - 1)
    BY <1>1, <1>4, <2>1
  <2>3. QED
    BY <2>1, <2>2 DEF DoneBefore
<1>5. QED
  BY <1>2, <1>3, <1>4 DEF ResultsInv

\* A step that changes neither the archive nor r's files leaves what r took.
LEMMA SyncedStays ==
  ASSUME NEW r \in Router, Synced(r), archive' = archive, gen'.build = gen.build,
         rtr'[r] = rtr[r], fresh'[r] = fresh[r]
  PROVE  Synced(r)'
BY DEF Synced, Took, Holds, HasBuild

LEMMA BuildStays == ASSUME TypeOK, [Next]_vars PROVE gen'.build = gen.build
<1>1. CASE Build
  BY <1>1 DEF Build, TypeOK
<1>2. CASE UNCHANGED gen
  BY <1>2
<1>3. QED
  BY <1>1, <1>2 DEF Next, Sync, Edit, BuildArchive, Extract, PostSync, Reload, After, Poll, Stop,
                    treeVars, vars

LEMMA ResultsHold == Spec => []ResultsInv
<1>1. Init => ResultsInv
  BY DEF Init, ResultsInv
<1>2. Typed /\ Typed' /\ ResultsInv /\ [Next]_vars => ResultsInv'
  <2> SUFFICES ASSUME TypeOK, AtRouter, TypeOK', ResultsInv, [Next]_vars PROVE ResultsInv'
    BY DEF Typed
  <2>1. gen'.build = gen.build
    BY BuildStays
  <2>2. ASSUME UNCHANGED <<pc, archive, k, res, rtr, fresh>> PROVE ResultsInv'
    BY <2>1, <2>2 DEF ResultsInv, Synced, Took, Holds, HasBuild, DoneBefore
  <2>3. CASE \E f \in Sources : Edit(f)
    BY <2>2, <2>3 DEF Edit, routerVars
  <2>4. CASE Build
    <3>1. pc' = "archive" \/ (pc' = "after" /\ res' = AllFailed)
      BY <2>4 DEF Build
    <3>2. QED
      BY <3>1 DEF ResultsInv, AllFailed
  <2>5. CASE BuildArchive
    <3>1. \/ pc' = "extract" /\ k' = 1
          \/ pc' = "after" /\ res' = AllFailed
      BY <2>5 DEF BuildArchive
    <3>2. ASSUME NEW r \in Router, k' = 1 PROVE ~DoneBefore(r)'
      BY <3>2 DEF DoneBefore
    <3>3. QED
      BY <3>1, <3>2 DEF ResultsInv, AllFailed
  <2>6. CASE Extract
    <3>1. k \in 1..Len(Routers) /\ Routers[k] \in Router
      BY <2>6, RouterFacts DEF Extract, AtRouter
    <3>2. ASSUME NEW r \in Router, r # Routers[k]
          PROVE  rtr'[r] = rtr[r] /\ fresh'[r] = fresh[r]
      <4>1. /\ \E got : rtr' = [rtr EXCEPT ![Routers[k]] = got]
            /\ \E got : fresh' = [fresh EXCEPT ![Routers[k]] = got]
        BY <2>6 DEF Extract
      <4>2. QED
        BY <3>1, <3>2, <4>1 DEF TypeOK
    <3>3. archive' = archive
      BY <2>6 DEF Extract
    <3>4. \A r \in Router : DoneBefore(r) /\ res[r] = "ok" /\ r # Routers[k] => Synced(r)'
      <4>1. \A r \in Router : DoneBefore(r) /\ res[r] = "ok" => Synced(r)
        BY <2>6 DEF Extract, ResultsInv
      <4>2. QED
        BY <2>1, <3>2, <3>3, <4>1, SyncedStays
    <3>5. CASE NextRouter("failed")
      BY <3>1, <3>4, <3>5, NextRouterDone
    <3>6. CASE /\ pc' = "postsync"
               /\ rtr' = [rtr EXCEPT ![Routers[k]].src = Extracted(@, archive.src),
                                     ![Routers[k]].gen = IF HasBuild THEN archive.gen ELSE @]
               /\ UNCHANGED <<res, k>>
      <4>1. rtr[Routers[k]] \in [src : Tree, gen : Tree]
        BY <3>1 DEF TypeOK
      <4>2. /\ rtr'[Routers[k]].src = Extracted(rtr[Routers[k]].src, archive.src)
            /\ HasBuild => rtr'[Routers[k]].gen = archive.gen
        BY <3>1, <3>6, <4>1 DEF TypeOK
      <4>3. Took(Routers[k])'
        BY <2>1, <3>3, <3>6, <4>2 DEF Took, Holds, HasBuild, Extracted
      <4>4. QED
        BY <3>4, <3>6, <4>3 DEF ResultsInv, DoneBefore
    <3>7. QED
      BY <2>6, <3>5, <3>6 DEF Extract
  <2>7. CASE PostSync
    <3>1. k \in 1..Len(Routers) /\ Routers[k] \in Router
      BY <2>7, RouterFacts DEF PostSync, AtRouter
    <3>2. UNCHANGED <<archive, rtr, fresh>>
      BY <2>7 DEF PostSync, routerVars
    <3>3. CASE NextRouter("failed")
      <4>1. \A r \in Router : DoneBefore(r) /\ res[r] = "ok" /\ r # Routers[k] => Synced(r)
        BY <2>7 DEF PostSync, ResultsInv
      <4>2. \A r \in Router : DoneBefore(r) /\ res[r] = "ok" /\ r # Routers[k] => Synced(r)'
        BY <2>1, <3>2, <4>1, SyncedStays
      <4>3. QED
        BY <3>1, <3>3, <4>2, NextRouterDone
    <3>4. CASE pc' = "reload" /\ UNCHANGED <<res, k>>
      BY <2>1, <2>7, <3>2, <3>4
         DEF PostSync, ResultsInv, Synced, Took, Holds, HasBuild, DoneBefore
    <3>5. QED
      BY <2>7, <3>3, <3>4 DEF PostSync
  <2>8. CASE Reload
    <3>1. k \in 1..Len(Routers) /\ Routers[k] \in Router
      BY <2>8, RouterFacts DEF Reload, AtRouter
    <3>2. UNCHANGED <<archive, rtr>>
      BY <2>8 DEF Reload
    <3>3. \A r \in Router : r # Routers[k] => fresh'[r] = fresh[r]
      BY <2>8, <3>1 DEF Reload, TypeOK
    <3>4. \A r \in Router : DoneBefore(r) /\ res[r] = "ok" /\ r # Routers[k] => Synced(r)'
      <4>1. \A r \in Router : DoneBefore(r) /\ res[r] = "ok" /\ r # Routers[k] => Synced(r)
        BY <2>8 DEF Reload, ResultsInv
      <4>2. QED
        BY <2>1, <3>2, <3>3, <4>1, SyncedStays
    <3>5. CASE NextRouter("ok") /\ fresh' = [fresh EXCEPT ![Routers[k]] = TRUE]
      <4>1. Took(Routers[k])
        BY <2>8 DEF Reload, ResultsInv
      <4>2. \A r \in Router : r = Routers[k] => Synced(r)'
        BY <2>1, <3>1, <3>2, <3>5, <4>1 DEF Synced, Took, Holds, HasBuild, TypeOK
      <4>3. QED
        BY <3>1, <3>4, <3>5, <4>2, NextRouterDone
    <3>6. CASE NextRouter("failed")
      BY <3>1, <3>4, <3>6, NextRouterDone
    <3>7. QED
      BY <2>8, <3>5, <3>6 DEF Reload
  <2>9. CASE After \/ Poll \/ Stop
    <3>1. pc' \in {"wait", "done", "build"}
      BY <2>9 DEF After, Poll, Stop
    <3>2. QED
      BY <3>1 DEF ResultsInv
  <2>10. CASE UNCHANGED vars
    BY <2>2, <2>10 DEF vars
  <2>11. QED
    BY <2>3, <2>4, <2>5, <2>6, <2>7, <2>8, <2>9, <2>10 DEF Next, Sync
<1>3. QED
  BY <1>1, <1>2, TypedHolds, PTL DEF Spec

\* A router that a run reports ok holds that run's archive and serves it,
\* whatever happened on the routers before and after it.
THEOREM ReportsProved == Spec => ReportedPerRouter
<1>1. ResultsInv' /\ [Next]_vars
      => [(pc \in Running) /\ pc' = "after" =>
            \A r \in Router : res'[r] = "ok" =>
              /\ \A f \in Sources : archive'.src[f] # Absent => rtr'[r].src[f] = archive'.src[f]
              /\ fresh'[r]]_vars
  BY DEF ResultsInv, Synced, Took, Holds
<1>2. QED
  BY <1>1, ResultsHold, PTL DEF Spec, ReportedPerRouter

-----------------------------------------------------------------------------
(* What an idle watch has pushed *)

OfTheTree == archive.src = src /\ (HasBuild => archive.gen = src /\ gen.from = src)

\* The routers that were reported ok hold the tree of the last snapshot.
OfTheSnapshot(r) ==
  /\ Holds(r, last.src) /\ fresh[r]
  /\ HasBuild => rtr[r].gen = last.src /\ last.gen = last.src

\* Unless an edit fell into the run: the build is of the tree, then the archive
\* is, and then the snapshot that the next poll is compared with.
UnmissedInv ==
  ~missed =>
    /\ pc = "archive" /\ HasBuild => gen.from = src
    /\ pc \in {"extract", "postsync", "reload"} => OfTheTree
    /\ pc = "after" /\ (\E r \in Router : res[r] = "ok") => OfTheTree
    /\ pc = "wait" => \A r \in Router : res[r] = "ok" => OfTheSnapshot(r)

LEMMA UnmissedHolds == Spec => []UnmissedInv
<1>1. Init => UnmissedInv
  BY DEF Init, UnmissedInv
<1>2. Typed /\ ResultsInv /\ UnmissedInv /\ [Next]_vars => UnmissedInv'
  <2> SUFFICES ASSUME TypeOK, AtRouter, ResultsInv, UnmissedInv, [Next]_vars, ~missed'
               PROVE  UnmissedInv'
    BY DEF Typed, UnmissedInv
  <2>1. gen'.build = gen.build
    BY BuildStays
  <2>2. ASSUME NEW f \in Sources, Edit(f) PROVE UnmissedInv'
    <3>1. ~missed /\ pc \notin Running
      BY <2>2 DEF Edit, Write, Remove
    <3>2. UNCHANGED <<pc, res, gen, rtr, fresh, last>>
      BY <2>2 DEF Edit, routerVars
    <3>3. QED
      BY <3>1, <3>2 DEF UnmissedInv, Running, OfTheSnapshot, Holds, HasBuild
  <2>3. CASE Build
    <3>1. CASE pc' = "archive"
      <4>1. HasBuild => gen'.from = src
        BY <2>3, <3>1 DEF Build, TypeOK
      <4>2. QED
        BY <2>1, <2>3, <3>1, <4>1 DEF Build, UnmissedInv, HasBuild
    <3>2. CASE pc' = "after" /\ res' = AllFailed
      BY <3>2 DEF UnmissedInv, AllFailed
    <3>3. QED
      BY <2>3, <3>1, <3>2 DEF Build
  <2>4. CASE BuildArchive
    <3>1. CASE pc' = "extract"
      <4>1. archive'.src = src /\ archive'.gen = gen.from
        BY <2>4 DEF BuildArchive
      <4>2. HasBuild => gen.from = src
        BY <2>4 DEF BuildArchive, UnmissedInv
      <4>3. QED
        BY <2>4, <3>1, <4>1, <4>2 DEF BuildArchive, UnmissedInv, OfTheTree, HasBuild, treeVars
    <3>2. CASE pc' = "after" /\ res' = AllFailed
      BY <3>2 DEF UnmissedInv, AllFailed
    <3>3. QED
      BY <2>4, <3>1, <3>2 DEF BuildArchive
  <2>5. CASE Extract \/ PostSync \/ Reload
    <3>1. OfTheTree
      BY <2>5 DEF Extract, PostSync, Reload, UnmissedInv
    <3>2. UNCHANGED <<archive, src, gen>>
      BY <2>5 DEF Extract, PostSync, Reload, treeVars
    <3>3. pc' \in {"extract", "postsync", "reload", "after"}
      BY <2>5 DEF Extract, PostSync, Reload, NextRouter
    <3>4. QED
      BY <3>1, <3>2, <3>3 DEF UnmissedInv, OfTheTree, HasBuild
  <2>6. CASE After
    <3>1. CASE \E f \in Sources : Remove(f)
      BY <2>6, <3>1 DEF After, Remove, Running
    <3>2. CASE pc' = "wait" /\ last' = Snapshot /\ UNCHANGED <<src, edits, missed>>
      <4>1. ASSUME NEW r \in Router, res[r] = "ok" PROVE Synced(r) /\ OfTheTree
        BY <2>6, <3>2, <4>1 DEF After, ResultsInv, UnmissedInv
      <4>2. UNCHANGED <<res, gen, rtr, fresh>>
        BY <2>6 DEF After, routerVars
      <4>3. last'.src = src /\ last'.gen = gen.from
        BY <3>2 DEF Snapshot
      <4>4. ASSUME NEW r \in Router, res[r] = "ok" PROVE OfTheSnapshot(r)'
        BY <4>1, <4>2, <4>3, <4>4 DEF Synced, Took, Holds, OfTheTree, OfTheSnapshot, HasBuild
      <4>5. QED
        BY <3>2, <4>2, <4>4 DEF UnmissedInv
    <3>3. QED
      BY <2>6, <3>1, <3>2 DEF After
  <2>7. CASE Poll \/ Stop
    <3>1. pc' \in {"build", "done"}
      BY <2>7 DEF Poll, Stop
    <3>2. QED
      BY <3>1 DEF UnmissedInv
  <2>8. CASE UNCHANGED vars
    BY <2>8 DEF vars, UnmissedInv, OfTheTree, OfTheSnapshot, Holds, HasBuild
  <2>9. QED
    BY <2>2, <2>3, <2>4, <2>5, <2>6, <2>7, <2>8 DEF Next, Sync
<1>3. QED
  BY <1>1, <1>2, TypedHolds, ResultsHold, PTL DEF Spec

\* While the watch waits and sees nothing to do, every router whose last sync
\* succeeded has the tree as it is, unless an edit fell into that run.
THEOREM IdleProved == Spec => []IdleIsSynced
<1>1. UnmissedInv => IdleIsSynced
  BY DEF UnmissedInv, IdleIsSynced, OfTheSnapshot, Current, Snapshot, Holds, HasBuild
<1>2. QED
  BY <1>1, UnmissedHolds, PTL
=============================================================================
