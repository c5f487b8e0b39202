----------------------------- MODULE SyncWatch -----------------------------
(***************************************************************************)
(* `owlab sync --watch` (internal/sync, cmd/owlab sync): a build, one      *)
(* archive of the tree, a push to every router, and a poll that compares   *)
(* snapshots to decide when to do it again, while a developer edits.       *)
(***************************************************************************)
EXTENDS Naturals, Sequences

CONSTANTS
  Sources,    \* the files the developer edits, all under install: directories
  Routers,    \* the selected routers, in the order of owlab.yaml
  MaxEdits    \* bound: versions of the tree's files, 1 being what is there first

Router == {Routers[i] : i \in 1..Len(Routers)}

ASSUME WatchAssumption == /\ MaxEdits \in Nat \ {0}
                          /\ Routers \in Seq(Router) /\ Routers # <<>>

Absent == 0

VARIABLES
  pc,       \* where the command is
  first,    \* this is the run before Watch
  src,      \* each source file's version in the tree, or Absent
  gen,      \* project.build, if there is one, generates one more file: the
            \* versions it was built from, its mtime
  edits,    \* the newest version: edits and deletions so far, and one
  archive,  \* what buildArchive read
  k,        \* the router being pushed to
  res,      \* the result reported for each router
  rtr,      \* each router's files
  fresh,    \* LuCI's caches were dropped after the last files arrived
  last, now,\* Watch's two snapshots
  missed    \* history: an edit fell between a run's reading and the snapshot after it

vars == <<pc, first, src, gen, edits, archive, k, res, rtr, fresh, last, now, missed>>

Version == 0..MaxEdits
Tree == [Sources -> Version]
HasBuild == gen.build
Running == {"build", "archive", "extract", "postsync", "reload", "after"}

Snapshots == [src : Tree, gen : Tree, mtime : 0..1]
Nowhere == [f \in Sources |-> Absent]

TypeOK ==
  /\ pc \in Running \cup {"wait", "done"}
  /\ first \in BOOLEAN /\ missed \in BOOLEAN
  /\ src \in Tree /\ edits \in Version
  /\ gen \in [build : BOOLEAN, from : Tree, mtime : 0..1]
  /\ archive \in [src : Tree, gen : Tree]
  /\ k \in 1..Len(Routers) + 1
  /\ res \in [Router -> {"ok", "failed"}]
  /\ rtr \in [Router -> [src : Tree, gen : Tree]]
  /\ fresh \in [Router -> BOOLEAN]
  /\ last \in Snapshots /\ now \in Snapshots

\* Mutant of Snapshot: only the build's output is looked at, and not the files
\* it reads.
SnapshotOutput == [src |-> Nowhere, gen |-> gen.from, mtime |-> gen.mtime]

\* Path, size and mtime of every file: of the install: directories, and of the
\* whole project when there is a build. A build always leaves a new mtime.
Snapshot == [src |-> src, gen |-> gen.from, mtime |-> gen.mtime]

Init ==
  /\ pc = "build" /\ first = TRUE /\ missed = FALSE
  /\ src \in [Sources -> {Absent, 1}]
  /\ gen \in [build : BOOLEAN, from : {Nowhere}, mtime : {0}] /\ edits = 1
  /\ archive = [src |-> Nowhere, gen |-> Nowhere]
  /\ k = 1
  /\ res = [r \in Router |-> "failed"]
  /\ rtr = [r \in Router |-> [src |-> Nowhere, gen |-> Nowhere]]
  /\ fresh = [r \in Router |-> TRUE]
  /\ last = Snapshot /\ now = Snapshot

treeVars == <<src, gen, edits>>
routerVars == <<rtr, fresh>>

-----------------------------------------------------------------------------
(* The developer *)

Remove(f) ==
  /\ edits < MaxEdits /\ src[f] # Absent
  /\ edits' = edits + 1
  /\ src' = [src EXCEPT ![f] = Absent]
  /\ missed' = (missed \/ pc \in Running)

Write(f) ==
  /\ edits < MaxEdits
  /\ edits' = edits + 1
  /\ src' = [src EXCEPT ![f] = edits + 1]
  /\ missed' = (missed \/ pc \in Running)

Edit(f) ==
  /\ Write(f) \/ Remove(f)
  /\ UNCHANGED <<pc, first, gen, archive, k, res, routerVars, last, now>>

-----------------------------------------------------------------------------
(* Run *)

AllFailed == [r \in Router |-> "failed"]

\* project.build reads the sources and rewrites its output; it may fail, and
\* then no router is touched.
Build ==
  /\ pc = "build"
  /\ missed' = FALSE
  /\ \/ /\ HasBuild
        /\ gen' = [gen EXCEPT !.from = src, !.mtime = 1 - @]
        /\ pc' = "archive"
        /\ UNCHANGED res
     \/ ~HasBuild /\ pc' = "archive" /\ UNCHANGED <<gen, res>>
     \/ /\ HasBuild
        /\ gen' \in {gen, [gen EXCEPT !.mtime = 1 - @]}
        /\ pc' = "after"
        /\ res' = AllFailed
  /\ UNCHANGED <<first, src, edits, archive, k, routerVars, last, now>>

\* Mutant of BuildArchive: an archive of the tree as the last run left it.
ArchiveStale ==
  /\ pc = "archive"
  /\ archive' = IF first THEN [src |-> src, gen |-> gen.from] ELSE archive
  /\ pc' = "extract" /\ k' = 1
  /\ UNCHANGED <<res, first, treeVars, routerVars, last, now, missed>>

\* buildArchive reads every present file; none at all is an error.
BuildArchive ==
  /\ pc = "archive"
  /\ archive' = [src |-> src, gen |-> gen.from]
  /\ IF (\A f \in Sources : src[f] = Absent) /\ gen.from = Nowhere
     THEN pc' = "after" /\ res' = AllFailed /\ UNCHANGED k
     ELSE pc' = "extract" /\ k' = 1 /\ UNCHANGED res
  /\ UNCHANGED <<first, treeVars, routerVars, last, now, missed>>

\* Mutant of NextRouter: a router that fails keeps what it was reported before.
NextRouterQuiet(result) ==
  /\ res' = IF result = "ok" THEN [res EXCEPT ![Routers[k]] = result] ELSE res
  /\ k' = k + 1
  /\ pc' = IF k < Len(Routers) THEN "extract" ELSE "after"

NextRouter(result) ==
  /\ res' = [res EXCEPT ![Routers[k]] = result]
  /\ k' = k + 1
  /\ pc' = IF k < Len(Routers) THEN "extract" ELSE "after"

\* tar -x puts the archive's files over the router's and removes none.
Extracted(old, new) == [f \in Sources |-> IF new[f] = Absent THEN old[f] ELSE new[f]]

Extract ==
  /\ pc = "extract"
  /\ LET r == Routers[k]
     IN \/ /\ pc' = "postsync"
           /\ rtr' = [rtr EXCEPT ![r].src = Extracted(@, archive.src),
                                 ![r].gen = IF HasBuild THEN archive.gen ELSE @]
           /\ fresh' = [fresh EXCEPT ![r] = FALSE]
           /\ UNCHANGED <<res, k>>
        \/ \E got \in SUBSET Sources :       \* the stream broke off part-way
             /\ rtr' = [rtr EXCEPT ![r].src =
                          [f \in Sources |-> IF f \in got THEN Extracted(@, archive.src)[f]
                                            ELSE @[f]]]
             /\ fresh' = [fresh EXCEPT ![r] = @ /\ rtr' = rtr]
             /\ NextRouter("failed")
  /\ UNCHANGED <<first, treeVars, archive, last, now, missed>>

PostSync ==
  /\ pc = "postsync"
  /\ \/ pc' = "reload" /\ UNCHANGED <<res, k>>
     \/ NextRouter("failed")
  /\ UNCHANGED <<first, treeVars, archive, routerVars, last, now, missed>>

Reload ==
  /\ pc = "reload"
  /\ \/ NextRouter("ok") /\ fresh' = [fresh EXCEPT ![Routers[k]] = TRUE]
     \/ NextRouter("failed") /\ UNCHANGED fresh
  /\ UNCHANGED <<first, treeVars, archive, rtr, last, now, missed>>

-----------------------------------------------------------------------------
(* Watch *)

\* Mutant of After: the snapshot that started the run is kept.
AfterKeeps ==
  /\ pc = "after"
  /\ first' = FALSE
  /\ pc' = "wait"
  /\ last' = IF first THEN Snapshot ELSE now
  /\ UNCHANGED <<treeVars, archive, k, res, routerVars, now, missed>>

\* The snapshot after a run: what the run left, or, when the walk fails because
\* a directory goes away under it, what triggered the run. The first snapshot is
\* Watch's own, and it has to succeed.
After ==
  /\ pc = "after"
  /\ first' = FALSE
  /\ \/ pc' = "wait" /\ last' = Snapshot /\ UNCHANGED <<src, edits, missed>>
     \/ /\ \E f \in Sources : Remove(f)
        /\ IF first THEN pc' = "done" /\ UNCHANGED last ELSE pc' = "wait" /\ last' = now
  /\ UNCHANGED <<gen, archive, k, res, routerVars, now>>

\* One poll: a snapshot that differs starts a run.
Poll ==
  /\ pc = "wait"
  /\ Snapshot # last
  /\ now' = Snapshot
  /\ pc' = "build"
  /\ UNCHANGED <<first, treeVars, archive, k, res, routerVars, last, missed>>

\* Ctrl-C, noticed between two polls.
Stop ==
  /\ pc = "wait"
  /\ pc' = "done"
  /\ UNCHANGED <<first, treeVars, archive, k, res, routerVars, last, now, missed>>

Sync == Build \/ BuildArchive \/ Extract \/ PostSync \/ Reload \/ After \/ Poll

Next == (\E f \in Sources : Edit(f)) \/ Sync \/ Stop

Spec == Init /\ [][Next]_vars

\* The poll comes round every interval, and a run's steps end.
FairSpec == Spec /\ WF_vars(Sync)

-----------------------------------------------------------------------------
(* Properties *)

\* What a router that took this tree would hold.
Holds(r, tree) == \A f \in Sources : tree[f] # Absent => rtr[r].src[f] = tree[f]

Current(r) == Holds(r, src) /\ (HasBuild => rtr[r].gen = src /\ gen.from = src)

\* While the watch waits and sees nothing to do, every router whose last sync
\* succeeded has the tree as it is, built from it, with LuCI's caches dropped;
\* provided no edit fell between the run's reading and the snapshot after it.
IdleIsSynced ==
  pc = "wait" /\ last = Snapshot /\ ~missed =>
    \A r \in Router : res[r] = "ok" => Current(r) /\ fresh[r]

\* Each run reports on every router for itself: one that is reported ok holds
\* this run's archive and serves it, whatever happened on the others.
ReportedPerRouter ==
  [][(pc \in Running) /\ pc' = "after" =>
       \A r \in Router : res'[r] = "ok" =>
         /\ \A f \in Sources : archive'.src[f] # Absent => rtr'[r].src[f] = archive'.src[f]
         /\ fresh'[r]]_vars

\* Once the developer stops editing, the watch stops building: the build's own
\* output is no change (sync.go 410: "rebuild forever").
Settles == <>[](pc \notin Running)

=============================================================================
