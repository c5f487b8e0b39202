# A verification of owlab

TLA+ models of the stateful parts of owlab, TLC runs that check them on small
instances, and TLAPS proofs that carry the main results to every instance.
Paths are relative to the repository.

## The system

owlab runs a lab of OpenWrt routers on a developer's machine: containers built
from an upstream rootfs, and QEMU machines for what a container cannot show.
`owlab up` builds and starts the routers of `owlab.yaml`, `owlab sync` pushes a
project's sources into them, `owlab install` and `owlab test` install packages
and assert on the result, and `owlab down` stops them. There is no daemon. Each
command is one process; what survives it are files under `.owlab/`, the user's
image cache, docker's images and containers, QEMU processes, and what is on the
routers. That is why interruption matters everywhere: the next command starts
from what the last one left.

| Component | Source | State | Operations | Hard because | Correct when |
|---|---|---|---|---|---|
| VM router lifecycle | `internal/qemu/{vm,provision}.go`, `startVM`, `down` | two disks, `state.json`, `qemu.pid`, the QEMU process, the guest's files | Start, Stop, Destroy, Provision, reboot | interruption between any two steps; the guest and the host act on their own; deadlines | QEMU stays tracked; the provisioned marker is honest; a rebuild is complete; every command ends that waits with a deadline |
| VM image cache | `internal/qemu/image.go` | cached image, two part files | EnsureImage | death and power loss between steps; a directory shared without a lock | an image is absent or whole; bytes that fail a published checksum never get in |
| Sync and watch | `internal/sync/sync.go`, `sync` | the tree, the last snapshot, each router's files | build, archive, push, post_sync, reload, poll | edits during a run; a build that writes into the watched tree; a router that fails part-way | an idle watch has pushed what is there; results are each router's own; it settles |
| Tolerant install | `internal/pkgmgr/pkgmgr.go`, `recorded`, `reportMissing` | what is installed, the record of failures, the shell's variables | refresh, one call, second call, one by one, retry, report | feeds that do not answer; two managers that fail differently; a record an older image left; outages | nothing is lost silently; a skip is true; the record is this run's; an outage costs one round |
| Downloads | `internal/netx`, `internal/compose/extra.go` | a cache with part files, two levels of attempts | RoundTrip, Fetch | retries in retries; stalls; kills; a file rebuilt under its name | a cached file is one version, whole; an answer stands; calls end |
| Base images and build context | `resolveBaseImages`, `tarballOutage`, `internal/upstream/registry.go`, `internal/compose` | bases, hosts that did not answer, the build context | probe, fall back, render, stage | a registry and a download server with different fates; contexts that outlive a command | no silent host is probed twice; a switch has a reason; the context holds what is built from |
| Lab commands | `cmd/owlab/{commands,test,main}.go` | containers, VMs, images and their labels | up, up --no-build, test, down | one of several failing; a signal during a wait; teardown after a cancelled context | the exit status says what the lab is; nothing is left running |
| Package install commands | `install`, `installOffline`, `testInstall`, `AddFeed`, `feedCheck` | each router's feed list, keyring, index and /tmp | push, add a feed, refresh, check, install | what earlier commands left; feeds that change; base names that collide | out of the feed under test; every file on every router that passes |
| Steps and assertions of test | `cmd/owlab/test.go`, `internal/check` | the report, a LuCI session | boot, records, install, sync, assertions | status codes that lie; a session that gets lost; steps passed over | a verdict is what root sees; a pass is complete |
| Configuration rules | `internal/config` | none | merge, fixtures, validate, Synthesize, names of a release | precedence; ports of several kinds; five names for one release | lists as asked; ports apart; one release |
| SDK build | `cmd/owlab/build.go` | the output directory | read the Makefile, compile, copy, list | a source edited meanwhile; copies cut short; an output directory with a past | exit 0 is complete; an artifact lies where it says |
| Upstream listings, engine, host lookup, doctor, tar writer, the shell and Dockerfile of the images, CI | the rest | none of their own | one child process or one request each | little | - |

How they interact: `up` calls the base-image fallback, stages a build context, and
has compose build and start the containers; VM routers go through `startVM`:
Stop, Start (which calls EnsureImage) and Provision, which runs the same
generated install shell over ssh that `images/Dockerfile` runs in a build. `up` and
`test` then read the record that shell left on the router; `test` goes on with the
install, the sync and the assertions, and tears down. Everything that is fetched goes
through `netx`. `sync` pushes through the same transport that `test` and
`install` use. `build` makes what `install` and `test --install` take.

## Modules

| Module | Models | Corresponds to |
|---|---|---|
| `VMLifecycle` | one VM router and the owlab processes that act on it | `pc[p]` is the place in `startVM`, `down`, `Start`, `Stop`, `Destroy`, `Provision`; `disk`, `ovl`, `marker`, `pidfile` are the files; `guest`, `root`, `booted` the machine; `target` the pid `Stop` read; `removing` and `slow` are history: a removal cut short, a reboot that was passed over; one action per step that can be the last one |
| `ImageCache` | EnsureImage | names, inodes and descriptors, since `os.Create` truncates a file another process has open; `data` is the set of chunks an inode holds |
| `AtomicCache` | what that cache promises | absent or whole, becoming whole in one step, and half after a power loss only; the refinement mapping is `Promise` in `ImageCache` |
| `SyncWatch` | `sync.Run` and `sync.Watch` | files are version numbers; `archive` is what was read, `rtr` what each router holds, `last` and `now` the snapshots |
| `PackageInstall` | UpdateShell, EachShell and the report on the record | `carries`, `broken`, `provided` are the world; `read` and `partial` the refresh, `unverified` the lists it dropped; `Needs` the dependencies and `brought` what came in through them; `todo`, `out`, `waits`, `left` the shell's variables; the manager's calls are modelled from the behaviour EachShell relies on |
| `Download` | `Fetch` of several processes over `Transport.RoundTrip` | `disk` has the cached file and the part file, `out` the descriptor a process writes through, `attempt` and `try` the two levels, `why` how its last request ended; `asked` and `mixed` are history |
| `BuildContext` | `resolveBaseImages`, `Prepare`, `FetchRootfs`, `FetchExtraPackages`, `FetchCompliance` | loops over the routers of a command (`pc`, `i`); `base` is what a router is built from, `silent` the hosts that did not answer, `pestered` the requests they got afterwards, `rootfs` and `extra` the context |
| `Lab` | `up`, `up --no-build`, `test`, `down` and the exit status of main | `image` and `made` say where an image and a container came from, `Running` what runs, `ready` who answered, `left` the patience of a teardown; `Edit` is a changed owlab.yaml, which leaves images and VM disks of another config; VM and package steps are the promises of `VMLifecycle` and `PackageInstall` |
| `Install` | `owlab install` and the install of `test` with their scripts | `todo`, `tmp` the files on their way; `entries`, `trusted`, `index`, `holds` are a router's and stay between commands; `server` is what a feed serves |
| `RouterTest` | the loop of `test` over one router at a time, and `internal/check` | `record` is `rr.Steps`; `client` is check's `luci`; `luci`, `page`, `known` the router's side of it |
| `ConfigRules` | Load and Synthesize: merge, mergeList, fixtures, validate, ports, names | one action per router merged; the rules are operators: what is written is a sequence, what a list comes to a set, because nothing here depends on its order. The properties say the same in another way, by last mention and by closure |
| `SDKBuild` | `owlab build` | `source` is the package directory, `bin` what the SDK made, `out` the output directory |
| `*_proofs` | the theorems | each about the module it is named after; `Lab_proofs` is also about `RouterTest`, `Install_proofs` about `SDKBuild`, `BuildContext_proofs` about `ConfigRules` |
| `MC*` | the instances TLC checks | |

What is abstracted: names and contents of packages and files (members of small
sets, version numbers, sets of steps), logging, the text of messages, the
order in which EachShell takes packages that are left (nothing depends on it).
A script over ssh stops at its first failure, and a failure may come before or
after its effect at each of the places where that makes a difference. Servers
are what they answer: a listing, an artifact or a page is chosen when it is
asked for, from everything it could be.

The definitions whose comment says "Mutant of" are the same step with a plausible
mistake. They are not part of any specification: each shows that one property
would notice that mistake.

A proof module that is about two components extends both, so that no name may occur in
both: what `RouterTest`, `SDKBuild` and `ConfigRules` share with others is prefixed (`RTSpec`,
`SBSpec`, `CRSpec`, `RTTypeOK`).

The assumptions on the constants of `ConfigRules` are what the tables of the code have: `SNAPSHOT`
is a snapshot in any spelling, a distribution that forces a package manager forces apk,
the stock packages carry no sign, the two base ports are numbers and the first is
not 0, and an input has the shape the decoder gives it.

## Runs

| Run | Configuration | Shows |
|---|---|---|
| `vm_extroot` | `VMExtroot.cfg` | one process, extroot: tracking, honest marker, marker last, a rebuild sets up, extroot copied, commands end unless they hang over ssh |
| `image_alone` | `ImageAlone.cfg` | one caller, deaths and power losses: half only by a power loss, checksum holds, calls end, implements `AtomicCache` |
| `watch` | `Watch.cfg` | two routers, two sources, with a build and without one: idle is synced, results per router, the watch settles |
| `pkg_install` | `PkgInstall.cfg` | apk and opkg: every package accounted for, skips are true of the feeds that verify, complete is complete, the record is this run's, one outage round, the script ends |
| `download` | `Download.cfg` | two processes, one file that is rebuilt: only an overlap tears it, an outage was persistent, answers stand, every call ends unless it stays in a body it discards |
| `build_context` | `BuildContext.cfg` | three routers on two registries, command after command: silent hosts get no second probe, a switch is justified, the context is staged for what is built |
| `lab` | `Lab.cfg` | a container and two VMs: zero means the lab, an interrupt shows, nothing is left behind |
| `install` | `Install.cfg` | an apk and an opkg router: out of the feed under test, installed everywhere |
| `router_test` | `RouterTest.cfg` | up to three assertions: verdicts are root's, asserted only when equipped, a pass is complete |
| `rules` | `Rules.cfg` | all package lists of up to four entries, and small files and flags: lists as asked, ports apart, one release |
| `sdk_build` | `SDKBuild.cfg` | two builds into one directory: success is complete, artifacts lie where they say |

One more is about a sentence the code does not keep, and TLC finds a behaviour that
refutes it: `vm_up_skips_setup` (`VMUpSkipsSetup.cfg`). startVM "boots one fidelity-vm
router and sets it up if it is new"; after an interrupted Provision QEMU is alive, and
`up` returns success over a stock router.

### What the properties leave out

These are consequences of the code. The property that would notice each says, in its
comment or its formula, that it does not speak of it:

- A removal of the disks that is cut short leaves `state.json` beside disks that
  are gone, and the next `up` takes a stock disk for a provisioned one. (`MarkerHonest`
  leaves that state out.)
- A guest that still answers 30 s after its reboot command is taken for rebooted, and so is
  one that never heard it: the overlay and the marker are then written before the
  reboot, or without one. (`slow` in `MarkerHonest`, `MarkerLast` and `RebuildProvisions`.) A
  poweroff that is sent during boot gets lost, and the kill that follows hits a
  healthy router.
- Provision does not look at QEMU again after its last command: the marker may be written,
  and a rebuild report success, over a router that has just died. The two properties
  are about the disks.
- The ssh commands of Provision have a connect timeout and no other (`sshx.go:55`): a guest
  that hangs keeps its `up` for ever, until the user interrupts it. (`MayHang` in `CommandEnds`.)
- Nothing syncs an image before it is renamed, and any file that is not empty is used
  (`image.go:46`, `76`): a power loss can leave a part of an image under the cached name. (`NeverHalf`
  and `AtomicCache` allow that to a power loss.)
- `opkg update` drops a list whose signature does not verify and exits 0 (`pkgmgr.go:176`), and
  UpdateShell takes the refresh for complete: a package of that feed is called "not in
  this feed", and the router passes for complete. (`unverified` in `SkipsAreTrue` and
  `CompleteIsComplete`.)
- A package that failed by itself and came in later as a dependency of another stays
  in the record (`pkgmgr.go:478`). (`brought` in `RecordIsOurs`.)
- The transport reads up to 64 KiB of a 5xx or 429 answer before it asks again, under no
  timer (`netx.go:157`): a server that stops there keeps the call. (`drain` in `EveryCallEnds`.)
- A host that did not answer is not probed again, but FetchRootfs and FetchCompliance ask
  the download server whatever it did before (`rootfs.go:39`, `compliance.go:46`). (`SilentHostsRest`
  names the two.)
- A VM that an earlier owlab.yaml set up is booted as it is (`commands.go:394`), and one that runs
  is left alone: exit status 0 does not say that it is of this config. (`SetUpAsAsked`, in
  `ZeroMeansTheLab`; with `--rebuild` it does.)
- An explicit `image:` is used as it is (`target.go:416`), and validate compares its release
  with nothing (`config.go:566`): a 25.12 router may be built on a 24.10 image, which
  `docs/reference.md` warns of under "Pin point releases". (`NamesItsImage` in `OneRelease`.)
- That a feed under test was fetched and verified does not say that the package came
  from it. (`OutOfTheFeed` says no more.)
- Two owlab processes can lose a QEMU of each other: one removes the pidfile the other
  wrote. (`OneCommand`.) Two that fetch one image share its temporary names, and one of
  them that is interrupted leaves half an image under the cached name. (`OneCaller`.)
  Two that fetch one URL write one `<name>.part`. (`OnlyOverlapTears` says what is left.)
- An edit that falls into a run of the watch, after the archive was read, is in the
  snapshot that ends the run and is not pushed until the next edit. (`missed` in
  `IdleIsSynced`.)
- An exec assertion that restarts rpcd makes it forget the LuCI session, which is not
  asked for again: a healthy page then fails. (`lost` in `VerdictIsRoots`.)
- `build` lists the whole output directory, so that an artifact of an earlier build stands in
  for one that was not made; an edit between owlab's read of the Makefile and the SDK's
  puts an artifact into another architecture's directory (`edited` in `PlacedAsItSays`);
  a dependency whose name begins with PKG_NAME is handed back with the package, and a
  package whose name does not is never copied out.
- A record of missing packages that cannot be read is taken for an empty one.
- The compliance bundle of a snapshot is not removed before it is fetched, as the
  tarball is; it may describe an older build.
- An explicit empty list is taken for no list: mergeList returns what is below it. A comment
  in merge (`config.go:491`) counts it among what a project can ask for. (`Says`, in `ListsAsAsked`.)
- validate compares ports of one kind: the LuCI port of one router may be
  the ssh port of another. (`PortsApart` claims more only of the ports `test` makes up.)

### Bounds

- VM: one process, because two are not safe, and the router with a second disk; for one
  without, see the proofs; nothing else is bounded. Failures, interruptions, guest and
  host events, slow reboots among them, are unlimited.
- Images: one caller, because two are not safe; two chunks, so that a file can be empty, half or whole; enough inodes
  that a name can always be created (`CacheAssumption`). Power losses unlimited.
- Watch: `MaxEdits` is 3, which is one version that is there first and two edits
  or deletions: one that starts a run and one that falls into it. Two routers, so
  that one can fail and the other not.
- Packages: three names, one of them `kmod-*`, two feeds, one of them a kmods index:
  all four combinations of answering feeds, each package in each place or
  nowhere, each refused or provided or not, and one that needs another. Two waits, so that a schedule can be
  used part-way. `gaveUp` counts to 2, which is where its property fails.
- Download: two processes; `Attempts` 2, the fewest that has a first and a last, at both
  levels; `Pieces` 2 and `Versions` 2, so that a file can be mixed.
- BuildContext: three routers, so that a host that did not answer is met again after
  another one; two versions of what is published, two extra packages of two formats.
- Lab: `Patience` 2, for two VMs and less than what they may take; a VM on either side
  of the container. The largest run: 23 million states, two minutes.
- Install: three files, two with one base name; two URLs, one key beside "stranger" and
  "none"; `Entries` 2, so that a line can stand in front of another.
- RouterTest: `Asserts` 3, a page before and after a command; a class and a code.
- ConfigRules: lists of up to four entries over two names, which is where an add, a
  removal and a replacement of one name meet in both orders; `Window` of three ports.
- SDKBuild: two versions of the source and two builds before the directory is emptied.

### Fairness

- `VMLifecycle`: `WF` of a command's steps except where it may hang. Stop's poweroff and
  polls, the probes of `ssh.Wait` and of `reboot` have deadlines (10 s, 30 s, 5 minutes), the image
  is fetched with a 30-minute timeout, and file operations end. The commands Provision sends over ssh (`OverSsh`)
  have none, as long as QEMU lives and keeps the connection, and neither has a
  download of the extra packages: nothing is assumed there (`MayHang`). Nothing is assumed of
  the guest.
- `ImageCache`: `WF` of the call; the HTTP client has a 30-minute timeout, which covers bodies.
- `SyncWatch`: `WF` of the command; the poll is a timer. Nothing is assumed of the
  developer, whose edits are bounded by `MaxEdits`. Deadlock is not checked there,
  because a watch that was stopped has no next step.
- `PackageInstall`: `WF` of the script; each manager call ends and each sleep is finite.
- `Download`: `WF` of what owlab does by itself: its steps, its sleeps, and its two timers,
  for a server that sends no headers and for a body that does not move. None of the
  server, and none of the body of an answer that is asked for again, which is read
  without a timer (`Drain`).
- The others state no fairness and no liveness: a docker build has no deadline, and what
  is left of them are loops over finite lists.

### What slow says

`reboot` sends the command, whose error it ignores, waits up to 30 s for the router to go
away, and then for it to answer. If the guest takes longer to go down, or never heard
the command, the boot that should have ended answers. `slow` remembers that this
happened to the router. It is what the code cannot see, so that the properties of the marker hold until
then and say nothing of the disks from then on; tracking and the end of commands hold
throughout. `MarkerLast` still sees the wait itself: with `RebootGoneSkips`, which
goes straight on to `ssh.Wait`, it is violated.

## Proofs

Each holds for every value of the constants that satisfies the module's named
assumption. Every safety property of a passing run is proved, and so are the
action properties and the refinement of `AtomicCache`. `TypeCorrect` is proved of the eight modules
the proof modules are named after, so that their type invariants are in no run; the runs
keep to what is hard to see. The invariants that carry the other proofs stand in
the component's module where TLC can check them as well (`IInv`), or where only the
proof needs them in front of the proof.

`VMLifecycle_proofs` (any set of processes and both values of the constants for types;
`ASSUME OneCommand`, that is one process, with and without a second disk, for the rest):

- `Invariance`: `Spec => []IInv`. `MarkerHonest` is not inductive: to know that the
  marker is honest when it is written, one has to know, at each place of
  Provision, which steps are already on the disk the next boot will use
  (`StepsInv`), that the guest runs on that disk (`GuestInv`), that no QEMU lives while
  files are removed or created (`ProcessInv`), and that a QEMU has its disk open
  (`DiskInv`).
- `Tracked`, `Honest`: the invariants `QemuTracked` and `MarkerHonest` from it.
- `Last`: the action property `MarkerLast` from it.
- `Rebuilt`: `RebuildProvisions`. A rebuild can end in two places of the code, and in both
  the marker says provisioned and no removal is unfinished (`RemovalInv`), because what an
  interrupted rebuild left is removed before anything is created. `MarkerHonest` does the rest, as long as no reboot was
  passed over (`slow`). Like `Last` it speaks of the disks: neither says that QEMU still lives.
- `Copied`: `ExtrootCopied`. Only a copy that ended leads to the fstab line, and nothing writes to
  the first disk in between: at that place the second disk has all of it (`RemovalInv`).

`ImageCache_proofs` (types for any processes; `ASSUME OneCaller` for the rest):

- `FreeInode`: there is an inode for every file that is created, by counting the ones
  in use against `CacheAssumption`; without it the model could be stuck where a
  file system is not.
- `WholeProved`, `SumProved`: `NeverHalf` and `ChecksumHolds`. The invariant says that no
  two names share an inode (`Apart`), that past the first look there is no image under the
  cached name (`EmptyInv`), and what the call knows of its part files at each
  of its places (`CallInv`). So only a power loss makes half an image: a rename moves whole bytes only because the descriptor that
  wrote them is the one the name still has.
- `AtomicProved`: the call implements `AtomicCache` under `Promise`: the rename is the one
  step that makes the image appear, a power loss is `Lose`, which may leave half of it, and
  every other step is a stutter.

`PackageInstall_proofs` (any packages, feeds and number of waits, both managers):

- `AddFacts` says what one call of either manager may do, and is all the rest knows
  of the managers: what is wanted comes with what it needs, and what was not named
  is put down as `brought`. `NotSuspect` is the heart of it: a name that no feed that was
  read has, and that `owlab_absent` does not record, is in no configured feed, or in one whose list
  was dropped.
- `Invariance`: `Spec => []IInv`. What is not asked for any more is accounted for
  (`AccountInv`), what is said to be missing is in no feed that was read (`MissingInv`),
  the record is disjoint from what will still be asked for and names nothing the router has
  but what was brought (`RecordInv`), and `owlab_partial` bounds what may be unread, dropped
  lists apart (`PartialInv`).
- `NoneForgotten`, `SkipsProved`, `RecordProved`, `CompleteProved`, `OneOutageProved`: the
  five safety properties the runs check.

`SyncWatch_proofs` (any sources, routers and number of edits):

- `ReportsProved`: `ReportedPerRouter`, from `ResultsInv`: a result that is ok belongs to a
  router that holds what was archived, and later routers do not disturb it.
- `IdleProved`: `IdleIsSynced`, from `UnmissedInv`: at each place of a run, a file whose
  version in the tree is not the archived one was edited inside the run, and the snapshot
  that will be the last one is no older than the archive.

`Download_proofs` (any processes, attempts, pieces and versions):

- `AnswersProved`: `AnswersStand`; what a process does next is fixed by how its last request
  ended (`AfterAnOutage`).
- `OutageProved`: `OutagePersisted`; `Counted` bounds `asked` by the two counters: no less
  than the tries of this attempt and no more than `Attempts` for each attempt before.
- `TearsProved`: `OnlyOverlapTears`; as long as no two processes have written one part file,
  it is what its one writer has received so far (`Descriptors`, `Untorn`), so that what
  is renamed is a whole version.

`BuildContext_proofs` (any number of routers, hosts, releases and extra packages):

- `HostsRest`: no host that did not answer is probed again. As long as the command probes, the hosts it
  will not probe are those that did not answer (`Remembered`).
- `SwitchProved`: a switch keeps its reason, because a switched router is not asked for again
  (`Switched`).
- `StagedProved`: at each loop, the routers behind it have in the context what `Render`
  named for them, and nothing else is in it (`Staged`).

And about `ConfigRules` (any input, tables, base ports and window):

- `PortsProved`: `PortsApart`, from `OwnPorts`: the ports of the routers that were merged are among
  those taken, which is what FreePortFrom looks at.
- `ReleaseProved`: `OneRelease`, which is about what owlab picks and lets an explicit `image:`
  through, by cases over what the names of a router are computed from.
- `ListsProved`: `ListsAsAsked`. `FromAsked` carries along that the k-th router was merged from the k-th
  entry that is not blank. The rest is about the folds `MergeList` and `ExpandFixtures`,
  for lists of any length. Induction over data as the library states it takes an
  operator, which the provers cannot instantiate; here the function a fold defines over
  the subsets of positions (or profiles) is compared with a closed form over the
  same subsets (`AppliedTo`: the last entry about a name decides). If they differed, they
  would on a smallest subset, and one step of the fold agrees with one step of the closed
  form (`SameBySteps`, from the well-foundedness of `<` on `Nat`; `Folded`, `AddedFixtures`).

`Lab_proofs` (any containers, VMs and patience):

- `InterruptProved` from `HeardInv`: once a signal was heard, every path to the exit of that
  command joins the context's error first.
- `LeftProved` from `LeftInv`: during a teardown, what runs of the lab is what is still to be
  stopped, unless the patience is used up or the engine failed.
- `ZeroProved` from `ZeroInv`, which says at each place what is known already: who was built
  or inspected, who was started from what, who answered, and that a disk this command did
  not set up was there when it began (`aged`). `PathInv` says which commands
  get to which place.

And about `RouterTest` (any orders, assertions and number of them):

- `SessionProved`: its type invariant, which has a client that counts itself logged in hold a
  cookie.
- `CompleteProved`: `PassIsComplete`, from `Progress`: at each place of the loop, the report has
  exactly what the command asks for up to that place, in that order. The property
  looks at the end only and would be no induction.
- `EquippedProved`: `AssertedOnlyWhenEquipped`, from `Equipped`: what a router that has passed up to
  here may still lack, at each step that could find out.
- `VerdictProved`: `VerdictIsRoots`. Only `http` assertions ask a page, and only after a login that
  the router knew (`place = "get" => client.loggedIn` in `Progress`).

`Install_proofs` (any routers, files, feeds and keys):

- `FeedProved` from `FeedInv`: in front of the install, the first line a router has under the
  feed's name is this command's, and what was verified was fetched through it.
- `FilesProved` from `SentInv`: what lies under a base name in `/tmp` is the last file pushed of
  that name, files being pushed in their order.

And about `SDKBuild` (any artifacts, versions and number of builds):

- `WholeBuildProved`: `SuccessIsComplete`. What the loop has behind it is whole in the output
  directory (`Copies`); that a later turn does not write over it needs that one compile
  makes one artifact of a name and of one format (`OneOfAName`).
- `PlacedProved`: `PlacedAsItSays`, from `ReadIsBuilt`: as long as nobody edits, the directories were
  computed from the source that is compiled.

Only model-checked: liveness (`CommandEnds`, `EnsureEnds`, `Settles`, `ScriptEnds`,
`EveryCallEnds`), because the prover has no rule for fairness. What TLC refutes in
`vm_up_skips_setup` is not claimed anywhere.

## Not modelled

- A watch does not try a failed push again and does not delete what was deleted from
  the tree; the properties say so by speaking of routers whose last result was
  ok and of files the tree has.
- A power loss of the host in `VMLifecycle` is the loss of the process and of QEMU;
  file contents that were not synced are only lost in `ImageCache`.
- Windows, where owlab writes the pidfile itself after a detached start.
- `UpgradeShell`, and the extras layer of the Dockerfile with its own record.
- YAML decoding and the fields of a router that are picked one by one (hostname, sizes,
  assertions, sync and build blocks).
- The text of the compose file, and the digest behind the inputs label: `Lab` knows only
  whether two inputs are the same.
- What make does in a build tree that `build --keep` kept.
- `context --list`, `releases` and `releases --all`: each lists, probes, compares numbers and
  prints, and keeps nothing between two requests.
- doctor, status, logs, the engine and host lookups, the tar writer: they read, or
  convert, and keep nothing. The shell inside the images runs where no owlab process
  sees it. CI and setup scripts call what is modelled.

## Plan

What is left, in this order:

1. `UpgradeShell` beside `UpdateShell` in `PackageInstall`, and the extras layer with its record.
2. The Windows start as a variant of `Launch`.
3. Proofs: of every safety property the runs check, done. Left is `Download` for one process as
   an implementation of `AtomicCache`, which needs the cache's promise weakened to "a whole
   version" where `AtomicCache` has one image.
4. Two VMs that share the image cache: `VMLifecycle` with `ImageCache` in place of its `EnsureImage`.
