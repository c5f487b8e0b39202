---------------------------- MODULE VMLifecycle ----------------------------
(***************************************************************************)
(* One `fidelity: vm` router: the files of .owlab/vm/<id>, the QEMU        *)
(* process, the guest inside it, and the owlab commands that act on them   *)
(* (`up`, `up --rebuild`, `down`, `down --purge`).                         *)
(*                                                                         *)
(* A command is a process of this module: it runs one step of              *)
(* internal/qemu at a time, and it may be interrupted between any two.     *)
(* The guest and the host take steps of their own in between.              *)
(***************************************************************************)
EXTENDS Naturals

CONSTANTS
  Procs,         \* owlab processes that may act on this router at once
  HasExtroot     \* r.VM.Disk # "": the router has the second disk

ASSUME ConfigAssumption == Procs # {} /\ HasExtroot \in BOOLEAN

VARIABLES
  pc,       \* where each process is; see Label
  cmd,      \* the command each process runs
  st,       \* Provision's copy of state.json
  target,   \* what the pid Stop read names now
  disk,     \* disk.qcow2: does it exist, its fstab, the steps done on it
  ovl,      \* overlay.qcow2: does it exist, its filesystem, the steps on it
  marker,   \* state.json as loadState reads it (missing reads as all FALSE)
  pidfile,  \* qemu.pid: absent, or what its number names
  guest,    \* the guest; "off" means no QEMU process
  root,     \* which disk the running guest's /overlay is
  held,     \* the disks QEMU has open are the files in the directory
  booted,   \* the steps already on the root when this boot began
  removing, \* history: disks have been removed and state.json has not, yet
  slow      \* history: a Provision of this router went on from a reboot that
            \* had not happened, since nothing it waits for tells it so

procVars  == <<pc, cmd, st, target>>
fileVars  == <<disk, ovl, marker, pidfile>>
guestVars == <<guest, root, held, booted>>
history == <<removing, slow>>
vars == <<procVars, fileVars, guestVars, history>>

-----------------------------------------------------------------------------
(* Values *)

\* What Provision puts on the router's filesystem, in its order.
Step == {"packages", "extra", "radios", "overlay"}

\* The steps whose failure is fatal to Provision; the radios are not.
Required == {"packages", "extra", "overlay"}

Command == {"up", "rebuild", "down", "purge"}

Finished == {"idle", "ok", "error"}

StopLabel == {"stop", "stopwait", "stopgone", "stopkill"}

StartLabel == {"start", "rmdisk", "rmoverlay", "rmstate", "image", "mkdisk",
               "mkoverlay", "launch"}

ExtrootLabel == {"mkfs", "copy", "fstab", "saveExtroot", "writeExtroot"}

RebootLabel == {"reboot1", "gone1", "back1", "reboot2", "gone2", "back2"}

ProvisionLabel == {"packages", "extra", "radios", "overlay",
                   "saveMarker", "writeMarker"}

Label == Finished \cup {"check", "provcheck", "wait", "rmdir"} \cup StopLabel
           \cup StartLabel \cup ExtrootLabel \cup RebootLabel \cup ProvisionLabel

Marker == [prov : BOOLEAN, extroot : BOOLEAN]
Blank  == [prov |-> FALSE, extroot |-> FALSE]

NoDisk    == [here |-> FALSE, fstab |-> FALSE, done |-> {}]
NewDisk   == [here |-> TRUE, fstab |-> FALSE, done |-> {}]
NoOverlay  == [here |-> FALSE, fs |-> FALSE, done |-> {}]
NewOverlay == [here |-> TRUE, fs |-> FALSE, done |-> {}]

\* PID() # 0: the number in the pidfile names some live process.
Running == pidfile \in {"qemu", "other"}

QemuAlive == guest # "off"

\* The guest runs its sshd: a command sent over ssh comes back.
Answers == guest \in {"up", "rebooting", "halting"}

\* A TCP connect to the forwarded ssh port. QEMU accepts it for the guest, so
\* it may succeed whenever QEMU lives and it does when the guest listens.
MayReach   == QemuAlive
MayMiss    == ~Answers

\* Where a boot of the present disks puts /overlay: extroot when the fstab
\* asks for it and the second disk carries a filesystem.
BootRoot == IF disk.fstab /\ ovl.here /\ ovl.fs THEN "vdb" ELSE "disk"

On(r) == IF r = "vdb" THEN ovl.done ELSE disk.done

-----------------------------------------------------------------------------
Init ==
  /\ pc = [p \in Procs |-> "idle"]
  /\ cmd = [p \in Procs |-> "up"]
  /\ st = [p \in Procs |-> Blank]
  /\ target = [p \in Procs |-> "none"]
  /\ disk = NoDisk /\ ovl = NoOverlay /\ marker = Blank /\ pidfile = "absent"
  /\ guest = "off" /\ root = "disk" /\ held = TRUE
  /\ booted = {}
  /\ removing = FALSE /\ slow = FALSE

-----------------------------------------------------------------------------
(* Control *)

At(p, l) == pc[p] = l

Goto(p, l) == pc' = [pc EXCEPT ![p] = l]

\* A step of p that changes nothing but p's place.
Jump(p, l) == Goto(p, l) /\ UNCHANGED <<cmd, st, target, fileVars, guestVars, history>>

\* The user types a command; one that is running finishes first.
Begin(p, c) ==
  /\ pc[p] \in Finished
  /\ Goto(p, "check")
  /\ cmd' = [cmd EXCEPT ![p] = c]
  /\ UNCHANGED <<st, target, fileVars, guestVars, history>>

\* What startVM and down ask first.
Check(p) ==
  /\ At(p, "check")
  /\ CASE cmd[p] = "up"      -> Jump(p, IF Running THEN "ok" ELSE "start")
       [] cmd[p] = "rebuild" -> Jump(p, IF Running THEN "stop" ELSE "start")
       [] cmd[p] = "down"    -> Jump(p, IF Running THEN "stop" ELSE "ok")
       [] cmd[p] = "purge"   -> Jump(p, "stop")

\* Where a successful Stop returns to: startVM, Destroy, or down itself.
AfterStop(p) ==
  CASE cmd[p] = "rebuild" -> "start"
    [] cmd[p] = "purge"   -> "rmdir"
    [] OTHER              -> "ok"

-----------------------------------------------------------------------------
(* Processes of the host *)

\* The guest is gone: no process has its pid any more.
QemuGone ==
  /\ guest' = "off"
  /\ pidfile' = IF pidfile = "qemu" THEN "dead" ELSE pidfile
  /\ target' = [p \in Procs |-> IF target[p] = "qemu" THEN "none" ELSE target[p]]
  /\ UNCHANGED <<root, held, booted>>

\* The stranger that holds a recycled pid is gone.
OtherGone ==
  /\ pidfile' = IF pidfile = "other" THEN "dead" ELSE pidfile
  /\ target' = [p \in Procs |-> IF target[p] = "other" THEN "none" ELSE target[p]]
  /\ UNCHANGED guestVars

\* A signal ends whatever holds the pid.
Signal(t) ==
  CASE t = "qemu"  -> QemuGone
    [] t = "other" -> OtherGone
    [] t = "none"  -> UNCHANGED <<pidfile, target, guestVars>>

-----------------------------------------------------------------------------
(* VM.Stop *)

StopNotRunning(p) ==
  /\ At(p, "stop") /\ ~Running
  /\ Goto(p, AfterStop(p))
  /\ pidfile' = "absent"
  /\ UNCHANGED <<cmd, st, target, disk, ovl, marker, guestVars, history>>

\* The guest is asked to power itself off. The error is ignored: a guest that
\* is not up never hears it, and one that is rebooting may not.
StopPoweroff(p) ==
  /\ At(p, "stop") /\ Running /\ MayReach
  /\ Goto(p, "stopwait")
  /\ target' = [target EXCEPT ![p] = pidfile]
  /\ \/ guest = "up" /\ guest' = "halting"
     \/ guest # "up" /\ UNCHANGED guest
  /\ UNCHANGED <<cmd, st, fileVars, root, held, booted, history>>

\* A router nobody can reach gets SIGTERM; it may be too wedged to act on it.
StopTerminate(p) ==
  /\ At(p, "stop") /\ Running /\ MayMiss
  /\ Goto(p, "stopwait")
  /\ \/ Signal(pidfile)
     \/ /\ target' = [target EXCEPT ![p] = pidfile]
        /\ UNCHANGED <<pidfile, guestVars>>
  /\ UNCHANGED <<cmd, st, disk, ovl, marker, history>>

\* Mutant of StopPoll: the deadline is taken for the end of the process.
StopPollForgets(p) == At(p, "stopwait") /\ Jump(p, "stopgone")

\* Mutant of StopPoll: no deadline.
StopPollForever(p) == At(p, "stopwait") /\ ~Running /\ Jump(p, "stopgone")

\* The poll finds the pid dead and will remove the pidfile; or the 30 s pass,
\* which is not looked at again before the kill.
StopPoll(p) ==
  /\ At(p, "stopwait")
  /\ \/ ~Running /\ Jump(p, "stopgone")
     \/ Jump(p, "stopkill")

StopGone(p) ==
  /\ At(p, "stopgone")
  /\ Goto(p, AfterStop(p))
  /\ pidfile' = "absent"
  /\ UNCHANGED <<cmd, st, target, disk, ovl, marker, guestVars, history>>

\* SIGKILL to the pid read at the start, the pidfile removed, an error returned.
StopKill(p) ==
  /\ At(p, "stopkill")
  /\ Goto(p, "error")
  /\ CASE target[p] = "qemu"  -> /\ guest' = "off"
                                 /\ UNCHANGED <<root, held, booted>>
                                 /\ target' = [q \in Procs |->
                                      IF target[q] = "qemu" THEN "none" ELSE target[q]]
       [] target[p] = "other" -> /\ UNCHANGED guestVars
                                 /\ target' = [q \in Procs |->
                                      IF target[q] = "other" THEN "none" ELSE target[q]]
       [] target[p] = "none"  -> UNCHANGED <<guestVars, target>>
  /\ pidfile' = "absent"
  /\ UNCHANGED <<cmd, st, disk, ovl, marker, history>>

-----------------------------------------------------------------------------
(* VM.Start *)

\* Already running is success, whatever was asked for. Otherwise the emulator
\* and its firmware have to be found before anything is touched.
Start(p) ==
  /\ At(p, "start")
  /\ \/ Running /\ Jump(p, "provcheck")
     \/ /\ ~Running
        /\ \E l \in {IF cmd[p] = "rebuild" THEN "rmdisk" ELSE "image", "error"} :
             Jump(p, l)

Exists(f) ==
  CASE f = "disk" -> disk.here [] f = "overlay" -> ovl.here [] f = "state" -> marker # Blank

\* A file of the directory is unlinked; a running QEMU keeps what it has open.
Unlink(f) ==
  /\ disk'   = IF f = "disk" THEN NoDisk ELSE disk
  /\ ovl'    = IF f = "overlay" THEN NoOverlay ELSE ovl
  /\ marker' = IF f = "state" THEN Blank ELSE marker
  /\ held'   = (held /\ (f = "state" \/ ~QemuAlive))
  /\ removing' = (f # "state" /\ (removing \/ marker # Blank))

\* removeDisks, one os.Remove at a time: the disks first, state.json after.
RemoveFile(p, from, f, to) ==
  /\ At(p, from)
  /\ \/ /\ Goto(p, to)
        /\ Unlink(f)
        /\ UNCHANGED <<cmd, st, target, pidfile, guest, root, booted, slow>>
     \/ Jump(p, "error")

\* Mutant of RemoveDisks: state.json is not among the files removed.
RemoveDisksOnly(p) ==
  \/ RemoveFile(p, "rmdisk", "disk", "rmoverlay")
  \/ RemoveFile(p, "rmoverlay", "overlay", "image")

RemoveDisks(p) ==
  \/ RemoveFile(p, "rmdisk", "disk", "rmoverlay")
  \/ RemoveFile(p, "rmoverlay", "overlay", "rmstate")
  \/ RemoveFile(p, "rmstate", "state", "image")

\* EnsureImage: the cached image, or an error; see ImageCache.
EnsureImage(p) ==
  /\ At(p, "image")
  /\ \E l \in {"mkdisk", "error"} : Jump(p, l)

\* ensureDisks creates what is missing and keeps what is there.
EnsureDisk(p) ==
  /\ At(p, "mkdisk")
  /\ \/ /\ Goto(p, "mkoverlay")
        /\ disk' = IF disk.here THEN disk ELSE NewDisk
        /\ UNCHANGED <<cmd, st, target, ovl, marker, pidfile, guestVars, history>>
     \/ ~disk.here /\ Jump(p, "error")

EnsureOverlay(p) ==
  /\ At(p, "mkoverlay")
  /\ \/ /\ Goto(p, "launch")
        /\ ovl' = IF HasExtroot /\ ~ovl.here THEN NewOverlay ELSE ovl
        /\ UNCHANGED <<cmd, st, target, disk, marker, pidfile, guestVars, history>>
     \/ HasExtroot /\ ~ovl.here /\ Jump(p, "error")

\* qemu -daemonize: it takes the ports and the lock on the disk, writes the
\* pidfile and detaches; or it exits and says why. A missing disk, or another
\* QEMU that holds the lock, leaves only the second. Unless the marker spares
\* it, the Provision that follows does every step anew on this boot.
Launch(p) ==
  /\ At(p, "launch")
  /\ \/ /\ ~QemuAlive /\ disk.here /\ (HasExtroot => ovl.here)
        /\ Goto(p, "provcheck")
        /\ guest' = "booting" /\ held' = TRUE
        /\ pidfile' = "qemu"
        /\ slow' = (slow /\ marker.prov)
        /\ UNCHANGED <<cmd, st, target, disk, ovl, marker, root, booted, removing>>
     \/ Jump(p, "error")

\* startVM after Start: a provisioned disk is a plain boot.
ProvCheck(p) ==
  /\ At(p, "provcheck")
  /\ Jump(p, IF marker.prov THEN "ok" ELSE "wait")

-----------------------------------------------------------------------------
(* VM.Provision *)

\* ssh.Wait returns when a command comes back; its five minutes may pass while
\* the guest does not answer. After it, Provision reads state.json.
AwaitGuest(p) ==
  /\ At(p, "wait")
  /\ \/ /\ Answers
        /\ st' = [st EXCEPT ![p] = marker]
        /\ Goto(p, IF HasExtroot /\ ~marker.extroot THEN "mkfs" ELSE "packages")
        /\ UNCHANGED <<cmd, target, fileVars, guestVars, history>>
     \/ ~Answers /\ Jump(p, "error")

\* setupExtroot's script, which stops at its first failure. mkfs.ext4 -F
\* refuses a device that is mounted: as /overlay, or by another copy in flight.
VdbMounted(p) ==
  root = "vdb" \/ \E q \in Procs \ {p} : pc[q] \in {"copy", "fstab"}

Mkfs(p) ==
  /\ At(p, "mkfs")
  /\ \/ /\ Answers /\ ~VdbMounted(p)
        /\ Goto(p, "copy")
        /\ ovl' = IF held THEN [ovl EXCEPT !.fs = TRUE, !.done = {}] ELSE ovl
        /\ UNCHANGED <<cmd, st, target, disk, marker, pidfile, guestVars, history>>
     \/ Jump(p, "error")

\* Mutant of CopyOverlay: the pipeline's status is the last command's, so a
\* reader that failed does not stop the script.
CopyUnchecked(p) == At(p, "copy") /\ (Jump(p, "fstab") \/ Jump(p, "error"))

\* tar from /overlay to the new filesystem; its status is kept by hand, so a
\* reader that failed partway ends the script here.
CopyOverlay(p) ==
  /\ At(p, "copy")
  /\ \/ /\ Answers
        /\ Goto(p, "fstab")
        /\ ovl' = IF held THEN [ovl EXCEPT !.done = disk.done] ELSE ovl
        /\ UNCHANGED <<cmd, st, target, disk, marker, pidfile, guestVars, history>>
     \/ Jump(p, "error")

CommitFstab(p) ==
  /\ At(p, "fstab")
  /\ \/ /\ Answers
        /\ Goto(p, "saveExtroot")
        /\ disk' = IF held THEN [disk EXCEPT !.fstab = TRUE] ELSE disk
        /\ UNCHANGED <<cmd, st, target, ovl, marker, pidfile, guestVars, history>>
     \/ Jump(p, "error")

\* saveState: os.WriteFile truncates first, and an empty file reads as all
\* FALSE; then it writes. Either half may be the last thing a command does.
Truncate(p, from, to) ==
  /\ At(p, from)
  /\ \/ /\ Goto(p, to)
        /\ marker' = Blank
        /\ removing' = FALSE
        /\ UNCHANGED <<cmd, st, target, disk, ovl, pidfile, guestVars, slow>>
     \/ Jump(p, "error")

WriteState(p, from, value, to) ==
  /\ At(p, from)
  /\ Goto(p, to)
  /\ marker' = value
  /\ st' = [st EXCEPT ![p] = value]
  /\ UNCHANGED <<cmd, target, disk, ovl, pidfile, guestVars, history>>

SaveExtroot(p) ==
  \/ Truncate(p, "saveExtroot", "writeExtroot")
  \/ WriteState(p, "writeExtroot", [st[p] EXCEPT !.extroot = TRUE], "reboot1")

SaveProvisioned(p) ==
  \/ Truncate(p, "saveMarker", "writeMarker")
  \/ WriteState(p, "writeMarker", [st[p] EXCEPT !.prov = TRUE], "ok")

\* reboot(): the command's error says nothing, so it is ignored, also when the
\* guest never heard it.
RebootCommand(p, from, to) ==
  /\ At(p, from)
  /\ Goto(p, to)
  /\ \/ guest = "up" /\ guest' = "rebooting" /\ UNCHANGED slow
     \/ slow' = (slow \/ guest = "up") /\ UNCHANGED guest
  /\ UNCHANGED <<cmd, st, target, fileVars, root, held, booted, removing>>

\* Mutant of RebootGone: the wait for the router to go away is left out, and
\* the sshd that is still there answers ssh.Wait.
RebootGoneSkips(p, from, to) == At(p, from) /\ Jump(p, to)

\* The router is seen to go away, or 30 s pass; both go on to ssh.Wait, also
\* when the router has not gone down yet.
RebootGone(p, from, to) ==
  /\ At(p, from)
  /\ Goto(p, to)
  /\ slow' = (slow \/ guest = "rebooting")
  /\ UNCHANGED <<cmd, st, target, fileVars, guestVars, removing>>

RebootBack(p, from, to) ==
  /\ At(p, from)
  /\ \/ Answers /\ Jump(p, to)
     \/ ~Answers /\ Jump(p, "error")

\* The reboot onto the extroot, and the one that starts what was installed.
Reboot(p) ==
  \/ RebootCommand(p, "reboot1", "gone1")
  \/ RebootGone(p, "gone1", "back1")
  \/ RebootBack(p, "back1", "packages")
  \/ RebootCommand(p, "reboot2", "gone2")
  \/ RebootGone(p, "gone2", "back2")
  \/ RebootBack(p, "back2", "overlay")

\* The guest writes to its /overlay, which is in the directory's files unless
\* those were unlinked under QEMU.
Put(s) ==
  /\ disk' = IF held /\ root = "disk" THEN [disk EXCEPT !.done = @ \cup {s}] ELSE disk
  /\ ovl'  = IF held /\ root = "vdb" THEN [ovl EXCEPT !.done = @ \cup {s}] ELSE ovl

Install(p, s, from, to, failed) ==
  /\ At(p, from)
  /\ \/ /\ Answers
        /\ Goto(p, to)
        /\ Put(s)
        /\ UNCHANGED <<cmd, st, target, marker, pidfile, guestVars, history>>
     \/ Jump(p, failed)

\* Mutant of ApplyOverlay: an overlay that failed is only said.
OverlayOptional(p) == Install(p, "overlay", "overlay", "saveMarker", "saveMarker")

InstallPackages(p) == Install(p, "packages", "packages", "extra", "error")
InstallExtra(p)    == Install(p, "extra", "extra", "radios", "error")
SetupRadios(p)     == Install(p, "radios", "radios", "reboot2", "reboot2")
ApplyOverlay(p)    == Install(p, "overlay", "overlay", "saveMarker", "error")

-----------------------------------------------------------------------------
(* VM.Destroy *)

\* os.RemoveAll, in the directory's own order; anything may fail to go.
RemoveAll(p) ==
  /\ At(p, "rmdir")
  /\ \/ /\ \/ /\ \E f \in {"disk", "overlay", "state"} : Exists(f) /\ Unlink(f)
              /\ UNCHANGED pidfile
           \/ /\ pidfile # "absent" /\ pidfile' = "absent"
              /\ UNCHANGED <<disk, ovl, marker, held, history>>
        /\ UNCHANGED <<pc, cmd, st, target, guest, root, booted, slow>>
     \/ /\ ~disk.here /\ ~ovl.here /\ marker = Blank /\ pidfile = "absent"
        /\ Jump(p, "ok")
     \/ Jump(p, "error")

-----------------------------------------------------------------------------
(* Interruption: a signal, a panic, a closed terminal, a host going down *)

Interrupt(p) ==
  /\ pc[p] \notin Finished
  /\ Jump(p, "idle")

(* The guest and the host *)

BootDone ==
  /\ guest = "booting"
  /\ guest' = "up"
  /\ root' = BootRoot
  /\ booted' = On(BootRoot)
  /\ UNCHANGED <<procVars, fileVars, held, history>>

GuestReboots ==
  /\ guest = "rebooting"
  /\ guest' = "booting"
  /\ UNCHANGED <<procVars, fileVars, root, held, booted, history>>

\* A finished poweroff ends QEMU; QEMU may also die at any time.
QemuExits ==
  /\ QemuAlive
  /\ QemuGone
  /\ UNCHANGED <<pc, cmd, st, disk, ovl, marker, history>>

\* The host reboots, and hands the number in a pidfile it still has to
\* something else.
HostReboots ==
  /\ \A p \in Procs : pc[p] \in Finished
  /\ pidfile \in {"qemu", "dead"}
  /\ guest' = "off"
  /\ pidfile' = "other"
  /\ target' = [p \in Procs |-> "none"]
  /\ UNCHANGED <<pc, cmd, st, disk, ovl, marker, root, held, booted, history>>

OtherExits ==
  /\ pidfile = "other"
  /\ OtherGone
  /\ UNCHANGED <<pc, cmd, st, disk, ovl, marker, history>>

-----------------------------------------------------------------------------
\* One step of the command p runs.
CommandStep(p) ==
  \/ Check(p)
  \/ StopNotRunning(p) \/ StopPoweroff(p) \/ StopTerminate(p)
  \/ StopPoll(p) \/ StopGone(p) \/ StopKill(p)
  \/ Start(p) \/ RemoveDisks(p) \/ EnsureImage(p) \/ EnsureDisk(p)
  \/ EnsureOverlay(p) \/ Launch(p) \/ ProvCheck(p)
  \/ AwaitGuest(p) \/ Mkfs(p) \/ CopyOverlay(p) \/ CommitFstab(p)
  \/ SaveExtroot(p) \/ Reboot(p) \/ InstallPackages(p) \/ InstallExtra(p)
  \/ SetupRadios(p) \/ ApplyOverlay(p) \/ SaveProvisioned(p)
  \/ RemoveAll(p)

Next ==
  \/ \E p \in Procs, c \in Command : Begin(p, c)
  \/ \E p \in Procs : CommandStep(p)
  \/ \E p \in Procs : Interrupt(p)
  \/ BootDone \/ GuestReboots
  \/ QemuExits \/ HostReboots \/ OtherExits

Spec == Init /\ [][Next]_vars

\* The places where Provision waits for a command over ssh that has no deadline
\* of its own: it comes back, or QEMU goes and closes its connection. The extra
\* packages are downloaded first, which may wait too; see Download.
OverSsh == {"mkfs", "copy", "fstab", "packages", "extra", "radios", "overlay",
            "reboot1", "reboot2"}

MayHang(p) == \/ pc[p] \in OverSsh /\ QemuAlive
              \/ pc[p] = "extra"

\* Everywhere else a command that is running keeps running: Stop's poweroff and
\* its poll, the probes of ssh.Wait and of reboot have deadlines.
Fairness == \A p \in Procs : WF_vars(~MayHang(p) /\ CommandStep(p))

FairSpec == Spec /\ Fairness

-----------------------------------------------------------------------------
(* Properties *)

TypeOK ==
  /\ pc \in [Procs -> Label]
  /\ cmd \in [Procs -> Command]
  /\ st \in [Procs -> Marker]
  /\ target \in [Procs -> {"none", "qemu", "other"}]
  /\ disk \in [here : BOOLEAN, fstab : BOOLEAN, done : SUBSET Step]
  /\ ovl \in [here : BOOLEAN, fs : BOOLEAN, done : SUBSET Step]
  /\ marker \in Marker
  /\ pidfile \in {"absent", "dead", "qemu", "other"}
  /\ guest \in {"off", "booting", "up", "rebooting", "halting"}
  /\ root \in {"disk", "vdb"}
  /\ held \in BOOLEAN
  /\ booted \in SUBSET Step
  /\ removing \in BOOLEAN
  /\ slow \in BOOLEAN

\* owlab never loses a QEMU it started: while the process lives the pidfile is
\* there and names it, whatever was interrupted (vm.go PID, Start, Stop).
QemuTracked == QemuAlive => pidfile = "qemu"

\* As long as no removal of the disks was cut short, and no Provision was
\* deceived by a reboot that took more than its 30 s, a state.json that says
\* provisioned belongs to disks that boot into a complete router, whatever was
\* interrupted, killed or retried before (provision.go: the marker is last).
MarkerHonest ==
  marker.prov /\ ~removing /\ ~slow => Required \subseteq On(BootRoot)

\* The marker is written only when the filesystem the guest last booted onto has
\* every fatal step on it and that boot began with the packages there: the
\* reboot that starts them was not passed over, except when the router took
\* more than reboot()'s 30 s to go down or never heard the command. QEMU may be
\* gone by then, which Provision does not look at again.
MarkerLast ==
  [][~marker.prov /\ marker'.prov /\ ~slow =>
       Required \subseteq On(root) /\ "packages" \in booted]_vars

\* A rebuild that reports success leaves its marker, and disks that boot into a
\* complete router, also when it follows an interrupted removal or Provision.
\* It does not say that QEMU still runs; and after a reboot that was passed over
\* it speaks of the marker only.
RebuildProvisions ==
  [][\A p \in Procs : pc[p] # "ok" /\ pc'[p] = "ok" /\ cmd[p] = "rebuild" =>
       /\ marker'.prov /\ ~removing'
       /\ ~slow' => Required \subseteq On(BootRoot)']_vars

\* Extroot is enabled only over a complete copy: what the router had on its own
\* overlay is on the new one when the fstab entry is committed (setupExtroot
\* keeps the reader's status by hand for this).
ExtrootCopied ==
  [][\A p \in Procs : pc[p] = "fstab" /\ pc'[p] = "saveExtroot" =>
       disk.done \subseteq ovl.done]_vars

\* Every command ends, with success, with an error or interrupted, but for one that
\* stays for ever at a command over ssh to a QEMU that lives, or in a download. So a
\* `down` and a `down --purge` always end, and an `up` of a router that is set up.
CommandEnds ==
  \A p \in Procs : \/ pc[p] \notin Finished ~> pc[p] \in Finished
                   \/ <>[]MayHang(p)

-----------------------------------------------------------------------------
(***************************************************************************)
(* The inductive invariant, for one owlab process: what each place of a    *)
(* command may rely on.                                                    *)
(***************************************************************************)

\* Between these places no QEMU of this router lives.
QemuOffLabel == {"stopgone", "start", "rmdisk", "rmoverlay", "rmstate", "image",
                 "mkdisk", "mkoverlay", "launch", "rmdir"}

\* Provision from its first look at the marker on.
SettingUpLabel == {"wait"} \cup ExtrootLabel \cup RebootLabel \cup ProvisionLabel

\* The places where the guest's root is the one its disks ask for.
SettledLabel == {"provcheck", "wait", "gone1", "back1", "reboot2", "gone2", "back2"}
                  \cup ProvisionLabel

\* A rebuild with its removals behind it.
RebuiltLabel == {"image", "mkdisk", "mkoverlay", "launch", "provcheck"} \cup SettingUpLabel

AfterPackages == {"extra", "radios", "reboot2", "gone2", "back2", "overlay",
                  "saveMarker", "writeMarker"}
AfterExtra    == AfterPackages \ {"extra"}
AfterOverlay  == {"saveMarker", "writeMarker"}

StepsDone(p) ==
  /\ pc[p] \in AfterPackages => "packages" \in On(BootRoot)
  /\ pc[p] \in AfterExtra => "extra" \in On(BootRoot)
  /\ pc[p] \in AfterOverlay => "overlay" \in On(BootRoot)
  /\ pc[p] \in AfterOverlay => root = BootRoot /\ "packages" \in booted
  /\ pc[p] \in {"gone2", "back2", "overlay"} /\ guest = "up" => "packages" \in booted

ProcessInv(p) ==
  /\ pc[p] \in QemuOffLabel => guest = "off"
  /\ pc[p] = "start" => ~Running
  /\ pc[p] \in {"stopwait", "stopkill"} /\ QemuAlive => target[p] = "qemu"

GuestInv(p) ==
  /\ pc[p] \in SettingUpLabel \cup {"provcheck"} => guest # "halting"
  /\ pc[p] \in (SettingUpLabel \cup {"provcheck"}) \ {"gone1", "gone2"} =>
       slow \/ guest # "rebooting"
  /\ pc[p] \in SettledLabel /\ guest = "up" => slow \/ root = BootRoot

StepsInv(p) ==
  /\ pc[p] \in SettingUpLabel => ~marker.prov
  /\ pc[p] \in SettingUpLabel \ {"wait"} => ~st[p].prov
  /\ slow \/ StepsDone(p)

\* A rebuild is past its removals from the image on, and only a purge removes the
\* directory; what the copy of the overlay put on the second disk stays there.
RemovalInv(p) ==
  /\ pc[p] = "rmdir" => cmd[p] = "purge"
  /\ cmd[p] = "rebuild" /\ pc[p] \in RebuiltLabel => ~removing
  /\ pc[p] = "fstab" => disk.done \subseteq ovl.done

\* A disk that is not there holds nothing, and a QEMU has its disk.
DiskInv == /\ ~disk.here => disk = NoDisk
           /\ QemuAlive => disk.here /\ held

InvAt(p) == /\ DiskInv /\ QemuTracked /\ MarkerHonest
            /\ ProcessInv(p) /\ GuestInv(p) /\ StepsInv(p)

IInv == TypeOK /\ \A p \in Procs : InvAt(p) /\ RemovalInv(p)

-----------------------------------------------------------------------------
(* What the documents say of the program, and the program does not do *)

\* commands.go, startVM: "boots one fidelity-vm router and sets it up if it is
\* new". An `up` that finds QEMU alive returns success before it looks at the
\* marker, so a Provision that was interrupted is never taken up again.
UpSetsUp ==
  [][\A p \in Procs : pc[p] # "ok" /\ pc'[p] = "ok" /\ cmd[p] = "up" =>
       marker'.prov]_vars
=============================================================================
