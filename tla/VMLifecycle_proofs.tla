------------------------- MODULE VMLifecycle_proofs -------------------------
(***************************************************************************)
(* Proofs about VMLifecycle: its type invariant, for any set of owlab      *)
(* processes, and its safety properties for one command at a time.         *)
(***************************************************************************)
EXTENDS VMLifecycle, TLAPS

DiskType == [here : BOOLEAN, fstab : BOOLEAN, done : SUBSET Step]
OverlayType == [here : BOOLEAN, fs : BOOLEAN, done : SUBSET Step]

\* The places of a command, one by one.
LEMMA Labels ==
  {"idle", "ok", "error", "check", "provcheck", "wait", "rmdir",
   "stop", "stopwait", "stopgone", "stopkill",
   "start", "rmdisk", "rmoverlay", "rmstate", "image", "mkdisk", "mkoverlay", "launch",
   "mkfs", "copy", "fstab", "saveExtroot", "writeExtroot",
   "reboot1", "gone1", "back1", "reboot2", "gone2", "back2",
   "packages", "extra", "radios", "overlay", "saveMarker", "writeMarker"} \subseteq Label
BY DEF Label, Finished, StopLabel, StartLabel, ExtrootLabel, RebootLabel, ProvisionLabel

\* The members of the small sets.
LEMMA Members ==
  /\ "packages" \in Step /\ "extra" \in Step /\ "radios" \in Step /\ "overlay" \in Step
  /\ Blank \in Marker
BY DEF Step, Blank, Marker

-----------------------------------------------------------------------------
(* Type correctness *)

\* The first state has the right shape.
LEMMA TypeInit == Init => TypeOK
<1> SUFFICES ASSUME Init PROVE TypeOK
  OBVIOUS
<1>1. /\ pc \in [Procs -> Label] /\ cmd \in [Procs -> Command]
      /\ st \in [Procs -> Marker] /\ target \in [Procs -> {"none", "qemu", "other"}]
  BY Labels, Members DEF Init, Command
<1>2. disk \in DiskType
  BY DEF Init, NoDisk, DiskType
<1>3. ovl \in OverlayType
  BY DEF Init, NoOverlay, OverlayType
<1>4. QED
  BY <1>1, <1>2, <1>3, Members DEF Init, TypeOK, DiskType, OverlayType

\* Unlinking a file leaves the others, and a file that is gone is blank.
LEMMA UnlinkType ==
  ASSUME TypeOK, NEW f, Unlink(f)
  PROVE  /\ disk' \in DiskType /\ ovl' \in OverlayType
         /\ marker' \in Marker /\ held' \in BOOLEAN /\ removing' \in BOOLEAN
BY Members DEF TypeOK, Unlink, NoDisk, NoOverlay, DiskType, OverlayType

\* A step written to the guest's filesystem is one more step done on it.
LEMMA PutType ==
  ASSUME TypeOK, NEW s \in Step, Put(s)
  PROVE  disk' \in DiskType /\ ovl' \in OverlayType
BY DEF TypeOK, Put, DiskType, OverlayType

\* Every step keeps the shape of every variable.
LEMMA TypeNext == TypeOK /\ [Next]_vars => TypeOK'
<1> SUFFICES ASSUME TypeOK, [Next]_vars PROVE TypeOK'
  OBVIOUS
<1> USE Labels, Members DEF TypeOK, Jump, Goto, fileVars, guestVars, history
<1>1. ASSUME NEW p \in Procs, NEW c \in Command, Begin(p, c) PROVE TypeOK'
  BY <1>1 DEF Begin
<1>2. ASSUME NEW p \in Procs, Check(p) PROVE TypeOK'
  BY <1>2 DEF Check, Command
<1>3. ASSUME NEW p \in Procs, StopNotRunning(p) PROVE TypeOK'
  BY <1>3 DEF StopNotRunning, AfterStop
<1>4. ASSUME NEW p \in Procs, StopPoweroff(p) PROVE TypeOK'
  BY <1>4 DEF StopPoweroff, Running
<1>5. ASSUME NEW p \in Procs, StopTerminate(p) PROVE TypeOK'
  <2>1. pidfile \in {"qemu", "other"}
    BY <1>5 DEF StopTerminate, Running
  <2>2. CASE pidfile = "qemu"
    BY <1>5, <2>2 DEF StopTerminate, Signal, QemuGone
  <2>3. CASE pidfile = "other"
    BY <1>5, <2>3 DEF StopTerminate, Signal, OtherGone
  <2>4. QED
    BY <2>1, <2>2, <2>3
<1>6. ASSUME NEW p \in Procs, StopPoll(p) PROVE TypeOK'
  BY <1>6 DEF StopPoll
<1>7. ASSUME NEW p \in Procs, StopGone(p) PROVE TypeOK'
  BY <1>7 DEF StopGone, AfterStop
<1>8. ASSUME NEW p \in Procs, StopKill(p) PROVE TypeOK'
  BY <1>8 DEF StopKill
<1>9. ASSUME NEW p \in Procs, Start(p) PROVE TypeOK'
  BY <1>9 DEF Start
<1>10. ASSUME NEW p \in Procs, RemoveDisks(p) PROVE TypeOK'
  <2>1. ASSUME NEW from, NEW f, NEW to \in Label, RemoveFile(p, from, f, to) PROVE TypeOK'
    BY <2>1, UnlinkType DEF RemoveFile, DiskType, OverlayType
  <2>2. QED
    BY <1>10, <2>1 DEF RemoveDisks
<1>11. ASSUME NEW p \in Procs, EnsureImage(p) PROVE TypeOK'
  BY <1>11 DEF EnsureImage
<1>12. ASSUME NEW p \in Procs, EnsureDisk(p) PROVE TypeOK'
  <2>0. NewDisk \in DiskType
    BY DEF NewDisk, DiskType
  <2>1. disk' \in DiskType
    BY <1>12, <2>0 DEF EnsureDisk, DiskType
  <2>2. QED
    BY <1>12, <2>1 DEF EnsureDisk, DiskType
<1>13. ASSUME NEW p \in Procs, EnsureOverlay(p) PROVE TypeOK'
  <2>0. NewOverlay \in OverlayType
    BY DEF NewOverlay, OverlayType
  <2>1. ovl' \in OverlayType
    BY <1>13, <2>0 DEF EnsureOverlay, OverlayType
  <2>2. QED
    BY <1>13, <2>1 DEF EnsureOverlay, OverlayType
<1>14. ASSUME NEW p \in Procs, Launch(p) PROVE TypeOK'
  BY <1>14 DEF Launch
<1>15. ASSUME NEW p \in Procs, ProvCheck(p) PROVE TypeOK'
  BY <1>15 DEF ProvCheck
<1>16. ASSUME NEW p \in Procs, AwaitGuest(p) PROVE TypeOK'
  BY <1>16 DEF AwaitGuest
<1>17. ASSUME NEW p \in Procs, Mkfs(p) \/ CopyOverlay(p) PROVE TypeOK'
  <2>1. ovl' \in OverlayType
    BY <1>17 DEF Mkfs, CopyOverlay, OverlayType
  <2>2. QED
    BY <1>17, <2>1 DEF Mkfs, CopyOverlay, OverlayType
<1>18. ASSUME NEW p \in Procs, CommitFstab(p) PROVE TypeOK'
  <2>1. disk' \in DiskType
    BY <1>18 DEF CommitFstab, DiskType
  <2>2. pc' \in [Procs -> Label]
    BY <1>18 DEF CommitFstab
  <2>3. QED
    BY <1>18, <2>1, <2>2 DEF CommitFstab, DiskType
<1>19. ASSUME NEW p \in Procs, SaveExtroot(p) \/ SaveProvisioned(p) PROVE TypeOK'
  <2>1. ASSUME NEW from, NEW to \in Label, Truncate(p, from, to) PROVE TypeOK'
    BY <2>1 DEF Truncate
  <2>2. ASSUME NEW from, NEW v \in Marker, NEW to \in Label, WriteState(p, from, v, to)
        PROVE TypeOK'
    BY <2>2 DEF WriteState
  <2>3. /\ [st[p] EXCEPT !.extroot = TRUE] \in Marker
        /\ [st[p] EXCEPT !.prov = TRUE] \in Marker
    BY DEF Marker
  <2>4. QED
    BY <1>19, <2>1, <2>2, <2>3 DEF SaveExtroot, SaveProvisioned
<1>20. ASSUME NEW p \in Procs, Reboot(p) PROVE TypeOK'
  <2>1. ASSUME NEW from, NEW to \in Label,
               \/ RebootCommand(p, from, to) \/ RebootGone(p, from, to)
               \/ RebootBack(p, from, to)
        PROVE TypeOK'
    BY <2>1 DEF RebootCommand, RebootGone, RebootBack
  <2>2. QED
    BY <1>20, <2>1 DEF Reboot
<1>21. ASSUME NEW p \in Procs, InstallPackages(p) \/ InstallExtra(p) \/ SetupRadios(p)
                                 \/ ApplyOverlay(p)
       PROVE TypeOK'
  <2>1. ASSUME NEW s \in Step, NEW from, NEW to \in Label, NEW failed \in Label,
               Install(p, s, from, to, failed)
        PROVE TypeOK'
    BY <2>1, PutType DEF Install, DiskType, OverlayType
  <2>2. QED
    BY <1>21, <2>1 DEF InstallPackages, InstallExtra, SetupRadios, ApplyOverlay
<1>22. ASSUME NEW p \in Procs, RemoveAll(p) PROVE TypeOK'
  BY <1>22, UnlinkType DEF RemoveAll, DiskType, OverlayType
<1>23. ASSUME NEW p \in Procs, Interrupt(p) PROVE TypeOK'
  BY <1>23 DEF Interrupt
<1>24. CASE BootDone
  BY <1>24 DEF BootDone, procVars, BootRoot, On
<1>25. CASE GuestReboots
  BY <1>25 DEF GuestReboots, procVars
<1>26. CASE QemuExits
  BY <1>26 DEF QemuExits, QemuGone
<1>27. CASE HostReboots
  BY <1>27 DEF HostReboots
<1>28. CASE OtherExits
  BY <1>28 DEF OtherExits, OtherGone
<1>29. CASE UNCHANGED vars
  BY <1>29 DEF vars, procVars
<1>30. QED
  BY <1>1, <1>2, <1>3, <1>4, <1>5, <1>6, <1>7, <1>8, <1>9, <1>10, <1>11, <1>12, <1>13,
     <1>14, <1>15, <1>16, <1>17, <1>18, <1>19, <1>20, <1>21, <1>22, <1>23, <1>24, <1>25,
     <1>26, <1>27, <1>28, <1>29 DEF Next, CommandStep

\* Every variable keeps the shape the code gives it, for any set of processes.
THEOREM TypeCorrect == Spec => []TypeOK
<1>1. QED
  BY TypeInit, TypeNext, PTL DEF Spec

-----------------------------------------------------------------------------
(***************************************************************************)
(* One command at a time. The invariant says, for each place a command can *)
(* be at, what it may rely on; one leaf per action.                        *)
(***************************************************************************)
OneCommand == \A p, q \in Procs : p = q

\* What an EXCEPT leaves at the process it names.
LEMMA GotoAt ==
  ASSUME TypeOK, NEW p \in Procs, NEW l, Goto(p, l)
  PROVE  pc'[p] = l
BY DEF TypeOK, Goto

LEMMA TargetAt ==
  ASSUME TypeOK, NEW p \in Procs, NEW t, target' = [target EXCEPT ![p] = t]
  PROVE  target'[p] = t
BY DEF TypeOK

LEMMA StAt ==
  ASSUME TypeOK, NEW p \in Procs, NEW t, st' = [st EXCEPT ![p] = t]
  PROVE  st'[p] = t
BY DEF TypeOK

\* The type invariant, at one process.
LEMMA LocalType ==
  ASSUME TypeOK, NEW p \in Procs
  PROVE  /\ cmd[p] \in Command /\ target[p] \in {"none", "qemu", "other"}
         /\ st[p] \in Marker /\ marker \in Marker
BY DEF TypeOK

\* What saveState writes: the copy, with one field set.
LEMMA MarkerFields ==
  /\ ~Blank.prov /\ ~Blank.extroot
  /\ \A m \in Marker : /\ [m EXCEPT !.extroot = TRUE].prov = m.prov
                       /\ [m EXCEPT !.prov = TRUE].prov
BY DEF Blank, Marker

\* A step put on the root a boot would take is on it, and the root stays it.
LEMMA PutRoot ==
  ASSUME TypeOK, held, NEW s \in Step, Put(s), root = BootRoot
  PROVE  /\ BootRoot' = BootRoot /\ On(BootRoot)' = On(BootRoot) \cup {s}
         /\ disk'.here = disk.here
BY DEF TypeOK, Put, BootRoot, On

\* Writing to the guest's filesystem makes no disk appear or vanish.
LEMMA PutKeeps ==
  ASSUME TypeOK, NEW s \in Step, Put(s)
  PROVE  disk'.here = disk.here
BY DEF TypeOK, Put

\* Init satisfies the invariant of every place.
LEMMA IInit == Init => \A p \in Procs : InvAt(p) /\ RemovalInv(p)
BY MarkerFields
   DEF Init, InvAt, RemovalInv, RebuiltLabel, DiskInv, QemuTracked, MarkerHonest,
       ProcessInv, GuestInv, StepsInv, StepsDone,
       QemuOffLabel, SettingUpLabel, SettledLabel, AfterPackages, AfterExtra, AfterOverlay,
       ExtrootLabel, RebootLabel, ProvisionLabel, Blank, QemuAlive

\* A step of the only process, of the guest or of the host keeps it.
LEMMA IStep ==
  ASSUME TypeOK, NEW p \in Procs, InvAt(p),
         \/ \E c \in Command : Begin(p, c)
         \/ CommandStep(p) \/ Interrupt(p)
         \/ BootDone \/ GuestReboots \/ QemuExits \/ HostReboots \/ OtherExits
  PROVE  InvAt(p)'
<1> USE GotoAt, TargetAt, StAt, LocalType, MarkerFields
    DEF InvAt, DiskInv, QemuTracked, MarkerHonest, ProcessInv, GuestInv, StepsInv, StepsDone,
        QemuOffLabel, SettingUpLabel, SettledLabel, AfterPackages, AfterExtra, AfterOverlay,
        ExtrootLabel, RebootLabel, ProvisionLabel, Finished, Running, QemuAlive, Jump, At,
        fileVars, guestVars, history, procVars, Answers, MayReach, MayMiss, Required, BootRoot, On
<1>1. ASSUME NEW c \in Command, Begin(p, c) PROVE InvAt(p)'
  BY <1>1 DEF Begin
<1>2. CASE Check(p)
  BY <1>2 DEF Check, Command
<1>3. CASE StopNotRunning(p)
  BY <1>3 DEF StopNotRunning, AfterStop
<1>4. CASE StopPoweroff(p)
  BY <1>4 DEF StopPoweroff
<1>5. CASE StopPoll(p)
  BY <1>5 DEF StopPoll
<1>6. CASE StopGone(p)
  BY <1>6 DEF StopGone, AfterStop
<1>7. CASE StopKill(p)
  BY <1>7 DEF StopKill
<1>8. CASE Start(p)
  BY <1>8 DEF Start
<1>9. CASE RemoveDisks(p)
  BY <1>9 DEF RemoveDisks, RemoveFile, Unlink, NoDisk, NoOverlay, Blank
<1>10. CASE EnsureImage(p)
  BY <1>10 DEF EnsureImage
<1>11. CASE EnsureDisk(p)
  BY <1>11 DEF EnsureDisk, NewDisk, NoDisk
<1>12. CASE EnsureOverlay(p)
  BY <1>12 DEF EnsureOverlay, NewOverlay
<1>13. CASE Launch(p)
  BY <1>13 DEF Launch
<1>14. CASE ProvCheck(p)
  BY <1>14 DEF ProvCheck
<1>15. CASE AwaitGuest(p)
  BY <1>15 DEF AwaitGuest
<1>16. CASE Mkfs(p)
  BY <1>16 DEF Mkfs, VdbMounted
<1>17. CASE CopyOverlay(p)
  BY <1>17 DEF CopyOverlay
<1>18. CASE SaveExtroot(p)
  BY <1>18 DEF SaveExtroot, Truncate, WriteState, Blank
<1>19. CASE SaveProvisioned(p)
  BY <1>19 DEF SaveProvisioned, Truncate, WriteState, Blank
<1>20. CASE Reboot(p)
  BY <1>20 DEF Reboot, RebootCommand, RebootGone, RebootBack
<1>21. CASE InstallPackages(p)
  <2>1. CASE slow
    BY <1>21, <2>1, PutKeeps, Members DEF InstallPackages, Install, history
  <2>2. CASE ~slow
    BY <1>21, <2>2, PutRoot, Members DEF InstallPackages, Install, history
  <2>3. QED
    BY <2>1, <2>2
<1>22. CASE InstallExtra(p)
  <2>1. CASE slow
    BY <1>22, <2>1, PutKeeps, Members DEF InstallExtra, Install, history
  <2>2. CASE ~slow
    BY <1>22, <2>2, PutRoot, Members DEF InstallExtra, Install, history
  <2>3. QED
    BY <2>1, <2>2
<1>23. CASE SetupRadios(p)
  <2>1. CASE slow
    BY <1>23, <2>1, PutKeeps, Members DEF SetupRadios, Install, history
  <2>2. CASE ~slow
    BY <1>23, <2>2, PutRoot, Members DEF SetupRadios, Install, history
  <2>3. QED
    BY <2>1, <2>2
<1>24. CASE ApplyOverlay(p)
  <2>1. CASE slow
    BY <1>24, <2>1, PutKeeps, Members DEF ApplyOverlay, Install, history
  <2>2. CASE ~slow
    BY <1>24, <2>2, PutRoot, Members DEF ApplyOverlay, Install, history
  <2>3. QED
    BY <2>1, <2>2
<1>25. CASE RemoveAll(p)
  BY <1>25 DEF RemoveAll, Unlink, NoDisk, NoOverlay, Blank
<1>26. CASE Interrupt(p)
  BY <1>26 DEF Interrupt
<1>27. CASE BootDone
  BY <1>27 DEF BootDone
<1>28. CASE GuestReboots
  BY <1>28 DEF GuestReboots
<1>29. CASE QemuExits
  BY <1>29 DEF QemuExits, QemuGone
<1>30. CASE HostReboots
  BY <1>30 DEF HostReboots
<1>31. CASE OtherExits
  BY <1>31 DEF OtherExits, OtherGone
<1>32. CASE StopTerminate(p)
  <2>1. CASE Signal(pidfile)
    <3>1. CASE pidfile = "qemu"
      BY <1>32, <2>1, <3>1 DEF StopTerminate, Signal, QemuGone
    <3>2. CASE pidfile = "other"
      BY <1>32, <2>1, <3>2 DEF StopTerminate, Signal, OtherGone
    <3>3. QED
      BY <1>32, <3>1, <3>2 DEF StopTerminate
  <2>2. CASE target' = [target EXCEPT ![p] = pidfile] /\ UNCHANGED <<pidfile, guestVars>>
    BY <1>32, <2>2 DEF StopTerminate
  <2>3. QED
    BY <1>32, <2>1, <2>2 DEF StopTerminate
<1>33. CASE CommitFstab(p)
  <2>1. CASE Jump(p, "error")
    BY <1>33, <2>1 DEF CommitFstab
  <2>2. CASE disk' = IF held THEN [disk EXCEPT !.fstab = TRUE] ELSE disk
    <3>1. disk \in DiskType
      BY DEF TypeOK, DiskType
    <3>2. disk'.here = disk.here
      BY <2>2, <3>1 DEF DiskType
    <3>3. QED
      BY <1>33, <2>2, <3>1, <3>2 DEF CommitFstab, DiskType
  <2>3. QED
    BY <1>33, <2>1, <2>2 DEF CommitFstab
<1> HIDE DEF InvAt
<1>34. QED
  BY <1>1, <1>2, <1>3, <1>4, <1>5, <1>6, <1>7, <1>8, <1>9, <1>10, <1>11, <1>12, <1>13,
     <1>14, <1>15, <1>16, <1>17, <1>18, <1>19, <1>20, <1>21, <1>22, <1>23, <1>24, <1>25,
     <1>26, <1>27, <1>28, <1>29, <1>30, <1>31, <1>32, <1>33
     DEF CommandStep

\* Neither does one disturb what the removals and the copy have left.
LEMMA RemovalStep ==
  ASSUME TypeOK, NEW p \in Procs, InvAt(p), RemovalInv(p),
         \/ \E c \in Command : Begin(p, c)
         \/ CommandStep(p) \/ Interrupt(p)
         \/ BootDone \/ GuestReboots \/ QemuExits \/ HostReboots \/ OtherExits
  PROVE  RemovalInv(p)'
<1> USE GotoAt, LocalType
    DEF RemovalInv, RebuiltLabel, SettingUpLabel, ExtrootLabel, RebootLabel, ProvisionLabel,
        Finished, Jump, At, fileVars, guestVars, history, procVars
<1>1. CASE \E c \in Command : Begin(p, c)
  BY <1>1 DEF Begin
<1>2. CASE Check(p)
  BY <1>2 DEF Check, Command
<1>3. CASE \/ StopNotRunning(p) \/ StopPoweroff(p) \/ StopTerminate(p)
           \/ StopPoll(p) \/ StopGone(p) \/ StopKill(p)
  BY <1>3 DEF StopNotRunning, StopPoweroff, StopTerminate, StopPoll, StopGone, StopKill,
              AfterStop, Command
<1>4. CASE Start(p)
  BY <1>4 DEF Start, InvAt, ProcessInv
<1>5. CASE RemoveDisks(p)
  BY <1>5 DEF RemoveDisks, RemoveFile, Unlink
<1>6. CASE EnsureImage(p) \/ EnsureDisk(p) \/ EnsureOverlay(p) \/ Launch(p) \/ ProvCheck(p)
  BY <1>6 DEF EnsureImage, EnsureDisk, EnsureOverlay, Launch, ProvCheck
<1>7. CASE AwaitGuest(p) \/ Mkfs(p) \/ CommitFstab(p)
  BY <1>7 DEF AwaitGuest, Mkfs, CommitFstab
<1>8. CASE CopyOverlay(p)
  BY <1>8 DEF CopyOverlay, TypeOK, InvAt, DiskInv, Answers, QemuAlive
<1>9. CASE SaveExtroot(p) \/ SaveProvisioned(p)
  BY <1>9 DEF SaveExtroot, SaveProvisioned, Truncate, WriteState
<1>10. CASE Reboot(p)
  BY <1>10 DEF Reboot, RebootCommand, RebootGone, RebootBack
<1>11. CASE InstallPackages(p) \/ InstallExtra(p) \/ SetupRadios(p) \/ ApplyOverlay(p)
  BY <1>11 DEF InstallPackages, InstallExtra, SetupRadios, ApplyOverlay, Install
<1>12. CASE RemoveAll(p)
  BY <1>12 DEF RemoveAll
<1>13. CASE Interrupt(p)
  BY <1>13 DEF Interrupt
<1>14. CASE BootDone \/ GuestReboots \/ QemuExits \/ HostReboots \/ OtherExits
  BY <1>14 DEF BootDone, GuestReboots, QemuExits, HostReboots, OtherExits, QemuGone, OtherGone
<1>15. QED
  BY <1>1, <1>2, <1>3, <1>4, <1>5, <1>6, <1>7, <1>8, <1>9, <1>10, <1>11, <1>12, <1>13, <1>14
     DEF CommandStep

\* The invariant is inductive.
LEMMA INext ==
  ASSUME OneCommand
  PROVE  IInv /\ [Next]_vars => IInv'
<1> SUFFICES ASSUME IInv, [Next]_vars PROVE IInv'
  OBVIOUS
<1>1. TypeOK /\ TypeOK'
  BY TypeNext DEF IInv
<1>2. ASSUME NEW p \in Procs PROVE InvAt(p)' /\ RemovalInv(p)'
  <2>1. InvAt(p) /\ RemovalInv(p)
    BY DEF IInv
  <2>2. CASE UNCHANGED vars
    BY <2>1, <2>2
       DEF vars, procVars, fileVars, guestVars, history, InvAt, DiskInv, QemuTracked, MarkerHonest,
           ProcessInv, GuestInv, StepsInv, StepsDone, RemovalInv, Running, QemuAlive, BootRoot, On
  <2>3. CASE Next
    <3>1. \/ \E c \in Command : Begin(p, c)
          \/ CommandStep(p) \/ Interrupt(p)
          \/ BootDone \/ GuestReboots \/ QemuExits \/ HostReboots \/ OtherExits
      BY <2>3 DEF Next, OneCommand
    <3>2. QED
      BY <1>1, <2>1, <3>1, IStep, RemovalStep
  <2>4. QED
    BY <2>2, <2>3
<1>3. QED
  BY <1>1, <1>2 DEF IInv

\* It holds in every reachable state.
THEOREM Invariance ==
  ASSUME OneCommand
  PROVE  Spec => []IInv
<1>1. Init => IInv
  BY TypeInit, IInit DEF IInv
<1>2. IInv /\ [Next]_vars => IInv'
  BY INext
<1>3. QED
  BY <1>1, <1>2, PTL DEF Spec

\* While a QEMU of this router lives, the pidfile is there and names it.
THEOREM Tracked ==
  ASSUME OneCommand
  PROVE  Spec => []QemuTracked
<1>1. IInv => QemuTracked
  BY ConfigAssumption DEF IInv, InvAt
<1>2. QED
  BY <1>1, Invariance, PTL

\* A marker that no removal in progress has orphaned, and no passed-over reboot
\* has deceived, is that of disks that boot into a complete router.
THEOREM Honest ==
  ASSUME OneCommand
  PROVE  Spec => []MarkerHonest
<1>1. IInv => MarkerHonest
  BY ConfigAssumption DEF IInv, InvAt
<1>2. QED
  BY <1>1, Invariance, PTL

\* The marker is the last thing Provision writes: unless a reboot was passed
\* over, it turns true only when the root of the last boot has every fatal step,
\* and that boot began with the packages there.
THEOREM Last ==
  ASSUME OneCommand
  PROVE  Spec => MarkerLast
<1> DEFINE Step1 == ~marker.prov /\ marker'.prov /\ ~slow =>
                      Required \subseteq On(root) /\ "packages" \in booted
<1>1. ASSUME IInv, [Next]_vars PROVE [Step1]_vars
  <2> SUFFICES ASSUME ~marker.prov, marker'.prov, ~slow
               PROVE  Required \subseteq On(root) /\ "packages" \in booted
    OBVIOUS
  <2>1. PICK p \in Procs : SaveExtroot(p) \/ SaveProvisioned(p)
    <3> USE <1>1, MarkerFields DEF Jump, fileVars, guestVars, history, procVars
    <3>1. ASSUME NEW q \in Procs, CommandStep(q)
          PROVE  SaveExtroot(q) \/ SaveProvisioned(q)
      <4>0. ~Check(q)
        <5>1. cmd[q] \in Command
          BY <1>1, LocalType DEF IInv
        <5>2. QED
          BY <5>1 DEF Check, Command
      <4>1. ~(StopNotRunning(q) \/ StopPoweroff(q) \/ StopTerminate(q)
              \/ StopPoll(q) \/ StopGone(q) \/ StopKill(q))
        BY DEF StopNotRunning, StopPoweroff, StopTerminate, StopPoll, StopGone, StopKill
      <4>2. ~(Start(q) \/ RemoveDisks(q) \/ RemoveAll(q))
        BY DEF Start, RemoveDisks, RemoveFile, RemoveAll, Unlink
      <4>3. ~(EnsureImage(q) \/ EnsureDisk(q) \/ EnsureOverlay(q) \/ Launch(q)
              \/ ProvCheck(q))
        BY DEF EnsureImage, EnsureDisk, EnsureOverlay, Launch, ProvCheck
      <4>4. ~(AwaitGuest(q) \/ Mkfs(q) \/ CopyOverlay(q) \/ CommitFstab(q))
        BY DEF AwaitGuest, Mkfs, CopyOverlay, CommitFstab
      <4>5. ~Reboot(q)
        BY DEF Reboot, RebootCommand, RebootGone, RebootBack
      <4>6. ~(InstallPackages(q) \/ InstallExtra(q) \/ SetupRadios(q) \/ ApplyOverlay(q))
        BY DEF InstallPackages, InstallExtra, SetupRadios, ApplyOverlay, Install
      <4>7. QED
        BY <3>1, <4>0, <4>1, <4>2, <4>3, <4>4, <4>5, <4>6 DEF CommandStep
    <3>2. ASSUME NEW q \in Procs, Interrupt(q) \/ \E c \in Command : Begin(q, c)
          PROVE  FALSE
      BY <3>2 DEF Interrupt, Begin
    <3>3. QED
      BY <3>1, <3>2 DEF Next, vars, BootDone, GuestReboots, QemuExits, HostReboots, OtherExits
  <2>2. TypeOK /\ InvAt(p)
    BY <1>1 DEF IInv
  <2>3. pc[p] = "writeMarker"
    BY <2>1, <2>2, LocalType, MarkerFields
       DEF SaveExtroot, SaveProvisioned, Truncate, WriteState, At, Jump, fileVars,
           InvAt, StepsInv, StepsDone, SettingUpLabel, ExtrootLabel
  <2>4. QED
    BY <2>2, <2>3 DEF InvAt, StepsInv, StepsDone, AfterOverlay, AfterPackages, AfterExtra, Required
<1>2. QED
  BY <1>1, Invariance, PTL DEF Spec, MarkerLast

\* A step of a command moves that command alone.
LEMMA OthersStay ==
  ASSUME TypeOK, NEW p \in Procs, NEW q \in Procs, p # q,
         CommandStep(q) \/ Interrupt(q) \/ \E c \in Command : Begin(q, c)
  PROVE  pc'[p] = pc[p]
<1> USE DEF TypeOK, Jump, Goto
<1>1. CASE Check(q)
  <2>1. cmd[q] \in Command
    BY LocalType
  <2>2. QED
    BY <1>1, <2>1 DEF Check, Command
<1>2. CASE \/ StopNotRunning(q) \/ StopPoweroff(q) \/ StopTerminate(q)
           \/ StopPoll(q) \/ StopGone(q) \/ StopKill(q)
  BY <1>2 DEF StopNotRunning, StopPoweroff, StopTerminate, StopPoll, StopGone, StopKill
<1>3. CASE Start(q) \/ RemoveDisks(q) \/ RemoveAll(q)
  BY <1>3 DEF Start, RemoveDisks, RemoveFile, RemoveAll
<1>4. CASE EnsureImage(q) \/ EnsureDisk(q) \/ EnsureOverlay(q) \/ Launch(q) \/ ProvCheck(q)
  BY <1>4 DEF EnsureImage, EnsureDisk, EnsureOverlay, Launch, ProvCheck
<1>5. CASE \/ AwaitGuest(q) \/ Mkfs(q) \/ CopyOverlay(q) \/ CommitFstab(q)
           \/ SaveExtroot(q) \/ SaveProvisioned(q)
  BY <1>5 DEF AwaitGuest, Mkfs, CopyOverlay, CommitFstab, SaveExtroot, SaveProvisioned,
              Truncate, WriteState
<1>6. CASE Reboot(q)
  BY <1>6 DEF Reboot, RebootCommand, RebootGone, RebootBack
<1>7. CASE InstallPackages(q) \/ InstallExtra(q) \/ SetupRadios(q) \/ ApplyOverlay(q)
  BY <1>7 DEF InstallPackages, InstallExtra, SetupRadios, ApplyOverlay, Install
<1>8. CASE Interrupt(q) \/ \E c \in Command : Begin(q, c)
  BY <1>8 DEF Interrupt, Begin
<1>9. QED
  BY <1>1, <1>2, <1>3, <1>4, <1>5, <1>6, <1>7, <1>8 DEF CommandStep

\* A place changes only by a step of its own command.
LEMMA OwnStep ==
  ASSUME TypeOK, [Next]_vars, NEW p \in Procs, pc'[p] # pc[p]
  PROVE  CommandStep(p) \/ Interrupt(p) \/ \E c \in Command : Begin(p, c)
<1>1. \E q \in Procs : CommandStep(q) \/ Interrupt(q) \/ \E c \in Command : Begin(q, c)
  BY DEF Next, vars, procVars, BootDone, GuestReboots, QemuExits, HostReboots, OtherExits
<1>2. QED
  BY <1>1, OthersStay

\* How a rebuild reports success: it finds its router provisioned, or it has just
\* written the marker.
LEMMA RebuildEnds ==
  ASSUME TypeOK, NEW p \in Procs, InvAt(p), RemovalInv(p),
         pc[p] # "ok", pc'[p] = "ok", cmd[p] = "rebuild",
         CommandStep(p) \/ Interrupt(p) \/ \E c \in Command : Begin(p, c)
  PROVE  ProvCheck(p) \/ (SaveProvisioned(p) /\ pc[p] = "writeMarker")
<1> USE GotoAt DEF Jump, At
<1>1. ~(Interrupt(p) \/ \E c \in Command : Begin(p, c))
  BY DEF Interrupt, Begin
<1>2. ~(Check(p) \/ StopNotRunning(p) \/ StopPoweroff(p) \/ StopTerminate(p)
        \/ StopPoll(p) \/ StopGone(p) \/ StopKill(p))
  BY DEF Check, AfterStop, StopNotRunning, StopPoweroff, StopTerminate, StopPoll, StopGone,
         StopKill
<1>3. ~(Start(p) \/ RemoveDisks(p) \/ RemoveAll(p))
  BY DEF Start, RemoveDisks, RemoveFile, RemoveAll, RemovalInv
<1>4. ~(EnsureImage(p) \/ EnsureDisk(p) \/ EnsureOverlay(p) \/ Launch(p))
  BY DEF EnsureImage, EnsureDisk, EnsureOverlay, Launch
<1>5. ~(AwaitGuest(p) \/ Mkfs(p) \/ CopyOverlay(p) \/ CommitFstab(p))
  BY DEF AwaitGuest, Mkfs, CopyOverlay, CommitFstab
<1>6. ~(SaveExtroot(p) \/ Reboot(p))
  BY DEF SaveExtroot, Truncate, WriteState, Reboot, RebootCommand, RebootGone, RebootBack
<1>7. ~(InstallPackages(p) \/ InstallExtra(p) \/ SetupRadios(p) \/ ApplyOverlay(p))
  BY DEF InstallPackages, InstallExtra, SetupRadios, ApplyOverlay, Install
<1>8. SaveProvisioned(p) => pc[p] = "writeMarker"
  BY DEF SaveProvisioned, Truncate, WriteState
<1>9. QED
  BY <1>1, <1>2, <1>3, <1>4, <1>5, <1>6, <1>7, <1>8 DEF CommandStep

\* A rebuild that reports success leaves its marker and, unless a reboot was
\* passed over, disks that boot into a complete router, whatever was interrupted
\* before it.
THEOREM Rebuilt ==
  ASSUME OneCommand
  PROVE  Spec => RebuildProvisions
<1> DEFINE Step1 == \A p \in Procs : pc[p] # "ok" /\ pc'[p] = "ok" /\ cmd[p] = "rebuild" =>
                      /\ marker'.prov /\ ~removing'
                      /\ ~slow' => Required \subseteq On(BootRoot)'
<1>1. ASSUME IInv, IInv', [Next]_vars PROVE [Step1]_vars
  <2> SUFFICES ASSUME NEW p \in Procs, pc[p] # "ok", pc'[p] = "ok", cmd[p] = "rebuild"
               PROVE  /\ marker'.prov /\ ~removing'
                      /\ ~slow' => Required \subseteq On(BootRoot)'
    OBVIOUS
  <2>1. TypeOK /\ RemovalInv(p) /\ InvAt(p) /\ InvAt(p)'
    BY <1>1 DEF IInv
  <2>2. ProvCheck(p) \/ (SaveProvisioned(p) /\ pc[p] = "writeMarker")
    BY <1>1, <2>1, OwnStep, RebuildEnds
  <2>3. marker'.prov /\ ~removing'
    <3>1. CASE ProvCheck(p)
      BY <2>1, <3>1, GotoAt
         DEF ProvCheck, Jump, At, fileVars, history, RemovalInv, RebuiltLabel
    <3>2. CASE SaveProvisioned(p) /\ pc[p] = "writeMarker"
      <4>1. marker' = [st[p] EXCEPT !.prov = TRUE] /\ UNCHANGED removing
        BY <3>2 DEF SaveProvisioned, Truncate, WriteState, At, history
      <4>2. marker'.prov
        BY <2>1, <4>1, LocalType, MarkerFields
      <4>3. ~removing
        BY <2>1, <3>2 DEF RemovalInv, RebuiltLabel, SettingUpLabel, ProvisionLabel
      <4>4. QED
        BY <4>1, <4>2, <4>3
    <3>3. QED
      BY <2>2, <3>1, <3>2
  <2>4. ~slow' => Required \subseteq On(BootRoot)'
    BY <2>1, <2>3 DEF InvAt, MarkerHonest
  <2>5. QED
    BY <2>3, <2>4
<1>2. QED
  BY <1>1, Invariance, PTL DEF Spec, RebuildProvisions

\* Extroot is committed only over a copy that has everything the router had.
THEOREM Copied ==
  ASSUME OneCommand
  PROVE  Spec => ExtrootCopied
<1> DEFINE Step1 == \A p \in Procs : pc[p] = "fstab" /\ pc'[p] = "saveExtroot" =>
                      disk.done \subseteq ovl.done
<1>1. IInv => Step1
  BY DEF IInv, RemovalInv
<1>2. QED
  BY <1>1, Invariance, PTL DEF Spec, ExtrootCopied
=============================================================================
