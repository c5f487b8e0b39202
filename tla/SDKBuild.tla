------------------------------ MODULE SDKBuild ------------------------------
(***************************************************************************)
(* `owlab build` (cmd/owlab/build.go): one build after another into one    *)
(* output directory. owlab reads the Makefile on the host, an SDK          *)
(* container compiles the same directory later, and the script in it       *)
(* copies what it finds into the output directory, file by file.           *)
(***************************************************************************)
EXTENDS Naturals, FiniteSets

CONSTANTS
  Defined,   \* names of the packages the Makefile defines
  Others,    \* names of packages the SDK builds along with them
  StartsWithName, \* names that begin with PKG_NAME
  Archs,     \* architectures of targets
  Versions,  \* bound: versions the source goes through
  Builds     \* bound: builds into one output directory before it is emptied

ASSUME SDKBuildAssumption ==
  /\ Defined \cap Others = {} /\ StartsWithName \subseteq Defined \cup Others
  /\ {"all", "noarch", "."} \cap Archs = {}
  /\ Versions \in Nat \ {0} /\ Builds \in Nat \ {0}

Names == Defined \cup Others
Formats == {"apk", "ipk"}

\* A package says of itself for which architecture it is: apk's noarch is opkg's all.
Artifacts == [name : Names, version : 1..Versions, format : Formats,
              arch : Archs \cup {"all", "noarch"}]
Dirs == Archs \cup {"all", "noarch", "."}

\* A file of the output directory. Its name has the name and the version; that of an
\* .ipk has the architecture, too.
OutFiles == [dir : Dirs, artifact : Artifacts, whole : BOOLEAN]
SameName(a, b) == /\ a.name = b.name /\ a.version = b.version /\ a.format = b.format
                  /\ a.format = "ipk" => a.arch = b.arch

VARIABLES
  stage, builds,
  source,    \* the package directory: its version, and the architecture it declares
  order,     \* the build: target, layout, and the format its release has
  apkDir, ipkDir, \* the directories handed to the script
  bin,       \* what the SDK made in its container
  pending,   \* artifacts find has still to hand to the loop
  out,       \* files of the output directory
  edited     \* history: the source was edited since owlab read it

container == <<bin, pending>>
sbVars == <<stage, builds, source, order, apkDir, ipkDir, container, out, edited>>

Orders == [arch : Archs, layout : {"arch", "flat"}, format : Formats]

SBInit ==
  /\ stage = "idle" /\ builds = 0 /\ order \in Orders
  /\ source \in [version : {1}, declares : {"", "all"}]
  /\ apkDir = "." /\ ipkDir = "." /\ bin = {} /\ pending = {} /\ out = {}
  /\ edited = FALSE

-----------------------------------------------------------------------------
BeginBuild ==
  /\ stage = "idle" /\ builds < Builds
  /\ stage' = "read" /\ builds' = builds + 1 /\ order' \in Orders
  /\ bin' = {} /\ pending' = {} /\ edited' = FALSE
  /\ UNCHANGED <<source, apkDir, ipkDir, out>>

\* findPackage: a package that declares none is built for the target's.
Declared == IF source.declares = "" THEN order.arch ELSE source.declares

\* Mutant of ArchDir: both formats spell it alike.
ArchDirAlike(format) ==
  IF order.layout = "flat" THEN "." ELSE IF Declared = "all" THEN "noarch" ELSE Declared

\* archDirs
ArchDir(format) ==
  IF order.layout = "flat" THEN "."
  ELSE IF Declared # "all" THEN Declared
  ELSE IF format = "apk" THEN "noarch" ELSE "all"

\* A build ends with the first step that fails, and the script with the first command
\* (set -e).
Stop(at) ==
  /\ stage = at /\ stage' = "failed"
  /\ UNCHANGED <<builds, source, order, apkDir, ipkDir, container, edited>>

\* The Makefile is found and read, and the container is started on its directory.
Read ==
  \/ /\ stage = "read" /\ stage' = "compile"
     /\ apkDir' = ArchDir("apk") /\ ipkDir' = ArchDir("ipk") /\ edited' = FALSE
     /\ UNCHANGED <<builds, source, order, container, out>>
  \/ Stop("read") /\ UNCHANGED out

\* The architecture a package of that format says it is for.
Says(declares) ==
  IF declares = "" THEN order.arch ELSE IF order.format = "apk" THEN "noarch" ELSE "all"

\* The feeds and the compile, of the source as it is by now. Which of the packages a
\* compile brings about is the SDK's affair.
Made ==
  [name : Defined, version : {source.version}, format : {order.format},
   arch : {Says(source.declares)}]
    \cup [name : Others, version : {1}, format : {order.format}, arch : {Says("")}]

\* What find prints.
Found(made) == {a \in made : a.name \in StartsWithName}

Compile ==
  \/ /\ stage = "compile" /\ stage' = "copy"
     /\ bin' \in SUBSET Made /\ pending' = Found(bin')
     /\ UNCHANGED <<builds, source, order, apkDir, ipkDir, out, edited>>
  \/ Stop("compile") /\ UNCHANGED out

Dir(a) == IF a.format = "apk" THEN apkDir ELSE ipkDir

\* cp writes over a file of that name.
Put(a, whole) ==
  {f \in out : ~(f.dir = Dir(a) /\ SameName(f.artifact, a))}
    \cup {[dir |-> Dir(a), artifact |-> a, whole |-> whole]}

\* Mutant of CopyFailed: the loop goes on to the next file.
CopyGoesOn(a) ==
  /\ out' = Put(a, FALSE) /\ pending' = pending \ {a}
  /\ UNCHANGED <<stage, builds, source, order, apkDir, ipkDir, bin, edited>>

\* A full disk, a Ctrl-C: cp leaves a part of the file, or nothing.
CopyFailed(a) == Stop("copy") /\ out' \in {out, Put(a, FALSE)}

\* One turn of the loop behind find.
Copy ==
  /\ stage = "copy"
  /\ \E a \in pending :
       \/ /\ out' = Put(a, TRUE) /\ pending' = pending \ {a}
          /\ UNCHANGED <<stage, builds, source, order, apkDir, ipkDir, bin, edited>>
       \/ CopyFailed(a)

Copied ==
  /\ stage = "copy" /\ pending = {} /\ stage' = "list"
  /\ UNCHANGED <<builds, source, order, apkDir, ipkDir, container, out, edited>>

\* builtPackages walks the whole directory, and none at all is an error.
List ==
  /\ stage = "list" /\ stage' = IF out = {} THEN "failed" ELSE "ok"
  /\ UNCHANGED <<builds, source, order, apkDir, ipkDir, container, out, edited>>

Exit ==
  /\ stage \in {"ok", "failed"} /\ stage' = "idle"
  /\ UNCHANGED <<builds, source, order, apkDir, ipkDir, container, out, edited>>

\* The developer goes on working on the directory the container has mounted.
Edit ==
  /\ stage \in {"idle", "compile"} /\ source.version < Versions
  /\ \E d \in {"", "all"} :
       source' = [version |-> source.version + 1, declares |-> d]
  /\ edited' = TRUE
  /\ UNCHANGED <<stage, builds, order, apkDir, ipkDir, container, out>>

\* The output directory is emptied.
Clean ==
  /\ stage = "idle" /\ builds > 0 /\ builds' = 0 /\ out' = {}
  /\ UNCHANGED <<stage, source, order, apkDir, ipkDir, container, edited>>

SBNext == BeginBuild \/ Read \/ Compile \/ Copy \/ Copied \/ List \/ Exit \/ Edit \/ Clean

SBSpec == SBInit /\ [][SBNext]_sbVars

-----------------------------------------------------------------------------
(* Properties *)

\* A build that exits 0 left every artifact of its own that find saw in the output
\* directory, whole, whatever earlier builds were cut short at (build.go:248).
SuccessIsComplete ==
  stage = "ok" => \A a \in Found(bin) :
    \E f \in out : f.dir = Dir(a) /\ f.artifact = a /\ f.whole

\* Where the layout says an artifact goes.
Belongs(f) == order.layout = "flat" \/ f.dir = f.artifact.arch

Mine == {f \in out : f.artifact \in bin \ pending /\ f.dir = Dir(f.artifact)}

\* "Each artifact goes in the directory named for what it says about itself"
\* (build.go:275): the ones the Makefile defines do, apk and ipk alike, over builds for
\* several targets, unless the Makefile is edited while they are built.
PlacedAsItSays ==
  stage = "ok" /\ ~edited => \A f \in Mine : f.artifact.name \in Defined => Belongs(f)

-----------------------------------------------------------------------------
(* Why they hold *)

SBTypeOK ==
  /\ stage \in {"idle", "read", "compile", "copy", "list", "ok", "failed"} /\ builds \in 0..Builds
  /\ source \in [version : 1..Versions, declares : {"", "all"}] /\ order \in Orders
  /\ apkDir \in Dirs /\ ipkDir \in Dirs
  /\ bin \subseteq Artifacts /\ pending \subseteq Found(bin) /\ out \subseteq OutFiles
  /\ edited \in BOOLEAN

\* A compile makes one artifact of a name, and in one format: no turn of the loop
\* writes over what another one copied.
OneOfAName ==
  /\ \A a, b \in bin : a.name = b.name => a = b
  /\ stage \in {"copy", "list", "ok"} => \A a \in bin : a.format = order.format

Copies ==
  /\ stage \in {"copy", "list", "ok"} => \A a \in Found(bin) \ pending :
       \E f \in out : f.dir = Dir(a) /\ f.artifact = a /\ f.whole
  /\ stage \in {"list", "ok"} => pending = {}

\* While nobody edits it, the source the SDK compiles is the one owlab read.
ReadIsBuilt ==
  ~edited =>
    /\ stage \in {"compile", "copy", "list", "ok"} =>
         apkDir = ArchDir("apk") /\ ipkDir = ArchDir("ipk")
    /\ stage \in {"copy", "list", "ok"} =>
         \A a \in bin : a.name \in Defined => a.arch = Says(source.declares)

IInv == SBTypeOK /\ OneOfAName /\ Copies /\ ReadIsBuilt

=============================================================================
