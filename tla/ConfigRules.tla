----------------------------- MODULE ConfigRules -----------------------------
(***************************************************************************)
(* How owlab.yaml, or the flags of `owlab test`, become routers: Load,     *)
(* merge, mergeList, expandFixtures and validate of internal/config,       *)
(* Synthesize with FreePortFrom, and the names of target.go that follow    *)
(* from a router's release and architecture. A list entry is a sign and a  *)
(* name; what a key does not say is "none", or an empty sequence.          *)
(***************************************************************************)
EXTENDS Integers, SequencesExt

CONSTANTS
  Sources,    \* what a command is given, an owlab.yaml or flags, as Written has it
  Stock,      \* DefaultPackages
  Distros,    \* name -> [repo, force]: LookupDistro
  Targets,    \* architecture -> [oci, host, image, vm, efi]
  HostArch,
  Snapshots,  \* the releases isSnapshot knows
  Version,    \* release -> <<major, minor>>, of those parseRelease can read
  Lower,      \* release -> how SynthID spells it
  BadIds,     \* ids that idRE refuses
  HTTPBase, SSHBase,  \* 8080 and 2222
  Window      \* how many ports FreePortFrom tries

\* What is written of a router, or under defaults.
ListEntries == [sign : {"", "+", "-"}, name : STRING]
Written == [id : STRING, distro : STRING, release : STRING, arch : STRING, fidelity : STRING,
            manager : STRING, image : STRING, cpus : Seq(Int), extra : Seq(SUBSET STRING),
            packages : Seq(ListEntries), fixtures : Seq(ListEntries),
            ports : {<<>>} \cup (Int \X Int)]

\* isSnapshot knows SNAPSHOT in any spelling, and no distribution has opkg on a snapshot.
ASSUME RulesAssumption ==
  /\ HTTPBase \in Nat \ {0} /\ SSHBase \in Nat /\ Window \in Nat \ {0}
  /\ HostArch \in DOMAIN Targets
  /\ Stock \in Seq({e \in ListEntries : e.sign = ""})
  /\ "SNAPSHOT" \in Snapshots
  /\ \A d \in DOMAIN Distros : Distros[d].force \in {"", "apk"}
  /\ Sources \subseteq [kind : {"file", "flags"}, defaults : Written, routers : Seq(Written)]

VARIABLES
  phase,
  source,   \* [kind, defaults, routers]; for flags, routers have no id and no ports
  next,     \* the router that is merged
  taken,    \* ports Synthesize has handed out
  routers,  \* the merged ones
  switched, \* those UseTarball was called on
  crowded   \* history: a probe found none of its ports free

ports == <<taken, crowded>>
crVars == <<phase, source, next, ports, routers, switched>>

CRInit ==
  /\ phase = "merge" /\ source \in Sources
  /\ next = 1 /\ taken = {} /\ routers = <<>> /\ switched = {} /\ crowded = FALSE

-----------------------------------------------------------------------------
(* Lists *)

Plain(name) == [sign |-> "", name |-> name]

Signed(list) == \E k \in DOMAIN list : list[k].sign # ""

\* Mutant of MergeList: a removal takes what was there, not what the list added.
RemovesFirst(def, override) ==
  IF override = <<>> THEN def
  ELSE IF ~Signed(override) THEN Range(override)
  ELSE (def \ {Plain(e.name) : e \in {x \in Range(override) : x.sign = "-"}})
         \cup {Plain(e.name) : e \in {x \in Range(override) : x.sign # "-"}}

Applied(out, e) ==
  IF e.sign = "-" THEN out \ {Plain(e.name)} ELSE out \cup {Plain(e.name)}

\* One list over the entries of another: without a + or - it replaces them. What a list
\* comes to is a set, because nothing here depends on its order.
MergeList(def, override) ==
  IF override = <<>> THEN def
  ELSE IF ~Signed(override) THEN Range(override)
  ELSE FoldLeft(Applied, def, override)

Profiles == {"networks", "clients", "wireguard", "portforwards", "system", "wifi"}

Aliases(name) ==
  CASE name = "lived-in" -> {"networks", "clients", "portforwards", "system"}
    [] name = "all" -> Profiles
    [] OTHER -> {}

Deps(name) == IF name \in {"portforwards", "wireguard", "clients"} THEN {"networks"} ELSE {}

Resolved(name) == IF Aliases(name) # {} THEN Aliases(name) ELSE {name}

\* add, of a profile: what it needs comes along, and needs nothing itself.
AddFixture(name, set) == IF name \in set THEN set ELSE set \cup {name} \cup Deps(name)

\* The profiles of a list, added one after the other.
ExpandFixtures(names) ==
  IF "none" \in names THEN {}
  ELSE FoldSet(AddFixture, {}, UNION {Resolved(n) : n \in names})

DefaultFixtures == ExpandFixtures({"lived-in"})

\* A name with its sign still on is no name.
ValidFixtures(list) ==
  \A e \in list : e.sign = "" /\ e.name \in Profiles \cup {"lived-in", "all", "none"}

Names(list) == {e.name : e \in list}

Fixtures(list) == IF list = {} THEN DefaultFixtures ELSE ExpandFixtures(Names(list))

-----------------------------------------------------------------------------
(* merge and validate *)

Pick(def, own, fallback) ==
  IF own # "none" THEN own ELSE IF def # "none" THEN def ELSE fallback

\* A ports: block is taken as a whole; a zero is a port of its own by index.
Ports(def, own, index) ==
  LET block == IF own # <<>> THEN own ELSE IF def # <<>> THEN def ELSE <<0, 0>>
  IN [http |-> IF block[1] = 0 THEN HTTPBase + index ELSE block[1],
      ssh |-> IF block[2] = 0 THEN SSHBase + index ELSE block[2]]

Arch(def, r) ==
  LET arch == Pick(def.arch, r.arch, "auto")
  IN IF arch \in {"", "auto"} THEN HostArch ELSE arch

\* The defaults over the stock set, the router over the defaults.
Packages(def, r) == Names(MergeList(MergeList(Range(Stock), def.packages), r.packages))

MergedFixtures(def, r) == MergeList(Range(def.fixtures), r.fixtures)

\* An extra package is the set of the managers it has a URL for.
Extra(def, r) == def.extra \o r.extra

PickNumber(def, own, fallback) ==
  IF own # <<>> THEN own[1] ELSE IF def # <<>> THEN def[1] ELSE fallback

\* What merge reports as an error otherwise.
Mergeable(def, r) ==
  /\ Pick(def.id, r.id, "") # "" /\ Pick(def.release, r.release, "") # ""
  /\ Arch(def, r) \in DOMAIN Targets
  /\ {} \notin Range(Extra(def, r))
  /\ ValidFixtures(MergedFixtures(def, r))

\* A hostname and the rest of the VM hardware are picked the same way.
Merge(def, r, index) ==
  [id |-> Pick(def.id, r.id, ""),
   distro |-> Pick(def.distro, r.distro, "openwrt"),
   release |-> Pick(def.release, r.release, ""),
   arch |-> Arch(def, r),
   fidelity |-> Pick(def.fidelity, r.fidelity, "basic"),
   manager |-> Pick(def.manager, r.manager, ""),
   image |-> Pick(def.image, r.image, ""),
   cpus |-> PickNumber(def.cpus, r.cpus, 2),
   extra |-> Extra(def, r),
   packages |-> Packages(def, r),
   fixtures |-> Fixtures(MergedFixtures(def, r)),
   ports |-> Ports(def.ports, r.ports, index)]

\* Ports are compared with ports of their own kind.
Valid(all) ==
  /\ \A r \in Range(all) :
       /\ r.id \notin BadIds /\ r.distro \in DOMAIN Distros
       /\ r.fidelity \in {"basic", "vm"} /\ r.manager \in {"", "apk", "opkg"}
       /\ r.fidelity = "vm" => Targets[r.arch].vm /\ r.cpus >= 1
  /\ \A a, b \in DOMAIN all : a < b =>
       /\ all[a].id # all[b].id
       /\ all[a].ports.http # all[b].ports.http
       /\ all[a].ports.ssh # all[b].ports.ssh

Refuse == phase' = "refused" /\ UNCHANGED <<source, next, ports, routers, switched>>

\* One router of owlab.yaml.
LoadRouter ==
  /\ phase = "merge" /\ source.kind = "file" /\ next <= Len(source.routers)
  /\ IF Mergeable(source.defaults, source.routers[next])
     THEN /\ routers' = Append(routers, Merge(source.defaults, source.routers[next], next - 1))
          /\ next' = next + 1 /\ UNCHANGED <<phase, source, ports, switched>>
     ELSE Refuse

\* Mutant of FreePortFrom: what the routers before it were given is not known.
FreePortProbed(start, given) ==
  {[port |-> p, found |-> TRUE] : p \in start..(start + Window - 1)}
    \cup {[port |-> start, found |-> FALSE]}

\* A port of the window that is not given away and can be listened on, and start,
\* which is not noted, where there is none. Any of them may be in use.
FreePortFrom(start, given) ==
  {[port |-> p, found |-> TRUE] : p \in (start..(start + Window - 1)) \ given}
    \cup {[port |-> start, found |-> FALSE]}

Given(x) == IF x.found THEN {x.port} ELSE {}

\* The id of a router that is named by its release.
SynthID(distro, release) == distro \o "-" \o Lower[release]

\* One --release of `owlab test`, merged as one of a file.
SynthesizeRouter ==
  /\ phase = "merge" /\ source.kind = "flags" /\ next <= Len(source.routers)
  /\ LET d == source.defaults
         asked == source.routers[next]
         r == [asked EXCEPT !.id = SynthID(d.distro, asked.release)]
     IN IF r.release = "none"
        THEN next' = next + 1 /\ UNCHANGED <<phase, source, ports, routers, switched>>
        ELSE IF ~Mergeable(d, r) THEN Refuse
        ELSE \E http \in FreePortFrom(HTTPBase + next - 1, taken) :
             \E ssh \in FreePortFrom(SSHBase + next - 1, taken \cup Given(http)) :
               /\ taken' = taken \cup Given(http) \cup Given(ssh)
               /\ crowded' = (crowded \/ ~http.found \/ ~ssh.found)
               /\ routers' = Append(routers,
                    Merge(d, [r EXCEPT !.ports = <<http.port, ssh.port>>], next - 1))
               /\ next' = next + 1 /\ UNCHANGED <<phase, source, switched>>

Validate ==
  /\ phase = "merge" /\ next > Len(source.routers)
  /\ IF routers # <<>> /\ Valid(routers)
     THEN phase' = "accepted" /\ UNCHANGED <<source, next, ports, routers, switched>>
     ELSE Refuse

-----------------------------------------------------------------------------
(* What a router is built from *)

IsSnapshot(r) == r.release \in Snapshots

\* A release nobody can read is taken for a modern one.
PackageManagerFor(release) ==
  IF release \in Snapshots \/ release \notin DOMAIN Version THEN "apk"
  ELSE LET v == Version[release]
       IN IF v[1] > 25 \/ (v[1] = 25 /\ v[2] >= 12) THEN "apk" ELSE "opkg"

PackageManager(r) ==
  IF r.manager # "" THEN r.manager
  ELSE IF Distros[r.distro].force # "" THEN Distros[r.distro].force
  ELSE PackageManagerFor(r.release)

FromTarball(r, hasNone) ==
  Distros[r.distro].repo = "" \/ ~Targets[r.arch].image \/ hasNone

Platform(r, hasNone) ==
  IF FromTarball(r, hasNone) THEN Targets[r.arch].host ELSE Targets[r.arch].oci

\* Mutant of BaseImage: image: wins over UseTarball.
ImageWins(r, hasNone) ==
  IF r.image # "" THEN <<r.image>>
  ELSE IF FromTarball(r, hasNone) THEN <<>>
  ELSE <<Distros[r.distro].repo, r.arch, IF IsSnapshot(r) THEN "master" ELSE r.release>>

\* The image to build upon: the one of image:, or repository, architecture and tag.
BaseImage(r, hasNone) ==
  IF hasNone THEN <<>>
  ELSE IF r.image # "" THEN <<r.image>>
  ELSE IF FromTarball(r, hasNone) THEN <<>>
  ELSE <<Distros[r.distro].repo, r.arch, IF IsSnapshot(r) THEN "master" ELSE r.release>>

\* The parts of the names on the download server that depend on the release.
ReleaseDir(r) == IF IsSnapshot(r) THEN <<"snapshots">> ELSE <<"releases", r.release>>
ArtifactVersion(r) == IF IsSnapshot(r) THEN "SNAPSHOT" ELSE r.release
FeedBase(r) == ReleaseDir(r)
VMImageName(r) == <<ArtifactVersion(r), r.arch, IF Targets[r.arch].efi THEN "efi" ELSE "">>

\* resolveBaseImages found that its image cannot be pulled.
UseTarball ==
  /\ phase = "accepted"
  /\ \E k \in DOMAIN routers \ switched :
       /\ routers[k].fidelity = "basic" /\ BaseImage(routers[k], FALSE) # <<>>
       /\ switched' = switched \cup {k}
  /\ UNCHANGED <<phase, source, next, ports, routers>>

\* The next command.
Restart ==
  /\ phase \in {"accepted", "refused"}
  /\ phase' = "merge" /\ next' = 1 /\ taken' = {} /\ crowded' = FALSE
  /\ routers' = <<>> /\ switched' = {}
  /\ UNCHANGED source

CRNext == LoadRouter \/ SynthesizeRouter \/ Validate \/ UseTarball \/ Restart

CRSpec == CRInit /\ [][CRNext]_crVars

-----------------------------------------------------------------------------
(* Properties *)

\* What is merged, unless it is a --release that is blank.
Named == {k \in DOMAIN source.routers :
            source.kind = "file" \/ source.routers[k].release # "none"}

\* What the k-th router that is merged was asked for.
Asked(k) ==
  source.routers[CHOOSE j \in Named : Cardinality({i \in Named : i <= j}) = k]

Spoken(list, name) == {k \in DOMAIN list : list[k].name = name}

\* The last entry about a name is for it.
LastIsFor(list, name) ==
  \E k \in Spoken(list, name) : list[k].sign # "-" /\ \A l \in Spoken(list, name) : l <= k

\* What a list says of a name, if the list below it has the names of below.
Says(list, below, name) ==
  IF list = <<>> \/ (Signed(list) /\ Spoken(list, name) = {}) THEN name \in below
  ELSE LastIsFor(list, name)

\* The names of two lists and those below them, as the last list that speaks of one wants it.
Wanted(list, below) ==
  {n \in below \cup Names(Range(list)) : Says(list, below, n)}

PackagesAsAsked(d, r, has) == has = Wanted(r.packages, Wanted(d.packages, Names(Range(Stock))))

FixturesAsAsked(d, r, has) ==
  LET list == Wanted(r.fixtures, Names(Range(d.fixtures)))
      wanted == IF list = {} THEN {"lived-in"} ELSE list
      asked == UNION {Resolved(w) : w \in wanted}
  IN IF "none" \in wanted THEN has = {}
     ELSE /\ asked \subseteq has /\ \A f \in has : Deps(f) \subseteq has
          /\ has \subseteq asked \cup UNION {Deps(a) : a \in asked}

\* A router has a package exactly if the last list that speaks of it wants it, the
\* router's over the defaults' over the stock set: "an entry prefixed with + adds to
\* the defaults and one prefixed with - removes from them. A list with no prefixes
\* at all replaces the defaults outright" (config.go:526). Its fixtures are the
\* profiles its lists ask for, closed under what they need, and none only by "none".
ListsAsAsked ==
  \A k \in DOMAIN routers :
    /\ PackagesAsAsked(source.defaults, Asked(k), routers[k].packages)
    /\ FixturesAsAsked(source.defaults, Asked(k), routers[k].fixtures)

\* "Ports must not collide, or the second router never starts" (synth_test.go:35):
\* routers that are accepted have ports of their own, and those `owlab test` made up
\* never meet at all, of one kind or of two, as long as a probe found a free port.
PortsApart ==
  \A a, b \in DOMAIN routers :
    LET p == routers[a].ports  q == routers[b].ports
    IN /\ phase = "accepted" /\ a # b => p.http # q.http /\ p.ssh # q.ssh
       /\ source.kind = "flags" /\ ~crowded =>
            p.http # q.ssh /\ (a # b => p.http # q.http /\ p.ssh # q.ssh)

\* image: names what to build upon.
NamesItsImage(r, hasNone) == r.image # "" /\ ~hasNone

OfOneRelease(r, hasNone) ==
  LET image == BaseImage(r, hasNone)
      release == IF FeedBase(r)[1] = "snapshots" THEN "SNAPSHOT" ELSE FeedBase(r)[2]
  IN /\ hasNone => image = <<>>
     /\ image = <<>> => Platform(r, hasNone) = Targets[r.arch].host
     /\ IF NamesItsImage(r, hasNone) THEN image = <<r.image>>
        ELSE image = <<>> \/ (/\ Platform(r, hasNone) = Targets[r.arch].oci
                              /\ image[3] = IF release = "SNAPSHOT" THEN "master" ELSE release)
     /\ VMImageName(r)[1] = release
     /\ release = "SNAPSHOT" /\ r.manager = "" => PackageManager(r) = "apk"

\* "The exact point release matters" (config/target.go:436): the image or tarball
\* owlab picks for a router, its VM image and its feeds are of one release, or all of
\* the snapshot; docker is asked for the platform that base has; and a router that
\* was switched to the tarball is not built from an image. An image that image: names
\* is none owlab picked. It is built upon as it is, of whatever release it may be:
\* validate compares it with nothing (target.go:416, config.go:566).
OneRelease ==
  phase = "accepted" => \A k \in DOMAIN routers : OfOneRelease(routers[k], k \in switched)

-----------------------------------------------------------------------------
(* Why they hold *)

\* Every port that was found for a router is taken, and no two are the same.
OwnPorts ==
  source.kind = "flags" /\ ~crowded =>
    \A a, b \in DOMAIN routers :
      LET p == routers[a].ports  q == routers[b].ports
      IN /\ {p.http, p.ssh} \subseteq taken
         /\ p.http # q.ssh /\ (a # b => p.http # q.http /\ p.ssh # q.ssh)

\* The next one of Named comes to the end of the list.
FromAsked ==
  /\ Len(routers) = Cardinality({i \in Named : i < next})
  /\ \A k \in DOMAIN routers : \E j \in Named :
       LET d == source.defaults  r == source.routers[j]
       IN /\ k = Cardinality({i \in Named : i <= j})
          /\ ValidFixtures(MergedFixtures(d, r))
          /\ routers[k].packages = Packages(d, r)
          /\ routers[k].fixtures = Fixtures(MergedFixtures(d, r))

IInv ==
  /\ next \in 1..(Len(source.routers) + 1) /\ switched \subseteq DOMAIN routers
  /\ OwnPorts /\ FromAsked
  /\ phase = "accepted" => routers # <<>> /\ Valid(routers)

=============================================================================
