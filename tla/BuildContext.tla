---------------------------- MODULE BuildContext ----------------------------
(***************************************************************************)
(* What a command does before it builds images: resolveBaseImages and      *)
(* tarballOutage (cmd/owlab/commands.go) choose each router's base with    *)
(* upstream.ProbeImage, then compose.Render writes the compose file and    *)
(* compose.Materialize fills the build context (internal/compose). One     *)
(* command after another, over one project directory and its cache.        *)
(***************************************************************************)
EXTENDS Naturals

CONSTANTS
  N,          \* container routers, in the order of owlab.yaml
  Registry,   \* router -> the host RegistryHost names
  Server,     \* router -> the host of its rootfs tarball
  Release,    \* router -> its release directory
  Rolling,    \* the snapshot releases, rebuilt under the same names
  Versions,   \* how often those are published
  Manager,    \* router -> its package manager
  Extras,     \* how many extra packages owlab.yaml lists
  Published   \* the <<package manager, extra>> that have a URL

Routers == 1..N
Registries == {Registry[r] : r \in Routers}
Servers == {Server[r] : r \in Routers}
Releases == {Release[r] : r \in Routers}
Managers == {Manager[r] : r \in Routers}

ASSUME ContextAssumption ==
  /\ N \in Nat \ {0} /\ Versions \in Nat \ {0} /\ Extras \in Nat
  /\ Registry \in [Routers -> Registries] /\ Server \in [Routers -> Servers]
  /\ Release \in [Routers -> Releases] /\ Manager \in [Routers -> Managers]
  /\ Registries \cap Servers = {}
  /\ Rolling \subseteq Releases /\ Published \subseteq Managers \X (1..Extras)

None == 0  \* nothing staged, nothing cached

VARIABLES
  pc,
  i,          \* the router a loop is at
  base,       \* router -> what owlab.yaml makes its base: "default" for the
              \* distribution's image, "image" for image:, "tarball" for neither
  publish,    \* the command is `owlab context`
  named,      \* the routers it builds
  down,       \* resolveBaseImages: hosts not to ask again
  fallen,     \* routers UseTarball was called on
  rendered,   \* router -> BASE_STAGE in the compose file
  rootfs, extra, bundle,  \* the build context, per router: the version of its
              \* tarball, its extra packages, the version its bundle describes
  current,    \* release -> the version its server has now
  tarballs, packages, bundles,  \* the cache
  since,      \* history: current when the command began
  silent,     \* history: hosts that did not answer in this command
  pestered,   \* history: those of them asked again, and for what
  heard       \* history: router -> what its registry and server answered it

world == <<base, current>>
command == <<publish, named, since>>
resolution == <<down, fallen, heard>>
hosts == <<silent, pestered>>
context == <<rendered, rootfs, extra, bundle>>
cache == <<tarballs, packages, bundles>>
vars == <<pc, i, world, command, resolution, hosts, context, cache>>

Label == {"idle", "resolve", "tarball", "render", "extract", "rootfs", "extra",
          "bundle", "ready", "failed"}
ImageState == {"found", "missing", "down"}

TypeOK ==
  /\ pc \in Label /\ i \in Routers
  /\ base \in [Routers -> {"default", "image", "tarball"}]
  /\ publish \in BOOLEAN /\ named \subseteq Routers
  /\ down \subseteq Registries \cup Servers /\ fallen \subseteq Routers
  /\ rendered \in [Routers -> {"none", "upstream", "tarball"}]
  /\ rootfs \in [Routers -> 0..Versions] /\ extra \in [Routers -> SUBSET (1..Extras)]
  /\ bundle \in [Routers -> 0..Versions]
  /\ current \in [Releases -> 1..Versions] /\ since \in [Releases -> 1..Versions]
  /\ tarballs \in [Releases -> 0..Versions] /\ bundles \in [Releases -> 0..Versions]
  /\ packages \subseteq Managers \X (1..Extras)
  /\ silent \subseteq Registries \cup Servers
  /\ pestered \subseteq (Registries \cup Servers) \X {"probe", "rootfs", "bundle"}
  /\ heard \in [Routers -> SUBSET {"missing", "served"}]

Bare == [r \in Routers |-> None]

Init ==
  /\ pc = "idle" /\ i = 1
  /\ base \in [Routers -> {"default", "image", "tarball"}]
  /\ publish = FALSE /\ named = {} /\ down = {} /\ fallen = {}
  /\ rendered = [r \in Routers |-> "none"]
  /\ rootfs = Bare /\ extra = [r \in Routers |-> {}] /\ bundle = Bare
  /\ current = [d \in Releases |-> 1] /\ since = [d \in Releases |-> 1]
  /\ tarballs = [d \in Releases |-> None] /\ bundles = [d \in Releases |-> None]
  /\ packages = {}
  /\ silent = {} /\ pestered = {} /\ heard = [r \in Routers |-> {}]

After == [resolve |-> "render", rootfs |-> "extra", extra |-> "bundle", bundle |-> "ready"]

\* The loop at l goes to its next router, or is over.
Advance(l) == IF i < N THEN i' = i + 1 /\ pc' = l ELSE i' = 1 /\ pc' = After[l]

Stay(l) == i' = i /\ pc' = l

-----------------------------------------------------------------------------
(* Which base *)

\* `up` and `test` build the routers they are given, `context` one of them.
Begin ==
  /\ pc \in {"idle", "ready", "failed"}
  /\ publish' \in BOOLEAN
  /\ named' \in SUBSET Routers \ {{}}
  /\ publish' => \E r \in Routers : named' = {r}
  /\ down' = {} /\ fallen' = {} /\ since' = current
  /\ silent' = {} /\ pestered' = {} /\ heard' = [r \in Routers |-> {}]
  /\ i' = 1 /\ pc' = "resolve"
  /\ UNCHANGED <<world, context, cache>>

\* What one request comes back with, netx's attempts included: a status, an
\* outage or a transient error, or an error that is neither.
Reply == {"ok", "unauthorized", "absent", "busy", "outage", "error"}
Outage(reply) == reply \in {"busy", "outage"}

\* ProbeImage: a HEAD of the manifest, after a 401 an anonymous token and the
\* HEAD again. token is "none" where there is no such request; a refused token,
\* like any answer that settles nothing, leaves the image to the engine.
ProbeImage(first, token, second) ==
  LET last == IF first # "unauthorized" THEN first
              ELSE IF token # "ok" THEN IF Outage(token) THEN token ELSE "error"
              ELSE second
  IN IF last = "absent" THEN "missing" ELSE IF Outage(last) THEN "down" ELSE "found"

\* BaseImage() # "".
HasImage(r) == r \notin fallen /\ base[r] # "tarball"

\* A router the loop has nothing to do for.
Skip ==
  /\ pc \in DOMAIN After
  /\ \/ i \notin named
     \/ pc = "resolve" /\ ~HasImage(i)
     \/ pc = "rootfs" /\ HasImage(i)
  /\ Advance(pc)
  /\ UNCHANGED <<world, command, resolution, hosts, context, cache>>

\* Mutant of Answered: an image: that is missing is replaced by the tarball too.
AnsweredAnyMissing(state) ==
  /\ state # "down"
  /\ heard' = [heard EXCEPT ![i] = @ \cup (IF state = "missing" THEN {state} ELSE {})]
  /\ fallen' = IF state = "missing" THEN fallen \cup {i} ELSE fallen
  /\ Advance("resolve") /\ UNCHANGED <<down, silent>>

\* A request to host h.
Request(h, what) == pestered' = pestered \cup (({h} \cap silent) \X {what})

\* The registry answered.
Answered(state) ==
  /\ state # "down"
  /\ heard' = [heard EXCEPT ![i] = @ \cup (IF state = "missing" THEN {state} ELSE {})]
  /\ fallen' = IF state = "missing" /\ base[i] # "image" THEN fallen \cup {i} ELSE fallen
  /\ Advance("resolve") /\ UNCHANGED <<down, silent>>

\* The registry is down: publish keeps the image, everything else asks for the
\* tarball.
Unanswered ==
  /\ down' = down \cup {Registry[i]}
  /\ IF publish THEN Advance("resolve") ELSE Stay("tarball")
  /\ UNCHANGED <<fallen, heard>>

Ask ==
  /\ pc = "resolve" /\ i \in named /\ HasImage(i)
  /\ Registry[i] \notin down
  /\ Request(Registry[i], "probe")
  /\ \E state \in {ProbeImage(first, token, second) : first, token, second \in Reply} :
       \/ Answered(state)
       \/ /\ state = "down" /\ silent' = silent \cup {Registry[i]}
          /\ Unanswered
  /\ UNCHANGED <<world, command, context, cache>>

NotAskedAgain ==
  /\ pc = "resolve" /\ i \in named /\ HasImage(i)
  /\ Registry[i] \in down
  /\ Unanswered
  /\ UNCHANGED <<world, command, hosts, context, cache>>

\* Mutant of TarballOutage: a server that did not answer is not remembered.
TarballOutageForgets ==
  /\ pc = "tarball" /\ Server[i] \notin down
  /\ Request(Server[i], "probe")
  /\ \E reply \in Reply :
       /\ silent' = IF Outage(reply) THEN silent \cup {Server[i]} ELSE silent
       /\ IF reply = "ok"
          THEN fallen' = fallen \cup {i}
               /\ heard' = [heard EXCEPT ![i] = @ \cup {"served"}]
          ELSE UNCHANGED <<fallen, heard>>
  /\ Advance("resolve")
  /\ UNCHANGED <<world, command, down, context, cache>>

\* tarballOutage asks for the tarball, and a 200 switches the router onto it.
TarballOutage ==
  /\ pc = "tarball" /\ Server[i] \notin down
  /\ Request(Server[i], "probe")
  /\ \E reply \in Reply :
       /\ down' = IF Outage(reply) THEN down \cup {Server[i]} ELSE down
       /\ silent' = IF Outage(reply) THEN silent \cup {Server[i]} ELSE silent
       /\ IF reply = "ok"
          THEN /\ fallen' = fallen \cup {i}
               /\ heard' = [heard EXCEPT ![i] = @ \cup {"served"}]
          ELSE UNCHANGED <<fallen, heard>>
  /\ Advance("resolve")
  /\ UNCHANGED <<world, command, context, cache>>

\* It is not asked again either, and the image stays.
TarballNotAsked ==
  /\ pc = "tarball" /\ Server[i] \in down
  /\ Advance("resolve")
  /\ UNCHANGED <<world, command, resolution, hosts, context, cache>>

-----------------------------------------------------------------------------
(* The build context *)

\* BASE_STAGE, with the build arguments that belong to it.
BaseStage(r) == IF HasImage(r) THEN "upstream" ELSE "tarball"

\* The compose file holds every container router, as the config is in memory.
Render ==
  /\ pc = "render"
  /\ rendered' = [r \in Routers |-> BaseStage(r)]
  /\ Stay("extract")
  /\ UNCHANGED <<world, command, resolution, hosts, rootfs, extra, bundle, cache>>

\* What the build before staged is removed.
ExtractContext ==
  /\ pc = "extract"
  /\ rootfs' = Bare /\ extra' = [r \in Routers |-> {}] /\ bundle' = Bare
  /\ Stay("rootfs")
  /\ UNCHANGED <<world, command, resolution, hosts, rendered, cache>>

\* Fetch of a file of release d: the cached one, or the one the server has now.
Fetched(cached, d) == IF cached[d] # None THEN cached[d] ELSE current[d]

\* Mutant of Forgotten: the tarball of a snapshot stays in the cache as well.
ForgottenNever(d) == tarballs

\* The cache, without a tarball that may have been rebuilt since.
Forgotten(d) == IF d \in Rolling THEN [tarballs EXCEPT ![d] = None] ELSE tarballs

\* A Fetch that fails fails the command. Nobody tells it which hosts are down.
FetchRootfs ==
  /\ pc = "rootfs" /\ i \in named /\ ~HasImage(i)
  /\ LET d == Release[i]
         v == Fetched(Forgotten(d), d)
     IN \/ /\ tarballs' = [Forgotten(d) EXCEPT ![d] = v]
           /\ rootfs' = [rootfs EXCEPT ![i] = v]
           /\ Advance("rootfs")
        \/ /\ Forgotten(d)[d] = None
           /\ tarballs' = Forgotten(d)
           /\ Stay("failed") /\ UNCHANGED rootfs
  /\ IF Forgotten(Release[i])[Release[i]] = None
     THEN Request(Server[i], "rootfs") ELSE UNCHANGED pestered
  /\ UNCHANGED <<world, command, resolution, silent>>
  /\ UNCHANGED <<rendered, extra, bundle, packages, bundles>>

\* The extra packages that have a URL for a router's package manager.
Builds(r) == {e \in 1..Extras : <<Manager[r], e>> \in Published}
Cached(r) == {e \in 1..Extras : <<Manager[r], e>> \in packages}

\* They are fetched in order, up to the first that fails, and staged under their
\* number; one that has no URL is skipped.
FetchExtraPackages ==
  /\ pc = "extra" /\ i \in named
  /\ \E n \in 1..(Extras + 1) :
       /\ n = Extras + 1 \/ n \in Builds(i) \ Cached(i)
       /\ LET got == {e \in Builds(i) : e < n}
          IN /\ packages' = packages \cup ({Manager[i]} \X got)
             /\ extra' = [extra EXCEPT ![i] = got]
       /\ IF n = Extras + 1 THEN Advance("extra") ELSE Stay("failed")
  /\ UNCHANGED <<world, command, resolution, hosts>>
  /\ UNCHANGED <<rendered, rootfs, bundle, tarballs, bundles>>

\* A file of the bundle that cannot be fetched is noted as not published, whether
\* the server said so or nothing, and the next one is asked for.
FetchCompliance ==
  /\ pc = "bundle" /\ i \in named
  /\ LET d == Release[i]
         v == Fetched(bundles, d)
     IN /\ \/ /\ bundles' = [bundles EXCEPT ![d] = v]
              /\ bundle' = [bundle EXCEPT ![i] = v]
              /\ UNCHANGED silent
           \/ /\ bundles[d] = None /\ UNCHANGED <<bundles, bundle>>
              /\ silent' \in {silent, silent \cup {Server[i]}}
        /\ pestered' = IF bundles[d] # None THEN pestered
                       ELSE pestered \cup (({Server[i]} \cap silent') \X {"bundle"})
  /\ Advance("bundle")
  /\ UNCHANGED <<world, command, resolution, rendered, rootfs, extra, tarballs, packages>>

\* The server rebuilds a snapshot.
Publish(d) ==
  /\ d \in Rolling /\ current[d] < Versions
  /\ current' = [current EXCEPT ![d] = @ + 1]
  /\ UNCHANGED <<pc, i, base, command, resolution, hosts, context, cache>>

Next == \/ Begin
        \/ Skip \/ Ask \/ NotAskedAgain \/ TarballOutage \/ TarballNotAsked
        \/ Render \/ ExtractContext \/ FetchRootfs \/ FetchExtraPackages \/ FetchCompliance
        \/ \E d \in Releases : Publish(d)

Spec == Init /\ [][Next]_vars

-----------------------------------------------------------------------------
(* Properties *)

\* "Asked once per host" (commands.go:295): a registry or a download server that
\* did not answer a probe is not probed again for the routers after it, whichever
\* of them shares it. That holds of the probes alone. The fetches of the build
\* context that follow ask a silent download server all the same, for a tarball and
\* for every file of a bundle (rootfs.go:39, compliance.go:46); a silent registry
\* owlab leaves in peace.
SilentHostsRest == pestered \subseteq Servers \X {"rootfs", "bundle"}

\* A router is built from the tarball, against what owlab.yaml says, only after
\* its distribution's image was answered with a 404, or when its registry did not
\* answer and the download server did serve the tarball; and an image that is
\* published is never switched for an outage.
SwitchJustified ==
  \A r \in fallen :
    \/ base[r] = "default" /\ "missing" \in heard[r]
    \/ ~publish /\ Registry[r] \in silent /\ "served" \in heard[r]

\* What the build finds in its context is what the compose file builds from: a
\* tarball exactly for a named router that needs one, no older than the command
\* when the release is a snapshot; the extra packages of the router's own format,
\* all of them; and nothing of a router that is not built.
StagedForBuild ==
  pc = "ready" =>
    \A r \in Routers :
      /\ rootfs[r] # None <=> r \in named /\ rendered[r] = "tarball"
      /\ rootfs[r] # None /\ Release[r] \in Rolling => rootfs[r] >= since[Release[r]]
      /\ extra[r] = IF r \in named THEN Builds(r) ELSE {}

=============================================================================
