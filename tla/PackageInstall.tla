--------------------------- MODULE PackageInstall ---------------------------
(***************************************************************************)
(* The tolerant package install (internal/pkgmgr: UpdateShell, EachShell)  *)
(* on one router, and what `owlab up` and `owlab test` say of it after     *)
(* reading its record back (cmd/owlab: recorded, reportMissing,            *)
(* recordStep). The script runs in an image build or over ssh, and again   *)
(* over the same router when it was cut short.                             *)
(***************************************************************************)
EXTENDS Naturals

CONSTANTS
  Packages,   \* the router's packages:
  KmodNames,  \* those of them called kmod-*
  Feeds,      \* the configured feeds
  KmodFeeds,  \* those of them whose URL has /kmods/ in it
  Needs,      \* the others of the list each package needs, itself or through others
  Waits       \* how many waits retryWaits holds

ASSUME InstallAssumption == /\ KmodNames \subseteq Packages
                            /\ KmodFeeds \subseteq Feeds
                            /\ Needs \in [Packages -> SUBSET Packages]
                            /\ Waits \in Nat

Nowhere == "nowhere"
Nobody == "nobody"

ASSUME NamesAssumption == Nowhere \notin Feeds /\ Nobody \notin Packages

VARIABLES
  pc,
  manager,    \* the release's package manager: "apk" or "opkg"
  carries,    \* the feed that has each package, or Nowhere
  broken,     \* packages the manager refuses for a reason of their own
  provided,   \* names that a package of the image provides
  installed,
  brought,    \* history: installed in this run by a call that did not name them
  record,     \* PackagesFailedPath; no file reads as no names
  read,       \* the feeds whose list the manager has after this run's refresh
  unverified, \* those whose list opkg dropped for its signature and exited 0
  partial,    \* owlab_partial: "no", "kmods" or "all"
  skipped,    \* said to be in no feed, in this run
  todo,       \* owlab_rest
  p0,         \* the package being asked for by itself
  out,        \* what the last call printed
  waits,      \* owlab_waits: how many are left for a package
  left,       \* how many of them this package has not used
  gaveUp,     \* history: packages that used all their waits, counted to 2
  verdict     \* what up or test says: "none", "complete", "missing", "unread"

world == <<manager, carries, broken, provided>>
router == <<installed, brought>>
lists == <<read, unverified>>
shell == <<todo, p0, out, waits, left, gaveUp>>
vars == <<pc, world, router, record, lists, partial, skipped, shell, verdict>>

Output == [missing : SUBSET Packages, refused : SUBSET Packages, fetch : BOOLEAN]
Silence == [missing |-> {}, refused |-> {}, fetch |-> FALSE]

Finished == {"idle", "exit", "done", "reported"}
Label == Finished \cup {"refresh", "clear", "all", "drop", "rest", "each", "failed",
                        "retry", "judge"}

TypeOK ==
  /\ pc \in Label /\ manager \in {"apk", "opkg"}
  /\ carries \in [Packages -> Feeds \cup {Nowhere}]
  /\ broken \subseteq Packages /\ provided \subseteq Packages
  /\ installed \subseteq Packages /\ brought \subseteq Packages /\ record \subseteq Packages
  /\ read \subseteq Feeds /\ unverified \subseteq Feeds
  /\ partial \in {"no", "kmods", "all"}
  /\ skipped \subseteq Packages /\ todo \subseteq Packages
  /\ p0 \in Packages \cup {Nobody} /\ (pc \in {"failed", "retry", "judge"} => p0 \in Packages)
  /\ out \in Output
  /\ waits \in 0..Waits /\ left \in 0..Waits /\ gaveUp \in 0..2
  /\ verdict \in {"none", "complete", "missing", "unread"}

\* A kmods index has kmod-* packages only. An image that is built upon may carry
\* the record of its own build.
Init ==
  /\ pc = "idle" /\ manager \in {"apk", "opkg"}
  /\ carries \in [Packages -> Feeds \cup {Nowhere}]
  /\ \A p \in Packages \ KmodNames : carries[p] \notin KmodFeeds
  /\ broken \in SUBSET Packages /\ provided \in SUBSET Packages
  /\ installed = {} /\ brought = {} /\ record \in {{}, Packages}
  /\ read = {} /\ unverified = {} /\ partial = "no" /\ skipped = {}
  /\ todo = {} /\ p0 = Nobody /\ out = Silence
  /\ waits = Waits /\ left = 0 /\ gaveUp = 0
  /\ verdict = "none"

-----------------------------------------------------------------------------
(* The package manager *)

\* apk counts a provider as the name it provides and installs nothing.
Satisfied(p) == p \in installed \/ (manager = "apk" /\ p \in provided)

\* The name of a package the router has provides it.
Provided(p) == manager = "opkg" /\ p \in provided

\* What the router has, or has by another name.
Has(p) == Satisfied(p) \/ Provided(p)

Lacking(p) == {q \in Needs[p] : ~Has(q)}

\* What a call over S has to install, which is more than it is given.
Wanted(S) == UNION {{p} \cup Lacking(p) : p \in {q \in S : ~Satisfied(q)}}

Missing(S) == {p \in S : ~Satisfied(p) /\ carries[p] \notin read}

Refused(S) == {p \in S \ Missing(S) : ~Satisfied(p) /\ p \in broken}

\* What no download can bring: missing or refused, or in need of what is.
Hopeless(S) ==
  LET bad == Missing(S) \cup Refused(S)
  IN {p \in S : ({p} \cup Lacking(p)) \cap bad # {}}

\* One `apk add S`: a name it does not know, or one it refuses, and nothing of
\* S is installed; a download that fails may have let others through.
ApkAdd(S, got) ==
  IF Hopeless(Wanted(S)) # {}
  THEN /\ got = {}
       /\ out' = [missing |-> Missing(Wanted(S)), refused |-> {}, fetch |-> FALSE]
  ELSE out' = [missing |-> {}, refused |-> {}, fetch |-> Wanted(S) \ got # {}]

\* One `opkg install S` installs what it can, and names all of S it could not.
OpkgInstall(S, got) ==
  /\ got \cap Hopeless(Wanted(S)) = {}
  /\ out' = [missing |-> Missing(S),
             refused |-> {p \in S \ Missing(S) : ~Satisfied(p) /\ p \notin got},
             fetch |-> Wanted(S) \ (Hopeless(Wanted(S)) \cup got) # {}]

\* A call of the manager that installs got: names of S and what they need, the
\* needed ones first.
Add(S, got) ==
  /\ got \subseteq Wanted(S) /\ \A p \in got : Lacking(p) \subseteq got
  /\ IF manager = "apk" THEN ApkAdd(S, got) ELSE OpkgInstall(S, got)
  /\ installed' = installed \cup got
  /\ brought' = brought \cup (got \ S)

\* It exits 0.
Added(S, got) == \A p \in S : Satisfied(p) \/ p \in got

-----------------------------------------------------------------------------
(* The script *)

Begin ==
  /\ pc \in Finished
  /\ pc' = "refresh"
  /\ partial' = "no" /\ skipped' = {} /\ todo' = {} /\ p0' = Nobody
  /\ out' = Silence /\ waits' = Waits /\ left' = 0 /\ gaveUp' = 0
  /\ verdict' = "none" /\ read' = {} /\ unverified' = {} /\ brought' = {}
  /\ UNCHANGED <<world, installed, record>>

PartialRefresh(named) ==
  IF named # {} /\ named \subseteq KmodFeeds THEN "kmods" ELSE "all"

\* UpdateShell: a refresh that fails having read no feed ends the script, and on
\* apk one whose summary has no packages. Any other that fails is partial; it is
\* "kmods" when the feeds it names are all kmods indexes and it names one. A list
\* whose signature does not verify is dropped by opkg, which counts it as read
\* and does not fail. A feed that does not answer may have left a list before.
Refresh ==
  /\ pc = "refresh"
  /\ \E answered, dropped, stale, named \in SUBSET Feeds, failed \in BOOLEAN :
       /\ dropped # {} => manager = "opkg" /\ dropped \cap answered = {}
       /\ LET dead == Feeds \ (answered \cup dropped)
          IN /\ failed \/ dead = {}
             /\ stale \subseteq dead /\ named \in {{}, dead}
       /\ read' = answered \cup stale
       /\ unverified' = dropped
       /\ \/ pc' = "clear" /\ (failed => answered \cup dropped # {})
          \/ pc' = "exit" /\ failed /\ (answered \cup dropped = {} \/ manager = "apk")
       /\ partial' = IF ~failed THEN "no" ELSE PartialRefresh(named)
  /\ UNCHANGED <<world, router, record, skipped, shell, verdict>>

\* Mutant of Clear: the record of the image built upon stays.
ClearNothing ==
  /\ pc = "clear" /\ pc' = "all"
  /\ UNCHANGED <<world, router, record, lists, partial, skipped, shell, verdict>>

\* rm -f of the record; a record that stays stops the script.
Clear ==
  /\ pc = "clear"
  /\ \/ pc' = "all" /\ record' = {}
     \/ record # {} /\ pc' = "exit" /\ UNCHANGED record
  /\ UNCHANGED <<world, router, lists, partial, skipped, shell, verdict>>

\* All of them in one call.
AddAll ==
  /\ pc = "all"
  /\ \E got \in SUBSET Packages :
       /\ Add(Packages, got)
       /\ pc' = IF Added(Packages, got) THEN "done" ELSE "drop"
  /\ UNCHANGED <<world, record, lists, partial, skipped, todo, p0, waits, left, gaveUp,
                 verdict>>

\* Mutants of Suspect: "no such package" is taken at its word, always or when
\* only a kmods index did not answer.
SuspectNothing(p) == FALSE
SuspectAll(p) == partial = "all"

\* owlab_absent: a name no read feed has may be in the one that did not answer.
Suspect(p) == partial = "all" \/ (partial = "kmods" /\ p \in KmodNames)

\* The names said to be absent are recorded or skipped. A record that cannot be
\* written stops the script.
Absent(S, to) ==
  \/ /\ pc' = to
     /\ record' = record \cup {p \in S : Suspect(p)}
     /\ skipped' = skipped \cup {p \in S : ~Suspect(p)}
  \/ /\ \E p \in S : Suspect(p)
     /\ pc' = "exit"
     /\ UNCHANGED <<record, skipped>>

\* The missing names are dropped, and on opkg the refused ones that an installed
\* package provides. The rest are asked for again in one call, if that is any
\* different from the first.
Drop ==
  /\ pc = "drop"
  /\ LET dropped == out.missing \cup {p \in out.refused : Provided(p)}
     IN /\ todo' = Packages \ dropped
        /\ Absent(out.missing, IF dropped # {} /\ todo' # {} THEN "rest" ELSE "each")
  /\ UNCHANGED <<world, router, lists, partial, p0, out, waits, left, gaveUp, verdict>>

AddRest ==
  /\ pc = "rest"
  /\ \E got \in SUBSET Packages :
       /\ Add(todo, got)
       /\ pc' = IF Added(todo, got) THEN "done" ELSE "each"
  /\ UNCHANGED <<world, record, lists, partial, skipped, todo, p0, waits, left, gaveUp,
                 verdict>>

\* One at a time, in the order of the list, on which nothing here depends.
AddOne ==
  /\ pc = "each"
  /\ \E p \in todo, got \in SUBSET Packages :
       /\ Add({p}, got)
       /\ p0' = p /\ todo' = todo \ {p}
       /\ pc' = IF Added({p}, got) THEN "each" ELSE "failed"
  /\ UNCHANGED <<world, record, lists, partial, skipped, waits, left, gaveUp, verdict>>

EachDone ==
  /\ pc = "each" /\ todo = {}
  /\ pc' = "done"
  /\ UNCHANGED <<world, router, record, lists, partial, skipped, shell, verdict>>

\* A name that is provided is a skip, whatever the refusal.
SkipProvided ==
  /\ pc = "failed"
  /\ IF Provided(p0) THEN pc' = "each" /\ UNCHANGED left ELSE pc' = "retry" /\ left' = waits
  /\ UNCHANGED <<world, router, record, lists, partial, skipped, todo, p0, out, waits,
                 gaveUp, verdict>>

\* Mutant of Retry: the schedule starts over.
RetryForever ==
  /\ pc = "retry"
  /\ IF out.fetch
     THEN /\ left' = IF left > 0 THEN left - 1 ELSE waits
          /\ \E got \in SUBSET Packages : /\ Add({p0}, got)
                                      /\ pc' = IF Added({p0}, got) THEN "each" ELSE "retry"
     ELSE pc' = "judge" /\ UNCHANGED <<left, router, out>>
  /\ UNCHANGED <<world, record, lists, partial, skipped, todo, p0, waits, gaveUp, verdict>>

\* A download that failed is asked again after each wait that is left.
Retry ==
  /\ pc = "retry"
  /\ \/ /\ left > 0 /\ out.fetch
        /\ left' = left - 1
        /\ \E got \in SUBSET Packages : /\ Add({p0}, got)
                                    /\ pc' = IF Added({p0}, got) THEN "each" ELSE "retry"
     \/ /\ left = 0 \/ ~out.fetch
        /\ pc' = "judge"
        /\ UNCHANGED <<left, router, out>>
  /\ UNCHANGED <<world, record, lists, partial, skipped, todo, p0, waits, gaveUp, verdict>>

\* Mutant of Spend: each package has all the waits.
SpendNothing ==
  /\ gaveUp' = IF waits > 0 /\ out.fetch /\ gaveUp < 2 THEN gaveUp + 1 ELSE gaveUp
  /\ UNCHANGED waits

\* The first package to fail every attempt ends the waits of the rest.
Spend ==
  IF waits > 0 /\ out.fetch
  THEN waits' = 0 /\ gaveUp' = IF gaveUp < 2 THEN gaveUp + 1 ELSE 2
  ELSE UNCHANGED <<waits, gaveUp>>

\* Mutant of Judge: a failure is printed and not recorded.
JudgePrints ==
  /\ pc = "judge"
  /\ Spend
  /\ IF p0 \in out.missing THEN Absent({p0}, "each")
     ELSE pc' = "each" /\ UNCHANGED <<record, skipped>>
  /\ UNCHANGED <<world, router, lists, partial, todo, p0, out, left, verdict>>

Judge ==
  /\ pc = "judge"
  /\ Spend
  /\ IF p0 \in out.missing
     THEN Absent({p0}, "each")
     ELSE \/ pc' = "each" /\ record' = record \cup {p0} /\ UNCHANGED skipped
          \/ pc' = "exit" /\ UNCHANGED <<record, skipped>>
  /\ UNCHANGED <<world, router, lists, partial, todo, p0, out, left, verdict>>

\* The ssh session, the build or the router goes away in the middle.
Interrupt ==
  /\ pc \notin Finished
  /\ pc' = "idle"
  /\ UNCHANGED <<world, router, record, lists, partial, skipped, shell, verdict>>

\* recorded: a record that cannot be read is taken for none.
Report ==
  /\ pc = "done"
  /\ pc' = "reported"
  /\ verdict' \in {IF record = {} THEN "complete" ELSE "missing", "unread"}
  /\ UNCHANGED <<world, router, record, lists, partial, skipped, shell>>

Script == Refresh \/ Clear \/ AddAll \/ Drop \/ AddRest \/ AddOne \/ EachDone
            \/ SkipProvided \/ Retry \/ Judge

Next == Begin \/ Script \/ Interrupt \/ Report

Spec == Init /\ [][Next]_vars

\* The script goes on: each call of the manager ends, each wait is over.
FairSpec == Spec /\ WF_vars(Script)

-----------------------------------------------------------------------------
(* Properties *)

\* A script that exits 0 has accounted for every package: the router has it, or
\* the record or a skip names it, whatever failed, dropped out of a call or was
\* retried on the way (EachShell).
Accounted == pc = "done" => \A p \in Packages : Has(p) \/ p \in record \cup skipped

\* A package that is skipped as "not in this feed" is in no configured feed, the
\* ones that did not answer this refresh included (owlab_partial). It may be in
\* one whose list opkg dropped for its signature: that refresh exits 0, and
\* UpdateShell takes it for a complete one.
SkipsAreTrue == \A p \in skipped : carries[p] \in unverified \cup {Nowhere}

\* After a script that exits 0 the record names only packages this router does
\* not have: none that an earlier build or an earlier, interrupted run failed to
\* install and this one did. A package that failed by itself may still come in
\* as what a later one needs, and the record keeps its name: that one alone.
RecordIsOurs == pc = "done" => \A p \in record : ~Satisfied(p) \/ p \in brought

\* An `owlab up` that read the record and found none started a router with every
\* package its configuration names and any feed has, but for the feeds whose list
\* opkg dropped for its signature.
CompleteIsComplete ==
  verdict = "complete" =>
    \A p \in Packages : Has(p) \/ carries[p] \in unverified \cup {Nowhere}

\* An outage costs one round of waiting, and not one per package.
OneOutage == gaveUp <= 1

\* The script ends, however often downloads fail.
ScriptEnds == pc \notin Finished ~> pc \in Finished

-----------------------------------------------------------------------------
(* The inductive invariant: what each place of the script may rely on. *)

\* The places after the refresh and the removal of the old record.
Begun == {"all", "drop", "rest", "each", "failed", "retry", "judge", "done"}

\* The places where p0 has just been refused.
OnP0 == {"failed", "retry", "judge"}

\* A kmods index has kmod-* packages only, and owlab_partial says which feeds
\* may not have been read, but for the ones it takes for read.
PartialInv ==
  /\ \A p \in Packages : carries[p] \in KmodFeeds => p \in KmodNames
  /\ pc \in Begun \cup {"clear"} =>
       /\ partial = "no" => read \cup unverified = Feeds
       /\ partial = "kmods" => Feeds \ (read \cup unverified) \subseteq KmodFeeds

\* What the manager called missing is in no feed it has read, and not there.
MissingInv ==
  pc \in {"drop", "rest", "each"} \cup OnP0 =>
    \A p \in out.missing : carries[p] \notin read

\* Packages not asked for any more are accounted for.
AccountInv ==
  /\ pc \in {"rest", "each"} =>
       \A p \in Packages \ todo : Has(p) \/ p \in record \cup skipped
  /\ pc \in OnP0 =>
       \A p \in Packages \ (todo \cup {p0}) : Has(p) \/ p \in record \cup skipped
  /\ pc \in OnP0 \ {"failed"} => ~Provided(p0)

\* The record and the skips are of this run, and of packages it will not ask for
\* again.
RecordInv ==
  /\ pc = "refresh" => skipped = {}
  /\ pc = "all" => record = {}
  /\ pc = "drop" => record = {} /\ \A p \in out.missing : ~Satisfied(p)
  /\ pc \in {"rest", "each"} \cup OnP0 => record \cap todo = {}
  /\ pc \in OnP0 => p0 \notin record /\ p0 \notin todo /\ ~Satisfied(p0)
  /\ pc \in Begun => \A p \in record : ~Satisfied(p) \/ p \in brought

ReportInv ==
  /\ verdict # "none" => pc = "reported"
  /\ pc = "reported" => \A p \in Packages : Has(p) \/ p \in record \cup skipped
  /\ verdict = "complete" => record = {}

\* The waits are spent with the first package that used them all.
WaitsInv == gaveUp <= 1 /\ (gaveUp = 1 => waits = 0)

IInv == /\ TypeOK /\ PartialInv /\ MissingInv /\ AccountInv /\ RecordInv
        /\ ReportInv /\ WaitsInv
        /\ SkipsAreTrue /\ Accounted
=============================================================================
