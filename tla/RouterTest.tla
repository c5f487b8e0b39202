----------------------------- MODULE RouterTest -----------------------------
(***************************************************************************)
(* What `owlab test` asks of one router (cmd/owlab/test.go: the loop of    *)
(* test; internal/check: Run, runHTTP and its LuCI session): boot, the     *)
(* records of its build, the install, the sync, and then the assertions of *)
(* the command line, one after another on a router they may change.        *)
(***************************************************************************)
EXTENDS Naturals, Sequences, FiniteSets

CONSTANTS
  Wants,   \* statuses an http assertion may want; one below 10 is a class, 2 being 2xx
  Asserts  \* bound: assertions of a command

ASSUME RouterTestAssumption ==
  /\ Wants \subseteq (1..5) \cup (100..599)
  /\ Asserts \in Nat

\* Assertions: a page, a command of the user's, or one of the kinds that only look
\* (service, file, package, uci).
Assertions == [kind : {"http"}, want : Wants] \cup [kind : {"exec", "look"}, want : {0}]
Step(name) == [kind |-> name, want |-> 0]

Pages == {"healthy", "exception", "crashed", "absent", "forbidden"}

\* What a test was asked to do. "names" is --install with names of a feed only.
Orders == [asserts : UNION {[1..k -> Assertions] : k \in 0..Asserts},
           install : {"none", "names", "files"}, sync : BOOLEAN]

Places == {"boot", "reach", "packages", "extra_packages", "install", "sync"}
Steps == {Step(p) : p \in Places}

\* An entry of the report. page and lost are history: the page that answered an http
\* assertion, and whether the router had forgotten the session by then.
Entries == [check : Steps \cup Assertions, ok : BOOLEAN, page : Pages \cup {"none"},
            lost : BOOLEAN]

VARIABLES
  place,
  asked,    \* the order of the command
  extras,   \* this router is a container with extra_packages
  record,   \* rr.Steps: what was asked, and whether it passed
  luci,     \* how LuCI takes a login: "open", "closed" to this password, or "none" there
  page,     \* the page the http assertions are about
  lacks,    \* records of its build that name a package
  client,   \* check.luci: has it logged in, and holds its jar a session cookie
  known,    \* the router knows the session of that cookie
  blind     \* history: a record could not be read

router == <<extras, luci, page, lacks, known>>
rtVars == <<place, asked, record, router, client, blind>>

NoClient == [loggedIn |-> FALSE, cookie |-> FALSE]

RTTypeOK ==
  /\ place \in Places \cup {"assert", "login", "get", "ended"}
  /\ asked \in Orders /\ extras \in BOOLEAN /\ luci \in {"open", "closed", "none"}
  /\ page \in Pages /\ lacks \subseteq {"packages", "extra_packages"}
  /\ client \in [loggedIn : BOOLEAN, cookie : BOOLEAN] /\ known \in BOOLEAN
  /\ client.loggedIn => client.cookie
  /\ blind \in BOOLEAN /\ record \in Seq(Entries)

RTInit ==
  /\ asked \in Orders /\ place = "boot" /\ record = <<>>
  /\ extras = FALSE /\ luci = "none" /\ page = "absent" /\ lacks = {} /\ known = FALSE
  /\ client = NoClient /\ blind = FALSE

-----------------------------------------------------------------------------
(* The steps ahead of the assertions *)

Entry(check, ok, p, lost) == [check |-> check, ok |-> ok, page |-> p, lost |-> lost]
Recorded(check, ok) == record' = Append(record, Entry(check, ok, "none", FALSE))

\* rr.OK
OK == \A k \in DOMAIN record : record[k].ok

\* waitForLuCI: whatever answers on the port will do. What the router is by then
\* depends on its image and its boot.
Boot ==
  /\ place = "boot"
  /\ \E up \in BOOLEAN :
       Recorded(Step("boot"), up) /\ place' = IF up THEN "reach" ELSE "ended"
  /\ extras' \in BOOLEAN /\ lacks' \in SUBSET {"packages", "extra_packages"}
  /\ luci' \in {"open", "closed", "none"} /\ page' \in Pages
  /\ UNCHANGED <<asked, known, client, blind>>

\* execFor is no step of the report unless it fails.
Reach ==
  /\ place = "reach"
  /\ \/ place' = "packages" /\ UNCHANGED record
     \/ place' = "ended" /\ Recorded(Step("reach"), FALSE)
  /\ UNCHANGED <<asked, router, client, blind>>

\* recordStep: a record that cannot be read names nothing.
RecordStep(name) ==
  \E read \in BOOLEAN :
    /\ Recorded(Step(name), ~(read /\ name \in lacks))
    /\ blind' = (blind \/ ~read)

Packages ==
  /\ place = "packages" /\ RecordStep("packages") /\ place' = "extra_packages"
  /\ UNCHANGED <<asked, router, client>>

Extras ==
  /\ place = "extra_packages" /\ place' = "install"
  /\ IF extras THEN RecordStep("extra_packages")
     ELSE UNCHANGED <<record, blind>>
  /\ UNCHANGED <<asked, router, client>>

\* Mutant of Installs: only files are installed.
InstallsFiles == asked.install = "files"

Installs == asked.install # "none"

\* The reload behind an install keeps the sessions. Whatever else it did to LuCI shows.
InstallStep ==
  /\ place = "install" /\ place' = "sync"
  /\ IF Installs
     THEN /\ \E ok \in BOOLEAN : Recorded(Step("install"), ok)
          /\ page' \in Pages
     ELSE UNCHANGED <<record, page>>
  /\ UNCHANGED <<asked, extras, luci, lacks, known, client, blind>>

\* Mutant of Fit: a router is asked whatever its build lacks.
FitAnyway ==
  \A k \in DOMAIN record : record[k].ok \/ record[k].check.kind \in {"packages", "extra_packages"}

\* Nothing is synced to, or asked of, a router that failed a step.
Fit == OK

Sync ==
  /\ place = "sync"
  /\ IF asked.sync /\ Fit
     THEN /\ page' \in Pages
          /\ \E ok \in BOOLEAN :
               Recorded(Step("sync"), ok) /\ place' = IF ok THEN "assert" ELSE "ended"
     ELSE place' = (IF Fit THEN "assert" ELSE "ended") /\ UNCHANGED <<record, page>>
  /\ UNCHANGED <<asked, extras, luci, lacks, known, client, blind>>

-----------------------------------------------------------------------------
(* The assertions *)

Asserted == Cardinality({k \in DOMAIN record : record[k].check \in Assertions})
Current == asked.asserts[Asserted + 1]

\* The steps end with the last assertion, whatever the ones before it said.
AllMade ==
  /\ place = "assert" /\ Asserted = Len(asked.asserts) /\ place' = "ended"
  /\ UNCHANGED <<asked, record, router, client, blind>>

\* runShell. A command of the user's may change the page, and restart rpcd, which
\* forgets its sessions.
Shell ==
  /\ place = "assert" /\ Asserted < Len(asked.asserts) /\ Current.kind # "http"
  /\ \E ok \in BOOLEAN : Recorded(Current, ok)
  /\ IF Current.kind = "exec" THEN page' \in Pages /\ known' \in {known, FALSE}
     ELSE UNCHANGED <<page, known>>
  /\ UNCHANGED <<place, asked, extras, luci, lacks, client, blind>>

\* runHTTP opens the one session of this router, and keeps it.
OpenPage ==
  /\ place = "assert" /\ Asserted < Len(asked.asserts) /\ Current.kind = "http"
  /\ place' = IF client.loggedIn THEN "get" ELSE "login"
  /\ UNCHANGED <<asked, record, router, client, blind>>

\* No answer, no LuCI, or a login that was refused.
Unanswered(at) ==
  /\ place = at /\ place' = "assert" /\ Recorded(Current, FALSE)
  /\ UNCHANGED <<asked, router, client, blind>>

\* Mutant of LoggedIn: any answer but a 404 is taken for a login.
LoggedInByAnswer == luci # "none"

\* The answer to the login set a session cookie.
LoggedIn == luci = "open"

Login ==
  \/ /\ place = "login" /\ LoggedIn /\ place' = "get"
     /\ client' = [loggedIn |-> TRUE, cookie |-> luci = "open"] /\ known' = (luci = "open")
     /\ UNCHANGED <<asked, record, extras, luci, page, lacks, blind>>
  \/ Unanswered("login")

\* The status root gets for a page. A dispatcher that catches an exception says 200.
Status == [healthy |-> 200, exception |-> 200, crashed |-> 500, absent |-> 404, forbidden |-> 403]

\* Without a session LuCI answers with the login form, or with the way to it.
Answers == IF client.cookie /\ known THEN {Status[page]} ELSE {403, 302}

\* statusMatcher
Match(want, code) == IF want < 10 THEN code \div 100 = want ELSE code = want

\* Mutant of Healthy: the status alone decides.
HealthyByStatus(code) == TRUE

\* errorMarker is looked for in what came with a 2xx.
Healthy(code) == ~(code \div 100 = 2 /\ page = "exception")

Get ==
  \/ /\ place = "get" /\ place' = "assert"
     /\ \E code \in Answers :
          record' = Append(record, Entry(Current, Match(Current.want, code) /\ Healthy(code), page,
                                         client.cookie /\ ~known))
     /\ UNCHANGED <<asked, router, client, blind>>
  \/ Unanswered("get")

\* The same command on the next router, with a report and a session of its own.
NextRouter ==
  /\ place = "ended" /\ place' = "boot" /\ record' = <<>>
  /\ extras' = FALSE /\ luci' = "none" /\ page' = "absent" /\ lacks' = {} /\ known' = FALSE
  /\ client' = NoClient /\ blind' = FALSE /\ UNCHANGED asked

RTNext == \/ Boot \/ Reach \/ Packages \/ Extras \/ InstallStep \/ Sync
          \/ AllMade \/ Shell \/ OpenPage \/ Login \/ Get \/ NextRouter

RTSpec == RTInit /\ [][RTNext]_rtVars

-----------------------------------------------------------------------------
(* Properties *)

IsHTTP(e) == e.check.kind = "http" /\ e.page # "none"

\* What the assertion says of the page as root sees it.
AsRoot(e) == Match(e.check.want, Status[e.page]) /\ e.page # "exception"

\* "fetch a LuCI page as root" (check.go:111): an http assertion that was answered
\* says what root sees, an exception behind a 200 included (check.go:291), as long as
\* the router knows the session.
VerdictIsRoots ==
  \A k \in DOMAIN record : IsHTTP(record[k]) /\ ~record[k].lost =>
    record[k].ok = AsRoot(record[k])

\* "asserting against such a router would report a pass for something that was never
\* on it" (test.go:207): a router is asked only after every step before succeeded, and
\* if its build lacks a package of a record that concerns it, only because that record
\* could not be read.
AssertedOnlyWhenEquipped ==
  \A k \in DOMAIN record : record[k].check \in Assertions =>
    /\ \A j \in 1..k : record[j].check \in Steps => record[j].ok
    /\ blind \/ lacks \subseteq (IF extras THEN {} ELSE {"extra_packages"})

\* The steps and assertions the command line asks of this router, in their order.
BuildSteps ==
  <<Step("boot"), Step("packages")>>
    \o (IF extras THEN <<Step("extra_packages")>> ELSE <<>>)
InstallSteps == BuildSteps \o (IF asked.install = "none" THEN <<>> ELSE <<Step("install")>>)
AllSteps == InstallSteps \o (IF asked.sync THEN <<Step("sync")>> ELSE <<>>)
Wanted == AllSteps \o asked.asserts

Reported == [k \in DOMAIN record |-> record[k].check]

\* A router that passes was asked everything the command line asks of it, once and in
\* order: no step was left out as if there were nothing to do.
PassIsComplete ==
  place = "ended" /\ OK => Reported = Wanted

-----------------------------------------------------------------------------
(* Why they hold *)

Asserting == place \in {"assert", "login", "get"}

\* At every place of the loop the report has what was asked up to there.
Progress ==
  /\ place = "boot" => Reported = <<>>
  /\ place \in {"reach", "packages"} => Reported = <<Step("boot")>>
  /\ place = "extra_packages" => Reported = <<Step("boot"), Step("packages")>>
  /\ place = "install" => Reported = BuildSteps
  /\ place = "sync" => Reported = InstallSteps
  /\ Asserting =>
       /\ Asserted <= Len(asked.asserts)
       /\ Reported = AllSteps \o SubSeq(asked.asserts, 1, Asserted)
  /\ place \in {"login", "get"} => Asserted < Len(asked.asserts) /\ Current.kind = "http"
  /\ place = "get" => client.loggedIn

\* What a router that has passed up to here has of its build.
Equipped ==
  /\ place \in {"extra_packages", "install", "sync"} /\ OK => blind \/ "packages" \notin lacks
  /\ place \in {"install", "sync"} /\ OK /\ extras => blind \/ "extra_packages" \notin lacks
  /\ Asserting =>
       /\ \A k \in DOMAIN record : record[k].check \in Steps => record[k].ok
       /\ blind \/ lacks \subseteq (IF extras THEN {} ELSE {"extra_packages"})

IInv ==
  /\ RTTypeOK /\ Progress /\ Equipped
  /\ VerdictIsRoots /\ AssertedOnlyWhenEquipped /\ PassIsComplete

=============================================================================
