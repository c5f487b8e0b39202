------------------------------ MODULE Download ------------------------------
(***************************************************************************)
(* Requests that are asked again (internal/netx: Transport.RoundTrip) and  *)
(* the cached download built on them (internal/compose/extra.go: Fetch,    *)
(* fetchOnce). The file is written to <name>.part and renamed; the cache   *)
(* is the project's, and every owlab process of the project shares it.     *)
(***************************************************************************)
EXTENDS Naturals, FiniteSets

CONSTANTS
  Procs,     \* owlab processes that Fetch the file
  Attempts,  \* netx.DefaultAttempts
  Pieces,    \* how many reads bring the body
  Versions   \* how often the server publishes the file under this URL

ASSUME DownloadAssumption ==
  /\ Attempts \in Nat \ {0} /\ Pieces \in Nat \ {0} /\ Versions \in Nat \ {0}

None == 0  \* no response in hand; a piece that was not written

VARIABLES
  pc,
  attempt,   \* Fetch: which fetchOnce this is
  try,       \* RoundTrip: which request of it this is
  asked,     \* requests since the call began
  why,       \* the last error or status: what a retry or the result is about
  served,    \* the version the response in hand is of
  pos,       \* pieces of it written
  out,       \* the name its open descriptor has by now: others rename and remove
  disk,      \* what is under the two names, piece by piece
  published, \* the version the server has now
  mixed      \* history: a fetch created <name>.part while another wrote it

request == <<attempt, try, asked, why>>
body == <<served, pos, out>>
vars == <<pc, request, body, disk, published, mixed>>

Whole == 1..Pieces
Content == [Whole -> 0..Versions]
Empty == [b \in Whole |-> None]
Absent == [b \in {} |-> None]  \* no file of that name
Place == {"part", "file", "lost"}

\* What a request comes back with: a transport error, or a status. final is
\* every answer that is not a 200: a certificate that does not verify, a 404.
Errors == {"unreachable", "final"}
Statuses == {"ok", "busy"}
Label == {"idle", "stat", "ask", "drain", "wait", "create", "body", "failed", "sleep",
          "rename", "done"}
Why == Errors \cup Statuses \cup {"none", "outage", "stalled", "local", "file"}
Finished == {"idle", "done"}

TypeOK ==
  /\ pc \in [Procs -> Label]
  /\ attempt \in [Procs -> 1..Attempts] /\ try \in [Procs -> 1..Attempts]
  /\ asked \in [Procs -> Nat]
  /\ why \in [Procs -> Why]
  /\ served \in [Procs -> 0..Versions] /\ pos \in [Procs -> 0..Pieces]
  /\ out \in [Procs -> Place]
  /\ disk \in [{"part", "file"} -> Content \cup {Absent}]
  /\ published \in 1..Versions /\ mixed \in BOOLEAN

Init ==
  /\ pc = [p \in Procs |-> "idle"]
  /\ attempt = [p \in Procs |-> 1] /\ try = [p \in Procs |-> 1]
  /\ asked = [p \in Procs |-> 0]
  /\ why = [p \in Procs |-> "none"]
  /\ served = [p \in Procs |-> None] /\ pos = [p \in Procs |-> 0]
  /\ out = [p \in Procs |-> "lost"]
  /\ disk = [n \in {"part", "file"} |-> Absent]
  /\ published = 1 /\ mixed = FALSE

Goto(p, l) == pc' = [pc EXCEPT ![p] = l]

\* The response in hand is closed, and the file it went to.
Drop(p) == /\ served' = [served EXCEPT ![p] = None]
           /\ pos' = [pos EXCEPT ![p] = 0]
           /\ out' = [out EXCEPT ![p] = "lost"]

-----------------------------------------------------------------------------
(* netx *)

Transient(e) == e \in {"unreachable", "outage"}
TransientStatus(s) == s = "busy"

\* Mutant of AsksAgain: every failure is asked again, answers among them.
AnyFailureAgain(r) == r # "ok"

\* Whether RoundTrip would ask again after this reply.
AsksAgain(r) == Transient(r) \/ TransientStatus(r)

\* RoundTrip hands a reply on: an outage it gave up on as OutageError, a status
\* as the response it is.
HandedOn(r) == IF Transient(r) THEN "outage" ELSE r

\* fetchOnce creates the file only for a 200.
Receive(p, r) ==
  /\ why' = [why EXCEPT ![p] = HandedOn(r)]
  /\ IF r = "ok"
     THEN /\ served' = [served EXCEPT ![p] = published]
          /\ Goto(p, "create") /\ UNCHANGED <<pos, out>>
     ELSE Goto(p, "failed") /\ UNCHANGED body

\* One request, up to the headers of its answer. No context of the caller's can
\* cancel it, or what comes after it.
Ask(p) ==
  /\ pc[p] = "ask"
  /\ asked' = [asked EXCEPT ![p] = @ + 1]
  /\ \E r \in Errors \cup Statuses :
       IF AsksAgain(r) /\ try[p] < Attempts
       THEN /\ why' = [why EXCEPT ![p] = r]
            /\ Goto(p, IF TransientStatus(r) THEN "drain" ELSE "wait")
            /\ UNCHANGED body
       ELSE Receive(p, r)
  /\ UNCHANGED <<attempt, try, disk, published, mixed>>

\* The body of an answer that is asked for again is read first, up to 64 KiB of
\* it. No timer runs: it takes what the server takes.
Drain(p) ==
  /\ pc[p] = "drain"
  /\ Goto(p, "wait") /\ UNCHANGED <<request, body, disk, published, mixed>>

Wait(p) ==
  /\ pc[p] = "wait"
  /\ try' = [try EXCEPT ![p] = @ + 1] /\ Goto(p, "ask")
  /\ UNCHANGED <<attempt, asked, why, body, disk, published, mixed>>

-----------------------------------------------------------------------------
(* Fetch *)

\* Descriptors follow a file that loses its name or gets another one.
Moved(from, to) == [p \in Procs |-> IF out[p] = from THEN to ELSE out[p]]

Unlink(n) == /\ disk' = [disk EXCEPT ![n] = Absent]
             /\ out' = Moved(n, "lost")

\* fetchRootfs removes the cached file of a rolling release before it fetches.
Begin(p) ==
  /\ pc[p] \in Finished
  /\ attempt' = [attempt EXCEPT ![p] = 1] /\ try' = [try EXCEPT ![p] = 1]
  /\ asked' = [asked EXCEPT ![p] = 0]
  /\ why' = [why EXCEPT ![p] = "none"]
  /\ \/ Unlink("file")
     \/ UNCHANGED <<disk, out>>
  /\ Goto(p, "stat")
  /\ UNCHANGED <<served, pos, published, mixed>>

Stat(p) ==
  /\ pc[p] = "stat"
  /\ IF disk["file"] \notin {Absent, Empty}
     THEN why' = [why EXCEPT ![p] = "file"] /\ Goto(p, "done")
     ELSE Goto(p, "ask") /\ UNCHANGED why
  /\ UNCHANGED <<attempt, try, asked, body, disk, published, mixed>>

Fail(p, e) == why' = [why EXCEPT ![p] = e] /\ Goto(p, "failed") /\ Drop(p)

\* What fetchOnce says of its error: a stalled body, or one that broke off in a
\* way that is Transient. netx has given up on any other failure.
Retry(p) == why[p] = "stalled" \/ why[p] = "unreachable"

Writing == {p \in Procs : pc[p] \in {"body", "rename"}}

\* Mutant of Create: what <name>.part already holds is resumed.
CreateResumes(p) ==
  /\ pc[p] = "create"
  /\ IF disk["part"] = Absent
     THEN disk' = [disk EXCEPT !["part"] = Empty] /\ UNCHANGED pos
     ELSE /\ pos' = [pos EXCEPT ![p] =
                       Cardinality({b \in Whole : disk["part"][b] # None})]
          /\ UNCHANGED disk
  /\ out' = [out EXCEPT ![p] = "part"]
  /\ mixed' = (mixed \/ Writing # {})
  /\ Goto(p, "body")
  /\ UNCHANGED <<request, served, published>>

\* os.Create truncates <name>.part under whoever has it open.
Create(p) ==
  /\ pc[p] = "create"
  /\ \/ /\ disk' = [disk EXCEPT !["part"] = Empty]
        /\ out' = [out EXCEPT ![p] = "part"]
        /\ mixed' = (mixed \/ Writing # {})
        /\ Goto(p, "body")
        /\ UNCHANGED <<request, served, pos>>
     \/ Fail(p, "local") /\ UNCHANGED <<attempt, try, asked, disk, mixed>>
  /\ UNCHANGED published

\* A read that brings a piece, and the write of it.
Copy(p) ==
  /\ pc[p] = "body" /\ pos[p] < Pieces
  /\ pos' = [pos EXCEPT ![p] = @ + 1]
  /\ disk' = IF out[p] = "lost" THEN disk
             ELSE [disk EXCEPT ![out[p]][pos[p] + 1] = served[p]]
  /\ UNCHANGED <<pc, request, served, out, published, mixed>>

\* Mutant of Stall: the timer is not set again once bytes have come.
StallAtFirst(p) ==
  /\ pc[p] = "body" /\ pos[p] = 0
  /\ Fail(p, "stalled")
  /\ UNCHANGED <<attempt, try, asked, disk, published, mixed>>

\* The server has sent nothing for StallAfter.
Stall(p) ==
  /\ pc[p] = "body"
  /\ Fail(p, "stalled")
  /\ UNCHANGED <<attempt, try, asked, disk, published, mixed>>

\* A body that broke off, or a disk that takes no more.
Break(p) ==
  /\ pc[p] = "body"
  /\ \/ \E e \in {"unreachable", "final"} : Fail(p, e)
     \/ Fail(p, "local")
  /\ UNCHANGED <<attempt, try, asked, disk, published, mixed>>

End(p) ==
  /\ pc[p] = "body" /\ pos[p] = Pieces
  /\ Goto(p, "rename") /\ UNCHANGED <<request, body, disk, published, mixed>>

\* Mutant of Failed: an attempt that was not the last is called an outage.
FailedSoon(p) ==
  /\ pc[p] = "failed"
  /\ Unlink("part")
  /\ IF Retry(p) /\ attempt[p] < Attempts
     THEN why' = [why EXCEPT ![p] = "outage"] /\ Goto(p, "done")
          /\ UNCHANGED attempt
     ELSE Goto(p, "done") /\ UNCHANGED <<attempt, why>>
  /\ UNCHANGED <<try, asked, served, pos, published, mixed>>

\* Fetch after a failed attempt.
Failed(p) ==
  /\ pc[p] = "failed"
  /\ Unlink("part")
  /\ IF Retry(p) /\ attempt[p] < Attempts
     THEN /\ attempt' = [attempt EXCEPT ![p] = @ + 1]
          /\ Goto(p, "sleep") /\ UNCHANGED why
     ELSE /\ why' = [why EXCEPT ![p] = IF Retry(p) THEN "outage" ELSE @]
          /\ Goto(p, "done") /\ UNCHANGED attempt
  /\ UNCHANGED <<try, asked, served, pos, published, mixed>>

\* The next attempt is a request of its own, with netx's attempts of its own.
Sleep(p) ==
  /\ pc[p] = "sleep"
  /\ try' = [try EXCEPT ![p] = 1] /\ Goto(p, "ask")
  /\ UNCHANGED <<attempt, asked, why, body, disk, published, mixed>>

Rename(p) ==
  /\ pc[p] = "rename"
  /\ IF disk["part"] = Absent
     THEN why' = [why EXCEPT ![p] = "local"] /\ Drop(p) /\ UNCHANGED disk
     ELSE /\ why' = [why EXCEPT ![p] = "file"]
          /\ disk' = [disk EXCEPT !["file"] = disk["part"], !["part"] = Absent]
          /\ out' = [q \in Procs |-> IF q # p /\ out[q] = "part" THEN "file" ELSE "lost"]
          /\ served' = [served EXCEPT ![p] = None] /\ pos' = [pos EXCEPT ![p] = 0]
  /\ Goto(p, "done")
  /\ UNCHANGED <<attempt, try, asked, published, mixed>>

-----------------------------------------------------------------------------
(* The world *)

\* A process that is killed leaves its .part behind.
Crash(p) ==
  /\ pc[p] \notin Finished
  /\ Goto(p, "idle") /\ Drop(p)
  /\ attempt' = [attempt EXCEPT ![p] = 1] /\ try' = [try EXCEPT ![p] = 1]
  /\ asked' = [asked EXCEPT ![p] = 0] /\ why' = [why EXCEPT ![p] = "none"]
  /\ UNCHANGED <<disk, published, mixed>>

\* The server rebuilds the file under the same name.
Publish ==
  /\ published < Versions
  /\ published' = published + 1
  /\ UNCHANGED <<pc, request, body, disk, mixed>>

\* What owlab does by itself, its timers included (a request without headers ends
\* as "unreachable"), and what the server's bytes make it do, for which no timer
\* waits in Drain.
Own(p) == \/ Stat(p) \/ Ask(p) \/ Wait(p) \/ Create(p) \/ Stall(p)
          \/ Failed(p) \/ Sleep(p) \/ Rename(p)
Receiving(p) == Drain(p) \/ Copy(p) \/ Break(p) \/ End(p)

Next == \/ \E p \in Procs : Begin(p) \/ Own(p) \/ Receiving(p) \/ Crash(p)
        \/ Publish

Spec == Init /\ [][Next]_vars /\ \A p \in Procs : WF_vars(Own(p))

-----------------------------------------------------------------------------
(* Properties *)

\* "An interrupted download cannot be mistaken for a complete one" (extra.go:93):
\* whatever a download was interrupted by, and however often the server rebuilt
\* the file meanwhile, the cached file is one version of it from end to end,
\* unless two processes wrote <name>.part at once.
OnlyOverlapTears ==
  mixed \/ disk["file"] = Absent
        \/ \E v \in 1..Versions : disk["file"] = [b \in Whole |-> v]

\* A call that blames an outage asked at least as often as netx.DefaultAttempts
\* says, and no call asks more often than its attempts times netx's.
OutagePersisted ==
  \A p \in Procs :
    /\ asked[p] <= Attempts * Attempts
    /\ pc[p] = "done" /\ why[p] \in {"outage", "busy"} => asked[p] >= Attempts

\* A server that answered is not asked again in the same call: a request follows
\* another one only if that one ended in an outage.
AnswersStand ==
  [][\A p \in Procs :
       asked[p] # 0 /\ asked'[p] > asked[p] =>
         why[p] \in {"unreachable", "busy", "stalled"}]_vars

\* A call ends, though no context can end a Fetch: in a file's body that moves, and
\* in a server that says nothing, because each of the two has a timer. The one place
\* without is the body of a failed answer (netx.go:157): a server that stops in
\* the middle of a 503 keeps the call there for ever.
EveryCallEnds ==
  \A p \in Procs : \/ pc[p] = "stat" ~> pc[p] \in Finished
                   \/ <>[](pc[p] = "drain")

=============================================================================
