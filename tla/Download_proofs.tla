-------------------------- MODULE Download_proofs --------------------------
(***************************************************************************)
(* Proofs about Download, for any processes, attempts, pieces and versions *)
(* of the file: how often a server is asked, and what the cache can hold.  *)
(***************************************************************************)
EXTENDS Download, TLAPS

-----------------------------------------------------------------------------
(* Types *)

LEMMA Zeros ==
  /\ 0 \in 0..Versions /\ 0 \in 0..Pieces /\ 1 \in 1..Versions /\ 1 \in 1..Attempts
  /\ 1..Versions \subseteq 0..Versions
BY DownloadAssumption

LEMMA Contents == Empty \in Content
BY Zeros DEF Empty, Content, None

LEMMA MovedType ==
  ASSUME out \in [Procs -> Place], NEW from \in Place, NEW to \in Place
  PROVE  Moved(from, to) \in [Procs -> Place]
BY DEF Moved

LEMMA DropType ==
  ASSUME TypeOK, NEW p \in Procs, Drop(p)
  PROVE  /\ served' \in [Procs -> 0..Versions] /\ pos' \in [Procs -> 0..Pieces]
         /\ out' \in [Procs -> Place]
BY Zeros DEF TypeOK, Drop, None, Place

LEMMA UnlinkType ==
  ASSUME TypeOK, NEW n \in {"part", "file"}, Unlink(n)
  PROVE  disk' \in [{"part", "file"} -> Content \cup {Absent}] /\ out' \in [Procs -> Place]
<1>1. n \in Place /\ "lost" \in Place
  BY DEF Place
<1>2. out' \in [Procs -> Place]
  BY <1>1, MovedType DEF TypeOK, Unlink
<1>3. QED
  BY <1>2 DEF TypeOK, Unlink

LEMMA FailType ==
  ASSUME TypeOK, NEW p \in Procs, NEW e \in Why, Fail(p, e)
  PROVE  /\ pc' \in [Procs -> Label] /\ why' \in [Procs -> Why]
         /\ served' \in [Procs -> 0..Versions] /\ pos' \in [Procs -> 0..Pieces]
         /\ out' \in [Procs -> Place]
<1>1. pc' \in [Procs -> Label] /\ why' \in [Procs -> Why]
  BY DEF TypeOK, Fail, Goto, Label
<1>2. QED
  BY <1>1, DropType DEF Fail

\* RoundTrip waits only for a request it has left.
TriesLeft == \A p \in Procs : pc[p] \in {"drain", "wait"} => try[p] < Attempts

\* Every variable keeps its type, and no loop runs past its last attempt or piece.
Typed == TypeOK /\ TriesLeft

LEMMA TypedHolds == Spec => []Typed
<1> USE DEF Typed
<1>1. Init => Typed
  <2> SUFFICES ASSUME Init PROVE Typed
    OBVIOUS
  <2>1. TypeOK
    BY Zeros DEF Init, TypeOK, Label, Why, Place, None, Errors, Statuses
  <2>2. QED
    BY <2>1 DEF Init, TriesLeft
<1>2. Typed /\ [Next]_vars => Typed'
  <2> SUFFICES ASSUME TypeOK, TriesLeft, [Next]_vars PROVE TypeOK' /\ TriesLeft'
    OBVIOUS
  <2>1. ASSUME NEW p \in Procs, Begin(p) PROVE TypeOK' /\ TriesLeft'
    <3>1. /\ attempt' \in [Procs -> 1..Attempts] /\ try' \in [Procs -> 1..Attempts]
          /\ asked' \in [Procs -> Nat] /\ why' \in [Procs -> Why] /\ pc' \in [Procs -> Label]
      BY <2>1, Zeros DEF Begin, TypeOK, Goto, Why, Label
    <3>2. disk' \in [{"part", "file"} -> Content \cup {Absent}] /\ out' \in [Procs -> Place]
      BY <2>1, UnlinkType DEF Begin, TypeOK
    <3>3. TriesLeft'
      BY <2>1 DEF Begin, TypeOK, TriesLeft, Goto
    <3>4. QED
      BY <2>1, <3>1, <3>2, <3>3 DEF Begin, TypeOK
  <2>2. ASSUME NEW p \in Procs, Stat(p) PROVE TypeOK' /\ TriesLeft'
    <3>1. TypeOK'
      BY <2>2 DEF Stat, TypeOK, Goto, Why, Label, body
    <3>2. TriesLeft'
      BY <2>2 DEF Stat, TypeOK, TriesLeft, Goto
    <3>3. QED
      BY <3>1, <3>2
  <2>3. ASSUME NEW p \in Procs, Ask(p) PROVE TypeOK' /\ TriesLeft'
    <3>1. PICK r \in Errors \cup Statuses :
            IF AsksAgain(r) /\ try[p] < Attempts
            THEN /\ why' = [why EXCEPT ![p] = r]
                 /\ Goto(p, IF TransientStatus(r) THEN "drain" ELSE "wait")
                 /\ UNCHANGED body
            ELSE Receive(p, r)
      BY <2>3 DEF Ask
    <3>2. r \in Why /\ HandedOn(r) \in Why
      BY DEF Why, HandedOn
    <3>3. why' \in [Procs -> Why]
      BY <3>1, <3>2 DEF Receive, TypeOK
    <3>4. pc' \in [Procs -> Label]
      BY <3>1 DEF Receive, TypeOK, Goto, Label
    <3>5. /\ served' \in [Procs -> 0..Versions] /\ pos' \in [Procs -> 0..Pieces]
          /\ out' \in [Procs -> Place]
      BY <3>1, Zeros DEF Receive, TypeOK, body
    <3>6. asked' \in [Procs -> Nat]
      BY <2>3 DEF Ask, TypeOK
    <3>7. TypeOK'
      BY <2>3, <3>3, <3>4, <3>5, <3>6 DEF Ask, TypeOK
    <3>8. TriesLeft'
      BY <2>3, <3>1 DEF Ask, Receive, TypeOK, TriesLeft, Goto
    <3>9. QED
      BY <3>7, <3>8
  <2>4. ASSUME NEW p \in Procs, Wait(p) PROVE TypeOK' /\ TriesLeft'
    <3>1. try[p] + 1 \in 1..Attempts
      BY <2>4, DownloadAssumption DEF Wait, TypeOK, TriesLeft
    <3>2. TypeOK'
      BY <2>4, <3>1 DEF Wait, TypeOK, Goto, Label, body
    <3>3. TriesLeft'
      BY <2>4 DEF Wait, TypeOK, TriesLeft, Goto
    <3>4. QED
      BY <3>2, <3>3
  <2>5. ASSUME NEW p \in Procs, Create(p) PROVE TypeOK' /\ TriesLeft'
    <3>1. mixed' \in BOOLEAN
      BY <2>5, Zenon DEF Create, TypeOK
    <3>2. "local" \in Why /\ "part" \in Place
      BY DEF Why, Place
    <3>3. /\ pc' \in [Procs -> Label] /\ why' \in [Procs -> Why]
          /\ served' \in [Procs -> 0..Versions] /\ pos' \in [Procs -> 0..Pieces]
          /\ out' \in [Procs -> Place]
      BY <2>5, <3>2, FailType DEF Create, TypeOK, Goto, Label, request
    <3>4. disk' \in [{"part", "file"} -> Content \cup {Absent}]
      BY <2>5, Contents DEF Create, TypeOK
    <3>5. TypeOK'
      BY <2>5, <3>1, <3>3, <3>4 DEF Create, TypeOK, request
    <3>6. TriesLeft'
      BY <2>5 DEF Create, Fail, TypeOK, TriesLeft, Goto, request
    <3>7. QED
      BY <3>5, <3>6
  <2>6. ASSUME NEW p \in Procs, Copy(p) PROVE TypeOK' /\ TriesLeft'
    <3>1. pos' \in [Procs -> 0..Pieces]
      BY <2>6, DownloadAssumption DEF Copy, TypeOK
    <3>2. disk' \in [{"part", "file"} -> Content \cup {Absent}]
      <4>1. CASE out[p] = "lost"
        BY <2>6, <4>1 DEF Copy, TypeOK
      <4>2. CASE out[p] # "lost"
        <5>1. out[p] \in {"part", "file"} /\ served[p] \in 0..Versions
          BY <4>2 DEF TypeOK, Place
        <5>2. [disk[out[p]] EXCEPT ![pos[p] + 1] = served[p]] \in Content \cup {Absent}
          <6>1. CASE disk[out[p]] \in Content
            BY <5>1, <6>1 DEF Content
          <6>2. CASE disk[out[p]] = Absent
            BY <6>2 DEF Absent
          <6>3. QED
            BY <5>1, <6>1, <6>2 DEF TypeOK
        <5>3. QED
          BY <2>6, <4>2, <5>1, <5>2 DEF Copy, TypeOK
      <4>3. QED
        BY <4>1, <4>2
    <3>3. QED
      BY <2>6, <3>1, <3>2 DEF Copy, TypeOK, TriesLeft, request
  <2>7. ASSUME NEW p \in Procs, NEW e \in Why, Fail(p, e),
               UNCHANGED <<attempt, try, asked, disk, published, mixed>>
        PROVE  TypeOK' /\ TriesLeft'
    <3>1. TypeOK'
      BY <2>7, FailType DEF TypeOK
    <3>2. TriesLeft'
      BY <2>7 DEF Fail, TypeOK, TriesLeft, Goto
    <3>3. QED
      BY <3>1, <3>2
  <2>8. ASSUME NEW p \in Procs, Stall(p) \/ Break(p) PROVE TypeOK' /\ TriesLeft'
    <3>1. {"stalled", "unreachable", "final", "local"} \subseteq Why
      BY DEF Why, Errors
    <3>2. PICK e \in Why : Fail(p, e) /\ UNCHANGED <<attempt, try, asked, disk, published, mixed>>
      BY <2>8, <3>1 DEF Stall, Break
    <3>3. QED
      BY <2>7, <3>2
  <2>9. ASSUME NEW p \in Procs, Drain(p) \/ End(p) PROVE TypeOK' /\ TriesLeft'
    BY <2>9 DEF Drain, End, TypeOK, TriesLeft, Goto, Label, request, body
  <2>10. ASSUME NEW p \in Procs, Failed(p) PROVE TypeOK' /\ TriesLeft'
    <3>1. disk' \in [{"part", "file"} -> Content \cup {Absent}] /\ out' \in [Procs -> Place]
      BY <2>10, UnlinkType DEF Failed
    <3>2. attempt' \in [Procs -> 1..Attempts]
      BY <2>10, DownloadAssumption DEF Failed, TypeOK
    <3>3. why' \in [Procs -> Why]
      BY <2>10 DEF Failed, TypeOK, Why
    <3>4. pc' \in [Procs -> Label] /\ TriesLeft'
      BY <2>10 DEF Failed, TypeOK, TriesLeft, Goto, Label
    <3>5. QED
      BY <2>10, <3>1, <3>2, <3>3, <3>4 DEF Failed, TypeOK
  <2>11. ASSUME NEW p \in Procs, Sleep(p) PROVE TypeOK' /\ TriesLeft'
    <3>1. try' \in [Procs -> 1..Attempts]
      BY <2>11, Zeros DEF Sleep, TypeOK
    <3>2. pc' \in [Procs -> Label] /\ TriesLeft'
      BY <2>11 DEF Sleep, TypeOK, TriesLeft, Goto, Label
    <3>3. QED
      BY <2>11, <3>1, <3>2 DEF Sleep, TypeOK, body
  <2>12. ASSUME NEW p \in Procs, Rename(p) PROVE TypeOK' /\ TriesLeft'
    <3>1. /\ served' \in [Procs -> 0..Versions] /\ pos' \in [Procs -> 0..Pieces]
          /\ out' \in [Procs -> Place]
      BY <2>12, DropType, Zeros DEF Rename, TypeOK, None, Place
    <3>2. disk' \in [{"part", "file"} -> Content \cup {Absent}]
      BY <2>12 DEF Rename, TypeOK
    <3>3. pc' \in [Procs -> Label] /\ why' \in [Procs -> Why] /\ TriesLeft'
      BY <2>12 DEF Rename, TypeOK, TriesLeft, Goto, Label, Why
    <3>4. QED
      BY <2>12, <3>1, <3>2, <3>3 DEF Rename, TypeOK
  <2>13. ASSUME NEW p \in Procs, Crash(p) PROVE TypeOK' /\ TriesLeft'
    <3>1. /\ served' \in [Procs -> 0..Versions] /\ pos' \in [Procs -> 0..Pieces]
          /\ out' \in [Procs -> Place]
      BY <2>13, DropType DEF Crash
    <3>2. /\ attempt' \in [Procs -> 1..Attempts] /\ try' \in [Procs -> 1..Attempts]
          /\ asked' \in [Procs -> Nat] /\ why' \in [Procs -> Why] /\ pc' \in [Procs -> Label]
      BY <2>13, Zeros DEF Crash, TypeOK, Goto, Why, Label
    <3>3. TriesLeft'
      BY <2>13 DEF Crash, TypeOK, TriesLeft, Goto
    <3>4. QED
      BY <2>13, <3>1, <3>2, <3>3 DEF Crash, TypeOK
  <2>14. CASE Publish
    BY <2>14, DownloadAssumption DEF Publish, TypeOK, TriesLeft, request, body
  <2>15. CASE UNCHANGED vars
    BY <2>15 DEF vars, TypeOK, TriesLeft, request, body
  <2>16. QED
    BY <2>1, <2>2, <2>3, <2>4, <2>5, <2>6, <2>8, <2>9, <2>10, <2>11, <2>12, <2>13, <2>14, <2>15
       DEF Next, Own, Receiving
<1>3. QED
  BY <1>1, <1>2, PTL DEF Spec

\* The type invariant, for any processes, attempts, pieces and versions: no attempt
\* follows the last one, and no piece is written behind the end of the body.
THEOREM TypeCorrect == Spec => []TypeOK
<1>1. Typed => TypeOK
  BY DEF Typed
<1>2. QED
  BY <1>1, TypedHolds, PTL

-----------------------------------------------------------------------------
(* Requests *)

\* What a request that is about to be sent follows.
AfterAnOutage ==
  \A p \in Procs :
    /\ pc[p] = "stat" => asked[p] = 0
    /\ pc[p] \in {"ask", "drain", "wait", "sleep"} /\ asked[p] # 0 =>
         why[p] \in {"unreachable", "busy", "stalled"}

LEMMA AfterAnOutageHolds == Spec => []AfterAnOutage
<1>1. Init => AfterAnOutage
  BY DEF Init, AfterAnOutage
<1>2. TypeOK /\ AfterAnOutage /\ [Next]_vars => AfterAnOutage'
  <2> SUFFICES ASSUME TypeOK, AfterAnOutage, [Next]_vars PROVE AfterAnOutage'
    OBVIOUS
  <2> USE DEF AfterAnOutage
  <2>1. ASSUME NEW p \in Procs, Begin(p) PROVE AfterAnOutage'
    BY <2>1 DEF Begin, TypeOK, Goto
  <2>2. ASSUME NEW p \in Procs, Stat(p) PROVE AfterAnOutage'
    BY <2>2 DEF Stat, TypeOK, Goto
  <2>3. ASSUME NEW p \in Procs, Ask(p) PROVE AfterAnOutage'
    <3>1. PICK r \in Errors \cup Statuses :
            IF AsksAgain(r) /\ try[p] < Attempts
            THEN /\ why' = [why EXCEPT ![p] = r]
                 /\ Goto(p, IF TransientStatus(r) THEN "drain" ELSE "wait")
            ELSE Receive(p, r)
      BY <2>3 DEF Ask
    <3>2. CASE AsksAgain(r) /\ try[p] < Attempts
      <4>1. r \in {"unreachable", "busy"}
        BY <3>2 DEF AsksAgain, Transient, TransientStatus, Errors, Statuses
      <4>2. QED
        BY <2>3, <3>1, <3>2, <4>1 DEF Ask, TypeOK, Goto
    <3>3. CASE ~(AsksAgain(r) /\ try[p] < Attempts)
      <4>1. pc' \in {[pc EXCEPT ![p] = "create"], [pc EXCEPT ![p] = "failed"]}
            /\ why' = [why EXCEPT ![p] = HandedOn(r)]
        BY <3>1, <3>3 DEF Receive, Goto
      <4>2. QED
        BY <2>3, <4>1 DEF Ask, TypeOK
    <3>4. QED
      BY <3>2, <3>3
  <2>4. ASSUME NEW p \in Procs, Wait(p) PROVE AfterAnOutage'
    BY <2>4 DEF Wait, TypeOK, Goto
  <2>5. ASSUME NEW p \in Procs, Create(p) \/ Stall(p) \/ Break(p) \/ Rename(p) PROVE AfterAnOutage'
    BY <2>5 DEF Create, Stall, Break, Rename, Fail, TypeOK, Goto, request
  <2>6. ASSUME NEW p \in Procs, Drain(p) \/ Copy(p) \/ End(p) PROVE AfterAnOutage'
    BY <2>6 DEF Drain, Copy, End, TypeOK, Goto, request
  <2>7. ASSUME NEW p \in Procs, Failed(p) PROVE AfterAnOutage'
    BY <2>7 DEF Failed, Retry, TypeOK, Goto
  <2>8. ASSUME NEW p \in Procs, Sleep(p) PROVE AfterAnOutage'
    BY <2>8 DEF Sleep, TypeOK, Goto
  <2>9. ASSUME NEW p \in Procs, Crash(p) PROVE AfterAnOutage'
    BY <2>9 DEF Crash, TypeOK, Goto
  <2>10. CASE Publish \/ UNCHANGED vars
    BY <2>10 DEF Publish, vars, request
  <2>11. QED
    BY <2>1, <2>2, <2>3, <2>4, <2>5, <2>6, <2>7, <2>8, <2>9, <2>10 DEF Next, Own, Receiving
<1>3. QED
  BY <1>1, <1>2, TypeCorrect, PTL DEF Spec

\* A server that answered is not asked again in the same call, for any attempts.
THEOREM AnswersProved == Spec => AnswersStand
<1>1. TypeOK /\ AfterAnOutage /\ [Next]_vars =>
        [\A p \in Procs : asked[p] # 0 /\ asked'[p] > asked[p] =>
           why[p] \in {"unreachable", "busy", "stalled"}]_vars
  <2> SUFFICES ASSUME TypeOK, AfterAnOutage, [Next]_vars, NEW q \in Procs,
                      asked[q] # 0, asked'[q] > asked[q]
               PROVE  why[q] \in {"unreachable", "busy", "stalled"}
    OBVIOUS
  <2>0. \A p \in Procs : asked[p] \in Nat
    BY DEF TypeOK
  <2>1. ASSUME NEW p \in Procs, Ask(p) PROVE why[q] \in {"unreachable", "busy", "stalled"}
    <3>1. asked'[q] = IF q = p THEN asked[q] + 1 ELSE asked[q]
      BY <2>1 DEF Ask, TypeOK
    <3>2. q = p /\ pc[q] = "ask"
      BY <2>0, <2>1, <3>1 DEF Ask
    <3>3. QED
      BY <3>2 DEF AfterAnOutage
  <2>2. ASSUME NEW p \in Procs, Begin(p) \/ Crash(p) PROVE FALSE
    BY <2>0, <2>2 DEF Begin, Crash, TypeOK
  <2>3. ASSUME NEW p \in Procs,
               Stat(p) \/ Wait(p) \/ Create(p) \/ Stall(p) \/ Failed(p) \/ Sleep(p) \/ Rename(p)
        PROVE  FALSE
    BY <2>0, <2>3 DEF Stat, Wait, Create, Stall, Failed, Sleep, Rename, request
  <2>4. ASSUME NEW p \in Procs, Receiving(p) PROVE FALSE
    BY <2>0, <2>4 DEF Receiving, Drain, Copy, Break, End, request
  <2>5. CASE Publish \/ UNCHANGED vars
    BY <2>0, <2>5 DEF Publish, vars, request
  <2>6. QED
    BY <2>1, <2>2, <2>3, <2>4, <2>5 DEF Next, Own
<1>2. QED
  BY <1>1, TypeCorrect, AfterAnOutageHolds, PTL DEF Spec, AnswersStand

\* Rounds(k): the requests k attempts may make.
Rounds(k) == k * Attempts

LEMMA RoundsFacts ==
  /\ Rounds(0) = 0
  /\ \A k \in Nat : Rounds(k) \in Nat /\ Rounds(k + 1) = Rounds(k) + Attempts
  /\ \A k \in 1..Attempts : Rounds(k) <= Attempts * Attempts
<1>1. Attempts \in Nat
  BY DownloadAssumption
<1>2. Rounds(0) = 0 /\ \A k \in Nat : Rounds(k) \in Nat /\ Rounds(k + 1) = Rounds(k) + Attempts
  BY <1>1 DEF Rounds
<1>3. \A k \in 1..Attempts : Rounds(k) <= Attempts * Attempts
  BY <1>1 DEF Rounds
<1>4. QED
  BY <1>2, <1>3

\* How often process p has asked by now: at least once per attempt and try before this
\* one, at most what the attempts so far allow.
Count(p) ==
  /\ pc[p] \in {"idle", "stat"} => asked[p] = 0 /\ attempt[p] = 1 /\ try[p] = 1
  /\ pc[p] = "ask" =>
       /\ asked[p] <= Rounds(attempt[p] - 1) + (try[p] - 1)
       /\ asked[p] >= (attempt[p] - 1) + (try[p] - 1)
  /\ pc[p] \in {"drain", "wait"} =>
       /\ asked[p] <= Rounds(attempt[p] - 1) + try[p]
       /\ asked[p] >= (attempt[p] - 1) + try[p]
  /\ pc[p] = "sleep" => asked[p] <= Rounds(attempt[p] - 1) /\ asked[p] >= attempt[p] - 1
  /\ pc[p] \in {"create", "body", "rename", "failed"} =>
       asked[p] <= Rounds(attempt[p]) /\ asked[p] >= attempt[p]
  /\ pc[p] = "done" => asked[p] <= Attempts * Attempts
  /\ pc[p] \in {"failed", "done"} /\ why[p] \in {"outage", "busy"} => asked[p] >= Attempts

Counted == \A p \in Procs : Count(p)

\* Steps of one process change the count of no other.
LEMMA CountKept ==
  ASSUME NEW q \in Procs, Count(q), pc'[q] = pc[q], attempt'[q] = attempt[q],
         try'[q] = try[q], asked'[q] = asked[q], why'[q] = why[q]
  PROVE  Count(q)'
BY DEF Count, Rounds

LEMMA CountedHolds == Spec => []Counted
<1>1. Init => Counted
  BY DownloadAssumption DEF Init, Counted, Count
<1>2. TypeOK /\ TriesLeft /\ Counted /\ [Next]_vars => Counted'
  <2> SUFFICES ASSUME TypeOK, TriesLeft, Counted, [Next]_vars, NEW q \in Procs
               PROVE  Count(q)'
    BY DEF Counted
  <2> DEFINE Kept == /\ pc'[q] = pc[q] /\ attempt'[q] = attempt[q] /\ try'[q] = try[q]
                     /\ asked'[q] = asked[q] /\ why'[q] = why[q]
  <2>0. /\ attempt[q] \in 1..Attempts /\ try[q] \in 1..Attempts /\ asked[q] \in Nat
        /\ Attempts \in Nat \ {0} /\ attempt[q] - 1 \in Nat
        /\ Count(q)
    BY DownloadAssumption DEF TypeOK, Counted
  <2>1. /\ Rounds(0) = 0
        /\ Rounds(attempt[q]) \in Nat /\ Rounds(attempt[q] - 1) \in Nat
        /\ Rounds(attempt[q]) = Rounds(attempt[q] - 1) + Attempts
        /\ Rounds(attempt[q]) <= Attempts * Attempts /\ Attempts * Attempts \in Nat
    <3>1. Rounds(attempt[q] - 1) \in Nat /\ Rounds((attempt[q] - 1) + 1) = Rounds(attempt[q] - 1) + Attempts
      BY <2>0, RoundsFacts
    <3>2. (attempt[q] - 1) + 1 = attempt[q]
      BY <2>0
    <3>3. QED
      BY <2>0, <3>1, <3>2, RoundsFacts
  <2> HIDE DEF Kept
  <2>2. Kept => Count(q)'
    BY <2>0, CountKept DEF Kept
  <2>3. ASSUME NEW p \in Procs, p # q, Begin(p) \/ Own(p) \/ Receiving(p) \/ Crash(p)
        PROVE  Kept
    <3>1. CASE Begin(p) \/ Crash(p)
      BY <2>3, <3>1 DEF Begin, Crash, Goto, TypeOK, Kept
    <3>2. CASE Stat(p) \/ Wait(p) \/ Failed(p) \/ Sleep(p) \/ Rename(p)
      BY <2>3, <3>2 DEF Stat, Wait, Failed, Sleep, Rename, Goto, TypeOK, Kept
    <3>3. CASE Create(p) \/ Stall(p) \/ Receiving(p)
      BY <2>3, <3>3 DEF Create, Stall, Receiving, Drain, Copy, Break, End, Fail, Goto, TypeOK,
         request, Kept
    <3>4. CASE Ask(p)
      BY <2>3, <3>4 DEF Ask, Receive, Goto, TypeOK, Kept
    <3>5. QED
      BY <2>3, <3>1, <3>2, <3>3, <3>4 DEF Own
  <2>4. CASE Begin(q) \/ Crash(q)
    BY <2>4, DownloadAssumption DEF Begin, Crash, Goto, TypeOK, Count
  <2>5. CASE Stat(q)
    <3>1. /\ asked'[q] = 0 /\ attempt'[q] = 1 /\ try'[q] = 1
          /\ \/ pc'[q] = "done" /\ why'[q] = "file"
             \/ pc'[q] = "ask"
      BY <2>0, <2>5 DEF Stat, Goto, TypeOK, Count
    <3>2. Rounds(1 - 1) = 0
      BY RoundsFacts
    <3>3. QED
      BY <2>1, <3>1, <3>2 DEF Count
  <2>6. CASE Ask(q)
    <3>1. PICK r \in Errors \cup Statuses :
            IF AsksAgain(r) /\ try[q] < Attempts
            THEN /\ why' = [why EXCEPT ![q] = r]
                 /\ Goto(q, IF TransientStatus(r) THEN "drain" ELSE "wait")
            ELSE Receive(q, r)
      BY <2>6 DEF Ask
    <3>2. /\ asked'[q] = asked[q] + 1 /\ attempt'[q] = attempt[q] /\ try'[q] = try[q]
          /\ asked[q] <= Rounds(attempt[q] - 1) + (try[q] - 1)
          /\ asked[q] >= (attempt[q] - 1) + (try[q] - 1)
      BY <2>0, <2>6 DEF Ask, TypeOK, Count
    <3>3. CASE AsksAgain(r) /\ try[q] < Attempts
      <4>1. pc'[q] \in {"drain", "wait"}
        BY <3>1, <3>3 DEF Goto, TypeOK
      <4>2. /\ asked'[q] <= Rounds(attempt'[q] - 1) + try'[q]
            /\ asked'[q] >= (attempt'[q] - 1) + try'[q]
        BY <2>0, <2>1, <3>2
      <4>3. QED
        BY <4>1, <4>2 DEF Count
    <3>4. CASE ~(AsksAgain(r) /\ try[q] < Attempts)
      <4>1. pc'[q] \in {"create", "failed"} /\ why'[q] = HandedOn(r)
        BY <3>1, <3>4 DEF Receive, Goto, TypeOK
      <4>2. HandedOn(r) \in {"outage", "busy"} => try[q] = Attempts
        BY <2>0, <3>4 DEF HandedOn, AsksAgain, Transient, TransientStatus, Errors, Statuses
      <4>3. /\ asked'[q] <= Rounds(attempt'[q]) /\ asked'[q] >= attempt'[q]
            /\ try[q] = Attempts => asked'[q] >= Attempts
        BY <2>0, <2>1, <3>2
      <4>4. QED
        BY <2>0, <4>1, <4>2, <4>3 DEF Count
    <3>5. QED
      BY <3>3, <3>4
  <2>7. CASE Wait(q)
    <3>1. /\ pc'[q] = "ask" /\ try'[q] = try[q] + 1
          /\ asked'[q] = asked[q] /\ attempt'[q] = attempt[q]
          /\ asked[q] <= Rounds(attempt[q] - 1) + try[q]
          /\ asked[q] >= (attempt[q] - 1) + try[q]
      BY <2>0, <2>7 DEF Wait, Goto, TypeOK, Count
    <3>2. QED
      BY <2>0, <2>1, <3>1 DEF Count
  <2>8. ASSUME NEW e \in {"stalled", "unreachable", "final", "local"}, Fail(q, e),
               pc[q] \in {"create", "body"}, UNCHANGED <<attempt, asked>>
        PROVE  Count(q)'
    BY <2>0, <2>8 DEF Fail, Goto, TypeOK, Count
  <2>9. CASE Create(q)
    <3>1. CASE Fail(q, "local")
      BY <2>8, <2>9, <3>1 DEF Create, request
    <3>2. CASE ~Fail(q, "local")
      BY <2>0, <2>9, <3>2 DEF Create, Goto, TypeOK, Count, request
    <3>3. QED
      BY <3>1, <3>2
  <2>10. CASE Stall(q) \/ Break(q)
    BY <2>8, <2>10 DEF Stall, Break
  <2>11. CASE Drain(q) \/ Copy(q) \/ End(q)
    BY <2>0, <2>11 DEF Drain, Copy, End, Goto, TypeOK, Count, request
  <2>12. CASE Failed(q)
    <3>1. CASE Retry(q) /\ attempt[q] < Attempts
      <4>1. /\ pc'[q] = "sleep" /\ attempt'[q] = attempt[q] + 1 /\ asked'[q] = asked[q]
            /\ asked[q] <= Rounds(attempt[q]) /\ asked[q] >= attempt[q]
        BY <2>0, <2>12, <3>1 DEF Failed, Goto, TypeOK, Count
      <4>2. attempt'[q] - 1 = attempt[q]
        BY <2>0, <4>1
      <4>3. QED
        BY <4>1, <4>2 DEF Count
    <3>2. CASE ~(Retry(q) /\ attempt[q] < Attempts)
      <4>1. /\ pc'[q] = "done" /\ asked'[q] = asked[q] /\ attempt'[q] = attempt[q]
            /\ why'[q] = IF Retry(q) THEN "outage" ELSE why[q]
            /\ asked[q] <= Rounds(attempt[q]) /\ asked[q] >= attempt[q]
            /\ why[q] \in {"outage", "busy"} => asked[q] >= Attempts
        BY <2>0, <2>12, <3>2 DEF Failed, Goto, TypeOK, Count
      <4>2. Retry(q) => attempt[q] = Attempts
        BY <2>0, <3>2
      <4>3. QED
        BY <2>0, <2>1, <4>1, <4>2 DEF Count
    <3>3. QED
      BY <3>1, <3>2
  <2>13. CASE Sleep(q)
    <3>1. /\ pc'[q] = "ask" /\ try'[q] = 1 /\ asked'[q] = asked[q] /\ attempt'[q] = attempt[q]
          /\ asked[q] <= Rounds(attempt[q] - 1) /\ asked[q] >= attempt[q] - 1
      BY <2>0, <2>13 DEF Sleep, Goto, TypeOK, Count
    <3>2. QED
      BY <2>0, <2>1, <3>1 DEF Count
  <2>14. CASE Rename(q)
    <3>1. /\ pc'[q] = "done" /\ asked'[q] = asked[q] /\ why'[q] \in {"local", "file"}
          /\ asked[q] <= Rounds(attempt[q])
      BY <2>0, <2>14 DEF Rename, Goto, TypeOK, Count
    <3>2. QED
      BY <2>0, <2>1, <3>1 DEF Count
  <2>15. CASE Publish \/ UNCHANGED vars
    BY <2>2, <2>15 DEF Publish, vars, request, Kept
  <2>16. QED
    BY <2>2, <2>3, <2>4, <2>5, <2>6, <2>7, <2>9, <2>10, <2>11, <2>12, <2>13, <2>14, <2>15
       DEF Next, Own, Receiving
<1>3. QED
  BY <1>1, <1>2, TypedHolds, PTL DEF Spec, Typed

\* A call that blames an outage has used up the attempts of netx or of Fetch, and no
\* call asks more often than both together allow, for any number of attempts.
THEOREM OutageProved == Spec => []OutagePersisted
<1>1. Typed /\ Counted => OutagePersisted
  <2> SUFFICES ASSUME Typed, Counted, NEW p \in Procs
               PROVE  /\ asked[p] <= Attempts * Attempts
                      /\ pc[p] = "done" /\ why[p] \in {"outage", "busy"} => asked[p] >= Attempts
    BY DEF OutagePersisted
  <2>1. /\ attempt[p] \in 1..Attempts /\ try[p] \in 1..Attempts /\ asked[p] \in Nat
        /\ Attempts \in Nat \ {0} /\ pc[p] \in Label /\ Count(p)
    BY DownloadAssumption DEF Typed, TypeOK, Counted
  <2>2. /\ Rounds(attempt[p]) \in Nat /\ Rounds(attempt[p] - 1) \in Nat
        /\ Rounds(attempt[p]) = Rounds(attempt[p] - 1) + Attempts
        /\ Rounds(attempt[p]) <= Attempts * Attempts /\ Attempts * Attempts \in Nat
    <3>1. attempt[p] - 1 \in Nat /\ (attempt[p] - 1) + 1 = attempt[p]
      BY <2>1
    <3>2. QED
      BY <2>1, <3>1, RoundsFacts
  <2>3. asked[p] <= Attempts * Attempts
    BY <2>1, <2>2 DEF Count, Label
  <2>4. QED
    BY <2>1, <2>3 DEF Count
<1>2. QED
  BY <1>1, TypedHolds, CountedHolds, PTL

-----------------------------------------------------------------------------
(* The cached file *)

\* Who has no file open has written nothing, and who renames has written all.
Descriptors ==
  \A q \in Procs :
    /\ pc[q] \notin {"body", "rename"} => out[q] = "lost" /\ pos[q] = 0
    /\ pc[q] \in {"create", "body", "rename"} => served[q] \in 1..Versions
    /\ pc[q] = "rename" => pos[q] = Pieces

\* The first n pieces of version v.
Prefix(v, n) == [b \in Whole |-> IF b <= n THEN v ELSE None]

FileWhole == disk["file"] = Absent \/ \E v \in 1..Versions : disk["file"] = [b \in Whole |-> v]

\* A process that writes alone: <name>.part is what it has written, or somebody has
\* removed it.
Alone(p) ==
  /\ \A q \in Writing : q = p
  /\ \/ out[p] = "part" /\ disk["part"] = Prefix(served[p], pos[p])
     \/ out[p] = "lost" /\ disk["part"] = Absent

Untorn == Descriptors /\ (mixed \/ (FileWhole /\ \A p \in Writing : Alone(p)))

LEMMA PrefixFacts ==
  /\ \A v : Prefix(v, 0) = Empty
  /\ \A v : Prefix(v, Pieces) = [b \in Whole |-> v]
  /\ \A v : \A n \in 0..Pieces : n < Pieces =>
       [Prefix(v, n) EXCEPT ![n + 1] = v] = Prefix(v, n + 1)
<1>0. Pieces \in Nat /\ \A b \in Whole : b \in Nat /\ ~(b <= 0) /\ b <= Pieces
  BY DownloadAssumption DEF Whole
<1>1. \A v : Prefix(v, 0) = Empty
  BY <1>0 DEF Prefix, Empty
<1>2. \A v : Prefix(v, Pieces) = [b \in Whole |-> v]
  BY <1>0 DEF Prefix
<1>3. ASSUME NEW v, NEW n \in 0..Pieces, n < Pieces
      PROVE  [Prefix(v, n) EXCEPT ![n + 1] = v] = Prefix(v, n + 1)
  <2>1. \A b \in Whole : b <= n + 1 <=> b <= n \/ b = n + 1
    BY <1>0
  <2>2. n + 1 \in Whole
    BY <1>0, <1>3 DEF Whole
  <2>3. QED
    BY <2>1, <2>2 DEF Prefix
<1>4. QED
  BY <1>1, <1>2, <1>3

LEMMA DescriptorsHold == Spec => []Descriptors
<1>1. Init => Descriptors
  BY DEF Init, Descriptors
<1>2. TypeOK /\ Descriptors /\ [Next]_vars => Descriptors'
  <2> SUFFICES ASSUME TypeOK, Descriptors, [Next]_vars PROVE Descriptors'
    OBVIOUS
  <2> USE DEF Descriptors
  <2>1. ASSUME NEW p \in Procs, Begin(p) PROVE Descriptors'
    BY <2>1 DEF Begin, Unlink, Moved, Goto, TypeOK, Finished
  <2>2. ASSUME NEW p \in Procs, Stat(p) \/ Wait(p) \/ Sleep(p) PROVE Descriptors'
    BY <2>2 DEF Stat, Wait, Sleep, Goto, TypeOK, body
  <2>3. ASSUME NEW p \in Procs, Ask(p) PROVE Descriptors'
    BY <2>3 DEF Ask, Receive, Goto, TypeOK, body
  <2>4. ASSUME NEW p \in Procs, Create(p) PROVE Descriptors'
    BY <2>4 DEF Create, Fail, Drop, Goto, TypeOK, request
  <2>5. ASSUME NEW p \in Procs, Stall(p) \/ Break(p) PROVE Descriptors'
    BY <2>5 DEF Stall, Break, Fail, Drop, Goto, TypeOK
  <2>6. ASSUME NEW p \in Procs, Drain(p) \/ Copy(p) \/ End(p) PROVE Descriptors'
    BY <2>6 DEF Drain, Copy, End, Goto, TypeOK, request, body
  <2>7. ASSUME NEW p \in Procs, Failed(p) PROVE Descriptors'
    BY <2>7 DEF Failed, Unlink, Moved, Goto, TypeOK
  <2>8. ASSUME NEW p \in Procs, Rename(p) PROVE Descriptors'
    <3>1. \A q \in Procs : q # p => /\ pc'[q] = pc[q] /\ served'[q] = served[q] /\ pos'[q] = pos[q]
                                    /\ out[q] = "lost" => out'[q] = "lost"
      BY <2>8 DEF Rename, Drop, Goto, TypeOK
    <3>2. pc'[p] = "done" /\ out'[p] = "lost" /\ pos'[p] = 0
      BY <2>8 DEF Rename, Drop, Goto, TypeOK
    <3>3. QED
      BY <3>1, <3>2
  <2>9. ASSUME NEW p \in Procs, Crash(p) PROVE Descriptors'
    BY <2>9 DEF Crash, Drop, Goto, TypeOK
  <2>10. CASE Publish \/ UNCHANGED vars
    BY <2>10 DEF Publish, vars, body
  <2>11. QED
    BY <2>1, <2>2, <2>3, <2>4, <2>5, <2>6, <2>7, <2>8, <2>9, <2>10 DEF Next, Own, Receiving
<1>3. QED
  BY <1>1, <1>2, TypeCorrect, PTL DEF Spec

\* A step that leaves the disk and those who go on writing as they are.
LEMMA UntornKept ==
  ASSUME mixed \/ (FileWhole /\ \A p \in Writing : Alone(p)),
         mixed' = mixed, UNCHANGED disk, Writing' \subseteq Writing,
         \A q \in Writing' : out'[q] = out[q] /\ served'[q] = served[q] /\ pos'[q] = pos[q]
  PROVE  mixed' \/ (FileWhole' /\ \A p \in Writing' : Alone(p)')
BY DEF FileWhole, Alone

LEMMA UntornHolds == Spec => []Untorn
<1>1. Init => Untorn
  BY DEF Init, Untorn, Descriptors, FileWhole, Writing
<1>2. TypeOK /\ Untorn /\ Descriptors' /\ [Next]_vars => Untorn'
  <2> DEFINE Torn == mixed \/ (FileWhole /\ \A p \in Writing : Alone(p))
  <2> SUFFICES ASSUME TypeOK, Descriptors, Torn, Descriptors', [Next]_vars PROVE Torn'
    BY DEF Untorn
  <2>1. ASSUME NEW p \in Procs, Begin(p) PROVE Torn'
    <3>1. p \notin Writing /\ Writing' = Writing /\ mixed' = mixed /\ served' = served /\ pos' = pos
      BY <2>1 DEF Begin, Writing, Goto, TypeOK, Finished
    <3>2. CASE UNCHANGED <<disk, out>>
      BY <3>1, <3>2, UntornKept
    <3>3. CASE Unlink("file")
      <4>1. disk'["file"] = Absent /\ disk'["part"] = disk["part"]
        BY <3>3 DEF Unlink, TypeOK
      <4>2. \A q \in Procs : out[q] \in {"part", "lost"} => out'[q] = out[q]
        BY <3>3 DEF Unlink, Moved, TypeOK
      <4>3. QED
        BY <3>1, <4>1, <4>2 DEF FileWhole, Alone, Writing
    <3>4. QED
      BY <2>1, <3>2, <3>3 DEF Begin
  <2>2. ASSUME NEW p \in Procs, Stat(p) \/ Ask(p) \/ Wait(p) \/ Sleep(p) PROVE Torn'
    <3>1. /\ mixed' = mixed /\ disk' = disk /\ p \notin Writing /\ Writing' = Writing
          /\ pos' = pos /\ out' = out /\ \A q \in Procs : q # p => served'[q] = served[q]
      BY <2>2 DEF Stat, Ask, Wait, Sleep, Receive, Goto, TypeOK, body, Writing
    <3>2. \A q \in Writing : q \in Procs /\ q # p
      BY <3>1 DEF Writing
    <3>3. QED
      BY <3>1, <3>2, UntornKept
  <2>3. ASSUME NEW p \in Procs, Create(p) PROVE Torn'
    <3>0. p \notin Writing
      BY <2>3 DEF Create, Writing
    <3>1. CASE Fail(p, "local") /\ UNCHANGED <<attempt, try, asked, disk, mixed>>
      <4>1. Writing' = Writing /\ \A q \in Procs : q # p =>
              out'[q] = out[q] /\ served'[q] = served[q] /\ pos'[q] = pos[q]
        BY <2>3, <3>1 DEF Create, Fail, Drop, Goto, TypeOK, Writing
      <4>2. \A q \in Writing : q \in Procs /\ q # p
        BY <3>0 DEF Writing
      <4>3. QED
        BY <3>1, <4>1, <4>2, UntornKept
    <3>2. CASE /\ disk' = [disk EXCEPT !["part"] = Empty]
               /\ out' = [out EXCEPT ![p] = "part"]
               /\ mixed' = (mixed \/ Writing # {})
               /\ Goto(p, "body")
               /\ UNCHANGED <<request, served, pos>>
      <4>1. CASE mixed'
        BY <4>1
      <4>2. CASE ~mixed'
        <5>1. ~mixed /\ Writing = {}
          BY <3>2, <4>2
        <5>2. Writing' = {p} /\ pc'[p] = "body"
          BY <3>2, <5>1 DEF Writing, Goto, TypeOK
        <5>3. disk'["file"] = disk["file"] /\ disk'["part"] = Empty /\ out'[p] = "part"
          BY <3>2 DEF TypeOK
        <5>4. pos'[p] = 0
          BY <2>3, <3>2 DEF Create, Descriptors
        <5>5. Alone(p)'
          BY <5>2, <5>3, <5>4, PrefixFacts DEF Alone
        <5>6. FileWhole'
          BY <5>1, <5>3 DEF FileWhole
        <5>7. QED
          BY <5>2, <5>5, <5>6
      <4>3. QED
        BY <4>1, <4>2
    <3>3. QED
      BY <2>3, <3>1, <3>2 DEF Create
  <2>4. ASSUME NEW p \in Procs, Stall(p) \/ Break(p) \/ Crash(p) PROVE Torn'
    <3>1. /\ mixed' = mixed /\ disk' = disk /\ Writing' = Writing \ {p}
          /\ \A q \in Procs : q # p =>
               out'[q] = out[q] /\ served'[q] = served[q] /\ pos'[q] = pos[q]
      BY <2>4 DEF Stall, Break, Crash, Fail, Drop, Goto, TypeOK, Writing
    <3>2. \A q \in Writing' : q \in Procs /\ q # p
      BY <3>1 DEF Writing
    <3>3. QED
      BY <3>1, <3>2, UntornKept
  <2>5. ASSUME NEW p \in Procs, Copy(p) PROVE Torn'
    <3>1. p \in Writing /\ Writing' = Writing /\ mixed' = mixed /\ served' = served /\ out' = out
          /\ pos[p] \in 0..Pieces /\ pos[p] < Pieces /\ pos'[p] = pos[p] + 1
      BY <2>5 DEF Copy, Writing, TypeOK, request
    <3>2. CASE mixed
      BY <3>1, <3>2
    <3>3. CASE ~mixed
      <4>1. FileWhole /\ Alone(p) /\ Writing = {p}
        BY <3>1, <3>3 DEF Alone
      <4>2. CASE out[p] = "lost"
        BY <2>5, <3>1, <4>1, <4>2 DEF Copy, FileWhole, Alone
      <4>3. CASE out[p] = "part"
        <5>1. disk["part"] = Prefix(served[p], pos[p])
          BY <4>1, <4>3 DEF Alone
        <5>2. disk' = [disk EXCEPT !["part"] = [disk["part"] EXCEPT ![pos[p] + 1] = served[p]]]
          BY <2>5, <4>3 DEF Copy
        <5>3. disk'["part"] = Prefix(served'[p], pos'[p]) /\ disk'["file"] = disk["file"]
          <6>1. disk'["part"] = [Prefix(served[p], pos[p]) EXCEPT ![pos[p] + 1] = served[p]]
                /\ disk'["file"] = disk["file"]
            BY <5>1, <5>2 DEF TypeOK
          <6>2. disk'["part"] = Prefix(served[p], pos[p] + 1)
            BY <3>1, <6>1, PrefixFacts
          <6>3. QED
            BY <3>1, <6>1, <6>2 DEF Prefix
        <5>4. QED
          BY <3>1, <4>1, <4>3, <5>3 DEF FileWhole, Alone
      <4>4. QED
        BY <4>1, <4>2, <4>3 DEF Alone
    <3>4. QED
      BY <3>2, <3>3
  <2>6. ASSUME NEW p \in Procs, Drain(p) \/ End(p) PROVE Torn'
    <3>1. Writing' = Writing /\ mixed' = mixed /\ UNCHANGED <<disk, served, pos, out>>
      BY <2>6 DEF Drain, End, Writing, Goto, TypeOK, body
    <3>2. QED
      BY <3>1, UntornKept
  <2>7. ASSUME NEW p \in Procs, Failed(p) PROVE Torn'
    <3>1. /\ Unlink("part") /\ mixed' = mixed /\ p \notin Writing /\ Writing' = Writing
          /\ served' = served /\ pos' = pos
      BY <2>7 DEF Failed, Writing, Goto, TypeOK
    <3>2. disk'["part"] = Absent /\ disk'["file"] = disk["file"]
      BY <3>1 DEF Unlink, TypeOK
    <3>3. \A q \in Procs : out[q] \in {"part", "lost"} => out'[q] = "lost"
      BY <3>1 DEF Unlink, Moved, TypeOK
    <3>4. QED
      BY <3>1, <3>2, <3>3 DEF FileWhole, Alone, Writing
  <2>8. ASSUME NEW p \in Procs, Rename(p) PROVE Torn'
    <3>1. p \in Writing /\ mixed' = mixed /\ pos[p] = Pieces /\ served[p] \in 1..Versions
          /\ Writing' = Writing \ {p}
      BY <2>8 DEF Rename, Writing, Goto, TypeOK, Descriptors
    <3>2. CASE mixed
      BY <3>1, <3>2
    <3>3. CASE ~mixed
      <4>1. FileWhole /\ Alone(p) /\ Writing' = {}
        BY <3>1, <3>3 DEF Alone
      <4>2. CASE disk["part"] = Absent
        <5>1. disk' = disk
          BY <2>8, <4>2 DEF Rename
        <5>2. QED
          BY <4>1, <5>1 DEF FileWhole
      <4>3. CASE disk["part"] # Absent
        <5>1. disk["part"] = [b \in Whole |-> served[p]]
          BY <3>1, <4>1, <4>3, PrefixFacts DEF Alone
        <5>2. disk'["file"] = disk["part"]
          BY <2>8, <4>3 DEF Rename, TypeOK
        <5>3. QED
          BY <3>1, <4>1, <5>1, <5>2 DEF FileWhole
      <4>4. QED
        BY <4>2, <4>3
    <3>4. QED
      BY <3>2, <3>3
  <2>9. CASE Publish \/ UNCHANGED vars
    <3>1. UNCHANGED <<pc, served, pos, out, disk, mixed>>
      BY <2>9 DEF Publish, vars, body
    <3>2. Writing' = Writing
      BY <3>1 DEF Writing
    <3>3. QED
      BY <3>1, <3>2, UntornKept
  <2>10. QED
    BY <2>1, <2>2, <2>3, <2>4, <2>5, <2>6, <2>7, <2>8, <2>9 DEF Next, Own, Receiving
<1>3. QED
  BY <1>1, <1>2, TypeCorrect, DescriptorsHold, PTL DEF Spec

\* The cached file is one version of the file from end to end, after any interruptions
\* and retries of any number of processes, unless two of them wrote the part file at once.
THEOREM TearsProved == Spec => []OnlyOverlapTears
<1>1. Untorn => OnlyOverlapTears
  BY DEF Untorn, FileWhole, OnlyOverlapTears
<1>2. QED
  BY <1>1, UntornHolds, PTL
=============================================================================
