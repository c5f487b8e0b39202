----------------------- MODULE PackageInstall_proofs -----------------------
(***************************************************************************)
(* Proofs about PackageInstall, for any packages, feeds and schedule of    *)
(* waits, and both managers: what the script's outcome says of the router. *)
(***************************************************************************)
EXTENDS PackageInstall, TLAPS

-----------------------------------------------------------------------------
(* The package manager *)

\* What a call has to install is packages of the list, and what of S is not
\* there is among it.
LEMMA WantedFacts ==
  ASSUME NEW S \in SUBSET Packages
  PROVE  /\ Wanted(S) \in SUBSET Packages
         /\ \A p \in S : ~Satisfied(p) => p \in Wanted(S)
<1>1. \A p \in Packages : Lacking(p) \subseteq Packages
  BY InstallAssumption DEF Lacking
<1>2. QED
  BY <1>1 DEF Wanted

\* A call installs packages of the list, and calls missing only names that are in
\* no feed it has a list of and that it did not install.
LEMMA AddFacts ==
  ASSUME TypeOK, NEW S \in SUBSET Packages, NEW got, Add(S, got)
  PROVE  /\ installed' = installed \cup got /\ installed' \subseteq Packages
         /\ brought' = brought \cup (got \ S) /\ brought' \subseteq Packages
         /\ out' \in Output
         /\ \A p \in out'.missing : /\ p \notin got /\ ~Satisfied(p)
                                    /\ carries[p] \notin read
<1> DEFINE W == Wanted(S)
<1>1. W \in SUBSET Packages /\ \A p \in S : ~Satisfied(p) => p \in W
  BY WantedFacts
<1> HIDE DEF W
<1>2. /\ got \subseteq W
      /\ installed' = installed \cup got /\ brought' = brought \cup (got \ S)
  BY DEF Add, W
<1>3. installed' \subseteq Packages /\ brought' \subseteq Packages
  BY <1>1, <1>2 DEF TypeOK
<1>4. \A T \in SUBSET Packages :
        /\ Missing(T) \in SUBSET T
        /\ \A p \in Missing(T) : carries[p] \notin read /\ ~Satisfied(p)
  BY DEF Missing
<1>5. CASE manager = "apk"
  <2>1. ApkAdd(S, got)
    BY <1>5 DEF Add
  <2>2. CASE Hopeless(W) # {}
    <3>1. got = {} /\ out' = [missing |-> Missing(W), refused |-> {}, fetch |-> FALSE]
      BY <2>1, <2>2 DEF ApkAdd, W
    <3>2. QED
      BY <1>1, <1>2, <1>3, <1>4, <3>1 DEF Output
  <2>3. CASE Hopeless(W) = {}
    <3>1. out' = [missing |-> {}, refused |-> {}, fetch |-> W \ got # {}]
      BY <2>1, <2>3 DEF ApkAdd, W
    <3>2. QED
      BY <1>2, <1>3, <3>1 DEF Output
  <2>4. QED
    BY <2>2, <2>3
<1>6. CASE manager # "apk"
  <2> DEFINE failed == {p \in S \ Missing(S) : ~Satisfied(p) /\ p \notin got}
             fetch == W \ (Hopeless(W) \cup got) # {}
  <2>1. /\ got \cap Hopeless(W) = {}
        /\ out' = [missing |-> Missing(S), refused |-> failed, fetch |-> fetch]
    BY <1>6 DEF Add, OpkgInstall, W
  <2>2. Missing(S) \in SUBSET Packages /\ failed \in SUBSET Packages /\ fetch \in BOOLEAN
    BY <1>4
  <2>3. Missing(S) \subseteq Hopeless(W)
    BY <1>1 DEF Missing, Hopeless
  <2> HIDE DEF failed, fetch
  <2>4. out'.missing = Missing(S) /\ out' \in Output
    BY <2>1, <2>2 DEF Output
  <2>5. QED
    BY <1>2, <1>3, <1>4, <2>1, <2>3, <2>4
<1>7. QED
  BY <1>5, <1>6

\* A step that installs got and leaves the world alone makes got satisfied, and
\* nothing else changes in that.
LEMMA SatisfiedNext ==
  ASSUME UNCHANGED world, NEW got, installed' = installed \cup got, NEW p
  PROVE  /\ Satisfied(p)' <=> Satisfied(p) \/ p \in got
         /\ Provided(p)' <=> Provided(p)
BY DEF Satisfied, Provided, world

\* A step that installs nothing.
LEMMA SatisfiedSame ==
  ASSUME UNCHANGED <<world, router>>, NEW p
  PROVE  /\ Satisfied(p)' <=> Satisfied(p)
         /\ Provided(p)' <=> Provided(p)
BY DEF Satisfied, Provided, world, router

\* A name in no feed the manager has a list of, and not suspect, is in no feed at
\* all, or in one whose list was dropped for its signature.
LEMMA NotSuspect ==
  ASSUME TypeOK, PartialInv, pc \in Begun, NEW p \in Packages,
         carries[p] \notin read, ~Suspect(p)
  PROVE  carries[p] \in unverified \cup {Nowhere}
<1>1. carries[p] \in Feeds \cup {Nowhere}
  BY DEF TypeOK
<1>2. CASE partial = "no"
  BY <1>1, <1>2 DEF PartialInv
<1>3. CASE partial = "kmods"
  BY <1>1, <1>3 DEF PartialInv, Suspect
<1>4. QED
  BY <1>2, <1>3 DEF TypeOK, Suspect

\* What owlab_absent does with the names it is given: each is recorded or
\* skipped, and a skip is true.
LEMMA AbsentFacts ==
  ASSUME TypeOK, PartialInv, SkipsAreTrue, pc \in Begun, UNCHANGED <<carries, unverified>>,
         NEW S \in SUBSET Packages, \A p \in S : carries[p] \notin read,
         NEW to, Absent(S, to)
  PROVE  /\ pc' \in {to, "exit"}
         /\ record \subseteq record' /\ record' \subseteq record \cup S
         /\ skipped \subseteq skipped' /\ skipped' \subseteq skipped \cup S
         /\ pc' = "exit" \/ S \subseteq record' \cup skipped'
         /\ SkipsAreTrue'
<1>1. \A p \in S : ~Suspect(p) => carries[p] \in unverified \cup {Nowhere}
  BY NotSuspect
<1>2. QED
  BY <1>1 DEF Absent, SkipsAreTrue

-----------------------------------------------------------------------------
(* Type correctness *)

LEMMA Labels ==
  {"idle", "exit", "done", "reported", "refresh", "clear", "all", "drop", "rest",
   "each", "failed", "retry", "judge"} \subseteq Label
BY DEF Label, Finished

\* The first state has the right shape.
LEMMA TypeInit == Init => TypeOK
BY Labels, InstallAssumption, NamesAssumption DEF Init, TypeOK, Silence, Output

\* The refresh is complete, or one of the two ways partial.
LEMMA RefreshPartial == Refresh => partial' \in {"no", "kmods", "all"}
<1>1. ASSUME NEW named, NEW failed, partial' = IF ~failed THEN "no" ELSE PartialRefresh(named)
      PROVE  partial' \in {"no", "kmods", "all"}
  <2>1. PartialRefresh(named) \in {"kmods", "all"}
    BY DEF PartialRefresh
  <2>2. QED
    BY <1>1, <2>1, Zenon
<1>2. QED
  BY <1>1, Zenon DEF Refresh

\* Every step keeps the shape of every variable.
LEMMA TypeNext == TypeOK /\ [Next]_vars => TypeOK'
<1> SUFFICES ASSUME TypeOK, [Next]_vars PROVE TypeOK'
  OBVIOUS
<1> USE Labels, InstallAssumption DEF world, router, lists, shell
<1>1. CASE Begin
  BY <1>1 DEF Begin, TypeOK, Silence, Output
<1>2. CASE Refresh
  <2>1. pc' \in {"clear", "exit"}
    BY <1>2 DEF Refresh
  <2>2. read' \subseteq Feeds /\ unverified' \subseteq Feeds
    BY <1>2 DEF Refresh
  <2>4. partial' \in {"no", "kmods", "all"}
    BY <1>2, RefreshPartial
  <2>5. QED
    BY <1>2, <2>1, <2>2, <2>4 DEF Refresh, TypeOK
<1>3. CASE Clear
  BY <1>3 DEF Clear, TypeOK
<1>4. CASE AddAll
  <2>1. PICK got \in SUBSET Packages : Add(Packages, got)
    BY <1>4 DEF AddAll
  <2>2. installed' \subseteq Packages /\ brought' \subseteq Packages /\ out' \in Output
    BY <2>1, AddFacts
  <2>3. QED
    BY <1>4, <2>2 DEF AddAll, TypeOK
<1>5. CASE Drop
  <2>1. out.missing \in SUBSET Packages
    BY DEF TypeOK, Output
  <2>2. record' \subseteq Packages /\ skipped' \subseteq Packages
    BY <1>5, <2>1 DEF Drop, Absent, TypeOK
  <2>3. pc' \in {"rest", "each", "exit"}
    BY <1>5 DEF Drop, Absent
  <2>4. todo' \subseteq Packages
    BY <1>5 DEF Drop
  <2>5. QED
    BY <1>5, <2>2, <2>3, <2>4 DEF Drop, TypeOK
<1>6. CASE AddRest
  <2>1. PICK got \in SUBSET Packages : Add(todo, got)
    BY <1>6 DEF AddRest
  <2>2. installed' \subseteq Packages /\ brought' \subseteq Packages /\ out' \in Output
    BY <2>1, AddFacts DEF TypeOK
  <2>3. QED
    BY <1>6, <2>2 DEF AddRest, TypeOK
<1>7. CASE AddOne
  <2>1. PICK p \in todo, got \in SUBSET Packages :
          /\ Add({p}, got)
          /\ p0' = p /\ todo' = todo \ {p}
          /\ pc' = IF Added({p}, got) THEN "each" ELSE "failed"
    BY <1>7 DEF AddOne
  <2>2. installed' \subseteq Packages /\ brought' \subseteq Packages /\ out' \in Output
    BY <2>1, AddFacts DEF TypeOK
  <2>3. QED
    BY <1>7, <2>1, <2>2 DEF AddOne, TypeOK
<1>8. CASE EachDone
  BY <1>8 DEF EachDone, TypeOK
<1>9. CASE SkipProvided
  BY <1>9 DEF SkipProvided, TypeOK
<1>10. CASE Retry
  <2>1. CASE /\ left > 0 /\ left' = left - 1
             /\ \E got \in SUBSET Packages :
                  /\ Add({p0}, got)
                  /\ pc' = IF Added({p0}, got) THEN "each" ELSE "retry"
    <3>1. PICK got \in SUBSET Packages : Add({p0}, got)
      BY <2>1
    <3>2. p0 \in Packages
      BY <1>10 DEF Retry, TypeOK
    <3>3. installed' \subseteq Packages /\ brought' \subseteq Packages /\ out' \in Output
      BY <3>1, <3>2, AddFacts
    <3>4. left' \in 0..Waits
      BY <2>1 DEF TypeOK
    <3>5. QED
      BY <1>10, <2>1, <3>2, <3>3, <3>4 DEF Retry, TypeOK
  <2>2. CASE pc' = "judge" /\ UNCHANGED <<left, router, out>>
    BY <1>10, <2>2 DEF Retry, TypeOK
  <2>3. QED
    BY <1>10, <2>1, <2>2 DEF Retry
<1>11. CASE Judge
  <2>1. p0 \in Packages
    BY <1>11 DEF Judge, TypeOK
  <2>2. waits' \in 0..Waits /\ gaveUp' \in 0..2
    BY <1>11 DEF Judge, Spend, TypeOK
  <2>3. record' \subseteq Packages /\ skipped' \subseteq Packages /\ pc' \in {"each", "exit"}
    BY <1>11, <2>1 DEF Judge, Absent, TypeOK
  <2>4. QED
    BY <1>11, <2>1, <2>2, <2>3 DEF Judge, TypeOK
<1>12. CASE Interrupt
  BY <1>12 DEF Interrupt, TypeOK
<1>13. CASE Report
  BY <1>13 DEF Report, TypeOK
<1>14. CASE UNCHANGED vars
  BY <1>14 DEF vars, TypeOK
<1>15. QED
  BY <1>1, <1>2, <1>3, <1>4, <1>5, <1>6, <1>7, <1>8, <1>9, <1>10, <1>11, <1>12, <1>13,
     <1>14 DEF Next, Script

\* Type correctness: every reachable state has the declared shape.
THEOREM TypeCorrect == Spec => []TypeOK
BY TypeInit, TypeNext, PTL DEF Spec

-----------------------------------------------------------------------------
(* The inductive invariant *)

\* The first state satisfies it: nothing is installed, skipped or reported, and
\* a kmods index carries kmod-* packages only.
LEMMA InvInit == Init => IInv
<1> SUFFICES ASSUME Init PROVE IInv
  OBVIOUS
<1>1. TypeOK
  BY TypeInit
<1>2. \A p \in Packages : carries[p] \in KmodFeeds => p \in KmodNames
  BY DEF Init
<1>3. QED
  BY <1>1, <1>2 DEF Init, IInv, PartialInv, MissingInv, AccountInv, RecordInv, ReportInv,
     WaitsInv, SkipsAreTrue, Accounted, Begun, OnP0

\* A step that leaves the router alone keeps what it has.
LEMMA HasSame ==
  ASSUME UNCHANGED <<world, router>>
  PROVE  \A p : /\ Satisfied(p)' <=> Satisfied(p)
                /\ Provided(p)' <=> Provided(p)
                /\ Has(p)' <=> Has(p)
BY SatisfiedSame DEF Has

\* One that installs got adds got to it.
LEMMA HasNext ==
  ASSUME UNCHANGED world, NEW got, installed' = installed \cup got
  PROVE  \A p : /\ Satisfied(p)' <=> Satisfied(p) \/ p \in got
                /\ Provided(p)' <=> Provided(p)
                /\ Has(p)' <=> Has(p) \/ p \in got
BY SatisfiedNext DEF Has

\* The refresh tells which feeds may be unread.
LEMMA RefreshInv == IInv /\ Refresh => IInv'
<1> SUFFICES ASSUME IInv, Refresh PROVE IInv'
  OBVIOUS
<1>1. TypeOK'
  BY TypeNext DEF IInv, Next, Script
<1>2. PartialInv'
  <2>1. \A p \in Packages : carries'[p] \in KmodFeeds => p \in KmodNames
    BY DEF Refresh, world, lists, IInv, PartialInv
  <2>2. ASSUME NEW answered, NEW named, NEW failed,
               NEW dropped,
               failed \/ Feeds \ (answered \cup dropped) = {},
               named \in {{}, Feeds \ (answered \cup dropped)},
               answered \subseteq read', read' \subseteq Feeds,
               unverified' = dropped, dropped \subseteq Feeds,
               partial' = IF ~failed THEN "no" ELSE PartialRefresh(named)
        PROVE  /\ partial' = "no" => read' \cup unverified' = Feeds
               /\ partial' = "kmods" => Feeds \ (read' \cup unverified') \subseteq KmodFeeds
    <3>1. CASE ~failed
      BY <2>2, <3>1
    <3>2. CASE failed
      BY <2>2, <3>2 DEF PartialRefresh
    <3>3. QED
      BY <3>1, <3>2
  <2>3. /\ partial' = "no" => read' \cup unverified' = Feeds
        /\ partial' = "kmods" => Feeds \ (read' \cup unverified') \subseteq KmodFeeds
    BY <2>2, Zenon DEF Refresh
  <2>4. QED
    BY <2>1, <2>3 DEF PartialInv
<1>3. pc = "refresh" /\ pc' \in {"clear", "exit"}
  BY DEF Refresh
<1>4. QED
  BY <1>1, <1>2, <1>3 DEF Refresh, shell, world, router, IInv, MissingInv, AccountInv,
     RecordInv, ReportInv, WaitsInv, SkipsAreTrue, Accounted, Begun, OnP0

\* What the places of the script that ask the manager have in common: they
\* leave the refresh, the record and the skips as they are.
LEMMA KeepInv ==
  ASSUME IInv, UNCHANGED <<world, lists, partial, record, skipped, verdict>>,
         pc \in Begun, pc \notin Finished, pc' \in Begun
  PROVE  PartialInv' /\ SkipsAreTrue' /\ ReportInv'
<1>1. PartialInv'
  BY DEF IInv, PartialInv, world, lists, Begun
<1>2. SkipsAreTrue'
  BY DEF IInv, SkipsAreTrue, world, lists
<1>3. verdict = "none"
  BY DEF IInv, ReportInv, Finished
<1>4. QED
  BY <1>1, <1>2, <1>3 DEF ReportInv, Begun

\* All packages in one call: none is recorded yet, and one that is called
\* missing is in no feed that was read.
LEMMA AddAllInv == IInv /\ AddAll => IInv'
<1> SUFFICES ASSUME IInv, AddAll PROVE IInv'
  OBVIOUS
<1>1. TypeOK'
  BY TypeNext DEF IInv, Next, Script
<1>2. PICK got \in SUBSET Packages :
        /\ Add(Packages, got)
        /\ pc' = IF Added(Packages, got) THEN "done" ELSE "drop"
  BY DEF AddAll
<1>3. /\ installed' = installed \cup got
      /\ \A p \in out'.missing : carries[p] \notin read /\ ~Satisfied(p) /\ p \notin got
  BY <1>2, AddFacts DEF IInv
<1>4. \A p : (Satisfied(p)' <=> Satisfied(p) \/ p \in got) /\ (Has(p)' <=> Has(p) \/ p \in got)
  BY <1>3, HasNext DEF AddAll
<1>5. pc = "all" /\ pc' \in {"done", "drop"} /\ record = {} /\ record' = {}
  BY <1>2 DEF AddAll, IInv, RecordInv
<1>6. PartialInv' /\ SkipsAreTrue' /\ ReportInv'
  BY <1>5, KeepInv DEF AddAll, Begun, Finished
<1>7. MissingInv'
  BY <1>3, <1>5 DEF MissingInv, OnP0, AddAll, world, lists
<1>8. AccountInv'
  BY <1>5 DEF AccountInv, OnP0
<1>9. RecordInv'
  BY <1>3, <1>4, <1>5 DEF RecordInv, OnP0
<1>10. WaitsInv'
  BY DEF IInv, WaitsInv, AddAll
<1>11. Accounted'
  <2> SUFFICES ASSUME pc' = "done" PROVE \A p \in Packages : Has(p)'
    BY DEF Accounted
  <2>1. \A p \in Packages : Satisfied(p) \/ p \in got
    BY <1>2 DEF Added
  <2>2. QED
    BY <1>4, <2>1 DEF Has
<1>12. QED
  BY <1>1, <1>6, <1>7, <1>8, <1>9, <1>10, <1>11 DEF IInv

\* The call without the dropped names: of those it leaves, the record has none.
LEMMA AddRestInv == IInv /\ AddRest => IInv'
<1> SUFFICES ASSUME IInv, AddRest PROVE IInv'
  OBVIOUS
<1>1. TypeOK'
  BY TypeNext DEF IInv, Next, Script
<1>2. PICK got \in SUBSET Packages :
        /\ Add(todo, got)
        /\ pc' = IF Added(todo, got) THEN "done" ELSE "each"
  BY DEF AddRest
<1>3. /\ installed' = installed \cup got /\ brought' = brought \cup (got \ todo)
      /\ \A p \in out'.missing : carries[p] \notin read
  BY <1>2, AddFacts DEF IInv, TypeOK
<1>4. \A p : (Satisfied(p)' <=> Satisfied(p) \/ p \in got) /\ (Has(p)' <=> Has(p) \/ p \in got)
  BY <1>3, HasNext DEF AddRest
<1>5. /\ pc = "rest" /\ pc' \in {"done", "each"}
      /\ UNCHANGED <<record, skipped, todo>>
      /\ record \cap todo = {} /\ \A p \in record : ~Satisfied(p) \/ p \in brought
      /\ \A p \in Packages \ todo : Has(p) \/ p \in record \cup skipped
  BY <1>2 DEF AddRest, IInv, RecordInv, AccountInv, Begun
<1>6. PartialInv' /\ SkipsAreTrue' /\ ReportInv'
  BY <1>5, KeepInv DEF AddRest, Begun, Finished
<1>7. MissingInv'
  BY <1>3 DEF MissingInv, AddRest, world, lists
<1>8. AccountInv'
  BY <1>4, <1>5 DEF AccountInv, OnP0
<1>9. RecordInv'
  BY <1>3, <1>4, <1>5 DEF RecordInv, OnP0
<1>10. WaitsInv'
  BY DEF IInv, WaitsInv, AddRest
<1>11. Accounted'
  <2> SUFFICES ASSUME pc' = "done"
               PROVE  \A p \in Packages : Has(p)' \/ p \in record \cup skipped
    BY <1>5 DEF Accounted
  <2>1. \A p \in todo : Satisfied(p) \/ p \in got
    BY <1>2 DEF Added
  <2>2. QED
    BY <1>4, <1>5, <2>1 DEF Has
<1>12. QED
  BY <1>1, <1>6, <1>7, <1>8, <1>9, <1>10, <1>11 DEF IInv

\* The names said to be absent leave the list accounted for, and the record
\* with names that are not there.
LEMMA DropInv == IInv /\ Drop => IInv'
<1> SUFFICES ASSUME IInv, Drop PROVE IInv'
  OBVIOUS
<1>1. TypeOK'
  BY TypeNext DEF IInv, Next, Script
<1> DEFINE dropped == out.missing \cup {p \in out.refused : Provided(p)}
           to == IF dropped # {} /\ todo' # {} THEN "rest" ELSE "each"
<1>2. todo' = Packages \ dropped /\ Absent(out.missing, to)
  BY DEF Drop
<1>3. /\ pc = "drop" /\ record = {} /\ verdict = "none"
      /\ \A p \in out.missing : carries[p] \notin read /\ ~Satisfied(p)
  BY DEF Drop, IInv, MissingInv, RecordInv, ReportInv
<1>4. out.missing \in SUBSET Packages
  BY DEF IInv, TypeOK, Output
<1>5. to \in {"rest", "each"}
  OBVIOUS
<1>6. UNCHANGED <<world, router, lists, partial, out, waits, gaveUp, verdict>>
  BY DEF Drop
<1>7. \A p : (Satisfied(p)' <=> Satisfied(p)) /\ (Has(p)' <=> Has(p))
  BY <1>6, HasSame
<1>8. \A p \in out.refused : Provided(p) => Has(p)
  BY DEF Has
<1> HIDE DEF to
<1>9. /\ pc' \in {to, "exit"}
      /\ record' \subseteq out.missing
      /\ pc' = "exit" \/ out.missing \subseteq record' \cup skipped'
      /\ SkipsAreTrue'
  BY <1>2, <1>3, <1>4, <1>6, AbsentFacts DEF IInv, Begun, world, lists
<1>10. pc' \in {"rest", "each", "exit"}
  BY <1>5, <1>9
<1>11. PartialInv'
  BY <1>3, <1>6, <1>10 DEF IInv, PartialInv, Begun, world, lists
<1>12. MissingInv'
  BY <1>3, <1>6 DEF MissingInv, world, lists
<1>13. AccountInv'
  BY <1>2, <1>7, <1>8, <1>9, <1>10 DEF AccountInv, OnP0
<1>14. RecordInv'
  BY <1>2, <1>3, <1>7, <1>9, <1>10 DEF RecordInv, OnP0, Begun
<1>15. QED
  BY <1>1, <1>3, <1>6, <1>9, <1>10, <1>11, <1>12, <1>13, <1>14
     DEF IInv, ReportInv, WaitsInv, Accounted

\* One package by itself: the others stay accounted for, and it is either there
\* or the one at fault.
LEMMA AddOneInv == IInv /\ AddOne => IInv'
<1> SUFFICES ASSUME IInv, AddOne PROVE IInv'
  OBVIOUS
<1>1. TypeOK'
  BY TypeNext DEF IInv, Next, Script
<1>2. PICK p \in todo, got \in SUBSET Packages :
        /\ Add({p}, got)
        /\ p0' = p /\ todo' = todo \ {p}
        /\ pc' = IF Added({p}, got) THEN "each" ELSE "failed"
  BY DEF AddOne
<1>3. /\ installed' = installed \cup got /\ brought' = brought \cup (got \ {p})
      /\ \A q \in out'.missing : carries[q] \notin read
  <2>1. {p} \in SUBSET Packages /\ TypeOK
    BY <1>2 DEF IInv, TypeOK
  <2>2. QED
    BY <1>2, <2>1, AddFacts
<1>4. \A q : /\ Satisfied(q)' <=> Satisfied(q) \/ q \in got
             /\ Has(q)' <=> Has(q) \/ q \in got
  BY <1>3, HasNext DEF AddOne
<1>5. /\ pc = "each" /\ UNCHANGED <<record, skipped>>
      /\ record \cap todo = {} /\ \A q \in record : ~Satisfied(q) \/ q \in brought
      /\ \A q \in Packages \ todo : Has(q) \/ q \in record \cup skipped
  BY DEF AddOne, IInv, RecordInv, AccountInv, Begun
<1>6. PartialInv' /\ SkipsAreTrue' /\ ReportInv'
  BY <1>2, <1>5, KeepInv DEF AddOne, Begun, Finished
<1>7. MissingInv'
  BY <1>3 DEF MissingInv, AddOne, world, lists
<1>8. CASE Added({p}, got)
  <2>1. pc' = "each" /\ Has(p)'
    BY <1>2, <1>4, <1>8 DEF Added, Has
  <2>2. AccountInv'
    BY <1>2, <1>4, <1>5, <2>1 DEF AccountInv, OnP0
  <2>3. RecordInv'
    BY <1>2, <1>3, <1>4, <1>5, <2>1 DEF RecordInv, OnP0
  <2>4. QED
    BY <1>1, <1>6, <1>7, <2>1, <2>2, <2>3 DEF IInv, Accounted, WaitsInv, AddOne
<1>9. CASE ~Added({p}, got)
  <2>1. pc' = "failed" /\ ~Satisfied(p)'
    BY <1>2, <1>4, <1>9 DEF Added
  <2>2. AccountInv'
    BY <1>2, <1>4, <1>5, <2>1 DEF AccountInv, OnP0
  <2>3. RecordInv'
    BY <1>2, <1>3, <1>4, <1>5, <2>1 DEF RecordInv, OnP0
  <2>4. QED
    BY <1>1, <1>6, <1>7, <2>1, <2>2, <2>3 DEF IInv, Accounted, WaitsInv, AddOne
<1>10. QED
  BY <1>8, <1>9

\* The list is through: what is not asked for any more is everything.
LEMMA EachDoneInv == IInv /\ EachDone => IInv'
<1> SUFFICES ASSUME IInv, EachDone PROVE IInv'
  OBVIOUS
<1>1. TypeOK'
  BY TypeNext DEF IInv, Next, Script
<1>2. \A p : (Satisfied(p)' <=> Satisfied(p)) /\ (Has(p)' <=> Has(p))
  BY HasSame DEF EachDone
<1>3. /\ pc = "each" /\ pc' = "done" /\ UNCHANGED <<record, skipped, brought>>
      /\ \A p \in record : ~Satisfied(p) \/ p \in brought
      /\ \A p \in Packages : Has(p) \/ p \in record \cup skipped
  BY DEF EachDone, router, IInv, RecordInv, AccountInv, Begun
<1>4. PartialInv' /\ SkipsAreTrue' /\ ReportInv'
  BY <1>3, KeepInv DEF EachDone, Begun, Finished
<1>5. Accounted' /\ RecordInv'
  BY <1>2, <1>3 DEF Accounted, RecordInv, OnP0
<1>6. QED
  BY <1>1, <1>3, <1>4, <1>5 DEF IInv, MissingInv, AccountInv, WaitsInv, OnP0, EachDone, shell

\* A provided name is accounted for as it is.
LEMMA SkipProvidedInv == IInv /\ SkipProvided => IInv'
<1> SUFFICES ASSUME IInv, SkipProvided PROVE IInv'
  OBVIOUS
<1>1. TypeOK'
  BY TypeNext DEF IInv, Next, Script
<1>2. \A p : /\ (Satisfied(p)' <=> Satisfied(p)) /\ (Has(p)' <=> Has(p))
             /\ Provided(p)' <=> Provided(p)
  BY HasSame DEF SkipProvided
<1>3. /\ pc = "failed" /\ pc' \in {"each", "retry"}
      /\ UNCHANGED <<record, skipped, todo, p0, out, brought>>
      /\ pc' = "each" => Provided(p0)
      /\ pc' = "retry" => ~Provided(p0)
  BY DEF SkipProvided, router
<1>4. PartialInv' /\ SkipsAreTrue' /\ ReportInv'
  BY <1>3, KeepInv DEF SkipProvided, Begun, Finished
<1>5. MissingInv'
  BY <1>3 DEF IInv, MissingInv, SkipProvided, world, lists, OnP0
<1>6. \A p \in Packages \ (todo \cup {p0}) : Has(p) \/ p \in record \cup skipped
  BY <1>3 DEF IInv, AccountInv, OnP0
<1>7. AccountInv'
  BY <1>2, <1>3, <1>6 DEF AccountInv, OnP0, Has
<1>8. RecordInv'
  BY <1>2, <1>3 DEF IInv, RecordInv, OnP0, Begun
<1>9. QED
  BY <1>1, <1>3, <1>4, <1>5, <1>7, <1>8 DEF IInv, Accounted, WaitsInv, SkipProvided

\* The removal leaves no record, or none of this run.
LEMMA ClearInv == IInv /\ Clear => IInv'
<1> SUFFICES ASSUME IInv, Clear PROVE IInv'
  OBVIOUS
<1>1. TypeOK'
  BY TypeNext DEF IInv, Next, Script
<1>2. /\ pc = "clear" /\ verdict = "none"
      /\ pc' \in {"all", "exit"}
      /\ pc' = "all" => record' = {}
  BY DEF Clear, IInv, ReportInv
<1>3. PartialInv'
  BY <1>2 DEF IInv, PartialInv, Clear, world, lists, Begun
<1>4. QED
  BY <1>1, <1>2, <1>3 DEF IInv, MissingInv, AccountInv, RecordInv, ReportInv, WaitsInv,
     SkipsAreTrue, Accounted, Begun, OnP0, Clear, shell, world, lists

\* Asking again installs the package or finds it where it was.
LEMMA RetryInv == IInv /\ Retry => IInv'
<1> SUFFICES ASSUME IInv, Retry PROVE IInv'
  OBVIOUS
<1>1. TypeOK'
  BY TypeNext DEF IInv, Next, Script
<1>2. /\ pc = "retry" /\ UNCHANGED <<record, skipped, todo, p0>>
      /\ record \cap todo = {} /\ \A q \in record : ~Satisfied(q) \/ q \in brought
      /\ p0 \notin record /\ p0 \notin todo /\ ~Satisfied(p0) /\ ~Provided(p0)
      /\ \A q \in Packages \ (todo \cup {p0}) : Has(q) \/ q \in record \cup skipped
  BY DEF Retry, IInv, RecordInv, AccountInv, Begun, OnP0
<1>3. pc' \in {"each", "retry", "judge"}
  BY DEF Retry
<1>4. PartialInv' /\ SkipsAreTrue' /\ ReportInv'
  BY <1>2, <1>3, KeepInv DEF Retry, Begun, Finished
<1>5. CASE \E got \in SUBSET Packages :
             /\ Add({p0}, got)
             /\ pc' = IF Added({p0}, got) THEN "each" ELSE "retry"
  <2>1. PICK got \in SUBSET Packages :
          /\ Add({p0}, got)
          /\ pc' = IF Added({p0}, got) THEN "each" ELSE "retry"
    BY <1>5
  <2>2. {p0} \in SUBSET Packages /\ TypeOK
    BY <1>2 DEF IInv, TypeOK
  <2>3. /\ installed' = installed \cup got /\ brought' = brought \cup (got \ {p0})
        /\ \A q \in out'.missing : carries[q] \notin read
    BY <2>1, <2>2, AddFacts
  <2>4. \A q : /\ Satisfied(q)' <=> Satisfied(q) \/ q \in got
               /\ Has(q)' <=> Has(q) \/ q \in got
               /\ Provided(q)' <=> Provided(q)
    BY <2>3, HasNext DEF Retry
  <2>5. MissingInv'
    BY <2>3 DEF MissingInv, Retry, world, lists
  <2>6. CASE pc' = "each"
    <3>1. Has(p0)'
      <4>1. Added({p0}, got)
        BY <2>1, <2>6
      <4>2. QED
        BY <1>2, <2>4, <4>1 DEF Added, Has
    <3>2. AccountInv' /\ RecordInv'
      BY <1>2, <2>3, <2>4, <2>6, <3>1 DEF AccountInv, RecordInv, OnP0
    <3>3. QED
      BY <1>1, <1>4, <2>5, <2>6, <3>2 DEF IInv, Accounted, WaitsInv, Retry
  <2>7. CASE pc' # "each"
    <3>1. pc' = "retry" /\ ~Satisfied(p0)'
      <4>1. ~Added({p0}, got) /\ pc' = "retry"
        BY <2>1, <2>7
      <4>2. QED
        BY <1>2, <2>4, <4>1 DEF Added
    <3>2. AccountInv' /\ RecordInv'
      BY <1>2, <2>3, <2>4, <3>1 DEF AccountInv, RecordInv, OnP0
    <3>3. QED
      BY <1>1, <1>4, <2>5, <3>1, <3>2 DEF IInv, Accounted, WaitsInv, Retry
  <2>8. QED
    BY <2>6, <2>7
<1>6. CASE pc' = "judge" /\ UNCHANGED <<left, router, out>>
  <2>1. \A p : /\ (Satisfied(p)' <=> Satisfied(p)) /\ (Has(p)' <=> Has(p))
               /\ Provided(p)' <=> Provided(p)
    BY <1>6, HasSame DEF Retry
  <2>2. MissingInv'
    BY <1>2, <1>6 DEF IInv, MissingInv, OnP0, Retry, world, router, lists
  <2>3. AccountInv' /\ RecordInv'
    BY <1>2, <1>6, <2>1 DEF AccountInv, RecordInv, OnP0, router
  <2>4. QED
    BY <1>1, <1>4, <1>6, <2>2, <2>3 DEF IInv, Accounted, WaitsInv, Retry
<1>7. QED
  BY <1>5, <1>6 DEF Retry

\* The package at fault is recorded or truly in no feed, and an outage spends
\* the waits.
LEMMA JudgeInv == IInv /\ Judge => IInv'
<1> SUFFICES ASSUME IInv, Judge PROVE IInv'
  OBVIOUS
<1>1. TypeOK'
  BY TypeNext DEF IInv, Next, Script
<1>2. /\ pc = "judge" /\ UNCHANGED <<todo, p0, out, world, router, lists, partial, verdict>>
      /\ record \cap todo = {} /\ \A q \in record : ~Satisfied(q) \/ q \in brought
      /\ p0 \notin record /\ p0 \notin todo /\ ~Satisfied(p0) /\ p0 \in Packages
      /\ \A q \in Packages \ (todo \cup {p0}) : Has(q) \/ q \in record \cup skipped
      /\ \A q \in out.missing : carries[q] \notin read
      /\ verdict = "none"
  BY DEF Judge, IInv, TypeOK, MissingInv, RecordInv, AccountInv, ReportInv, Begun, OnP0
<1>3. \A p : (Satisfied(p)' <=> Satisfied(p)) /\ (Has(p)' <=> Has(p))
  BY <1>2, HasSame
<1>4. /\ pc' \in {"each", "exit"}
      /\ record \subseteq record' /\ record' \subseteq record \cup {p0}
      /\ skipped \subseteq skipped'
      /\ pc' = "exit" \/ p0 \in record' \cup skipped'
      /\ SkipsAreTrue'
  <2>1. CASE p0 \in out.missing
    <3>1. Absent({p0}, "each")
      BY <2>1 DEF Judge
    <3>2. {p0} \in SUBSET Packages /\ \A p \in {p0} : carries[p] \notin read
      BY <1>2, <2>1
    <3>3. QED
      BY <1>2, <3>1, <3>2, AbsentFacts DEF IInv, Begun, world, lists
  <2>2. CASE p0 \notin out.missing
    BY <1>2, <2>2 DEF Judge, IInv, SkipsAreTrue, world, lists
  <2>3. QED
    BY <2>1, <2>2
<1>5. PartialInv'
  BY <1>2, <1>4 DEF IInv, PartialInv, Begun, world, lists
<1>6. MissingInv'
  BY <1>2 DEF MissingInv, world, lists
<1>7. AccountInv'
  BY <1>2, <1>3, <1>4 DEF AccountInv, OnP0
<1>8. RecordInv'
  BY <1>2, <1>3, <1>4 DEF RecordInv, OnP0, Begun, router
<1>9. WaitsInv'
  BY DEF IInv, WaitsInv, TypeOK, Judge, Spend
<1>10. QED
  BY <1>1, <1>2, <1>4, <1>5, <1>6, <1>7, <1>8, <1>9 DEF IInv, ReportInv, Accounted

\* A new run starts with nothing skipped and nothing said.
LEMMA BeginInv == IInv /\ Begin => IInv'
<1> SUFFICES ASSUME IInv, Begin PROVE IInv'
  OBVIOUS
<1>1. TypeOK'
  BY TypeNext DEF IInv, Next
<1>2. PartialInv'
  BY DEF IInv, PartialInv, Begin, world, lists, Begun
<1>3. QED
  BY <1>1, <1>2 DEF Begin, IInv, MissingInv, AccountInv, RecordInv, ReportInv, WaitsInv,
     SkipsAreTrue, Accounted, Begun, OnP0

\* An interrupted script claims nothing.
LEMMA InterruptInv == IInv /\ Interrupt => IInv'
<1> SUFFICES ASSUME IInv, Interrupt PROVE IInv'
  OBVIOUS
<1>1. TypeOK'
  BY TypeNext DEF IInv, Next
<1>2. PartialInv'
  BY DEF IInv, PartialInv, Interrupt, world, lists, Begun
<1>3. QED
  BY <1>1, <1>2 DEF Interrupt, Finished, shell, world, router, lists, IInv, MissingInv,
     AccountInv, RecordInv, ReportInv, WaitsInv, SkipsAreTrue, Accounted, Begun, OnP0

\* What is said of the router is what the record says, or that it is unread.
LEMMA ReportedInv == IInv /\ Report => IInv'
<1> SUFFICES ASSUME IInv, Report PROVE IInv'
  OBVIOUS
<1>1. TypeOK'
  BY TypeNext DEF IInv, Next
<1>2. \A p : Has(p)' <=> Has(p)
  BY HasSame DEF Report
<1>3. PartialInv'
  BY DEF IInv, PartialInv, Report, world, lists, Begun
<1>4. ReportInv'
  BY <1>2 DEF IInv, ReportInv, Accounted, Report
<1>5. QED
  BY <1>1, <1>3, <1>4 DEF Report, shell, world, router, lists, IInv, MissingInv, AccountInv,
     RecordInv, WaitsInv, SkipsAreTrue, Accounted, Begun, OnP0

\* Every step of the script, of its interruption and of the report keeps it.
LEMMA InvNext == IInv /\ [Next]_vars => IInv'
<1> SUFFICES ASSUME IInv, [Next]_vars PROVE IInv'
  OBVIOUS
<1>1. CASE UNCHANGED vars
  <2>1. TypeOK'
    BY TypeNext DEF IInv
  <2>2. \A p : /\ (Satisfied(p)' <=> Satisfied(p)) /\ (Has(p)' <=> Has(p))
               /\ Provided(p)' <=> Provided(p)
    BY <1>1, HasSame DEF vars
  <2>3. QED
    BY <1>1, <2>1, <2>2 DEF vars, world, router, lists, shell, IInv, PartialInv, MissingInv,
       AccountInv, RecordInv, ReportInv, WaitsInv, SkipsAreTrue, Accounted
<1>2. QED
  BY <1>1, BeginInv, RefreshInv, ClearInv, AddAllInv, DropInv, AddRestInv, AddOneInv,
     EachDoneInv, SkipProvidedInv, RetryInv, JudgeInv, InterruptInv, ReportedInv
     DEF Next, Script

-----------------------------------------------------------------------------
(* The theorems *)

\* The invariant the properties follow from holds in every reachable state.
THEOREM Invariance == Spec => []IInv
BY InvInit, InvNext, PTL DEF Spec

\* Accounted: a script that exits 0 has installed, recorded or skipped every
\* package of the configuration, for any packages and feeds and both managers.
THEOREM NoneForgotten == Spec => []Accounted
<1>1. IInv => Accounted
  BY DEF IInv
<1>2. QED
  BY <1>1, Invariance, PTL

\* SkipsAreTrue: "not in this feed" is said only of what no configured feed has,
\* but for a feed whose list opkg dropped for its signature.
THEOREM SkipsProved == Spec => []SkipsAreTrue
<1>1. IInv => SkipsAreTrue
  BY DEF IInv
<1>2. QED
  BY <1>1, Invariance, PTL

\* RecordIsOurs: the record of a finished script names only what is not there, or
\* what this run brought in as needed by another.
THEOREM RecordProved == Spec => []RecordIsOurs
<1>1. IInv => RecordIsOurs
  BY DEF IInv, RecordInv, RecordIsOurs, Begun
<1>2. QED
  BY <1>1, Invariance, PTL

\* CompleteIsComplete: an empty record that was read means that the router has
\* every package that any feed has, but for a feed whose list opkg dropped for its
\* signature.
THEOREM CompleteProved == Spec => []CompleteIsComplete
<1>1. ASSUME IInv PROVE CompleteIsComplete
  <2> SUFFICES ASSUME verdict = "complete", NEW p \in Packages
               PROVE  Has(p) \/ carries[p] \in unverified \cup {Nowhere}
    BY DEF CompleteIsComplete
  <2>1. Has(p) \/ p \in skipped
    BY <1>1 DEF IInv, ReportInv
  <2>2. QED
    BY <1>1, <2>1 DEF IInv, SkipsAreTrue
<1>2. QED
  BY <1>1, Invariance, PTL

\* OneOutage: at most one package uses up its waits, however many fail and
\* whatever the schedule.
THEOREM OneOutageProved == Spec => []OneOutage
<1>1. IInv => OneOutage
  BY DEF IInv, WaitsInv, OneOutage
<1>2. QED
  BY <1>1, Invariance, PTL
=============================================================================
