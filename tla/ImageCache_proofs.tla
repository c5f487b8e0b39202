-------------------------- MODULE ImageCache_proofs --------------------------
(***************************************************************************)
(* Proofs about ImageCache: types for any processes, and, for one process  *)
(* at a time, that no call leaves half an image, that a published checksum *)
(* holds, and that EnsureImage implements AtomicCache.                     *)
(***************************************************************************)
EXTENDS ImageCache, FunctionTheorems, FiniteSetTheorems, TLAPS

-----------------------------------------------------------------------------
(* There is always an inode for another file *)

LEMMA ImageBound ==
  ASSUME NEW S, IsFiniteSet(S), NEW f, f = [s \in S |-> f[s]]
  PROVE  /\ IsFiniteSet({f[s] : s \in S}) /\ Cardinality({f[s] : s \in S}) <= Cardinality(S)
         /\ Cardinality({f[s] : s \in S}) \in Nat
<1>1. f \in Surjection(S, {f[s] : s \in S})
  BY DEF Surjection
<1>2. IsFiniteSet({f[s] : s \in S}) /\ Cardinality({f[s] : s \in S}) <= Cardinality(S)
  BY <1>1, FS_Surjection
<1>3. QED
  BY <1>2, FS_CardinalityType

LEMMA UnionBound ==
  ASSUME NEW S, IsFiniteSet(S), NEW T, IsFiniteSet(T)
  PROVE  /\ IsFiniteSet(S \cup T) /\ Cardinality(S \cup T) <= Cardinality(S) + Cardinality(T)
         /\ Cardinality(S \cup T) \in Nat
<1>1. IsFiniteSet(S \cup T) /\ IsFiniteSet(S \cap T)
  BY FS_Union, FS_Subset, S \cap T \in SUBSET S
<1>2. /\ Cardinality(S) \in Nat /\ Cardinality(T) \in Nat /\ Cardinality(S \cap T) \in Nat
      /\ Cardinality(S \cup T) \in Nat
  BY <1>1, FS_CardinalityType
<1>3. Cardinality(S \cup T) = Cardinality(S) + Cardinality(T) - Cardinality(S \cap T)
  BY FS_Union
<1>4. QED
  BY <1>1, <1>2, <1>3

LEMMA OtherNames ==
  ASSUME NEW n \in Name
  PROVE  IsFiniteSet(Name \ {n}) /\ Cardinality(Name \ {n}) = 2
<1>1. PICK a, b : a # b /\ Name \ {n} = {a} \cup {b}
  BY DEF Name
<1>2. IsFiniteSet({a}) /\ Cardinality({a}) = 1
  BY FS_Singleton
<1>3. IsFiniteSet({a} \cup {b}) /\ Cardinality({a} \cup {b}) = 2
  BY <1>1, <1>2, FS_AddElement
<1>4. QED
  BY <1>1, <1>3

\* Enough inodes for the names and the open descriptors: one is free whenever a
\* name is.
LEMMA FreeInode ==
  ASSUME TypeOK, NEW n \in Name, dir[n] = None
  PROVE  Free # {}
<1> DEFINE named == {dir[m] : m \in Name \ {n}}
           writ  == {out[p] : p \in Procs}
           read  == {in[p] : p \in Procs}
<1>1. /\ IsFiniteSet(named) /\ Cardinality(named) <= 2 /\ Cardinality(named) \in Nat
  <2> DEFINE others == Name \ {n}
             g == [m \in others |-> dir[m]]
  <2>1. g = [m \in others |-> g[m]] /\ named = {g[m] : m \in others}
    OBVIOUS
  <2>2. IsFiniteSet(others) /\ Cardinality(others) = 2
    BY OtherNames
  <2> HIDE DEF named, others, g
  <2>3. /\ IsFiniteSet({g[m] : m \in others}) /\ Cardinality({g[m] : m \in others}) <= Cardinality(others)
        /\ Cardinality({g[m] : m \in others}) \in Nat
    BY <2>1, <2>2, ImageBound
  <2>4. QED
    BY <2>1, <2>2, <2>3
<1>2. /\ IsFiniteSet(writ) /\ Cardinality(writ) <= Cardinality(Procs) /\ Cardinality(writ) \in Nat
  BY CacheAssumption, ImageBound DEF TypeOK
<1>3. /\ IsFiniteSet(read) /\ Cardinality(read) <= Cardinality(Procs) /\ Cardinality(read) \in Nat
  BY CacheAssumption, ImageBound DEF TypeOK
<1>4. ASSUME Free = {} PROVE Inodes \subseteq named \cup writ \cup read
  <2> SUFFICES ASSUME NEW i \in Inodes PROVE i \in named \cup writ \cup read
    OBVIOUS
  <2>1. i # None
    BY CacheAssumption DEF None
  <2>2. \/ \E m \in Name : dir[m] = i
        \/ \E p \in Procs : out[p] = i \/ in[p] = i
    BY <1>4 DEF Free
  <2>3. QED
    BY <2>1, <2>2
<1>5. Cardinality(Procs) \in Nat
  BY CacheAssumption, FS_CardinalityType
<1> HIDE DEF named, writ, read
<1>6. /\ IsFiniteSet(named \cup writ \cup read)
      /\ Cardinality(named \cup writ \cup read) <= 2 + Cardinality(Procs) + Cardinality(Procs)
      /\ Cardinality(named \cup writ \cup read) \in Nat
  <2>1. /\ IsFiniteSet(named \cup writ) /\ Cardinality(named \cup writ) \in Nat
        /\ Cardinality(named \cup writ) <= Cardinality(named) + Cardinality(writ)
    BY <1>1, <1>2, UnionBound
  <2>2. /\ IsFiniteSet((named \cup writ) \cup read) /\ Cardinality((named \cup writ) \cup read) \in Nat
        /\ Cardinality((named \cup writ) \cup read) <= Cardinality(named \cup writ) + Cardinality(read)
    BY <1>3, <2>1, UnionBound
  <2>3. QED
    BY <1>1, <1>2, <1>3, <1>5, <2>1, <2>2
<1>7. SUFFICES ASSUME Inodes \subseteq named \cup writ \cup read PROVE FALSE
  BY <1>4
<1>8. Cardinality(Inodes) <= Cardinality(named \cup writ \cup read)
  BY <1>6, <1>7, FS_Subset
<1>9. Cardinality(Inodes) >= 3 + 2 * Cardinality(Procs) /\ Cardinality(Inodes) \in Nat
  BY CacheAssumption, FS_CardinalityType
<1>10. QED
  BY <1>5, <1>6, <1>8, <1>9

-----------------------------------------------------------------------------
(* Types *)

LEMMA CreateFacts ==
  ASSUME TypeOK, NEW p \in Procs, NEW n \in Name, Create(p, n)
  PROVE  \E i \in Inodes :
           /\ dir' = [dir EXCEPT ![n] = i]
           /\ data' = [data EXCEPT ![i] = {}]
           /\ out' = [out EXCEPT ![p] = i]
           /\ IF dir[n] = None THEN i \in Free ELSE i = dir[n]
<1>1. CASE dir[n] = None
  <2>1. (CHOOSE f \in Free : TRUE) \in Free /\ Free \subseteq Inodes
    BY <1>1, FreeInode DEF Free
  <2>2. QED
    BY <1>1, <2>1 DEF Create
<1>2. CASE dir[n] # None
  <2>1. dir[n] \in Inodes
    BY <1>2 DEF TypeOK
  <2>2. QED
    BY <1>2, <2>1 DEF Create
<1>3. QED
  BY <1>1, <1>2

LEMMA CreateType ==
  ASSUME TypeOK, NEW p \in Procs, NEW n \in Name, Create(p, n)
  PROVE  /\ dir' \in [Name -> Inodes \cup {None}] /\ data' \in [Inodes -> SUBSET (Whole \cup {Wrong})]
         /\ out' \in [Procs -> Inodes \cup {None}]
<1>1. PICK i \in Inodes :
        /\ dir' = [dir EXCEPT ![n] = i]
        /\ data' = [data EXCEPT ![i] = {}]
        /\ out' = [out EXCEPT ![p] = i]
  BY CreateFacts
<1>2. QED
  BY <1>1 DEF TypeOK

Opened ==
  /\ out \in [Procs -> Inodes \cup {None}] /\ in \in [Procs -> Inodes \cup {None}]
  /\ pos \in [Procs -> 0..Chunks]
  /\ want \in [Procs -> BOOLEAN] /\ bad \in [Procs -> BOOLEAN]

Stored == dir \in [Name -> Inodes \cup {None}] /\ data \in [Inodes -> SUBSET (Whole \cup {Wrong})]

LEMMA LeaveType ==
  ASSUME TypeOK, NEW p \in Procs, NEW l \in Label, Leave(p, l)
  PROVE  pc' \in [Procs -> Label] /\ Opened'
<1>1. 0 \in 0..Chunks
  BY CacheAssumption
<1>2. QED
  BY <1>1 DEF Leave, TypeOK, Opened

LEMMA WithoutType == ASSUME TypeOK, NEW S PROVE Without(S) \in [Name -> Inodes \cup {None}]
BY DEF TypeOK, Without

\* One more chunk in an inode.
LEMMA WriteType ==
  ASSUME TypeOK, NEW p \in Procs, NEW i, NEW more \in SUBSET {Wrong}, pos[p] < Chunks,
         data' = [data EXCEPT ![i] = @ \cup {pos[p] + 1} \cup more],
         pos' = [pos EXCEPT ![p] = @ + 1]
  PROVE  /\ data' \in [Inodes -> SUBSET (Whole \cup {Wrong})] /\ pos' \in [Procs -> 0..Chunks]
         /\ pos[p] + 1 \in Whole
<1>1. pos[p] \in 0..Chunks /\ Chunks \in Nat
  BY CacheAssumption DEF TypeOK
<1>2. pos[p] + 1 \in 0..Chunks /\ pos[p] + 1 \in Whole
  BY <1>1 DEF Whole
<1>3. pos' \in [Procs -> 0..Chunks]
  BY <1>2 DEF TypeOK
<1>4. ASSUME i \in Inodes
      PROVE  data[i] \cup {pos[p] + 1} \cup more \in SUBSET (Whole \cup {Wrong})
  BY <1>2, <1>4 DEF TypeOK
<1>5. data' \in [Inodes -> SUBSET (Whole \cup {Wrong})]
  BY <1>4 DEF TypeOK
<1>6. QED
  BY <1>2, <1>3, <1>5

LEMMA TypeStep == ASSUME TypeOK, [Next]_vars PROVE TypeOK'
<1> USE DEF TypeOK
<1>0. 0 \in 0..Chunks
  BY CacheAssumption
<1>1. ASSUME NEW p \in Procs, NEW l \in Label, Leave(p, l), Stored' PROVE TypeOK'
  BY <1>1, LeaveType DEF Opened, Stored
<1>2. ASSUME NEW p \in Procs, NEW l \in Label, Leave(p, l), UNCHANGED data,
             dir' = dir \/ \E S : dir' = Without(S)
      PROVE  TypeOK'
  BY <1>1, <1>2, WithoutType DEF Stored
<1>3. ASSUME NEW p \in Procs, Begin(p) PROVE TypeOK'
  BY <1>3 DEF Begin, Goto, Label
<1>4. ASSUME NEW p \in Procs, Stat(p) PROVE TypeOK'
  BY <1>2, <1>4 DEF Stat, Goto, Label
<1>5. ASSUME NEW p \in Procs, ExpectedSum(p) PROVE TypeOK'
  BY <1>5 DEF ExpectedSum, Goto, Label
<1>6. ASSUME NEW p \in Procs, Get(p) PROVE TypeOK'
  <2>1. CASE Leave(p, "error") /\ dir' = Without({"gz"}) /\ UNCHANGED data
    BY <1>2, <2>1 DEF Label
  <2>2. CASE /\ Goto(p, "body") /\ Create(p, "gz")
             /\ \E b \in BOOLEAN : bad' = [bad EXCEPT ![p] = b]
             /\ UNCHANGED <<in, pos, want>>
    <3>1. dir' \in [Name -> Inodes \cup {None}] /\ data' \in [Inodes -> SUBSET (Whole \cup {Wrong})]
          /\ out' \in [Procs -> Inodes \cup {None}]
      BY <2>2, CreateType DEF Name
    <3>2. pc' \in [Procs -> Label] /\ bad' \in [Procs -> BOOLEAN]
      BY <2>2 DEF Goto, Label
    <3>3. QED
      BY <2>2, <3>1, <3>2
  <2>3. QED
    BY <1>6, <2>1, <2>2 DEF Get
<1>7. ASSUME NEW p \in Procs, Body(p) PROVE TypeOK'
  <2>1. CASE /\ pos[p] < Chunks
             /\ pos' = [pos EXCEPT ![p] = @ + 1]
             /\ data' = [data EXCEPT ![out[p]] =
                  @ \cup {pos[p] + 1} \cup (IF bad[p] THEN {Wrong} ELSE {})]
             /\ UNCHANGED <<pc, dir, out, in, want, bad>>
    <3>1. PICK more \in SUBSET {Wrong} : more = (IF bad[p] THEN {Wrong} ELSE {})
      OBVIOUS
    <3>2. data' = [data EXCEPT ![out[p]] = @ \cup {pos[p] + 1} \cup more]
      BY <2>1, <3>1
    <3>3. data' \in [Inodes -> SUBSET (Whole \cup {Wrong})] /\ pos' \in [Procs -> 0..Chunks]
      BY <2>1, <3>2, WriteType
    <3>4. QED
      BY <2>1, <3>3
  <2>2. CASE Goto(p, "verify") /\ UNCHANGED <<dir, data, out, in, pos, want, bad>>
    BY <2>2 DEF Goto, Label
  <2>3. CASE Leave(p, "error") /\ dir' = Without({"gz"}) /\ UNCHANGED data
    BY <1>2, <2>3 DEF Label
  <2>4. QED
    BY <1>7, <2>1, <2>2, <2>3 DEF Body
<1>8. ASSUME NEW p \in Procs, Verify(p) PROVE TypeOK'
  <2>1. CASE Leave(p, "error") /\ dir' = Without({"gz"}) /\ UNCHANGED data
    BY <1>2, <2>1 DEF Label
  <2>2. CASE Goto(p, "open") /\ out' = [out EXCEPT ![p] = None]
             /\ UNCHANGED <<dir, data, in, pos, want, bad>>
    BY <2>2 DEF Goto, Label
  <2>3. QED
    BY <1>8, <2>1, <2>2 DEF Verify
<1>9. ASSUME NEW p \in Procs, OpenGz(p) PROVE TypeOK'
  <2>1. CASE /\ Goto(p, "gunzip")
             /\ in' = [in EXCEPT ![p] = dir["gz"]]
             /\ Create(p, "tmp")
             /\ pos' = [pos EXCEPT ![p] = 0]
             /\ UNCHANGED <<want, bad>>
    <3>1. dir' \in [Name -> Inodes \cup {None}] /\ data' \in [Inodes -> SUBSET (Whole \cup {Wrong})]
          /\ out' \in [Procs -> Inodes \cup {None}]
      BY <2>1, CreateType DEF Name
    <3>2. pc' \in [Procs -> Label] /\ in' \in [Procs -> Inodes \cup {None}]
          /\ pos' \in [Procs -> 0..Chunks]
      BY <1>0, <2>1 DEF Goto, Label, Name
    <3>3. QED
      BY <2>1, <3>1, <3>2
  <2>2. CASE Leave(p, "error") /\ dir' = Without({"gz", "tmp"}) /\ UNCHANGED data
    BY <1>2, <2>2 DEF Label
  <2>3. QED
    BY <1>9, <2>1, <2>2 DEF OpenGz
<1>10. ASSUME NEW p \in Procs, Gunzip(p) PROVE TypeOK'
  <2>1. CASE /\ pos[p] < Chunks
             /\ pos' = [pos EXCEPT ![p] = @ + 1]
             /\ data' = [data EXCEPT ![out[p]] = @ \cup {pos[p] + 1} \cup (data[in[p]] \cap {Wrong})]
             /\ UNCHANGED <<pc, dir, out, in, want, bad>>
    <3>1. PICK more \in SUBSET {Wrong} : more = (data[in[p]] \cap {Wrong})
      OBVIOUS
    <3>2. data' = [data EXCEPT ![out[p]] = @ \cup {pos[p] + 1} \cup more]
      BY <2>1, <3>1
    <3>3. data' \in [Inodes -> SUBSET (Whole \cup {Wrong})] /\ pos' \in [Procs -> 0..Chunks]
      BY <2>1, <3>2, WriteType
    <3>4. QED
      BY <2>1, <3>3
  <2>2. CASE /\ Goto(p, "rmgz")
             /\ out' = [out EXCEPT ![p] = None] /\ in' = [in EXCEPT ![p] = None]
             /\ UNCHANGED <<dir, data, pos, want, bad>>
    BY <2>2 DEF Goto, Label
  <2>3. CASE Leave(p, "error") /\ dir' = Without({"gz", "tmp"}) /\ UNCHANGED data
    BY <1>2, <2>3 DEF Label
  <2>4. QED
    BY <1>10, <2>1, <2>2, <2>3 DEF Gunzip
<1>11. ASSUME NEW p \in Procs, RemoveGz(p) PROVE TypeOK'
  BY <1>11, WithoutType DEF RemoveGz, Goto, Label
<1>12. ASSUME NEW p \in Procs, Rename(p) PROVE TypeOK'
  <2>1. Stored'
    BY <1>12 DEF Rename, Stored, Name
  <2>2. QED
    BY <1>1, <1>12, <2>1 DEF Rename, Label
<1>13. ASSUME NEW p \in Procs, Interrupt(p) PROVE TypeOK'
  BY <1>2, <1>13 DEF Interrupt, Label
<1>14. CASE PowerLoss
  BY <1>0, <1>14 DEF PowerLoss, Label
<1>15. CASE UNCHANGED vars
  BY <1>15 DEF vars
<1>16. QED
  BY <1>3, <1>4, <1>5, <1>6, <1>7, <1>8, <1>9, <1>10, <1>11, <1>12, <1>13, <1>14, <1>15
     DEF Next, Ensure

\* The type invariant, for any processes, chunks and inodes: every descriptor is of an
\* inode there is, because there is one for every file that is created.
THEOREM TypeCorrect == Spec => []TypeOK
<1>1. Init => TypeOK
  <2>1. 0 \in 0..Chunks
    BY CacheAssumption
  <2>2. QED
    BY <2>1 DEF Init, TypeOK, Label
<1>2. QED
  BY <1>1, TypeStep, PTL DEF Spec

-----------------------------------------------------------------------------
(* One process at a time *)

OneCaller == \A p, q \in Procs : p = q

\* Two names are two files.
Apart == \A a, b \in Name : dir[a] = dir[b] /\ dir[a] # None => a = b

\* What the call has in its part files at each place.
CallInv(p) ==
  /\ pc[p] \in {"body", "verify"} =>
       out[p] = dir["gz"] /\ dir["gz"] # None /\ (Wrong \in data[dir["gz"]] => bad[p])
  /\ pc[p] = "gunzip" =>
       /\ out[p] = dir["tmp"] /\ dir["tmp"] # None /\ 1..pos[p] \subseteq data[dir["tmp"]]
       /\ in[p] = dir["gz"] /\ dir["gz"] # None
  /\ pc[p] \in {"rmgz", "rename"} => dir["tmp"] # None /\ Whole \subseteq data[dir["tmp"]]
  /\ want[p] /\ pc[p] \in {"open", "gunzip"} => Wrong \notin Content("gz")
  /\ want[p] /\ pc[p] \in {"gunzip", "rmgz", "rename"} => Wrong \notin Content("tmp")

\* Past Stat there is no image of the cached name.
EmptyInv(p) == pc[p] \notin Finished \cup {"stat"} => Content("raw") = {}

IInv == TypeOK /\ Apart /\ \A p \in Procs : CallInv(p) /\ EmptyInv(p)

LEMMA NameFacts == "gz" \in Name /\ "tmp" \in Name /\ "raw" \in Name
BY DEF Name

LEMMA LeaveCall ==
  ASSUME TypeOK, NEW p \in Procs, NEW l \in Finished, Leave(p, l)
  PROVE  CallInv(p)' /\ pc'[p] = l
BY DEF Leave, TypeOK, Finished, CallInv

LEMMA WithoutApart ==
  ASSUME TypeOK, Apart, NEW S \in SUBSET {"gz", "tmp"}, dir' = Without(S), UNCHANGED data
  PROVE  Apart' /\ Content("raw")' = Content("raw")
BY NameFacts DEF Without, Apart, Content, TypeOK

\* A step of the call gives the cached name another content only when it renames.
LEMMA CallStep ==
  ASSUME IInv, NEW p \in Procs, Begin(p) \/ Ensure(p) \/ Interrupt(p)
  PROVE  /\ Apart' /\ CallInv(p)'
         /\ \/ Content("raw")' = Content("raw")
            \/ /\ pc[p] = "rename" /\ pc'[p] = "ok"
               /\ Content("raw")' = Content("tmp") /\ Whole \subseteq Content("tmp")
<1>0. TypeOK /\ Apart /\ CallInv(p)
  BY DEF IInv
<1>1. ASSUME NEW l \in Finished, Leave(p, l), UNCHANGED data,
             dir' = dir \/ \E S \in SUBSET {"gz", "tmp"} : dir' = Without(S)
      PROVE  Apart' /\ CallInv(p)' /\ Content("raw")' = Content("raw")
  <2>1. CallInv(p)'
    BY <1>0, <1>1, LeaveCall
  <2>2. CASE dir' = dir
    BY <1>0, <1>1, <2>1, <2>2 DEF Apart, Content
  <2>3. CASE \E S \in SUBSET {"gz", "tmp"} : dir' = Without(S)
    BY <1>0, <1>1, <2>1, <2>3, WithoutApart
  <2>4. QED
    BY <1>1, <2>2, <2>3
<1>2. ASSUME NEW l, Goto(p, l), UNCHANGED <<dir, data>>
      PROVE  Apart' /\ Content("raw")' = Content("raw") /\ pc'[p] = l
  BY <1>0, <1>2 DEF Goto, Apart, Content, TypeOK
<1>3. CASE Begin(p)
  BY <1>2, <1>3 DEF Begin, CallInv
<1>4. CASE Stat(p)
  <2>1. CASE Leave(p, "ok") /\ UNCHANGED <<dir, data>>
    BY <1>1, <2>1 DEF Finished
  <2>2. CASE Goto(p, "sums") /\ UNCHANGED <<dir, data>>
    BY <1>2, <2>2 DEF CallInv
  <2>3. QED
    BY <1>4, <2>1, <2>2 DEF Stat
<1>5. CASE ExpectedSum(p)
  BY <1>2, <1>5 DEF ExpectedSum, CallInv
<1>6. CASE Get(p)
  <2>1. CASE Leave(p, "error") /\ dir' = Without({"gz"}) /\ UNCHANGED data
    BY <1>1, <2>1 DEF Finished
  <2>2. CASE Goto(p, "body") /\ Create(p, "gz")
    <3>1. PICK i \in Inodes :
            /\ dir' = [dir EXCEPT !["gz"] = i]
            /\ data' = [data EXCEPT ![i] = {}]
            /\ out' = [out EXCEPT ![p] = i]
            /\ IF dir["gz"] = None THEN i \in Free ELSE i = dir["gz"]
      BY <1>0, <2>2, CreateFacts, NameFacts
    <3>2. dir["tmp"] # i /\ dir["raw"] # i
      BY <1>0, <3>1, NameFacts DEF Apart, Free
    <3>3. i # None
      BY CacheAssumption DEF None
    <3>4. Apart'
      BY <1>0, <3>1, <3>2, <3>3 DEF Apart, Name, TypeOK
    <3>5. Content("raw")' = Content("raw")
      BY <1>0, <3>1, <3>2, NameFacts DEF Content, TypeOK
    <3>6. out'[p] = i /\ dir'["gz"] = i /\ data'[i] = {} /\ pc'[p] = "body"
      BY <1>0, <2>2, <3>1, NameFacts DEF Goto, TypeOK
    <3>7. CallInv(p)'
      BY <3>3, <3>6 DEF CallInv
    <3>8. QED
      BY <3>4, <3>5, <3>7
  <2>3. QED
    BY <1>6, <2>1, <2>2 DEF Get
<1>7. CASE Body(p)
  <2>0. pc[p] = "body" /\ out[p] = dir["gz"] /\ dir["gz"] \in Inodes /\ dir["gz"] # dir["raw"]
        /\ (Wrong \in data[dir["gz"]] => bad[p])
    BY <1>0, <1>7, NameFacts DEF Body, CallInv, Apart, TypeOK
  <2>1. CASE /\ pos[p] < Chunks
             /\ data' = [data EXCEPT ![out[p]] =
                  @ \cup {pos[p] + 1} \cup (IF bad[p] THEN {Wrong} ELSE {})]
             /\ UNCHANGED <<pc, dir, out, in, want, bad>>
    <3>1. Apart' /\ Content("raw")' = Content("raw")
      BY <1>0, <2>0, <2>1 DEF Apart, Content, TypeOK
    <3>2. pos[p] + 1 # Wrong
      BY <1>0 DEF TypeOK, Wrong
    <3>3. Wrong \in data'[dir["gz"]] => bad[p]
      BY <1>0, <2>0, <2>1, <3>2 DEF TypeOK
    <3>4. CallInv(p)'
      BY <2>0, <2>1, <3>3, CacheAssumption DEF CallInv, None
    <3>5. QED
      BY <3>1, <3>4
  <2>2. CASE Goto(p, "verify") /\ UNCHANGED <<dir, data, out, in, pos, want, bad>>
    BY <1>0, <1>2, <2>0, <2>2 DEF CallInv
  <2>3. CASE Leave(p, "error") /\ dir' = Without({"gz"}) /\ UNCHANGED data
    BY <1>1, <2>3 DEF Finished
  <2>4. QED
    BY <1>7, <2>1, <2>2, <2>3 DEF Body
<1>8. CASE Verify(p)
  <2>1. CASE Leave(p, "error") /\ dir' = Without({"gz"}) /\ UNCHANGED data
    BY <1>1, <2>1 DEF Finished
  <2>2. CASE /\ ~(want[p] /\ bad[p]) /\ Goto(p, "open")
             /\ UNCHANGED <<dir, data, in, pos, want, bad>>
    BY <1>0, <1>2, <1>8, <2>2 DEF Verify, CallInv, Content
  <2>3. QED
    BY <1>8, <2>1, <2>2 DEF Verify
<1>9. CASE OpenGz(p)
  <2>1. CASE /\ 1 \in Content("gz")
             /\ Goto(p, "gunzip")
             /\ in' = [in EXCEPT ![p] = dir["gz"]]
             /\ Create(p, "tmp")
             /\ pos' = [pos EXCEPT ![p] = 0]
             /\ UNCHANGED <<want, bad>>
    <3>1. PICK i \in Inodes :
            /\ dir' = [dir EXCEPT !["tmp"] = i]
            /\ data' = [data EXCEPT ![i] = {}]
            /\ out' = [out EXCEPT ![p] = i]
            /\ IF dir["tmp"] = None THEN i \in Free ELSE i = dir["tmp"]
      BY <1>0, <2>1, CreateFacts, NameFacts
    <3>2. dir["gz"] # i /\ dir["raw"] # i
      BY <1>0, <3>1, NameFacts DEF Apart, Free
    <3>3. i # None /\ dir["gz"] # None
      BY <2>1, CacheAssumption DEF None, Content
    <3>4. Apart'
      BY <1>0, <3>1, <3>2, <3>3 DEF Apart, Name, TypeOK
    <3>5. Content("raw")' = Content("raw") /\ Content("gz")' = Content("gz")
      BY <1>0, <3>1, <3>2, NameFacts DEF Content, TypeOK
    <3>6. out'[p] = i /\ dir'["tmp"] = i /\ data'[i] = {} /\ pc'[p] = "gunzip"
          /\ dir'["gz"] = dir["gz"] /\ in'[p] = dir["gz"] /\ pos'[p] = 0
      BY <1>0, <2>1, <3>1, NameFacts DEF Goto, TypeOK
    <3>7. want[p] => Wrong \notin Content("gz")
      BY <1>0, <1>9 DEF OpenGz, CallInv
    <3>8. Content("tmp")' = {}
      BY <3>6 DEF Content
    <3>9. CallInv(p)'
      BY <2>1, <3>3, <3>5, <3>6, <3>7, <3>8 DEF CallInv
    <3>10. QED
      BY <3>4, <3>5, <3>9
  <2>2. CASE Leave(p, "error") /\ dir' = Without({"gz", "tmp"}) /\ UNCHANGED data
    BY <1>1, <2>2 DEF Finished
  <2>3. QED
    BY <1>9, <2>1, <2>2 DEF OpenGz
<1>10. CASE Gunzip(p)
  <2>0. /\ pc[p] = "gunzip" /\ out[p] = dir["tmp"] /\ dir["tmp"] \in Inodes /\ dir["tmp"] # None
        /\ in[p] = dir["gz"] /\ dir["gz"] \in Inodes /\ dir["gz"] # None
        /\ dir["tmp"] # dir["raw"] /\ dir["tmp"] # dir["gz"]
        /\ 1..pos[p] \subseteq data[dir["tmp"]]
        /\ want[p] => Wrong \notin data[dir["gz"]] /\ Wrong \notin data[dir["tmp"]]
    BY <1>0, <1>10, NameFacts DEF Gunzip, CallInv, Apart, Content, TypeOK
  <2>1. CASE /\ pos[p] < Chunks
             /\ pos' = [pos EXCEPT ![p] = @ + 1]
             /\ data' = [data EXCEPT ![out[p]] = @ \cup {pos[p] + 1} \cup (data[in[p]] \cap {Wrong})]
             /\ UNCHANGED <<pc, dir, out, in, want, bad>>
    <3>1. Apart' /\ Content("raw")' = Content("raw")
      BY <1>0, <2>0, <2>1 DEF Apart, Content, TypeOK
    <3>2. pos[p] \in Nat /\ pos'[p] = pos[p] + 1 /\ pos[p] + 1 # Wrong
      BY <1>0, <2>1 DEF TypeOK, Wrong
    <3>3. /\ data'[dir["tmp"]] = data[dir["tmp"]] \cup {pos[p] + 1} \cup (data[dir["gz"]] \cap {Wrong})
          /\ data'[dir["gz"]] = data[dir["gz"]]
      BY <1>0, <2>0, <2>1 DEF TypeOK
    <3>4. 1..pos'[p] \subseteq data'[dir["tmp"]]
      BY <2>0, <3>2, <3>3
    <3>5. want[p] => Wrong \notin data'[dir["gz"]] /\ Wrong \notin data'[dir["tmp"]]
      BY <2>0, <3>2, <3>3
    <3>6. CallInv(p)'
      BY <2>0, <2>1, <3>4, <3>5 DEF CallInv, Content
    <3>7. QED
      BY <3>1, <3>6
  <2>2. CASE /\ pos[p] = Chunks
             /\ Goto(p, "rmgz")
             /\ UNCHANGED <<dir, data, pos, want, bad>>
    BY <1>2, <2>0, <2>2 DEF CallInv, Content, Whole
  <2>3. CASE Leave(p, "error") /\ dir' = Without({"gz", "tmp"}) /\ UNCHANGED data
    BY <1>1, <2>3 DEF Finished
  <2>4. QED
    BY <1>10, <2>1, <2>2, <2>3 DEF Gunzip
<1>11. CASE RemoveGz(p)
  <2>1. Apart' /\ Content("raw")' = Content("raw")
    BY <1>0, <1>11, WithoutApart DEF RemoveGz
  <2>2. dir'["tmp"] = dir["tmp"] /\ pc'[p] = "rename"
    BY <1>0, <1>11, NameFacts DEF RemoveGz, Without, Goto, TypeOK
  <2>3. CallInv(p)'
    BY <1>0, <1>11, <2>2 DEF RemoveGz, CallInv, Content
  <2>4. QED
    BY <2>1, <2>3
<1>12. CASE Rename(p)
  <2>1. CASE /\ dir' = [dir EXCEPT !["raw"] = dir["tmp"], !["tmp"] = None]
             /\ Leave(p, "ok") /\ UNCHANGED data
    <3>1. CallInv(p)' /\ pc'[p] = "ok"
      BY <1>0, <2>1, LeaveCall DEF Finished
    <3>2. dir'["raw"] = dir["tmp"] /\ dir'["tmp"] = None /\ dir'["gz"] = dir["gz"]
      BY <1>0, <2>1, NameFacts DEF TypeOK
    <3>3. Apart'
      BY <1>0, <3>2 DEF Apart, Name
    <3>4. Content("raw")' = Content("tmp") /\ Whole \subseteq Content("tmp")
      BY <1>0, <1>12, <2>1, <3>2 DEF Rename, CallInv, Content
    <3>5. QED
      BY <1>12, <3>1, <3>3, <3>4 DEF Rename
  <2>2. CASE Leave(p, "error") /\ UNCHANGED <<dir, data>>
    BY <1>1, <2>2 DEF Finished
  <2>3. QED
    BY <1>12, <2>1, <2>2 DEF Rename
<1>13. CASE Interrupt(p)
  BY <1>1, <1>13 DEF Interrupt, Finished
<1>14. QED
  BY <1>3, <1>4, <1>5, <1>6, <1>7, <1>8, <1>9, <1>10, <1>11, <1>12, <1>13 DEF Ensure

LEMMA WholeFacts == Whole # {} /\ Wrong \notin Whole
BY CacheAssumption DEF Whole, Wrong

\* Whoever is past Stat has found no image, and only its own rename makes one.
LEMMA EmptyStep ==
  ASSUME IInv, NEW p \in Procs, Begin(p) \/ Ensure(p) \/ Interrupt(p)
  PROVE  EmptyInv(p)'
<1>0. TypeOK /\ EmptyInv(p)
  BY DEF IInv
<1>1. SUFFICES ASSUME pc'[p] \notin Finished \cup {"stat"} PROVE Content("raw")' = {}
  BY DEF EmptyInv, Content
<1>2. Content("raw")' = Content("raw")
  BY <1>1, CallStep DEF Finished
<1>3. ~Begin(p) /\ ~Interrupt(p)
  BY <1>0, <1>1 DEF Begin, Interrupt, Goto, Leave, TypeOK, Finished
<1>4. CASE Stat(p)
  BY <1>0, <1>1, <1>2, <1>4 DEF Stat, Leave, TypeOK, Finished
<1>5. CASE pc[p] \notin Finished \cup {"stat"}
  BY <1>0, <1>2, <1>5 DEF EmptyInv
<1>6. Stat(p) \/ pc[p] \notin Finished \cup {"stat"}
  BY <1>3 DEF Ensure, ExpectedSum, Get, Body, Verify, OpenGz, Gunzip, RemoveGz, Rename,
              Finished
<1>7. QED
  BY <1>4, <1>5, <1>6

\* A power loss takes away from files and mixes none up.
LEMMA LossStep ==
  ASSUME IInv, PowerLoss
  PROVE  /\ Apart' /\ \A p \in Procs : CallInv(p)' /\ EmptyInv(p)'
         /\ Content("raw")' \subseteq Content("raw")
<1>1. \A p \in Procs : CallInv(p)' /\ EmptyInv(p)'
  BY DEF PowerLoss, CallInv, EmptyInv, Finished
<1>2. Apart'
  BY DEF IInv, PowerLoss, Apart
<1>3. Content("raw")' \subseteq Content("raw")
  BY NameFacts DEF IInv, TypeOK, PowerLoss, Content
<1>4. QED
  BY <1>1, <1>2, <1>3

LEMMA IStep ==
  ASSUME OneCaller, IInv, [Next]_vars
  PROVE  IInv'
<1>0. TypeOK'
  BY TypeStep DEF IInv
<1>1. ASSUME NEW p \in Procs, Begin(p) \/ Ensure(p) \/ Interrupt(p) PROVE IInv'
  <2>1. Apart' /\ CallInv(p)' /\ EmptyInv(p)' /\ \A q \in Procs : q = p
    BY <1>1, CallStep, EmptyStep DEF OneCaller
  <2>2. QED
    BY <1>0, <2>1 DEF IInv
<1>2. CASE PowerLoss
  BY <1>0, <1>2, LossStep DEF IInv
<1>3. CASE UNCHANGED vars
  BY <1>0, <1>3 DEF vars, IInv, Apart, CallInv, EmptyInv, Content
<1>4. QED
  BY <1>1, <1>2, <1>3 DEF Next

LEMMA Invariance == ASSUME OneCaller PROVE Spec => []IInv
<1>1. Init => IInv
  <2>1. Init => TypeOK
    <3>1. 0 \in 0..Chunks
      BY CacheAssumption
    <3>2. QED
      BY <3>1 DEF Init, TypeOK, Label
  <2>2. QED
    BY <2>1, NameFacts DEF Init, IInv, Apart, Content, CallInv, EmptyInv, Finished
<1>2. IInv /\ [Next]_vars => IInv'
  BY IStep
<1>3. QED
  BY <1>1, <1>2, PTL DEF Spec

\* One process at a time, whatever died or lost power before, no step but a power loss
\* leaves a part of an image that the next run would use.
THEOREM WholeProved == ASSUME OneCaller PROVE Spec => NeverHalf
<1>1. IInv /\ [Next]_vars => [~Half /\ Half' => PowerLoss]_vars
  <2> SUFFICES ASSUME IInv, Next, ~PowerLoss, ~Half, Half' PROVE FALSE
    OBVIOUS
  <2>1. PICK p \in Procs : Begin(p) \/ Ensure(p) \/ Interrupt(p)
    BY DEF Next
  <2>2. Content("raw")' = Content("raw") \/ Whole \subseteq Content("raw")'
    BY <2>1, CallStep
  <2>3. QED
    BY <2>2 DEF Half
<1>2. QED
  BY <1>1, Invariance, PTL DEF Spec, NeverHalf

\* One process at a time, an image that was compared with a published checksum has
\* that image's bytes and no others.
THEOREM SumProved == ASSUME OneCaller PROVE Spec => ChecksumHolds
<1>1. IInv /\ [Next]_vars
      => [\A p \in Procs : pc[p] = "rename" /\ pc'[p] = "ok" /\ want[p] =>
            Wrong \notin Content("raw")']_vars
  <2> SUFFICES ASSUME IInv, Next, NEW p \in Procs, pc[p] = "rename", pc'[p] = "ok", want[p]
               PROVE  Wrong \notin Content("raw")'
    BY DEF Next
  <2>1. TypeOK /\ CallInv(p)
    BY DEF IInv
  <2>2. ~PowerLoss
    BY DEF PowerLoss
  <2>3. PICK q \in Procs : Begin(q) \/ Ensure(q) \/ Interrupt(q)
    BY <2>2 DEF Next
  <2>4. pc' = [pc EXCEPT ![q] = pc'[q]]
    BY <2>1, <2>3 DEF TypeOK, Begin, Ensure, Interrupt, Stat, ExpectedSum, Get, Body, Verify, OpenGz,
                      Gunzip, RemoveGz, Rename, Leave, Goto
  <2>5. q = p
    BY <2>1, <2>4 DEF TypeOK
  <2>6. Rename(p)
    BY <2>1, <2>3, <2>5 DEF TypeOK, Begin, Ensure, Interrupt, Stat, ExpectedSum, Get, Body, Verify,
                            OpenGz, Gunzip, RemoveGz, Leave, Goto, Finished
  <2>7. dir' = [dir EXCEPT !["raw"] = dir["tmp"], !["tmp"] = None] /\ UNCHANGED data
    BY <2>1, <2>6 DEF Rename, Leave, TypeOK
  <2>8. dir'["raw"] = dir["tmp"]
    BY <2>1, <2>7, NameFacts DEF TypeOK
  <2>9. QED
    BY <2>1, <2>7, <2>8 DEF CallInv, Content
<1>2. QED
  BY <1>1, Invariance, PTL DEF Spec, ChecksumHolds

-----------------------------------------------------------------------------
(* EnsureImage implements AtomicCache *)

Image == CASE Content("raw") = {} -> "absent" [] Half -> "half" [] OTHER -> "whole"

Seen(l) == CASE l = "ok" -> "served"
             [] l = "error" -> "refused"
             [] l = "idle" -> "idle"
             [] OTHER -> "asking"

Caller == [p \in Procs |-> Seen(pc[p])]

LEMMA ImageFacts ==
  /\ Content("raw") = {} => Image = "absent"
  /\ Content("raw") # {} => Image \in {"whole", "half"}
  /\ Whole \subseteq Content("raw") => Image = "whole"
  /\ Content("raw") # {} /\ ~(Whole \subseteq Content("raw")) => Image = "half"
BY WholeFacts DEF Image, Half

\* The image is what the file of the cached name holds.
LEMMA ImageNext ==
  /\ Content("raw")' = Content("raw") => Image' = Image
  /\ Whole \subseteq Content("raw")' => Image' = "whole"
  /\ Content("raw")' \subseteq Content("raw") =>
       Image' \in IF Image = "absent" THEN {"absent"} ELSE {Image, "absent", "half"}
BY WholeFacts DEF Image, Half

LEMMA SeenFacts ==
  /\ Seen("ok") = "served" /\ Seen("error") = "refused" /\ Seen("idle") = "idle"
  /\ \A l \in Label \ Finished : Seen(l) = "asking"
  /\ \A l \in Finished : Seen(l) # "asking"
BY DEF Seen, Label, Finished

\* How a step of one process looks to the callers.
LEMMA CallerStep ==
  ASSUME TypeOK, NEW p \in Procs, NEW l, pc' = [pc EXCEPT ![p] = l]
  PROVE  /\ Caller' = [Caller EXCEPT ![p] = Seen(l)] /\ Caller[p] = Seen(pc[p])
         /\ Seen(l) = Seen(pc[p]) => Caller' = Caller
<1>1. \A q \in Procs : Seen(pc[q])' = IF q = p THEN Seen(l) ELSE Seen(pc[q])
  BY DEF TypeOK, Seen
<1>2. Caller' = [q \in Procs |-> IF q = p THEN Seen(l) ELSE Seen(pc[q])]
  BY <1>1 DEF Caller
<1>3. QED
  BY <1>2 DEF Caller

LEMMA AtomicStep ==
  ASSUME IInv, IInv', [Next]_vars
  PROVE  [Promise!Next]_Promise!vars
<1> DEFINE Asks(p) == Caller[p] # "asking" /\ Caller' = [Caller EXCEPT ![p] = "asking"] /\ Image' = Image
           Serves(p) == /\ Caller[p] = "asking" /\ Caller' = [Caller EXCEPT ![p] = "served"]
                        /\ Image' = IF Image = "half" THEN "half" ELSE "whole"
           Refuses(p, o) == Caller[p] = "asking" /\ Caller' = [Caller EXCEPT ![p] = o] /\ Image' = Image
           Loses == /\ Image' \in IF Image = "absent" THEN {"absent"} ELSE {Image, "absent", "half"}
                    /\ Caller' = [p \in Procs |-> "idle"]
           Stutters == Image' = Image /\ Caller' = Caller
<1>0. TypeOK
  BY DEF IInv
<1>1. /\ \A p \in Procs : Asks(p) => Promise!Ask(p)
      /\ \A p \in Procs : Serves(p) => Promise!Serve(p)
      /\ \A p \in Procs, o \in {"idle", "refused"} : Refuses(p, o) => Promise!Refuse(p, o)
      /\ Loses => Promise!Lose
      /\ Stutters => UNCHANGED Promise!vars
  BY DEF Promise!Ask, Promise!Serve, Promise!Refuse, Promise!Lose, Promise!vars, Image, Half, Caller, Seen
<1>2. SUFFICES \/ \E p \in Procs : Asks(p) \/ Serves(p) \/ Refuses(p, "idle") \/ Refuses(p, "refused")
               \/ Loses \/ Stutters
  BY <1>1 DEF Promise!Next
<1> HIDE DEF Asks, Serves, Refuses, Loses, Stutters
<1>3. ASSUME NEW p \in Procs, Begin(p) \/ Ensure(p) \/ Interrupt(p)
      PROVE  Asks(p) \/ Serves(p) \/ Refuses(p, "idle") \/ Refuses(p, "refused") \/ Stutters
  <2>1. PICK l : pc' = [pc EXCEPT ![p] = l]
    BY <1>0, <1>3 DEF TypeOK, Begin, Ensure, Interrupt, Stat, ExpectedSum, Get, Body, Verify, OpenGz,
                      Gunzip, RemoveGz, Rename, Leave, Goto
  <2>2. pc'[p] = l /\ pc[p] \in Label /\ l \in Label
    BY <1>0, <2>1 DEF TypeOK, IInv
  <2>3. /\ Caller' = [Caller EXCEPT ![p] = Seen(l)] /\ Caller[p] = Seen(pc[p])
        /\ Seen(l) = Seen(pc[p]) => Caller' = Caller
    BY <1>0, <2>1, CallerStep
  <2>4. \/ Content("raw")' = Content("raw")
        \/ /\ pc[p] = "rename" /\ l = "ok"
           /\ Content("raw")' = Content("tmp") /\ Whole \subseteq Content("tmp")
    BY <1>3, <2>2, CallStep
  <2>5. CASE Begin(p)
    <3>1. pc[p] \in Finished /\ l = "stat" /\ Content("raw")' = Content("raw")
      BY <1>0, <2>2, <2>5 DEF Begin, Goto, TypeOK, Content
    <3>2. Image' = Image /\ Seen(l) = "asking" /\ Caller[p] # "asking"
      BY <1>0, <2>3, <3>1, ImageNext, SeenFacts DEF Label, Finished
    <3>3. QED
      BY <2>3, <3>2 DEF Asks
  <2>6. CASE Interrupt(p)
    <3>1. pc[p] \notin Finished /\ l = "idle" /\ Content("raw")' = Content("raw")
      BY <1>0, <2>2, <2>6 DEF Interrupt, Leave, TypeOK, Content
    <3>2. Image' = Image /\ Seen(l) = "idle" /\ Caller[p] = "asking"
      BY <1>0, <2>2, <2>3, <3>1, ImageNext, SeenFacts
    <3>3. QED
      BY <2>3, <3>2 DEF Refuses
  <2>7. CASE Ensure(p)
    <3>1. pc[p] \in Label \ Finished /\ l # "idle" /\ (l = "ok" => Stat(p) \/ Rename(p))
      BY <1>0, <2>2, <2>7 DEF TypeOK, Ensure, Stat, ExpectedSum, Get, Body, Verify, OpenGz, Gunzip,
                              RemoveGz, Rename, Leave, Goto, Label, Finished
    <3>2. Caller[p] = "asking"
      BY <2>3, <3>1, SeenFacts
    <3>3. CASE l = "ok"
      <4>1. CASE Stat(p)
        <5>1. Content("raw") # {} /\ Content("raw")' = Content("raw")
          BY <1>0, <2>2, <3>3, <4>1 DEF Stat, Goto, Leave, TypeOK, Content
        <5>2. Image' = Image /\ Image \in {"whole", "half"} /\ Seen(l) = "served"
          BY <3>3, <5>1, ImageFacts, ImageNext, SeenFacts
        <5>3. QED
          BY <2>3, <3>2, <5>2 DEF Serves
      <4>2. CASE Rename(p)
        <5>1. dir' = [dir EXCEPT !["raw"] = dir["tmp"], !["tmp"] = None] /\ UNCHANGED data
          BY <1>0, <2>2, <3>3, <4>2 DEF Rename, Leave, TypeOK
        <5>2. pc[p] = "rename" /\ CallInv(p) /\ EmptyInv(p) /\ dir'["raw"] = dir["tmp"]
          BY <1>0, <4>2, <5>1, NameFacts DEF Rename, IInv, TypeOK
        <5>3. Whole \subseteq Content("raw")' /\ Content("raw") = {}
          BY <5>1, <5>2 DEF CallInv, EmptyInv, Content, Finished
        <5>4. Image' = "whole" /\ Image = "absent" /\ Seen(l) = "served"
          BY <3>3, <5>3, ImageFacts, ImageNext, SeenFacts
        <5>5. QED
          BY <2>3, <3>2, <5>4 DEF Serves
      <4>3. QED
        BY <3>1, <3>3, <4>1, <4>2
    <3>4. CASE l = "error"
      <4>1. Image' = Image /\ Seen(l) = "refused"
        BY <1>0, <2>4, <3>4, ImageNext, SeenFacts
      <4>2. QED
        BY <2>3, <3>2, <4>1 DEF Refuses
    <3>5. CASE l \notin Finished
      <4>1. Image' = Image /\ Seen(l) = "asking" /\ Seen(pc[p]) = "asking"
        BY <1>0, <2>2, <2>4, <3>1, <3>5, ImageNext, SeenFacts DEF Finished
      <4>2. QED
        BY <2>3, <4>1 DEF Stutters
    <3>6. QED
      BY <3>1, <3>3, <3>4, <3>5 DEF Finished
  <2>8. QED
    BY <1>3, <2>5, <2>6, <2>7
<1>4. CASE PowerLoss
  <2>1. Content("raw")' \subseteq Content("raw")
    BY <1>4, LossStep
  <2>2. Image' \in IF Image = "absent" THEN {"absent"} ELSE {Image, "absent", "half"}
    BY <2>1, ImageNext
  <2>3. Caller' = [p \in Procs |-> "idle"]
    BY <1>4, SeenFacts DEF PowerLoss, Caller, Seen
  <2>4. QED
    BY <2>2, <2>3 DEF Loses
<1>5. CASE UNCHANGED vars
  BY <1>5 DEF vars, Stutters, Image, Half, Caller, Seen, Content
<1>6. QED
  BY <1>3, <1>4, <1>5 DEF Next

\* One process at a time, EnsureImage is the atomic cache: the image appears whole and
\* in one step, and whoever is handed its path is handed a whole image, or what a power
\* loss has left of one.
THEOREM AtomicProved == ASSUME OneCaller PROVE Spec => Atomic
<1>1. Init => Promise!Init
  <2> SUFFICES ASSUME Init PROVE Promise!Init
    OBVIOUS
  <2>1. Content("raw") = {}
    BY NameFacts DEF Init, Content
  <2>2. Image = "absent"
    BY <2>1, ImageFacts
  <2>3. Caller = [p \in Procs |-> "idle"]
    <3>1. \A p \in Procs : Seen(pc[p]) = "idle"
      BY SeenFacts DEF Init
    <3>2. QED
      BY <3>1 DEF Caller
  <2>4. QED
    BY <2>2, <2>3 DEF Promise!Init, Image, Half, Caller, Seen
<1>2. IInv /\ IInv' /\ [Next]_vars => [Promise!Next]_Promise!vars
  BY AtomicStep
<1>3. QED
  BY <1>1, <1>2, Invariance, PTL DEF Spec, Atomic, Promise!Spec
==============================================================================
