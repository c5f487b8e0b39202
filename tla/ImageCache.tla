----------------------------- MODULE ImageCache -----------------------------
(***************************************************************************)
(* EnsureImage (internal/qemu/image.go): a VM's disk image is downloaded   *)
(* to <raw>.gz.part, unpacked to <raw>.part and renamed to <raw>, in a     *)
(* cache directory every owlab process of the user shares. Files are       *)
(* names, inodes and open descriptors, because os.Create truncates the     *)
(* inode another process may be writing.                                   *)
(***************************************************************************)
EXTENDS Naturals, FiniteSets

CONSTANTS
  Procs,    \* owlab processes that want the same image
  Chunks,   \* how many writes the image takes, packed or unpacked
  Inodes    \* numbers, enough inodes for the names and the open descriptors

ASSUME CacheAssumption == /\ Procs # {} /\ IsFiniteSet(Procs)
                          /\ Chunks \in Nat \ {0}
                          /\ Inodes \subseteq Nat \ {0} /\ IsFiniteSet(Inodes)
                          /\ Cardinality(Inodes) >= 3 + 2 * Cardinality(Procs)

None == 0             \* no file of that name; no descriptor
Wrong == 0            \* bytes that are not the published image's

VARIABLES
  pc,        \* where each process is in EnsureImage
  dir,       \* the cache directory: gz, tmp and raw name inodes
  data,      \* what each inode holds: the chunks written, and Wrong
  out,       \* the descriptor each process writes to
  in,        \* the descriptor gunzip reads from
  pos,       \* chunks copied so far
  want,      \* a published checksum was found
  bad        \* the server sends bytes that are not the image's

vars == <<pc, dir, data, out, in, pos, want, bad>>

Name == {"gz", "tmp", "raw"}
Whole == 1..Chunks
Label == {"idle", "ok", "error", "stat", "sums", "get", "body", "verify", "open",
          "gunzip", "rmgz", "rename"}
Finished == {"idle", "ok", "error"}

TypeOK ==
  /\ pc \in [Procs -> Label]
  /\ dir \in [Name -> Inodes \cup {None}]
  /\ data \in [Inodes -> SUBSET (Whole \cup {Wrong})]
  /\ out \in [Procs -> Inodes \cup {None}] /\ in \in [Procs -> Inodes \cup {None}]
  /\ pos \in [Procs -> 0..Chunks]
  /\ want \in [Procs -> BOOLEAN] /\ bad \in [Procs -> BOOLEAN]

Init ==
  /\ pc = [p \in Procs |-> "idle"]
  /\ dir = [n \in Name |-> None]
  /\ data = [i \in Inodes |-> {}]
  /\ out = [p \in Procs |-> None] /\ in = [p \in Procs |-> None]
  /\ pos = [p \in Procs |-> 0]
  /\ want = [p \in Procs |-> FALSE] /\ bad = [p \in Procs |-> FALSE]

-----------------------------------------------------------------------------
(* The file system *)

Content(n) == IF dir[n] = None THEN {} ELSE data[dir[n]]

Free == {i \in Inodes : /\ \A n \in Name : dir[n] # i
                        /\ \A p \in Procs : out[p] # i /\ in[p] # i}

\* os.Create: an existing file is truncated under whoever has it open.
Create(p, n) ==
  LET i == IF dir[n] = None THEN CHOOSE f \in Free : TRUE ELSE dir[n]
  IN /\ dir' = [dir EXCEPT ![n] = i]
     /\ data' = [data EXCEPT ![i] = {}]
     /\ out' = [out EXCEPT ![p] = i]

Without(S) == [n \in Name |-> IF n \in S THEN None ELSE dir[n]]

\* A process that is at l from here on, with its descriptors closed.
Leave(p, l) ==
  /\ pc' = [pc EXCEPT ![p] = l]
  /\ out' = [out EXCEPT ![p] = None]
  /\ in' = [in EXCEPT ![p] = None]
  /\ pos' = [pos EXCEPT ![p] = 0]
  /\ want' = [want EXCEPT ![p] = FALSE]
  /\ bad' = [bad EXCEPT ![p] = FALSE]

Goto(p, l) == pc' = [pc EXCEPT ![p] = l]

-----------------------------------------------------------------------------
(* EnsureImage *)

Begin(p) ==
  /\ pc[p] \in Finished
  /\ Goto(p, "stat")
  /\ UNCHANGED <<dir, data, out, in, pos, want, bad>>

\* Mutant of Stat: a file of that name is the image, empty or not.
StatExists(p) ==
  /\ pc[p] = "stat"
  /\ IF dir["raw"] # None THEN Leave(p, "ok")
     ELSE Goto(p, "sums") /\ UNCHANGED <<out, in, pos, want, bad>>
  /\ UNCHANGED <<dir, data>>

\* A file of that name with something in it is the image.
Stat(p) ==
  /\ pc[p] = "stat"
  /\ IF Content("raw") # {} THEN Leave(p, "ok")
     ELSE Goto(p, "sums") /\ UNCHANGED <<out, in, pos, want, bad>>
  /\ UNCHANGED <<dir, data>>

\* No checksum is said out loud and is not fatal.
ExpectedSum(p) ==
  /\ pc[p] = "sums"
  /\ Goto(p, "get")
  /\ \E w \in BOOLEAN : want' = [want EXCEPT ![p] = w]
  /\ UNCHANGED <<dir, data, out, in, pos, bad>>

\* The response headers: an error, or a body that is the image's or is not.
Get(p) ==
  /\ pc[p] = "get"
  /\ \/ /\ Leave(p, "error")
        /\ dir' = Without({"gz"}) /\ UNCHANGED data
     \/ /\ Goto(p, "body")
        /\ Create(p, "gz")
        /\ \E b \in BOOLEAN : bad' = [bad EXCEPT ![p] = b]
        /\ UNCHANGED <<in, pos, want>>

\* Mutant of Body: a transfer that stalls is waited for.
BodyStalls(p) ==
  /\ pc[p] = "body"
  /\ \/ UNCHANGED vars
     \/ /\ pos[p] = Chunks
        /\ Goto(p, "verify")
        /\ UNCHANGED <<dir, data, out, in, pos, want, bad>>

\* io.Copy to the descriptor. A body that breaks off is an error; the part file
\* is removed by name.
Body(p) ==
  /\ pc[p] = "body"
  /\ \/ /\ pos[p] < Chunks
        /\ pos' = [pos EXCEPT ![p] = @ + 1]
        /\ data' = [data EXCEPT ![out[p]] =
             @ \cup {pos[p] + 1} \cup (IF bad[p] THEN {Wrong} ELSE {})]
        /\ UNCHANGED <<pc, dir, out, in, want, bad>>
     \/ /\ pos[p] = Chunks
        /\ Goto(p, "verify")
        /\ UNCHANGED <<dir, data, out, in, pos, want, bad>>
     \/ /\ Leave(p, "error")
        /\ dir' = Without({"gz"}) /\ UNCHANGED data

\* Mutant of Verify: the sum is computed and not compared.
VerifyNothing(p) ==
  /\ pc[p] = "verify"
  /\ Goto(p, "open")
  /\ out' = [out EXCEPT ![p] = None]
  /\ UNCHANGED <<dir, data, in, pos, want, bad>>

\* The sum is of the bytes received. Without a published one there is nothing
\* to compare.
Verify(p) ==
  /\ pc[p] = "verify"
  /\ IF want[p] /\ bad[p]
     THEN Leave(p, "error") /\ dir' = Without({"gz"}) /\ UNCHANGED data
     ELSE /\ Goto(p, "open")
          /\ out' = [out EXCEPT ![p] = None]
          /\ UNCHANGED <<dir, data, in, pos, want, bad>>

\* Mutant of OpenGz: it unpacks straight to the final name.
OpenInPlace(p) ==
  /\ pc[p] = "open"
  /\ \/ /\ 1 \in Content("gz")
        /\ Goto(p, "gunzip")
        /\ in' = [in EXCEPT ![p] = dir["gz"]]
        /\ Create(p, "raw")
        /\ pos' = [pos EXCEPT ![p] = 0]
        /\ UNCHANGED <<want, bad>>
     \/ /\ Leave(p, "error")
        /\ dir' = Without({"gz", "tmp"}) /\ UNCHANGED data

\* gunzip opens the part file by name, whoever wrote it last, and creates the
\* other; opening fails when the file is gone or has no gzip header.
OpenGz(p) ==
  /\ pc[p] = "open"
  /\ \/ /\ 1 \in Content("gz")
        /\ Goto(p, "gunzip")
        /\ in' = [in EXCEPT ![p] = dir["gz"]]
        /\ Create(p, "tmp")
        /\ pos' = [pos EXCEPT ![p] = 0]
        /\ UNCHANGED <<want, bad>>
     \/ /\ Leave(p, "error")
        /\ dir' = Without({"gz", "tmp"}) /\ UNCHANGED data

\* A chunk that is missing, cut off or fails the gzip checksum ends it; so does
\* a full disk. Wrong bytes may be a valid gzip of something else.
Gunzip(p) ==
  /\ pc[p] = "gunzip"
  /\ LET src == data[in[p]]
     IN \/ /\ pos[p] < Chunks /\ pos[p] + 1 \in src
           /\ pos' = [pos EXCEPT ![p] = @ + 1]
           /\ data' = [data EXCEPT ![out[p]] = @ \cup {pos[p] + 1} \cup (src \cap {Wrong})]
           /\ UNCHANGED <<pc, dir, out, in, want, bad>>
        \/ /\ pos[p] = Chunks
           /\ Goto(p, "rmgz")
           /\ out' = [out EXCEPT ![p] = None] /\ in' = [in EXCEPT ![p] = None]
           /\ UNCHANGED <<dir, data, pos, want, bad>>
        \/ /\ Leave(p, "error")
           /\ dir' = Without({"gz", "tmp"}) /\ UNCHANGED data

RemoveGz(p) ==
  /\ pc[p] = "rmgz"
  /\ Goto(p, "rename")
  /\ dir' = Without({"gz"})
  /\ UNCHANGED <<data, out, in, pos, want, bad>>

\* Rename takes whatever has the temporary name; nothing of that name, or a
\* file system that refuses, is an error.
Rename(p) ==
  /\ pc[p] = "rename"
  /\ \/ /\ dir["tmp"] # None
        /\ dir' = [dir EXCEPT !["raw"] = dir["tmp"], !["tmp"] = None]
        /\ Leave(p, "ok")
     \/ /\ Leave(p, "error")
        /\ UNCHANGED dir
  /\ UNCHANGED data

-----------------------------------------------------------------------------
(* Faults *)

\* The process dies; its descriptors close and its part files stay.
Interrupt(p) ==
  /\ pc[p] \notin Finished
  /\ Leave(p, "idle")
  /\ UNCHANGED <<dir, data>>

\* The host loses power: nothing is synced before the rename or after it, so any
\* part of any file may be gone, the cached image's too. A name that is gone as
\* well reads like an empty file.
PowerLoss ==
  /\ \E kept \in [Name -> SUBSET (Whole \cup {Wrong})] :
       data' = [i \in Inodes |->
                  {c \in data[i] : \A n \in Name : dir[n] = i => c \in kept[n]}]
  /\ pc' = [p \in Procs |-> "idle"]
  /\ out' = [p \in Procs |-> None] /\ in' = [p \in Procs |-> None]
  /\ pos' = [p \in Procs |-> 0]
  /\ want' = [p \in Procs |-> FALSE] /\ bad' = [p \in Procs |-> FALSE]
  /\ UNCHANGED dir

Ensure(p) ==
  Stat(p) \/ ExpectedSum(p) \/ Get(p) \/ Body(p) \/ Verify(p) \/ OpenGz(p)
    \/ Gunzip(p) \/ RemoveGz(p) \/ Rename(p)

Next ==
  \/ \E p \in Procs : Begin(p) \/ Ensure(p) \/ Interrupt(p)
  \/ PowerLoss

Spec == Init /\ [][Next]_vars

\* Every call of EnsureImage goes on: its network waits have timeouts.
FairSpec == Spec /\ \A p \in Procs : WF_vars(Ensure(p))

-----------------------------------------------------------------------------
(* Properties *)

\* A file that the next run would take for the image, and that is part of one.
Half == Content("raw") # {} /\ ~(Whole \subseteq Content("raw"))

\* No step of a call, and no death of one, leaves such a file (image.go 74: "an
\* interrupted run can never leave a half-written image"). Only a power loss
\* does, since nothing is synced, and the code does not notice it.
NeverHalf == [][~Half /\ Half' => PowerLoss]_vars

\* A caller whose download was compared with a published checksum never
\* publishes an image with other bytes in it, whatever part files it found.
ChecksumHolds ==
  [][\A p \in Procs : pc[p] = "rename" /\ pc'[p] = "ok" /\ want[p] =>
       Wrong \notin Content("raw")']_vars

\* Every call returns or is interrupted.
EnsureEnds == \A p \in Procs : pc[p] \notin Finished ~> pc[p] \in Finished

\* The cache as its callers see it: the image is there when Stat would take it,
\* and half of it when a power loss left that.
Promise == INSTANCE AtomicCache WITH
  image <- CASE Content("raw") = {} -> "absent" [] Half -> "half" [] OTHER -> "whole",
  caller <- [p \in Procs |->
               CASE pc[p] = "ok" -> "served"
                 [] pc[p] = "error" -> "refused"
                 [] pc[p] = "idle" -> "idle"
                 [] OTHER -> "asking"]

\* EnsureImage implements that promise.
Atomic == Promise!Spec
=============================================================================
