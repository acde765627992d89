----------------------------- MODULE UploadsProofs -----------------------------
(***************************************************************************)
(* Proofs about Uploads, for every number of clients, jobs, parts, blobs,  *)
(* workers and faults, and for every size.                                 *)
(*                                                                         *)
(* Chunks.  An upload is Sound: its lock has one holder, which works on    *)
(* what is on the disk, and what the record reports is there.  A clean-up  *)
(* under a request breaks that, and the upload is Torn for good: a part is *)
(* lost that every record reports, so that it is never sent again and the  *)
(* archive never whole, which is why it is installed at most once all the  *)
(* same.  Once ties the installations to the record and to its holders.    *)
(*                                                                         *)
(* Blobs.  As long as no transfer failed, a job's blobs are Covered: each  *)
(* part, each completion and each blob is done or still to come.  An open  *)
(* multipart upload is Owned by a job that goes on, or by one that is yet  *)
(* to abort it.                                                            *)
(*                                                                         *)
(* Builds.  Every artifact set that is kept anywhere IsDeclared: a file of *)
(* it was declared for the version and target, under the set's code.  The  *)
(* bytes may differ by then; only the last check of a tree ties them, and  *)
(* nobody may touch the tree from there to its release.                    *)
(***************************************************************************)
EXTENDS Uploads, TLAPS

-----------------------------------------------------------------------------
(* The parts of an object. *)

(* Division rounds down. *)
LEMMA DivFacts ==
    ASSUME NEW a \in Nat, NEW b \in Nat \ {0}
    PROVE  /\ a \div b \in Nat
           /\ b * (a \div b) <= a
           /\ a < b * (a \div b) + b
  OBVIOUS

(* CeilDiv(a, b) is the least number of steps of b that reach a. *)
LEMMA CeilDivFacts ==
    ASSUME NEW a \in Nat \ {0}, NEW b \in Nat \ {0}
    PROVE  /\ CeilDiv(a, b) \in Nat \ {0}
           /\ a <= b * CeilDiv(a, b)
           /\ b * (CeilDiv(a, b) - 1) < a
  <1> DEFINE n == a + b - 1
             q == n \div b
  <1>1. n \in Nat /\ n >= b
    OBVIOUS
  <1>2. q \in Nat /\ b * q <= n /\ n < b * q + b
    BY <1>1, DivFacts
  <1>3. q # 0
    BY <1>1, <1>2
  <1>4. b * (q - 1) = b * q - b
    BY <1>2
  <1>5. CeilDiv(a, b) = q
    BY DEF CeilDiv
  <1> HIDE DEF q
  <1> QED
    BY <1>2, <1>3, <1>4, <1>5

(* Products of naturals are monotone. *)
LEMMA TimesMonotone ==
    ASSUME NEW a \in Nat, NEW b \in Nat, NEW c \in Nat, b <= c
    PROVE  a * b <= a * c /\ b * a <= c * a
  OBVIOUS

(* A part size that needs no more than MaxParts parts cuts the object well: only
   the last part may be shorter, and it is not empty. *)
LEMMA CutsWellIfFew ==
    ASSUME NEW size \in 1 .. MaxPartSize, NEW total \in Nat \ {0},
           CeilDiv(total, size) <= MaxParts
    PROVE  CutsWell(size, total)
  <1> DEFINE n == CeilDiv(total, size)
  <1>s. size \in Nat \ {0}
    BY UploadsAssumption
  <1>1. n \in Nat \ {0} /\ total <= size * n /\ size * (n - 1) < total /\ n <= MaxParts
    BY <1>s, CeilDivFacts
  <1>2. partCount(size, total) = n
    BY DEF partCount
  <1> HIDE DEF n
  <1>3. n \in 1 .. MaxParts
    BY <1>1, UploadsAssumption
  <1>4. size * n = size * (n - 1) + size
    BY <1>s, <1>1
  <1>5. size * (n - 1) \in Int
    BY <1>s, <1>1
  <1>6. total - size * (n - 1) \in 1 .. size
    BY <1>s, <1>1, <1>4, <1>5
  <1>7. ASSUME NEW part \in 0 .. n - 1
        PROVE  /\ partLength(part, size, total) \in 1 .. size
               /\ part = n - 1 => size * part + partLength(part, size, total) = total
    <2>1. CASE part = n - 1
      <3>1. partLength(part, size, total) = total - size * (n - 1)
        BY <1>2, <2>1 DEF partLength
      <3> QED
        BY <1>5, <1>6, <2>1, <3>1
    <2>2. CASE part # n - 1
      BY <1>s, <1>2, <2>2 DEF partLength
    <2> QED
      BY <2>1, <2>2
  <1> QED
    BY <1>2, <1>3, <1>7 DEF CutsWell

(* Parts as wide as total over MaxParts, rounded up, or wider are few enough. *)
LEMMA WideIsFew ==
    ASSUME NEW total \in Nat \ {0}, NEW size \in Nat \ {0},
           CeilDiv(total, MaxParts) <= size
    PROVE  CeilDiv(total, size) <= MaxParts
  <1> DEFINE c == CeilDiv(total, MaxParts)
             n == CeilDiv(total, size)
  <1>m. MaxParts \in Nat \ {0}
    BY UploadsAssumption
  <1>1. c \in Nat \ {0} /\ total <= MaxParts * c
    BY <1>m, CeilDivFacts
  <1>2. n \in Nat \ {0} /\ size * (n - 1) < total
    BY CeilDivFacts
  <1>3. c <= size
    OBVIOUS
  <1> HIDE DEF c, n
  <1>4. SUFFICES ASSUME n > MaxParts PROVE FALSE
    BY <1>m, <1>2 DEF n
  <1>5. MaxParts * c <= MaxParts * size
    BY <1>m, <1>1, <1>3, TimesMonotone
  <1>6. MaxParts <= n - 1 /\ n - 1 \in Nat
    BY <1>m, <1>2, <1>4
  <1>7. size * MaxParts <= size * (n - 1)
    BY <1>m, <1>6, TimesMonotone
  <1>8. MaxParts * size = size * MaxParts
    BY <1>m
  <1>9. /\ MaxParts * c \in Nat /\ MaxParts * size \in Nat
        /\ size * (n - 1) \in Nat
    BY <1>m, <1>1, <1>6
  <1> QED
    BY <1>1, <1>2, <1>5, <1>7, <1>8, <1>9

(* If the widest parts are too many, the object is too large. *)
LEMMA TooLarge ==
    ASSUME NEW total \in Nat \ {0}, CeilDiv(total, MaxParts) > MaxPartSize
    PROVE  total > MaxParts * MaxPartSize
  <1> DEFINE c == CeilDiv(total, MaxParts)
  <1>m. MaxParts \in Nat \ {0} /\ MaxPartSize \in Nat
    BY UploadsAssumption
  <1>1. c \in Nat \ {0} /\ MaxParts * (c - 1) < total
    BY <1>m, CeilDivFacts
  <1>2. c > MaxPartSize
    OBVIOUS
  <1> HIDE DEF c
  <1>3. MaxPartSize <= c - 1 /\ c - 1 \in Nat
    BY <1>m, <1>1, <1>2
  <1>4. MaxParts * MaxPartSize <= MaxParts * (c - 1)
    BY <1>m, <1>3, TimesMonotone
  <1>5. MaxParts * MaxPartSize \in Nat /\ MaxParts * (c - 1) \in Nat
    BY <1>m, <1>3
  <1> QED
    BY <1>1, <1>4, <1>5

(* What resolvePartSize answers for a staged upload cuts the archive, and it refuses
   only archives that no allowed size would cut. *)
LEMMA ResolvedCuts ==
    ASSUME NEW total \in Nat \ {0}, NEW requested \in Nat
    PROVE  LET s == resolvePartSize(requested, total)
           IN  (s # 0 => CutsWell(s, total)) /\ CutsIfPossible(s, total)
  <1> DEFINE size == AtMost(AtMost(AtLeast(requested, MinPartSize), MaxPartSize), total)
             wider == CeilDiv(total, MaxParts)
             s == resolvePartSize(requested, total)
  <1>m. /\ MaxParts \in Nat \ {0} /\ MaxPartSize \in Nat \ {0}
        /\ MinPartSize \in Nat \ {0} /\ MinPartSize <= MaxPartSize
    BY UploadsAssumption
  <1>1. size \in 1 .. MaxPartSize
    BY <1>m DEF AtMost, AtLeast
  <1>2. wider \in Nat \ {0}
    BY <1>m, CeilDivFacts
  <1>3. s = IF CeilDiv(total, size) <= MaxParts THEN size
            ELSE IF wider > MaxPartSize THEN 0 ELSE wider
    BY DEF resolvePartSize
  <1> HIDE DEF size, s
  <1>4. CASE CeilDiv(total, size) <= MaxParts
    BY <1>1, <1>3, <1>4, CutsWellIfFew DEF s, CutsIfPossible
  <1>5. CASE ~(CeilDiv(total, size) <= MaxParts) /\ wider > MaxPartSize
    BY <1>3, <1>5, TooLarge DEF s, CutsIfPossible
  <1>6. CASE ~(CeilDiv(total, size) <= MaxParts) /\ ~(wider > MaxPartSize)
    <2>1. s = wider /\ wider \in 1 .. MaxPartSize
      BY <1>m, <1>2, <1>3, <1>6
    <2>2. CeilDiv(total, wider) <= MaxParts
      BY <1>2, WideIsFew
    <2>3. CutsWell(wider, total)
      BY <2>1, <2>2, CutsWellIfFew
    <2> QED
      BY <2>1, <2>3 DEF s, CutsIfPossible
  <1> QED
    BY <1>4, <1>5, <1>6

(* The same of casMultipartPlan, whose answers 0 and -1 are one request and a
   refusal. *)
LEMMA PlannedCuts ==
    ASSUME NEW total \in Nat \ {0}, NEW requested \in Nat
    PROVE  LET m == casMultipartPlan(requested, total)
           IN  (m > 0 => CutsWell(m, total)) /\ (m = -1 => CutsIfPossible(0, total))
  <1> DEFINE size == AtMost(AtLeast(requested, MinPartSize), MaxPartSize)
             wide == CeilDiv(total, MaxParts)
             wider == AtLeast(wide, MinPartSize)
             m == casMultipartPlan(requested, total)
  <1>m. /\ MaxParts \in Nat \ {0} /\ MaxPartSize \in Nat \ {0}
        /\ MinPartSize \in Nat \ {0} /\ MinPartSize <= MaxPartSize
    BY UploadsAssumption
  <1>1. size \in 1 .. MaxPartSize
    BY <1>m DEF AtMost, AtLeast
  <1>2. wide \in Nat \ {0}
    BY <1>m, CeilDivFacts
  <1>3. m = IF total <= size THEN 0
            ELSE IF CeilDiv(total, size) <= MaxParts THEN size
            ELSE IF wider > MaxPartSize THEN -1
            ELSE IF total <= wider THEN 0 ELSE wider
    BY DEF casMultipartPlan
  <1>4. wider \in Nat \ {0} /\ wide <= wider /\ (wider > MaxPartSize => wide > MaxPartSize)
    BY <1>m, <1>2 DEF AtLeast
  <1> HIDE DEF size, m, wider
  <1>5. CASE m = 0
    BY <1>5 DEF m
  <1>6. CASE m = size /\ CeilDiv(total, size) <= MaxParts
    BY <1>1, <1>6, CutsWellIfFew DEF m
  <1>7. CASE m = -1 /\ wider > MaxPartSize
    BY <1>4, <1>7, TooLarge DEF m, CutsIfPossible
  <1>8. CASE m = wider /\ wider <= MaxPartSize
    <2>1. CeilDiv(total, wider) <= MaxParts
      BY <1>4, WideIsFew
    <2>2. wider \in 1 .. MaxPartSize
      BY <1>m, <1>4, <1>8
    <2>3. CutsWell(wider, total)
      BY <2>1, <2>2, CutsWellIfFew
    <2> QED
      BY <1>4, <1>8, <2>3 DEF m
  <1> QED
    BY <1>m, <1>3, <1>4, <1>5, <1>6, <1>7, <1>8

-----------------------------------------------------------------------------
(* Staged uploads: the invariant. *)

Pcs == {"new", "create", "parts", "sending", "stored", "assemble", "install", "finish", "done"}

Dirs == [dir : BOOLEAN, rec : Chunks!Record \cup {None},
         files : [Parts -> Chunks!Bodies \cup {None}]]

Requests == [pc : Pcs, id : Ids \cup {None}, lock : Nat, part : Parts \cup {None},
             body : Chunks!Bodies \cup {None}, todo : SUBSET Parts, again : BOOLEAN,
             rec : Chunks!Record \cup {None}]

Speaks(k) ==
    /\ k.pc \in Chunks!Holding \cup {"parts", "sending"} => k.id \in Ids
    /\ k.pc \in {"sending", "stored"} => k.part \in Parts /\ k.body \in Chunks!Bodies
    /\ k.pc \in Chunks!Holding => k.rec \in Chunks!Record

ChunkTypes ==
    /\ upload \in [Ids -> Dirs]
    /\ lockOf \in [Ids -> Nat]
    /\ client \in [Clients -> Requests]
    /\ \A c \in Clients : Speaks(client[c])
    /\ now \in Nat
    /\ installs \in [Ids -> Nat]

Holds(c, id) == client[c].id = id /\ client[c].pc \in Chunks!Holding

(* A holder works on what is on the disk. *)
UpToDate(k, id) ==
    /\ k.lock = lockOf[id]
    /\ k.rec = upload[id].rec
    /\ k.pc = "stored" => upload[id].files[k.part] = k.body
    /\ k.pc # "stored" => /\ k.rec.status = "completing"
                          /\ \A p \in Parts : k.rec.parts[p] # None

(* An upload that no request lost: the lock has one holder, and what the record
   reports is there. *)
Sound(id) ==
    /\ \A c \in Clients : Holds(c, id) => UpToDate(client[c], id)
    /\ \A c, d \in Clients : Holds(c, id) /\ Holds(d, id) => c = d
    /\ \A c \in Clients :
          client[c].id = id /\ client[c].pc = "sending" /\ upload[id].rec # None =>
              client[c].lock = lockOf[id]
    /\ \A p \in Parts :
          upload[id].rec # None /\ upload[id].rec.parts[p] # None =>
              upload[id].files[p] = upload[id].rec.parts[p]

(* What a holder may write back reports p. *)
Carries(k, p) ==
    /\ k.pc = "stored" => k.part = p \/ k.rec.parts[p] # None
    /\ k.pc \in {"assemble", "install"} => k.rec.parts[p] # None

(* An upload that was removed under a request: a part is lost that every record
   reports, so it is never sent again and the archive is never whole. *)
Torn(id) ==
    /\ \E p \in Parts :
          /\ upload[id].files[p] = None
          /\ upload[id].rec # None => upload[id].rec.parts[p] # None
          /\ \A c \in Clients : Holds(c, id) => Carries(client[c], p)
    /\ \A c \in Clients : Holds(c, id) /\ client[c].pc = "install" =>
          /\ upload[id].rec = None
          /\ \A d \in Clients : Holds(d, id) => d = c

Once(id) ==
    /\ installs[id] <= 1
    /\ upload[id].rec # None /\ installs[id] # 0 => upload[id].rec.status = "completing"
    /\ \A c \in Clients : Holds(c, id) /\ client[c].pc # "finish" => installs[id] = 0

UploadInv(id) ==
    /\ id \notin cut => Sound(id)
    /\ id \in cut => Torn(id)
    /\ Once(id)

ChunkInv == ChunkTypes /\ \A id \in Ids : UploadInv(id)

-----------------------------------------------------------------------------
(* Uploads of blobs: the invariant. *)

Sessions == [blob : Blobs, parts : SUBSET Parts]

Transfers == [blob : Blobs, part : Parts \cup {"whole", "complete"}, try : Nat]

Jobs == [pc : {"new", "asking", "upload", "abort", "uploaded", "failed", "published"},
         left : SUBSET Blobs, id : [Large -> Ids \cup {None}], work : SUBSET Transfers,
         flight : SUBSET Transfers, etags : [Large -> SUBSET Parts],
         completed : SUBSET Large, failed : BOOLEAN]

BlobTypes ==
    /\ session \in [Ids -> Sessions \cup {None}]
    /\ job \in [Clients -> Jobs]

(* An identifier belongs to one blob of one job. *)
IdsDiffer ==
    \A c, d \in Clients, a, b \in Large :
        job[c].id[a] # None /\ job[c].id[a] = job[d].id[b] => c = d /\ a = b

Active(j) == j.pc \in {"asking", "upload"}

(* The job has asked for nothing but what it goes on to transfer. *)
Asked(j) ==
    /\ j.pc = "asking" => /\ j.flight = {} /\ ~j.failed /\ j.completed = {}
                          /\ \A b \in Large : j.etags[b] = {}
                          /\ \A b \in Large : b \in j.left => j.id[b] = None
                          /\ \A t \in j.work : t.blob \notin j.left
    /\ j.pc = "upload" => j.left = {}
    /\ j.pc = "abort" => j.left \subseteq Large

(* One transfer per part, none for a part whose ETag is there, and a multipart
   upload is open until its parts are there. *)
Transfer(j) ==
    /\ j.work \cap j.flight = {}
    /\ \A t, u \in j.work \cup j.flight :
          t.blob = u.blob /\ t.part = u.part => t = u
    /\ \A t \in j.work \cup j.flight :
          /\ t.part = "whole" => t.blob \notin Large
          /\ t.part # "whole" => t.blob \in Large /\ j.id[t.blob] # None
          /\ t.part \in Parts => /\ t.part \notin j.etags[t.blob]
                                 /\ session[j.id[t.blob]] # None
          /\ t.part = "complete" => j.etags[t.blob] = Parts

(* What was completed is not open any more. *)
Completed(j) ==
    \A b \in j.completed : /\ j.id[b] # None /\ session[j.id[b]] = None
                            /\ j.etags[b] = Parts
                            /\ b \in object \cup swept

(* Unless a transfer failed, every part and every completion is still to come or
   done, and so is every blob. *)
Covered(j, needs) ==
    ~j.failed =>
        /\ \A b \in Large : j.id[b] # None =>
              /\ \A p \in Parts : p \in j.etags[b] \/
                    \E t \in j.work \cup j.flight : t.blob = b /\ t.part = p
              /\ j.etags[b] = Parts => b \in j.completed \/
                    \E t \in j.work \cup j.flight : t.blob = b /\ t.part = "complete"
        /\ \A b \in needs : b \in j.left \cup object \cup swept \/
              \E t \in j.work \cup j.flight : t.blob = b

JobInv(c) ==
    /\ Asked(job[c])
    /\ Active(job[c]) => Transfer(job[c]) /\ Completed(job[c]) /\ Covered(job[c], Needs[c])
    /\ job[c].pc = "uploaded" => Needs[c] \subseteq object \cup swept

(* A multipart upload that is open is in the hands of its job. *)
Owned(i) ==
    \E c \in Clients, b \in Large :
        /\ job[c].id[b] = i
        /\ Active(job[c]) \/ (job[c].pc = "abort" /\ b \in job[c].left)

BlobInv ==
    /\ BlobTypes /\ IdsDiffer
    /\ \A c \in Clients : JobInv(c)
    /\ \A i \in Ids \ forsaken : session[i] # None => Owned(i)

(* The build of a release: an artifact set holds what was declared for its version. *)

BuildPcs == {"new", "ready", "produce", "produced", "merge", "stage", "copy", "rename",
             "staged", "checked", "sound", "failed", "done"}

Runs == [pc : BuildPcs, code : Nat, at : Targets \cup {Build!Merged, None},
         build : Build!Builds \cup {None}, set : Build!Sets \cup {None},
         files : Build!Files, apply : [Targets -> Build!Formats]]

BuildTypes ==
    /\ counter \in Nat /\ shelf \in Nat /\ built \in Nat
    /\ out \in [Build!Places -> [file : Build!Builds \cup {None}, set : Build!Sets \cup {None}]]
    /\ producers \subseteq [at : Build!Places, build : Build!Builds]
    /\ declared \in [Build!Builds -> Build!Declarations \cup {None}]
    /\ bundle \in [Build!Versions -> Build!Sets \cup {None}]
    /\ tree \in [Build!Versions -> Build!Trees \cup {None}]
    /\ run \in [Clients -> Runs]
    /\ released \subseteq [by : Clients, v : Build!Versions, tree : Build!Trees]

(* The files of a set were declared for the version, each for its target. *)
IsDeclared(v, s) ==
    \A t \in Targets :
        s.of[t] # None => declared[s.of[t]] = [at |-> <<v, t>>, code |-> s.code]

(* So are those of all the sets that are kept; nothing is declared before it is built. *)
Kept ==
    /\ \A v \in Build!Versions, t \in Targets :
          out[<<v, t>>].set # None => IsDeclared(v, out[<<v, t>>].set)
    /\ \A v \in Build!Versions : bundle[v] # None => IsDeclared(v, bundle[v])
    /\ \A v \in Build!Versions : tree[v] # None =>
          IsDeclared(v, tree[v].set) /\ tree[v].code = tree[v].set.code
    /\ \A b \in Build!Builds : b > built => declared[b] = None

(* A command works on declared sets, and a strict one on sets with its own code; from
   the time its tree is staged until it is released it is there. *)
Works(r, j) ==
    /\ j.pc \notin {"new", "failed", "done"} => j.code <= counter
    /\ j.pc = "produce" =>
          /\ j.at \in Targets /\ j.build \in Build!Builds
          /\ j.build <= built /\ declared[j.build] = None
    /\ j.pc = "produced" => j.at \in Targets
    /\ j.pc \in {"produced", "merge", "stage", "copy", "rename"} =>
          j.set \in Build!Sets /\ IsDeclared(VersionOf[r], j.set)
    /\ r \in Strict /\ j.pc \in {"stage", "copy", "rename"} => j.set.code = j.code
    /\ j.pc \in {"staged", "checked", "sound"} =>
          /\ tree[VersionOf[r]] # None
          /\ r \in Strict => tree[VersionOf[r]].code = j.code
    /\ j.pc = "sound" => Build!VerifyStagedHashes(tree[VersionOf[r]])

(* No two pipelines have a code or a build in common. *)
RunsDiffer ==
    \A r, q \in Clients : r # q /\ Build!Active(r) /\ Build!Active(q) =>
        /\ run[r].code # run[q].code
        /\ run[r].pc = "produce" /\ run[q].pc = "produce" => run[r].build # run[q].build

(* What was released is as declared, and its code is no pipeline's any more. *)
Shipped ==
    /\ \A p \in released :
          /\ IsDeclared(p.v, p.tree.set) /\ p.tree.code = p.tree.set.code
          /\ Build!VerifyStagedHashes(p.tree)
          /\ p.by \in Strict =>
                /\ p.tree.code <= counter
                /\ \A r \in Clients : Build!Active(r) => run[r].code # p.tree.code
    /\ Build!CodeNamesOneRelease

BuildInv ==
    BuildTypes /\ Kept /\ (\A r \in Clients : Works(r, run[r])) /\ RunsDiffer /\ Shipped

IInv == ChunkInv /\ (way = "blobs" => BlobInv) /\ BuildInv

-----------------------------------------------------------------------------
(* Staged uploads: steps. *)

(* The request of one client changes. *)
LEMMA ClientTypes ==
    ASSUME ChunkTypes, NEW c \in Clients, NEW to \in Requests, Speaks(to),
           client' = [client EXCEPT ![c] = to],
           upload' \in [Ids -> Dirs], lockOf' \in [Ids -> Nat], now' \in Nat,
           installs' \in [Ids -> Nat]
    PROVE  ChunkTypes'
  BY DEF ChunkTypes

(* An upload that the step does not touch, unless requests let go of it. *)
LEMMA UploadIsLeft ==
    ASSUME NEW id \in Ids, UploadInv(id),
           upload'[id] = upload[id], lockOf'[id] = lockOf[id], installs'[id] = installs[id],
           id \in cut' <=> id \in cut,
           \A c \in Clients :
               \/ client'[c] = client[c]
               \/ client'[c].id # id
               \/ client'[c].pc \notin Chunks!Holding \cup {"sending"}
    PROVE  UploadInv(id)'
  <1>1. \A c \in Clients : Holds(c, id)' => Holds(c, id) /\ client'[c] = client[c]
    BY DEF Holds
  <1>2. CASE id \notin cut
    <2>1. Sound(id)
      BY <1>2 DEF UploadInv
    <2>2. Sound(id)'
      BY <1>1, <2>1 DEF Sound, UpToDate
    <2> QED
      BY <1>1, <1>2, <2>2 DEF UploadInv, Once
  <1>3. CASE id \in cut
    <2>1. Torn(id)
      BY <1>3 DEF UploadInv
    <2>2. Torn(id)'
      BY <1>1, <2>1 DEF Torn, Carries
    <2> QED
      BY <1>1, <1>3, <2>2 DEF UploadInv, Once
  <1> QED
    BY <1>2, <1>3

(* Uploads are removed under nobody's lock. *)
LEMMA DropKeeps ==
    ASSUME ChunkInv, NEW ids, Chunks!Drop(ids), UNCHANGED installs,
           \A c \in Clients :
               \/ client'[c] = client[c]
               \/ client'[c].pc \notin Chunks!Holding \cup {"sending"}
    PROVE  /\ \A id \in Ids : UploadInv(id)'
           /\ upload' \in [Ids -> Dirs] /\ lockOf' \in [Ids -> Nat]
  <1>g. Chunks!Gone \in Dirs /\ Chunks!Gone.rec = None
        /\ \A p \in Parts : Chunks!Gone.files[p] = None
    BY DEF Chunks!Gone, Chunks!NoFiles, Dirs
  <1>t. upload' \in [Ids -> Dirs] /\ lockOf' \in [Ids -> Nat]
    BY <1>g DEF Chunks!Drop, Chunks!Without, ChunkInv, ChunkTypes
  <1>1. ASSUME NEW id \in Ids
        PROVE  UploadInv(id)'
    <2>i. UploadInv(id)
      BY DEF ChunkInv
    <2>1. CASE id \notin ids
      <3>1. upload'[id] = upload[id] /\ lockOf'[id] = lockOf[id]
        BY <2>1 DEF Chunks!Drop, Chunks!Without
      <3>2. id \in cut' <=> id \in cut
        BY <2>1 DEF Chunks!Drop
      <3> QED
        BY <2>i, <3>1, <3>2, UploadIsLeft
    <2>2. CASE id \in ids
      <3>1. upload'[id] = Chunks!Gone
        BY <2>2 DEF Chunks!Drop, Chunks!Without
      <3>2. \A c \in Clients : Holds(c, id)' => Holds(c, id) /\ client'[c] = client[c]
        BY DEF Holds
      <3>3. Once(id)'
        BY <1>g, <2>i, <3>1, <3>2 DEF UploadInv, Once
      <3>4. CASE id \notin cut'
        <4>1. \A c \in Clients : client[c].id = id =>
                  client[c].pc \notin Chunks!Holding \cup {"sending"}
          BY <2>2, <3>4 DEF Chunks!Drop, Chunks!Working
        <4>2. \A c \in Clients : client'[c].id = id =>
                  client'[c].pc \notin Chunks!Holding \cup {"sending"}
          BY <4>1
        <4>3. Sound(id)'
          BY <1>g, <3>1, <4>2 DEF Sound, Holds
        <4> QED
          BY <3>3, <3>4, <4>3 DEF UploadInv
      <3>5. CASE id \in cut'
        <4>1. CASE id \in cut
          BY <1>g, <2>i, <3>1, <3>2, <3>3, <3>5, <4>1 DEF UploadInv, Torn, Carries
        <4>2. CASE id \notin cut
          <5>1. Sound(id)
            BY <2>i, <4>2 DEF UploadInv
          <5>2. \A c, d \in Clients : Holds(c, id)' /\ Holds(d, id)' => c = d
            BY <3>2, <5>1 DEF Sound
          <5>3. PICK p \in Parts : \A c \in Clients :
                    Holds(c, id)' /\ client'[c].pc = "stored" => client'[c].part = p
            <6>1. CASE \E c \in Clients : Holds(c, id)' /\ client'[c].pc = "stored"
              <7>1. PICK c \in Clients : Holds(c, id)' /\ client'[c].pc = "stored"
                BY <6>1
              <7>2. client'[c].part \in Parts
                BY <3>2, <7>1 DEF ChunkInv, ChunkTypes, Speaks
              <7> QED
                BY <5>2, <7>1, <7>2
            <6>2. CASE ~\E c \in Clients : Holds(c, id)' /\ client'[c].pc = "stored"
              BY <6>2, UploadsAssumption
            <6> QED
              BY <6>1, <6>2
          <5>4. \A c \in Clients : Holds(c, id)' => Carries(client[c], p)'
            BY <3>2, <5>1, <5>3 DEF Sound, UpToDate, Carries
          <5>5. Torn(id)'
            BY <1>g, <3>1, <5>2, <5>4 DEF Torn
          <5> QED
            BY <3>3, <3>5, <5>5 DEF UploadInv
        <4> QED
          BY <4>1, <4>2
      <3> QED
        BY <3>4, <3>5
    <2> QED
      BY <2>1, <2>2
  <1> QED
    BY <1>1, <1>t

(* A request that ends, whether or not uploads are removed. *)
LEMMA RequestEnds ==
    ASSUME ChunkInv, NEW c \in Clients, NEW to \in Requests, Speaks(to),
           to.pc \notin Chunks!Holding \cup {"sending"},
           Chunks!Go(c, to), UNCHANGED <<now, installs>>,
           Chunks!Kept \/ \E ids : Chunks!Drop(ids)
    PROVE  ChunkInv'
  <1>t. ChunkTypes
    BY DEF ChunkInv
  <1>1. client' = [client EXCEPT ![c] = to] /\ client \in [Clients -> Requests]
    BY <1>t DEF Chunks!Go, ChunkTypes
  <1>2. \A d \in Clients : \/ client'[d] = client[d]
                          \/ client'[d].pc \notin Chunks!Holding \cup {"sending"}
    BY <1>1
  <1>3. CASE Chunks!Kept
    <2>1. UNCHANGED <<upload, lockOf, cut, installs>>
      BY <1>3 DEF Chunks!Kept
    <2>2. ASSUME NEW id \in Ids
          PROVE  UploadInv(id)'
      <3>1. UploadInv(id) /\ upload'[id] = upload[id] /\ lockOf'[id] = lockOf[id]
            /\ installs'[id] = installs[id] /\ (id \in cut' <=> id \in cut)
        BY <2>1 DEF ChunkInv
      <3> QED
        BY <1>2, <3>1, UploadIsLeft
    <2>3. ChunkTypes'
      BY <1>t, <1>1, <2>1, ClientTypes DEF ChunkTypes
    <2> QED
      BY <2>2, <2>3 DEF ChunkInv
  <1>4. ASSUME NEW ids, Chunks!Drop(ids)
        PROVE  ChunkInv'
    <2>1. /\ \A id \in Ids : UploadInv(id)'
          /\ upload' \in [Ids -> Dirs] /\ lockOf' \in [Ids -> Nat]
      BY <1>2, <1>4, DropKeeps
    <2>2. ChunkTypes'
      BY <1>t, <1>1, <2>1, ClientTypes DEF ChunkTypes
    <2> QED
      BY <2>1, <2>2 DEF ChunkInv
  <1> QED
    BY <1>3, <1>4

(* A request touches one upload only. *)
LEMMA RequestMoves ==
    ASSUME ChunkInv, NEW c \in Clients, NEW to \in Requests, Speaks(to),
           NEW id \in Ids,
           Chunks!Go(c, to),
           to.id = id \/ to.pc \notin Chunks!Holding \cup {"sending"},
           upload' \in [Ids -> Dirs], lockOf' \in [Ids -> Nat],
           installs' \in [Ids -> Nat], now' = now,
           \A j \in Ids \ {id} :
               /\ upload'[j] = upload[j] /\ lockOf'[j] = lockOf[j]
               /\ installs'[j] = installs[j] /\ (j \in cut' <=> j \in cut),
           UploadInv(id)'
    PROVE  ChunkInv'
  <1>t. ChunkTypes
    BY DEF ChunkInv
  <1>1. client' = [client EXCEPT ![c] = to] /\ client \in [Clients -> Requests]
    BY <1>t DEF Chunks!Go, ChunkTypes
  <1>2. ChunkTypes'
    BY <1>t, <1>1, ClientTypes DEF ChunkTypes
  <1>3. ASSUME NEW j \in Ids \ {id}
        PROVE  UploadInv(j)'
    <2>1. UploadInv(j)
      BY DEF ChunkInv
    <2>2. \A d \in Clients : \/ client'[d] = client[d]
                            \/ client'[d].id # j
                            \/ client'[d].pc \notin Chunks!Holding \cup {"sending"}
      BY <1>1
    <2> QED
      BY <2>1, <2>2, UploadIsLeft
  <1> QED
    BY <1>2, <1>3 DEF ChunkInv

(* A client that continues an upload. *)
LEMMA ResumeTypes ==
    ASSUME NEW c \in Clients, NEW id \in Ids
    PROVE  /\ Chunks!Resume(c, id) \in Requests /\ Speaks(Chunks!Resume(c, id))
           /\ Chunks!Resume(c, id).pc = "parts"
           /\ [Chunks!Resume(c, id) EXCEPT !.again = TRUE] \in Requests
           /\ Speaks([Chunks!Resume(c, id) EXCEPT !.again = TRUE])
           /\ [Chunks!Resume(c, id) EXCEPT !.again = TRUE].pc = "parts"
  BY DEF Chunks!Resume, Chunks!At, Requests, Pcs, Speaks, Chunks!Holding

(* A request that begins anew, or is over, holds no lock. *)
LEMMA AtSpeaks ==
    ASSUME NEW pc \in {"new", "create", "done"}
    PROVE  /\ Chunks!At(pc) \in Requests /\ Speaks(Chunks!At(pc))
           /\ Chunks!At(pc).pc = pc
           /\ Chunks!At(pc).pc \notin Chunks!Holding \cup {"sending"}
  BY DEF Chunks!At, Requests, Pcs, Speaks, Chunks!Holding

(* An open upload of the archive is found and resumed, or none is. *)
LEMMA FindStep ==
    ASSUME ChunkInv, NEW c \in Clients, Chunks!Find(c)
    PROVE  ChunkInv'
  <1>1. UNCHANGED <<now, installs>> /\ \E ids : Chunks!Drop(ids)
    BY DEF Chunks!Find
  <1>2. CASE Chunks!Go(c, Chunks!At("create"))
    BY <1>1, <1>2, AtSpeaks, RequestEnds
  <1>3. ASSUME NEW id \in Ids, Chunks!Go(c, Chunks!Resume(c, id))
        PROVE  ChunkInv'
    <2>1. "parts" \notin Chunks!Holding \cup {"sending"}
      BY DEF Chunks!Holding
    <2> QED
      BY <1>1, <1>3, <2>1, ResumeTypes, RequestEnds
  <1> QED
    BY <1>2, <1>3 DEF Chunks!Find

(* The upload is gone: the client begins anew. *)
LEMMA NotFoundStep ==
    ASSUME ChunkInv, NEW c \in Clients, NEW id, Chunks!NotFound(c, id),
           UNCHANGED <<now, installs>>
    PROVE  ChunkInv'
  <1>1. \E ids : Chunks!Drop(ids)
    BY DEF Chunks!NotFound
  <1>2. Chunks!Go(c, Chunks!At("new"))
    BY DEF Chunks!NotFound
  <1> QED
    BY <1>1, <1>2, AtSpeaks, RequestEnds

(* An upload is opened under an identifier that no request knows. *)
LEMMA CreateStep ==
    ASSUME ChunkInv, NEW c \in Clients, Chunks!Create(c)
    PROVE  ChunkInv'
  <1>1. PICK id \in Ids : id = CHOOSE i \in Chunks!FreeIds : TRUE
    BY DEF Chunks!Create, Chunks!FreeIds
  <1>2. \A d \in Clients : client[d].id # id
    BY <1>1 DEF Chunks!Create, Chunks!FreeIds
  <1> DEFINE dir == [dir |-> TRUE, files |-> Chunks!NoFiles,
                     rec |-> [archive |-> Archive[c], status |-> "open", created |-> now,
                              parts |-> Chunks!NoFiles]]
             to == [Chunks!At("parts") EXCEPT !.id = id, !.todo = Parts]
  <1>3. dir \in Dirs
    BY UploadsAssumption DEF ChunkInv, ChunkTypes, Dirs, Chunks!Record, Chunks!NoFiles
  <1>4. /\ upload' = [upload EXCEPT ![id] = dir] /\ Chunks!Go(c, to)
        /\ lockOf' = [lockOf EXCEPT ![id] = 0]
        /\ cut' = cut \ {id} /\ installs' = [installs EXCEPT ![id] = 0]
        /\ now' = now
    BY <1>1 DEF Chunks!Create
  <1>5. \A p \in Parts : dir.rec.parts[p] = None /\ dir.files[p] = None
    BY DEF Chunks!NoFiles
  <1>6. dir.rec.status = "open"
    OBVIOUS
  <1>h. to \in Requests /\ Speaks(to) /\ to.pc = "parts" /\ to.id = id
    BY DEF Chunks!At, Requests, Pcs, Speaks, Chunks!Holding
  <1> HIDE DEF dir, to
  <1>7. /\ upload \in [Ids -> Dirs] /\ lockOf \in [Ids -> Nat] /\ installs \in [Ids -> Nat]
        /\ client \in [Clients -> Requests]
    BY DEF ChunkInv, ChunkTypes
  <1>p. "parts" \notin Chunks!Holding \cup {"sending"}
    BY DEF Chunks!Holding
  <1>8. UploadInv(id)'
    <2>1. \A d \in Clients : client'[d].id = id =>
              client'[d].pc \notin Chunks!Holding \cup {"sending"}
      BY <1>2, <1>4, <1>7, <1>h DEF Chunks!Go, Holds, Chunks!Holding
    <2>2. upload'[id] = dir /\ installs'[id] = 0 /\ id \notin cut'
      BY <1>2, <1>4, <1>7
    <2>3. Sound(id)'
      BY <1>5, <2>1, <2>2 DEF Sound, Holds
    <2> QED
      BY <2>1, <2>2, <2>3 DEF UploadInv, Once, Holds
  <1>9. /\ upload' \in [Ids -> Dirs] /\ lockOf' \in [Ids -> Nat] /\ installs' \in [Ids -> Nat]
    BY <1>3, <1>4, <1>7
  <1>10. \A j \in Ids \ {id} :
            /\ upload'[j] = upload[j] /\ lockOf'[j] = lockOf[j]
            /\ installs'[j] = installs[j] /\ (j \in cut' <=> j \in cut)
    BY <1>4, <1>7
  <1> QED
    BY <1>4, <1>8, <1>9, <1>10, <1>h, <1>p, RequestMoves

(* Facts of None that the steps need. *)
LEMMA NoneFacts == None \notin Chunks!Bodies /\ None \notin Chunks!Record
  BY NoneAssumption DEF Chunks!Bodies, Chunks!Record

(* A body is received: the request is engaged, but holds nothing yet. *)
LEMMA SendPartStep ==
    ASSUME ChunkInv, NEW c \in Clients, Chunks!SendPart(c)
    PROVE  ChunkInv'
  <1> DEFINE id == client[c].id
  <1>t. /\ upload \in [Ids -> Dirs] /\ lockOf \in [Ids -> Nat] /\ installs \in [Ids -> Nat]
        /\ client \in [Clients -> Requests] /\ Speaks(client[c])
    BY DEF ChunkInv, ChunkTypes
  <1>u. UNCHANGED <<now, installs>>
    BY DEF Chunks!SendPart
  <1>1. CASE Chunks!NotFound(c, id)
    BY <1>1, <1>u, NotFoundStep
  <1>2. ASSUME NEW p \in client[c].todo, NEW body \in Chunks!Bodies, Chunks!Kept,
               Chunks!Go(c, [client[c] EXCEPT !.pc = "sending", !.part = p, !.body = body,
                                              !.lock = lockOf[id]]),
               client[c].pc = "parts"
        PROVE  ChunkInv'
    <2>1. PICK i \in Ids : i = client[c].id
      BY <1>t, <1>2 DEF Speaks
    <2>2. PICK to : to = [client[c] EXCEPT !.pc = "sending", !.part = p, !.body = body,
                                           !.lock = lockOf[i]]
      OBVIOUS
    <2>3. /\ to \in Requests /\ Speaks(to) /\ to.id = i /\ to.pc = "sending"
          /\ to.lock = lockOf[i]
      BY <1>t, <1>2, <2>1, <2>2 DEF Requests, Speaks, Pcs, Chunks!Holding
    <2>4. Chunks!Go(c, to) /\ client' = [client EXCEPT ![c] = to]
      BY <1>2, <2>1, <2>2 DEF Chunks!Go
    <2>5. UNCHANGED <<upload, lockOf, cut>>
      BY <1>2 DEF Chunks!Kept
    <2>6. UploadInv(i)'
      <3>1. \A d \in Clients : Holds(d, i)' => Holds(d, i) /\ client'[d] = client[d]
        BY <1>t, <2>3, <2>4 DEF Holds, Chunks!Holding
      <3>2. UploadInv(i)
        BY DEF ChunkInv
      <3>3. Sound(i) => Sound(i)'
        BY <1>t, <2>3, <2>4, <2>5, <3>1 DEF Sound, UpToDate
      <3>4. Torn(i) => Torn(i)'
        BY <2>5, <3>1 DEF Torn, Carries
      <3> QED
        BY <1>u, <2>5, <3>1, <3>2, <3>3, <3>4 DEF UploadInv, Once
    <2>7. /\ upload' \in [Ids -> Dirs] /\ lockOf' \in [Ids -> Nat]
          /\ installs' \in [Ids -> Nat] /\ now' = now
      BY <1>t, <1>u, <2>5
    <2>8. \A j \in Ids \ {i} :
             /\ upload'[j] = upload[j] /\ lockOf'[j] = lockOf[j]
             /\ installs'[j] = installs[j] /\ (j \in cut' <=> j \in cut)
      BY <1>u, <2>5
    <2> QED
      BY <2>3, <2>4, <2>6, <2>7, <2>8, RequestMoves
  <1> QED
    BY <1>1, <1>2 DEF Chunks!SendPart

(* The part is renamed into place under the lock, if the record lacks it. *)
LEMMA StorePartStep ==
    ASSUME ChunkInv, NEW c \in Clients, Chunks!StorePart(c)
    PROVE  ChunkInv'
  <1>t. /\ upload \in [Ids -> Dirs] /\ lockOf \in [Ids -> Nat] /\ installs \in [Ids -> Nat]
        /\ client \in [Clients -> Requests] /\ Speaks(client[c])
    BY DEF ChunkInv, ChunkTypes
  <1>u. UNCHANGED <<now, installs>>
    BY DEF Chunks!StorePart
  <1>1. PICK k \in Requests : k = client[c]
    BY <1>t
  <1>2. PICK id \in Ids : id = client[c].id
    BY <1>t DEF Speaks, Chunks!StorePart
  <1>k. /\ k.id = id /\ k.pc = "sending" /\ k.part \in Parts /\ k.body \in Chunks!Bodies
        /\ ~Chunks!Locked(c)
    BY <1>t, <1>1, <1>2 DEF Speaks, Chunks!StorePart
  <1>3. CASE Chunks!NotFound(c, id)
    BY <1>3, <1>u, NotFoundStep
  <1>4. CASE /\ Chunks!Kept
             /\ Chunks!Go(c, IF upload[id].rec.parts[k.part] = k.body
                             THEN [k EXCEPT !.pc = "parts", !.todo = @ \ {k.part}]
                             ELSE Chunks!At("new"))
    <2>1. CASE upload[id].rec.parts[k.part] = k.body
      <3> DEFINE to == [k EXCEPT !.pc = "parts", !.todo = @ \ {k.part}]
      <3>1. to \in Requests /\ Speaks(to) /\ to.pc = "parts"
        BY <1>k DEF Requests, Speaks, Pcs, Chunks!Holding
      <3>2. "parts" \notin Chunks!Holding \cup {"sending"}
        BY DEF Chunks!Holding
      <3>3. Chunks!Go(c, to)
        BY <1>4, <2>1
      <3> HIDE DEF to
      <3> QED
        BY <1>4, <1>u, <3>1, <3>2, <3>3, RequestEnds
    <2>2. CASE upload[id].rec.parts[k.part] # k.body
      <3>1. Chunks!Go(c, Chunks!At("new"))
        BY <1>4, <2>2
      <3> QED
        BY <1>4, <1>u, <3>1, AtSpeaks, RequestEnds
    <2> QED
      BY <2>1, <2>2
  <1>5. CASE /\ Chunks!Loads(id) /\ upload[id].rec.status = "open"
             /\ upload[id].rec.parts[k.part] = None
             /\ upload' = [upload EXCEPT ![id].files[k.part] = k.body]
             /\ Chunks!Go(c, [k EXCEPT !.pc = "stored", !.rec = upload[id].rec])
             /\ UNCHANGED <<lockOf, cut>>
    <2>1. PICK to : to = [k EXCEPT !.pc = "stored", !.rec = upload[id].rec]
      OBVIOUS
    <2>2. PICK rec : rec = upload[id].rec
      OBVIOUS
    <2>3. rec \in Chunks!Record /\ rec # None
      BY <1>t, <1>5, <2>2 DEF Chunks!Loads, Dirs
    <2>4. /\ to \in Requests /\ Speaks(to) /\ to.id = id /\ to.pc = "stored"
          /\ to.rec = rec /\ to.part = k.part /\ to.body = k.body /\ to.lock = k.lock
      BY <1>k, <2>1, <2>2, <2>3 DEF Requests, Speaks, Pcs
    <2>5. Chunks!Go(c, to) /\ client' = [client EXCEPT ![c] = to]
      BY <1>5, <2>1 DEF Chunks!Go
    <2>7. upload[id].files \in [Parts -> Chunks!Bodies \cup {None}]
      BY <1>t DEF Dirs
    <2>6. /\ upload'[id].rec = rec
          /\ upload'[id].files = [upload[id].files EXCEPT ![k.part] = k.body]
          /\ upload' \in [Ids -> Dirs]
          /\ \A j \in Ids \ {id} : upload'[j] = upload[j]
      <3>1. PICK dir : dir = [upload[id] EXCEPT !.files[k.part] = k.body]
        OBVIOUS
      <3>2. upload' = [upload EXCEPT ![id] = dir]
        BY <1>5, <3>1
      <3>3. /\ dir.rec = rec /\ dir \in Dirs
            /\ dir.files = [upload[id].files EXCEPT ![k.part] = k.body]
        BY <1>t, <1>k, <2>2, <2>7, <3>1, SMTT(60) DEF Dirs
      <3> QED
        BY <1>t, <3>2, <3>3
    <2>8. \A d \in Clients \ {c} : client'[d] = client[d]
      BY <1>t, <2>5
    <2>c. client'[c] = to
      BY <1>t, <2>5
    <2>i. UploadInv(id)
      BY DEF ChunkInv
    <2>9. ASSUME id \notin cut
          PROVE  UploadInv(id)'
      <3>1. Sound(id) /\ id \notin cut'
        BY <1>5, <2>9, <2>i DEF UploadInv
      <3>2. k.lock = lockOf[id]
        BY <1>1, <1>k, <2>2, <2>3, <3>1 DEF Sound
      <3>3. \A d \in Clients \ {c} : ~Holds(d, id)
        BY <1>1, <1>k, <3>1, <3>2 DEF Sound, UpToDate, Holds, Chunks!Locked
      <3>4. \A d \in Clients : Holds(d, id)' => d = c
        BY <2>8, <3>3 DEF Holds
      <3>5. UpToDate(to, id)'
        BY <1>5, <1>k, <2>2, <2>4, <2>6, <2>7, <3>2 DEF UpToDate
      <3>6. \A p \in Parts : rec.parts[p] # None => upload'[id].files[p] = rec.parts[p]
        BY <1>5, <1>k, <2>2, <2>3, <2>6, <2>7, <3>1 DEF Sound
      <3>7. Sound(id)'
        BY <1>5, <2>2, <2>3, <2>4, <2>6, <2>8, <2>c, <3>1, <3>4, <3>5, <3>6
           DEF Sound, Chunks!Holding
      <3>8. Once(id)'
        BY <1>5, <1>u, <2>2, <2>3, <2>6, <2>8, <2>c, <2>i, <3>4 DEF UploadInv, Once
      <3> QED
        BY <3>1, <3>7, <3>8 DEF UploadInv
    <2>10. ASSUME id \in cut
           PROVE  UploadInv(id)'
      <3>1. Torn(id) /\ id \in cut'
        BY <1>5, <2>10, <2>i DEF UploadInv
      <3>2. PICK p \in Parts :
               /\ upload[id].files[p] = None /\ rec.parts[p] # None
               /\ \A d \in Clients : Holds(d, id) => Carries(client[d], p)
        BY <2>2, <2>3, <3>1 DEF Torn
      <3>3. upload'[id].files[p] = None
        BY <1>5, <2>2, <2>6, <2>7, <3>2
      <3>4. \A d \in Clients : Holds(d, id)' => Carries(client[d], p)'
        BY <2>4, <2>8, <2>c, <3>2 DEF Holds, Carries
      <3>5. \A d \in Clients : Holds(d, id)' => client'[d].pc # "install"
        BY <2>2, <2>3, <2>4, <2>8, <2>c, <3>1 DEF Torn, Holds
      <3>6. Torn(id)'
        BY <2>6, <3>2, <3>3, <3>4, <3>5 DEF Torn
      <3>7. installs[id] = 0
        BY <1>5, <2>2, <2>3, <2>i DEF UploadInv, Once
      <3>8. Once(id)'
        BY <1>u, <3>7 DEF Once
      <3> QED
        BY <3>1, <3>6, <3>8 DEF UploadInv
    <2>11. UploadInv(id)'
      BY <2>9, <2>10
    <2>12. \A j \in Ids \ {id} :
             /\ upload'[j] = upload[j] /\ lockOf'[j] = lockOf[j]
             /\ installs'[j] = installs[j] /\ (j \in cut' <=> j \in cut)
      BY <1>5, <1>u, <2>6
    <2>13. lockOf' \in [Ids -> Nat] /\ installs' \in [Ids -> Nat] /\ now' = now
      BY <1>5, <1>t, <1>u
    <2> QED
      BY <2>4, <2>5, <2>6, <2>11, <2>12, <2>13, RequestMoves
  <1> QED
    BY <1>1, <1>2, <1>3, <1>4, <1>5 DEF Chunks!StorePart

(* The record is written, with a directory if there is none. *)
LEMMA WrittenFacts ==
    ASSUME upload \in [Ids -> Dirs], NEW id \in Ids, NEW rec \in Chunks!Record
    PROVE  /\ Chunks!Written(id, rec) \in [Ids -> Dirs]
           /\ Chunks!Written(id, rec)[id].rec = rec
           /\ Chunks!Written(id, rec)[id].files = upload[id].files
           /\ \A j \in Ids \ {id} : Chunks!Written(id, rec)[j] = upload[j]
  <1> DEFINE dir == [upload[id] EXCEPT !.dir = TRUE, !.rec = rec]
  <1>1. Chunks!Written(id, rec) = [upload EXCEPT ![id] = dir]
    BY DEF Chunks!Written
  <1>2. dir \in Dirs /\ dir.rec = rec /\ dir.files = upload[id].files
    BY DEF Dirs
  <1> HIDE DEF dir
  <1> QED
    BY <1>1, <1>2

(* A holder writes its record back and lets go of the upload: no part is reported
   that it did not read or store. *)
LEMMA HolderLeaves ==
    ASSUME ChunkInv, NEW c \in Clients, NEW id \in Ids, Holds(c, id),
           client[c].pc # "finish",
           NEW rec \in Chunks!Record,
           \A p \in Parts : client[c].rec.parts[p] # None => rec.parts[p] # None,
           client[c].pc = "stored" => rec.parts[client[c].part] = client[c].body,
           \A p \in Parts : rec.parts[p] # client[c].rec.parts[p] =>
               client[c].pc = "stored" /\ client[c].part = p,
           upload' = Chunks!Written(id, rec), UNCHANGED <<lockOf, cut, now, installs>>,
           NEW to \in Requests, Speaks(to), Chunks!Go(c, to),
           to.pc \notin Chunks!Holding \cup {"sending"}
    PROVE  ChunkInv'
  <1>t. /\ upload \in [Ids -> Dirs] /\ lockOf \in [Ids -> Nat] /\ installs \in [Ids -> Nat]
        /\ client \in [Clients -> Requests] /\ now \in Nat /\ Speaks(client[c])
    BY DEF ChunkInv, ChunkTypes
  <1>1. /\ upload' \in [Ids -> Dirs] /\ upload'[id].rec = rec
        /\ upload'[id].files = upload[id].files
        /\ \A j \in Ids \ {id} : upload'[j] = upload[j]
    BY <1>t, WrittenFacts
  <1>2. rec # None
    BY NoneFacts
  <1>3. client' = [client EXCEPT ![c] = to]
    BY DEF Chunks!Go
  <1>4. \A d \in Clients : Holds(d, id)' => d # c /\ Holds(d, id) /\ client'[d] = client[d]
    BY <1>t, <1>3 DEF Holds
  <1>i. UploadInv(id)
    BY DEF ChunkInv
  <1>5. Once(id)'
    BY <1>1, <1>4, <1>i DEF UploadInv, Once
  <1>6. ASSUME id \notin cut
        PROVE  UploadInv(id)'
    <2>1. Sound(id)
      BY <1>6, <1>i DEF UploadInv
    <2>2. \A d \in Clients : ~Holds(d, id)'
      BY <1>4, <2>1 DEF Sound
    <2>3. client[c].rec = upload[id].rec /\ UpToDate(client[c], id)
      BY <2>1 DEF Sound, UpToDate
    <2>4. upload[id].rec # None
      BY <1>t, <2>3, NoneFacts DEF Speaks, Holds
    <2>5. ASSUME NEW p \in Parts, rec.parts[p] # None
          PROVE  upload'[id].files[p] = rec.parts[p]
      <3>1. CASE rec.parts[p] = client[c].rec.parts[p]
        BY <1>1, <2>1, <2>3, <2>4, <2>5, <3>1 DEF Sound
      <3>2. CASE rec.parts[p] # client[c].rec.parts[p]
        BY <1>1, <2>3, <3>2 DEF UpToDate
      <3> QED
        BY <3>1, <3>2
    <2>6. \A d \in Clients : client'[d].id = id /\ client'[d].pc = "sending" =>
              client[d].id = id /\ client[d].pc = "sending" /\ client'[d] = client[d]
      BY <1>t, <1>3
    <2>7. Sound(id)'
      BY <1>1, <2>1, <2>2, <2>4, <2>5, <2>6 DEF Sound
    <2> QED
      BY <1>5, <1>6, <2>7 DEF UploadInv
  <1>7. ASSUME id \in cut
        PROVE  UploadInv(id)'
    <2>1. Torn(id)
      BY <1>7, <1>i DEF UploadInv
    <2>2. PICK p \in Parts :
             /\ upload[id].files[p] = None
             /\ \A d \in Clients : Holds(d, id) => Carries(client[d], p)
      BY <2>1 DEF Torn
    <2>3. rec.parts[p] # None
      <3>1. CASE client[c].pc = "stored" /\ client[c].part = p
        BY <1>t, <3>1, NoneFacts DEF Speaks
      <3>2. CASE client[c].rec.parts[p] # None
        BY <3>2
      <3>3. client[c].pc \in {"stored", "assemble", "install"}
        BY DEF Holds, Chunks!Holding
      <3> QED
        BY <2>2, <3>1, <3>2, <3>3 DEF Carries
    <2>4. \A d \in Clients : Holds(d, id)' => client'[d].pc # "install"
      BY <1>4, <2>1 DEF Torn
    <2>5. \A d \in Clients : Holds(d, id)' => Carries(client[d], p)'
      BY <1>4, <2>2 DEF Carries
    <2>6. Torn(id)'
      BY <1>1, <2>2, <2>3, <2>4, <2>5 DEF Torn
    <2> QED
      BY <1>5, <1>7, <2>6 DEF UploadInv
  <1>8. \A j \in Ids \ {id} :
           /\ upload'[j] = upload[j] /\ lockOf'[j] = lockOf[j]
           /\ installs'[j] = installs[j] /\ (j \in cut' <=> j \in cut)
    BY <1>1
  <1>9. lockOf' \in [Ids -> Nat] /\ installs' \in [Ids -> Nat] /\ now' = now
    BY <1>t
  <1> QED
    BY <1>1, <1>6, <1>7, <1>8, <1>9, RequestMoves

(* The record is written, with the part that is on the disk. *)
LEMMA RecordPartStep ==
    ASSUME ChunkInv, NEW c \in Clients, Chunks!RecordPart(c)
    PROVE  ChunkInv'
  <1>t. client[c] \in Requests /\ Speaks(client[c])
    BY DEF ChunkInv, ChunkTypes
  <1>1. PICK k \in Requests : k = client[c]
    BY <1>t
  <1>2. PICK id \in Ids : id = client[c].id
    BY <1>t DEF Speaks, Chunks!RecordPart, Chunks!Holding
  <1>3. /\ k.pc = "stored" /\ k.part \in Parts /\ k.body \in Chunks!Bodies
        /\ k.rec \in Chunks!Record /\ Holds(c, id)
    BY <1>t, <1>1, <1>2 DEF Speaks, Chunks!RecordPart, Chunks!Holding, Holds
  <1>i. UploadInv(id)
    BY DEF ChunkInv
  <1>4. PICK rec : rec = [k.rec EXCEPT !.parts[k.part] = k.body]
    OBVIOUS
  <1>5. /\ rec \in Chunks!Record /\ rec.status = k.rec.status
        /\ rec.parts = [k.rec.parts EXCEPT ![k.part] = k.body]
        /\ k.rec.parts \in [Parts -> Chunks!Bodies \cup {None}]
    BY <1>3, <1>4 DEF Chunks!Record
  <1>6. PICK to : to = [k EXCEPT !.pc = "parts", !.todo = @ \ {k.part}, !.rec = None]
    OBVIOUS
  <1>7. /\ to \in Requests /\ Speaks(to)
        /\ to.pc \notin Chunks!Holding \cup {"sending"}
    BY <1>1, <1>2, <1>3, <1>6 DEF Requests, Speaks, Pcs, Chunks!Holding
  <1>8. /\ upload' = Chunks!Written(id, rec) /\ Chunks!Go(c, to)
        /\ UNCHANGED <<lockOf, cut, now, installs>>
    BY <1>1, <1>2, <1>4, <1>6 DEF Chunks!RecordPart
  <1> QED
    BY <1>1, <1>3, <1>5, <1>7, <1>8, NoneFacts, HolderLeaves

(* The completion takes the lock and marks the record, if no part is missing. *)
LEMMA BeginCompleteStep ==
    ASSUME ChunkInv, NEW c \in Clients, Chunks!BeginComplete(c)
    PROVE  ChunkInv'
  <1>t. /\ upload \in [Ids -> Dirs] /\ lockOf \in [Ids -> Nat] /\ installs \in [Ids -> Nat]
        /\ client \in [Clients -> Requests] /\ Speaks(client[c])
    BY DEF ChunkInv, ChunkTypes
  <1>u. UNCHANGED <<now, installs>>
    BY DEF Chunks!BeginComplete
  <1>1. PICK id \in Ids : id = client[c].id
    BY <1>t DEF Speaks, Chunks!BeginComplete
  <1>2. CASE Chunks!Refused(c, id)
    <2>1. CASE Chunks!NotFound(c, id)
      BY <1>u, <2>1, NotFoundStep
    <2>2. CASE /\ Chunks!Go(c, [Chunks!Resume(c, id) EXCEPT !.again = TRUE])
               /\ Chunks!Kept
      <3>1. "parts" \notin Chunks!Holding \cup {"sending"}
        BY DEF Chunks!Holding
      <3> QED
        BY <1>u, <2>2, <3>1, ResumeTypes, RequestEnds
    <2> QED
      BY <1>2, <2>1, <2>2 DEF Chunks!Refused
  <1>3. CASE ~Chunks!Refused(c, id)
    <2>1. /\ Chunks!Loads(id) /\ upload[id].rec.status = "open"
          /\ \A p \in Parts : upload[id].rec.parts[p] # None
          /\ \A d \in Clients \ {c} :
                ~(client[d].pc \in Chunks!Holding /\ client[d].id = id
                  /\ client[d].lock = lockOf[id])
          /\ client[c].pc = "parts"
      BY <1>1, <1>3 DEF Chunks!BeginComplete
    <2>2. PICK rec : rec = [upload[id].rec EXCEPT !.status = "completing"]
      OBVIOUS
    <2>3. upload[id].rec \in Chunks!Record
      BY <1>t, <2>1 DEF Dirs, Chunks!Loads
    <2>4. /\ rec \in Chunks!Record /\ rec.status = "completing"
          /\ rec.parts = upload[id].rec.parts
      BY <2>2, <2>3 DEF Chunks!Record
    <2>5. PICK to : to = [client[c] EXCEPT !.lock = lockOf[id], !.pc = "assemble", !.rec = rec]
      OBVIOUS
    <2>6. /\ to \in Requests /\ Speaks(to) /\ to.id = id /\ to.pc = "assemble"
          /\ to.rec = rec /\ to.lock = lockOf[id]
      BY <1>t, <1>1, <2>4, <2>5, ZenonT(60) DEF Requests, Speaks, Pcs
    <2>7. /\ upload' = Chunks!Written(id, rec) /\ Chunks!Go(c, to)
          /\ UNCHANGED <<lockOf, cut>>
      BY <1>1, <1>3, <2>2, <2>5 DEF Chunks!BeginComplete
    <2>8. /\ upload' \in [Ids -> Dirs] /\ upload'[id].rec = rec
          /\ upload'[id].files = upload[id].files
          /\ \A j \in Ids \ {id} : upload'[j] = upload[j]
      BY <1>t, <2>4, <2>7, WrittenFacts
    <2>9. client'[c] = to /\ \A d \in Clients \ {c} : client'[d] = client[d]
      BY <1>t, <2>7 DEF Chunks!Go
    <2>i. UploadInv(id) /\ upload[id].rec # None
      BY <2>1 DEF ChunkInv, Chunks!Loads
    <2>10. installs[id] = 0
      BY <2>1, <2>i DEF UploadInv, Once
    <2>11. Once(id)'
      BY <1>u, <2>10 DEF Once
    <2>12. ASSUME id \notin cut
           PROVE  UploadInv(id)'
      <3>1. Sound(id)
        BY <2>12, <2>i DEF UploadInv
      <3>2. \A d \in Clients \ {c} : ~Holds(d, id)
        BY <2>1, <3>1 DEF Sound, UpToDate, Holds
      <3>3. \A d \in Clients : Holds(d, id)' => d = c
        BY <2>9, <3>2 DEF Holds
      <3>4. UpToDate(to, id)'
        BY <2>1, <2>4, <2>6, <2>7, <2>8 DEF UpToDate
      <3>5. \A d \in Clients : client'[d].id = id /\ client'[d].pc = "sending" =>
                client'[d].lock = lockOf'[id]
        BY <2>6, <2>7, <2>9, <2>i, <3>1 DEF Sound
      <3>6. Sound(id)'
        BY <2>4, <2>8, <2>9, <2>i, <3>1, <3>3, <3>4, <3>5 DEF Sound
      <3> QED
        BY <2>7, <2>11, <2>12, <3>6 DEF UploadInv
    <2>13. ASSUME id \in cut
           PROVE  UploadInv(id)'
      <3>1. Torn(id)
        BY <2>13, <2>i DEF UploadInv
      <3>2. PICK p \in Parts :
               /\ upload[id].files[p] = None
               /\ \A d \in Clients : Holds(d, id) => Carries(client[d], p)
        BY <3>1 DEF Torn
      <3>3. \A d \in Clients : Holds(d, id)' => Carries(client[d], p)'
        BY <2>1, <2>4, <2>6, <2>9, <3>2 DEF Holds, Carries
      <3>4. \A d \in Clients : Holds(d, id)' => client'[d].pc # "install"
        BY <2>6, <2>9, <2>i, <3>1 DEF Torn, Holds
      <3>5. Torn(id)'
        BY <2>1, <2>4, <2>8, <3>2, <3>3, <3>4 DEF Torn
      <3> QED
        BY <2>7, <2>11, <2>13, <3>5 DEF UploadInv
    <2>14. \A j \in Ids \ {id} :
             /\ upload'[j] = upload[j] /\ lockOf'[j] = lockOf[j]
             /\ installs'[j] = installs[j] /\ (j \in cut' <=> j \in cut)
      BY <1>u, <2>7, <2>8
    <2>15. lockOf' \in [Ids -> Nat] /\ installs' \in [Ids -> Nat] /\ now' = now
      BY <1>t, <1>u, <2>7
    <2> QED
      BY <2>6, <2>7, <2>8, <2>12, <2>13, <2>14, <2>15, RequestMoves
  <1> QED
    BY <1>2, <1>3

(* A completion that gives up. *)
LEMMA ReopenStep ==
    ASSUME ChunkInv, NEW c \in Clients, client[c].pc \in {"assemble", "install"},
           Chunks!Reopen(c), UNCHANGED <<now, installs>>
    PROVE  ChunkInv'
  <1>t. client[c] \in Requests /\ Speaks(client[c])
    BY DEF ChunkInv, ChunkTypes
  <1>1. PICK id \in Ids : id = client[c].id
    BY <1>t DEF Speaks, Chunks!Holding
  <1>2. Holds(c, id) /\ client[c].rec \in Chunks!Record
    BY <1>t, <1>1 DEF Speaks, Chunks!Holding, Holds
  <1>3. PICK rec : rec = [client[c].rec EXCEPT !.status = "open"]
    OBVIOUS
  <1>4. rec \in Chunks!Record /\ rec.parts = client[c].rec.parts
    BY <1>2, <1>3 DEF Chunks!Record
  <1>5. /\ upload' = Chunks!Written(id, rec) /\ Chunks!Go(c, Chunks!At("new"))
        /\ UNCHANGED <<lockOf, cut>>
    BY <1>1, <1>3 DEF Chunks!Reopen
  <1> QED
    BY <1>2, <1>4, <1>5, AtSpeaks, HolderLeaves

(* The archive is compared with its parts: a torn upload is never whole. *)
LEMMA AssembleStep ==
    ASSUME ChunkInv, NEW c \in Clients, Chunks!Assemble(c)
    PROVE  ChunkInv'
  <1>t. /\ client \in [Clients -> Requests] /\ Speaks(client[c])
        /\ upload \in [Ids -> Dirs] /\ lockOf \in [Ids -> Nat] /\ installs \in [Ids -> Nat]
    BY DEF ChunkInv, ChunkTypes
  <1>u. UNCHANGED <<now, installs>> /\ client[c].pc = "assemble"
    BY DEF Chunks!Assemble
  <1>1. PICK id \in Ids : id = client[c].id
    BY <1>t, <1>u DEF Speaks, Chunks!Holding
  <1>2. CASE Chunks!Reopen(c)
    BY <1>u, <1>2, ReopenStep
  <1>3. CASE ~Chunks!Reopen(c)
    <2>1. PICK to : to = [client[c] EXCEPT !.pc = "install"]
      OBVIOUS
    <2>2. /\ \A p \in Parts : upload[id].files[p] = "right"
          /\ Chunks!Go(c, to) /\ UNCHANGED <<upload, lockOf, cut>>
      BY <1>1, <1>3, <2>1 DEF Chunks!Assemble, Chunks!Kept
    <2>3. /\ to \in Requests /\ Speaks(to) /\ to.id = id /\ to.pc = "install"
          /\ to.rec = client[c].rec /\ to.lock = client[c].lock
      BY <1>t, <1>u, <1>1, <2>1 DEF Requests, Speaks, Pcs, Chunks!Holding
    <2>4. client'[c] = to /\ \A d \in Clients \ {c} : client'[d] = client[d]
      BY <1>t, <2>2 DEF Chunks!Go
    <2>5. UploadInv(id) /\ Holds(c, id)
      BY <1>u, <1>1 DEF ChunkInv, Holds, Chunks!Holding
    <2>6. id \notin cut
      <3>1. SUFFICES ASSUME id \in cut PROVE FALSE
        OBVIOUS
      <3>2. PICK p \in Parts : upload[id].files[p] = None
        BY <2>5, <3>1 DEF UploadInv, Torn
      <3> QED
        BY <2>2, <3>2, NoneAssumption
    <2>7. Sound(id)
      BY <2>5, <2>6 DEF UploadInv
    <2>8. \A d \in Clients : Holds(d, id)' => d = c
      BY <2>4, <2>5, <2>7 DEF Sound, Holds
    <2>9. UpToDate(to, id)'
      BY <1>u, <2>2, <2>3, <2>5, <2>7 DEF Sound, UpToDate
    <2>10. Sound(id)'
      BY <2>2, <2>3, <2>4, <2>7, <2>8, <2>9 DEF Sound
    <2>11. Once(id)'
      BY <1>u, <2>2, <2>5, <2>8 DEF UploadInv, Once
    <2>12. UploadInv(id)'
      BY <2>2, <2>6, <2>10, <2>11 DEF UploadInv
    <2>13. \A j \in Ids \ {id} :
             /\ upload'[j] = upload[j] /\ lockOf'[j] = lockOf[j]
             /\ installs'[j] = installs[j] /\ (j \in cut' <=> j \in cut)
      BY <1>u, <2>2
    <2>14. /\ upload' \in [Ids -> Dirs] /\ lockOf' \in [Ids -> Nat]
           /\ installs' \in [Ids -> Nat] /\ now' = now
      BY <1>t, <1>u, <2>2
    <2> QED
      BY <2>2, <2>3, <2>12, <2>13, <2>14, RequestMoves
  <1> QED
    BY <1>2, <1>3

(* The tree is replaced, by the only holder. *)
LEMMA InstallStep ==
    ASSUME ChunkInv, NEW c \in Clients, Chunks!Install(c)
    PROVE  ChunkInv'
  <1>t. /\ client \in [Clients -> Requests] /\ Speaks(client[c])
        /\ upload \in [Ids -> Dirs] /\ lockOf \in [Ids -> Nat] /\ installs \in [Ids -> Nat]
    BY DEF ChunkInv, ChunkTypes
  <1>u. now' = now /\ client[c].pc = "install"
    BY DEF Chunks!Install
  <1>1. PICK id \in Ids : id = client[c].id
    BY <1>t, <1>u DEF Speaks, Chunks!Holding
  <1>2. CASE Chunks!Reopen(c) /\ UNCHANGED installs
    BY <1>u, <1>2, ReopenStep
  <1>3. CASE ~(Chunks!Reopen(c) /\ UNCHANGED installs)
    <2>1. PICK to : to = [client[c] EXCEPT !.pc = "finish"]
      OBVIOUS
    <2>2. /\ Chunks!Go(c, to) /\ UNCHANGED <<upload, lockOf, cut>>
          /\ installs' = [installs EXCEPT ![id] = @ + 1]
      BY <1>1, <1>3, <2>1 DEF Chunks!Install, Chunks!Kept
    <2>3. /\ to \in Requests /\ Speaks(to) /\ to.id = id /\ to.pc = "finish"
          /\ to.rec = client[c].rec /\ to.lock = client[c].lock
      BY <1>t, <1>u, <1>1, <2>1 DEF Requests, Speaks, Pcs, Chunks!Holding
    <2>4. client'[c] = to /\ \A d \in Clients \ {c} : client'[d] = client[d]
      BY <1>t, <2>2 DEF Chunks!Go
    <2>5. UploadInv(id) /\ Holds(c, id)
      BY <1>u, <1>1 DEF ChunkInv, Holds, Chunks!Holding
    <2>6. installs[id] = 0 /\ installs'[id] = 1
      BY <1>t, <1>u, <2>2, <2>5 DEF UploadInv, Once
    <2>7. ASSUME id \notin cut
          PROVE  UploadInv(id)'
      <3>1. Sound(id)
        BY <2>5, <2>7 DEF UploadInv
      <3>2. \A d \in Clients : Holds(d, id)' => d = c
        BY <2>4, <2>5, <3>1 DEF Sound, Holds
      <3>3. UpToDate(to, id)' /\ upload[id].rec.status = "completing"
        BY <1>u, <2>2, <2>3, <2>5, <3>1 DEF Sound, UpToDate
      <3>4. Sound(id)'
        BY <2>2, <2>3, <2>4, <3>1, <3>2, <3>3 DEF Sound
      <3>5. Once(id)'
        BY <2>2, <2>3, <2>4, <2>6, <3>2, <3>3 DEF Once
      <3> QED
        BY <2>2, <2>7, <3>4, <3>5 DEF UploadInv
    <2>8. ASSUME id \in cut
          PROVE  UploadInv(id)'
      <3>1. Torn(id)
        BY <2>5, <2>8 DEF UploadInv
      <3>2. upload[id].rec = None /\ \A d \in Clients : Holds(d, id) => d = c
        BY <1>u, <2>5, <3>1 DEF Torn
      <3>3. \A d \in Clients : Holds(d, id)' => d = c
        BY <2>4, <3>2 DEF Holds
      <3>4. Torn(id)'
        BY <2>2, <2>3, <2>4, <3>1, <3>2, <3>3 DEF Torn, Carries
      <3>5. Once(id)'
        BY <2>2, <2>3, <2>4, <2>6, <3>2, <3>3 DEF Once
      <3> QED
        BY <2>2, <2>8, <3>4, <3>5 DEF UploadInv
    <2>9. \A j \in Ids \ {id} :
             /\ upload'[j] = upload[j] /\ lockOf'[j] = lockOf[j]
             /\ installs'[j] = installs[j] /\ (j \in cut' <=> j \in cut)
      BY <1>t, <2>2
    <2>10. /\ upload' \in [Ids -> Dirs] /\ lockOf' \in [Ids -> Nat]
           /\ installs' \in [Ids -> Nat] /\ now' = now
      BY <1>t, <1>u, <2>2
    <2> QED
      BY <2>2, <2>3, <2>7, <2>8, <2>9, <2>10, RequestMoves
  <1> QED
    BY <1>2, <1>3

(* The upload is removed by the request that installed it. *)
LEMMA FinishStep ==
    ASSUME ChunkInv, NEW c \in Clients, Chunks!Finish(c)
    PROVE  ChunkInv'
  <1>t. /\ client \in [Clients -> Requests] /\ Speaks(client[c])
        /\ upload \in [Ids -> Dirs] /\ lockOf \in [Ids -> Nat] /\ installs \in [Ids -> Nat]
    BY DEF ChunkInv, ChunkTypes
  <1>u. UNCHANGED <<now, installs, cut>> /\ client[c].pc = "finish"
    BY DEF Chunks!Finish
  <1>1. PICK id \in Ids : id = client[c].id
    BY <1>t, <1>u DEF Speaks, Chunks!Holding
  <1>g. /\ Chunks!Gone \in Dirs /\ Chunks!Gone.rec = None
        /\ \A p \in Parts : Chunks!Gone.files[p] = None
    BY DEF Chunks!Gone, Chunks!NoFiles, Dirs
  <1>2. /\ upload' \in [Ids -> Dirs] /\ upload'[id] = Chunks!Gone
        /\ \A j \in Ids \ {id} : upload'[j] = upload[j]
    BY <1>t, <1>1, <1>g DEF Chunks!Finish, Chunks!Without
  <1>3. lockOf' = [lockOf EXCEPT ![id] = @ + 1] /\ Chunks!Go(c, Chunks!At("done"))
    BY <1>1 DEF Chunks!Finish
  <1>4. \A d \in Clients : Holds(d, id)' => d # c /\ Holds(d, id) /\ client'[d] = client[d]
    BY <1>t, <1>3, AtSpeaks DEF Holds, Chunks!Go
  <1>5. UploadInv(id) /\ Holds(c, id)
    BY <1>u, <1>1 DEF ChunkInv, Holds, Chunks!Holding
  <1>6. Once(id)'
    BY <1>u, <1>g, <1>2, <1>4, <1>5 DEF UploadInv, Once
  <1>7. Sound(id) => Sound(id)'
    <2> SUFFICES ASSUME Sound(id) PROVE Sound(id)'
      OBVIOUS
    <2>1. \A d \in Clients : ~Holds(d, id)'
      BY <1>4, <1>5 DEF Sound
    <2> QED
      BY <1>g, <1>2, <2>1 DEF Sound
  <1>8. Torn(id) => Torn(id)'
    BY <1>g, <1>2, <1>4 DEF Torn, Carries
  <1>9. UploadInv(id)'
    BY <1>u, <1>5, <1>6, <1>7, <1>8 DEF UploadInv
  <1>10. \A j \in Ids \ {id} :
           /\ upload'[j] = upload[j] /\ lockOf'[j] = lockOf[j]
           /\ installs'[j] = installs[j] /\ (j \in cut' <=> j \in cut)
    BY <1>t, <1>u, <1>2, <1>3
  <1>11. lockOf' \in [Ids -> Nat] /\ installs' \in [Ids -> Nat] /\ now' = now
    BY <1>t, <1>u, <1>3
  <1> QED
    BY <1>2, <1>3, <1>9, <1>10, <1>11, AtSpeaks, RequestMoves

(* Aborts by an operator, the clock. *)
LEMMA OutsideStep ==
    ASSUME ChunkInv,
           Chunks!Abort \/ Chunks!Tick \/ \E id \in Ids : Chunks!BeginAbort(id)
    PROVE  ChunkInv'
  <1>1. client' = client /\ installs' = installs /\ now' \in Nat
    BY DEF Chunks!Abort, Chunks!Tick, Chunks!BeginAbort, ChunkInv, ChunkTypes
  <1>2. CASE Chunks!Abort
    <2>1. /\ \A id \in Ids : UploadInv(id)'
          /\ upload' \in [Ids -> Dirs] /\ lockOf' \in [Ids -> Nat]
      BY <1>1, <1>2, DropKeeps DEF Chunks!Abort
    <2> QED
      BY <1>1, <2>1 DEF ChunkInv, ChunkTypes
  <1>3. CASE Chunks!Tick \/ \E id \in Ids : Chunks!BeginAbort(id)
    <2>1. UNCHANGED <<upload, lockOf, cut>>
      BY <1>3 DEF Chunks!Tick, Chunks!BeginAbort
    <2>2. ASSUME NEW id \in Ids
          PROVE  UploadInv(id)'
      BY <1>1, <2>1, UploadIsLeft DEF ChunkInv
    <2>3. ChunkTypes'
      BY <1>1, <2>1 DEF ChunkInv, ChunkTypes
    <2> QED
      BY <2>2, <2>3 DEF ChunkInv
  <1> QED
    BY <1>2, <1>3

(* A restart ends every request and forgets the locks; the disk stays. *)
LEMMA CrashStep ==
    ASSUME ChunkInv, Chunks!Crash
    PROVE  ChunkInv'
  <1>1. UNCHANGED <<upload, now, cut, installs>> /\ lockOf' = [id \in Ids |-> 0]
    BY DEF Chunks!Crash
  <1>2. ASSUME NEW c \in Clients
        PROVE  /\ client'[c] \in Requests /\ Speaks(client[c])'
               /\ client'[c].pc \notin Chunks!Holding \cup {"sending"}
    <2>1. CASE client[c].pc = "done"
      BY <2>1 DEF Chunks!Crash, ChunkInv, ChunkTypes, Speaks, Chunks!Holding
    <2>2. CASE client[c].pc # "done"
      <3>1. client'[c] = Chunks!At("new")
        BY <2>2 DEF Chunks!Crash
      <3>2. Chunks!At("new") \in Requests /\ Speaks(Chunks!At("new"))
            /\ Chunks!At("new").pc \notin Chunks!Holding \cup {"sending"}
        BY AtSpeaks
      <3> QED
        BY <3>1, <3>2 DEF Speaks
    <2> QED
      BY <2>1, <2>2
  <1>3. ChunkTypes'
    BY <1>1, <1>2 DEF Chunks!Crash, ChunkInv, ChunkTypes
  <1>4. ASSUME NEW id \in Ids
        PROVE  UploadInv(id)'
    <2>1. UploadInv(id)
      BY DEF ChunkInv
    <2>2. \A c \in Clients : ~Holds(c, id)'
      BY <1>2 DEF Holds
    <2>3. Sound(id) => Sound(id)'
      BY <1>1, <1>2, <2>2 DEF Sound
    <2>4. Torn(id) => Torn(id)'
      BY <1>1, <2>2 DEF Torn
    <2> QED
      BY <1>1, <2>1, <2>2, <2>3, <2>4 DEF UploadInv, Once
  <1> QED
    BY <1>3, <1>4 DEF ChunkInv

(* Every step of the chunks keeps the invariant. *)
LEMMA ChunksStep ==
    ASSUME ChunkInv, Chunks!Next
    PROVE  ChunkInv'
  <1>1. ASSUME NEW c \in Clients,
               \/ Chunks!Find(c) \/ Chunks!Create(c) \/ Chunks!SendPart(c)
               \/ Chunks!StorePart(c) \/ Chunks!RecordPart(c) \/ Chunks!BeginComplete(c)
               \/ Chunks!Assemble(c) \/ Chunks!Install(c) \/ Chunks!Finish(c)
        PROVE  ChunkInv'
    BY <1>1, FindStep, CreateStep, SendPartStep, StorePartStep, RecordPartStep,
       BeginCompleteStep, AssembleStep, InstallStep, FinishStep
  <1> QED
    BY <1>1, OutsideStep, CrashStep DEF Chunks!Next

(* No upload is open, and no client has begun. *)
LEMMA ChunksStart == Chunks!Init => ChunkInv
  <1> SUFFICES ASSUME Chunks!Init PROVE ChunkInv
    OBVIOUS
  <1>1. /\ Chunks!Gone \in Dirs /\ Chunks!Gone.rec = None
        /\ \A p \in Parts : Chunks!Gone.files[p] = None
    BY DEF Chunks!Gone, Chunks!NoFiles, Dirs
  <1>2. ChunkTypes
    BY <1>1, AtSpeaks DEF Chunks!Init, ChunkTypes
  <1>3. ASSUME NEW id \in Ids
        PROVE  UploadInv(id)
    <2>1. \A c \in Clients : client[c].pc \notin Chunks!Holding \cup {"sending"}
      BY AtSpeaks DEF Chunks!Init
    <2>2. upload[id] = Chunks!Gone /\ id \notin cut /\ installs[id] = 0
      BY DEF Chunks!Init
    <2> QED
      BY <1>1, <2>1, <2>2 DEF UploadInv, Sound, Once, Holds
  <1> QED
    BY <1>2, <1>3 DEF ChunkInv

(* What the invariant says of the properties. *)
LEMMA ChunksWhole == ChunkInv => Chunks!ReportedIsThere /\ Chunks!InstalledOnce
  BY DEF ChunkInv, UploadInv, Sound, Once, Chunks!ReportedIsThere, Chunks!InstalledOnce

(* The parts that are asked for cover every archive and every blob. *)
THEOREM PartsCover == CutsAll
  <1>1. ASSUME NEW total \in Totals, NEW requested \in Totals
        PROVE  LET s == resolvePartSize(requested, total)
                   m == casMultipartPlan(requested, total)
               IN  /\ s # 0 => CutsWell(s, total)
                   /\ m > 0 => CutsWell(m, total)
                   /\ CutsIfPossible(s, total) /\ (m = -1 => CutsIfPossible(0, total))
    <2>1. total \in Nat \ {0} /\ requested \in Nat
      BY UploadsAssumption
    <2> QED
      BY <2>1, ResolvedCuts, PlannedCuts
  <1> QED
    BY <1>1 DEF CutsAll

-----------------------------------------------------------------------------
(* Uploads of blobs: steps. *)

(* What a job holds stays true when it does not move, no blob is lost but to a sweep,
   and its multipart uploads stay open or closed. *)
LEMMA JobIsLeft ==
    ASSUME BlobInv, NEW d \in Clients, job'[d] = job[d],
           \A b \in Blobs : b \in object \cup swept => b \in object' \cup swept',
           \A b \in Large : job[d].id[b] # None =>
               (session'[job[d].id[b]] = None <=> session[job[d].id[b]] = None)
    PROVE  JobInv(d)'
  <1>1. JobInv(d) /\ job[d] \in Jobs /\ Needs[d] \subseteq Blobs
    BY UploadsAssumption DEF BlobInv, BlobTypes
  <1>2. Transfer(job[d]) => Transfer(job[d])'
    BY <1>1, UploadsAssumption DEF Transfer
  <1>3. Active(job[d])' => Active(job[d])
    BY DEF Active
  <1>4. Completed(job[d]) => Completed(job[d])'
    BY <1>1, UploadsAssumption DEF Completed, Jobs
  <1>5. Covered(job[d], Needs[d]) => Covered(job[d], Needs[d])'
    BY <1>1 DEF Covered
  <1>6. Asked(job[d]) => Asked(job[d])'
    BY DEF Asked
  <1>7. job'[d].pc = "uploaded" => Needs[d] \subseteq object' \cup swept'
    BY <1>1 DEF JobInv
  <1> QED
    BY <1>1, <1>2, <1>3, <1>4, <1>5, <1>6, <1>7 DEF JobInv

(* One job moves and takes no new identifier. *)
LEMMA JobMoves ==
    ASSUME BlobInv, NEW c \in Clients, NEW j \in Jobs, job' = [job EXCEPT ![c] = j],
           \A b \in Large : j.id[b] \in {job[c].id[b], None},
           session' \in [Ids -> Sessions \cup {None}],
           \A d \in Clients \ {c} : \A b \in Large : job[d].id[b] # None =>
               (session'[job[d].id[b]] = None <=> session[job[d].id[b]] = None),
           \A i \in Ids \ forsaken' : session'[i] # None => session[i] # None,
           \A b \in Blobs : b \in object \cup swept => b \in object' \cup swept',
           forsaken \subseteq forsaken',
           \A b \in Large :
               /\ job[c].id[b] # None /\ job[c].id[b] \notin forsaken'
               /\ session'[job[c].id[b]] # None
               /\ Active(job[c]) \/ (job[c].pc = "abort" /\ b \in job[c].left)
               => /\ j.id[b] = job[c].id[b]
                  /\ Active(j) \/ (j.pc = "abort" /\ b \in j.left),
           JobInv(c)'
    PROVE  BlobInv'
  <1>1. job \in [Clients -> Jobs]
    BY DEF BlobInv, BlobTypes
  <1>2. job'[c] = j /\ \A d \in Clients \ {c} : job'[d] = job[d]
    BY <1>1
  <1>3. BlobTypes'
    BY <1>1 DEF BlobTypes
  <1>4. IdsDiffer'
    BY <1>2 DEF BlobInv, IdsDiffer
  <1>5. ASSUME NEW d \in Clients
        PROVE  JobInv(d)'
    <2>1. CASE d = c
      BY <2>1
    <2>2. CASE d # c
      BY <1>2, <2>2, JobIsLeft
    <2> QED
      BY <2>1, <2>2
  <1>6. ASSUME NEW i \in Ids \ forsaken', session'[i] # None
        PROVE  Owned(i)'
    <2>1. Owned(i)
      BY <1>6 DEF BlobInv
    <2>2. PICK d \in Clients, b \in Large :
             /\ job[d].id[b] = i
             /\ Active(job[d]) \/ (job[d].pc = "abort" /\ b \in job[d].left)
      BY <2>1 DEF Owned
    <2>3. CASE d = c
      <3>1. i # None
        BY NoneAssumption
      <3>2. j.id[b] = i /\ (Active(j) \/ (j.pc = "abort" /\ b \in j.left))
        BY <1>6, <2>2, <2>3, <3>1
      <3> QED
        BY <1>2, <3>2 DEF Owned, Active
    <2>4. CASE d # c
      BY <1>2, <2>2, <2>4 DEF Owned, Active
    <2> QED
      BY <2>3, <2>4
  <1> QED
    BY <1>3, <1>4, <1>5, <1>6 DEF BlobInv

(* A job that has not begun, or is over. *)
LEMMA JobAt ==
    ASSUME NEW pc \in {"new", "asking", "failed", "published"}
    PROVE  /\ Cas!At(pc) \in Jobs /\ Cas!At(pc).pc = pc
           /\ \A b \in Large : Cas!At(pc).id[b] = None /\ Cas!At(pc).etags[b] = {}
           /\ Cas!At(pc).work = {} /\ Cas!At(pc).flight = {} /\ Cas!At(pc).left = {}
           /\ Cas!At(pc).completed = {} /\ Cas!At(pc).failed = FALSE
  BY DEF Cas!At, Jobs

(* A job that ends leaves nothing open behind, or it is forsaken. *)
LEMMA JobEnds ==
    ASSUME BlobInv, NEW c \in Clients, NEW pc \in {"new", "failed", "published"},
           Cas!Go(c, Cas!At(pc)), UNCHANGED <<object, session, swept>>,
           forsaken \subseteq forsaken',
           \/ Cas!IdsOf(job[c]) \subseteq forsaken'
           \/ ~Active(job[c]) /\ job[c].pc # "abort"
    PROVE  BlobInv'
  <1>1. PICK j : j = Cas!At(pc)
    OBVIOUS
  <1>2. j \in Jobs /\ j.pc = pc /\ \A b \in Large : j.id[b] = None
    BY <1>1, JobAt
  <1>3. job' = [job EXCEPT ![c] = j] /\ job \in [Clients -> Jobs]
    BY <1>1 DEF Cas!Go, BlobInv, BlobTypes
  <1>4. JobInv(c)'
    BY <1>2, <1>3 DEF JobInv, Asked, Active
  <1>5. session' \in [Ids -> Sessions \cup {None}]
    BY DEF BlobInv, BlobTypes
  <1>6. \A b \in Large :
           /\ job[c].id[b] # None /\ job[c].id[b] \notin forsaken'
           => ~Active(job[c]) /\ job[c].pc # "abort"
    BY DEF Cas!IdsOf
  <1> QED
    BY <1>2, <1>3, <1>4, <1>5, <1>6, JobMoves

(* A job ends, is published, is killed, or is run again. *)
LEMMA EndsStep ==
    ASSUME BlobInv, NEW c \in Clients,
           \/ Cas!AuthorizeFails(c) \/ Cas!Publish(c) \/ Cas!PublishFails(c)
           \/ Cas!Kill(c) \/ Cas!Rerun(c)
    PROVE  BlobInv'
  <1>1. UNCHANGED <<object, session, swept>> /\ forsaken \subseteq forsaken'
    BY DEF Cas!AuthorizeFails, Cas!Publish, Cas!PublishFails, Cas!Kill, Cas!Rerun
  <1>2. PICK pc \in {"new", "failed", "published"} : Cas!Go(c, Cas!At(pc))
    BY DEF Cas!AuthorizeFails, Cas!Publish, Cas!PublishFails, Cas!Kill, Cas!Rerun
  <1>3. \/ Cas!IdsOf(job[c]) \subseteq forsaken'
        \/ ~Active(job[c]) /\ job[c].pc # "abort"
    BY DEF Cas!AuthorizeFails, Cas!Publish, Cas!PublishFails, Cas!Kill, Cas!Rerun, Active
  <1> QED
    BY <1>1, <1>2, <1>3, JobEnds

(* A job asks for all of its blobs. *)
LEMMA BeginPutStep ==
    ASSUME BlobInv, NEW c \in Clients, Cas!BeginPut(c)
    PROVE  BlobInv'
  <1>1. PICK j : j = [Cas!At("asking") EXCEPT !.left = Needs[c]]
    OBVIOUS
  <1>n. Needs[c] \subseteq Blobs
    BY UploadsAssumption
  <1>2. /\ j \in Jobs /\ j.pc = "asking" /\ j.left = Needs[c]
        /\ \A b \in Large : j.id[b] = None /\ j.etags[b] = {}
        /\ j.work = {} /\ j.flight = {} /\ j.completed = {} /\ j.failed = FALSE
    BY <1>1, <1>n DEF Cas!At, Jobs
  <1>3. job' = [job EXCEPT ![c] = j] /\ job \in [Clients -> Jobs] /\ job[c].pc = "new"
    BY <1>1 DEF Cas!BeginPut, Cas!Go, BlobInv, BlobTypes
  <1>4. UNCHANGED <<object, session, swept, forsaken>>
    BY DEF Cas!BeginPut
  <1>5. JobInv(c)'
    BY <1>2, <1>3 DEF JobInv, Asked, Active, Transfer, Completed, Covered
  <1>6. session' \in [Ids -> Sessions \cup {None}]
    BY <1>4 DEF BlobInv, BlobTypes
  <1>7. ~Active(job[c]) /\ job[c].pc # "abort"
    BY <1>3 DEF Active
  <1> QED
    BY <1>2, <1>3, <1>4, <1>5, <1>6, <1>7, JobMoves

(* The steps between the requests: an answer is read, the workers are done, aborts
   are sent.  Nothing is stored. *)
LEMMA AuthorizedStep ==
    ASSUME BlobInv, NEW c \in Clients, Cas!Authorized(c)
    PROVE  BlobInv'
  <1>t. job \in [Clients -> Jobs] /\ JobInv(c) /\ session \in [Ids -> Sessions \cup {None}]
    BY DEF BlobInv, BlobTypes
  <1>1. PICK j : j = [job[c] EXCEPT !.pc = "upload"]
    OBVIOUS
  <1>2. /\ j \in Jobs /\ j.pc = "upload" /\ j.left = {} /\ j.id = job[c].id
        /\ j.etags = job[c].etags /\ j.work = job[c].work /\ j.flight = job[c].flight
        /\ j.completed = job[c].completed /\ j.failed = job[c].failed
    BY <1>t, <1>1 DEF Cas!Authorized, Jobs
  <1>3. job' = [job EXCEPT ![c] = j] /\ job[c].pc = "asking" /\ job[c].left = {}
    BY <1>1 DEF Cas!Authorized, Cas!Go
  <1>4. UNCHANGED <<object, session, swept, forsaken>>
    BY DEF Cas!Authorized
  <1>5. JobInv(c)'
    <2>1. Transfer(job[c]) /\ Completed(job[c]) /\ Covered(job[c], Needs[c])
      BY <1>t, <1>3 DEF JobInv, Active
    <2>2. Transfer(j) /\ Completed(j) /\ Covered(j, Needs[c])
      BY <1>2, <1>3, <2>1 DEF Transfer, Completed, Covered
    <2>3. Transfer(j)' /\ Completed(j)' /\ Covered(j, Needs[c])'
      BY <1>4, <2>2 DEF Transfer, Completed, Covered
    <2> QED
      BY <1>t, <1>2, <1>3, <2>3 DEF JobInv, Asked, Transfer, Completed, Covered
  <1>6. Active(j)
    BY <1>2 DEF Active
  <1> QED
    BY <1>t, <1>2, <1>3, <1>4, <1>5, <1>6, JobMoves

(* The workers are done: what is open is to be aborted. *)
LEMMA UploadEndsStep ==
    ASSUME BlobInv, NEW c \in Clients, Cas!UploadEnds(c)
    PROVE  BlobInv'
  <1>t. job \in [Clients -> Jobs] /\ JobInv(c) /\ session \in [Ids -> Sessions \cup {None}]
        /\ Large \subseteq Blobs
    BY UploadsAssumption DEF BlobInv, BlobTypes
  <1>4. UNCHANGED <<object, session, swept, forsaken>> /\ job[c].pc = "upload"
    BY DEF Cas!UploadEnds
  <1>5. /\ Transfer(job[c]) /\ Completed(job[c]) /\ Covered(job[c], Needs[c])
        /\ job[c].left = {} /\ job[c].flight = {}
    BY <1>t, <1>4 DEF JobInv, Active, Asked, Cas!UploadEnds
  <1>6. ASSUME job[c].failed
        PROVE  BlobInv'
    <2>1. PICK j : j = [job[c] EXCEPT !.pc = "abort",
                                      !.left = {b \in Large : job[c].id[b] # None}
                                               \ job[c].completed]
      OBVIOUS
    <2>2. /\ j \in Jobs /\ j.pc = "abort" /\ j.id = job[c].id
          /\ j.left = {b \in Large : job[c].id[b] # None} \ job[c].completed
      BY <1>t, <2>1 DEF Jobs
    <2>3. job' = [job EXCEPT ![c] = j]
      BY <1>6, <2>1 DEF Cas!UploadEnds, Cas!Go
    <2>4. JobInv(c)'
      BY <1>t, <2>2, <2>3 DEF JobInv, Asked, Active
    <2>5. \A b \in Large : job[c].id[b] # None /\ session[job[c].id[b]] # None => b \in j.left
      BY <1>5, <2>2 DEF Completed
    <2> QED
      BY <1>t, <1>4, <2>2, <2>3, <2>4, <2>5, JobMoves
  <1>7. ASSUME ~job[c].failed
        PROVE  BlobInv'
    <2>1. PICK j : j = [job[c] EXCEPT !.pc = "uploaded", !.left = {}]
      OBVIOUS
    <2>2. j \in Jobs /\ j.pc = "uploaded" /\ j.id = job[c].id
      BY <1>t, <2>1 DEF Jobs
    <2>3. job' = [job EXCEPT ![c] = j] /\ job[c].work = {}
      BY <1>7, <2>1 DEF Cas!UploadEnds, Cas!Go
    <2>4. Needs[c] \subseteq object \cup swept
      BY <1>5, <1>7, <2>3 DEF Covered
    <2>5. JobInv(c)'
      BY <1>t, <1>4, <2>2, <2>3, <2>4 DEF JobInv, Asked, Active
    <2>6. \A b \in Large : job[c].id[b] # None => session[job[c].id[b]] = None
      <3> SUFFICES ASSUME NEW b \in Large, job[c].id[b] # None
                   PROVE  session[job[c].id[b]] = None
        OBVIOUS
      <3>1. \A p \in Parts : p \in job[c].etags[b]
        BY <1>5, <1>7, <2>3 DEF Covered
      <3>2. job[c].etags[b] = Parts
        BY <1>t, <3>1 DEF Jobs
      <3>3. b \in job[c].completed
        BY <1>5, <1>7, <2>3, <3>2 DEF Covered
      <3> QED
        BY <1>5, <3>3 DEF Completed
    <2> QED
      BY <1>t, <1>4, <2>2, <2>3, <2>5, <2>6, JobMoves
  <1> QED
    BY <1>6, <1>7

(* One upload is aborted, or its abort is lost. *)
LEMMA AbortBlobStep ==
    ASSUME BlobInv, NEW c \in Clients, NEW b \in Blobs, Cas!AbortBlob(c, b)
    PROVE  BlobInv'
  <1>t. job \in [Clients -> Jobs] /\ JobInv(c) /\ session \in [Ids -> Sessions \cup {None}]
        /\ Large \subseteq Blobs
    BY UploadsAssumption DEF BlobInv, BlobTypes
  <1>1. PICK j : j = [job[c] EXCEPT !.left = @ \ {b}]
    OBVIOUS
  <1>2. /\ j \in Jobs /\ j.pc = "abort" /\ j.id = job[c].id /\ j.left = job[c].left \ {b}
        /\ job[c].pc = "abort" /\ b \in job[c].left
    BY <1>t, <1>1, ZenonT(60) DEF Cas!AbortBlob, Jobs
  <1>3. job' = [job EXCEPT ![c] = j] /\ UNCHANGED <<object, swept>>
    BY <1>1 DEF Cas!AbortBlob, Cas!Go
  <1>4. \/ session' = [session EXCEPT ![job[c].id[b]] = None] /\ forsaken' = forsaken
        \/ session' = session /\ forsaken' = forsaken \cup {job[c].id[b]}
    BY DEF Cas!AbortBlob
  <1>5. session' \in [Ids -> Sessions \cup {None}] /\ forsaken \subseteq forsaken'
    BY <1>t, <1>4
  <1>6. JobInv(c)'
    BY <1>t, <1>2, <1>3 DEF JobInv, Asked, Active
  <1>7. ASSUME NEW d \in Clients \ {c}, NEW a \in Large, job[d].id[a] # None, b \in Large
        PROVE  session'[job[d].id[a]] = session[job[d].id[a]]
    <2>1. job[d].id[a] # job[c].id[b]
      BY <1>7 DEF BlobInv, IdsDiffer
    <2>2. job[d].id[a] \in Ids
      BY <1>t, <1>7 DEF Jobs
    <2> QED
      BY <1>t, <1>4, <2>1, <2>2
  <1>l. b \in Large
    BY <1>t, <1>2 DEF JobInv, Asked
  <1>8. \A i \in Ids : session'[i] # None => session[i] # None
    BY <1>t, <1>4
  <1>9. ASSUME NEW a \in Large, job[c].id[a] # None, job[c].id[a] \notin forsaken',
               session'[job[c].id[a]] # None, a \in job[c].left
        PROVE  a \in j.left
    <2>1. job[c].id[a] \in Ids
      BY <1>t, <1>9 DEF Jobs
    <2> QED
      BY <1>t, <1>2, <1>4, <1>9, <2>1
  <1> QED
    BY <1>2, <1>3, <1>5, <1>6, <1>7, <1>8, <1>9, <1>l, JobMoves DEF Active

(* The aborts are done, and the job has failed. *)
LEMMA AbortEndsStep ==
    ASSUME BlobInv, NEW c \in Clients, Cas!AbortEnds(c)
    PROVE  BlobInv'
  <1>t. job \in [Clients -> Jobs] /\ JobInv(c) /\ session \in [Ids -> Sessions \cup {None}]
    BY DEF BlobInv, BlobTypes
  <1>1. PICK j : j = [job[c] EXCEPT !.pc = "failed"]
    OBVIOUS
  <1>2. j \in Jobs /\ j.pc = "failed" /\ j.id = job[c].id
    BY <1>t, <1>1 DEF Jobs
  <1>3. /\ job' = [job EXCEPT ![c] = j] /\ UNCHANGED <<object, session, swept, forsaken>>
        /\ job[c].pc = "abort" /\ job[c].left = {}
    BY <1>1 DEF Cas!AbortEnds, Cas!Go
  <1>4. JobInv(c)'
    BY <1>t, <1>2, <1>3 DEF JobInv, Asked, Active
  <1> QED
    BY <1>t, <1>2, <1>3, <1>4, JobMoves DEF Active

(* A request for a blob or one of its parts. *)
LEMMA TransferFacts ==
    ASSUME NEW b \in Blobs, NEW p \in Parts \cup {"whole", "complete"}
    PROVE  /\ Cas!Transfer(b, p) \in Transfers
           /\ Cas!Transfer(b, p).blob = b /\ Cas!Transfer(b, p).part = p
  BY DEF Cas!Transfer, Transfers

(* A job moves to j: what holds of j holds of the job. *)
LEMMA JobIsNow ==
    ASSUME NEW c \in Clients, NEW j, job'[c] = j, Active(j),
           Asked(j), Transfer(j)', Completed(j)', Covered(j, Needs[c])'
    PROVE  JobInv(c)'
  <1>1. Asked(job[c])'
    BY DEF Asked
  <1>2. Transfer(job[c])'
    BY DEF Transfer
  <1>3. Completed(job[c])'
    BY DEF Completed
  <1>4. Covered(job[c], Needs[c])'
    BY DEF Covered
  <1>5. job'[c].pc # "uploaded"
    BY DEF Active
  <1> QED
    BY <1>1, <1>2, <1>3, <1>4, <1>5 DEF JobInv

(* A blob that is there is skipped. *)
LEMMA SkipStep ==
    ASSUME BlobInv, NEW c \in Clients, NEW b \in Blobs, job[c].pc = "asking",
           b \in job[c].left, b \in object,
           Cas!Go(c, [job[c] EXCEPT !.left = @ \ {b}]),
           UNCHANGED <<object, session, swept, forsaken>>
    PROVE  BlobInv'
  <1>t. job \in [Clients -> Jobs] /\ JobInv(c) /\ session \in [Ids -> Sessions \cup {None}]
    BY DEF BlobInv, BlobTypes
  <1>1. PICK j : j = [job[c] EXCEPT !.left = @ \ {b}]
    OBVIOUS
  <1>2. /\ j \in Jobs /\ j.pc = "asking" /\ j.left = job[c].left \ {b} /\ j.id = job[c].id
        /\ j.etags = job[c].etags /\ j.work = job[c].work /\ j.flight = job[c].flight
        /\ j.completed = job[c].completed /\ j.failed = job[c].failed
    BY <1>t, <1>1 DEF Jobs
  <1>3. job' = [job EXCEPT ![c] = j]
    BY <1>1 DEF Cas!Go
  <1>4. Asked(j)
    BY <1>t, <1>2 DEF JobInv, Asked
  <1>5. Transfer(j) /\ Completed(j) /\ Covered(j, Needs[c])
    BY <1>t, <1>2 DEF JobInv, Active, Transfer, Completed, Covered
  <1>6. JobInv(c)'
    <2>1. Asked(j)' /\ Transfer(j)' /\ Completed(j)' /\ Covered(j, Needs[c])'
      BY <1>4, <1>5 DEF Asked, Transfer, Completed, Covered
    <2> QED
      BY <1>t, <1>2, <1>3, <2>1 DEF JobInv, Asked, Transfer, Completed, Covered
  <1> QED
    BY <1>t, <1>2, <1>3, <1>6, JobMoves DEF Active

(* A small blob is sent whole. *)
LEMMA AskWholeStep ==
    ASSUME BlobInv, NEW c \in Clients, NEW b \in Blobs \ Large, job[c].pc = "asking",
           b \in job[c].left,
           Cas!Go(c, [job[c] EXCEPT !.left = @ \ {b},
                                    !.work = @ \cup {Cas!Transfer(b, "whole")}]),
           UNCHANGED <<object, session, swept, forsaken>>
    PROVE  BlobInv'
  <1>t. job \in [Clients -> Jobs] /\ JobInv(c) /\ session \in [Ids -> Sessions \cup {None}]
    BY DEF BlobInv, BlobTypes
  <1>0. PICK new \in Transfers : /\ new = Cas!Transfer(b, "whole")
                                 /\ new.blob = b /\ new.part = "whole"
    BY TransferFacts
  <1>1. PICK j : j = [job[c] EXCEPT !.left = @ \ {b}, !.work = @ \cup {new}]
    OBVIOUS
  <1>2. /\ j \in Jobs /\ j.pc = "asking" /\ j.left = job[c].left \ {b} /\ j.id = job[c].id
        /\ j.etags = job[c].etags /\ j.work = job[c].work \cup {new}
        /\ j.flight = job[c].flight /\ j.completed = job[c].completed
        /\ j.failed = job[c].failed
    BY <1>t, <1>1, ZenonT(60) DEF Jobs
  <1>3. job' = [job EXCEPT ![c] = j]
    BY <1>0, <1>1 DEF Cas!Go
  <1>a. /\ Asked(job[c]) /\ Transfer(job[c]) /\ Completed(job[c])
        /\ Covered(job[c], Needs[c]) /\ job[c].flight = {} /\ ~job[c].failed
    BY <1>t DEF JobInv, Active, Asked
  <1>4. Asked(j)
    BY <1>0, <1>2, <1>a DEF Asked
  <1>5. Transfer(j)
    <2>1. \A t \in job[c].work : t.blob # b
      BY <1>a DEF Asked
    <2> QED
      BY <1>0, <1>2, <1>a, <2>1, UploadsAssumption DEF Transfer
  <1>6. Completed(j)
    BY <1>2, <1>a DEF Completed
  <1>7. Covered(j, Needs[c])
    <2>1. \A t \in job[c].work \cup job[c].flight : t \in j.work \cup j.flight
      BY <1>2
    <2>2. new \in j.work /\ new.blob = b
      BY <1>0, <1>2
    <2> QED
      BY <1>2, <1>a, <2>1, <2>2 DEF Covered
  <1>8. JobInv(c)'
    <2>1. Asked(j)' /\ Transfer(j)' /\ Completed(j)' /\ Covered(j, Needs[c])'
      BY <1>4, <1>5, <1>6, <1>7 DEF Asked, Transfer, Completed, Covered
    <2> QED
      BY <1>t, <1>2, <1>3, <2>1 DEF JobInv, Asked, Transfer, Completed, Covered
  <1> QED
    BY <1>t, <1>2, <1>3, <1>8, JobMoves DEF Active

(* A multipart upload is opened for a large blob, under an identifier of its own. *)
LEMMA AskPartsStep ==
    ASSUME BlobInv, NEW c \in Clients, NEW b \in Large, job[c].pc = "asking",
           b \in job[c].left, NEW i \in Cas!Free,
           session' = [session EXCEPT ![i] = [blob |-> b, parts |-> {}]],
           Cas!Go(c, [job[c] EXCEPT !.left = @ \ {b}, !.id[b] = i,
                                    !.work = @ \cup {Cas!Transfer(b, p) : p \in Parts}]),
           UNCHANGED <<object, swept, forsaken>>
    PROVE  BlobInv'
  <1>t. job \in [Clients -> Jobs] /\ JobInv(c) /\ session \in [Ids -> Sessions \cup {None}]
        /\ b \in Blobs
    BY UploadsAssumption DEF BlobInv, BlobTypes
  <1>i. /\ i \in Ids /\ i # None /\ session[i] = None
        /\ \A d \in Clients, a \in Large : job[d].id[a] # i
    BY NoneAssumption DEF Cas!Free, Cas!IdsOf
  <1>0. PICK news \in SUBSET Transfers :
           /\ news = {Cas!Transfer(b, p) : p \in Parts}
           /\ \A t \in news : t.blob = b /\ t.part \in Parts
           /\ \A p \in Parts : \E t \in news : t.blob = b /\ t.part = p
           /\ \A t, u \in news : t.part = u.part => t = u
    <2>1. \A p \in Parts : /\ Cas!Transfer(b, p) \in Transfers
                           /\ Cas!Transfer(b, p).blob = b /\ Cas!Transfer(b, p).part = p
      BY <1>t, TransferFacts
    <2>2. PICK news : news = {Cas!Transfer(b, p) : p \in Parts}
      OBVIOUS
    <2>3. /\ \A t \in news : t \in Transfers /\ t.blob = b /\ t.part \in Parts
                             /\ t = Cas!Transfer(b, t.part)
          /\ \A p \in Parts : \E t \in news : t.blob = b /\ t.part = p
      BY <2>1, <2>2
    <2>4. news \in SUBSET Transfers /\ \A t, u \in news : t.part = u.part => t = u
      BY <2>3
    <2> QED
      BY <2>2, <2>3, <2>4
  <1>1. PICK j : j = [job[c] EXCEPT !.left = @ \ {b}, !.id[b] = i, !.work = @ \cup news]
    OBVIOUS
  <1>2. /\ j \in Jobs /\ j.pc = "asking" /\ j.left = job[c].left \ {b}
        /\ j.id = [job[c].id EXCEPT ![b] = i]
        /\ j.etags = job[c].etags /\ j.work = job[c].work \cup news
        /\ j.flight = job[c].flight /\ j.completed = job[c].completed
        /\ j.failed = job[c].failed
    BY <1>t, <1>i, <1>1, ZenonT(60) DEF Jobs
  <1>3. job' = [job EXCEPT ![c] = j]
    BY <1>0, <1>1 DEF Cas!Go
  <1>a. /\ Asked(job[c]) /\ Transfer(job[c])
        /\ Covered(job[c], Needs[c]) /\ job[c].flight = {} /\ ~job[c].failed
        /\ job[c].completed = {} /\ \A a \in Large : job[c].etags[a] = {}
        /\ job[c].id[b] = None /\ \A t \in job[c].work : t.blob # b
    BY <1>t DEF JobInv, Active, Asked
  <1>d. job[c].id \in [Large -> Ids \cup {None}]
    BY <1>t DEF Jobs
  <1>e. j.id[b] = i /\ \A a \in Large \ {b} : j.id[a] = job[c].id[a]
    BY <1>2, <1>d
  <1>s. /\ session' \in [Ids -> Sessions \cup {None}] /\ session'[i] # None
        /\ \A k \in Ids \ {i} : session'[k] = session[k]
    <2>1. PICK new : new = [blob |-> b, parts |-> {}]
      OBVIOUS
    <2>2. new \in Sessions /\ new # None
      BY <1>t, <2>1, NoneAssumption DEF Sessions
    <2> QED
      BY <1>t, <1>i, <2>1, <2>2
  <1>4. Asked(j)
    BY <1>0, <1>2, <1>a, <1>e DEF Asked
  <1>5. Transfer(j)'
    <2>1. j.work \cap j.flight = {}
      BY <1>2, <1>a
    <2>2. \A t, u \in j.work \cup j.flight : t.blob = u.blob /\ t.part = u.part => t = u
      BY <1>0, <1>2, <1>a DEF Transfer
    <2>3. ASSUME NEW t \in news
          PROVE  /\ t.part # "whole" /\ t.part # "complete" /\ t.blob \in Large
                 /\ j.id[t.blob] # None /\ t.part \notin j.etags[t.blob]
                 /\ session'[j.id[t.blob]] # None
      BY <1>0, <1>2, <1>a, <1>e, <1>i, <1>s, UploadsAssumption
    <2>4. ASSUME NEW t \in job[c].work
          PROVE  /\ t.part = "whole" => t.blob \notin Large
                 /\ t.part # "whole" => t.blob \in Large /\ j.id[t.blob] # None
                 /\ t.part \in Parts => /\ t.part \notin j.etags[t.blob]
                                        /\ session'[j.id[t.blob]] # None
                 /\ t.part = "complete" => j.etags[t.blob] = Parts
      <3>1. CASE t.part = "whole"
        BY <1>a, <3>1, UploadsAssumption DEF Transfer
      <3>2. CASE t.part # "whole"
        <4>1. t.blob \in Large /\ t.blob # b /\ job[c].id[t.blob] # None
          BY <1>a, <3>2 DEF Transfer
        <4>2. j.id[t.blob] = job[c].id[t.blob] /\ job[c].id[t.blob] \in Ids \ {i}
          BY <1>d, <1>e, <1>i, <4>1
        <4> QED
          BY <1>2, <1>a, <1>s, <3>2, <4>1, <4>2 DEF Transfer
      <3> QED
        BY <3>1, <3>2
    <2> QED
      BY <1>2, <1>a, <2>1, <2>2, <2>3, <2>4 DEF Transfer
  <1>6. Completed(j)'
    BY <1>2, <1>a DEF Completed
  <1>7. Covered(j, Needs[c])'
    <2>1. \A t \in job[c].work \cup job[c].flight : t \in j.work \cup j.flight
      BY <1>2
    <2>2. \A p \in Parts : \E t \in j.work \cup j.flight : t.blob = b /\ t.part = p
      BY <1>0, <1>2
    <2>3. j.etags[b] # Parts
      BY <1>2, <1>a, UploadsAssumption
    <2>4. \E t \in j.work \cup j.flight : t.blob = b
      BY <2>2, UploadsAssumption
    <2>5. \A x \in Large : j.id[x] # None =>
             /\ \A p \in Parts : p \in j.etags[x] \/
                   \E t \in j.work \cup j.flight : t.blob = x /\ t.part = p
             /\ j.etags[x] = Parts => x \in j.completed \/
                   \E t \in j.work \cup j.flight : t.blob = x /\ t.part = "complete"
      BY <1>2, <1>a, <1>e, <2>1, <2>2, <2>3 DEF Covered
    <2>6. \A x \in Needs[c] : x \in j.left \cup object' \cup swept' \/
             \E t \in j.work \cup j.flight : t.blob = x
      BY <1>2, <1>a, <2>1, <2>4 DEF Covered
    <2> QED
      BY <2>5, <2>6 DEF Covered
  <1>8. JobInv(c)'
    <2>1. job'[c] = j /\ Active(j)
      BY <1>t, <1>2, <1>3 DEF Active
    <2> QED
      BY <1>4, <1>5, <1>6, <1>7, <2>1, JobIsNow
  <1>9. ASSUME NEW d \in Clients \ {c}
        PROVE  JobInv(d)'
    <2>1. job'[d] = job[d]
      BY <1>t, <1>3
    <2>2. \A a \in Large : job[d].id[a] # None =>
             (session'[job[d].id[a]] = None <=> session[job[d].id[a]] = None)
      BY <1>t, <1>i, <1>s DEF Jobs
    <2> QED
      BY <2>1, <2>2, JobIsLeft
  <1>10. IdsDiffer'
    <2>1. job'[c] = j /\ \A d \in Clients \ {c} : job'[d] = job[d]
      BY <1>t, <1>3
    <2> QED
      BY <1>e, <1>i, <2>1 DEF BlobInv, IdsDiffer
  <1>11. ASSUME NEW k \in Ids \ forsaken', session'[k] # None
         PROVE  Owned(k)'
    <2>1. CASE k = i
      BY <1>t, <1>2, <1>3, <1>e, <2>1 DEF Owned, Active
    <2>2. CASE k # i
      <3>1. Owned(k)
        BY <1>11, <1>s, <2>2 DEF BlobInv
      <3>2. PICK d \in Clients, a \in Large :
               /\ job[d].id[a] = k
               /\ Active(job[d]) \/ (job[d].pc = "abort" /\ a \in job[d].left)
        BY <3>1 DEF Owned
      <3>3. CASE d = c
        <4>1. a # b
          BY <1>a, <3>2, <3>3, NoneAssumption
        <4>2. job'[c].id[a] = k /\ Active(job'[c])
          BY <1>t, <1>2, <1>3, <1>e, <3>2, <3>3, <4>1 DEF Active
        <4> QED
          BY <4>2 DEF Owned, Active
      <3>4. CASE d # c
        BY <1>t, <1>3, <3>2, <3>4 DEF Owned, Active
      <3> QED
        BY <3>3, <3>4
    <2> QED
      BY <2>1, <2>2
  <1>12. BlobTypes'
    BY <1>t, <1>2, <1>3, <1>s DEF BlobTypes
  <1> QED
    BY <1>8, <1>9, <1>10, <1>11, <1>12 DEF BlobInv

(* One blob is authorized, in any of the three ways. *)
LEMMA AuthorizeBlobStep ==
    ASSUME BlobInv, NEW c \in Clients, NEW b \in Blobs, Cas!AuthorizeBlob(c, b)
    PROVE  BlobInv'
  <1>0. /\ job[c].pc = "asking" /\ b \in job[c].left /\ UNCHANGED <<object, swept, forsaken>>
        /\ job[c] \in Jobs
    BY DEF Cas!AuthorizeBlob, BlobInv, BlobTypes
  <1>1. CASE /\ b \in object /\ Cas!Go(c, [job[c] EXCEPT !.left = @ \ {b}])
             /\ UNCHANGED session
    BY <1>0, <1>1, SkipStep
  <1>2. CASE /\ b \notin Large /\ UNCHANGED session
             /\ Cas!Go(c, [[job[c] EXCEPT !.left = @ \ {b}]
                              EXCEPT !.work = @ \cup {Cas!Transfer(b, "whole")}])
    <2>1. [[job[c] EXCEPT !.left = @ \ {b}] EXCEPT !.work = @ \cup {Cas!Transfer(b, "whole")}]
          = [job[c] EXCEPT !.left = @ \ {b}, !.work = @ \cup {Cas!Transfer(b, "whole")}]
      BY <1>0 DEF Jobs
    <2> QED
      BY <1>0, <1>2, <2>1, AskWholeStep
  <1>3. ASSUME NEW i \in Cas!Free, b \in Large,
               session' = [session EXCEPT ![i] = [blob |-> b, parts |-> {}]],
               Cas!Go(c, [[job[c] EXCEPT !.left = @ \ {b}]
                            EXCEPT !.id[b] = i,
                                   !.work = @ \cup {Cas!Transfer(b, p) : p \in Parts}])
        PROVE  BlobInv'
    <2> DEFINE news == {Cas!Transfer(b, p) : p \in Parts}
    <2>1. [[job[c] EXCEPT !.left = @ \ {b}] EXCEPT !.id[b] = i, !.work = @ \cup news]
          = [job[c] EXCEPT !.left = @ \ {b}, !.id[b] = i, !.work = @ \cup news]
      <3> HIDE DEF news
      <3> QED
        BY <1>0 DEF Jobs
    <2> QED
      BY <1>0, <1>3, <2>1, AskPartsStep
  <1> QED
    BY <1>1, <1>2, <1>3 DEF Cas!AuthorizeBlob, Cas!Available

(* What a request of a worker may do to the store: it adds an object, and it closes
   no multipart upload but the one it completes. *)
Reached(c, t) ==
    /\ session' \in [Ids -> Sessions \cup {None}]
    /\ \A k \in Ids :
          \/ session'[k] = None <=> session[k] = None
          \/ t.part = "complete" /\ k = job[c].id[t.blob] /\ session'[k] = None
    /\ object \subseteq object'
    /\ UNCHANGED <<swept, forsaken>>

(* The requests of a worker. *)
LEMMA WorkerFacts ==
    ASSUME BlobInv, NEW c \in Clients, job[c].pc = "upload", NEW t \in job[c].flight
    PROVE  /\ job \in [Clients -> Jobs] /\ job[c] \in Jobs
           /\ session \in [Ids -> Sessions \cup {None}]
           /\ t \in Transfers
           /\ Transfer(job[c]) /\ Completed(job[c]) /\ Covered(job[c], Needs[c])
           /\ job[c].left = {}
           /\ t.part # "whole" => /\ t.blob \in Large
                                 /\ job[c].id[t.blob] \in Ids /\ job[c].id[t.blob] # None
  <1>1. job \in [Clients -> Jobs] /\ session \in [Ids -> Sessions \cup {None}] /\ JobInv(c)
    BY DEF BlobInv, BlobTypes
  <1>2. /\ Transfer(job[c]) /\ Completed(job[c]) /\ Covered(job[c], Needs[c])
        /\ job[c].left = {}
    BY <1>1 DEF JobInv, Active, Asked
  <1>3. job[c] \in Jobs /\ t \in Transfers
    BY <1>1 DEF Jobs
  <1>4. t.part # "whole" => t.blob \in Large /\ job[c].id[t.blob] # None
    BY <1>2 DEF Transfer
  <1> QED
    BY <1>1, <1>2, <1>3, <1>4 DEF Jobs

(* A PUT reaches the store or does not. *)
LEMMA PutReaches ==
    ASSUME BlobInv, NEW c \in Clients, job[c].pc = "upload", NEW t \in job[c].flight,
           t.part # "complete", Cas!Stored(c, t) \/ Cas!Unstored,
           UNCHANGED <<swept, forsaken>>
    PROVE  Reached(c, t)
  <1>t. /\ session \in [Ids -> Sessions \cup {None}] /\ Transfer(job[c]) /\ t \in Transfers
        /\ t.part # "whole" => t.blob \in Large /\ job[c].id[t.blob] \in Ids
    BY WorkerFacts
  <1>1. CASE Cas!Unstored
    BY <1>t, <1>1 DEF Reached, Cas!Unstored
  <1>2. CASE Cas!Stored(c, t) /\ t.part = "whole"
    BY <1>t, <1>2 DEF Reached, Cas!Stored
  <1>3. CASE Cas!Stored(c, t) /\ t.part # "whole"
    <2>1. PICK i \in Ids : i = job[c].id[t.blob]
      BY <1>t, <1>3
    <2>2. t.part \in Parts /\ session[i] # None
      BY <1>t, <1>3, <2>1 DEF Transfer, Transfers
    <2>3. session[i] \in Sessions
      BY <1>t, <2>2
    <2>4. PICK new : new = [session[i] EXCEPT !.parts = @ \cup {t.part}]
      OBVIOUS
    <2>5. new \in Sessions /\ new # None
      BY <2>2, <2>3, <2>4, NoneAssumption DEF Sessions
    <2>6. session' = [session EXCEPT ![i] = new] /\ object' = object
      BY <1>3, <2>1, <2>4 DEF Cas!Stored
    <2> QED
      BY <1>t, <2>2, <2>5, <2>6 DEF Reached
  <1> QED
    BY <1>1, <1>2, <1>3

(* So does a completion. *)
LEMMA CompleteReaches ==
    ASSUME BlobInv, NEW c \in Clients, job[c].pc = "upload", NEW t \in job[c].flight,
           t.part = "complete", Cas!Assembled(c, t.blob) \/ Cas!Unstored,
           UNCHANGED <<swept, forsaken>>
    PROVE  Reached(c, t)
  <1>t. session \in [Ids -> Sessions \cup {None}] /\ job[c].id[t.blob] \in Ids
    BY WorkerFacts
  <1> QED
    BY <1>t DEF Reached, Cas!Unstored, Cas!Assembled

(* A request closes no multipart upload that has parts to come, and opens none. *)
LEMMA OpenStays ==
    ASSUME BlobInv, NEW c \in Clients, job[c].pc = "upload", NEW t \in job[c].flight,
           Reached(c, t), NEW b \in Large, job[c].id[b] # None
    PROVE  /\ session[job[c].id[b]] = None => session'[job[c].id[b]] = None
           /\ session[job[c].id[b]] # None /\ job[c].etags[b] # Parts =>
                  session'[job[c].id[b]] # None
  <1>t. /\ job[c] \in Jobs /\ Transfer(job[c])
        /\ t.part # "whole" => t.blob \in Large
    BY WorkerFacts
  <1>1. job[c].id[b] \in Ids
    BY <1>t DEF Jobs
  <1>2. t.part = "complete" /\ job[c].id[b] = job[c].id[t.blob] => t.blob = b
    BY <1>t DEF BlobInv, IdsDiffer
  <1>3. t.part = "complete" => job[c].etags[t.blob] = Parts
    BY <1>t DEF Transfer
  <1> QED
    BY <1>1, <1>2, <1>3 DEF Reached

(* So the multipart uploads that parts are still to come for stay open. *)
LEMMA PartsStayOpen ==
    ASSUME BlobInv, NEW c \in Clients, job[c].pc = "upload", NEW t \in job[c].flight,
           Reached(c, t)
    PROVE  \A u \in job[c].work \cup job[c].flight : u.part \in Parts =>
               session'[job[c].id[u.blob]] # None
  <1> SUFFICES ASSUME NEW u \in job[c].work \cup job[c].flight, u.part \in Parts
               PROVE  session'[job[c].id[u.blob]] # None
    OBVIOUS
  <1>1. Transfer(job[c])
    BY WorkerFacts
  <1>2. /\ u.blob \in Large /\ job[c].id[u.blob] # None
        /\ session[job[c].id[u.blob]] # None /\ job[c].etags[u.blob] # Parts
    BY <1>1, UploadsAssumption DEF Transfer
  <1> QED
    BY <1>2, OpenStays

(* A job that goes on uploading. *)
LEMMA UploadMoves ==
    ASSUME BlobInv, NEW c \in Clients, job[c].pc = "upload", NEW t \in job[c].flight,
           Reached(c, t),
           NEW j \in Jobs, Cas!Go(c, j),
           j.pc = "upload", j.id = job[c].id, j.left = {},
           Transfer(j)', Completed(j)', Covered(j, Needs[c])'
    PROVE  BlobInv'
  <1>t. /\ job \in [Clients -> Jobs]
        /\ t.part # "whole" => t.blob \in Large /\ job[c].id[t.blob] # None
    BY WorkerFacts
  <1>1. job' = [job EXCEPT ![c] = j]
    BY DEF Cas!Go
  <1>2. Active(j) /\ Asked(j) /\ job'[c] = j
    BY <1>t, <1>1 DEF Active, Asked
  <1>3. JobInv(c)'
    BY <1>2, JobIsNow
  <1>4. ASSUME NEW d \in Clients \ {c}, NEW b \in Large, job[d].id[b] # None
        PROVE  session'[job[d].id[b]] = None <=> session[job[d].id[b]] = None
    <2>1. job[d].id[b] \in Ids
      BY <1>t, <1>4 DEF Jobs
    <2>2. t.part = "complete" => job[d].id[b] # job[c].id[t.blob]
      BY <1>t, <1>4 DEF BlobInv, IdsDiffer
    <2> QED
      BY <2>1, <2>2 DEF Reached
  <1>5. /\ session' \in [Ids -> Sessions \cup {None}]
        /\ \A i \in Ids : session'[i] # None => session[i] # None
        /\ \A b \in Blobs : b \in object \cup swept => b \in object' \cup swept'
        /\ forsaken' = forsaken
    BY DEF Reached
  <1> QED
    BY <1>1, <1>2, <1>3, <1>4, <1>5, JobMoves

(* A request ends without success: the transfers that are left are as before. *)
LEMMA FailStep ==
    ASSUME BlobInv, NEW c \in Clients, job[c].pc = "upload", NEW t \in job[c].flight,
           Reached(c, t), Cas!Fails(c, t)
    PROVE  BlobInv'
  <1>t. /\ job[c] \in Jobs /\ t \in Transfers /\ job[c].left = {}
        /\ Transfer(job[c]) /\ Completed(job[c])
    BY WorkerFacts
  <1>1. PICK j : j = [job[c] EXCEPT !.flight = @ \ {t}, !.failed = TRUE]
    OBVIOUS
  <1>2. /\ j \in Jobs /\ j.pc = "upload" /\ j.left = {} /\ j.id = job[c].id
        /\ j.etags = job[c].etags /\ j.work = job[c].work /\ j.flight = job[c].flight \ {t}
        /\ j.completed = job[c].completed /\ j.failed
    BY <1>t, <1>1 DEF Jobs
  <1>3. Cas!Go(c, j)
    BY <1>1 DEF Cas!Fails
  <1>4. Transfer(j)'
    <2>1. \A u \in job[c].work \cup job[c].flight : u.part \in Parts =>
              session'[job[c].id[u.blob]] # None
      BY PartsStayOpen
    <2> QED
      BY <1>t, <1>2, <2>1 DEF Transfer
  <1>5. Completed(j)'
    BY <1>t, <1>2, OpenStays DEF Completed, Reached, Jobs
  <1>6. Covered(j, Needs[c])'
    BY <1>2 DEF Covered
  <1> QED
    BY <1>2, <1>3, <1>4, <1>5, <1>6, UploadMoves

(* A request fails, or is cancelled. *)
LEMMA FailsStep ==
    ASSUME BlobInv, NEW c \in Clients, NEW t \in job[c].flight,
           Cas!PutFails(c, t) \/ Cas!CompleteFails(c, t) \/ Cas!Cancelled(c, t)
    PROVE  BlobInv'
  <1>1. job[c].pc = "upload" /\ Cas!Fails(c, t) /\ UNCHANGED <<swept, forsaken>>
    BY DEF Cas!PutFails, Cas!CompleteFails, Cas!Cancelled
  <1>2. \/ t.part # "complete" /\ (Cas!Stored(c, t) \/ Cas!Unstored)
        \/ t.part = "complete" /\ (Cas!Assembled(c, t.blob) \/ Cas!Unstored)
    BY DEF Cas!PutFails, Cas!CompleteFails, Cas!Cancelled
  <1>3. Reached(c, t)
    BY <1>1, <1>2, PutReaches, CompleteReaches
  <1> QED
    BY <1>1, <1>3, FailStep

(* A worker takes a transfer. *)
LEMMA TakeStep ==
    ASSUME BlobInv, NEW c \in Clients, NEW t \in job[c].work, Cas!Take(c, t)
    PROVE  BlobInv'
  <1>t. /\ job \in [Clients -> Jobs] /\ JobInv(c) /\ session \in [Ids -> Sessions \cup {None}]
        /\ job[c].pc = "upload" /\ UNCHANGED <<object, session, swept, forsaken>>
    BY DEF BlobInv, BlobTypes, Cas!Take
  <1>a. /\ Transfer(job[c]) /\ Completed(job[c]) /\ Covered(job[c], Needs[c])
        /\ job[c].left = {} /\ job[c] \in Jobs /\ t \in Transfers
    BY <1>t DEF JobInv, Active, Asked, Jobs
  <1>1. PICK j : j = [job[c] EXCEPT !.work = @ \ {t}, !.flight = @ \cup {t}]
    OBVIOUS
  <1>2. /\ j \in Jobs /\ j.pc = "upload" /\ j.left = {} /\ j.id = job[c].id
        /\ j.etags = job[c].etags /\ j.work = job[c].work \ {t}
        /\ j.flight = job[c].flight \cup {t}
        /\ j.completed = job[c].completed /\ j.failed = job[c].failed
    BY <1>t, <1>a, <1>1 DEF Jobs
  <1>3. job' = [job EXCEPT ![c] = j]
    BY <1>1 DEF Cas!Take, Cas!Go
  <1>4. j.work \cup j.flight = job[c].work \cup job[c].flight
    BY <1>2
  <1>5. Transfer(j)'
    <2>1. j.work \cap j.flight = {}
      BY <1>2, <1>a DEF Transfer
    <2> QED
      BY <1>t, <1>2, <1>4, <1>a, <2>1 DEF Transfer
  <1>6. Completed(j)'
    BY <1>t, <1>2, <1>a DEF Completed
  <1>7. Covered(j, Needs[c])'
    BY <1>t, <1>2, <1>4, <1>a DEF Covered
  <1>8. Active(j) /\ Asked(j) /\ job'[c] = j
    BY <1>t, <1>2, <1>3 DEF Active, Asked
  <1>9. JobInv(c)'
    BY <1>5, <1>6, <1>7, <1>8, JobIsNow
  <1> QED
    BY <1>t, <1>2, <1>3, <1>8, <1>9, JobMoves

(* A request is tried again: the same part, once more. *)
LEMMA RetryStep ==
    ASSUME BlobInv, NEW c \in Clients, NEW t \in job[c].flight, Cas!PutRetried(c, t)
    PROVE  BlobInv'
  <1>0. job[c].pc = "upload" /\ t.part # "complete" /\ UNCHANGED <<swept, forsaken>>
    BY DEF Cas!PutRetried
  <1>r. Reached(c, t)
    BY <1>0, PutReaches DEF Cas!PutRetried
  <1>t. /\ job[c] \in Jobs /\ t \in Transfers /\ job[c].left = {}
        /\ Transfer(job[c]) /\ Completed(job[c]) /\ Covered(job[c], Needs[c])
    BY <1>0, WorkerFacts
  <1>n. PICK new \in Transfers : /\ new = [t EXCEPT !.try = @ + 1]
                                 /\ new.blob = t.blob /\ new.part = t.part
    <2>1. /\ [t EXCEPT !.try = @ + 1] \in Transfers
          /\ [t EXCEPT !.try = @ + 1].blob = t.blob
          /\ [t EXCEPT !.try = @ + 1].part = t.part
      BY <1>t DEF Transfers
    <2> QED
      BY <2>1
  <1>1. PICK j : j = [job[c] EXCEPT !.flight = (@ \ {t}) \cup {new}]
    OBVIOUS
  <1>2. /\ j \in Jobs /\ j.pc = "upload" /\ j.left = {} /\ j.id = job[c].id
        /\ j.etags = job[c].etags /\ j.work = job[c].work
        /\ j.flight = (job[c].flight \ {t}) \cup {new}
        /\ j.completed = job[c].completed /\ j.failed = job[c].failed
    BY <1>0, <1>t, <1>1 DEF Jobs
  <1>3. Cas!Go(c, j)
    BY <1>n, <1>1 DEF Cas!PutRetried
  <1>4. Transfer(j)'
    <2>1. \A u \in job[c].work \cup job[c].flight : u.part \in Parts =>
              session'[job[c].id[u.blob]] # None
      BY <1>0, <1>r, PartsStayOpen
    <2>2. \A u \in (job[c].work \cup job[c].flight) \ {t} :
              ~(u.blob = t.blob /\ u.part = t.part)
      BY <1>t DEF Transfer
    <2>3. j.work \cap j.flight = {}
      <3>1. t \notin job[c].work /\ job[c].work \cap job[c].flight = {}
        BY <1>t DEF Transfer
      <3>2. new \notin job[c].work
        BY <1>n, <2>2, <3>1
      <3> QED
        BY <1>2, <3>1, <3>2
    <2>4. ASSUME NEW u \in j.work \cup j.flight, NEW v \in j.work \cup j.flight,
                 u.blob = v.blob, u.part = v.part
          PROVE  u = v
      <3>1. t \notin job[c].work
        BY <1>t DEF Transfer
      <3>2. /\ u \in (job[c].work \cup job[c].flight) \ {t} \/ u = new
            /\ v \in (job[c].work \cup job[c].flight) \ {t} \/ v = new
        BY <1>2, <2>4, <3>1
      <3>3. CASE u = new \/ v = new
        BY <1>n, <2>2, <2>4, <3>2, <3>3
      <3>4. CASE u # new /\ v # new
        BY <1>t, <2>4, <3>2, <3>4 DEF Transfer
      <3> QED
        BY <3>3, <3>4
    <2>5. \A u \in j.work \cup j.flight : \E v \in job[c].work \cup job[c].flight :
              u.blob = v.blob /\ u.part = v.part
      BY <1>2, <1>n
    <2> QED
      BY <1>t, <1>2, <2>1, <2>3, <2>4, <2>5 DEF Transfer
  <1>5. Completed(j)'
    BY <1>0, <1>r, <1>t, <1>2, OpenStays DEF Completed, Reached, Jobs
  <1>6. Covered(j, Needs[c])'
    <2>1. \A u \in job[c].work \cup job[c].flight : \E v \in j.work \cup j.flight :
              u.blob = v.blob /\ u.part = v.part
      BY <1>2, <1>n
    <2>2. \A b \in Large : j.id[b] # None =>
             /\ \A p \in Parts : p \in j.etags[b] \/ j.failed \/
                   \E v \in j.work \cup j.flight : v.blob = b /\ v.part = p
             /\ j.etags[b] = Parts => b \in j.completed \/ j.failed \/
                   \E v \in j.work \cup j.flight : v.blob = b /\ v.part = "complete"
      BY <1>t, <1>2, <2>1 DEF Covered
    <2>3. \A b \in Needs[c] : b \in j.left \cup object' \cup swept' \/ j.failed \/
             \E v \in j.work \cup j.flight : v.blob = b
      BY <1>r, <1>t, <1>2, <2>1 DEF Covered, Reached
    <2> QED
      BY <2>2, <2>3 DEF Covered
  <1> QED
    BY <1>0, <1>r, <1>2, <1>3, <1>4, <1>5, <1>6, UploadMoves

(* A small blob is stored. *)
LEMMA WholeStoredStep ==
    ASSUME BlobInv, NEW c \in Clients, NEW t \in job[c].flight, Cas!PutSucceeds(c, t),
           t.part = "whole"
    PROVE  BlobInv'
  <1>0. job[c].pc = "upload" /\ t.part # "complete" /\ UNCHANGED <<swept, forsaken>>
    BY DEF Cas!PutSucceeds
  <1>r. Reached(c, t) /\ t.blob \in object'
    BY <1>0, PutReaches DEF Cas!PutSucceeds, Cas!Stored
  <1>t. /\ job[c] \in Jobs /\ t \in Transfers /\ job[c].left = {}
        /\ Transfer(job[c]) /\ Completed(job[c]) /\ Covered(job[c], Needs[c])
    BY <1>0, WorkerFacts
  <1>1. PICK j : j = [job[c] EXCEPT !.flight = @ \ {t}]
    OBVIOUS
  <1>2. /\ j \in Jobs /\ j.pc = "upload" /\ j.left = {} /\ j.id = job[c].id
        /\ j.etags = job[c].etags /\ j.work = job[c].work /\ j.flight = job[c].flight \ {t}
        /\ j.completed = job[c].completed /\ j.failed = job[c].failed
    BY <1>0, <1>t, <1>1 DEF Jobs
  <1>3. Cas!Go(c, j)
    BY <1>1 DEF Cas!PutSucceeds
  <1>w. t.blob \notin Large
    BY <1>t DEF Transfer
  <1>4. Transfer(j)'
    <2>1. \A u \in job[c].work \cup job[c].flight : u.part \in Parts =>
              session'[job[c].id[u.blob]] # None
      BY <1>0, <1>r, PartsStayOpen
    <2> QED
      BY <1>t, <1>2, <2>1 DEF Transfer
  <1>5. Completed(j)'
    BY <1>0, <1>r, <1>t, <1>2, OpenStays DEF Completed, Reached, Jobs
  <1>6. Covered(j, Needs[c])'
    <2>1. \A u \in job[c].work \cup job[c].flight : u \in j.work \cup j.flight \/ u = t
      BY <1>2
    <2> QED
      BY <1>r, <1>t, <1>w, <1>2, <2>1 DEF Covered, Reached
  <1> QED
    BY <1>0, <1>r, <1>2, <1>3, <1>4, <1>5, <1>6, UploadMoves

(* The ETag of a part arrives, and it is not the last. *)
LEMMA EtagStep ==
    ASSUME BlobInv, NEW c \in Clients, NEW t \in job[c].flight, job[c].pc = "upload",
           t.part \in Parts, Reached(c, t), NEW w \in SUBSET Transfers,
           \A u \in w : u.blob = t.blob /\ u.part = "complete",
           \A u, v \in w : u = v,
           job[c].etags[t.blob] \cup {t.part} = Parts <=> w # {},
           Cas!Go(c, [job[c] EXCEPT !.flight = (@ \ {t}) \cup w,
                                    !.etags[t.blob] = @ \cup {t.part}])
    PROVE  BlobInv'
  <1>t. /\ job[c] \in Jobs /\ t \in Transfers /\ job[c].left = {}
        /\ Transfer(job[c]) /\ Completed(job[c]) /\ Covered(job[c], Needs[c])
    BY WorkerFacts
  <1>p. t.part # "whole" /\ t.part # "complete"
    BY UploadsAssumption
  <1>b. PICK b \in Large : b = t.blob
    BY <1>t, <1>p DEF Transfer
  <1>k. job[c].id[b] # None /\ t.part \notin job[c].etags[b] /\ session[job[c].id[b]] # None
    BY <1>t, <1>p, <1>b DEF Transfer
  <1>1. PICK j : j = [job[c] EXCEPT !.flight = (@ \ {t}) \cup w, !.etags[b] = @ \cup {t.part}]
    OBVIOUS
  <1>e. job[c].etags \in [Large -> SUBSET Parts]
    BY <1>t DEF Jobs
  <1>2. /\ j \in Jobs /\ j.pc = "upload" /\ j.left = {} /\ j.id = job[c].id
        /\ j.etags = [job[c].etags EXCEPT ![b] = @ \cup {t.part}] /\ j.work = job[c].work
        /\ j.flight = (job[c].flight \ {t}) \cup w
        /\ j.completed = job[c].completed /\ j.failed = job[c].failed
    BY <1>t, <1>e, <1>1 DEF Jobs
  <1>3. Cas!Go(c, j)
    BY <1>b, <1>1
  <1>4. /\ j.etags[b] = job[c].etags[b] \cup {t.part}
        /\ \A a \in Large \ {b} : j.etags[a] = job[c].etags[a]
    BY <1>2, <1>e
  <1>5. \A u \in job[c].work \cup job[c].flight : u.blob = b => u.part # "complete"
    BY <1>t, <1>k DEF Transfer
  <1>6. b \notin job[c].completed
    BY <1>t, <1>k DEF Completed
  <1>7. \A u \in job[c].work \cup (job[c].flight \ {t}) :
            ~(u.blob = t.blob /\ u.part = t.part)
    <2>1. t \notin job[c].work
      BY <1>t DEF Transfer
    <2> QED
      BY <1>t, <2>1 DEF Transfer
  <1>8. Transfer(j)'
    <2>1. j.work \cap j.flight = {}
      <3>1. job[c].work \cap job[c].flight = {}
        BY <1>t DEF Transfer
      <3>2. job[c].work \cap w = {}
        BY <1>b, <1>5
      <3> QED
        BY <1>2, <3>1, <3>2
    <2>2. ASSUME NEW u \in j.work \cup j.flight, NEW v \in j.work \cup j.flight,
                 u.blob = v.blob, u.part = v.part
          PROVE  u = v
      <3>1. CASE u \in w \/ v \in w
        BY <1>2, <1>b, <1>5, <2>2, <3>1
      <3>2. CASE u \notin w /\ v \notin w
        BY <1>2, <1>t, <2>2, <3>2 DEF Transfer
      <3> QED
        BY <3>1, <3>2
    <2>3. ASSUME NEW u \in w
          PROVE  /\ u.blob \in Large /\ j.id[u.blob] # None /\ j.etags[u.blob] = Parts
                 /\ u.part = "complete" /\ u.part \notin Parts /\ u.part # "whole"
      BY <1>2, <1>4, <1>b, <1>k, UploadsAssumption
    <2>4. ASSUME NEW u \in job[c].work \cup (job[c].flight \ {t})
          PROVE  /\ u.part = "whole" => u.blob \notin Large
                 /\ u.part # "whole" => u.blob \in Large /\ j.id[u.blob] # None
                 /\ u.part \in Parts => /\ u.part \notin j.etags[u.blob]
                                        /\ session'[j.id[u.blob]] # None
                 /\ u.part = "complete" => j.etags[u.blob] = Parts
      <3>1. /\ u.part = "whole" => u.blob \notin Large
            /\ u.part # "whole" => u.blob \in Large /\ job[c].id[u.blob] # None
            /\ u.part \in Parts => u.part \notin job[c].etags[u.blob]
            /\ u.part = "complete" => job[c].etags[u.blob] = Parts
        BY <1>t, <2>4 DEF Transfer
      <3>2. u.part \in Parts => session'[job[c].id[u.blob]] # None
        BY <2>4, PartsStayOpen
      <3>3. u.part \in Parts => u.part # "whole"
        BY UploadsAssumption
      <3>4. CASE u.blob = b
        <4>1. u.part # t.part /\ u.part # "complete"
          BY <1>5, <1>7, <1>b, <2>4, <3>4
        <4> QED
          BY <1>2, <1>4, <3>1, <3>2, <3>4, <4>1
      <3>5. CASE u.blob # b
        BY <1>2, <1>4, <3>1, <3>2, <3>3, <3>5
      <3> QED
        BY <3>4, <3>5
    <2> QED
      BY <1>2, <2>1, <2>2, <2>3, <2>4 DEF Transfer
  <1>9. Completed(j)'
    <2>1. ASSUME NEW a \in job[c].completed
          PROVE  /\ j.id[a] # None /\ session'[j.id[a]] = None /\ j.etags[a] = Parts
                 /\ a \in object' \cup swept'
      <3>1. a \in Large /\ a # b
        BY <1>t, <1>6, <2>1 DEF Jobs
      <3>2. /\ job[c].id[a] # None /\ session[job[c].id[a]] = None
            /\ job[c].etags[a] = Parts /\ a \in object \cup swept
        BY <1>t, <2>1 DEF Completed
      <3> QED
        BY <1>2, <1>4, <3>1, <3>2, OpenStays DEF Reached
    <2> QED
      BY <1>2, <2>1 DEF Completed
  <1>10. Covered(j, Needs[c])'
    <2>1. \A u \in job[c].work \cup job[c].flight : u \in j.work \cup j.flight \/ u = t
      BY <1>2
    <2>2. \A u \in w : u \in j.work \cup j.flight
      BY <1>2
    <2>3. ASSUME ~job[c].failed, NEW a \in Large, j.id[a] # None
          PROVE  /\ \A p \in Parts : p \in j.etags[a] \/
                       \E u \in j.work \cup j.flight : u.blob = a /\ u.part = p
                 /\ j.etags[a] = Parts => a \in j.completed \/
                       \E u \in j.work \cup j.flight : u.blob = a /\ u.part = "complete"
      <3>1. /\ \A p \in Parts : p \in job[c].etags[a] \/
                   \E u \in job[c].work \cup job[c].flight : u.blob = a /\ u.part = p
            /\ job[c].etags[a] = Parts => a \in job[c].completed \/
                   \E u \in job[c].work \cup job[c].flight : u.blob = a /\ u.part = "complete"
        BY <1>2, <1>t, <2>3 DEF Covered
      <3>2. CASE a = b
        <4>1. \A p \in Parts : p \in j.etags[a] \/
                  \E u \in j.work \cup j.flight : u.blob = a /\ u.part = p
          BY <1>4, <2>1, <3>1, <3>2
        <4>2. j.etags[a] = Parts =>
                  \E u \in j.work \cup j.flight : u.blob = a /\ u.part = "complete"
          BY <1>b, <1>4, <2>2, <3>2
        <4> QED
          BY <4>1, <4>2
      <3>3. CASE a # b
        BY <1>2, <1>4, <1>b, <2>1, <3>1, <3>3
      <3> QED
        BY <3>2, <3>3
    <2>4. ASSUME ~job[c].failed, NEW a \in Needs[c]
          PROVE  a \in j.left \cup object' \cup swept' \/
                     \E u \in j.work \cup j.flight : u.blob = a
      <3>1. a \in object' \cup swept' \/ \E u \in job[c].work \cup job[c].flight : u.blob = a
        BY <1>t, <2>4 DEF Covered, Reached
      <3>2. \E u \in j.work \cup j.flight : u.blob = b
        <4>1. PICK p \in Parts \cup {"complete"} :
                 \E u \in j.work \cup j.flight : u.blob = b /\ u.part = p
          <5>1. CASE w # {}
            BY <1>b, <2>2, <5>1
          <5>2. CASE w = {}
            <6>1. PICK p \in Parts : p \notin j.etags[b]
              BY <1>e, <1>b, <1>4, <5>2
            <6> QED
              BY <1>2, <1>k, <2>3, <2>4, <6>1
          <5> QED
            BY <5>1, <5>2
        <4> QED
          BY <4>1
      <3> QED
        BY <1>b, <2>1, <3>1, <3>2
    <2> QED
      BY <1>2, <2>3, <2>4 DEF Covered
  <1> QED
    BY <1>2, <1>3, <1>8, <1>9, <1>10, UploadMoves

(* A PUT succeeds: a blob is stored, or a part of one. *)
LEMMA PutSucceedsStep ==
    ASSUME BlobInv, NEW c \in Clients, NEW t \in job[c].flight, Cas!PutSucceeds(c, t)
    PROVE  BlobInv'
  <1>0. job[c].pc = "upload" /\ t.part # "complete" /\ UNCHANGED <<swept, forsaken>>
    BY DEF Cas!PutSucceeds
  <1>r. Reached(c, t)
    BY <1>0, PutReaches DEF Cas!PutSucceeds
  <1>t. job[c] \in Jobs /\ t \in Transfers /\ (t.part # "whole" => t.blob \in Large)
    BY <1>0, WorkerFacts
  <1>1. CASE t.part = "whole"
    BY <1>1, WholeStoredStep
  <1>2. CASE t.part # "whole"
    <2>1. t.part \in Parts
      BY <1>0, <1>t, <1>2 DEF Transfers
    <2>e. job[c].etags \in [Large -> SUBSET Parts]
      BY <1>t DEF Jobs
    <2>2. PICK k : k = [[job[c] EXCEPT !.flight = @ \ {t}]
                           EXCEPT !.etags[t.blob] = @ \cup {t.part}]
      OBVIOUS
    <2>3. /\ k.etags[t.blob] = job[c].etags[t.blob] \cup {t.part}
          /\ k = [job[c] EXCEPT !.flight = (@ \ {t}) \cup {},
                                !.etags[t.blob] = @ \cup {t.part}]
      BY <1>t, <1>2, <2>e, <2>2 DEF Jobs
    <2>4. Cas!Go(c, IF k.etags[t.blob] # Parts THEN k
                    ELSE [k EXCEPT !.flight = @ \cup {[t EXCEPT !.part = "complete"]}])
      BY <1>2, <2>2 DEF Cas!PutSucceeds
    <2>5. CASE k.etags[t.blob] # Parts
      <3>1. PICK w \in SUBSET Transfers : w = {}
        OBVIOUS
      <3>2. Cas!Go(c, [job[c] EXCEPT !.flight = (@ \ {t}) \cup w,
                                     !.etags[t.blob] = @ \cup {t.part}])
        BY <2>3, <2>4, <2>5, <3>1
      <3>3. job[c].etags[t.blob] \cup {t.part} = Parts <=> w # {}
        BY <2>3, <2>5, <3>1
      <3> QED
        BY <1>0, <1>r, <2>1, <3>1, <3>2, <3>3, EtagStep
    <2>6. CASE k.etags[t.blob] = Parts
      <3>1. PICK new : new = [t EXCEPT !.part = "complete"]
        OBVIOUS
      <3>2. new \in Transfers /\ new.blob = t.blob /\ new.part = "complete"
        BY <1>t, <3>1 DEF Transfers
      <3>3. [k EXCEPT !.flight = @ \cup {new}]
            = [job[c] EXCEPT !.flight = (@ \ {t}) \cup {new},
                             !.etags[t.blob] = @ \cup {t.part}]
        BY <1>t, <1>2, <2>e, <2>2 DEF Jobs
      <3>4. Cas!Go(c, [k EXCEPT !.flight = @ \cup {new}])
        BY <2>4, <2>6, <3>1
      <3>5. PICK w \in SUBSET Transfers : w = {new}
        BY <3>2
      <3>6. Cas!Go(c, [job[c] EXCEPT !.flight = (@ \ {t}) \cup w,
                                     !.etags[t.blob] = @ \cup {t.part}])
        BY <3>3, <3>4, <3>5
      <3>7. job[c].etags[t.blob] \cup {t.part} = Parts <=> w # {}
        BY <2>3, <2>6, <3>5
      <3>8. /\ \A u \in w : u.blob = t.blob /\ u.part = "complete"
            /\ \A u, v \in w : u = v
        BY <3>2, <3>5
      <3> QED
        BY <1>0, <1>r, <2>1, <3>6, <3>7, <3>8, EtagStep
    <2> QED
      BY <2>5, <2>6
  <1> QED
    BY <1>1, <1>2

(* A blob is assembled from its parts. *)
LEMMA CompleteSucceedsStep ==
    ASSUME BlobInv, NEW c \in Clients, NEW t \in job[c].flight, Cas!CompleteSucceeds(c, t)
    PROVE  BlobInv'
  <1>0. /\ job[c].pc = "upload" /\ t.part = "complete" /\ UNCHANGED <<swept, forsaken>>
        /\ Cas!Assembled(c, t.blob)
    BY DEF Cas!CompleteSucceeds
  <1>r. Reached(c, t)
    BY <1>0, CompleteReaches
  <1>t. /\ job[c] \in Jobs /\ t \in Transfers /\ job[c].left = {}
        /\ Transfer(job[c]) /\ Completed(job[c]) /\ Covered(job[c], Needs[c])
        /\ session \in [Ids -> Sessions \cup {None}]
    BY <1>0, WorkerFacts
  <1>b. PICK b \in Large : b = t.blob
    BY <1>0, <1>t DEF Transfer
  <1>k. /\ job[c].id[b] \in Ids /\ job[c].id[b] # None /\ job[c].etags[b] = Parts
        /\ session'[job[c].id[b]] = None /\ b \in object'
    <2>1. job[c].id[b] \in Ids /\ job[c].id[b] # None
      BY <1>0, <1>b, WorkerFacts
    <2> QED
      BY <1>0, <1>b, <1>t, <2>1 DEF Transfer, Cas!Assembled
  <1>1. PICK j : j = [job[c] EXCEPT !.flight = @ \ {t}, !.completed = @ \cup {b}]
    OBVIOUS
  <1>2. /\ j \in Jobs /\ j.pc = "upload" /\ j.left = {} /\ j.id = job[c].id
        /\ j.etags = job[c].etags /\ j.work = job[c].work /\ j.flight = job[c].flight \ {t}
        /\ j.completed = job[c].completed \cup {b} /\ j.failed = job[c].failed
    BY <1>0, <1>t, <1>1 DEF Jobs
  <1>3. Cas!Go(c, j)
    BY <1>b, <1>1 DEF Cas!CompleteSucceeds
  <1>4. Transfer(j)'
    <2>1. \A u \in job[c].work \cup job[c].flight : u.part \in Parts =>
              session'[job[c].id[u.blob]] # None
      BY <1>0, <1>r, PartsStayOpen
    <2> QED
      BY <1>t, <1>2, <2>1 DEF Transfer
  <1>5. Completed(j)'
    <2>1. ASSUME NEW a \in job[c].completed
          PROVE  /\ job[c].id[a] # None /\ session'[job[c].id[a]] = None
                 /\ job[c].etags[a] = Parts /\ a \in object' \cup swept'
      <3>1. a \in Large
        BY <1>t, <2>1 DEF Jobs
      <3>2. /\ job[c].id[a] # None /\ session[job[c].id[a]] = None
            /\ job[c].etags[a] = Parts /\ a \in object \cup swept
        BY <1>t, <2>1 DEF Completed
      <3> QED
        BY <1>0, <1>r, <3>1, <3>2, OpenStays DEF Reached
    <2> QED
      BY <1>2, <1>k, <2>1 DEF Completed
  <1>6. Covered(j, Needs[c])'
    <2>1. \A u \in job[c].work \cup job[c].flight : u \in j.work \cup j.flight \/ u = t
      BY <1>2
    <2>2. ASSUME ~job[c].failed, NEW a \in Large, j.id[a] # None
          PROVE  /\ \A p \in Parts : p \in j.etags[a] \/
                       \E u \in j.work \cup j.flight : u.blob = a /\ u.part = p
                 /\ j.etags[a] = Parts => a \in j.completed \/
                       \E u \in j.work \cup j.flight : u.blob = a /\ u.part = "complete"
      <3>1. /\ \A p \in Parts : p \in job[c].etags[a] \/
                   \E u \in job[c].work \cup job[c].flight : u.blob = a /\ u.part = p
            /\ job[c].etags[a] = Parts => a \in job[c].completed \/
                   \E u \in job[c].work \cup job[c].flight : u.blob = a /\ u.part = "complete"
        BY <1>2, <1>t, <2>2 DEF Covered
      <3>2. t.part \notin Parts
        BY <1>0, UploadsAssumption
      <3> QED
        BY <1>2, <1>b, <2>1, <3>1, <3>2
    <2>3. \A a \in Needs[c] : ~job[c].failed =>
             a \in object' \cup swept' \/ \E u \in j.work \cup j.flight : u.blob = a
      BY <1>b, <1>k, <1>r, <1>t, <2>1 DEF Covered, Reached
    <2> QED
      BY <1>2, <2>2, <2>3 DEF Covered
  <1> QED
    BY <1>0, <1>r, <1>2, <1>3, <1>4, <1>5, <1>6, UploadMoves

(* The blobs of an old release are swept. *)
LEMMA SweepStep ==
    ASSUME BlobInv, NEW b \in Blobs, Cas!Sweep(b)
    PROVE  BlobInv'
  <1>1. /\ UNCHANGED <<session, job, forsaken>>
        /\ object' = object \ {b} /\ swept' = swept \cup {b}
    BY DEF Cas!Sweep
  <1>2. \A a \in Blobs : a \in object \cup swept => a \in object' \cup swept'
    BY <1>1
  <1>3. \A c \in Clients : JobInv(c)'
    BY <1>1, <1>2, JobIsLeft
  <1>4. BlobTypes' /\ IdsDiffer'
    BY <1>1 DEF BlobInv, BlobTypes, IdsDiffer
  <1>5. \A i \in Ids \ forsaken' : session'[i] # None => Owned(i)'
    BY <1>1 DEF BlobInv, Owned, Active
  <1> QED
    BY <1>3, <1>4, <1>5 DEF BlobInv

(* Every step of the blobs keeps the invariant. *)
LEMMA BlobsStep ==
    ASSUME BlobInv, Cas!CasNext
    PROVE  BlobInv'
  <1>1. ASSUME NEW c \in Clients,
               \/ Cas!BeginPut(c) \/ Cas!Authorized(c) \/ Cas!AuthorizeFails(c)
               \/ Cas!UploadEnds(c) \/ Cas!AbortEnds(c) \/ Cas!Publish(c)
               \/ Cas!PublishFails(c) \/ Cas!Kill(c) \/ Cas!Rerun(c)
        PROVE  BlobInv'
    BY <1>1, BeginPutStep, AuthorizedStep, UploadEndsStep, AbortEndsStep, EndsStep
  <1>2. ASSUME NEW c \in Clients, NEW b \in Blobs,
               Cas!AuthorizeBlob(c, b) \/ Cas!AbortBlob(c, b)
        PROVE  BlobInv'
    BY <1>2, AuthorizeBlobStep, AbortBlobStep
  <1>3. ASSUME NEW c \in Clients, NEW t \in job[c].work, Cas!Take(c, t)
        PROVE  BlobInv'
    BY <1>3, TakeStep
  <1>4. ASSUME NEW c \in Clients, NEW t \in job[c].flight,
               \/ Cas!PutSucceeds(c, t) \/ Cas!PutRetried(c, t) \/ Cas!PutFails(c, t)
               \/ Cas!CompleteSucceeds(c, t) \/ Cas!CompleteFails(c, t) \/ Cas!Cancelled(c, t)
        PROVE  BlobInv'
    BY <1>4, PutSucceedsStep, RetryStep, CompleteSucceedsStep, FailsStep
  <1>5. ASSUME NEW b \in Blobs, Cas!Sweep(b)
        PROVE  BlobInv'
    BY <1>5, SweepStep
  <1> QED
    BY <1>1, <1>2, <1>3, <1>4, <1>5 DEF Cas!CasNext

(* No job has begun. *)
LEMMA BlobsStart == Cas!CasInit => BlobInv
  <1> SUFFICES ASSUME Cas!CasInit PROVE BlobInv
    OBVIOUS
  <1>1. /\ job \in [Clients -> Jobs] /\ session \in [Ids -> Sessions \cup {None}]
        /\ \A i \in Ids : session[i] = None
        /\ \A c \in Clients : job[c].pc = "new" /\ \A b \in Large : job[c].id[b] = None
    BY JobAt DEF Cas!CasInit
  <1> QED
    BY <1>1 DEF BlobInv, BlobTypes, IdsDiffer, JobInv, Asked, Active

(* What the invariant says of the properties. *)
LEMMA BlobsStored == BlobInv => Cas!StoredWhenReported /\ Cas!NothingLeftOpen
  <1> SUFFICES ASSUME BlobInv PROVE Cas!StoredWhenReported /\ Cas!NothingLeftOpen
    OBVIOUS
  <1>1. Cas!StoredWhenReported
    BY DEF BlobInv, JobInv, Cas!StoredWhenReported
  <1>2. ASSUME NEW i \in Ids \ forsaken, session[i] # None
        PROVE  \E c \in Clients : /\ job[c].pc \in {"asking", "upload", "abort"}
                                  /\ i \in Cas!IdsOf(job[c])
    <2>1. PICK c \in Clients, b \in Large :
             /\ job[c].id[b] = i
             /\ Active(job[c]) \/ (job[c].pc = "abort" /\ b \in job[c].left)
      BY <1>2 DEF BlobInv, Owned
    <2>2. i # None
      BY NoneAssumption
    <2> QED
      BY <2>1, <2>2 DEF Active, Cas!IdsOf
  <1> QED
    BY <1>1, <1>2 DEF Cas!NothingLeftOpen

-----------------------------------------------------------------------------
(* The build of a release: steps. *)

(* A pipeline moves on by itself: the others are left as they are. *)
LEMMA RunMoves ==
    ASSUME BuildInv, NEW r \in Clients, NEW j \in Runs, run' = [run EXCEPT ![r] = j],
           BuildTypes', Kept', UNCHANGED <<counter, built, declared, released>>,
           \A v \in Build!Versions : tree[v] # None => tree'[v] = tree[v],
           Works(r, j)', j.pc # "produce",
           j.pc \notin {"new", "failed", "done"} => Build!Active(r) /\ j.code = run[r].code
    PROVE  BuildInv'
  <1>1. run \in [Clients -> Runs]
    BY DEF BuildInv, BuildTypes
  <1>2. run'[r] = j /\ \A q \in Clients \ {r} : run'[q] = run[q]
    BY <1>1
  <1>3. ASSUME NEW q \in Clients PROVE Works(q, run[q])'
    <2>1. CASE q = r
      BY <1>2, <2>1 DEF Works, IsDeclared
    <2>2. CASE q # r
      <3>1. run'[q] = run[q] /\ Works(q, run[q])
        BY <1>2, <2>2 DEF BuildInv
      <3>2. VersionOf[q] \in Build!Versions
        BY DEF Build!Versions
      <3> QED
        BY <3>1, <3>2 DEF Works, IsDeclared
    <2> QED
      BY <2>1, <2>2
  <1>4. RunsDiffer'
    BY <1>2 DEF BuildInv, RunsDiffer, Build!Active
  <1>5. Shipped'
    <2>1. Shipped
      BY DEF BuildInv
    <2>2. ASSUME NEW p \in released, p.by \in Strict, NEW q \in Clients, Build!Active(q)'
          PROVE  run'[q].code # p.tree.code
      BY <1>2, <2>1, <2>2 DEF Shipped, Build!Active
    <2> QED
      BY <2>1, <2>2 DEF Shipped, IsDeclared, Build!CodeNamesOneRelease
  <1> QED
    BY <1>3, <1>4, <1>5 DEF BuildInv

(* A code is claimed, whether or not the answer arrives: it is higher than those that
   are in use or were released. *)
LEMMA ClaimStep ==
    ASSUME BuildInv, NEW r \in Clients, Build!ClaimReleaseCode(r) \/ Build!ClaimLost(r)
    PROVE  BuildInv'
  <1>1. /\ run \in [Clients -> Runs] /\ counter \in Nat /\ shelf \in Nat
        /\ UNCHANGED <<shelf, out, producers, built, declared, bundle, tree, released>>
        /\ counter' = Build!NextCode
    BY DEF BuildInv, BuildTypes, Build!ClaimReleaseCode, Build!ClaimLost
  <1>2. counter' \in Nat /\ counter' > counter
    BY <1>1 DEF Build!NextCode
  <1>3. \A q \in Clients : run[q] \in Runs /\ Works(q, run[q])
    BY <1>1 DEF BuildInv
  <1>4. Shipped /\ RunsDiffer /\ released \subseteq [by : Clients, v : Build!Versions, tree : Build!Trees]
    BY DEF BuildInv, BuildTypes
  <1>5. Kept'
    BY <1>1 DEF BuildInv, Kept, IsDeclared
  <1>6. CASE Build!ClaimLost(r)
    <2>1. run' = run
      BY <1>6 DEF Build!ClaimLost
    <2>2. BuildTypes'
      BY <1>1, <1>2, <2>1 DEF BuildInv, BuildTypes
    <2>3. ASSUME NEW q \in Clients PROVE Works(q, run[q])'
      <3>1. run[q] \in Runs /\ Works(q, run[q])
        BY <1>3
      <3> QED
        BY <1>1, <1>2, <2>1, <3>1 DEF Works, IsDeclared, Runs
    <2>4. RunsDiffer'
      BY <1>4, <2>1 DEF RunsDiffer, Build!Active
    <2>5. Shipped'
      BY <1>1, <1>2, <1>4, <2>1 DEF Shipped, IsDeclared, Build!CodeNamesOneRelease, Build!Active, Build!Trees, Build!Codes
    <2> QED
      BY <1>5, <2>2, <2>3, <2>4, <2>5 DEF BuildInv
  <1>7. CASE Build!ClaimReleaseCode(r)
    <2>1. PICK j : j = [run[r] EXCEPT !.pc = "ready", !.code = counter']
      OBVIOUS
    <2>2. run' = [run EXCEPT ![r] = j]
      BY <1>1, <1>7, <2>1 DEF Build!ClaimReleaseCode
    <2>3. j \in Runs /\ j.pc = "ready" /\ j.code = counter'
      BY <1>2, <1>3, <2>1 DEF Runs, BuildPcs
    <2>4. run'[r] = j /\ \A q \in Clients \ {r} : run'[q] = run[q]
      BY <1>1, <2>2
    <2>5. BuildTypes'
      BY <1>1, <1>2, <2>2, <2>3 DEF BuildInv, BuildTypes
    <2>6. ASSUME NEW q \in Clients PROVE Works(q, run[q])'
      <3>1. CASE q = r
        BY <1>2, <2>3, <2>4, <3>1 DEF Works
      <3>2. CASE q # r
        <4>1. run[q] \in Runs /\ Works(q, run[q]) /\ run'[q] = run[q]
          BY <1>3, <2>4, <3>2
        <4> QED
          BY <1>1, <1>2, <4>1 DEF Works, IsDeclared, Runs
      <3> QED
        BY <3>1, <3>2
    <2>7. \A q \in Clients : Build!Active(q) => run[q].code < counter'
      BY <1>1, <1>2, <1>3 DEF Works, Runs, Build!Active
    <2>8. RunsDiffer'
      BY <1>2, <1>3, <1>4, <2>3, <2>4, <2>7 DEF RunsDiffer, Build!Active, Runs
    <2>9. Shipped'
      <3>1. ASSUME NEW p \in released, p.by \in Strict
            PROVE  /\ p.tree.code < counter'
                   /\ \A q \in Clients : Build!Active(q)' => run'[q].code # p.tree.code
        <4>1. p.tree.code \in Nat /\ p.tree.code <= counter
          BY <1>4, <3>1 DEF Shipped, Build!Trees, Build!Codes
        <4> QED
          BY <1>1, <1>2, <1>4, <2>3, <2>4, <3>1, <4>1 DEF Shipped, Build!Active
      <3>2. ASSUME NEW p \in released, p.by \in Strict PROVE p.tree.code <= counter'
        BY <1>2, <1>4, <3>1, <3>2 DEF Build!Trees, Build!Codes
      <3> QED
        BY <1>1, <1>4, <3>1, <3>2 DEF Shipped, IsDeclared, Build!CodeNamesOneRelease
    <2> QED
      BY <1>5, <2>5, <2>6, <2>8, <2>9 DEF BuildInv
  <1> QED
    BY <1>6, <1>7

(* A producer starts in a directory of its own. *)
LEMMA ProduceStep ==
    ASSUME BuildInv, NEW r \in Clients, NEW t \in Targets, Build!Produce(r, t)
    PROVE  BuildInv'
  <1>1. /\ run[r].pc = "ready" /\ built < MaxBuilds /\ built \in Nat /\ run \in [Clients -> Runs]
        /\ UNCHANGED <<counter, shelf, out, declared, bundle, tree, released>>
        /\ built' = built + 1
        /\ producers' = producers \cup {[at |-> Build!At(r, t), build |-> built + 1]}
    BY DEF BuildInv, BuildTypes, Build!Produce
  <1>2. built + 1 \in Build!Builds
    BY <1>1, BuildAssumption DEF Build!Builds
  <1>3. VersionOf[r] \in Build!Versions /\ Build!At(r, t) \in Build!Places
    BY DEF Build!Versions, Build!At, Build!Places
  <1>4. PICK j : j = [run[r] EXCEPT !.pc = "produce", !.at = t, !.build = built + 1]
    OBVIOUS
  <1>5. run' = [run EXCEPT ![r] = j]
    BY <1>1, <1>4 DEF Build!Produce
  <1>6. /\ j \in Runs /\ j.pc = "produce" /\ j.at = t /\ j.build = built + 1
        /\ j.code = run[r].code
    BY <1>1, <1>2, <1>4 DEF Runs, BuildPcs
  <1>7. run'[r] = j /\ \A q \in Clients \ {r} : run'[q] = run[q]
    BY <1>1, <1>5
  <1>8. BuildTypes'
    BY <1>1, <1>2, <1>3, <1>5, <1>6 DEF BuildInv, BuildTypes
  <1>9. Kept'
    BY <1>1 DEF BuildInv, Kept, IsDeclared, Build!Builds
  <1>10. ASSUME NEW q \in Clients PROVE Works(q, run[q])'
    <2>1. Works(q, run[q]) /\ run[q] \in Runs
      BY <1>1 DEF BuildInv
    <2>2. CASE q = r
      <3>1. declared[built + 1] = None
        BY <1>1, <1>2 DEF BuildInv, Kept
      <3> QED
        BY <1>1, <1>2, <1>6, <1>7, <2>1, <2>2, <3>1 DEF Works
    <2>3. CASE q # r
      BY <1>1, <1>7, <2>1, <2>3 DEF Works, IsDeclared, Build!Builds
    <2> QED
      BY <2>2, <2>3
  <1>11. \A q \in Clients : run[q].pc = "produce" => run[q].build # built + 1
    BY <1>1 DEF BuildInv, Works, Build!Builds
  <1>12. RunsDiffer'
    <2>1. RunsDiffer
      BY DEF BuildInv
    <2> QED
      BY <1>1, <1>6, <1>7, <1>11, <2>1 DEF RunsDiffer, Build!Active
  <1>13. Shipped'
    <2>1. Shipped
      BY DEF BuildInv
    <2>2. \A q \in Clients : Build!Active(q)' => Build!Active(q) /\ run'[q].code = run[q].code
      BY <1>1, <1>6, <1>7 DEF Build!Active
    <2> QED
      BY <1>1, <2>1, <2>2 DEF Shipped, IsDeclared, Build!CodeNamesOneRelease
  <1> QED
    BY <1>8, <1>9, <1>10, <1>12, <1>13 DEF BuildInv

(* A producer writes: only files in output directories change. *)
LEMMA WriteArtifactStep ==
    ASSUME BuildInv, NEW p \in producers, Build!WriteArtifact(p)
    PROVE  BuildInv'
  <1>1. /\ UNCHANGED <<counter, shelf, producers, built, declared, bundle, tree, run, released>>
        /\ out' = [out EXCEPT ![p.at].file = p.build]
        /\ out \in [Build!Places -> [file : Build!Builds \cup {None}, set : Build!Sets \cup {None}]]
        /\ p.at \in Build!Places /\ p.build \in Build!Builds
    BY DEF BuildInv, BuildTypes, Build!WriteArtifact
  <1>2. /\ out' \in [Build!Places -> [file : Build!Builds \cup {None}, set : Build!Sets \cup {None}]]
        /\ \A d \in Build!Places : out'[d].set = out[d].set
    BY <1>1
  <1>3. BuildTypes'
    BY <1>1, <1>2 DEF BuildInv, BuildTypes
  <1>4. Kept'
    BY <1>1, <1>2 DEF BuildInv, Kept, IsDeclared, Build!Places
  <1>5. \A r \in Clients : Works(r, run[r])'
    BY <1>1 DEF BuildInv, Works, IsDeclared
  <1>6. RunsDiffer' /\ Shipped'
    BY <1>1 DEF BuildInv, RunsDiffer, Shipped, IsDeclared, Build!CodeNamesOneRelease, Build!Active
  <1> QED
    BY <1>3, <1>4, <1>5, <1>6 DEF BuildInv

(* What is declared stays so when more is. *)
LEMMA StaysDeclared ==
    ASSUME NEW v \in Build!Versions, NEW s \in Build!Sets, IsDeclared(v, s),
           \A b \in Build!Builds : declared[b] # None => declared'[b] = declared[b]
    PROVE  IsDeclared(v, s)'
  <1>1. ASSUME NEW t \in Targets, s.of[t] # None
        PROVE  declared'[s.of[t]] = [at |-> <<v, t>>, code |-> s.code]
    <2>1. s.of[t] \in Build!Builds /\ s.code \in Build!Codes
      BY <1>1 DEF Build!Sets
    <2>2. declared[s.of[t]] = [at |-> <<v, t>>, code |-> s.code]
      BY <1>1 DEF IsDeclared
    <2>3. [at |-> <<v, t>>, code |-> s.code] \in Build!Declarations
      BY <2>1 DEF Build!Declarations, Build!Places
    <2> QED
      BY <2>1, <2>2, <2>3, BuildAssumption
  <1> QED
    BY <1>1 DEF IsDeclared

(* The output of a producer is verified, and declared with it. *)
LEMMA VerifiedStep ==
    ASSUME BuildInv, NEW r \in Clients, NEW c \in Build!Codes, Build!Verified(r, c)
    PROVE  BuildInv'
  <1> DEFINE b == run[r].build
             t == run[r].at
             v == VersionOf[r]
  <1>1. /\ run[r].pc = "produce" /\ run \in [Clients -> Runs]
        /\ UNCHANGED <<counter, shelf, out, built, bundle, tree, released>>
        /\ producers' = producers \ Build!MineOf(r)
        /\ declared' = [declared EXCEPT ![b] = [at |-> <<v, t>>, code |-> c]]
        /\ declared \in [Build!Builds -> Build!Declarations \cup {None}]
    BY DEF BuildInv, BuildTypes, Build!Verified, Build!At
  <1>2. /\ t \in Targets /\ b \in Build!Builds /\ b <= built /\ declared[b] = None
        /\ v \in Build!Versions
    BY <1>1 DEF BuildInv, Works, Build!Versions
  <1>3. PICK s : s = [code |-> c, of |-> [Build!NoneCopied EXCEPT ![t] = b]]
    OBVIOUS
  <1>4. s \in Build!Sets /\ s.code = c /\ s.of[t] = b /\ \A u \in Targets : s.of[u] # None => u = t
    BY <1>2, <1>3 DEF Build!Sets, Build!NoneCopied
  <1>5. PICK j : j = [run[r] EXCEPT !.pc = "produced", !.set = s]
    OBVIOUS
  <1>6. run' = [run EXCEPT ![r] = j]
    BY <1>1, <1>3, <1>5 DEF Build!Verified
  <1>7. j \in Runs /\ j.pc = "produced" /\ j.set = s /\ j.at = t /\ j.code = run[r].code
    BY <1>1, <1>4, <1>5 DEF Runs, BuildPcs
  <1>8. run'[r] = j /\ \A q \in Clients \ {r} : run'[q] = run[q]
    BY <1>1, <1>6
  <1> HIDE DEF b, t, v
  <1>9. [at |-> <<v, t>>, code |-> c] \in Build!Declarations
    BY <1>2 DEF Build!Declarations, Build!Places
  <1>10. /\ declared' \in [Build!Builds -> Build!Declarations \cup {None}]
         /\ declared'[b] = [at |-> <<v, t>>, code |-> c]
         /\ \A a \in Build!Builds : a # b => declared'[a] = declared[a]
    BY <1>1, <1>2, <1>9
  <1>11. \A a \in Build!Builds : declared[a] # None => declared'[a] = declared[a]
    BY <1>2, <1>10
  <1>12. BuildTypes'
    BY <1>1, <1>6, <1>7, <1>10 DEF BuildInv, BuildTypes
  <1>13. Kept'
    <2>1. Kept /\ BuildTypes
      BY DEF BuildInv
    <2>2. ASSUME NEW w \in Build!Versions, NEW u \in Targets, out[<<w, u>>].set # None
          PROVE  IsDeclared(w, out[<<w, u>>].set)'
      <3>1. out[<<w, u>>].set \in Build!Sets /\ IsDeclared(w, out[<<w, u>>].set)
        BY <2>1, <2>2 DEF Kept, BuildTypes, Build!Places
      <3> QED
        BY <1>1, <1>11, <3>1, StaysDeclared DEF IsDeclared
    <2>3. ASSUME NEW w \in Build!Versions, bundle[w] # None
          PROVE  IsDeclared(w, bundle[w])'
      <3>1. bundle[w] \in Build!Sets /\ IsDeclared(w, bundle[w])
        BY <2>1, <2>3 DEF Kept, BuildTypes
      <3> QED
        BY <1>1, <1>11, <3>1, StaysDeclared DEF IsDeclared
    <2>4. ASSUME NEW w \in Build!Versions, tree[w] # None
          PROVE  IsDeclared(w, tree[w].set)'
      <3>1. tree[w].set \in Build!Sets /\ IsDeclared(w, tree[w].set)
        BY <2>1, <2>4 DEF Kept, BuildTypes, Build!Trees
      <3> QED
        BY <1>1, <1>11, <3>1, StaysDeclared DEF IsDeclared
    <2>5. \A a \in Build!Builds : a > built => declared'[a] = None
      <3>1. built \in Nat /\ b \in Nat
        BY <1>2, <2>1 DEF BuildTypes, Build!Builds
      <3> QED
        BY <1>2, <1>10, <2>1, <3>1 DEF Kept, Build!Builds
    <2> QED
      BY <1>1, <2>1, <2>2, <2>3, <2>4, <2>5 DEF Kept
  <1>14. ASSUME NEW q \in Clients PROVE Works(q, run[q])'
    <2>1. Works(q, run[q]) /\ run[q] \in Runs /\ VersionOf[q] \in Build!Versions
      BY <1>1 DEF BuildInv, Build!Versions
    <2>2. CASE q = r
      <3>1. IsDeclared(v, s)'
        BY <1>4, <1>10 DEF IsDeclared
      <3>2. Works(r, j)'
        <4>1. j.code <= counter'
          BY <1>1, <1>7, <2>1, <2>2 DEF Works
        <4> QED
          BY <1>2, <1>4, <1>7, <3>1, <4>1 DEF Works, IsDeclared, v
      <3> QED
        BY <1>8, <2>2, <3>2 DEF Works, IsDeclared
    <2>3. CASE q # r
      <3>1. run[q].pc = "produce" => run[q].build # b
        BY <1>1, <2>3 DEF BuildInv, RunsDiffer, Build!Active, b
      <3>2. run[q].pc = "produce" => declared'[run[q].build] = None
        BY <1>10, <2>1, <3>1 DEF Works
      <3>3. run[q].pc \in {"produced", "merge", "stage", "copy", "rename"} =>
               IsDeclared(VersionOf[q], run[q].set)'
        <4>1. ASSUME run[q].pc \in {"produced", "merge", "stage", "copy", "rename"}
              PROVE  /\ run[q].set \in Build!Sets
                     /\ IsDeclared(VersionOf[q], run[q].set)
          BY <2>1, <4>1 DEF Works
        <4> QED
          BY <1>8, <1>11, <2>1, <2>3, <4>1, StaysDeclared DEF IsDeclared
      <3>4. run'[q] = run[q]
        BY <1>8, <2>3
      <3> QED
        BY <1>1, <2>1, <3>2, <3>3, <3>4 DEF Works, IsDeclared
    <2> QED
      BY <2>2, <2>3
  <1>15. RunsDiffer'
    <2>1. RunsDiffer
      BY DEF BuildInv
    <2> QED
      BY <1>1, <1>7, <1>8, <2>1 DEF RunsDiffer, Build!Active
  <1>16. Shipped'
    <2>1. Shipped /\ released \subseteq [by : Clients, v : Build!Versions, tree : Build!Trees]
      BY DEF BuildInv, BuildTypes
    <2>2. \A q \in Clients : Build!Active(q)' => Build!Active(q) /\ run'[q].code = run[q].code
      BY <1>1, <1>7, <1>8 DEF Build!Active
    <2>3. ASSUME NEW p \in released PROVE IsDeclared(p.v, p.tree.set)'
      <3>1. p.v \in Build!Versions /\ p.tree.set \in Build!Sets /\ IsDeclared(p.v, p.tree.set)
        BY <2>1 DEF Shipped, Build!Trees
      <3> QED
        BY <1>11, <3>1, StaysDeclared
    <2> QED
      BY <1>1, <2>1, <2>2, <2>3 DEF Shipped, Build!CodeNamesOneRelease
  <1> QED
    BY <1>12, <1>13, <1>14, <1>15, <1>16 DEF BuildInv

(* A tree is released: it is the pipeline's own code that it uses up. *)
LEMMA ReleaseStep ==
    ASSUME BuildInv, NEW r \in Clients, Build!Release(r)
    PROVE  BuildInv'
  <1> DEFINE v == VersionOf[r]
             w == tree[VersionOf[r]]
  <1>1. /\ run[r].pc = "sound" /\ run \in [Clients -> Runs] /\ shelf \in Nat /\ run[r] \in Runs
        /\ UNCHANGED <<counter, out, producers, built, declared, bundle, tree>>
        /\ shelf' = IF w.code > shelf THEN w.code ELSE shelf
        /\ Build!Goes(r, "done")
    BY DEF BuildInv, BuildTypes, Build!Release
  <1>2. v \in Build!Versions
    BY DEF Build!Versions
  <1>3. /\ w # None /\ Build!VerifyStagedHashes(w) /\ run[r].code <= counter
        /\ r \in Strict => w.code = run[r].code
    BY <1>1 DEF BuildInv, Works
  <1>4. w \in Build!Trees /\ IsDeclared(v, w.set) /\ w.code = w.set.code
    BY <1>2, <1>3 DEF BuildInv, BuildTypes, Kept
  <1>5. PICK p : p = [by |-> r, v |-> v, tree |-> w]
    OBVIOUS
  <1>6. released' = released \cup {p}
    BY <1>5 DEF Build!Release
  <1>7. /\ p \in [by : Clients, v : Build!Versions, tree : Build!Trees]
        /\ p.by = r /\ p.v = v /\ p.tree = w
    BY <1>2, <1>4, <1>5
  <1>8. PICK j : j = [Build!Unstarted EXCEPT !.pc = "done", !.code = run[r].code]
    OBVIOUS
  <1>9. j \in Runs /\ j.pc = "done"
    BY <1>1, <1>8 DEF Runs, BuildPcs, Build!Unstarted, Build!NoneCopied, Build!Files, Build!Formats
  <1>10. run' = [run EXCEPT ![r] = j]
    BY <1>1, <1>8 DEF Build!Goes
  <1>11. run'[r] = j /\ \A q \in Clients \ {r} : run'[q] = run[q]
    BY <1>1, <1>10
  <1> HIDE DEF v, w
  <1>12. \A q \in Clients : Build!Active(q)' =>
            q # r /\ Build!Active(q) /\ run'[q] = run[q]
    BY <1>9, <1>11 DEF Build!Active
  <1>13. BuildTypes'
    <2>1. w.code \in Nat
      BY <1>4 DEF Build!Trees, Build!Codes
    <2> QED
      BY <1>1, <1>6, <1>7, <1>9, <1>10, <2>1 DEF BuildInv, BuildTypes
  <1>14. Kept'
    BY <1>1 DEF BuildInv, Kept, IsDeclared
  <1>15. ASSUME NEW q \in Clients PROVE Works(q, run[q])'
    <2>1. CASE q = r
      BY <1>9, <1>11, <2>1 DEF Works
    <2>2. CASE q # r
      <3>1. Works(q, run[q])
        BY DEF BuildInv
      <3> QED
        BY <1>1, <1>11, <2>2, <3>1 DEF Works, IsDeclared
    <2> QED
      BY <2>1, <2>2
  <1>16. RunsDiffer'
    <2>1. RunsDiffer
      BY DEF BuildInv
    <2> QED
      BY <1>12, <2>1 DEF RunsDiffer
  <1>17. Shipped'
    <2>1. Shipped /\ RunsDiffer
      BY DEF BuildInv
    <2>2. Build!Active(r)
      BY <1>1 DEF Build!Active
    <2>3. p.by \in Strict =>
             /\ p.tree.code = run[r].code /\ p.tree.code <= counter
             /\ \A q \in Clients : Build!Active(q)' => run'[q].code # p.tree.code
      BY <1>3, <1>7, <1>12, <2>1, <2>2 DEF RunsDiffer
    <2>4. \A o \in released : o.by \in Strict /\ p.by \in Strict => o.tree.code # p.tree.code
      BY <2>1, <2>2, <2>3 DEF Shipped
    <2>5. Build!CodeNamesOneRelease'
      BY <1>6, <2>1, <2>4 DEF Shipped, Build!CodeNamesOneRelease
    <2>6. ASSUME NEW o \in released
          PROVE  /\ IsDeclared(o.v, o.tree.set)' /\ o.tree.code = o.tree.set.code
                 /\ Build!VerifyStagedHashes(o.tree)
                 /\ o.by \in Strict =>
                       /\ o.tree.code <= counter'
                       /\ \A q \in Clients : Build!Active(q)' => run'[q].code # o.tree.code
      BY <1>1, <1>12, <2>1 DEF Shipped, IsDeclared
    <2>7. /\ IsDeclared(p.v, p.tree.set)' /\ p.tree.code = p.tree.set.code
          /\ Build!VerifyStagedHashes(p.tree)
      BY <1>1, <1>3, <1>4, <1>7 DEF IsDeclared
    <2> QED
      BY <1>1, <1>6, <2>3, <2>5, <2>6, <2>7 DEF Shipped
  <1> QED
    BY <1>13, <1>14, <1>15, <1>16, <1>17 DEF BuildInv

(* A version is cleaned up: none of its pipelines is at work. *)
LEMMA CleanStep ==
    ASSUME BuildInv, NEW v \in Build!Versions, Build!Clean(v)
    PROVE  BuildInv'
  <1>1. /\ UNCHANGED <<counter, shelf, producers, built, declared, run, released>>
        /\ \A r \in Clients : VersionOf[r] = v => ~Build!Active(r)
        /\ out' = [d \in Build!Places |-> IF d[1] = v THEN [file |-> None, set |-> None] ELSE out[d]]
        /\ bundle' = [bundle EXCEPT ![v] = None] /\ tree' = [tree EXCEPT ![v] = None]
    BY DEF Build!Clean
  <1>2. BuildTypes
    BY DEF BuildInv
  <1>3. BuildTypes'
    BY <1>1, <1>2 DEF BuildTypes
  <1>4. \A u \in Build!Versions : /\ bundle'[u] # None => bundle'[u] = bundle[u]
                                  /\ tree'[u] # None => tree'[u] = tree[u]
                                  /\ u # v => tree'[u] = tree[u]
    BY <1>1, <1>2 DEF BuildTypes
  <1>5. \A u \in Build!Versions, t \in Targets :
           out'[<<u, t>>].set # None => out'[<<u, t>>].set = out[<<u, t>>].set
    BY <1>1 DEF Build!Places
  <1>6. Kept'
    <2>1. Kept
      BY DEF BuildInv
    <2> QED
      BY <1>1, <1>4, <1>5, <2>1 DEF Kept, IsDeclared
  <1>7. ASSUME NEW q \in Clients PROVE Works(q, run[q])'
    <2>1. Works(q, run[q]) /\ run'[q] = run[q] /\ VersionOf[q] \in Build!Versions
      BY <1>1 DEF BuildInv, Build!Versions
    <2>2. run[q].pc \in {"staged", "checked", "sound"} => tree'[VersionOf[q]] = tree[VersionOf[q]]
      BY <1>1, <1>4, <2>1 DEF Build!Active
    <2> QED
      BY <1>1, <2>1, <2>2 DEF Works, IsDeclared
  <1>8. RunsDiffer' /\ Shipped'
    BY <1>1 DEF BuildInv, RunsDiffer, Shipped, IsDeclared, Build!CodeNamesOneRelease, Build!Active
  <1> QED
    BY <1>3, <1>6, <1>7, <1>8 DEF BuildInv

(* The types of a pipeline and of its version. *)
LEMMA RunTypes ==
    ASSUME BuildInv, NEW r \in Clients
    PROVE  /\ run \in [Clients -> Runs] /\ run[r] \in Runs /\ Works(r, run[r])
           /\ VersionOf[r] \in Build!Versions
           /\ \A t \in Targets : Build!At(r, t) \in Build!Places
  BY DEF BuildInv, BuildTypes, Build!Versions, Build!At, Build!Places

(* A pipeline gives up, is killed, or is started again. *)
LEMMA GivesUpStep ==
    ASSUME BuildInv, NEW r \in Clients,
           Build!CommandFails(r) \/ Build!KillPipeline(r) \/ Build!Again(r)
    PROVE  BuildInv'
  <1>1. /\ UNCHANGED <<counter, shelf, out, built, declared, bundle, tree, released>>
        /\ producers' \subseteq producers
    BY DEF Build!CommandFails, Build!KillPipeline, Build!Again
  <1>2. PICK pc \in {"new", "failed"} :
           run' = [run EXCEPT ![r] = [Build!Unstarted EXCEPT !.pc = pc]]
    <2>1. Build!Unstarted = [Build!Unstarted EXCEPT !.pc = "new"]
      BY DEF Build!Unstarted
    <2> QED
      BY <2>1 DEF Build!CommandFails, Build!KillPipeline, Build!Again, Build!Leave
  <1>3. PICK j : j = [Build!Unstarted EXCEPT !.pc = pc]
    OBVIOUS
  <1>5. j \in Runs /\ j.pc = pc
    BY <1>3 DEF Runs, BuildPcs, Build!Unstarted, Build!NoneCopied, Build!Files, Build!Formats
  <1>6. BuildTypes'
    BY <1>1, <1>2, <1>3, <1>5 DEF BuildInv, BuildTypes
  <1>7. Kept'
    BY <1>1 DEF BuildInv, Kept, IsDeclared
  <1>8. Works(r, j)'
    BY <1>5 DEF Works
  <1> QED
    BY <1>1, <1>2, <1>3, <1>5, <1>6, <1>7, <1>8, RunMoves

(* The artifact set is written: it is declared. *)
LEMMA WriteNewStep ==
    ASSUME BuildInv, NEW r \in Clients, Build!WriteNew(r)
    PROVE  BuildInv'
  <1> DEFINE v == VersionOf[r]
             t == run[r].at
  <1>1. /\ run[r].pc = "produced" /\ Build!Goes(r, "ready")
        /\ UNCHANGED <<counter, shelf, producers, built, declared, bundle, tree, released>>
        /\ out' = [out EXCEPT ![<<v, t>>].set = run[r].set]
    BY DEF Build!WriteNew, Build!At
  <1>2. /\ run \in [Clients -> Runs] /\ run[r] \in Runs /\ Works(r, run[r])
        /\ v \in Build!Versions /\ BuildTypes
    BY RunTypes DEF BuildInv
  <1>3. /\ t \in Targets /\ run[r].set \in Build!Sets /\ IsDeclared(v, run[r].set)
        /\ <<v, t>> \in Build!Places
    BY <1>1, <1>2 DEF Works, Build!Places
  <1>4. PICK j : j = [Build!Unstarted EXCEPT !.pc = "ready", !.code = run[r].code]
    OBVIOUS
  <1>5. j \in Runs /\ j.pc = "ready" /\ j.code = run[r].code
    BY <1>2, <1>4 DEF Runs, BuildPcs, Build!Unstarted, Build!NoneCopied, Build!Files, Build!Formats
  <1>6. run' = [run EXCEPT ![r] = j]
    BY <1>1, <1>4 DEF Build!Goes
  <1> HIDE DEF v, t
  <1>7. /\ out' \in [Build!Places -> [file : Build!Builds \cup {None}, set : Build!Sets \cup {None}]]
        /\ out'[<<v, t>>].set = run[r].set
        /\ \A d \in Build!Places : d # <<v, t>> => out'[d] = out[d]
    BY <1>1, <1>2, <1>3 DEF BuildTypes
  <1>8. BuildTypes'
    BY <1>1, <1>2, <1>5, <1>6, <1>7 DEF BuildTypes
  <1>9. Kept'
    <2>1. Kept
      BY DEF BuildInv
    <2>2. ASSUME NEW w \in Build!Versions, NEW u \in Targets, out'[<<w, u>>].set # None
          PROVE  IsDeclared(w, out[<<w, u>>].set)'
      <3>1. CASE <<w, u>> = <<v, t>>
        BY <1>1, <1>3, <1>7, <3>1 DEF IsDeclared
      <3>2. CASE <<w, u>> # <<v, t>>
        <4>1. out'[<<w, u>>] = out[<<w, u>>]
          BY <1>7, <3>2 DEF Build!Places
        <4>2. IsDeclared(w, out[<<w, u>>].set)
          BY <2>1, <2>2, <4>1 DEF Kept
        <4> QED
          BY <1>1, <4>1, <4>2 DEF IsDeclared
      <3> QED
        BY <3>1, <3>2
    <2> QED
      BY <1>1, <2>1, <2>2 DEF Kept, IsDeclared
  <1>10. Works(r, j)' /\ Build!Active(r)
    BY <1>1, <1>2, <1>5 DEF Works, Build!Active
  <1> QED
    BY <1>1, <1>5, <1>6, <1>8, <1>9, <1>10, RunMoves

(* Sets are merged that were declared under one code. *)
LEMMA MergeStep ==
    ASSUME BuildInv, NEW r \in Clients,
           \/ \E T \in SUBSET Targets : Build!BeginMerge(r, T)
           \/ \E t \in Targets : Build!copyArtifactCandidate(r, t)
    PROVE  BuildInv'
  <1> DEFINE v == VersionOf[r]
  <1>1. /\ run \in [Clients -> Runs] /\ run[r] \in Runs /\ Works(r, run[r])
        /\ v \in Build!Versions /\ BuildTypes /\ Kept
    BY RunTypes DEF BuildInv
  <1>2. /\ UNCHANGED <<counter, shelf, out, producers, built, declared, bundle, tree, released>>
        /\ Build!Active(r)
    BY DEF Build!BeginMerge, Build!copyArtifactCandidate, Build!Active
  <1>3. Kept'
    BY <1>1, <1>2 DEF Kept, IsDeclared
  <1>4. ASSUME NEW j \in Runs, run' = [run EXCEPT ![r] = j], j.pc = "merge",
               j.code = run[r].code, j.set \in Build!Sets, IsDeclared(v, j.set)
        PROVE  BuildInv'
    <2>1. BuildTypes'
      BY <1>1, <1>2, <1>4 DEF BuildTypes
    <2>2. Works(r, j)'
      BY <1>1, <1>2, <1>4 DEF Works, IsDeclared, Build!Active
    <2> QED
      BY <1>2, <1>3, <1>4, <2>1, <2>2, RunMoves
  <1>5. ASSUME NEW T \in SUBSET Targets, Build!BeginMerge(r, T)
        PROVE  BuildInv'
    <2> DEFINE of == [t \in Targets |-> IF t \in T THEN out[<<v, t>>].set.of[t] ELSE None]
               sets == {out[<<v, t>>].set : t \in T}
    <2>1. /\ None \notin sets /\ \A s, q \in sets : s.code = q.code
      BY <1>5 DEF Build!BeginMerge, Build!SameIdentity
    <2>2. \A t \in T : /\ out[<<v, t>>].set \in Build!Sets
                       /\ IsDeclared(v, out[<<v, t>>].set)
      BY <1>1, <2>1 DEF BuildTypes, Kept, Build!Places
    <2>3. PICK s \in sets :
             run' = [run EXCEPT ![r] =
                        [run[r] EXCEPT !.pc = "merge", !.files = Build!NoneCopied,
                                       !.set = [code |-> s.code, of |-> of]]]
      BY <1>5 DEF Build!BeginMerge
    <2>4. PICK m : m = [code |-> s.code, of |-> of]
      OBVIOUS
    <2>5. m \in Build!Sets
      <3>1. s.code \in Build!Codes
        BY <2>2 DEF Build!Sets
      <3>2. of \in [Targets -> Build!Builds \cup {None}]
        BY <2>2 DEF Build!Sets
      <3> QED
        BY <2>4, <3>1, <3>2 DEF Build!Sets
    <2>6. IsDeclared(v, m)
      <3>1. ASSUME NEW t \in Targets, m.of[t] # None
            PROVE  declared[m.of[t]] = [at |-> <<v, t>>, code |-> m.code]
        <4>1. t \in T /\ m.of[t] = out[<<v, t>>].set.of[t] /\ m.code = s.code
          BY <2>4, <3>1
        <4>2. out[<<v, t>>].set.code = s.code
          BY <2>1, <4>1
        <4> QED
          BY <2>2, <3>1, <4>1, <4>2 DEF IsDeclared
      <3> QED
        BY <3>1 DEF IsDeclared
    <2>7. PICK j : j = [run[r] EXCEPT !.pc = "merge", !.files = Build!NoneCopied, !.set = m]
      OBVIOUS
    <2>8. j \in Runs /\ j.pc = "merge" /\ j.code = run[r].code /\ j.set = m
      <3>1. Build!NoneCopied \in Build!Files
        BY DEF Build!NoneCopied, Build!Files
      <3> QED
        BY <1>1, <2>5, <2>7, <3>1 DEF Runs, BuildPcs
    <2>9. run' = [run EXCEPT ![r] = j]
      BY <2>3, <2>4, <2>7
    <2> QED
      BY <1>4, <2>5, <2>6, <2>8, <2>9
  <1>6. ASSUME NEW t \in Targets, Build!copyArtifactCandidate(r, t)
        PROVE  BuildInv'
    <2>1. PICK x \in Build!copyFile(v, t, t) \ {None} : run' = [run EXCEPT ![r].files[t] = x]
      BY <1>6 DEF Build!copyArtifactCandidate
    <2>2. x \in Build!Builds \cup {Partial, None}
      <3>1. t # Build!Merged /\ out[<<v, t>>].file \in Build!Builds \cup {None}
        BY <1>1, BuildAssumption DEF BuildTypes, Build!Places
      <3> QED
        BY <1>1, <2>1, <3>1 DEF Build!copyFile, Build!FilesAt
    <2>3. PICK j : j = [run[r] EXCEPT !.files[t] = x]
      OBVIOUS
    <2>4. j \in Runs /\ j.pc = run[r].pc /\ j.code = run[r].code /\ j.set = run[r].set
      BY <1>1, <2>2, <2>3 DEF Runs, Build!Files
    <2>5. run' = [run EXCEPT ![r] = j] /\ run[r].pc = "merge"
      BY <1>6, <2>1, <2>3 DEF Build!copyArtifactCandidate
    <2>6. j.set \in Build!Sets /\ IsDeclared(v, j.set)
      BY <1>1, <2>4, <2>5 DEF Works
    <2> QED
      BY <1>4, <2>4, <2>5, <2>6
  <1> QED
    BY <1>5, <1>6

(* The merged set takes its place: its files were declared for the sets it was made of. *)
LEMMA EndMergeStep ==
    ASSUME BuildInv, NEW r \in Clients, Build!EndMerge(r)
    PROVE  BuildInv'
  <1> DEFINE v == VersionOf[r]
  <1>1. /\ run[r].pc = "merge" /\ Build!Goes(r, "ready")
        /\ UNCHANGED <<counter, shelf, out, producers, built, declared, tree, released>>
        /\ bundle' = [bundle EXCEPT ![v] = run[r].set]
    BY DEF Build!EndMerge
  <1>2. /\ run \in [Clients -> Runs] /\ run[r] \in Runs /\ Works(r, run[r])
        /\ v \in Build!Versions /\ BuildTypes
    BY RunTypes DEF BuildInv
  <1>3. run[r].set \in Build!Sets /\ IsDeclared(v, run[r].set)
    BY <1>1, <1>2 DEF Works
  <1>4. PICK j : j = [Build!Unstarted EXCEPT !.pc = "ready", !.code = run[r].code]
    OBVIOUS
  <1>5. j \in Runs /\ j.pc = "ready" /\ j.code = run[r].code
    BY <1>2, <1>4 DEF Runs, BuildPcs, Build!Unstarted, Build!NoneCopied, Build!Files, Build!Formats
  <1>6. run' = [run EXCEPT ![r] = j]
    BY <1>1, <1>4 DEF Build!Goes
  <1>7. BuildTypes'
    BY <1>1, <1>2, <1>3, <1>5, <1>6 DEF BuildTypes
  <1>8. Kept'
    <2>1. \A w \in Build!Versions : bundle'[w] = IF w = v THEN run[r].set ELSE bundle[w]
      BY <1>1, <1>2 DEF BuildTypes
    <2> QED
      BY <1>1, <1>3, <2>1 DEF BuildInv, Kept, IsDeclared
  <1>9. Works(r, j)' /\ Build!Active(r)
    BY <1>1, <1>2, <1>5 DEF Works, Build!Active
  <1> QED
    BY <1>1, <1>5, <1>6, <1>7, <1>8, <1>9, RunMoves

(* stage reads a set, looks into its payloads and copies its files: the set and its
   code stay what they were. *)
LEMMA StageStep ==
    ASSUME BuildInv, NEW r \in Clients,
           \/ \E src \in Targets \cup {Build!Merged} : Build!BeginStage(r, src)
           \/ Build!Inspect(r) \/ Build!CopyStaged(r)
    PROVE  BuildInv'
  <1> DEFINE v == VersionOf[r]
  <1>1. /\ run \in [Clients -> Runs] /\ run[r] \in Runs /\ Works(r, run[r])
        /\ v \in Build!Versions /\ BuildTypes /\ Kept
    BY RunTypes DEF BuildInv
  <1>2. /\ UNCHANGED <<counter, shelf, out, producers, built, declared, bundle, tree, released>>
        /\ Build!Active(r)
    BY DEF Build!BeginStage, Build!Inspect, Build!CopyStaged, Build!Active
  <1>3. Kept'
    BY <1>1, <1>2 DEF Kept, IsDeclared
  <1>4. ASSUME NEW j \in Runs, run' = [run EXCEPT ![r] = j], j.pc \in {"stage", "copy", "rename"},
               j.code = run[r].code, j.set \in Build!Sets, IsDeclared(v, j.set),
               r \in Strict => j.set.code = j.code
        PROVE  BuildInv'
    <2>1. BuildTypes'
      BY <1>1, <1>2, <1>4 DEF BuildTypes
    <2>2. Works(r, j)'
      BY <1>1, <1>2, <1>4 DEF Works, IsDeclared, Build!Active
    <2> QED
      BY <1>2, <1>3, <1>4, <2>1, <2>2, RunMoves
  <1>5. ASSUME NEW src \in Targets \cup {Build!Merged}, Build!BeginStage(r, src)
        PROVE  BuildInv'
    <2>1. PICK m : m = Build!SetAt(v, src)
      OBVIOUS
    <2>2. /\ m # None /\ Build!CodeFits(r, m)
          /\ run' = [run EXCEPT ![r] = [run[r] EXCEPT !.pc = "stage", !.at = src, !.set = m]]
      BY <1>5, <2>1 DEF Build!BeginStage
    <2>3. m \in Build!Sets /\ IsDeclared(v, m)
      <3>1. CASE src = Build!Merged
        BY <1>1, <2>1, <2>2, <3>1 DEF Build!SetAt, Kept, BuildTypes
      <3>2. CASE src # Build!Merged
        BY <1>1, <2>1, <2>2, <3>2 DEF Build!SetAt, Kept, BuildTypes, Build!Places
      <3> QED
        BY <3>1, <3>2
    <2>4. PICK j : j = [run[r] EXCEPT !.pc = "stage", !.at = src, !.set = m]
      OBVIOUS
    <2>5. j \in Runs /\ j.pc = "stage" /\ j.code = run[r].code /\ j.set = m
      BY <1>1, <2>3, <2>4 DEF Runs, BuildPcs
    <2>6. r \in Strict => j.set.code = j.code
      BY <2>2, <2>5 DEF Build!CodeFits
    <2> QED
      BY <1>4, <2>2, <2>3, <2>4, <2>5, <2>6
  <1>6. run[r].pc \in {"stage", "copy"} =>
           /\ run[r].set \in Build!Sets /\ IsDeclared(v, run[r].set)
           /\ r \in Strict => run[r].set.code = run[r].code
    BY <1>1 DEF Works
  <1>7. CASE Build!Inspect(r)
    <2> DEFINE files == Build!FilesAt(v, run[r].at)
    <2>1. PICK apply : apply = [t \in Targets |->
                                  IF Build!IsPayload(run[r].set.of[t])
                                  THEN Build!ApplySelectorFor(Build!Table(files[t]))
                                  ELSE Selectors[t].apply]
      OBVIOUS
    <2>a. apply \in [Targets -> Build!Formats]
      BY <2>1 DEF Build!ApplySelectorFor, Build!Formats
    <2>b. run' = [run EXCEPT ![r] = [run[r] EXCEPT !.pc = "copy", !.apply = apply]]
      BY <1>7, <2>1 DEF Build!Inspect
    <2>2. PICK j : j = [run[r] EXCEPT !.pc = "copy", !.apply = apply]
      OBVIOUS
    <2>3. j \in Runs /\ j.pc = "copy" /\ j.code = run[r].code /\ j.set = run[r].set
      BY <1>1, <2>2, <2>a DEF Runs, BuildPcs
    <2>4. run[r].pc = "stage"
      BY <1>7 DEF Build!Inspect
    <2> QED
      BY <1>4, <1>6, <2>b, <2>2, <2>3, <2>4
  <1>8. CASE Build!CopyStaged(r)
    <2>1. PICK f \in Build!Files :
             run' = [run EXCEPT ![r] = [run[r] EXCEPT !.pc = "rename", !.files = f]]
      BY <1>8 DEF Build!CopyStaged
    <2>2. PICK j : j = [run[r] EXCEPT !.pc = "rename", !.files = f]
      OBVIOUS
    <2>3. j \in Runs /\ j.pc = "rename" /\ j.code = run[r].code /\ j.set = run[r].set
      BY <1>1, <2>2 DEF Runs, BuildPcs
    <2>4. run[r].pc = "copy"
      BY <1>8 DEF Build!CopyStaged
    <2> QED
      BY <1>4, <1>6, <2>1, <2>2, <2>3, <2>4
  <1> QED
    BY <1>5, <1>7, <1>8

(* The staged tree takes its place. *)
LEMMA RenameStagedStep ==
    ASSUME BuildInv, NEW r \in Clients, Build!RenameStaged(r)
    PROVE  BuildInv'
  <1> DEFINE v == VersionOf[r]
  <1>1. PICK w : w = [code |-> run[r].set.code, set |-> run[r].set, files |-> run[r].files,
                      apply |-> run[r].apply]
    OBVIOUS
  <1>2. /\ run[r].pc = "rename" /\ tree[v] = None /\ Build!Goes(r, "staged")
        /\ UNCHANGED <<counter, shelf, out, producers, built, declared, bundle, released>>
        /\ tree' = [tree EXCEPT ![v] = w]
    BY <1>1 DEF Build!RenameStaged
  <1>3. /\ run \in [Clients -> Runs] /\ run[r] \in Runs /\ Works(r, run[r])
        /\ v \in Build!Versions /\ BuildTypes
    BY RunTypes DEF BuildInv
  <1>4. /\ run[r].set \in Build!Sets /\ IsDeclared(v, run[r].set)
        /\ r \in Strict => run[r].set.code = run[r].code
    BY <1>2, <1>3 DEF Works
  <1>5. /\ w \in Build!Trees /\ w.set = run[r].set /\ w.code = run[r].set.code
    BY <1>1, <1>3, <1>4 DEF Build!Trees, Build!Sets, Runs
  <1>6. PICK j : j = [Build!Unstarted EXCEPT !.pc = "staged", !.code = run[r].code]
    OBVIOUS
  <1>7. j \in Runs /\ j.pc = "staged" /\ j.code = run[r].code
    BY <1>3, <1>6 DEF Runs, BuildPcs, Build!Unstarted, Build!NoneCopied, Build!Files, Build!Formats
  <1>8. run' = [run EXCEPT ![r] = j]
    BY <1>2, <1>6 DEF Build!Goes
  <1>9. BuildTypes'
    BY <1>2, <1>3, <1>5, <1>7, <1>8 DEF BuildTypes
  <1>10. \A u \in Build!Versions : tree'[u] = IF u = v THEN w ELSE tree[u]
    BY <1>2, <1>3 DEF BuildTypes
  <1>11. Kept'
    BY <1>2, <1>4, <1>5, <1>10 DEF BuildInv, Kept, IsDeclared
  <1>12. Works(r, j)' /\ Build!Active(r)
    <2>1. w # None
      BY <1>5, BuildAssumption
    <2> QED
      BY <1>2, <1>3, <1>4, <1>5, <1>7, <1>10, <2>1 DEF Works, Build!Active
  <1>13. \A u \in Build!Versions : tree[u] # None => tree'[u] = tree[u]
    BY <1>2, <1>10
  <1> QED
    BY <1>2, <1>7, <1>8, <1>9, <1>11, <1>12, <1>13, RunMoves

(* release checks the code of the tree and its files. *)
LEMMA CheckStep ==
    ASSUME BuildInv, NEW r \in Clients, Build!preflightStagedCode(r) \/ Build!VerifyStaged(r)
    PROVE  BuildInv'
  <1> DEFINE v == VersionOf[r]
  <1>1. /\ run \in [Clients -> Runs] /\ run[r] \in Runs /\ Works(r, run[r])
        /\ v \in Build!Versions /\ BuildTypes /\ Kept
    BY RunTypes DEF BuildInv
  <1>2. /\ UNCHANGED <<counter, shelf, out, producers, built, declared, bundle, tree, released>>
        /\ run[r].pc \in {"staged", "checked"}
    BY DEF Build!preflightStagedCode, Build!VerifyStaged
  <1>3. PICK pc \in {"checked", "sound"} :
           /\ run' = [run EXCEPT ![r].pc = pc]
           /\ pc = "sound" => Build!VerifyStagedHashes(tree[v])
    BY DEF Build!preflightStagedCode, Build!VerifyStaged
  <1>4. PICK j : j = [run[r] EXCEPT !.pc = pc]
    OBVIOUS
  <1>5. j \in Runs /\ j.pc = pc /\ j.code = run[r].code /\ run' = [run EXCEPT ![r] = j]
    BY <1>1, <1>3, <1>4 DEF Runs, BuildPcs
  <1>6. BuildTypes' /\ Kept'
    BY <1>1, <1>2, <1>5 DEF BuildTypes, Kept, IsDeclared
  <1>7. Works(r, j)' /\ Build!Active(r)
    BY <1>1, <1>2, <1>3, <1>5 DEF Works, Build!Active
  <1> QED
    BY <1>2, <1>3, <1>5, <1>6, <1>7, RunMoves

(* Every step of the build keeps the invariant. *)
LEMMA BuildsStep ==
    ASSUME BuildInv, Build!BuildNext
    PROVE  BuildInv'
  <1>1. ASSUME NEW r \in Clients, Build!ClaimReleaseCode(r) \/ Build!ClaimLost(r)
        PROVE  BuildInv'
    BY <1>1, ClaimStep
  <1>2. ASSUME NEW r \in Clients,
               Build!CommandFails(r) \/ Build!KillPipeline(r) \/ Build!Again(r)
        PROVE  BuildInv'
    BY <1>2, GivesUpStep
  <1>3. ASSUME NEW r \in Clients,
               Build!WriteNew(r) \/ Build!EndMerge(r) \/ Build!RenameStaged(r) \/ Build!Release(r)
        PROVE  BuildInv'
    BY <1>3, WriteNewStep, EndMergeStep, RenameStagedStep, ReleaseStep
  <1>4. ASSUME NEW r \in Clients, Build!preflightStagedCode(r) \/ Build!VerifyStaged(r)
        PROVE  BuildInv'
    BY <1>4, CheckStep
  <1>5. ASSUME NEW r \in Clients, NEW t \in Targets, Build!Produce(r, t)
        PROVE  BuildInv'
    BY <1>5, ProduceStep
  <1>6. ASSUME NEW r \in Clients, NEW c \in Build!Codes, Build!Verified(r, c)
        PROVE  BuildInv'
    BY <1>6, VerifiedStep
  <1>7. ASSUME NEW r \in Clients,
               \/ \E T \in SUBSET Targets : Build!BeginMerge(r, T)
               \/ \E t \in Targets : Build!copyArtifactCandidate(r, t)
        PROVE  BuildInv'
    BY <1>7, MergeStep
  <1>8. ASSUME NEW r \in Clients,
               \/ \E src \in Targets \cup {Build!Merged} : Build!BeginStage(r, src)
               \/ Build!Inspect(r) \/ Build!CopyStaged(r)
        PROVE  BuildInv'
    BY <1>8, StageStep
  <1>9. ASSUME NEW p \in producers, Build!WriteArtifact(p)
        PROVE  BuildInv'
    BY <1>9, WriteArtifactStep
  <1>10. ASSUME NEW v \in Build!Versions, Build!Clean(v)
         PROVE  BuildInv'
    BY <1>10, CleanStep
  <1> QED
    BY <1>1, <1>2, <1>3, <1>4, <1>5, <1>6, <1>7, <1>8, <1>9, <1>10 DEF Build!BuildNext

(* Nothing is built yet. *)
LEMMA BuildsStart == Build!BuildInit => BuildInv
  <1> SUFFICES ASSUME Build!BuildInit PROVE BuildInv
    OBVIOUS
  <1>1. Build!Unstarted \in Runs /\ Build!Unstarted.pc = "new"
    BY DEF Runs, BuildPcs, Build!Unstarted, Build!NoneCopied, Build!Files, Build!Formats
  <1>2. BuildTypes
    BY <1>1 DEF Build!BuildInit, BuildTypes
  <1>3. \A r \in Clients : run[r].pc = "new"
    BY <1>1 DEF Build!BuildInit
  <1>4. Kept
    BY DEF Build!BuildInit, Kept, Build!Places
  <1>5. \A r \in Clients : Works(r, run[r])
    BY <1>3 DEF Works
  <1>6. RunsDiffer /\ Shipped
    BY <1>3 DEF Build!BuildInit, RunsDiffer, Shipped, Build!Active, Build!CodeNamesOneRelease
  <1> QED
    BY <1>2, <1>4, <1>5, <1>6 DEF BuildInv

(* What is released is as declared, under a code of its own, and fits. *)
LEMMA BuildsAreDeclared ==
    BuildInv => Build!ReleaseIsItsBuild /\ Build!CodeNamesOneRelease /\ Build!PayloadsFit
  <1> SUFFICES ASSUME BuildInv
               PROVE  /\ Build!ReleaseIsItsBuild /\ Build!CodeNamesOneRelease
                      /\ Build!PayloadsFit
    OBVIOUS
  <1>1. Shipped
    BY DEF BuildInv
  <1>2. Build!ReleaseIsItsBuild
    BY <1>1 DEF Shipped, IsDeclared, Build!ReleaseIsItsBuild, Build!VerifyStagedHashes
  <1>3. Build!CodeNamesOneRelease
    BY <1>1 DEF Shipped
  <1>4. Build!PayloadsFit
    <2> SUFFICES ASSUME NEW p \in released, NEW host \in Build!Hosts,
                        NEW prefs \in {{Build!V1}, {Build!V1, Build!V2}}, NEW t \in Targets,
                        Build!IsPayload(p.tree.files[t]),
                        Build!Applied(Selectors[t], p.tree.apply[t]) \in
                            Build!SelectArtifactPreferring(Build!Offers(p.tree), host, prefs)
                 PROVE  LET sel == Build!Applied(Selectors[t], p.tree.apply[t])
                            table == Build!Table(p.tree.files[t])
                        IN  /\ table.schema \in prefs
                            /\ Build!TargetOS(sel) # None => Build!checkUnitSupported(table, host.os)
      BY DEF Build!PayloadsFit
    <2>1. PICK sel : sel = Build!Applied(Selectors[t], p.tree.apply[t])
      OBVIOUS
    <2>2. PICK table : table = Build!Table(p.tree.files[t])
      OBVIOUS
    <2>3. Build!CheckTable(table) /\ Build!CheckPublishSelectors(table, sel)
      BY <1>1, <2>1, <2>2 DEF Shipped, Build!VerifyStagedHashes
    <2>4. Build!MatchesClientApply(sel, host, prefs)
      BY <2>1 DEF Build!SelectArtifactPreferring
    <2>5. table.schema \in prefs
      <3>1. sel.apply = table.schema /\ table.schema = Build!ApplySelectorFor(table)
        BY <2>3 DEF Build!CheckTable, Build!CheckPublishSelectors
      <3>2. sel.apply # None
        BY <3>1, BuildAssumption DEF Build!ApplySelectorFor
      <3> QED
        BY <2>4, <3>1, <3>2 DEF Build!MatchesClientApply
    <2>6. ASSUME Build!TargetOS(sel) # None
          PROVE  Build!checkUnitSupported(table, host.os)
      <3>1. Build!TargetOS(sel) = host.os
        BY <2>4, <2>6 DEF Build!TargetOS, Build!MatchesClientApply, Build!Hosts
      <3> QED
        BY <2>3, <3>1 DEF Build!CheckPublishSelectors, Build!checkUnitSupported
    <2> QED
      BY <2>1, <2>2, <2>5, <2>6
  <1> QED
    BY <1>2, <1>3, <1>4

-----------------------------------------------------------------------------
(* Theorems. *)

(* The build of a release and either way of uploading it keep the invariant, whatever
   is lost on the way. *)
THEOREM Invariance == Spec => []IInv
  <1>1. Init => IInv
    BY ChunksStart, BlobsStart, BuildsStart DEF Init, IInv
  <1>2. IInv /\ [Next]_vars => IInv'
    <2> SUFFICES ASSUME IInv, [Next]_vars PROVE IInv'
      OBVIOUS
    <2>1. ASSUME UNCHANGED chunkVars
          PROVE  ChunkInv'
      BY <2>1 DEF IInv, chunkVars, ChunkInv, ChunkTypes, UploadInv, Sound, Torn, Once,
                  Holds, UpToDate, Carries
    <2>2. ASSUME UNCHANGED buildVars
          PROVE  BuildInv'
      BY <2>2 DEF IInv, buildVars, BuildInv, BuildTypes, Kept, IsDeclared, Works,
                  RunsDiffer, Shipped, Build!Active, Build!CodeNamesOneRelease
    <2>3. CASE UploadChunks
      <3>1. ChunkInv'
        BY <2>3, ChunksStep DEF UploadChunks, IInv
      <3>2. way' = "chunks" /\ BuildInv'
        BY <2>2, <2>3 DEF UploadChunks
      <3> QED
        BY <3>1, <3>2 DEF IInv
    <2>4. CASE UploadBlobs
      <3>1. ChunkInv' /\ BuildInv' /\ way = "blobs" /\ way' = way
        BY <2>1, <2>2, <2>4 DEF UploadBlobs
      <3>2. BlobInv'
        BY <2>4, <3>1, BlobsStep DEF UploadBlobs, IInv
      <3> QED
        BY <3>1, <3>2 DEF IInv
    <2>5. CASE BuildRelease
      <3>1. BuildInv'
        BY <2>5, BuildsStep DEF BuildRelease, IInv
      <3>2. ChunkInv' /\ way' = "build"
        BY <2>1, <2>5 DEF BuildRelease
      <3> QED
        BY <3>1, <3>2 DEF IInv
    <2>6. CASE UNCHANGED vars
      <3>1. ChunkInv' /\ BuildInv'
        BY <2>1, <2>2, <2>6 DEF vars
      <3>2. way = "blobs" => BlobInv'
        BY <2>6 DEF IInv, vars, blobVars, BlobInv, BlobTypes, IdsDiffer, JobInv, Asked,
                    Active, Transfer, Completed, Covered, Owned
      <3> QED
        BY <2>6, <3>1, <3>2 DEF IInv, vars
    <2> QED
      BY <2>3, <2>4, <2>5, <2>6 DEF Next
  <1> QED
    BY <1>1, <1>2, PTL DEF Spec

(* Part by part, whatever requests are lost, sent twice, late, or cut by a restart:
   a part that the record reports is on the disk, an upload is installed at most once,
   and the parts that are asked for cover every archive and every blob
   (handlePutUploadPart, handleCompleteUpload, resolvePartSize, casMultipartPlan); and
   what is uploaded is, file by file, what a producer declared for it, under a code of
   its own, for clients that can apply it (producer.Run, Stage, verifyStagedHashes). *)
THEOREM UploadsAreWhole == Spec => []UploadIsWhole
  <1>1. IInv => UploadIsWhole
    BY ChunksWhole, PartsCover, BuildsAreDeclared DEF IInv, UploadIsWhole
  <1> QED
    BY <1>1, Invariance, PTL

(* A job whose workers all succeeded has its blobs in the store, and a job that is
   over leaves no multipart upload open, for any number of workers, jobs, blobs and
   parts (uploadAll). *)
THEOREM JobsLeaveBlobs == Spec => []JobLeavesBlobs
  <1>1. IInv => JobLeavesBlobs
    BY BlobsStored DEF IInv, JobLeavesBlobs
  <1> QED
    BY <1>1, Invariance, PTL
=============================================================================
