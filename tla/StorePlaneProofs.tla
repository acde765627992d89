---------------------------- MODULE StorePlaneProofs ----------------------------
(***************************************************************************)
(* Proofs about StorePlane, for every set of indexes, releases and         *)
(* requests, every lifetime of tickets and leases, and whatever kinds of   *)
(* object several requests may write at one time.                          *)
(*                                                                         *)
(* A request that is alone with its key finds in the temporary file what   *)
(* it has sent so far (Sent), no other request can have that file open     *)
(* (Sole), and a handle that a rename took along writes a key of mixed     *)
(* origin (Stray).  With that, what a key holds is right, of mixed origin, *)
(* or what a request sent that has still to compare it (Served).  The      *)
(* collector is argued phase by phase (Spared): what it means to keep is   *)
(* named by an index still to be read, then by a manifest still to be      *)
(* read, then live.                                                        *)
(***************************************************************************)
EXTENDS StorePlane, TLAPS

IsWriting(w, n) == writer[w].name = n /\ writer[w].pc \in {"write", "rename"}

Alone(w) == writer[w].pc \in {"write", "rename"} /\ writer[w].alone

(* Nobody else writes the key. *)
Sole ==
    \A w \in Writers : Alone(w) =>
        \A u \in Writers \ {w} : ~IsWriting(u, writer[w].name)

(* The temporary file, if it is there, holds what was sent. *)
Sent ==
    \A w \in Writers : Alone(w) /\ temp[writer[w].name] # None =>
        /\ writer[w].at = "temp"
        /\ DOMAIN temp[writer[w].name] = 1 .. writer[w].sent
        /\ \A i \in 1 .. writer[w].sent : temp[writer[w].name][i] = writer[w].body[i]

(* What a request alone with a document or an artifact sends is right. *)
Sound ==
    \A w \in Writers : Alone(w) /\ Kind(writer[w].name) # "cas" =>
        Right(writer[w].name, writer[w].body)

Stray == \A w \in Writers : writer[w].at = "final" => writer[w].name \in mixed

Compared(n) ==
    \E w \in Writers : writer[w].pc = "verify" /\ writer[w].name = n /\ writer[w].body = file[n]

Served ==
    \A n \in Names : file[n] = None \/ n \in mixed \/ Right(n, file[n]) \/ Compared(n)

UploadInv == Sole /\ Sent /\ Sound /\ Stray /\ Served

(* All that requests are about. *)
RequestInv == FilesOK /\ WritersOK /\ UploadInv

(* What the collector keeps. *)
Spared ==
    /\ gc.pc = "idle" => gc.kept = {}
    /\ gc.pc = "indexes" => \A b \in gc.kept :
           <<"manifest", b>> \in gc.live \/ \E n \in gc.left : b \in Named(file[n])
    /\ gc.pc = "manifests" => \A b \in gc.kept :
           /\ <<"manifest", b>> \in gc.live
           /\ <<"manifest", b>> \in gc.left \/ {<<"artifact", b>>, Cas(b)} \subseteq gc.live
    /\ gc.pc \in Sweeps =>
           /\ \A b \in gc.kept, k \in Sweeps : <<k, b>> \in gc.live
           /\ \A x \in gc.left : x[2] = "file" => x[1] \notin gc.live
           /\ gc.doomed # None => (gc.doomed[2] = "file" => gc.doomed[1] \notin gc.live)

CollectorInv == CollectorOK /\ Spared

IInv == RequestInv /\ CollectorInv

-----------------------------------------------------------------------------
(* Keys and contents. *)

(* A content is a function on some of the two halves. *)
LEMMA ContentIs ==
    ASSUME NEW c \in Contents
    PROVE  DOMAIN c \subseteq {1, 2} /\ c \in [DOMAIN c -> Halves]
  BY DEF Contents

(* Two contents with the same halves are the same. *)
LEMMA SameContent ==
    ASSUME NEW c \in Contents, NEW d \in Contents, DOMAIN c = DOMAIN d,
           \A i \in DOMAIN c : c[i] = d[i]
    PROVE  c = d
  <1>1. c \in [DOMAIN c -> Halves] /\ d \in [DOMAIN c -> Halves]
    BY ContentIs
  <1> QED
    BY <1>1

(* The empty file and a whole document are contents, and so none is None. *)
LEMMA BasicContents ==
    /\ Empty \in Contents /\ DOMAIN Empty = {} /\ Empty # None
    /\ \A S \in SUBSET Blobs : Doc(S) \in Contents /\ DOMAIN Doc(S) = 1 .. 2 /\ Doc(S) # None
    /\ \A b \in Blobs : [i \in {1} |-> {b}] \in Contents /\ DOMAIN [i \in {1} |-> {b}] = 1 .. 1
  <1>1. Empty \in [{} -> Halves]
    BY DEF Empty
  <1>2. ASSUME NEW S \in SUBSET Blobs PROVE Doc(S) \in [{1, 2} -> Halves]
    BY DEF Doc, Halves
  <1>3. ASSUME NEW b \in Blobs PROVE [i \in {1} |-> {b}] \in [{1} -> Halves]
    BY DEF Halves
  <1>4. \A D \in SUBSET {1, 2} : [D -> Halves] \subseteq Contents
    BY DEF Contents
  <1>5. Empty \in Contents /\ Empty # None
    BY <1>1, <1>4, NoneAssumption
  <1>6. \A S \in SUBSET Blobs : Doc(S) \in Contents /\ Doc(S) # None
    BY <1>2, <1>4, NoneAssumption
  <1>7. \A b \in Blobs : [i \in {1} |-> {b}] \in Contents
    BY <1>3, <1>4
  <1>8. 1 .. 1 = {1} /\ 1 .. 2 = {1, 2}
    OBVIOUS
  <1>9. DOMAIN Empty = {}
    BY DEF Empty
  <1>10. \A S \in SUBSET Blobs : DOMAIN Doc(S) = 1 .. 2
    BY <1>8 DEF Doc
  <1>11. \A b \in Blobs : DOMAIN [i \in {1} |-> {b}] = 1 .. 1
    BY <1>8
  <1> HIDE DEF Empty, Doc
  <1> QED
    BY <1>5, <1>6, <1>7, <1>9, <1>10, <1>11, Zenon

(* Writing a half gives a content. *)
LEMMA PutContent ==
    ASSUME NEW c \in Contents, NEW i \in {1, 2}, NEW h \in Halves
    PROVE  [j \in DOMAIN c \cup {i} |-> IF j = i THEN h ELSE c[j]] \in Contents
  <1>1. DOMAIN c \cup {i} \in SUBSET {1, 2}
    BY ContentIs
  <1>2. [j \in DOMAIN c \cup {i} |-> IF j = i THEN h ELSE c[j]] \in [DOMAIN c \cup {i} -> Halves]
    BY ContentIs
  <1> QED
    BY <1>1, <1>2 DEF Contents

(* A file names releases. *)
LEMMA NamedAreBlobs ==
    ASSUME NEW c \in Contents \cup {None}
    PROVE  Named(c) \subseteq Blobs /\ (c = None => Named(c) = {})
  <1>1. CASE Parses(c)
    BY <1>1, ContentIs DEF Parses, Named, Halves
  <1>2. CASE ~Parses(c)
    BY <1>2 DEF Named
  <1>3. ~Parses(None)
    BY DEF Parses
  <1> QED
    BY <1>1, <1>2, <1>3 DEF Named

(* A document is whole, a copy of the right blob is the right blob. *)
LEMMA RightBodies ==
    /\ \A n \in Names, S \in (SUBSET Blobs) \ {{}} :
          Kind(n) \notin {"cas", "artifact"} => Right(n, Doc(S))
    /\ \A b \in Blobs : Right(<<"artifact", b>>, Bytes(Doc({b})))
  <1>1. ASSUME NEW S \in (SUBSET Blobs) \ {{}} PROVE Parses(Doc(S))
    <2>1. DOMAIN Doc(S) = {1, 2} /\ Doc(S)[1] = S /\ Doc(S)[2] = S
      BY DEF Doc
    <2>2. Doc(S) # None
      BY BasicContents
    <2> QED
      BY <2>1, <2>2 DEF Parses
  <1>2. ASSUME NEW b \in Blobs PROVE Bytes(Doc({b})) = Doc({b})
    BY DEF Bytes, Doc
  <1> QED
    BY <1>1, <1>2 DEF Right, Kind

(* Names are pairs of a kind and what is named. *)
LEMMA NameKinds ==
    /\ \A n \in Names : Kind(n) = "cas" => n[2] \in Blobs /\ n = Cas(n[2])
    /\ \A n \in Names : Kind(n) \in Sweeps => n[2] \in Blobs /\ n = <<Kind(n), n[2]>>
    /\ \A i \in Indexes : <<"index", i>> \in Names /\ Kind(<<"index", i>>) = "index"
    /\ \A k \in Sweeps, b \in Blobs : <<k, b>> \in Names /\ Kind(<<k, b>>) = k
    /\ \A b \in Blobs : Cas(b) \in Names /\ Kind(Cas(b)) = "cas"
    /\ <<"latest", "latest">> \in Names /\ Kind(<<"latest", "latest">>) = "latest"
  BY DEF Names, Kind, Cas, Sweeps

-----------------------------------------------------------------------------
(* Requests. *)

(* The parts of a request's record. *)
LEMMA WriterParts ==
    ASSUME NEW r \in WriterType
    PROVE  /\ r.pc \in {"idle", "write", "rename", "verify"} /\ r.at \in {"lost", "temp", "final"}
           /\ r.alone \in BOOLEAN /\ r.body \in Contents /\ r.sent \in 0 .. 2
           /\ r.pc # "idle" => r.name \in Names /\ DOMAIN r.body \in {1 .. 1, 1 .. 2}
           /\ r.pc = "idle" => r = Free
           /\ r.at # "lost" => r.pc # "idle"
  <1>1. CASE r = Free
    BY <1>1, BasicContents DEF Free
  <1>2. CASE r # Free
    BY <1>2 DEF WriterType
  <1> QED
    BY <1>1, <1>2

(* A handle moves with the inode, and nothing else of a request changes. *)
LEMMA MovedFacts ==
    ASSUME NEW ws \in [Writers -> WriterType], NEW n,
           NEW from \in {"temp", "final"}, NEW to \in {"lost", "final"}
    PROVE  /\ Moved(ws, n, from, to) \in [Writers -> WriterType]
           /\ \A w \in Writers :
                 /\ Moved(ws, n, from, to)[w].pc = ws[w].pc
                 /\ Moved(ws, n, from, to)[w].name = ws[w].name
                 /\ Moved(ws, n, from, to)[w].body = ws[w].body
                 /\ Moved(ws, n, from, to)[w].sent = ws[w].sent
                 /\ Moved(ws, n, from, to)[w].alone = ws[w].alone
                 /\ Moved(ws, n, from, to)[w].at =
                       IF ws[w].name = n /\ ws[w].at = from THEN to ELSE ws[w].at
                 /\ ws[w] = Free => Moved(ws, n, from, to)[w] = Free
  <1> DEFINE m == Moved(ws, n, from, to)
  <1>1. ASSUME NEW w \in Writers
        PROVE  /\ m[w] \in WriterType
               /\ m[w].pc = ws[w].pc /\ m[w].name = ws[w].name /\ m[w].body = ws[w].body
               /\ m[w].sent = ws[w].sent /\ m[w].alone = ws[w].alone
               /\ m[w].at = IF ws[w].name = n /\ ws[w].at = from THEN to ELSE ws[w].at
               /\ ws[w] = Free => m[w] = Free
    <2>1. CASE ws[w].name = n /\ ws[w].at = from
      <3>1. ws[w] # Free
        BY <2>1 DEF Free
      <3>2. ws[w] \in WriterType \ {Free}
        BY <3>1
      <3>3. m[w] = [ws[w] EXCEPT !.at = to]
        BY <2>1 DEF Moved
      <3> QED
        BY <2>1, <3>1, <3>2, <3>3 DEF WriterType
    <2>2. CASE ~(ws[w].name = n /\ ws[w].at = from)
      <3>1. m[w] = ws[w]
        BY <2>2 DEF Moved
      <3> QED
        BY <2>2, <3>1
    <2> QED
      BY <2>1, <2>2
  <1>2. m \in [Writers -> WriterType]
    BY <1>1 DEF Moved
  <1> QED
    BY <1>1, <1>2

(* At first there are no requests and no temporary files. *)
LEMMA InitRequests == Init => RequestInv
  <1> SUFFICES ASSUME Init PROVE RequestInv
    OBVIOUS
  <1>1. file \in [Names -> Contents \cup {None}]
    <2>1. ASSUME NEW n \in Names PROVE file[n] \in Contents \cup {None}
      <3>1. CASE Kind(n) = "index"
        <4>1. n[2] \in Indexes /\ Published[n[2]] \in SUBSET Blobs
          BY <3>1, StoreAssumption DEF Names, Kind
        <4> QED
          BY <3>1, <4>1, BasicContents DEF Init
      <3>2. CASE Kind(n) = "latest"
        BY <3>2 DEF Init
      <3>3. CASE Kind(n) \notin {"index", "latest"}
        <4>1. Kind(n) \in Sweeps
          BY <3>3 DEF Names, Kind, Sweeps
        <4>2. {n[2]} \in SUBSET Blobs
          BY <4>1, NameKinds
        <4>3. file[n] = IF n[2] \in Uploaded THEN Doc({n[2]}) ELSE None
          BY <3>3 DEF Init
        <4> QED
          BY <4>2, <4>3, BasicContents
      <3> QED
        BY <3>1, <3>2, <3>3
    <2> QED
      BY <2>1 DEF Init
  <1>2. ASSUME NEW n \in Names, file[n] # None PROVE Right(n, file[n])
    <2>1. CASE Kind(n) = "index"
      <3>1. n[2] \in Indexes /\ Published[n[2]] \in SUBSET Blobs
        BY <2>1, StoreAssumption DEF Names, Kind
      <3>2. Published[n[2]] # {} /\ file[n] = Doc(Published[n[2]])
        BY <1>2, <2>1, <3>1 DEF Init
      <3> QED
        BY <2>1, <3>1, <3>2, RightBodies
    <2>2. CASE Kind(n) = "latest"
      BY <1>2, <2>2 DEF Init
    <2>3. CASE Kind(n) \notin {"index", "latest"}
      <3>1. Kind(n) \in Sweeps
        BY <2>3 DEF Names, Kind, Sweeps
      <3>2. {n[2]} \in (SUBSET Blobs) \ {{}}
        BY <3>1, NameKinds
      <3>3. file[n] = Doc({n[2]})
        BY <1>2, <2>3 DEF Init
      <3> QED
        BY <3>2, <3>3, RightBodies DEF Right
    <2> QED
      BY <2>1, <2>2, <2>3
  <1>3. FilesOK
    BY <1>1 DEF Init, FilesOK
  <1>4. WritersOK
    BY DEF Init, WritersOK, WriterType, Free
  <1>5. \A w \in Writers : ~Alone(w) /\ writer[w].at = "lost"
    BY DEF Init, Alone, Free
  <1> QED
    BY <1>2, <1>3, <1>4, <1>5
    DEF RequestInv, UploadInv, Sole, Sent, Sound, Stray, Served

(* Steps that neither write nor remove. *)
LEMMA QuietSteps ==
    ASSUME RequestInv, UNCHANGED <<file, temp, writer, mixed, mtime, tmtime>>,
           lease' \in [Blobs -> Nat], ticket' \in [Blobs -> Nat],
           now' \in Nat, requests' \in Nat, crashes' \in Nat
    PROVE  RequestInv'
  BY DEF RequestInv, FilesOK, WritersOK, UploadInv, Sole, Sent, Sound, Stray, Served,
         Alone, IsWriting, Compared

(* A request at work has a key. *)
LEMMA NamesOfWriters ==
    ASSUME RequestInv, NEW w \in Writers, writer[w].pc # "idle" \/ writer[w].at # "lost"
    PROVE  writer[w].name \in Names
  BY WriterParts DEF RequestInv, WritersOK

(* A temporary file goes, perhaps with the request that was writing it. *)
LEMMA TempRemoved ==
    ASSUME RequestInv, NEW n \in Names, NEW ws \in [Writers -> WriterType],
           \A w \in Writers : ws[w] = writer[w] \/ (ws[w] = Free /\ writer[w].pc # "verify"),
           RemoveTemp(n, ws),
           UNCHANGED <<file, mtime, lease, ticket, now, requests, crashes, mixed>>
    PROVE  RequestInv'
  <1>1. /\ writer' \in [Writers -> WriterType]
        /\ \A w \in Writers :
              /\ writer'[w].pc = ws[w].pc /\ writer'[w].name = ws[w].name
              /\ writer'[w].body = ws[w].body /\ writer'[w].sent = ws[w].sent
              /\ writer'[w].alone = ws[w].alone
              /\ writer'[w].at = IF ws[w].name = n /\ ws[w].at = "temp" THEN "lost" ELSE ws[w].at
    BY MovedFacts DEF RemoveTemp
  <1>2. Free.pc = "idle" /\ Free.at = "lost"
    BY DEF Free
  <1>3. temp' = [temp EXCEPT ![n] = None] /\ FilesOK'
    BY NameKinds DEF RequestInv, FilesOK, RemoveTemp
  <1> DEFINE Fits(w) == /\ writer[w].pc = "write" => writer[w].sent + 1 \in DOMAIN writer[w].body
                        /\ writer[w].pc = "rename" => DOMAIN writer[w].body = 1 .. writer[w].sent
                        /\ writer[w].pc = "verify" => writer[w].at = "lost" /\ Kind(writer[w].name) = "cas"
                        /\ writer[w].at = "temp" => temp[writer[w].name] # None
                        /\ writer[w].at = "final" => file[writer[w].name] # None
  <1>4. WritersOK'
    <2>1. ASSUME NEW w \in Writers PROVE Fits(w)'
      <3>1. CASE ws[w] = Free
        BY <1>1, <1>2, <3>1
      <3>2. CASE ws[w] = writer[w]
        <4>1. Fits(w)
          BY DEF RequestInv, WritersOK
        <4>2. /\ writer'[w].pc = writer[w].pc /\ writer'[w].name = writer[w].name
              /\ writer'[w].body = writer[w].body /\ writer'[w].sent = writer[w].sent
              /\ writer'[w].at = IF writer[w].name = n /\ writer[w].at = "temp" THEN "lost" ELSE writer[w].at
          BY <1>1, <3>2
        <4>3. writer'[w].at = "temp" => temp'[writer[w].name] = temp[writer[w].name]
          BY <1>3, <4>2, NamesOfWriters DEF RequestInv, FilesOK
        <4>4. file' = file
          OBVIOUS
        <4> QED
          BY <4>1, <4>2, <4>3, <4>4
      <3> QED
        BY <3>1, <3>2
    <2>2. writer' \in [Writers -> WriterType]
      BY <1>1
    <2> QED
      BY <2>1, <2>2, Zenon DEF WritersOK
  <1>5. \A w \in Writers : Alone(w)' => Alone(w) /\ ws[w] = writer[w]
    BY <1>1, <1>2 DEF Alone
  <1>6. Sole'
    BY <1>1, <1>2, <1>5 DEF RequestInv, UploadInv, Sole, IsWriting
  <1>7. Sent'
    <2> SUFFICES ASSUME NEW w \in Writers, Alone(w)', temp'[writer'[w].name] # None
                 PROVE  /\ writer'[w].at = "temp"
                        /\ DOMAIN temp'[writer'[w].name] = 1 .. writer'[w].sent
                        /\ \A i \in 1 .. writer'[w].sent : temp'[writer'[w].name][i] = writer'[w].body[i]
      BY DEF Sent
    <2>1. Alone(w) /\ ws[w] = writer[w] /\ writer[w].name \in Names
      BY <1>5, NamesOfWriters DEF Alone
    <2>2. writer[w].name # n
      BY <1>1, <1>3, <2>1 DEF RequestInv, FilesOK
    <2>3. temp'[writer[w].name] = temp[writer[w].name] /\ writer'[w].name = writer[w].name
      BY <1>1, <1>3, <2>1, <2>2 DEF RequestInv, FilesOK
    <2> QED
      BY <1>1, <2>1, <2>2, <2>3 DEF RequestInv, UploadInv, Sent
  <1>8. Sound'
    BY <1>1, <1>5 DEF RequestInv, UploadInv, Sound
  <1>9. Stray'
    BY <1>1, <1>2 DEF RequestInv, UploadInv, Stray
  <1>10. Served'
    BY <1>1, <1>2 DEF RequestInv, UploadInv, Served, Compared
  <1> QED
    BY <1>3, <1>4, <1>6, <1>7, <1>8, <1>9, <1>10 DEF RequestInv, UploadInv

(* A file goes, perhaps with the request that found it wrong. *)
LEMMA FileRemoved ==
    ASSUME RequestInv, NEW n \in Names, NEW ws \in [Writers -> WriterType],
           \A w \in Writers : ws[w] = writer[w] \/ (ws[w] = Free /\ writer[w].name = n),
           RemoveFile(n, ws), requests' \in Nat,
           UNCHANGED <<temp, tmtime, lease, ticket, now, crashes, mixed>>
    PROVE  RequestInv'
  <1>1. /\ writer' \in [Writers -> WriterType]
        /\ \A w \in Writers :
              /\ writer'[w].pc = ws[w].pc /\ writer'[w].name = ws[w].name
              /\ writer'[w].body = ws[w].body /\ writer'[w].sent = ws[w].sent
              /\ writer'[w].alone = ws[w].alone
              /\ writer'[w].at = IF ws[w].name = n /\ ws[w].at = "final" THEN "lost" ELSE ws[w].at
    BY MovedFacts DEF RemoveFile
  <1>2. Free.pc = "idle" /\ Free.at = "lost"
    BY DEF Free
  <1>3. file' = [file EXCEPT ![n] = None] /\ FilesOK'
    BY NameKinds DEF RequestInv, FilesOK, RemoveFile
  <1> DEFINE Fits(w) == /\ writer[w].pc = "write" => writer[w].sent + 1 \in DOMAIN writer[w].body
                        /\ writer[w].pc = "rename" => DOMAIN writer[w].body = 1 .. writer[w].sent
                        /\ writer[w].pc = "verify" => writer[w].at = "lost" /\ Kind(writer[w].name) = "cas"
                        /\ writer[w].at = "temp" => temp[writer[w].name] # None
                        /\ writer[w].at = "final" => file[writer[w].name] # None
  <1>4. WritersOK'
    <2>1. ASSUME NEW w \in Writers PROVE Fits(w)'
      <3>1. CASE ws[w] = Free
        BY <1>1, <1>2, <3>1
      <3>2. CASE ws[w] = writer[w]
        <4>1. Fits(w)
          BY DEF RequestInv, WritersOK
        <4>2. /\ writer'[w].pc = writer[w].pc /\ writer'[w].name = writer[w].name
              /\ writer'[w].body = writer[w].body /\ writer'[w].sent = writer[w].sent
              /\ writer'[w].at = IF writer[w].name = n /\ writer[w].at = "final" THEN "lost" ELSE writer[w].at
          BY <1>1, <3>2
        <4>3. writer'[w].at = "final" => file'[writer[w].name] = file[writer[w].name]
          BY <1>3, <4>2, NamesOfWriters DEF RequestInv, FilesOK
        <4>4. temp' = temp
          OBVIOUS
        <4> QED
          BY <4>1, <4>2, <4>3, <4>4
      <3> QED
        BY <3>1, <3>2
    <2>2. writer' \in [Writers -> WriterType]
      BY <1>1
    <2> QED
      BY <2>1, <2>2, Zenon DEF WritersOK
  <1>5. \A w \in Writers : Alone(w)' => Alone(w) /\ ws[w] = writer[w]
    BY <1>1, <1>2 DEF Alone
  <1>6. Sole'
    BY <1>1, <1>2, <1>5 DEF RequestInv, UploadInv, Sole, IsWriting
  <1>7. Sent'
    BY <1>1, <1>3, <1>5 DEF RequestInv, UploadInv, Sent
  <1>8. Sound'
    BY <1>1, <1>5 DEF RequestInv, UploadInv, Sound
  <1>9. Stray'
    BY <1>1, <1>2 DEF RequestInv, UploadInv, Stray
  <1>10. Served'
    BY <1>1, <1>2, <1>3 DEF RequestInv, UploadInv, Served, Compared, FilesOK
  <1> QED
    BY <1>3, <1>4, <1>6, <1>7, <1>8, <1>9, <1>10 DEF RequestInv, UploadInv

(* A request is accepted: another one that was alone with the key is not any
   more. *)
LEMMA Accepts ==
    ASSUME RequestInv, NEW w \in Writers, NEW n \in Names, NEW body \in Contents,
           NEW sound \in BOOLEAN, DOMAIN body \in {1 .. 1, 1 .. 2},
           sound /\ Kind(n) # "cas" => Right(n, body), Accept(w, n, body, sound)
    PROVE  RequestInv'
  <1> DEFINE new == [pc |-> "write", name |-> n, body |-> body, sent |-> 0,
                     at |-> "temp", alone |-> sound /\ Writing(n) = {}]
  <1>1. new \in WriterType
    BY DEF WriterType
  <1>2. ASSUME NEW u \in Writers, u \in Writing(n)
        PROVE  [writer[u] EXCEPT !.alone = FALSE] \in WriterType
    <2>1. writer[u] \in WriterType /\ writer[u] # Free
      BY <1>2 DEF RequestInv, WritersOK, Writing, Free
    <2> QED
      BY <2>1 DEF WriterType
  <1>3. ASSUME NEW u \in Writers
        PROVE  /\ u = w => writer'[u] = new
               /\ u # w /\ u \in Writing(n) => writer'[u] = [writer[u] EXCEPT !.alone = FALSE]
               /\ u # w /\ u \notin Writing(n) => writer'[u] = writer[u]
    BY DEF Accept
  <1>4. writer' \in [Writers -> WriterType]
    <2>1. ASSUME NEW u \in Writers PROVE writer'[u] \in WriterType
      BY <1>1, <1>2, <1>3 DEF RequestInv, WritersOK
    <2> QED
      BY <2>1 DEF Accept
  <1>5. ASSUME NEW u \in Writers, u # w
        PROVE  /\ writer'[u].pc = writer[u].pc /\ writer'[u].name = writer[u].name
               /\ writer'[u].body = writer[u].body /\ writer'[u].sent = writer[u].sent
               /\ writer'[u].at = writer[u].at
               /\ writer'[u].alone => writer[u].alone /\ u \notin Writing(n)
    <2>1. CASE u \in Writing(n)
      <3>1. writer[u] \in WriterType \ {Free}
        BY <2>1 DEF RequestInv, WritersOK, Writing, Free
      <3> QED
        BY <1>3, <1>5, <2>1, <3>1, ZenonT(60) DEF WriterType
    <2>2. CASE u \notin Writing(n)
      BY <1>3, <1>5, <2>2
    <2> QED
      BY <2>1, <2>2
  <1>6. temp' = [temp EXCEPT ![n] = Empty] /\ file' = file /\ mixed' = mixed
    BY DEF Accept
  <1>7. FilesOK'
    BY <1>6, BasicContents, NameKinds DEF RequestInv, FilesOK, Accept
  <1>8. writer'[w] = new /\ writer[w].pc = "idle"
    BY <1>3 DEF Accept
  <1> HIDE DEF new
  <1>9. /\ writer'[w].pc = "write" /\ writer'[w].name = n /\ writer'[w].body = body
        /\ writer'[w].sent = 0 /\ writer'[w].at = "temp"
        /\ writer'[w].alone = (sound /\ Writing(n) = {})
    BY <1>8 DEF new
  <1>10. WritersOK'
    <2> DEFINE Fits(u) == /\ writer[u].pc = "write" => writer[u].sent + 1 \in DOMAIN writer[u].body
                          /\ writer[u].pc = "rename" => DOMAIN writer[u].body = 1 .. writer[u].sent
                          /\ writer[u].pc = "verify" => writer[u].at = "lost" /\ Kind(writer[u].name) = "cas"
                          /\ writer[u].at = "temp" => temp[writer[u].name] # None
                          /\ writer[u].at = "final" => file[writer[u].name] # None
    <2>1. ASSUME NEW u \in Writers PROVE Fits(u)'
      <3>1. CASE u = w
        <4>1. 1 \in DOMAIN body
          OBVIOUS
        <4>2. temp'[n] # None
          BY <1>6, BasicContents DEF RequestInv, FilesOK
        <4> QED
          BY <1>9, <3>1, <4>1, <4>2
      <3>2. CASE u # w
        <4>1. Fits(u)
          BY DEF RequestInv, WritersOK
        <4>2. writer[u].at = "temp" => temp'[writer[u].name] # None
          BY <1>6, <4>1, BasicContents, NamesOfWriters DEF RequestInv, FilesOK
        <4>3. /\ writer'[u].pc = writer[u].pc /\ writer'[u].name = writer[u].name
              /\ writer'[u].body = writer[u].body /\ writer'[u].sent = writer[u].sent
              /\ writer'[u].at = writer[u].at
          BY <1>5, <3>2
        <4> QED
          BY <1>6, <4>1, <4>2, <4>3
      <3> QED
        BY <3>1, <3>2
    <2>2. writer' \in [Writers -> WriterType]
      BY <1>4
    <2> QED
      BY <2>1, <2>2, Zenon DEF WritersOK
  <1>11. \A u \in Writers : u # w /\ Alone(u)' => Alone(u) /\ writer[u].name # n
    BY <1>5 DEF Alone, Writing
  <1>12. Alone(w)' => sound /\ \A u \in Writers : ~IsWriting(u, n)
    BY <1>9 DEF Alone, Writing, IsWriting
  <1>13. \A u \in Writers, m \in Names : u # w => (IsWriting(u, m)' <=> IsWriting(u, m))
    BY <1>5 DEF IsWriting
  <1>14. \A u \in Writers : Alone(u) => writer[u].name \in Names
    BY NamesOfWriters DEF Alone
  <1>15. Sole'
    BY <1>5, <1>9, <1>11, <1>12, <1>13, <1>14 DEF RequestInv, UploadInv, Sole, IsWriting
  <1>16. Sent'
    <2> SUFFICES ASSUME NEW u \in Writers, Alone(u)', temp'[writer'[u].name] # None
                 PROVE  /\ writer'[u].at = "temp"
                        /\ DOMAIN temp'[writer'[u].name] = 1 .. writer'[u].sent
                        /\ \A i \in 1 .. writer'[u].sent : temp'[writer'[u].name][i] = writer'[u].body[i]
      BY DEF Sent
    <2>1. CASE u = w
      BY <1>6, <1>9, <2>1, BasicContents DEF RequestInv, FilesOK
    <2>2. CASE u # w
      <3>1. temp'[writer[u].name] = temp[writer[u].name]
        BY <1>6, <1>11, <1>14, <2>2 DEF RequestInv, FilesOK
      <3> QED
        BY <1>5, <1>11, <2>2, <3>1 DEF RequestInv, UploadInv, Sent
    <2> QED
      BY <2>1, <2>2
  <1>17. Sound'
    BY <1>5, <1>9, <1>11, <1>12 DEF RequestInv, UploadInv, Sound
  <1>18. Stray'
    BY <1>5, <1>6, <1>9 DEF RequestInv, UploadInv, Stray
  <1>19. Served'
    BY <1>5, <1>6, <1>8 DEF RequestInv, UploadInv, Served, Compared
  <1> QED
    BY <1>7, <1>10, <1>15, <1>16, <1>17, <1>18, <1>19 DEF RequestInv, UploadInv

(* Every request that writes. *)
LEMMA RequestsAccepted ==
    ASSUME RequestInv, NEW w \in Writers, Requests(w)
    PROVE  RequestInv'
  <1> USE BasicContents, NameKinds
  <1>1. ASSUME NEW b \in Blobs, PutBlob(w, b) PROVE RequestInv'
    <2>1. PICK body \in {Doc({b}), Doc({}), [i \in {1} |-> {b}]} : Accept(w, Cas(b), body, TRUE)
      BY <1>1 DEF PutBlob
    <2>2. body \in Contents /\ DOMAIN body \in {1 .. 1, 1 .. 2}
      BY <2>1, {b} \in SUBSET Blobs, {} \in SUBSET Blobs
    <2> QED
      BY <2>1, <2>2, Accepts
  <1>2. ASSUME NEW b \in Blobs, PutCopy(w, b) PROVE RequestInv'
    <2> DEFINE c == file[Cas(b)]
    <2>1. c \in Contents
      BY <1>2 DEF PutCopy, FullSize, RequestInv, FilesOK
    <2>2. Bytes(c) \in [{1, 2} -> Halves]
      BY <2>1, ContentIs DEF Bytes, Halves
    <2>3. Bytes(c) \in Contents /\ DOMAIN Bytes(c) = 1 .. 2
      <3>1. [{1, 2} -> Halves] \subseteq Contents
        BY DEF Contents
      <3>2. 1 .. 2 = {1, 2}
        OBVIOUS
      <3> QED
        BY <2>2, <3>1, <3>2
    <2>4. <<"artifact", b>> \in Names
      BY DEF Sweeps
    <2>5. c = Doc({b}) => Right(<<"artifact", b>>, Bytes(c))
      BY RightBodies
    <2>6. Accept(w, <<"artifact", b>>, Bytes(c), c = Doc({b}))
      BY <1>2 DEF PutCopy
    <2> HIDE DEF c
    <2> QED
      BY <2>3, <2>4, <2>5, <2>6, Accepts
  <1>3. ASSUME NEW d \in Documents, PutDocument(w, d[1], d[2]) PROVE RequestInv'
    <2>1. /\ d[1] \in ({"index"} \X Indexes) \cup {<<"latest", "latest">>} \cup ({"manifest"} \X Blobs)
          /\ d[2] \in (SUBSET Blobs) \ {{}}
      BY StoreAssumption
    <2>2. d[1] \in Names /\ Kind(d[1]) \notin {"cas", "artifact"}
      BY <2>1 DEF Names, Kind
    <2>3. Accept(w, d[1], Doc(d[2]), TRUE)
      BY <1>3 DEF PutDocument
    <2> QED
      BY <2>1, <2>2, <2>3, RightBodies, Accepts
  <1> QED
    BY <1>1, <1>2, <1>3 DEF Requests

(* The next half is written: alone with the key, it follows what was sent. *)
LEMMA Writes ==
    ASSUME RequestInv, NEW w \in Writers, Write(w)
    PROVE  RequestInv'
  <1> DEFINE n == writer[w].name
             i == writer[w].sent + 1
             h == writer[w].body[i]
             put(c) == [j \in DOMAIN c \cup {i} |-> IF j = i THEN h ELSE c[j]]
             pc == IF i + 1 \in DOMAIN writer[w].body THEN "write" ELSE "rename"
  <1>1. /\ writer[w].pc = "write" /\ n \in Names /\ writer[w] \in WriterType
        /\ writer[w].body \in Contents /\ DOMAIN writer[w].body \in {1 .. 1, 1 .. 2}
        /\ i \in DOMAIN writer[w].body /\ writer[w].at \in {"lost", "temp", "final"}
    BY WriterParts DEF Write, RequestInv, WritersOK
  <1>2. i \in {1, 2} /\ h \in Halves /\ writer[w].sent \in 0 .. 1
    BY <1>1, ContentIs, WriterParts
  <1>3. \A c \in Contents : put(c) \in Contents /\ put(c) # None
    BY <1>2, PutContent, NoneAssumption
  <1>4. /\ writer[w].at = "temp" => temp[n] \in Contents
        /\ writer[w].at = "final" => file[n] \in Contents
    BY <1>1 DEF RequestInv, WritersOK, FilesOK
  <1>5. /\ temp' = IF writer[w].at = "temp" THEN [temp EXCEPT ![n] = put(temp[n])] ELSE temp
        /\ file' = IF writer[w].at = "final" THEN [file EXCEPT ![n] = put(file[n])] ELSE file
        /\ mixed' = mixed
    BY DEF Write
  <1> HIDE DEF put
  <1>6. FilesOK'
    <2>1. temp' \in [Names -> Contents \cup {None}] /\ file' \in [Names -> Contents \cup {None}]
      BY <1>3, <1>4, <1>5 DEF RequestInv, FilesOK
    <2> QED
      BY <1>1, <2>1, NameKinds DEF Write, RequestInv, FilesOK
  <1>7. writer' = [writer EXCEPT ![w] = [@ EXCEPT !.sent = i, !.pc = pc]]
    BY DEF Write
  <1>8. [writer[w] EXCEPT !.sent = i, !.pc = pc] \in WriterType
    <2>1. writer[w] \in WriterType \ {Free}
      BY <1>1 DEF Free
    <2>2. i \in 0 .. 2 /\ pc \in {"write", "rename", "verify"}
      BY <1>2
    <2> QED
      BY <2>1, <2>2 DEF WriterType
  <1>9. /\ writer'[w].pc = pc /\ writer'[w].name = n /\ writer'[w].body = writer[w].body
        /\ writer'[w].sent = i /\ writer'[w].at = writer[w].at /\ writer'[w].alone = writer[w].alone
    <2>1. writer[w] \in WriterType \ {Free}
      BY <1>1 DEF Free
    <2> QED
      BY <1>7, <2>1 DEF RequestInv, WritersOK, WriterType
  <1>10. \A u \in Writers : u # w => writer'[u] = writer[u]
    BY <1>7 DEF RequestInv, WritersOK
  <1>11. writer' \in [Writers -> WriterType]
    BY <1>7, <1>8 DEF RequestInv, WritersOK
  <1>12. \A m \in Names : /\ temp[m] # None => temp'[m] # None
                          /\ file[m] # None => file'[m] # None
    BY <1>3, <1>4, <1>5 DEF RequestInv, FilesOK
  <1>13. WritersOK'
    <2> DEFINE Fits(u) == /\ writer[u].pc = "write" => writer[u].sent + 1 \in DOMAIN writer[u].body
                          /\ writer[u].pc = "rename" => DOMAIN writer[u].body = 1 .. writer[u].sent
                          /\ writer[u].pc = "verify" => writer[u].at = "lost" /\ Kind(writer[u].name) = "cas"
                          /\ writer[u].at = "temp" => temp[writer[u].name] # None
                          /\ writer[u].at = "final" => file[writer[u].name] # None
    <2>1. ASSUME NEW u \in Writers PROVE Fits(u)'
      <3>1. CASE u = w
        <4>1. pc = "rename" => DOMAIN writer[w].body = 1 .. i
          <5>1. CASE DOMAIN writer[w].body = 1 .. 1
            BY <1>1, <5>1
          <5>2. CASE DOMAIN writer[w].body = 1 .. 2
            BY <1>1, <1>2, <5>2
          <5> QED
            BY <1>1, <5>1, <5>2
        <4>2. /\ writer[w].at = "temp" => temp[n] # None
              /\ writer[w].at = "final" => file[n] # None
          BY DEF RequestInv, WritersOK
        <4> QED
          BY <1>1, <1>9, <1>12, <3>1, <4>1, <4>2
      <3>2. CASE u # w
        <4>1. Fits(u) /\ (writer[u].at # "lost" => writer[u].name \in Names)
          BY NamesOfWriters DEF RequestInv, WritersOK
        <4> QED
          BY <1>10, <1>12, <3>2, <4>1
      <3> QED
        BY <3>1, <3>2
    <2> QED
      BY <1>11, <2>1, Zenon DEF WritersOK
  <1>14. \A u \in Writers : Alone(u)' => Alone(u)
    BY <1>1, <1>9, <1>10 DEF Alone
  <1>15. Sole'
    BY <1>1, <1>9, <1>10, <1>14 DEF RequestInv, UploadInv, Sole, IsWriting
  <1>16. Sent'
    <2> SUFFICES ASSUME NEW u \in Writers, Alone(u)', temp'[writer'[u].name] # None
                 PROVE  /\ writer'[u].at = "temp"
                        /\ DOMAIN temp'[writer'[u].name] = 1 .. writer'[u].sent
                        /\ \A j \in 1 .. writer'[u].sent : temp'[writer'[u].name][j] = writer'[u].body[j]
      BY DEF Sent
    <2>1. CASE u = w
      <3>1. temp[n] # None
        BY <1>5, <1>9, <2>1, <1>4, NoneAssumption
      <3>2. /\ writer[w].at = "temp" /\ DOMAIN temp[n] = 1 .. writer[w].sent
            /\ \A j \in 1 .. writer[w].sent : temp[n][j] = writer[w].body[j]
        BY <1>14, <2>1, <3>1 DEF RequestInv, UploadInv, Sent
      <3>3. temp'[n] = put(temp[n])
        BY <1>1, <1>5, <3>2 DEF RequestInv, FilesOK
      <3>4. 1 .. writer[w].sent \cup {i} = 1 .. i
        BY <1>2
      <3>5. DOMAIN put(temp[n]) = 1 .. i /\ \A j \in 1 .. i : put(temp[n])[j] = writer[w].body[j]
        BY <1>2, <3>2, <3>4 DEF put
      <3> QED
        BY <1>9, <2>1, <3>2, <3>3, <3>5
    <2>2. CASE u # w
      <3>1. writer[u].name # n
        BY <1>1, <1>14, <2>2 DEF RequestInv, UploadInv, Sole, IsWriting
      <3>2. writer[u].name \in Names
        BY <1>14, NamesOfWriters DEF Alone
      <3>3. temp'[writer[u].name] = temp[writer[u].name]
        BY <1>5, <3>1, <3>2 DEF RequestInv, FilesOK
      <3> QED
        BY <1>10, <1>14, <2>2, <3>3 DEF RequestInv, UploadInv, Sent
    <2> QED
      BY <2>1, <2>2
  <1>17. Sound'
    BY <1>9, <1>10, <1>14 DEF RequestInv, UploadInv, Sound
  <1>18. Stray'
    BY <1>5, <1>9, <1>10 DEF RequestInv, UploadInv, Stray
  <1>19. Served'
    <2> SUFFICES ASSUME NEW m \in Names, file'[m] # None, m \notin mixed
                 PROVE  Right(m, file'[m]) \/ Compared(m)'
      BY <1>5 DEF Served
    <2>1. file'[m] = file[m]
      <3>1. writer[w].at = "final" => n \in mixed
        BY DEF RequestInv, UploadInv, Stray
      <3> QED
        BY <1>5, <3>1 DEF RequestInv, FilesOK
    <2>2. Right(m, file[m]) \/ Compared(m)
      BY <2>1 DEF RequestInv, UploadInv, Served
    <2>3. Compared(m) => Compared(m)'
      BY <1>1, <1>10, <2>1 DEF Compared
    <2> QED
      BY <2>1, <2>2, <2>3
  <1> QED
    BY <1>6, <1>13, <1>15, <1>16, <1>17, <1>18, <1>19 DEF RequestInv, UploadInv

(* The body is compared with what the key promises. *)
LEMMA Verifies ==
    ASSUME RequestInv, NEW w \in Writers, Verify(w)
    PROVE  RequestInv'
  <1> DEFINE ws == [writer EXCEPT ![w] = Free]
  <1>1. writer[w].pc = "verify" /\ writer[w].name \in Names
    BY NamesOfWriters DEF Verify
  <1>2. ws \in [Writers -> WriterType]
    BY DEF RequestInv, WritersOK, WriterType
  <1>3. CASE ~Right(writer[w].name, writer[w].body)
    <2>1. RemoveFile(writer[w].name, ws)
      BY <1>3 DEF Verify
    <2>2. \A u \in Writers : ws[u] = writer[u] \/ (ws[u] = Free /\ writer[u].name = writer[w].name)
      BY DEF RequestInv, WritersOK
    <2>3. requests' \in Nat /\ UNCHANGED <<temp, tmtime, lease, ticket, now, crashes, mixed>>
      BY DEF Verify, RequestInv, FilesOK
    <2> HIDE DEF ws
    <2> QED
      BY <1>1, <1>2, <2>1, <2>2, <2>3, FileRemoved
  <1>4. CASE Right(writer[w].name, writer[w].body)
    <2>1. writer' = ws /\ UNCHANGED <<file, temp, mtime, tmtime, lease, ticket, now, requests, crashes, mixed>>
      BY <1>4 DEF Verify
    <2>2. /\ writer' \in [Writers -> WriterType]
          /\ writer'[w] = Free /\ \A u \in Writers : u # w => writer'[u] = writer[u]
      BY <1>2, <2>1 DEF RequestInv, WritersOK
    <2>3. Free.pc = "idle" /\ Free.at = "lost"
      BY DEF Free
    <2>4. FilesOK'
      BY <2>1 DEF RequestInv, FilesOK
    <2>5. WritersOK'
      BY <2>1, <2>2, <2>3 DEF RequestInv, WritersOK
    <2>6. \A u \in Writers : Alone(u)' => Alone(u) /\ u # w
      BY <2>2, <2>3 DEF Alone
    <2>7. Sole' /\ Sent' /\ Sound' /\ Stray'
      <3>1. Sole'
        BY <2>2, <2>3, <2>6 DEF RequestInv, UploadInv, Sole, IsWriting
      <3>2. Sent'
        BY <2>1, <2>2, <2>6 DEF RequestInv, UploadInv, Sent
      <3>3. Sound'
        BY <2>2, <2>6 DEF RequestInv, UploadInv, Sound
      <3>4. Stray'
        BY <2>1, <2>2, <2>3 DEF RequestInv, UploadInv, Stray
      <3> QED
        BY <3>1, <3>2, <3>3, <3>4
    <2>8. Served'
      <3> SUFFICES ASSUME NEW m \in Names, file[m] # None, m \notin mixed, ~Right(m, file[m])
                   PROVE  Compared(m)'
        BY <2>1 DEF Served
      <3>1. PICK u \in Writers : writer[u].pc = "verify" /\ writer[u].name = m /\ writer[u].body = file[m]
        BY DEF RequestInv, UploadInv, Served, Compared
      <3>2. u # w
        BY <1>4, <3>1
      <3> QED
        BY <2>1, <2>2, <3>1, <3>2 DEF Compared
    <2> QED
      BY <2>4, <2>5, <2>7, <2>8 DEF RequestInv, UploadInv
  <1> QED
    BY <1>3, <1>4

(* A restart forgets the requests; a body that was still to be compared counts
   as mixed from then on. *)
LEMMA Restarts ==
    ASSUME RequestInv, Crash
    PROVE  RequestInv'
  <1>1. \A w \in Writers : writer'[w] = Free
    BY DEF Crash
  <1>2. Free.pc = "idle" /\ Free.at = "lost"
    BY DEF Free
  <1>3. mixed' = mixed \cup {writer[w].name : w \in {u \in Writers : writer[u].pc = "verify"}}
    BY DEF Crash
  <1>4. FilesOK'
    <2>1. mixed' \subseteq Names
      BY <1>3, NamesOfWriters DEF RequestInv, FilesOK
    <2> QED
      BY <2>1 DEF Crash, RequestInv, FilesOK
  <1>5. WritersOK'
    BY <1>1, <1>2 DEF Crash, WritersOK, WriterType
  <1>6. Served'
    BY <1>3 DEF Crash, RequestInv, UploadInv, Served, Compared
  <1> QED
    BY <1>1, <1>2, <1>4, <1>5, <1>6 DEF RequestInv, UploadInv, Sole, Sent, Sound, Stray, Alone

(* What is at the temporary name takes the key over: what one request alone has
   sent, or bytes of mixed origin.  Handles move with the inodes. *)
LEMMA Renames ==
    ASSUME RequestInv, NEW w \in Writers, Rename(w), temp[writer[w].name] # None
    PROVE  RequestInv'
  <1> DEFINE n == writer[w].name
             freed == IF Kind(n) = "cas" THEN [writer[w] EXCEPT !.pc = "verify", !.at = "lost"] ELSE Free
             done == [writer EXCEPT ![w] = freed]
             once == Moved(done, n, "final", "lost")
  <1>1. /\ writer[w].pc = "rename" /\ n \in Names /\ temp[n] \in Contents
        /\ writer[w] \in WriterType \ {Free}
        /\ writer[w].body \in Contents /\ DOMAIN writer[w].body = 1 .. writer[w].sent
    BY WriterParts DEF Rename, RequestInv, WritersOK, FilesOK, Free
  <1>2. /\ file' = [file EXCEPT ![n] = temp[n]] /\ temp' = [temp EXCEPT ![n] = None]
        /\ writer' = Moved(once, n, "temp", "final")
        /\ mixed' = IF writer[w].alone THEN mixed \ {n} ELSE mixed \cup {n}
    BY DEF Rename
  <1>3. FilesOK'
    <2>1. /\ file' \in [Names -> Contents \cup {None}] /\ temp' \in [Names -> Contents \cup {None}]
          /\ mixed' \subseteq Names
      BY <1>1, <1>2 DEF RequestInv, FilesOK
    <2>2. /\ mtime' = IF Kind(n) = "cas" THEN [mtime EXCEPT ![n[2]] = tmtime[n[2]]] ELSE mtime
          /\ tmtime' = IF Kind(n) = "cas" THEN [tmtime EXCEPT ![n[2]] = 0] ELSE tmtime
          /\ UNCHANGED <<lease, ticket, now, requests, crashes>>
      BY DEF Rename
    <2>3. mtime' \in [Blobs -> Nat] /\ tmtime' \in [Blobs -> Nat]
      BY <1>1, <2>2, NameKinds DEF RequestInv, FilesOK
    <2> QED
      BY <2>1, <2>2, <2>3 DEF RequestInv, FilesOK
  <1>4. freed \in WriterType /\ freed.at = "lost"
        /\ (Kind(n) = "cas" => freed.pc = "verify" /\ freed.name = n /\ freed.body = writer[w].body)
        /\ (Kind(n) # "cas" => freed.pc = "idle")
    <2>1. CASE Kind(n) = "cas"
      BY <1>1, <2>1 DEF WriterType
    <2>2. CASE Kind(n) # "cas"
      BY <2>2 DEF WriterType, Free
    <2> QED
      BY <2>1, <2>2
  <1> HIDE DEF freed
  <1>5. /\ done \in [Writers -> WriterType] /\ done[w] = freed
        /\ \A u \in Writers : u # w => done[u] = writer[u]
    BY <1>4 DEF RequestInv, WritersOK
  <1> HIDE DEF done
  <1>6. /\ once \in [Writers -> WriterType]
        /\ \A u \in Writers :
              /\ once[u].pc = done[u].pc /\ once[u].name = done[u].name /\ once[u].body = done[u].body
              /\ once[u].sent = done[u].sent /\ once[u].alone = done[u].alone
              /\ once[u].at = IF done[u].name = n /\ done[u].at = "final" THEN "lost" ELSE done[u].at
    BY <1>5, MovedFacts
  <1> HIDE DEF once
  <1>7. /\ writer' \in [Writers -> WriterType]
        /\ \A u \in Writers :
              /\ writer'[u].pc = once[u].pc /\ writer'[u].name = once[u].name /\ writer'[u].body = once[u].body
              /\ writer'[u].sent = once[u].sent /\ writer'[u].alone = once[u].alone
              /\ writer'[u].at = IF once[u].name = n /\ once[u].at = "temp" THEN "final" ELSE once[u].at
    BY <1>2, <1>6, MovedFacts
  <1>8. ASSUME NEW u \in Writers, u # w
        PROVE  /\ writer'[u].pc = writer[u].pc /\ writer'[u].name = writer[u].name
               /\ writer'[u].body = writer[u].body /\ writer'[u].sent = writer[u].sent
               /\ writer'[u].alone = writer[u].alone
               /\ writer[u].name # n => writer'[u].at = writer[u].at
               /\ writer[u].name = n => writer'[u].at = IF writer[u].at = "temp" THEN "final" ELSE "lost"
    <2>1. writer[u].at \in {"lost", "temp", "final"}
      BY WriterParts DEF RequestInv, WritersOK
    <2> QED
      BY <1>5, <1>6, <1>7, <1>8, <2>1
  <1>9. /\ writer'[w].pc = freed.pc /\ writer'[w].at = "lost"
        /\ writer'[w].name = freed.name /\ writer'[w].body = freed.body
    BY <1>4, <1>5, <1>6, <1>7
  <1>10. WritersOK'
    <2> DEFINE Fits(u) == /\ writer[u].pc = "write" => writer[u].sent + 1 \in DOMAIN writer[u].body
                          /\ writer[u].pc = "rename" => DOMAIN writer[u].body = 1 .. writer[u].sent
                          /\ writer[u].pc = "verify" => writer[u].at = "lost" /\ Kind(writer[u].name) = "cas"
                          /\ writer[u].at = "temp" => temp[writer[u].name] # None
                          /\ writer[u].at = "final" => file[writer[u].name] # None
    <2>1. ASSUME NEW u \in Writers PROVE Fits(u)'
      <3>1. CASE u = w
        BY <1>4, <1>9, <3>1
      <3>2. CASE u # w
        <4>1. Fits(u) /\ (writer[u].at # "lost" => writer[u].name \in Names)
              /\ writer[u].at \in {"lost", "temp", "final"}
          BY NamesOfWriters, WriterParts DEF RequestInv, WritersOK
        <4>2. CASE writer[u].name = n
          <5>1. file'[n] # None
            BY <1>1, <1>2, NoneAssumption DEF RequestInv, FilesOK
          <5> QED
            BY <1>8, <3>2, <4>1, <4>2, <5>1
        <4>3. CASE writer[u].name # n
          BY <1>2, <1>8, <3>2, <4>1, <4>3 DEF RequestInv, FilesOK
        <4> QED
          BY <4>2, <4>3
      <3> QED
        BY <3>1, <3>2
    <2>2. writer' \in [Writers -> WriterType]
      BY <1>7
    <2> QED
      BY <2>1, <2>2, Zenon DEF WritersOK
  <1>11. \A u \in Writers : Alone(u)' => Alone(u) /\ u # w
    BY <1>4, <1>8, <1>9 DEF Alone
  <1>12. \A u \in Writers : Alone(u)' => writer[u].name # n /\ writer[u].name \in Names
    BY <1>1, <1>11, NamesOfWriters DEF RequestInv, UploadInv, Sole, IsWriting, Alone
  <1>13. Sole'
    <2> SUFFICES ASSUME NEW u \in Writers, Alone(u)', NEW v \in Writers, v # u,
                        IsWriting(v, writer[u].name)'
                 PROVE  FALSE
      BY <1>8, <1>11 DEF Sole, IsWriting
    <2>1. v # w
      BY <1>4, <1>9 DEF IsWriting
    <2>2. IsWriting(v, writer[u].name)
      BY <1>8, <1>11, <2>1 DEF IsWriting
    <2> QED
      BY <1>11, <2>2 DEF RequestInv, UploadInv, Sole
  <1>14. Sent'
    <2> SUFFICES ASSUME NEW u \in Writers, Alone(u)', temp'[writer'[u].name] # None
                 PROVE  /\ writer'[u].at = "temp"
                        /\ DOMAIN temp'[writer'[u].name] = 1 .. writer'[u].sent
                        /\ \A i \in 1 .. writer'[u].sent : temp'[writer'[u].name][i] = writer'[u].body[i]
      BY DEF Sent
    <2>1. u # w /\ Alone(u) /\ writer[u].name # n
      BY <1>11, <1>12
    <2>2. temp'[writer[u].name] = temp[writer[u].name]
      BY <1>2, <1>12, <2>1 DEF RequestInv, FilesOK
    <2> QED
      BY <1>8, <2>1, <2>2 DEF RequestInv, UploadInv, Sent
  <1>15. Sound'
    BY <1>8, <1>11 DEF RequestInv, UploadInv, Sound
  <1>16. Stray'
    <2> SUFFICES ASSUME NEW u \in Writers, writer'[u].at = "final" PROVE writer'[u].name \in mixed'
      BY DEF Stray
    <2>1. u # w
      BY <1>9
    <2>2. CASE writer[u].name = n
      <3>1. writer[u].at = "temp"
        BY <1>8, <2>1, <2>2
      <3>2. IsWriting(u, n)
        BY <2>2, <3>1, WriterParts DEF IsWriting, RequestInv, WritersOK
      <3>3. ~writer[w].alone
        BY <1>1, <2>1, <3>2 DEF RequestInv, UploadInv, Sole, Alone
      <3> QED
        BY <1>2, <1>8, <2>1, <2>2, <3>3
    <2>3. CASE writer[u].name # n
      BY <1>2, <1>8, <2>1, <2>3 DEF RequestInv, UploadInv, Stray
    <2> QED
      BY <2>2, <2>3
  <1>17. Served'
    <2> SUFFICES ASSUME NEW m \in Names, file'[m] # None, m \notin mixed'
                 PROVE  Right(m, file'[m]) \/ Compared(m)'
      BY DEF Served
    <2>1. CASE m # n
      <3>1. file'[m] = file[m] /\ m \notin mixed
        BY <1>2, <2>1 DEF RequestInv, FilesOK
      <3>2. Right(m, file[m]) \/ Compared(m)
        BY <3>1 DEF RequestInv, UploadInv, Served
      <3>3. Compared(m) => Compared(m)'
        BY <1>1, <1>8, <3>1 DEF Compared
      <3> QED
        BY <3>1, <3>2, <3>3
    <2>2. CASE m = n
      <3>1. Alone(w) /\ file'[n] = temp[n]
        <4>1. writer[w].alone
          BY <1>2, <2>2
        <4> QED
          BY <1>1, <1>2, <4>1 DEF Alone, RequestInv, FilesOK
      <3>2. temp[n] = writer[w].body
        BY <1>1, <3>1, SameContent DEF RequestInv, UploadInv, Sent
      <3>3. CASE Kind(n) = "cas"
        BY <1>4, <1>9, <2>2, <3>1, <3>2, <3>3 DEF Compared
      <3>4. CASE Kind(n) # "cas"
        BY <2>2, <3>1, <3>2, <3>4 DEF RequestInv, UploadInv, Sound
      <3> QED
        BY <3>3, <3>4
    <2> QED
      BY <2>1, <2>2
  <1> QED
    BY <1>3, <1>10, <1>13, <1>14, <1>15, <1>16, <1>17 DEF RequestInv, UploadInv

(* A request ends: its call fails, or there is nothing to rename. *)
LEMMA Ends ==
    ASSUME RequestInv, NEW w \in Writers,
           Fail(w) \/ (Rename(w) /\ temp[writer[w].name] = None)
    PROVE  RequestInv'
  <1> DEFINE ws == [writer EXCEPT ![w] = Free]
  <1>1. ws \in [Writers -> WriterType]
    BY DEF RequestInv, WritersOK, WriterType
  <1>2. writer[w].pc \in {"write", "rename"} /\ writer[w].name \in Names
    BY NamesOfWriters DEF Fail, Rename
  <1>3. \A u \in Writers : ws[u] = writer[u] \/ (ws[u] = Free /\ writer[u].pc # "verify")
    BY <1>2 DEF RequestInv, WritersOK
  <1>4. CASE Fail(w)
    <2>1. RemoveTemp(writer[w].name, ws)
          /\ UNCHANGED <<file, mtime, lease, ticket, now, requests, crashes, mixed>>
      BY <1>4 DEF Fail
    <2> HIDE DEF ws
    <2> QED
      BY <1>1, <1>2, <1>3, <2>1, TempRemoved
  <1>5. CASE Rename(w) /\ temp[writer[w].name] = None
    <2>1. writer' = ws
          /\ UNCHANGED <<file, temp, mtime, tmtime, mixed, lease, ticket, now, requests, crashes>>
      BY <1>5 DEF Rename
    <2>2. /\ writer' \in [Writers -> WriterType]
          /\ writer'[w] = Free /\ \A u \in Writers : u # w => writer'[u] = writer[u]
      BY <1>1, <2>1 DEF RequestInv, WritersOK
    <2>3. Free.pc = "idle" /\ Free.at = "lost"
      BY DEF Free
    <2>4. FilesOK' /\ WritersOK'
      BY <2>1, <2>2, <2>3 DEF RequestInv, FilesOK, WritersOK
    <2>5. \A u \in Writers : Alone(u)' => Alone(u) /\ u # w
      BY <2>2, <2>3 DEF Alone
    <2>6. Sole'
      BY <2>2, <2>3, <2>5 DEF RequestInv, UploadInv, Sole, IsWriting
    <2>7. Sent'
      BY <2>1, <2>2, <2>5 DEF RequestInv, UploadInv, Sent
    <2>8. Sound'
      BY <2>2, <2>5 DEF RequestInv, UploadInv, Sound
    <2>9. Stray'
      BY <2>1, <2>2, <2>3 DEF RequestInv, UploadInv, Stray
    <2>10. Served'
      BY <1>2, <2>1, <2>2 DEF RequestInv, UploadInv, Served, Compared
    <2> QED
      BY <2>4, <2>6, <2>7, <2>8, <2>9, <2>10 DEF RequestInv, UploadInv
  <1> QED
    BY <1>4, <1>5

(* What the collector removes. *)
LEMMA Removes ==
    ASSUME RequestInv, CollectorOK, Remove
    PROVE  RequestInv'
  <1>1. writer \in [Writers -> WriterType] /\ \A w \in Writers : writer[w] = writer[w] \/ FALSE
    BY DEF RequestInv, WritersOK
  <1>2. gc.doomed[1] \in Names
    BY NameKinds DEF Remove, CollectorOK, CollectorType
  <1>3. UNCHANGED <<lease, ticket, now, requests, crashes, mixed>> /\ requests' \in Nat
    BY DEF Remove, Collect, RequestInv, FilesOK
  <1>4. CASE gc.doomed[2] = "file"
    <2>1. RemoveFile(gc.doomed[1], writer) /\ UNCHANGED <<temp, tmtime>>
      BY <1>4 DEF Remove
    <2> QED
      BY <1>1, <1>2, <1>3, <2>1, FileRemoved
  <1>5. CASE gc.doomed[2] # "file"
    <2>1. RemoveTemp(gc.doomed[1], writer) /\ UNCHANGED <<file, mtime>>
      BY <1>5 DEF Remove
    <2> QED
      BY <1>1, <1>2, <1>3, <2>1, TempRemoved
  <1> QED
    BY <1>4, <1>5

(* What requests are about holds after every step. *)
LEMMA RequestsStep ==
    ASSUME RequestInv, CollectorOK, [Next]_vars
    PROVE  RequestInv'
  <1>1. ASSUME NEW w \in Writers, Requests(w) PROVE RequestInv'
    BY <1>1, RequestsAccepted
  <1>2. ASSUME NEW w \in Writers, Serve(w) PROVE RequestInv'
    BY <1>2, Writes, Verifies, Ends, Renames DEF Serve
  <1>3. ASSUME NEW b \in Blobs, Mint(b) PROVE RequestInv'
    <2>1. lease' \in [Blobs -> Nat] /\ ticket' \in [Blobs -> Nat]
      BY <1>3, StoreAssumption DEF Mint, RequestInv, FilesOK
    <2> QED
      BY <1>3, <2>1, QuietSteps DEF Mint, RequestInv, FilesOK
  <1>4. ASSUME NEW b \in Blobs, Delete(b) PROVE RequestInv'
    <2>1. RemoveFile(Cas(b), writer) /\ requests' \in Nat
          /\ UNCHANGED <<temp, tmtime, lease, ticket, now, crashes, mixed>>
      BY <1>4 DEF Delete, RequestInv, FilesOK
    <2>2. writer \in [Writers -> WriterType] /\ Cas(b) \in Names
      BY NameKinds DEF RequestInv, WritersOK
    <2> QED
      BY <2>1, <2>2, FileRemoved
  <1>5. CASE StartRound \/ ReadIndex \/ ReadLatest \/ ReadManifest \/ ListPrefix \/ Look
    <2>1. UNCHANGED <<file, temp, writer, mixed, mtime, tmtime, lease, ticket, now, requests, crashes>>
      BY <1>5 DEF StartRound, ReadIndex, ReadLatest, ReadManifest, ListPrefix, Look, OnlyReads, Collect
    <2> QED
      BY <2>1, QuietSteps DEF RequestInv, FilesOK
  <1>6. CASE Remove
    BY <1>6, Removes
  <1>7. CASE Tick
    BY <1>7, QuietSteps DEF Tick, RequestInv, FilesOK
  <1>8. CASE Crash
    BY <1>8, Restarts
  <1>9. CASE UNCHANGED vars
    BY <1>9, QuietSteps DEF vars, RequestInv, FilesOK
  <1> QED
    BY <1>1, <1>2, <1>3, <1>4, <1>5, <1>6, <1>7, <1>8, <1>9 DEF Next

-----------------------------------------------------------------------------
(* The collector. *)

(* The published indexes name releases. *)
LEMMA ListedAreBlobs == RequestInv => Listed \subseteq Blobs
  <1> SUFFICES ASSUME RequestInv, NEW i \in Indexes PROVE Named(file[<<"index", i>>]) \subseteq Blobs
    BY DEF Listed
  <1>1. file[<<"index", i>>] \in Contents \cup {None}
    BY NameKinds DEF RequestInv, FilesOK
  <1> QED
    BY <1>1, NamedAreBlobs

(* A sleeping collector keeps nothing. *)
LEMMA Sleeps == gc' = Asleep => CollectorInv'
  BY DEF Asleep, CollectorInv, CollectorOK, CollectorType, Spared, Sweeps

(* The parts of the collector's record. *)
LEMMA CollectorParts ==
    ASSUME CollectorOK
    PROVE  /\ gc.pc \in {"idle", "indexes", "manifests"} \cup Sweeps
           /\ gc.left \subseteq Names \cup (Names \X {"file", "temp"})
           /\ gc.live \subseteq Sweeps \X Blobs /\ gc.kept \subseteq Blobs
           /\ gc.doomed \in {None} \cup (Names \X {"file", "temp"})
  BY DEF CollectorOK, CollectorType, Sweeps

(* What another index says now leaves what the rest names to be kept. *)
LEMMA KeepsAfter ==
    ASSUME RequestInv, CollectorInv, NEW n \in Names, NEW c \in Contents \cup {None},
           file' \in {file, [file EXCEPT ![n] = c]}, file'[n] = c,
           gc' = [gc EXCEPT !.kept = KeptAfter(n, c)]
    PROVE  CollectorInv'
  <1>1. /\ gc' \in CollectorType /\ gc'.pc = gc.pc /\ gc'.left = gc.left /\ gc'.live = gc.live
        /\ gc'.doomed = gc.doomed /\ gc'.kept = KeptAfter(n, c) /\ gc'.kept \subseteq gc.kept
    <2>1. KeptAfter(n, c) \subseteq gc.kept
      BY DEF KeptAfter
    <2> QED
      BY <2>1 DEF CollectorInv, CollectorOK, CollectorType
  <1>2. CollectorOK'
    BY <1>1 DEF CollectorInv, CollectorOK
  <1>3. ASSUME gc.pc = "indexes", NEW b \in gc'.kept, <<"manifest", b>> \notin gc.live
        PROVE  \E m \in gc'.left : b \in Named(file'[m])
    <2>1. PICK m \in gc.left : b \in Named(file[m])
      BY <1>1, <1>3 DEF CollectorInv, Spared
    <2>2. m \in Names /\ Kind(m) = "index"
      BY <1>3, <2>1, NameKinds DEF CollectorInv, CollectorOK
    <2>3. CASE m = n
      <3>1. b \in Named(c)
        BY <1>1, <2>1, <2>2, <2>3 DEF KeptAfter
      <3> QED
        BY <1>1, <2>1, <2>3, <3>1
    <2>4. CASE m # n
      BY <1>1, <2>1, <2>2, <2>4 DEF RequestInv, FilesOK
    <2> QED
      BY <2>3, <2>4
  <1>4. Spared'
    BY <1>1, <1>3 DEF CollectorInv, Spared
  <1> QED
    BY <1>2, <1>4 DEF CollectorInv

(* The indexes read so far are unchanged, whatever else is removed. *)
LEMMA OthersKeep ==
    ASSUME CollectorInv, UNCHANGED gc,
           \A n \in Names : Kind(n) = "index" => file'[n] = file[n]
    PROVE  CollectorInv'
  <1>1. CollectorOK'
    BY DEF CollectorInv, CollectorOK
  <1>2. gc.pc = "indexes" => \A n \in gc.left : n \in Names /\ Kind(n) = "index"
    BY NameKinds DEF CollectorInv, CollectorOK
  <1>3. Spared'
    BY <1>2 DEF CollectorInv, Spared
  <1> QED
    BY <1>1, <1>3 DEF CollectorInv

(* A round begins. *)
LEMMA Begins ==
    ASSUME RequestInv, CollectorInv, StartRound
    PROVE  CollectorInv'
  <1> DEFINE left == {n \in Names : Kind(n) = "index" /\ file[n] # None}
  <1>1. /\ gc'.pc = "indexes" /\ gc'.left = left /\ gc'.live = {} /\ gc'.kept = Listed
        /\ gc'.doomed = None /\ file' = file /\ gc' \in CollectorType
    BY ListedAreBlobs DEF StartRound, Collect, OnlyReads, Asleep, CollectorType
  <1>2. left \subseteq {"index"} \X Indexes
    BY DEF Names, Kind
  <1>3. ASSUME NEW b \in Listed PROVE \E n \in left : b \in Named(file[n])
    <2>1. PICK i \in Indexes : b \in Named(file[<<"index", i>>])
      BY DEF Listed
    <2>2. file[<<"index", i>>] # None
      BY <2>1, NamedAreBlobs
    <2> QED
      BY <2>1, <2>2, NameKinds
  <1>4. CollectorOK'
    BY <1>1, <1>2 DEF CollectorOK, Sweeps
  <1>5. Spared'
    BY <1>1, <1>3 DEF Spared, Sweeps
  <1> QED
    BY <1>4, <1>5 DEF CollectorInv

(* An index is read. *)
LEMMA IndexRead ==
    ASSUME RequestInv, CollectorInv, ReadIndex
    PROVE  CollectorInv'
  <1>1. PICK n \in gc.left :
           gc' = [gc EXCEPT !.left = @ \ {n}, !.live = @ \cup {<<"manifest", b>> : b \in Named(file[n])}]
    BY DEF ReadIndex, Collect
  <1> DEFINE read == {<<"manifest", b>> : b \in Named(file[n])}
  <1>2. gc.pc = "indexes" /\ file' = file
    BY DEF ReadIndex, OnlyReads
  <1>3. n \in Names
    BY <1>2, NameKinds DEF CollectorInv, CollectorOK
  <1>4. read \subseteq {"manifest"} \X Blobs
    BY <1>3, NamedAreBlobs DEF RequestInv, FilesOK
  <1>5. /\ gc' \in CollectorType /\ gc'.pc = "indexes" /\ gc'.left = gc.left \ {n}
        /\ gc'.live = gc.live \cup read /\ gc'.kept = gc.kept /\ gc'.doomed = gc.doomed
    BY <1>1, <1>2, <1>4, ZenonT(60) DEF CollectorInv, CollectorOK, CollectorType
  <1>6. CollectorOK'
    BY <1>2, <1>4, <1>5 DEF CollectorInv, CollectorOK, Sweeps
  <1>7. \A b \in gc.kept : <<"manifest", b>> \in gc'.live \/ \E m \in gc'.left : b \in Named(file[m])
    <2> SUFFICES ASSUME NEW b \in gc.kept, <<"manifest", b>> \notin gc.live
                 PROVE  <<"manifest", b>> \in gc'.live \/ \E m \in gc'.left : b \in Named(file[m])
      BY <1>5
    <2>1. PICK m \in gc.left : b \in Named(file[m])
      BY <1>2 DEF CollectorInv, Spared
    <2>2. CASE m = n
      BY <1>5, <2>1, <2>2
    <2>3. CASE m # n
      BY <1>5, <2>1, <2>3
    <2> QED
      BY <2>2, <2>3
  <1>8. Spared'
    BY <1>2, <1>5, <1>7 DEF Spared, Sweeps
  <1> QED
    BY <1>6, <1>8 DEF CollectorInv

(* The latest links are read when no index is left. *)
LEMMA LatestRead ==
    ASSUME RequestInv, CollectorInv, ReadLatest
    PROVE  CollectorInv'
  <1>1. CASE gc.live = {}
    BY <1>1, Sleeps DEF ReadLatest, Collect
  <1>2. CASE gc.live # {}
    <2> DEFINE latest == {<<"artifact", b>> : b \in Named(file[<<"latest", "latest">>])}
    <2>1. gc.pc = "indexes" /\ gc.left = {} /\ gc.live \subseteq {"manifest"} \X Blobs
      BY DEF ReadLatest, CollectorInv, CollectorOK
    <2>2. latest \subseteq {"artifact"} \X Blobs
      BY NameKinds, NamedAreBlobs DEF RequestInv, FilesOK
    <2>3. gc.live \subseteq Names
      BY <2>1, NameKinds DEF Sweeps
    <2>4. /\ gc' \in CollectorType /\ gc'.pc = "manifests" /\ gc'.left = gc.live
          /\ gc'.live = gc.live \cup latest /\ gc'.kept = gc.kept /\ gc'.doomed = gc.doomed
      BY <1>2, <2>1, <2>2, <2>3, ZenonT(60) DEF ReadLatest, Collect, CollectorInv, CollectorOK, CollectorType
    <2>5. CollectorOK'
      BY <2>1, <2>4 DEF CollectorInv, CollectorOK, Sweeps
    <2>6. \A b \in gc.kept : <<"manifest", b>> \in gc.live
      BY <2>1 DEF CollectorInv, Spared
    <2>7. Spared'
      BY <2>4, <2>6 DEF Spared, Sweeps
    <2> QED
      BY <2>5, <2>7 DEF CollectorInv
  <1> QED
    BY <1>1, <1>2

(* A manifest is read, or ends the round. *)
LEMMA ManifestRead ==
    ASSUME RequestInv, CollectorInv, ReadManifest
    PROVE  CollectorInv'
  <1>1. PICK n \in gc.left :
           gc' = IF ~Parses(file[n]) THEN Asleep
                 ELSE [gc EXCEPT !.left = @ \ {n}, !.live = @ \cup {<<"artifact", n[2]>>, Cas(n[2])}]
    BY DEF ReadManifest, Collect
  <1>2. CASE ~Parses(file[n])
    BY <1>1, <1>2, Sleeps
  <1>3. CASE Parses(file[n])
    <2>1. gc.pc = "manifests"
      BY DEF ReadManifest
    <2>2. n[2] \in Blobs /\ n = <<"manifest", n[2]>>
      BY <2>1 DEF CollectorInv, CollectorOK
    <2>3. {<<"artifact", n[2]>>, Cas(n[2])} \subseteq {"artifact", "cas"} \X Blobs
      BY <2>2 DEF Cas
    <2>4. /\ gc' \in CollectorType /\ gc'.pc = "manifests" /\ gc'.left = gc.left \ {n}
          /\ gc'.live = gc.live \cup {<<"artifact", n[2]>>, Cas(n[2])}
          /\ gc'.kept = gc.kept /\ gc'.doomed = gc.doomed
      BY <1>1, <1>3, <2>1, <2>3 DEF CollectorInv, CollectorOK, CollectorType
    <2>5. CollectorOK'
      BY <2>1, <2>4 DEF CollectorInv, CollectorOK, Sweeps
    <2>6. \A b \in gc.kept :
             /\ <<"manifest", b>> \in gc'.live
             /\ <<"manifest", b>> \in gc'.left \/ {<<"artifact", b>>, Cas(b)} \subseteq gc'.live
      <3> SUFFICES ASSUME NEW b \in gc.kept
                   PROVE  /\ <<"manifest", b>> \in gc'.live
                          /\ <<"manifest", b>> \in gc'.left \/ {<<"artifact", b>>, Cas(b)} \subseteq gc'.live
        OBVIOUS
      <3>1. /\ <<"manifest", b>> \in gc.live
            /\ <<"manifest", b>> \in gc.left \/ {<<"artifact", b>>, Cas(b)} \subseteq gc.live
        BY <2>1 DEF CollectorInv, Spared
      <3>2. CASE b = n[2]
        BY <2>4, <3>1, <3>2
      <3>3. CASE b # n[2]
        <4>1. <<"manifest", b>> # n
          BY <2>2, <3>3
        <4> QED
          BY <2>4, <3>1, <4>1
      <3> QED
        BY <3>2, <3>3
    <2>7. Spared'
      BY <2>4, <2>6 DEF Spared, Sweeps
    <2> QED
      BY <2>5, <2>7 DEF CollectorInv
  <1> QED
    BY <1>2, <1>3

(* The next directory is listed, without what is live. *)
LEMMA PrefixListed ==
    ASSUME RequestInv, CollectorInv, ListPrefix
    PROVE  CollectorInv'
  <1>1. CASE gc.pc = "cas"
    BY <1>1, Sleeps DEF ListPrefix, Collect
  <1>2. CASE gc.pc # "cas"
    <2> DEFINE next == After(gc.pc)
               left == {<<n, "file">> : n \in {m \in Names \ gc.live : Kind(m) = next /\ file[m] # None}}
                       \cup {<<n, "temp">> : n \in {m \in Names : Kind(m) = next /\ temp[m] # None}}
    <2>1. gc.pc \in {"manifests", "manifest", "artifact"} /\ gc.left = {} /\ gc.doomed = None
      BY <1>2 DEF ListPrefix, Sweeps
    <2>2. next \in Sweeps
      BY <2>1 DEF After, Sweeps
    <2>3. /\ left \subseteq ({next} \X Blobs) \X {"file", "temp"}
          /\ left \subseteq Names \X {"file", "temp"}
      BY <2>2, NameKinds
    <2>4. \A x \in left : x[2] = "file" => x[1] \notin gc.live
      OBVIOUS
    <2>5. gc' = [gc EXCEPT !.pc = next, !.left = left]
      BY <1>2 DEF ListPrefix, Collect
    <2> HIDE DEF left
    <2>6. /\ gc' \in CollectorType /\ gc'.pc = next /\ gc'.left = left
          /\ gc'.live = gc.live /\ gc'.kept = gc.kept /\ gc'.doomed = None
      BY <2>1, <2>2, <2>3, <2>5 DEF CollectorInv, CollectorOK, CollectorType
    <2>7. CollectorOK'
      BY <2>2, <2>3, <2>6 DEF CollectorOK, Sweeps
    <2>8. \A b \in gc.kept, k \in Sweeps : <<k, b>> \in gc.live
      BY <2>1 DEF CollectorInv, Spared, Sweeps, Cas
    <2>9. Spared'
      BY <2>2, <2>4, <2>6, <2>8 DEF Spared, Sweeps
    <2> QED
      BY <2>7, <2>9 DEF CollectorInv
  <1> QED
    BY <1>1, <1>2

(* A file is looked at. *)
LEMMA Looks ==
    ASSUME RequestInv, CollectorInv, Look
    PROVE  CollectorInv'
  <1> DEFINE x == CHOOSE y \in gc.left : TRUE
  <1>1. gc.pc \in Sweeps /\ x \in gc.left
    BY DEF Look
  <1>2. x \in ({gc.pc} \X Blobs) \X {"file", "temp"}
    BY <1>1 DEF CollectorInv, CollectorOK
  <1>3. x[1] \in Names /\ x[1] \in {gc.pc} \X Blobs /\ x \in Names \X {"file", "temp"}
    BY <1>1, <1>2, NameKinds
  <1>4. PICK doomed \in {None, x} : gc' = [gc EXCEPT !.left = @ \ {x}, !.doomed = doomed]
    BY DEF Look, Collect
  <1> HIDE DEF x
  <1>5. /\ gc' \in CollectorType /\ gc'.pc = gc.pc /\ gc'.left = gc.left \ {x}
        /\ gc'.live = gc.live /\ gc'.kept = gc.kept /\ gc'.doomed = doomed
    BY <1>3, <1>4 DEF CollectorInv, CollectorOK, CollectorType
  <1>6. CollectorOK'
    BY <1>1, <1>3, <1>5 DEF CollectorInv, CollectorOK, Sweeps
  <1>7. Spared'
    BY <1>1, <1>5 DEF CollectorInv, Spared, Sweeps
  <1> QED
    BY <1>6, <1>7 DEF CollectorInv

(* A file that is removed is no index; of what the collector removes, nothing is
   live. *)
LEMMA CollectorRemoves ==
    ASSUME RequestInv, CollectorInv, Remove
    PROVE  CollectorInv'
  <1>1. /\ gc.pc \in Sweeps /\ gc.doomed[1] \in {gc.pc} \X Blobs
        /\ gc' = [gc EXCEPT !.doomed = None]
    BY DEF Remove, Collect, CollectorInv, CollectorOK
  <1>2. /\ gc' \in CollectorType /\ gc'.pc = gc.pc /\ gc'.left = gc.left
        /\ gc'.live = gc.live /\ gc'.kept = gc.kept /\ gc'.doomed = None
    BY <1>1 DEF CollectorInv, CollectorOK, CollectorType
  <1>3. CollectorOK'
    BY <1>1, <1>2 DEF CollectorInv, CollectorOK, Sweeps
  <1>4. Spared'
    BY <1>1, <1>2 DEF CollectorInv, Spared, Sweeps
  <1> QED
    BY <1>3, <1>4 DEF CollectorInv

(* What the collector is about holds after every step. *)
LEMMA CollectorStep ==
    ASSUME RequestInv, CollectorInv, [Next]_vars
    PROVE  CollectorInv'
  <1>1. ASSUME NEW w \in Writers, Requests(w) PROVE CollectorInv'
    <2>1. UNCHANGED <<file, gc>>
      BY <1>1 DEF Requests, PutBlob, PutCopy, PutDocument, Accept
    <2> QED
      BY <2>1, OthersKeep
  <1>2. ASSUME NEW w \in Writers, Write(w) PROVE CollectorInv'
    <2> DEFINE n == writer[w].name
               i == writer[w].sent + 1
               c == [j \in DOMAIN file[n] \cup {i} |-> IF j = i THEN writer[w].body[i] ELSE file[n][j]]
    <2>1. /\ writer[w].pc = "write" /\ n \in Names /\ writer[w].body \in Contents
          /\ i \in DOMAIN writer[w].body
      BY <1>2, WriterParts DEF Write, RequestInv, WritersOK
    <2>2. i \in {1, 2} /\ writer[w].body[i] \in Halves
      BY <2>1, ContentIs
    <2>3. file[n] \in Contents \cup {None} /\ (writer[w].at = "final" => file[n] \in Contents)
      BY <2>1 DEF RequestInv, FilesOK, WritersOK
    <2>4. writer[w].at = "final" => c \in Contents
      BY <2>2, <2>3, PutContent
    <2>5. /\ file' = IF writer[w].at = "final" THEN [file EXCEPT ![n] = c] ELSE file
          /\ gc' = [gc EXCEPT !.kept = KeptAfter(n, file'[n])]
      BY <1>2 DEF Write
    <2> HIDE DEF c
    <2>6. file'[n] \in Contents \cup {None} /\ file' \in {file, [file EXCEPT ![n] = file'[n]]}
      BY <2>1, <2>3, <2>4, <2>5 DEF RequestInv, FilesOK
    <2> QED
      BY <2>1, <2>5, <2>6, KeepsAfter
  <1>3. ASSUME NEW w \in Writers, Rename(w) PROVE CollectorInv'
    <2> DEFINE n == writer[w].name
    <2>1. n \in Names /\ temp[n] \in Contents \cup {None}
      BY <1>3, NamesOfWriters DEF Rename, RequestInv, FilesOK
    <2>2. CASE temp[n] = None
      BY <1>3, <2>2, OthersKeep DEF Rename
    <2>3. CASE temp[n] # None
      <3>1. file' = [file EXCEPT ![n] = temp[n]] /\ gc' = [gc EXCEPT !.kept = KeptAfter(n, temp[n])]
        BY <1>3, <2>3 DEF Rename
      <3> QED
        BY <2>1, <3>1, KeepsAfter DEF RequestInv, FilesOK
    <2> QED
      BY <2>2, <2>3
  <1>4. ASSUME NEW w \in Writers, Fail(w) \/ Verify(w) PROVE CollectorInv'
    <2>1. CASE Fail(w)
      BY <2>1, OthersKeep DEF Fail
    <2>2. CASE Verify(w)
      <3>1. Kind(writer[w].name) = "cas" /\ gc' = gc
        BY <2>2 DEF Verify, RequestInv, WritersOK
      <3>2. file' \in {file, [file EXCEPT ![writer[w].name] = None]}
        BY <2>2 DEF Verify, RemoveFile
      <3> QED
        BY <3>1, <3>2, OthersKeep DEF RequestInv, FilesOK
    <2> QED
      BY <1>4, <2>1, <2>2
  <1>5. ASSUME NEW b \in Blobs, Mint(b) \/ Delete(b) PROVE CollectorInv'
    <2>1. CASE Mint(b)
      BY <2>1, OthersKeep DEF Mint
    <2>2. CASE Delete(b)
      <3>1. file' = [file EXCEPT ![Cas(b)] = None] /\ gc' = gc /\ Kind(Cas(b)) = "cas"
        BY <2>2, NameKinds DEF Delete, RemoveFile
      <3> QED
        BY <3>1, OthersKeep DEF RequestInv, FilesOK
    <2> QED
      BY <1>5, <2>1, <2>2
  <1>6. CASE Tick \/ UNCHANGED vars
    BY <1>6, OthersKeep DEF Tick, vars
  <1>7. CASE Crash
    BY <1>7, Sleeps DEF Crash
  <1>8. CASE StartRound \/ ReadIndex \/ ReadLatest \/ ReadManifest \/ ListPrefix \/ Look \/ Remove
    BY <1>8, Begins, IndexRead, LatestRead, ManifestRead, PrefixListed, Looks, CollectorRemoves
  <1> QED
    BY <1>1, <1>2, <1>3, <1>4, <1>5, <1>6, <1>7, <1>8 DEF Next, Serve

-----------------------------------------------------------------------------
(* Results. *)

(* The inductive invariant holds in every reachable state. *)
THEOREM Invariance == Spec => []IInv
  <1>1. Init => IInv
    <2>1. Init => CollectorInv
      BY DEF Init, Asleep, CollectorInv, CollectorOK, CollectorType, Spared, Sweeps
    <2> QED
      BY <2>1, InitRequests DEF IInv
  <1>2. IInv /\ [Next]_vars => IInv'
    BY RequestsStep, CollectorStep DEF IInv, CollectorInv
  <1> QED
    BY <1>1, <1>2, PTL DEF Spec

(* Every state is well typed: a handle belongs to a file that is there, a body is
   sent half after half, and what the collector has left fits its phase. *)
THEOREM TypeCorrect == Spec => []TypeOK
  <1>1. IInv => TypeOK
    BY DEF IInv, RequestInv, CollectorInv, TypeOK
  <1> QED
    BY <1>1, Invariance, PTL

(* What a key serves is what its name promises, unless its bytes are of mixed
   origin or the request that sent them has still to compare them. *)
THEOREM WholeServed == Spec => []ServedIsWhole
  <1>1. IInv => ServedIsWhole
    BY DEF IInv, RequestInv, UploadInv, Served, Compared, ServedIsWhole
  <1> QED
    BY <1>1, Invariance, PTL

(* No step of a collection removes a file of a release that an index has named
   ever since the round began. *)
LEMMA KeepsStep ==
    ASSUME IInv, [Next]_vars, gc' # gc, NEW b \in gc.kept, NEW k \in Sweeps,
           file[<<k, b>>] # None
    PROVE  file'[<<k, b>>] # None
  <1>1. <<k, b>> \in Names
    BY CollectorParts, NameKinds DEF IInv, CollectorInv
  <1>2. ASSUME NEW w \in Writers, Requests(w) PROVE file' = file
    BY <1>2 DEF Requests, PutBlob, PutCopy, PutDocument, Accept
  <1>3. ASSUME NEW w \in Writers, Write(w) PROVE file'[<<k, b>>] # None
    <2> DEFINE n == writer[w].name
               i == writer[w].sent + 1
               c == [j \in DOMAIN file[n] \cup {i} |-> IF j = i THEN writer[w].body[i] ELSE file[n][j]]
    <2>1. /\ n \in Names /\ writer[w].body \in Contents /\ i \in DOMAIN writer[w].body
      BY <1>3, WriterParts DEF Write, IInv, RequestInv, WritersOK
    <2>2. i \in {1, 2} /\ writer[w].body[i] \in Halves
      BY <2>1, ContentIs
    <2>3. writer[w].at = "final" => file[n] \in Contents
      BY <2>1 DEF IInv, RequestInv, FilesOK, WritersOK
    <2>4. writer[w].at = "final" => c # None
      BY <2>2, <2>3, PutContent, NoneAssumption
    <2>5. file' = IF writer[w].at = "final" THEN [file EXCEPT ![n] = c] ELSE file
      BY <1>3 DEF Write
    <2> HIDE DEF c
    <2> QED
      BY <1>1, <2>4, <2>5 DEF IInv, RequestInv, FilesOK
  <1>4. ASSUME NEW w \in Writers, Rename(w) PROVE file'[<<k, b>>] # None
    BY <1>1, <1>4 DEF Rename, IInv, RequestInv, FilesOK
  <1>5. ASSUME NEW w \in Writers, Fail(w) \/ Verify(w) PROVE FALSE
    BY <1>5 DEF Fail, Verify
  <1>6. ASSUME NEW c \in Blobs, Mint(c) \/ Delete(c) PROVE FALSE
    BY <1>6 DEF Mint, Delete
  <1>7. CASE Remove
    <2>1. gc.pc \in Sweeps /\ <<k, b>> \in gc.live
      BY <1>7 DEF Remove, IInv, CollectorInv, Spared
    <2>2. CASE gc.doomed[2] = "file"
      <3>1. gc.doomed[1] # <<k, b>>
        BY <1>7, <2>1, <2>2 DEF Remove, IInv, CollectorInv, Spared
      <3>2. file' = [file EXCEPT ![gc.doomed[1]] = None]
        BY <1>7, <2>2 DEF Remove, RemoveFile
      <3> QED
        BY <1>1, <3>1, <3>2 DEF IInv, RequestInv, FilesOK
    <2>3. CASE gc.doomed[2] # "file"
      BY <1>7, <2>3 DEF Remove
    <2> QED
      BY <2>2, <2>3
  <1>8. CASE StartRound \/ ReadIndex \/ ReadLatest \/ ReadManifest \/ ListPrefix \/ Look \/ Crash
    BY <1>8 DEF StartRound, ReadIndex, ReadLatest, ReadManifest, ListPrefix, Look, OnlyReads, Crash
  <1>9. CASE Tick \/ UNCHANGED vars
    BY <1>9 DEF Tick, vars
  <1> QED
    BY <1>2, <1>3, <1>4, <1>5, <1>6, <1>7, <1>8, <1>9 DEF Next, Serve

(* The collector keeps what is published. *)
THEOREM ListedKept == Spec => KeepsListed
  <1>1. IInv /\ [Next]_vars =>
          [gc' # gc => \A b \in gc.kept, k \in Sweeps :
                          file[<<k, b>>] # None => file'[<<k, b>>] # None]_vars
    BY KeepsStep
  <1> QED
    BY <1>1, Invariance, PTL DEF Spec, KeepsListed

=============================================================================
