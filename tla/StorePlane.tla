----------------------------- MODULE StorePlane -----------------------------
(***************************************************************************)
(* The data plane of the self-hosted store (cmd/relkit-store): concurrent  *)
(* HTTP requests that write, copy and delete files below one directory,    *)
(* upload tickets for content-addressed blobs, and the collector that      *)
(* removes what no index names, one file system call after the other.      *)
(*                                                                         *)
(* Every upload of a key writes the same temporary file and renames it, so *)
(* two uploads of a key share an inode.  A body has two halves: that is    *)
(* enough for a file that is short, torn or of mixed origin.  A document's *)
(* half is the set of releases it names, a blob's half is {b} when it is   *)
(* right and {} when it is not.  A release has one blob, one artifact and  *)
(* one manifest.  Products, tokens and the protocol header decide who may  *)
(* ask and change nothing here; empty directories are left out.            *)
(***************************************************************************)
EXTENDS Naturals, FiniteSets

CONSTANTS
    Indexes,      \* published index files (one per product and channel)
    Blobs,        \* releases, each with its blob
    Published,    \* Published[i]: the releases index i names at first
    Uploaded,     \* releases whose files are there at first
    Documents,    \* <<name, releases>>: documents a publisher may put
    SharedKinds,  \* kinds of object two requests may be writing at one time
    WrongBodies,  \* clients may send a body that is not the blob
    Writers,      \* requests in flight
    TicketTTL,    \* lifetime of an upload ticket
    Grace,        \* gc.casGrace
    MaxNow,       \* bound: the clock
    MaxRequests,  \* bound: requests that write
    MaxCrashes,   \* bound: restarts of the store
    None

ASSUME StoreAssumption ==
    /\ Published \in [Indexes -> SUBSET Uploaded] /\ Uploaded \subseteq Blobs
    /\ TicketTTL \in Nat \ {0} /\ Grace \in Nat \ {0}
    /\ WrongBodies \in BOOLEAN
    /\ Documents \subseteq
          ((({"index"} \X Indexes) \cup {<<"latest", "latest">>} \cup ({"manifest"} \X Blobs))
           \X ((SUBSET Blobs) \ {{}}))

VARIABLES
    file,     \* file[n]: the content at key n, or None
    temp,     \* temp[n]: the content at n.tmp~, or None
    mtime,    \* last write of a blob's file
    tmtime,   \* last write of a blob's temporary file
    writer,   \* the requests in flight
    lease,    \* lease[b]: end of the lease the store remembers
    ticket,   \* ticket[b]: end of the last ticket handed out
    gc,       \* the collector
    now, requests, crashes,
    mixed     \* history: keys whose bytes several requests may have written

vars == <<file, temp, mtime, tmtime, writer, lease, ticket, gc, now,
          requests, crashes, mixed>>

-----------------------------------------------------------------------------
(* Keys and contents. *)

Names == ({"index"} \X Indexes) \cup ({"latest"} \X {"latest"})
         \cup ({"manifest", "artifact", "cas"} \X Blobs)

Kind(n) == n[1]
Cas(b)  == <<"cas", b>>

Halves   == SUBSET Blobs
Contents == UNION {[D -> Halves] : D \in SUBSET {1, 2}}
Empty    == [i \in {} |-> {}]
Doc(S)   == [i \in {1, 2} |-> S]

ASSUME NoneAssumption == None \notin Contents

(* The releases a whole document names. *)
Parses(c) == c # None /\ DOMAIN c = {1, 2} /\ c[1] = c[2] /\ c[1] # {}
Named(c)  == IF Parses(c) THEN c[1] ELSE {}

(* A file is as long as its last written half; a hole reads as zeros. *)
FullSize(c) == c # None /\ 2 \in DOMAIN c
Bytes(c)    == [i \in {1, 2} |-> IF i \in DOMAIN c THEN c[i] ELSE {}]

(* What the key promises: the blob's bytes, or one document. *)
Right(n, c) == IF Kind(n) \in {"cas", "artifact"} THEN c = Doc({n[2]}) ELSE Parses(c)

Listed == UNION {Named(file[<<"index", i>>]) : i \in Indexes}

-----------------------------------------------------------------------------
(* Requests and the collector. *)

Free == [pc |-> "idle", name |-> None, body |-> Empty, sent |-> 0,
         at |-> "lost", alone |-> TRUE]

Asleep == [pc |-> "idle", left |-> {}, live |-> {}, kept |-> {}, doomed |-> None]

Init ==
    /\ file = [n \in Names |->
                 CASE Kind(n) = "index"  -> IF Published[n[2]] = {} THEN None
                                            ELSE Doc(Published[n[2]])
                   [] Kind(n) = "latest" -> None
                   [] OTHER -> IF n[2] \in Uploaded THEN Doc({n[2]}) ELSE None]
    /\ temp = [n \in Names |-> None]
    /\ mtime = [b \in Blobs |-> 0] /\ tmtime = [b \in Blobs |-> 0]
    /\ writer = [w \in Writers |-> Free]
    /\ lease = [b \in Blobs |-> 0] /\ ticket = [b \in Blobs |-> 0]
    /\ gc = Asleep /\ now = 0 /\ requests = 0 /\ crashes = 0 /\ mixed = {}

(* Requests that have n's temporary file open or are about to rename it. *)
Writing(n) == {w \in Writers : writer[w].name = n /\ writer[w].pc \in {"write", "rename"}}

(* Handles of the inode at one place move with it. *)
Moved(ws, n, from, to) ==
    [w \in Writers |-> IF ws[w].name = n /\ ws[w].at = from
                       THEN [ws[w] EXCEPT !.at = to] ELSE ws[w]]

RemoveTemp(n, ws) ==
    /\ temp' = [temp EXCEPT ![n] = None]
    /\ writer' = Moved(ws, n, "temp", "lost")
    /\ tmtime' = IF Kind(n) = "cas" THEN [tmtime EXCEPT ![n[2]] = 0] ELSE tmtime

RemoveFile(n, ws) ==
    /\ file' = [file EXCEPT ![n] = None]
    /\ writer' = Moved(ws, n, "final", "lost")
    /\ mtime' = IF Kind(n) = "cas" THEN [mtime EXCEPT ![n[2]] = 0] ELSE mtime

(* What the collector found named stays so unless this index drops it. *)
KeptAfter(n, c) ==
    IF Kind(n) = "index" THEN gc.kept \ (Named(file[n]) \ Named(c)) ELSE gc.kept

-----------------------------------------------------------------------------
(* Uploads. *)

(* CI asks the agent, which asks for a ticket unless the key exists with
   the right size; the ticket leases the key in the store's memory. *)
Mint(b) ==
    /\ ~FullSize(file[Cas(b)])
    /\ ticket[b] < now + TicketTTL
    /\ ticket' = [ticket EXCEPT ![b] = now + TicketTTL]
    /\ lease' = [lease EXCEPT ![b] = now + TicketTTL]
    /\ UNCHANGED <<file, temp, mtime, tmtime, writer, gc, now, requests, crashes, mixed>>

(* A request is accepted and os.Create makes its temporary file, or empties
   the one another request is writing. *)
Accept(w, n, body, sound) ==
    LET others == Writing(n)
    IN  /\ writer[w].pc = "idle" /\ requests < MaxRequests
        /\ Kind(n) \in SharedKinds \/ others = {}
        /\ requests' = requests + 1
        /\ temp' = [temp EXCEPT ![n] = Empty]
        /\ tmtime' = IF Kind(n) = "cas" THEN [tmtime EXCEPT ![n[2]] = now] ELSE tmtime
        /\ writer' = [u \in Writers |->
                        IF u = w THEN [pc |-> "write", name |-> n, body |-> body, sent |-> 0,
                                       at |-> "temp", alone |-> sound /\ others = {}]
                        ELSE IF u \in others THEN [writer[u] EXCEPT !.alone = FALSE]
                        ELSE writer[u]]
        /\ UNCHANGED <<file, mtime, lease, ticket, gc, now, crashes, mixed>>

(* PUT of a blob with a ticket that has not expired. *)
PutBlob(w, b) ==
    /\ ticket[b] > 0 /\ now <= ticket[b]
    /\ \E body \in {Doc({b})} \cup (IF WrongBodies THEN {Doc({}), [i \in {1} |-> {b}]} ELSE {}) :
           Accept(w, Cas(b), body, TRUE)

(* PUT of a document; a publisher names releases whose files it has put. *)
PutDocument(w, n, S) ==
    /\ Kind(n) # "manifest" => \A b \in S : file[<<"artifact", b>>] # None
                                           /\ file[<<"manifest", b>>] # None
    /\ Accept(w, n, Doc(S), TRUE)

(* PUT with X-Relkit-Copy-Source: the artifact is a copy of the blob as it
   is at this moment.  The publisher has seen the blob's size. *)
PutCopy(w, b) ==
    /\ FullSize(file[Cas(b)])
    /\ Accept(w, <<"artifact", b>>, Bytes(file[Cas(b)]), file[Cas(b)] = Doc({b}))

(* io.Copy writes the next half through the handle, wherever the inode is. *)
Write(w) ==
    LET n == writer[w].name
        i == writer[w].sent + 1
        put(c) == [j \in DOMAIN c \cup {i} |-> IF j = i THEN writer[w].body[i] ELSE c[j]]
    IN  /\ writer[w].pc = "write" /\ i \in DOMAIN writer[w].body
        /\ writer' = [writer EXCEPT ![w].sent = i,
                        ![w].pc = IF i + 1 \in DOMAIN writer[w].body THEN "write" ELSE "rename"]
        /\ temp' = IF writer[w].at = "temp" THEN [temp EXCEPT ![n] = put(temp[n])] ELSE temp
        /\ file' = IF writer[w].at = "final" THEN [file EXCEPT ![n] = put(file[n])] ELSE file
        /\ tmtime' = IF writer[w].at = "temp" /\ Kind(n) = "cas"
                     THEN [tmtime EXCEPT ![n[2]] = now] ELSE tmtime
        /\ mtime' = IF writer[w].at = "final" /\ Kind(n) = "cas"
                    THEN [mtime EXCEPT ![n[2]] = now] ELSE mtime
        /\ gc' = [gc EXCEPT !.kept = KeptAfter(n, file'[n])]
        /\ UNCHANGED <<lease, ticket, now, requests, crashes, mixed>>

(* The client goes away or a call fails: the temporary file, whoever is
   writing it now, is removed. *)
Fail(w) ==
    /\ writer[w].pc \in {"write", "rename"}
    /\ RemoveTemp(writer[w].name, [writer EXCEPT ![w] = Free])
    /\ UNCHANGED <<file, mtime, lease, ticket, gc, now, requests, crashes, mixed>>

(* os.Rename moves whatever is at the temporary name; without one it fails. *)
Rename(w) ==
    LET n == writer[w].name
        done == [writer EXCEPT ![w] = IF Kind(n) = "cas" THEN [@ EXCEPT !.pc = "verify", !.at = "lost"]
                                      ELSE Free]
    IN  /\ writer[w].pc = "rename"
        /\ IF temp[n] = None
           THEN /\ writer' = [writer EXCEPT ![w] = Free]
                /\ UNCHANGED <<file, temp, mtime, tmtime, gc, mixed>>
           ELSE /\ file' = [file EXCEPT ![n] = temp[n]]
                /\ temp' = [temp EXCEPT ![n] = None]
                /\ writer' = Moved(Moved(done, n, "final", "lost"), n, "temp", "final")
                /\ mixed' = IF writer[w].alone THEN mixed \ {n} ELSE mixed \cup {n}
                /\ gc' = [gc EXCEPT !.kept = KeptAfter(n, temp[n])]
                /\ mtime' = IF Kind(n) = "cas" THEN [mtime EXCEPT ![n[2]] = tmtime[n[2]]] ELSE mtime
                /\ tmtime' = IF Kind(n) = "cas" THEN [tmtime EXCEPT ![n[2]] = 0] ELSE tmtime
        /\ UNCHANGED <<lease, ticket, now, requests, crashes>>

Verify_SizeOnly(w) ==   \* Mutant: the digest is not compared
    /\ writer[w].pc = "verify"
    /\ IF FullSize(writer[w].body)
       THEN /\ writer' = [writer EXCEPT ![w] = Free]
            /\ UNCHANGED <<file, mtime>>
       ELSE RemoveFile(writer[w].name, [writer EXCEPT ![w] = Free])
    /\ UNCHANGED <<temp, tmtime, lease, ticket, gc, now, requests, crashes, mixed>>

(* Size and digest of what was received, compared after the rename; a wrong
   body takes with it whatever the key holds by now. *)
Verify(w) ==
    /\ writer[w].pc = "verify"
    /\ IF Right(writer[w].name, writer[w].body)
       THEN /\ writer' = [writer EXCEPT ![w] = Free]
            /\ UNCHANGED <<file, mtime>>
       ELSE RemoveFile(writer[w].name, [writer EXCEPT ![w] = Free])
    /\ UNCHANGED <<temp, tmtime, lease, ticket, gc, now, requests, crashes, mixed>>

(* DELETE of a blob; publishers ask for it once a release is copied. *)
Delete(b) ==
    /\ requests < MaxRequests
    /\ requests' = requests + 1
    /\ file[Cas(b)] # None /\ b \notin Listed
    /\ RemoveFile(Cas(b), writer)
    /\ UNCHANGED <<temp, tmtime, lease, ticket, gc, now, crashes, mixed>>

-----------------------------------------------------------------------------
(* The collector: gcOnce, one directory or file at a time. *)

Protected(b, t) == now < lease[b] \/ now - t < Grace

Collect(next) ==
    /\ gc' = next
    /\ UNCHANGED <<lease, ticket, now, requests, crashes, mixed>>

OnlyReads == UNCHANGED <<file, temp, mtime, tmtime, writer>>

(* The timer, or the debounced request after an index was put; a second
   round cannot start while one runs. *)
StartRound ==
    /\ gc.pc = "idle"
    /\ Collect([Asleep EXCEPT !.pc = "indexes", !.kept = Listed,
                   !.left = {n \in Names : Kind(n) = "index" /\ file[n] # None}])
    /\ OnlyReads

(* An index that does not parse is passed over. *)
ReadIndex ==
    /\ gc.pc = "indexes"
    /\ \E n \in gc.left :
           Collect([gc EXCEPT !.left = @ \ {n},
                              !.live = @ \cup {<<"manifest", b>> : b \in Named(file[n])}])
    /\ OnlyReads

(* A round that found no reference at all removes nothing; artifacts the
   latest links advertise stay. *)
ReadLatest ==
    /\ gc.pc = "indexes" /\ gc.left = {}
    /\ Collect(IF gc.live = {} THEN Asleep
               ELSE [gc EXCEPT !.pc = "manifests", !.left = gc.live,
                        !.live = @ \cup {<<"artifact", b>> : b \in Named(file[<<"latest", "latest">>])}])
    /\ OnlyReads

ReadManifest_Skip ==   \* Mutant: a broken manifest is passed over like an index
    /\ gc.pc = "manifests"
    /\ \E n \in gc.left :
           Collect([gc EXCEPT !.left = @ \ {n},
                              !.live = @ \cup (IF Parses(file[n])
                                               THEN {<<"artifact", n[2]>>, Cas(n[2])} ELSE {})])
    /\ OnlyReads

(* A named manifest that is missing or broken ends the round. *)
ReadManifest ==
    /\ gc.pc = "manifests"
    /\ \E n \in gc.left :
           Collect(IF ~Parses(file[n]) THEN Asleep
                   ELSE [gc EXCEPT !.left = @ \ {n},
                            !.live = @ \cup {<<"artifact", n[2]>>, Cas(n[2])}])
    /\ OnlyReads

Sweeps == {"manifest", "artifact", "cas"}
After(pc) == CASE pc = "manifests" -> "manifest" [] pc = "manifest" -> "artifact"
               [] pc = "artifact" -> "cas" [] OTHER -> "idle"

ListPrefix_NoTemps ==   \* Mutant: temporary files are left alone
    /\ gc.pc \in Sweeps \cup {"manifests"} /\ gc.left = {} /\ gc.doomed = None
    /\ Collect(IF gc.pc = "cas" THEN Asleep
               ELSE [gc EXCEPT !.pc = After(gc.pc),
                        !.left = {<<n, "file">> : n \in {m \in Names \ gc.live :
                                     Kind(m) = After(gc.pc) /\ file[m] # None}}])
    /\ OnlyReads

(* The next directory is listed; what is live in it needs no further look. *)
ListPrefix ==
    /\ gc.pc \in Sweeps \cup {"manifests"} /\ gc.left = {} /\ gc.doomed = None
    /\ Collect(IF gc.pc = "cas" THEN Asleep
               ELSE [gc EXCEPT !.pc = After(gc.pc),
                        !.left = {<<n, "file">> : n \in {m \in Names \ gc.live :
                                     Kind(m) = After(gc.pc) /\ file[m] # None}}
                                 \cup {<<n, "temp">> : n \in {m \in Names :
                                     Kind(m) = After(gc.pc) /\ temp[m] # None}}])
    /\ OnlyReads

(* Files in the order of the directory, which is always the same; a blob is
   looked at before it is removed. *)
Look ==
    /\ gc.pc \in Sweeps /\ gc.doomed = None /\ gc.left # {}
    /\ LET x == CHOOSE y \in gc.left : TRUE
           n == x[1]
           t == IF x[2] = "file" THEN mtime[n[2]] ELSE tmtime[n[2]]
           there == IF x[2] = "file" THEN file[n] # None ELSE temp[n] # None
           spared == Kind(n) = "cas" /\ there /\ Protected(n[2], t)
       IN  Collect([gc EXCEPT !.left = @ \ {x}, !.doomed = IF spared THEN None ELSE x])
    /\ OnlyReads

Remove ==
    /\ gc.pc \in Sweeps /\ gc.doomed # None
    /\ Collect([gc EXCEPT !.doomed = None])
    /\ IF gc.doomed[2] = "file"
       THEN RemoveFile(gc.doomed[1], writer) /\ UNCHANGED <<temp, tmtime>>
       ELSE RemoveTemp(gc.doomed[1], writer) /\ UNCHANGED <<file, mtime>>

-----------------------------------------------------------------------------

Tick ==
    /\ now < MaxNow
    /\ now' = now + 1
    /\ UNCHANGED <<file, temp, mtime, tmtime, writer, lease, ticket, gc, requests, crashes, mixed>>

(* The store restarts: requests and leases are gone, files stay. *)
Crash ==
    /\ crashes < MaxCrashes
    /\ crashes' = crashes + 1
    /\ mixed' = mixed \cup {writer[w].name : w \in {u \in Writers : writer[u].pc = "verify"}}
    /\ writer' = [w \in Writers |-> Free]
    /\ lease' = [b \in Blobs |-> 0]
    /\ gc' = Asleep
    /\ UNCHANGED <<file, temp, mtime, tmtime, ticket, now, requests>>

Serve(w) == Write(w) \/ Fail(w) \/ Rename(w) \/ Verify(w)

Requests(w) ==
    \/ \E b \in Blobs : PutBlob(w, b)
    \/ \E b \in Blobs : PutCopy(w, b)
    \/ \E d \in Documents : PutDocument(w, d[1], d[2])

Collector == StartRound \/ ReadIndex \/ ReadLatest \/ ReadManifest \/ ListPrefix \/ Look \/ Remove

Next ==
    \/ \E w \in Writers : Requests(w)
    \/ \E w \in Writers : Serve(w)
    \/ \E b \in Blobs : Mint(b) \/ Delete(b)
    \/ StartRound \/ ReadIndex \/ ReadLatest \/ ReadManifest
    \/ ListPrefix \/ Look \/ Remove
    \/ Tick \/ Crash

Spec == Init /\ [][Next]_vars

(* Handlers end (clients and connections have timeouts) and the collector's
   timer keeps firing. *)
FairSpec == Spec /\ (\A w \in Writers : WF_vars(Serve(w))) /\ WF_vars(Collector)

-----------------------------------------------------------------------------
(* Properties. *)

FilesOK ==
    /\ file \in [Names -> Contents \cup {None}]
    /\ temp \in [Names -> Contents \cup {None}]
    /\ mtime \in [Blobs -> Nat] /\ tmtime \in [Blobs -> Nat]
    /\ lease \in [Blobs -> Nat] /\ ticket \in [Blobs -> Nat]
    /\ now \in Nat /\ requests \in Nat /\ crashes \in Nat /\ mixed \subseteq Names

(* A request has a whole or a short body, and a handle as long as it writes. *)
WriterType ==
    {Free} \cup [pc : {"write", "rename", "verify"}, name : Names,
                body : {c \in Contents : DOMAIN c \in {1 .. 1, 1 .. 2}}, sent : 0 .. 2,
                at : {"lost", "temp", "final"}, alone : BOOLEAN]

WritersOK ==
    /\ writer \in [Writers -> WriterType]
    /\ \A w \in Writers :
          /\ writer[w].pc = "write" => writer[w].sent + 1 \in DOMAIN writer[w].body
          /\ writer[w].pc = "rename" => DOMAIN writer[w].body = 1 .. writer[w].sent
          /\ writer[w].pc = "verify" => writer[w].at = "lost" /\ Kind(writer[w].name) = "cas"
          /\ writer[w].at = "temp" => temp[writer[w].name] # None
          /\ writer[w].at = "final" => file[writer[w].name] # None

CollectorType ==
    [pc : {"idle", "indexes", "manifests"} \cup Sweeps, left : SUBSET (Names \cup (Names \X {"file", "temp"})),
     live : SUBSET ({"manifest", "artifact", "cas"} \X Blobs), kept : SUBSET Blobs,
     doomed : {None} \cup (Names \X {"file", "temp"})]

(* What is left to do is of the kind of the phase. *)
CollectorOK ==
    /\ gc \in CollectorType
    /\ gc.pc = "indexes" => gc.left \subseteq {"index"} \X Indexes /\ gc.live \subseteq {"manifest"} \X Blobs
    /\ gc.pc = "manifests" => gc.left \subseteq {"manifest"} \X Blobs
    /\ gc.pc \in Sweeps => gc.left \subseteq ({gc.pc} \X Blobs) \X {"file", "temp"}
    /\ gc.doomed # None => gc.pc \in Sweeps /\ gc.doomed[1] \in {gc.pc} \X Blobs

TypeOK == FilesOK /\ WritersOK /\ CollectorOK

(* A key that one request at a time wrote holds the whole of what its name
   promises, at every moment: readers never see a half-written document, and
   a wrong blob only until the request that sent it has compared it. *)
ServedIsWhole ==
    \A n \in Names :
        \/ file[n] = None \/ n \in mixed \/ Right(n, file[n])
        \/ \E w \in Writers : writer[w].pc = "verify" /\ writer[w].name = n

(* A round of the collector removes nothing of a release that an index has
   named ever since the round began. *)
KeepsListed ==
    [][gc' # gc =>
          \A b \in gc.kept, k \in Sweeps : file[<<k, b>>] # None => file'[<<k, b>>] # None]_vars

(* What a collection would keep, read at one moment. *)
Live == {<<k, b>> : k \in Sweeps, b \in Listed}
        \cup {<<"artifact", b>> : b \in Named(file[<<"latest", "latest">>])}

Healthy ==
    /\ Listed # {}
    /\ \A b \in Listed : Parses(file[<<"manifest", b>>])

Swept ==
    \A n \in Names : Kind(n) \in Sweeps =>
        /\ file[n] = None \/ n \in Live \/ (Kind(n) = "cas" /\ Protected(n[2], mtime[n[2]]))
        /\ temp[n] = None \/ (Kind(n) = "cas" /\ Protected(n[2], tmtime[n[2]]))

(* As long as every release an index names has its manifest, everything
   that no index names any more, abandoned temporary files included, goes
   in the end; a single named manifest that is missing stops all of it. *)
OrphansGo == <>[]Healthy => <>[]Swept

=============================================================================
