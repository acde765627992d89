------------------------------- MODULE KeyCustody -------------------------------
(***************************************************************************)
(* The root key of a server: the commands that write key documents          *)
(* (relkit-ops key generate and key rename), the custody manifest that      *)
(* registers one, the start of the agent that signs with it, and the hosts  *)
(* that pin what a running agent hands out.                                 *)
(*                                                                          *)
(* A key pair is named by its seed, so that the public key and the          *)
(* fingerprint of a pair are its seed too.  The manifest is written by hand *)
(* and registers one root; its paths may be wrong.                          *)
(***************************************************************************)
EXTENDS Naturals

CONSTANTS
    None,           \* no file, no agent, ...
    Torn,           \* a key document of which not all is written
    KeyIds,         \* names of roots
    Paths,          \* where key documents may be
    Hands,          \* operators, each with a command at a time
    MaxSeeds,       \* bound: key pairs that are generated
    MaxKeyFaults    \* bound: failed writes and killed commands

VARIABLES
    keyFile,        \* path -> key document, Torn or None
    hand,           \* operator -> the command that runs, or None
    seeds,          \* key pairs generated so far
    reported,       \* results that commands printed
    agent,          \* the root of the running agent, or None
    pin,            \* the connect configuration that a host keeps, or None
    keyFaults

keyVars == <<keyFile, hand, seeds, reported, agent, pin, keyFaults>>

Document(half, id, seed) == [half |-> half, id |-> id, seed |-> seed]

KeysInit ==
    /\ keyFile = [p \in Paths |-> None]
    /\ hand = [o \in Hands |-> None]
    /\ seeds = 0 /\ reported = {}
    /\ agent = None /\ pin = None
    /\ keyFaults = 0

-----------------------------------------------------------------------------
(* Commands.  Both write the private document and then the public one, each
   opened with O_EXCL. *)

IsHalf(p, half) == keyFile[p] \notin {None, Torn} /\ keyFile[p].half = half

Command(o, id, seed, private, public) ==
    /\ hand[o] = None
    /\ private # public
    /\ hand' = [hand EXCEPT ![o] = [id |-> id, seed |-> seed, private |-> private,
                                    public |-> public, half |-> "private", at |-> "open"]]

Generate(o, id, private, public) ==
    /\ seeds < MaxSeeds
    /\ Command(o, id, seeds + 1, private, public)
    /\ seeds' = seeds + 1
    /\ UNCHANGED <<keyFile, reported, agent, pin, keyFaults>>

(* A rename writes the seed it read under another name. *)
ReissueKeyPair(o, id, from, private, public) ==
    /\ IsHalf(from, "private")
    /\ Command(o, id, keyFile[from].seed, private, public)
    /\ UNCHANGED <<keyFile, seeds, reported, agent, pin, keyFaults>>

(* Mutant: every failed command removes the private document. *)
Undone_Always(o, file) == [file EXCEPT ![hand[o].private] = None]

Target(o) == IF hand[o].half = "private" THEN hand[o].private ELSE hand[o].public
Undone(o, file) ==
    IF hand[o].half = "public" THEN [file EXCEPT ![hand[o].private] = None] ELSE file

OpenNew(o) ==
    /\ hand[o] # None /\ hand[o].at = "open"
    /\ IF keyFile[Target(o)] = None
       THEN /\ keyFile' = [keyFile EXCEPT ![Target(o)] = Torn]
            /\ hand' = [hand EXCEPT ![o].at = "write"]
       ELSE /\ keyFile' = Undone(o, keyFile)
            /\ hand' = [hand EXCEPT ![o] = None]
    /\ UNCHANGED <<seeds, reported, agent, pin, keyFaults>>

Written(o) ==
    [keyFile EXCEPT ![Target(o)] = Document(hand[o].half, hand[o].id, hand[o].seed)]

WriteNew(o) ==
    /\ hand[o] # None /\ hand[o].at = "write"
    /\ keyFile' = Written(o)
    /\ IF hand[o].half = "private"
       THEN /\ hand' = [hand EXCEPT ![o].half = "public", ![o].at = "open"]
            /\ UNCHANGED reported
       ELSE /\ hand' = [hand EXCEPT ![o] = None]
            /\ reported' = reported \union {[id |-> hand[o].id, seed |-> hand[o].seed,
                                             private |-> hand[o].private,
                                             public |-> hand[o].public]}
    /\ UNCHANGED <<seeds, agent, pin, keyFaults>>

(* A failed write removes the file, a failed chmod leaves it. *)
WriteFails(o) ==
    /\ hand[o] # None /\ hand[o].at = "write"
    /\ keyFaults < MaxKeyFaults
    /\ \E left \in {[keyFile EXCEPT ![Target(o)] = None], Written(o)} :
           keyFile' = Undone(o, left)
    /\ hand' = [hand EXCEPT ![o] = None]
    /\ keyFaults' = keyFaults + 1
    /\ UNCHANGED <<seeds, reported, agent, pin>>

Killed(o) ==
    /\ hand[o] # None
    /\ keyFaults < MaxKeyFaults
    /\ hand' = [hand EXCEPT ![o] = None]
    /\ keyFaults' = keyFaults + 1
    /\ UNCHANGED <<keyFile, seeds, reported, agent, pin>>

(* The operator removes what a killed command left, and the old name of a pair
   that was renamed. *)
Discard(p) ==
    /\ \A o \in Hands : hand[o] = None
    /\ \/ keyFile[p] = Torn
       \/ \E r, new \in reported :
              /\ p \in {r.private, r.public} /\ r.seed = new.seed
              /\ p \notin {new.private, new.public}
              /\ keyFile[new.private] = Document("private", new.id, new.seed)
    /\ keyFile' = [keyFile EXCEPT ![p] = None]
    /\ reported' = {r \in reported : p \notin {r.private, r.public}}
    /\ UNCHANGED <<hand, seeds, agent, pin, keyFaults>>

-----------------------------------------------------------------------------
(* The manifest and what is read through it. *)

(* An entry names a root, a fingerprint that some command printed, and paths. *)
Entries ==
    [id : KeyIds, fingerprint : {r.seed : r \in reported}, path : Paths,
     public : Paths \union {None}]

(* The private document an entry points at, if it is one. *)
ReadCarrier(e) == IF IsHalf(e.path, "private") THEN keyFile[e.path] ELSE None

(* The public file is preferred; without one the key is derived. *)
PublicKey(e) ==
    LET carrier == ReadCarrier(e) IN
    IF e.public # None /\ IsHalf(e.public, "public")
    THEN IF keyFile[e.public].id = e.id THEN keyFile[e.public].seed ELSE None
    ELSE IF carrier # None /\ carrier.seed = e.fingerprint THEN e.fingerprint ELSE None

(* What the seed signs is verified by the registered public key. *)
verifySignatureRoundTrip(e, seed) == PublicKey(e) = seed

(* None unless the document has this name and its public half the registered
   fingerprint. *)
PrivateSeed(e) ==
    LET carrier == ReadCarrier(e) IN
    IF /\ carrier # None
       /\ carrier.id = e.id
       /\ carrier.seed = e.fingerprint
       /\ verifySignatureRoundTrip(e, carrier.seed)
    THEN carrier.seed ELSE None

Root(e) ==
    LET seed == PrivateSeed(e) IN
    IF seed = None THEN None ELSE [id |-> e.id, seed |-> seed, fingerprint |-> e.fingerprint]

(* The configuration names a root that the manifest registers.  A start that
   cannot resolve it ends the process. *)
StartAgent ==
    /\ agent' \in {Root(e) : e \in Entries}
    /\ UNCHANGED <<keyFile, hand, seeds, reported, pin, keyFaults>>

(* A registered product gets the name and the key of the root, and keeps them. *)
ConnectConfig ==
    /\ agent # None /\ pin = None
    /\ pin' = [id |-> agent.id, key |-> agent.seed]
    /\ UNCHANGED <<keyFile, hand, seeds, reported, agent, keyFaults>>

(* A document is looked up by the name of the key that signed it. *)
Verifies == pin.id = agent.id /\ pin.key = agent.seed

KeysNext ==
    \/ \E o \in Hands :
           \/ OpenNew(o) \/ WriteNew(o) \/ WriteFails(o) \/ Killed(o)
           \/ hand[o] = None /\ \E id \in KeyIds, private, public \in Paths :
                  \/ Generate(o, id, private, public)
                  \/ \E from \in Paths : ReissueKeyPair(o, id, from, private, public)
    \/ \E p \in Paths : Discard(p)
    \/ StartAgent \/ ConnectConfig

-----------------------------------------------------------------------------
(* Properties. *)

(* A pair that a command reported stays as it is, whatever other commands run,
   fail or are killed: the agent can be started with it (writeNewKey,
   ReissueKeyPair, PrivateSeed). *)
ReportedStarts ==
    \A r \in reported :
        PrivateSeed([id |-> r.id, fingerprint |-> r.seed,
                     path |-> r.private, public |-> r.public]) = r.seed

(* A host that was connected to the root with the fingerprint that is registered
   now, under the name it still has, verifies what the agent signs (Root,
   VerifiedPayload). *)
HostsVerify ==
    (agent # None /\ pin # None) =>
        (pin.id = agent.id /\ pin.key = agent.fingerprint => Verifies)

KeysHold == ReportedStarts /\ HostsVerify

=============================================================================
