----------------------------- MODULE UpgradeChain -----------------------------
(***************************************************************************)
(* The version chain of a release index: which release an installed client *)
(* is offered next, and the reachability check the publisher runs before   *)
(* it signs an index (internal/chain/chain.go).                            *)
(*                                                                         *)
(* A version is a record with fields code, minFrom and yanked.  An index   *)
(* lists a set of them: every function of chain.go scans the whole list    *)
(* and picks by code, so the order of the list is not part of the model.   *)
(***************************************************************************)
EXTENDS Integers, Sequences, FiniteSets

(* An index without a minSupported field. *)
NoMinSupported == -1

(* The version of the largest code; SelectNextTarget and FindHead keep the
   first such version they meet. *)
Highest(versions) ==
    CHOOSE v \in versions : \A w \in versions : w.code <= v.code

(* Mutant: withdrawn versions are offered. *)
Candidates_WithYanked(versions, c) == {v \in versions : v.code > c /\ v.minFrom <= c}

(* The versions a client at code c may install in one hop. *)
Candidates(versions, c) ==
    {v \in versions : ~v.yanked /\ v.code > c /\ v.minFrom <= c}

(* Defined when the client has a candidate. *)
SelectNextTarget(versions, c) == Highest(Candidates(versions, c))

(* The hops from each of these codes, until nothing is offered. *)
Hops(versions, codes) ==
    LET path[k \in codes] ==
            IF Candidates(versions, k) = {}
            THEN <<>>
            ELSE LET target == SelectNextTarget(versions, k)
                 IN  <<target>> \o path[target.code]
    IN  path

(* The hops a client at code c is led through. *)
ResolveUpgradePath(versions, c) == Hops(versions, {c} \cup {v.code : v \in versions})[c]

Installable(versions) == {v \in versions : ~v.yanked}

(* Defined when some version is installable. *)
FindHead(versions) == Highest(Installable(versions))

ReachesHead(versions, c) ==
    LET path == ResolveUpgradePath(versions, c)
    IN  /\ path # <<>>
        /\ path[Len(path)].code = FindHead(versions).code

(* The errors for which the publisher refuses to sign an index. *)
ReachabilityErrors(versions, minSupported) ==
    LET head  == FindHead(versions)
        codes == {v.code : v \in versions}
        duplicate == IF Cardinality(codes) < Cardinality(versions)
                     THEN {"duplicate-code"} ELSE {}
        unreachable == IF \E c \in codes : c < head.code /\ ~ReachesHead(versions, c)
                       THEN {"unreachable"} ELSE {}
        minimum == IF minSupported = NoMinSupported THEN {}
                   ELSE IF minSupported > head.code THEN {"min-supported-above-head"}
                   ELSE IF minSupported < head.code /\ ~ReachesHead(versions, minSupported)
                   THEN {"min-supported-unreachable"} ELSE {}
    IN  IF Installable(versions) = {}
        THEN duplicate \cup {"no-head"}
        ELSE duplicate \cup unreachable \cup minimum

(* The one warning: a fresh install cannot reach the head. *)
ZeroUnreachable(versions) ==
    /\ Installable(versions) # {}
    /\ FindHead(versions).code > 0
    /\ ~ReachesHead(versions, 0)

(* Mutant: the fresh install and minSupported are forgotten. *)
UnreachableStartCodes_Listed(versions, minSupported) ==
    {v.code : v \in {w \in versions :
        /\ Installable(versions) # {}
        /\ w.code < FindHead(versions).code
        /\ ~ReachesHead(versions, w.code)}}

(* The start codes the publisher names when it refuses an index. *)
UnreachableStartCodes(versions, minSupported) ==
    LET starts == {0} \cup {v.code : v \in versions}
                      \cup (IF minSupported = NoMinSupported THEN {} ELSE {minSupported})
    IN  IF Installable(versions) = {}
        THEN {}
        ELSE {c \in starts : c < FindHead(versions).code /\ ~ReachesHead(versions, c)}

=============================================================================
