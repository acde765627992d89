----------------------------- MODULE ChainIndexes -----------------------------
(***************************************************************************)
(* Every index over a small universe of versions, grown one node at a      *)
(* time, to compare the functions of internal/chain with what SPEC 10      *)
(* says of them.                                                           *)
(***************************************************************************)
EXTENDS UpgradeChain, SequencesExt

CONSTANTS
    Codes,        \* release codes and minFrom values
    MaxVersions   \* bound: nodes of an index

VARIABLES
    versions,      \* the nodes of the index
    minSupported   \* its minSupported field

vars == <<versions, minSupported>>

Universe == [code : Codes \ {0}, minFrom : Codes, yanked : BOOLEAN]

Init ==
    /\ versions = {}
    /\ minSupported = NoMinSupported

List(v) ==
    /\ v \notin versions
    /\ Cardinality(versions) < MaxVersions
    /\ versions' = versions \cup {v}
    /\ UNCHANGED minSupported

Support(c) ==
    /\ minSupported' = c
    /\ UNCHANGED versions

Next ==
    \/ \E v \in Universe : List(v)
    \/ \E c \in Codes : Support(c)

Spec == Init /\ [][Next]_vars

-----------------------------------------------------------------------------
(* Reference: whether some chain of legal installs leads from c to the code
   of the head, tried hop by hop without preferring any (SPEC 9.1: a version
   may be installed over codes from its minFrom on, never if it is withdrawn). *)
LegalHop(c, v) == ~v.yanked /\ c < v.code /\ c >= v.minFrom

Within(c) ==
    LET within[n \in 0 .. MaxVersions] ==
            IF n = 0 THEN {c}
            ELSE LET near == within[n - 1]
                 IN  near \cup {v.code : v \in {w \in versions : \E k \in near : LegalHop(k, w)}}
    IN  within

Served(c) ==
    LET head == FindHead(versions).code
    IN  c >= head \/ head \in Within(c)[MaxVersions]

(* What the publisher is told of an index is what happens to its clients.
   Preferring the highest target misses no head that some chain of legal
   installs leads to; an index is refused exactly if a listed release or
   minSupported is stranded, the warning stands exactly if a fresh install is,
   and the start codes it is explained with are those (SelectNextTarget,
   ValidateReachability, UnreachableStartCodes). *)
VerdictIsExact ==
    Installable(versions) # {} =>
        LET head  == FindHead(versions).code
            codes == ({v.code : v \in versions} \cup {minSupported}) \ {NoMinSupported}
        IN  /\ \A c \in Codes : ReachesHead(versions, c) <=> c < head /\ Served(c)
            /\ (\A c \in codes : Served(c)) <=>
                   ReachabilityErrors(versions, minSupported)
                       \cap {"unreachable", "min-supported-unreachable"} = {}
            /\ ZeroUnreachable(versions) <=> ~Served(0)
            /\ UnreachableStartCodes(versions, minSupported)
                   = {c \in codes \cup {0} : ~Served(c)}

=============================================================================
