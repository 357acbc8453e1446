--------------------------- MODULE MCObjectStore ---------------------------
(* ObjectStore on two nodes: the master instance m lives on n1 together    *)
(* with the slave instance s3; n2 holds the two slave instances s1 and s2, *)
(* so a commit packet has to be cloned for a second instance on n2.        *)
EXTENDS ObjectStore

CONSTANTS n1, n2, m, s1, s2, s3

MCNodes == {n1, n2}
MCHandles == {m, s1, s2, s3}
MCHome == (m :> n1) @@ (s3 :> n1) @@ (s1 :> n2) @@ (s2 :> n2)

\* s1 and s2 play the same part on the same node (used by the safety-only
\* configurations; a liveness check does not use it).
MCSymmetry == Permutations({s1, s2})
=============================================================================
