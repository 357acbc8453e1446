--------------------------- MODULE MCNodeConnect ---------------------------
(* One target peer, one Node object for an unasked peer, three connection *)
(* objects, two request identifiers and two listen calls.                 *)
EXTENDS NodeConnect, TLC

CONSTANTS p, q, c1, c2, c3, r1, r2

MCCreated == {q}
MCConns == {c1, c2, c3}
MCRequestIDs == {r1, r2}

MCSymmetry == Permutations(MCConns) \cup Permutations(MCRequestIDs)
=============================================================================
