--------------------------- MODULE MCInstanceIDs ---------------------------
(* Model-checking instance of InstanceIDs: the receiver thread and one    *)
(* application thread allocate identifiers for two object handles with a  *)
(* 5-bit counter, so 34 increments cover one full period and the wrap.   *)
EXTENDS InstanceIDs

CONSTANTS user, recv, h1, h2

MCThreads == {user, recv}
MCHandles == {h1, h2}
=============================================================================
