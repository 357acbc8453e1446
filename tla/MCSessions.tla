----------------------------- MODULE MCSessions -----------------------------
(* Model-checking instance of Sessions: one server, two clients, two      *)
(* session names and three identifiers random() may draw, two mapSession  *)
(* calls per client: enough for a map by an unknown identifier to precede *)
(* a map by name.                                                          *)
EXTENDS Sessions

CONSTANTS srv, c1, c2, nA, nB, i1, i2, i3

MCClients == {c1, c2}
MCNames == {nA, nB}
MCSessionIDs == {i1, i2, i3}
=============================================================================
