---------------------------- MODULE MCSendQueue ----------------------------
(* Three objects and a queue of two, so registrations overflow the queue; *)
(* two nested enables, so a disable can leave the queue in place.         *)
EXTENDS SendQueue

CONSTANTS o1, o2, o3

MCObjects == {o1, o2, o3}
=============================================================================
