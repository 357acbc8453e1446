--------------------------- MODULE SendOnRegister ---------------------------
(***************************************************************************)
(* What send-on-register promises (spec, "Register (master side)" and     *)
(* "Deregister"): while the knob is on, a registered object is enqueued  *)
(* into a bounded send queue whose head is broadcast opportunistically.  *)
(* The queue keeps registration order: a new member joins at the tail and *)
(* when the bound is exceeded the oldest members give way; only the head *)
(* leaves by being sent or dropped; deregistration removes the object    *)
(* wherever it is and returns only once it is no longer queued; switching *)
(* the knob off empties the queue.                                        *)
(***************************************************************************)
EXTENDS Naturals, Sequences, SequencesExt

CONSTANTS Objects, QueueSize

VARIABLES
    on,          \* send-on-register is enabled
    registered,  \* objects whose deregistration has not yet returned
    queued       \* the send queue, oldest member first

vars == <<on, registered, queued>>

Init ==
    /\ on = FALSE
    /\ registered = {}
    /\ queued = <<>>

Register(o) ==
    /\ o \notin registered
    /\ registered' = registered \cup {o}
    /\ UNCHANGED <<on, queued>>

\* Deregistration returns only for an object that is not queued.
Unregister(o) ==
    /\ o \in registered
    /\ o \notin Range(queued)
    /\ registered' = registered \ {o}
    /\ UNCHANGED <<on, queued>>

SwitchOn ==
    /\ ~on
    /\ on' = TRUE
    /\ UNCHANGED <<registered, queued>>

SwitchOff ==
    /\ on
    /\ on' = FALSE
    /\ queued' = <<>>
    /\ UNCHANGED registered

\* The last QueueSize members of a sequence: the oldest give way.
Newest(q) == IF Len(q) > QueueSize THEN SubSeq(q, Len(q) - QueueSize + 1, Len(q))
                                   ELSE q

\* A registered object joins at the tail.
Enqueue(o) ==
    /\ on
    /\ o \in registered
    /\ queued' = Newest(Append(queued, o))
    /\ UNCHANGED <<on, registered>>

\* The head leaves: broadcast to the peers, or dropped as expired.
SendHead ==
    /\ queued # <<>>
    /\ queued' = Tail(queued)
    /\ UNCHANGED <<on, registered>>

\* Deregistration takes the object out of the queue, wherever it is.
Erase(o) ==
    /\ o \in Range(queued)
    /\ \E i \in DOMAIN queued :
          /\ queued[i] = o
          /\ queued' = RemoveAt(queued, i)
    /\ UNCHANGED <<on, registered>>

Next ==
    \/ \E o \in Objects :
          Register(o) \/ Unregister(o) \/ Enqueue(o) \/ Erase(o)
    \/ SwitchOn \/ SwitchOff \/ SendHead

Spec == Init /\ [][Next]_vars
=============================================================================
