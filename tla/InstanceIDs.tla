---------------------------- MODULE InstanceIDs ----------------------------
(***************************************************************************)
(* Instance identifiers of co::ObjectStore (src/libs/co/objectStore.cpp). *)
(*                                                                         *)
(* _genNextID turns the atomic counter _instanceIDs, a signed 32-bit      *)
(* integer started at -0x7FFFFFFF, into an unsigned instance identifier   *)
(* by adding 0x7FFFFFFF, and increments again while the result is above   *)
(* EQ_INSTANCE_MAX (the values above it are the sentinels NONE, INVALID   *)
(* and ALL).  It is called concurrently by mapObjectNB on the caller's    *)
(* thread and by _attachObject on the receiver thread; each increment is *)
(* atomic, the retry loop around it is not.                               *)
(*                                                                         *)
(* The width is a constant W: the counter wraps as a W-bit two's          *)
(* complement integer and the top 16 values of the W-bit range are kept   *)
(* out of the identifier space, as the 32-bit build keeps 0xfffffff1..    *)
(* 0xffffffff out of it.                                                   *)
(***************************************************************************)
EXTENDS Integers, Sequences

CONSTANTS
    W,          \* width of the counter and of an identifier, in bits
    Threads,    \* threads calling _genNextID
    Handles,    \* local Object instances that get attached and detached
    MaxGen      \* bound on the increments of the counter

ASSUME W \in Nat /\ W > 4 /\ MaxGen \in Nat

Modulus == 2^W
Half    == 2^(W-1)

\* EQ_INSTANCE_MAX, scaled to W bits.
InstanceMax == Modulus - 16
\* An unattached handle carries EQ_INSTANCE_INVALID.
INVALID == Modulus - 2

\* The W-bit signed value of an integer (two's complement wrap of ++val).
ToSigned(x) == ((x + Half) % Modulus) - Half
\* static_cast< uint32_t >: the W-bit unsigned value of an integer.
ToUnsigned(x) == x % Modulus

VARIABLES
    instanceIDs,  \* the counter _instanceIDs
    pc,           \* per thread: "idle", "gen" (in the loop) or "attach"
    target,       \* per thread: the handle it generates an identifier for
    result,       \* per thread: the identifier _genNextID returned
    instanceID,   \* per handle: the instance identifier it is attached with
    issued,       \* history: the identifiers returned, in increment order
    gens          \* number of increments so far

vars == <<instanceIDs, pc, target, result, instanceID, issued, gens>>

Init ==
    /\ instanceIDs = -(Half - 1)
    /\ pc = [t \in Threads |-> "idle"]
    /\ target = [t \in Threads |-> CHOOSE h \in Handles : TRUE]
    /\ result = [t \in Threads |-> INVALID]
    /\ instanceID = [h \in Handles |-> INVALID]
    /\ issued = <<>>
    /\ gens = 0

\* A handle that is neither attached nor being attached by some thread.
Free(h) ==
    /\ instanceID[h] = INVALID
    /\ \A t \in Threads : pc[t] # "idle" => target[t] # h

\* mapObjectNB or _attachObject with EQ_INSTANCE_INVALID: call _genNextID.
BeginAttach(t, h) ==
    /\ pc[t] = "idle"
    /\ Free(h)
    /\ pc' = [pc EXCEPT ![t] = "gen"]
    /\ target' = [target EXCEPT ![t] = h]
    /\ UNCHANGED <<instanceIDs, result, instanceID, issued, gens>>

\* One pass of the do-while loop of _genNextID: the atomic ++val, the
\* conversion, and the loop test result > EQ_INSTANCE_MAX.
GenStep(t) ==
    LET id  == ToSigned(instanceIDs + 1)
        res == ToUnsigned(id + (Half - 1))
    IN  /\ pc[t] = "gen"
        /\ gens < MaxGen
        /\ instanceIDs' = id
        /\ gens' = gens + 1
        /\ IF res > InstanceMax
              THEN UNCHANGED <<pc, result, issued>>
              ELSE /\ pc' = [pc EXCEPT ![t] = "attach"]
                   /\ result' = [result EXCEPT ![t] = res]
                   /\ issued' = Append(issued, res)
        /\ UNCHANGED <<target, instanceID>>

\* object->attach( id, instanceID ) and the insertion into _objects.
AttachObject(t) ==
    /\ pc[t] = "attach"
    /\ instanceID' = [instanceID EXCEPT ![target[t]] = result[t]]
    /\ pc' = [pc EXCEPT ![t] = "idle"]
    /\ UNCHANGED <<instanceIDs, target, result, issued, gens>>

\* _detachObject: the instance leaves _objects and its identifier is free.
DetachObject(h) ==
    /\ instanceID[h] # INVALID
    /\ instanceID' = [instanceID EXCEPT ![h] = INVALID]
    /\ UNCHANGED <<instanceIDs, pc, target, result, issued, gens>>

Next ==
    \/ \E t \in Threads, h \in Handles : BeginAttach(t, h)
    \/ \E t \in Threads : GenStep(t) \/ AttachObject(t)
    \/ \E h \in Handles : DetachObject(h)

Spec == Init /\ [][Next]_vars

-----------------------------------------------------------------------------
\* Spec: "Multiple local instances of the same ID coexist ...; each has a
\* distinct instanceID."  Two attached handles never carry the same
\* identifier, which object command routing (instanceID <= MAX delivers
\* to the first matching instance) relies on.
DistinctInstanceIDs ==
    \A a, b \in Handles :
        a # b /\ instanceID[a] # INVALID => instanceID[a] # instanceID[b]
=============================================================================
