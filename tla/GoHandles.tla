----------------------------- MODULE GoHandles -----------------------------
(***************************************************************************)
(* The handles of the Go C ABI (golang/cabi/main.go).  C callers hold a    *)
(* malloc'ed block with a number in it; the number leads, through a table  *)
(* guarded by a mutex, to a stream decoder or a reassembler.  Several      *)
(* threads call at once; a section under the mutex is one step, and so is  *)
(* every access to a block.  Freed blocks are used again by malloc.        *)
(*                                                                         *)
(* What callers owe: a handle is used by one thread at a time, and not     *)
(* after its destruction has begun.  A call that has already read the      *)
(* number may be overtaken by the destruction.                             *)
(***************************************************************************)
EXTENDS Integers, Sequences

CONSTANTS
    Thread,
    Block,        \* addresses malloc may return
    MaxObjects,   \* bound: decoders and reassemblers created
    Nil

ASSUME ObjectAssumption == MaxObjects \in Nat /\ Nil \notin Nat

Kind == {"stream", "reassembler"}
Object == 1 .. MaxObjects
HandleID == 1 .. MaxObjects

VARIABLES
    nextHandleID,
    handles,      \* streamHandles and reassemblerMap: from numbers to objects
    heap,         \* the blocks in use, and the number in them, 0 before it is written
    calls,        \* by thread, the call in progress
    objects,      \* history: objects created
    owned         \* history: the object each caller's block stands for

vars == <<nextHandleID, handles, heap, calls, objects, owned>>

(***************************************************************************)
(* A call: what is left of it to do, and its local variables.  made is the *)
(* object the call is meant for (history).                                 *)
(***************************************************************************)
\* Mutant: the block is freed before its number is read.
FreeFirstSteps ==
    [create |-> <<"register", "malloc", "write">>,
     use |-> <<"read", "lookup", "operate">>,
     destroy |-> <<"free", "read", "remove">>]

Steps ==
    [create |-> <<"register", "malloc", "write">>,
     use |-> <<"read", "lookup", "operate">>,
     destroy |-> <<"read", "remove", "free">>]

NoCall == [steps |-> <<>>, kind |-> "stream", block |-> Nil, id |-> 0, found |-> 0, made |-> 0]

NewCall(operation, kind, block, object) ==
    [NoCall EXCEPT !.steps = Steps[operation], !.kind = kind, !.block = block, !.made = object]

Idle(t) == calls[t].steps = <<>>

At(t, step) == ~Idle(t) /\ Head(calls[t].steps) = step

\* The call goes on with these locals; a finished call is forgotten.
Proceed(t, locals) ==
    calls' = [calls EXCEPT ![t] = IF Len(@.steps) = 1 THEN NoCall
                                  ELSE [locals EXCEPT !.steps = Tail(@)]]

Init ==
    /\ nextHandleID = 1
    /\ handles = [k \in Kind |-> [id \in {} |-> 0]]
    /\ heap = [b \in {} |-> 0]
    /\ calls = [t \in Thread |-> NoCall]
    /\ objects = 0
    /\ owned = [b \in {} |-> 0]

Without(f, x) == [y \in DOMAIN f \ {x} |-> f[y]]
With(f, x, value) == [y \in DOMAIN f \cup {x} |-> IF y = x THEN value ELSE f[y]]

-----------------------------------------------------------------------------
(***************************************************************************)
(* dlms_hdlc_stream_decoder_create and dlms_hdlc_reassembler_create.       *)
(***************************************************************************)
BeginCreate(t, kind) ==
    /\ Idle(t) /\ objects < MaxObjects
    /\ objects' = objects + 1
    /\ calls' = [calls EXCEPT ![t] = NewCall("create", kind, Nil, objects')]
    /\ UNCHANGED <<nextHandleID, handles, heap, owned>>

\* Mutant: the smallest number that is not in use.
SmallestFreeID(kind) ==
    CHOOSE id \in HandleID :
        id \notin DOMAIN handles[kind] /\ \A other \in 1 .. id - 1 : other \in DOMAIN handles[kind]

\* Mutant: numbers begin with zero.
ZeroBasedID(kind) == nextHandleID - 1

NewID(kind) == nextHandleID

\* newStreamHandle, newReassemblerHandle
Register(t) ==
    /\ At(t, "register")
    /\ LET id == NewID(calls[t].kind)
       IN  /\ handles' = [handles EXCEPT ![calls[t].kind] = With(@, id, calls[t].made)]
           /\ Proceed(t, [calls[t] EXCEPT !.id = id])
    /\ nextHandleID' = nextHandleID + 1
    /\ UNCHANGED <<heap, objects, owned>>

Malloc(t) ==
    /\ At(t, "malloc")
    /\ \E b \in Block \ DOMAIN heap :
          /\ heap' = With(heap, b, 0)
          /\ Proceed(t, [calls[t] EXCEPT !.block = b])
    /\ UNCHANGED <<nextHandleID, handles, objects, owned>>

\* The number is given back, under the mutex, as the last thing the call does.
MallocFails(t) ==
    /\ At(t, "malloc")
    /\ calls' = [calls EXCEPT ![t].steps = <<"remove">>]
    /\ UNCHANGED <<nextHandleID, handles, heap, objects, owned>>

\* The caller gets its handle.
WriteHandle(t) ==
    /\ At(t, "write")
    /\ heap' = [heap EXCEPT ![calls[t].block] = calls[t].id]
    /\ owned' = With(owned, calls[t].block, [kind |-> calls[t].kind, object |-> calls[t].made])
    /\ Proceed(t, calls[t])
    /\ UNCHANGED <<nextHandleID, handles, objects>>

-----------------------------------------------------------------------------
(***************************************************************************)
(* The reset and push functions of both kinds.                             *)
(***************************************************************************)
IsFor(t, b) == calls[t].made = owned[b].object

BeginUse(t, b) ==
    /\ Idle(t) /\ b \in DOMAIN owned
    /\ \A other \in Thread : ~IsFor(other, b)
    /\ calls' = [calls EXCEPT ![t] = NewCall("use", owned[b].kind, b, owned[b].object)]
    /\ UNCHANGED <<nextHandleID, handles, heap, objects, owned>>

\* decoder._handle
Read(b) == IF b \in DOMAIN heap THEN heap[b] ELSE 0

ReadHandle(t) ==
    /\ At(t, "read")
    /\ Proceed(t, [calls[t] EXCEPT !.id = Read(calls[t].block)])
    /\ UNCHANGED <<nextHandleID, handles, heap, objects, owned>>

\* getStreamHandle, getReassemblerHandle; 0 for nil.
Lookup(t) ==
    /\ At(t, "lookup")
    /\ LET table == handles[calls[t].kind]
           found == IF calls[t].id \in DOMAIN table THEN table[calls[t].id] ELSE 0
       IN  Proceed(t, [calls[t] EXCEPT !.found = found])
    /\ UNCHANGED <<nextHandleID, handles, heap, objects, owned>>

\* Push or Reset on what was found, outside the mutex; INVALID_ARGUMENT for nil.
Operate(t) ==
    /\ At(t, "operate")
    /\ Proceed(t, calls[t])
    /\ UNCHANGED <<nextHandleID, handles, heap, objects, owned>>

-----------------------------------------------------------------------------
(***************************************************************************)
(* dlms_hdlc_stream_decoder_destroy and dlms_hdlc_reassembler_destroy.     *)
(***************************************************************************)
BeginDestroy(t, b) ==
    /\ Idle(t) /\ b \in DOMAIN owned
    /\ \A other \in Thread : IsFor(other, b) => ~At(other, "read")
    /\ calls' = [calls EXCEPT ![t] = NewCall("destroy", owned[b].kind, b, owned[b].object)]
    /\ owned' = Without(owned, b)
    /\ UNCHANGED <<nextHandleID, handles, heap, objects>>

\* deleteStreamHandle, deleteReassemblerHandle
Remove(t) ==
    /\ At(t, "remove")
    /\ handles' = [handles EXCEPT ![calls[t].kind] = Without(@, calls[t].id)]
    /\ Proceed(t, calls[t])
    /\ UNCHANGED <<nextHandleID, heap, objects, owned>>

Free(t) ==
    /\ At(t, "free")
    /\ heap' = Without(heap, calls[t].block)
    /\ Proceed(t, calls[t])
    /\ UNCHANGED <<nextHandleID, handles, objects, owned>>

Next ==
    \E t \in Thread :
        \/ \E kind \in Kind : BeginCreate(t, kind)
        \/ \E b \in Block : BeginUse(t, b) \/ BeginDestroy(t, b)
        \/ Register(t)
        \/ Malloc(t)
        \/ MallocFails(t)
        \/ WriteHandle(t)
        \/ ReadHandle(t)
        \/ Lookup(t)
        \/ Operate(t)
        \/ Remove(t)
        \/ Free(t)

Spec == Init /\ [][Next]_vars

-----------------------------------------------------------------------------
(***************************************************************************)
(* Properties.                                                             *)
(***************************************************************************)
\* The tables map numbers to objects; a caller's block is not a freed one.
TypeOK ==
    /\ nextHandleID \in 1 .. MaxObjects + 1
    /\ \A k \in Kind :
          /\ DOMAIN handles[k] \subseteq HandleID
          /\ \A id \in DOMAIN handles[k] : handles[k][id] \in Object
    /\ DOMAIN heap \subseteq Block /\ \A b \in DOMAIN heap : heap[b] \in 0 .. MaxObjects
    /\ objects \in 0 .. MaxObjects
    /\ DOMAIN owned \subseteq DOMAIN heap

\* A push or reset works on the decoder or reassembler its handle was created for.
\* If the handle is destroyed between the reading of its number and the look-up,
\* the call finds that object or none, never one created since.
OwnState ==
    \A t \in Thread : At(t, "operate") =>
        \/ calls[t].found = calls[t].made
        \/ calls[t].found = 0 /\ \A b \in DOMAIN owned : ~IsFor(t, b)

Creating(t, k, object) ==
    calls[t].kind = k /\ calls[t].made = object /\ (At(t, "malloc") \/ At(t, "write"))

Removing(t, k, id) ==
    /\ calls[t].kind = k
    /\ \/ At(t, "remove") /\ calls[t].id = id
       \/ At(t, "read") /\ heap[calls[t].block] = id

\* The entry of an object that is in use stays; an entry that is not in use is
\* about to be given a handle or removed: nothing leaks, on the path where malloc
\* fails neither.
EntriesAccounted ==
    /\ \A b \in DOMAIN owned :
          /\ heap[b] \in DOMAIN handles[owned[b].kind]
          /\ handles[owned[b].kind][heap[b]] = owned[b].object
    /\ \A k \in Kind : \A id \in DOMAIN handles[k] :
          \/ \E b \in DOMAIN owned :
                owned[b] = [kind |-> k, object |-> handles[k][id]] /\ heap[b] = id
          \/ \E t \in Thread : Creating(t, k, handles[k][id]) \/ Removing(t, k, id)
============================================================================
