-------------------------- MODULE GoHandlesProofs --------------------------
(***************************************************************************)
(* The handle tables keep every object to its handle, for any number of    *)
(* threads, blocks and objects.                                            *)
(***************************************************************************)
EXTENDS GoHandles, FiniteSets, FiniteSetTheorems, TLAPS

(***************************************************************************)
(* What a call may still have to do: creations C, uses U, destructions D,  *)
(* and the removal R after a failed malloc.                                *)
(***************************************************************************)
C1 == <<"register", "malloc", "write">>
C2 == <<"malloc", "write">>
C3 == <<"write">>
U1 == <<"read", "lookup", "operate">>
U2 == <<"lookup", "operate">>
U3 == <<"operate">>
D1 == <<"read", "remove", "free">>
D2 == <<"remove", "free">>
D3 == <<"free">>
R1 == <<"remove">>

Stages == {<<>>, C1, C2, C3, U1, U2, U3, D1, D2, D3, R1}

Call == [steps : Stages, kind : Kind, block : Block \cup {Nil},
         id : Nat, found : Nat, made : Nat]

\* The stages are distinct, and each step leads to the next.
LEMMA StageFacts ==
    /\ Head(C1) = "register" /\ Tail(C1) = C2 /\ Len(C1) = 3 /\ C1 # <<>>
    /\ Head(C2) = "malloc" /\ Tail(C2) = C3 /\ Len(C2) = 2 /\ C2 # <<>>
    /\ Head(C3) = "write" /\ Len(C3) = 1 /\ C3 # <<>>
    /\ Head(U1) = "read" /\ Tail(U1) = U2 /\ Len(U1) = 3 /\ U1 # <<>>
    /\ Head(U2) = "lookup" /\ Tail(U2) = U3 /\ Len(U2) = 2 /\ U2 # <<>>
    /\ Head(U3) = "operate" /\ Len(U3) = 1 /\ U3 # <<>>
    /\ Head(D1) = "read" /\ Tail(D1) = D2 /\ Len(D1) = 3 /\ D1 # <<>>
    /\ Head(D2) = "remove" /\ Tail(D2) = D3 /\ Len(D2) = 2 /\ D2 # <<>>
    /\ Head(D3) = "free" /\ Len(D3) = 1 /\ D3 # <<>>
    /\ Head(R1) = "remove" /\ Len(R1) = 1 /\ R1 # <<>>
    /\ U1 # D1
BY DEF C1, C2, C3, U1, U2, U3, D1, D2, D3, R1

(***************************************************************************)
(* The inductive invariant.  An object has at most one holder: the block   *)
(* it is known by, or the thread that creates or destroys it.              *)
(***************************************************************************)
StepsAt(t) == calls[t].steps

Creator(t) == StepsAt(t) \in {C1, C2, C3}
User(t) == StepsAt(t) \in {U1, U2, U3}
Holder(t) == StepsAt(t) \in {C1, C2, C3, D1, D2, D3, R1}
HoldsBlock(t) == StepsAt(t) \in {C3, D1, D2, D3}
KnowsEntry(t) == StepsAt(t) \in {C2, C3, D2, R1}

CallsTyped ==
    /\ objects \in Nat
    /\ calls \in [Thread -> Call]
    /\ \A t \in Thread : StepsAt(t) # <<>> => 1 <= calls[t].made /\ calls[t].made <= objects

TablesTyped ==
    /\ nextHandleID \in Nat /\ 1 <= nextHandleID
    /\ DOMAIN handles = Kind
    /\ \A k \in Kind : \A id \in DOMAIN handles[k] :
          /\ id \in Nat /\ 1 <= id /\ id < nextHandleID
          /\ handles[k][id] \in Nat /\ 1 <= handles[k][id] /\ handles[k][id] <= objects

OwnedTyped ==
    \A b \in DOMAIN owned :
        /\ owned[b] \in [kind : Kind, object : Nat]
        /\ 1 <= owned[b].object /\ owned[b].object <= objects

Typed == CallsTyped /\ TablesTyped /\ OwnedTyped

OneHolder ==
    /\ \A t, u \in Thread : t # u /\ Holder(t) /\ Holder(u) => calls[t].made # calls[u].made
    /\ \A t \in Thread : Holder(t) => \A b \in DOMAIN owned : calls[t].made # owned[b].object
    /\ \A b, c \in DOMAIN owned : b # c => owned[b].object # owned[c].object
    /\ \A t, u \in Thread : Creator(t) /\ User(u) => calls[t].made # calls[u].made

HasEntry(k, id, object) == id \in DOMAIN handles[k] /\ handles[k][id] = object

Entries ==
    /\ \A k \in Kind : \A i, j \in DOMAIN handles[k] : handles[k][i] = handles[k][j] => i = j
    /\ \A b \in DOMAIN owned :
          b \in DOMAIN heap /\ HasEntry(owned[b].kind, heap[b], owned[b].object)
    /\ \A t \in Thread :
          /\ KnowsEntry(t) => HasEntry(calls[t].kind, calls[t].id, calls[t].made)
          /\ StepsAt(t) = D1 => HasEntry(calls[t].kind, heap[calls[t].block], calls[t].made)
          /\ StepsAt(t) = C1 =>
                \A k \in Kind : \A id \in DOMAIN handles[k] : handles[k][id] # calls[t].made

Blocks ==
    /\ \A t \in Thread : HoldsBlock(t) =>
          calls[t].block \in DOMAIN heap /\ calls[t].block \notin DOMAIN owned
    /\ \A t, u \in Thread :
          t # u /\ HoldsBlock(t) /\ HoldsBlock(u) => calls[t].block # calls[u].block

Users ==
    \A t \in Thread :
        /\ StepsAt(t) = U1 =>
              /\ calls[t].block \in DOMAIN owned
              /\ owned[calls[t].block] = [kind |-> calls[t].kind, object |-> calls[t].made]
        /\ StepsAt(t) \in {U2, U3} =>
              /\ calls[t].id < nextHandleID
              /\ calls[t].id \in DOMAIN handles[calls[t].kind] =>
                    handles[calls[t].kind][calls[t].id] = calls[t].made
        /\ StepsAt(t) = U2 => \A b \in DOMAIN owned :
              owned[b].object = calls[t].made =>
                 owned[b].kind = calls[t].kind /\ heap[b] = calls[t].id
        /\ StepsAt(t) = U3 =>
              \/ calls[t].found = calls[t].made
              \/ calls[t].found = 0 /\ \A b \in DOMAIN owned : owned[b].object # calls[t].made

Accounted ==
    \A k \in Kind : \A id \in DOMAIN handles[k] :
        \/ \E b \in DOMAIN owned :
              owned[b] = [kind |-> k, object |-> handles[k][id]] /\ heap[b] = id
        \/ \E t \in Thread :
              /\ calls[t].kind = k
              /\ \/ KnowsEntry(t) /\ calls[t].id = id
                 \/ StepsAt(t) = D1 /\ heap[calls[t].block] = id

Inv == Typed /\ OneHolder /\ Entries /\ Blocks /\ Users /\ Accounted

\* What happens to one call leaves the others alone.
Others(t) == \A u \in Thread : u # t => calls'[u] = calls[u]

\* The step a call is at, by what it has left to do.
LEMMA StageAt ==
    ASSUME CallsTyped, NEW t \in Thread
    PROVE  /\ Idle(t) <=> StepsAt(t) = <<>>
           /\ At(t, "register") <=> StepsAt(t) = C1
           /\ At(t, "malloc") <=> StepsAt(t) = C2
           /\ At(t, "write") <=> StepsAt(t) = C3
           /\ At(t, "read") <=> StepsAt(t) \in {U1, D1}
           /\ At(t, "lookup") <=> StepsAt(t) = U2
           /\ At(t, "operate") <=> StepsAt(t) = U3
           /\ At(t, "remove") <=> StepsAt(t) \in {D2, R1}
           /\ At(t, "free") <=> StepsAt(t) = D3
<1>1. StepsAt(t) \in Stages
  BY DEF CallsTyped, Call, StepsAt
<1> QED
  BY <1>1, StageFacts DEF Idle, At, StepsAt, Stages

\* A call with other steps is a call.
LEMMA StepsReplaced ==
    ASSUME NEW locals \in Call, NEW steps \in Stages
    PROVE  LET c == [locals EXCEPT !.steps = steps]
           IN  /\ c \in Call /\ c.steps = steps
               /\ c.kind = locals.kind /\ c.block = locals.block /\ c.id = locals.id
               /\ c.found = locals.found /\ c.made = locals.made
BY DEF Call

\* The call after a step: forgotten, or with one step less.
LEMMA Proceeding ==
    ASSUME CallsTyped, NEW t \in Thread, NEW locals \in Call, ~Idle(t),
           locals.steps = StepsAt(t), Proceed(t, locals)
    PROVE  /\ calls' \in [Thread -> Call]
           /\ Others(t)
           /\ Len(StepsAt(t)) = 1 => StepsAt(t)' = <<>>
           /\ Len(StepsAt(t)) # 1 =>
                /\ StepsAt(t)' = Tail(StepsAt(t))
                /\ calls'[t].kind = locals.kind /\ calls'[t].block = locals.block
                /\ calls'[t].id = locals.id /\ calls'[t].found = locals.found
                /\ calls'[t].made = locals.made
<1>1. StepsAt(t) \in Stages /\ StepsAt(t) # <<>> /\ calls \in [Thread -> Call]
  BY DEF CallsTyped, Call, StepsAt, Idle
<1>2. Len(StepsAt(t)) # 1 => Tail(StepsAt(t)) \in Stages
  BY <1>1, StageFacts DEF Stages
<1>3. NoCall \in Call /\ NoCall.steps = <<>>
  BY DEF NoCall, Call, Stages, Kind
<1> DEFINE next == [locals EXCEPT !.steps = Tail(StepsAt(t))]
<1>5. Len(StepsAt(t)) # 1 =>
        /\ next \in Call /\ next.steps = Tail(StepsAt(t))
        /\ next.kind = locals.kind /\ next.block = locals.block /\ next.id = locals.id
        /\ next.found = locals.found /\ next.made = locals.made
  BY <1>2, StepsReplaced
<1> HIDE DEF next
<1>6. calls' = [calls EXCEPT ![t] = IF Len(StepsAt(t)) = 1 THEN NoCall ELSE next]
  BY DEF Proceed, StepsAt, next
<1>7. calls'[t] = IF Len(StepsAt(t)) = 1 THEN NoCall ELSE next
  BY <1>1, <1>6
<1>8. calls' \in [Thread -> Call] /\ Others(t)
  BY <1>1, <1>3, <1>5, <1>6 DEF Others
<1> QED
  BY <1>3, <1>5, <1>7, <1>8 DEF StepsAt

\* The invariant holds at first.
LEMMA InitInv ==
    ASSUME Init
    PROVE  Inv
<1>1. NoCall \in Call /\ \A t \in Thread : StepsAt(t) = <<>>
  BY DEF Init, NoCall, Call, Stages, Kind, StepsAt
<1>2. \A k \in Kind : DOMAIN handles[k] = {}
  BY DEF Init, Kind
<1>3. DOMAIN owned = {}
  BY DEF Init
<1>4. Typed
  BY <1>1, <1>2, <1>3 DEF Init, Typed, CallsTyped, TablesTyped, OwnedTyped
<1>5. \A t \in Thread : /\ ~Holder(t) /\ ~User(t) /\ ~HoldsBlock(t) /\ ~KnowsEntry(t) /\ ~Creator(t)
                        /\ StepsAt(t) \notin {C1, D1, U1, U2, U3}
  BY <1>1, StageFacts DEF Holder, User, HoldsBlock, KnowsEntry, Creator
<1> QED
  BY <1>2, <1>3, <1>4, <1>5 DEF Inv, OneHolder, Entries, Blocks, Users, Accounted

\* So the other threads stay in their roles.
LEMMA OthersKeep ==
    ASSUME NEW t \in Thread, Others(t)
    PROVE  \A u \in Thread : u # t =>
              /\ calls'[u] = calls[u]
              /\ StepsAt(u)' = StepsAt(u)
              /\ Creator(u)' = Creator(u) /\ User(u)' = User(u) /\ Holder(u)' = Holder(u)
              /\ HoldsBlock(u)' = HoldsBlock(u) /\ KnowsEntry(u)' = KnowsEntry(u)
<1> SUFFICES ASSUME NEW u \in Thread, u # t
             PROVE  /\ calls'[u] = calls[u]
                    /\ StepsAt(u)' = StepsAt(u)
                    /\ Creator(u)' = Creator(u) /\ User(u)' = User(u) /\ Holder(u)' = Holder(u)
                    /\ HoldsBlock(u)' = HoldsBlock(u) /\ KnowsEntry(u)' = KnowsEntry(u)
  OBVIOUS
<1>1. calls'[u] = calls[u]
  BY DEF Others
<1>2. StepsAt(u)' = StepsAt(u)
  BY <1>1 DEF StepsAt
<1> QED
  BY <1>1, <1>2 DEF Creator, User, Holder, HoldsBlock, KnowsEntry

\* A call begins with the steps of its operation.
LEMMA Beginning ==
    ASSUME CallsTyped, NEW t \in Thread, NEW operation \in {"create", "use", "destroy"},
           NEW kind \in Kind, NEW block \in Block \cup {Nil}, NEW object \in Nat,
           calls' = [calls EXCEPT ![t] = NewCall(operation, kind, block, object)]
    PROVE  /\ calls' \in [Thread -> Call]
           /\ Others(t)
           /\ calls'[t].kind = kind /\ calls'[t].block = block /\ calls'[t].made = object
           /\ StepsAt(t)' = IF operation = "create" THEN C1
                            ELSE IF operation = "use" THEN U1 ELSE D1
<1>1. Steps[operation] = IF operation = "create" THEN C1
                         ELSE IF operation = "use" THEN U1 ELSE D1
  BY DEF Steps, C1, U1, D1
<1>2. NoCall \in Call
  BY DEF NoCall, Call, Stages, Kind
<1>3. Steps[operation] \in Stages
  BY <1>1 DEF Stages
<1> DEFINE new == NewCall(operation, kind, block, object)
<1>4. /\ new \in Call /\ new.steps = Steps[operation]
      /\ new.kind = kind /\ new.block = block /\ new.made = object
  BY <1>2, <1>3 DEF NewCall, Call
<1> HIDE DEF new
<1>5. calls' = [calls EXCEPT ![t] = new] /\ calls \in [Thread -> Call]
  BY DEF CallsTyped, new
<1>6. calls' \in [Thread -> Call] /\ Others(t) /\ calls'[t] = new
  BY <1>4, <1>5 DEF Others
<1> QED
  BY <1>1, <1>4, <1>6 DEF StepsAt

\* The types of the calls, from the call that has changed.
LEMMA CallsStayTyped ==
    ASSUME CallsTyped, NEW t \in Thread, Others(t), calls' \in [Thread -> Call],
           objects' \in Nat, objects <= objects',
           StepsAt(t)' # <<>> => 1 <= calls'[t].made /\ calls'[t].made <= objects'
    PROVE  CallsTyped'
<1> SUFFICES ASSUME NEW u \in Thread, StepsAt(u)' # <<>>
             PROVE  1 <= calls'[u].made /\ calls'[u].made <= objects'
  BY DEF CallsTyped
<1>1. CASE u = t
  BY <1>1
<1>2. CASE u # t
  <2>1. calls'[u] = calls[u] /\ StepsAt(u) # <<>>
    BY <1>2, OthersKeep
  <2>2. calls[u].made \in Nat /\ objects \in Nat
    BY DEF CallsTyped, Call
  <2> QED
    BY <2>1, <2>2 DEF CallsTyped
<1> QED
  BY <1>1, <1>2

\* A creation begins: a new object, held by its creator alone.
LEMMA BeginCreateInv ==
    ASSUME Inv, NEW t \in Thread, NEW kind \in Kind, BeginCreate(t, kind)
    PROVE  Inv'
<1>0. CallsTyped /\ TablesTyped /\ OwnedTyped /\ OneHolder /\ Entries /\ Blocks /\ Users /\ Accounted
  BY DEF Inv, Typed
<1>1. /\ StepsAt(t) = <<>> /\ objects \in Nat /\ objects' = objects + 1
      /\ UNCHANGED <<nextHandleID, handles, heap, owned>>
      /\ calls' = [calls EXCEPT ![t] = NewCall("create", kind, Nil, objects + 1)]
  BY <1>0, StageAt DEF BeginCreate, CallsTyped
<1>2. /\ calls' \in [Thread -> Call] /\ Others(t) /\ StepsAt(t)' = C1
      /\ calls'[t].kind = kind /\ calls'[t].made = objects + 1
  BY <1>0, <1>1, Beginning, objects + 1 \in Nat
<1>3. Typed'
  <2>1. CallsTyped'
    BY <1>0, <1>1, <1>2, CallsStayTyped
  <2>2. TablesTyped'
    BY <1>0, <1>1 DEF TablesTyped
  <2>3. OwnedTyped'
    BY <1>0, <1>1 DEF OwnedTyped
  <2> QED
    BY <2>1, <2>2, <2>3 DEF Typed
<1>4. /\ Holder(t)' /\ Creator(t)' /\ ~User(t)' /\ ~HoldsBlock(t)' /\ ~KnowsEntry(t)'
      /\ StepsAt(t)' \notin {D1, U1, U2, U3}
  BY <1>2, StageFacts DEF Holder, Creator, User, HoldsBlock, KnowsEntry
<1>5. \A u \in Thread : Holder(u) \/ User(u) => 1 <= calls[u].made /\ calls[u].made < objects + 1
  BY <1>0, StageFacts DEF CallsTyped, Holder, User, Call, StepsAt
<1>6. OneHolder'
  BY <1>0, <1>1, <1>2, <1>4, <1>5, OthersKeep DEF OneHolder, OwnedTyped
<1>7. Entries'
  BY <1>0, <1>1, <1>2, <1>4, OthersKeep DEF Entries, TablesTyped, HasEntry
<1>8. Blocks'
  BY <1>0, <1>1, <1>2, <1>4, OthersKeep DEF Blocks
<1>9. Users'
  BY <1>0, <1>1, <1>2, <1>4, OthersKeep DEF Users
<1>10. \A u \in Thread : KnowsEntry(u) \/ StepsAt(u) = D1 => u # t
  BY <1>1, StageFacts DEF KnowsEntry
<1>11. Accounted'
  BY <1>0, <1>1, <1>2, <1>10, OthersKeep DEF Accounted
<1> QED
  BY <1>3, <1>6, <1>7, <1>8, <1>9, <1>11 DEF Inv

\* The object gets an entry under a number no table has (newStreamHandle).
LEMMA RegisterInv ==
    ASSUME Inv, NEW t \in Thread, Register(t)
    PROVE  Inv'
<1>0. CallsTyped /\ TablesTyped /\ OwnedTyped /\ OneHolder /\ Entries /\ Blocks /\ Users /\ Accounted
  BY DEF Inv, Typed
<1> DEFINE k == calls[t].kind
           id == nextHandleID
           locals == [calls[t] EXCEPT !.id = id]
<1>1. /\ StepsAt(t) = C1 /\ ~Idle(t) /\ k \in Kind /\ id \in Nat /\ calls[t] \in Call
      /\ nextHandleID' = id + 1
      /\ handles' = [handles EXCEPT ![k] = With(@, id, calls[t].made)]
      /\ Proceed(t, locals)
      /\ UNCHANGED <<heap, objects, owned>>
  BY <1>0, StageAt DEF Register, At, CallsTyped, TablesTyped, Call, NewID
<1>2. /\ locals \in Call /\ locals.steps = StepsAt(t) /\ locals.id = id
      /\ locals.kind = k /\ locals.block = calls[t].block /\ locals.made = calls[t].made
  BY <1>1 DEF Call, StepsAt
<1> HIDE DEF locals
<1>3. /\ calls' \in [Thread -> Call] /\ Others(t) /\ StepsAt(t)' = C2
      /\ calls'[t].kind = k /\ calls'[t].id = id /\ calls'[t].made = calls[t].made
  <2>1. Len(StepsAt(t)) # 1 /\ Tail(StepsAt(t)) = C2
    BY <1>1, StageFacts
  <2> QED
    BY <1>0, <1>1, <1>2, <2>1, Proceeding
<1>4. /\ DOMAIN handles' = Kind /\ handles'[k] = With(handles[k], id, calls[t].made)
      /\ \A other \in Kind : other # k => handles'[other] = handles[other]
  BY <1>0, <1>1 DEF TablesTyped
<1> HIDE DEF k, id
<1>5. /\ DOMAIN handles'[k] = DOMAIN handles[k] \cup {id}
      /\ handles'[k][id] = calls[t].made
      /\ \A i \in DOMAIN handles[k] : i # id => handles'[k][i] = handles[k][i]
  BY <1>4 DEF With
<1>6. \A other \in Kind : id \notin DOMAIN handles[other]
  BY <1>0 DEF TablesTyped, id
<1>7. \A kind \in Kind : \A i, object : HasEntry(kind, i, object) => HasEntry(kind, i, object)'
  BY <1>1, <1>4, <1>5, <1>6 DEF HasEntry
<1>8. 1 <= calls[t].made /\ calls[t].made <= objects /\ objects \in Nat /\ calls[t].made \in Nat
  BY <1>0, <1>1, StageFacts DEF CallsTyped, StepsAt, Call
<1>9. Typed'
  <2>1. CallsTyped'
    BY <1>0, <1>1, <1>3, <1>8, CallsStayTyped
  <2>2. TablesTyped'
    BY <1>0, <1>1, <1>4, <1>5, <1>8 DEF TablesTyped, id
  <2>3. OwnedTyped'
    BY <1>0, <1>1 DEF OwnedTyped
  <2> QED
    BY <2>1, <2>2, <2>3 DEF Typed
<1>10. /\ Holder(t) /\ Creator(t) /\ Holder(t)' /\ Creator(t)'
       /\ ~User(t)' /\ ~HoldsBlock(t)' /\ KnowsEntry(t)' /\ StepsAt(t)' \notin {C1, D1, U1, U2, U3}
  BY <1>1, <1>3, StageFacts DEF Holder, Creator, User, HoldsBlock, KnowsEntry
<1>11. OneHolder'
  BY <1>0, <1>1, <1>3, <1>10, OthersKeep DEF OneHolder
<1>12. Entries'
  <2>1. \A kind \in Kind : \A i, j \in DOMAIN handles'[kind] :
           handles'[kind][i] = handles'[kind][j] => i = j
    BY <1>0, <1>1, <1>4, <1>5 DEF Entries
  <2>2. \A b \in DOMAIN owned' :
           b \in DOMAIN heap' /\ HasEntry(owned[b].kind, heap[b], owned[b].object)'
    BY <1>0, <1>1, <1>7 DEF Entries, OwnedTyped
  <2>3. HasEntry(calls[t].kind, calls[t].id, calls[t].made)'
    BY <1>3, <1>5 DEF HasEntry
  <2>4. ASSUME NEW u \in Thread, u # t
        PROVE  /\ KnowsEntry(u)' => HasEntry(calls[u].kind, calls[u].id, calls[u].made)'
               /\ StepsAt(u)' = D1 => HasEntry(calls[u].kind, heap[calls[u].block], calls[u].made)'
               /\ StepsAt(u)' = C1 =>
                    \A kind \in Kind : \A i \in DOMAIN handles'[kind] :
                        handles'[kind][i] # calls'[u].made
    <3>1. /\ calls'[u] = calls[u] /\ StepsAt(u)' = StepsAt(u) /\ KnowsEntry(u)' = KnowsEntry(u)
          /\ calls[u].kind \in Kind
      BY <1>0, <1>3, <2>4, OthersKeep DEF CallsTyped, Call
    <3>2. /\ KnowsEntry(u)' => HasEntry(calls[u].kind, calls[u].id, calls[u].made)'
          /\ StepsAt(u)' = D1 => HasEntry(calls[u].kind, heap[calls[u].block], calls[u].made)'
      BY <1>0, <1>1, <1>7, <3>1 DEF Entries, HasEntry
    <3>3. StepsAt(u)' = C1 => calls[u].made # calls[t].made
      BY <1>0, <1>10, <2>4, <3>1 DEF OneHolder, Holder
    <3> QED
      BY <1>0, <1>1, <1>4, <1>5, <3>1, <3>2, <3>3 DEF Entries
  <2> QED
    BY <1>10, <2>1, <2>2, <2>3, <2>4 DEF Entries
<1>13. Blocks'
  BY <1>0, <1>1, <1>3, <1>10, OthersKeep DEF Blocks
<1>14. Users'
  <2> SUFFICES ASSUME NEW u \in Thread, u # t
               PROVE  /\ StepsAt(u)' = U1 =>
                         /\ calls'[u].block \in DOMAIN owned'
                         /\ owned'[calls'[u].block]
                               = [kind |-> calls'[u].kind, object |-> calls'[u].made]
                      /\ StepsAt(u)' \in {U2, U3} =>
                         /\ calls'[u].id < nextHandleID'
                         /\ calls'[u].id \in DOMAIN handles'[calls'[u].kind] =>
                               handles'[calls'[u].kind][calls'[u].id] = calls'[u].made
                      /\ StepsAt(u)' = U2 => \A b \in DOMAIN owned' :
                         owned'[b].object = calls'[u].made =>
                            owned'[b].kind = calls'[u].kind /\ heap'[b] = calls'[u].id
                      /\ StepsAt(u)' = U3 =>
                         \/ calls'[u].found = calls'[u].made
                         \/ calls'[u].found = 0
                            /\ \A b \in DOMAIN owned' : owned'[b].object # calls'[u].made
    BY <1>10 DEF Users
  <2>1. calls'[u] = calls[u] /\ StepsAt(u)' = StepsAt(u) /\ calls[u] \in Call
    BY <1>0, <1>3, OthersKeep DEF CallsTyped
  <2>2. StepsAt(u) \in {U2, U3} =>
           /\ calls[u].id < nextHandleID'
           /\ calls[u].id \in DOMAIN handles'[calls[u].kind] =>
                 handles'[calls[u].kind][calls[u].id] = calls[u].made
    <3>1. calls[u].kind \in Kind /\ calls[u].id \in Nat
      BY <2>1 DEF Call
    <3>2. StepsAt(u) \in {U2, U3} => calls[u].id < id
      BY <1>0 DEF Users, id
    <3>3. StepsAt(u) \in {U2, U3} =>
             (calls[u].id \in DOMAIN handles'[calls[u].kind] =>
                /\ calls[u].id \in DOMAIN handles[calls[u].kind]
                /\ handles'[calls[u].kind][calls[u].id] = handles[calls[u].kind][calls[u].id])
      <4>1. ASSUME StepsAt(u) \in {U2, U3}
            PROVE  calls[u].id # id
        BY <1>1, <3>1, <3>2, <4>1
      <4> QED
        BY <1>4, <1>5, <3>1, <4>1
    <3>4. StepsAt(u) \in {U2, U3} => calls[u].id < nextHandleID'
      BY <1>1, <3>1, <3>2
    <3> QED
      BY <1>0, <3>3, <3>4 DEF Users
  <2> QED
    BY <1>0, <1>1, <2>1, <2>2 DEF Users
<1>15. Accounted'
  <2>1. /\ calls'[t].kind = k /\ calls'[t].id = id /\ KnowsEntry(t)'
    BY <1>3, <1>10
  <2>2. \A u \in Thread : KnowsEntry(u) \/ StepsAt(u) = D1 => u # t
    BY <1>1, StageFacts DEF KnowsEntry
  <2>3. ASSUME NEW kind \in Kind, NEW i \in DOMAIN handles[kind]
        PROVE  \/ \E b \in DOMAIN owned' :
                     owned'[b] = [kind |-> kind, object |-> handles[kind][i]] /\ heap'[b] = i
               \/ \E u \in Thread :
                     /\ calls'[u].kind = kind
                     /\ \/ KnowsEntry(u)' /\ calls'[u].id = i
                        \/ StepsAt(u)' = D1 /\ heap'[calls'[u].block] = i
    BY <1>0, <1>1, <1>3, <2>2, OthersKeep DEF Accounted
  <2>4. \A kind \in Kind : \A i \in DOMAIN handles'[kind] :
           \/ kind = k /\ i = id
           \/ i \in DOMAIN handles[kind] /\ handles'[kind][i] = handles[kind][i]
    BY <1>4, <1>5
  <2> QED
    BY <2>1, <2>3, <2>4 DEF Accounted
<1> QED
  BY <1>9, <1>11, <1>12, <1>13, <1>14, <1>15 DEF Inv

\* The types, when at most calls and heap change.
LEMMA TypesKept ==
    ASSUME Typed, NEW t \in Thread, Others(t), calls' \in [Thread -> Call],
           StepsAt(t)' # <<>> => 1 <= calls'[t].made /\ calls'[t].made <= objects,
           UNCHANGED <<nextHandleID, handles, objects, owned>>
    PROVE  Typed'
<1>1. CallsTyped'
  BY CallsStayTyped DEF Typed, CallsTyped
<1>2. TablesTyped' /\ OwnedTyped'
  BY DEF Typed, TablesTyped, OwnedTyped
<1> QED
  BY <1>1, <1>2 DEF Typed

\* The creation gets a block nobody else holds.
LEMMA MallocInv ==
    ASSUME Inv, NEW t \in Thread, Malloc(t)
    PROVE  Inv'
<1>0. CallsTyped /\ TablesTyped /\ OwnedTyped /\ OneHolder /\ Entries /\ Blocks /\ Users /\ Accounted
  BY DEF Inv, Typed
<1>1. PICK b \in Block \ DOMAIN heap :
         /\ heap' = With(heap, b, 0)
         /\ Proceed(t, [calls[t] EXCEPT !.block = b])
  BY DEF Malloc
<1> DEFINE locals == [calls[t] EXCEPT !.block = b]
<1>2. /\ StepsAt(t) = C2 /\ ~Idle(t) /\ calls[t] \in Call
      /\ UNCHANGED <<nextHandleID, handles, objects, owned>>
  BY <1>0, StageAt DEF Malloc, At, CallsTyped
<1>3. /\ locals \in Call /\ locals.steps = StepsAt(t) /\ locals.id = calls[t].id
      /\ locals.kind = calls[t].kind /\ locals.block = b /\ locals.made = calls[t].made
  BY <1>2 DEF Call, StepsAt
<1>4. Proceed(t, locals)
  BY <1>1
<1> HIDE DEF locals
<1>5. /\ calls' \in [Thread -> Call] /\ Others(t) /\ StepsAt(t)' = C3
      /\ calls'[t].kind = calls[t].kind /\ calls'[t].id = calls[t].id
      /\ calls'[t].block = b /\ calls'[t].made = calls[t].made
  <2>1. Len(StepsAt(t)) # 1 /\ Tail(StepsAt(t)) = C3
    BY <1>2, StageFacts
  <2> QED
    BY <1>0, <1>2, <1>3, <1>4, <2>1, Proceeding
<1>6. Typed'
  <2>1. 1 <= calls[t].made /\ calls[t].made <= objects
    BY <1>0, <1>2, StageFacts DEF CallsTyped
  <2> QED
    BY <1>2, <1>5, <2>1, TypesKept DEF Inv
<1>7. /\ b \notin DOMAIN heap /\ DOMAIN heap' = DOMAIN heap \cup {b}
      /\ \A c \in DOMAIN heap : heap'[c] = heap[c]
  BY <1>1 DEF With
<1>8. /\ Holder(t) /\ Creator(t) /\ Holder(t)' /\ Creator(t)' /\ KnowsEntry(t)
      /\ ~User(t)' /\ HoldsBlock(t)' /\ KnowsEntry(t)' /\ StepsAt(t)' \notin {C1, D1, U1, U2, U3}
  BY <1>2, <1>5, StageFacts DEF Holder, Creator, User, HoldsBlock, KnowsEntry
<1>9. \A c \in DOMAIN owned : c \in DOMAIN heap /\ heap'[c] = heap[c]
  BY <1>0, <1>7 DEF Entries
<1>10. \A u \in Thread : StepsAt(u) = D1 =>
          u # t /\ calls[u].block \in DOMAIN heap /\ heap'[calls[u].block] = heap[calls[u].block]
  BY <1>0, <1>2, <1>7, StageFacts DEF Blocks, HoldsBlock
<1>11. OneHolder'
  BY <1>0, <1>2, <1>5, <1>8, OthersKeep DEF OneHolder
<1>12. Entries'
  BY <1>0, <1>2, <1>5, <1>7, <1>8, <1>9, <1>10, OthersKeep DEF Entries, HasEntry
<1>13. Blocks'
  BY <1>0, <1>2, <1>5, <1>7, <1>8, <1>9, OthersKeep DEF Blocks
<1>14. Users'
  BY <1>0, <1>2, <1>5, <1>8, <1>9, OthersKeep DEF Users
<1>15. Accounted'
  BY <1>0, <1>2, <1>5, <1>8, <1>9, <1>10, OthersKeep DEF Accounted
<1> QED
  BY <1>6, <1>11, <1>12, <1>13, <1>14, <1>15 DEF Inv

\* Without a block the creation has its entry left, to remove.
LEMMA MallocFailsInv ==
    ASSUME Inv, NEW t \in Thread, MallocFails(t)
    PROVE  Inv'
<1>0. CallsTyped /\ TablesTyped /\ OwnedTyped /\ OneHolder /\ Entries /\ Blocks /\ Users /\ Accounted
  BY DEF Inv, Typed
<1>1. /\ StepsAt(t) = C2 /\ calls[t] \in Call /\ calls \in [Thread -> Call]
      /\ calls' = [calls EXCEPT ![t].steps = R1]
      /\ UNCHANGED <<nextHandleID, handles, heap, objects, owned>>
  BY <1>0, StageAt DEF MallocFails, R1, CallsTyped
<1>2. R1 \in Stages
  BY DEF Stages
<1> DEFINE new == [calls[t] EXCEPT !.steps = R1]
<1>3. /\ new \in Call /\ new.steps = R1 /\ new.kind = calls[t].kind
      /\ new.id = calls[t].id /\ new.made = calls[t].made
  BY <1>1, <1>2, StepsReplaced
<1>4. calls' = [calls EXCEPT ![t] = new]
  BY <1>1
<1> HIDE DEF new
<1>5. /\ calls' \in [Thread -> Call] /\ Others(t) /\ StepsAt(t)' = R1
      /\ calls'[t].kind = calls[t].kind /\ calls'[t].id = calls[t].id
      /\ calls'[t].made = calls[t].made
  BY <1>1, <1>3, <1>4 DEF Others, StepsAt
<1>6. Typed'
  <2>1. 1 <= calls[t].made /\ calls[t].made <= objects
    BY <1>0, <1>1, StageFacts DEF CallsTyped
  <2> QED
    BY <1>1, <1>5, <2>1, TypesKept DEF Inv
<1>7. /\ Holder(t) /\ Holder(t)' /\ ~Creator(t)' /\ KnowsEntry(t)
      /\ ~User(t)' /\ ~HoldsBlock(t)' /\ KnowsEntry(t)' /\ StepsAt(t)' \notin {C1, D1, U1, U2, U3}
  BY <1>1, <1>5, StageFacts DEF Holder, Creator, User, HoldsBlock, KnowsEntry
<1>8. \A u \in Thread : StepsAt(u) = D1 => u # t
  BY <1>1, StageFacts
<1>9. OneHolder'
  BY <1>0, <1>1, <1>5, <1>7, OthersKeep DEF OneHolder
<1>10. Entries'
  BY <1>0, <1>1, <1>5, <1>7, OthersKeep DEF Entries, HasEntry
<1>11. Blocks'
  BY <1>0, <1>1, <1>5, <1>7, OthersKeep DEF Blocks
<1>12. Users'
  BY <1>0, <1>1, <1>5, <1>7, OthersKeep DEF Users
<1>13. Accounted'
  BY <1>0, <1>1, <1>5, <1>7, <1>8, OthersKeep DEF Accounted
<1> QED
  BY <1>6, <1>9, <1>10, <1>11, <1>12, <1>13 DEF Inv

\* The creator hands block and entry over to the caller.
LEMMA WriteHandleInv ==
    ASSUME Inv, NEW t \in Thread, WriteHandle(t)
    PROVE  Inv'
<1>0. CallsTyped /\ TablesTyped /\ OwnedTyped /\ OneHolder /\ Entries /\ Blocks /\ Users /\ Accounted
  BY DEF Inv, Typed
<1> DEFINE b == calls[t].block
           entry == [kind |-> calls[t].kind, object |-> calls[t].made]
<1>1. /\ StepsAt(t) = C3 /\ ~Idle(t) /\ calls[t] \in Call
      /\ heap' = [heap EXCEPT ![b] = calls[t].id]
      /\ owned' = With(owned, b, entry)
      /\ Proceed(t, calls[t])
      /\ UNCHANGED <<nextHandleID, handles, objects>>
  BY <1>0, StageAt DEF WriteHandle, At, CallsTyped
<1>2. calls' \in [Thread -> Call] /\ Others(t) /\ StepsAt(t)' = <<>>
  <2>1. Len(StepsAt(t)) = 1 /\ calls[t].steps = StepsAt(t)
    BY <1>1, StageFacts DEF StepsAt
  <2> QED
    BY <1>0, <1>1, <2>1, Proceeding
<1>3. /\ Holder(t) /\ Creator(t) /\ KnowsEntry(t) /\ HoldsBlock(t)
      /\ ~Holder(t)' /\ ~Creator(t)' /\ ~User(t)' /\ ~HoldsBlock(t)' /\ ~KnowsEntry(t)'
      /\ StepsAt(t)' \notin {C1, D1, U1, U2, U3}
  BY <1>1, <1>2, StageFacts DEF Holder, Creator, User, HoldsBlock, KnowsEntry
<1>4. b \in DOMAIN heap /\ b \notin DOMAIN owned
  BY <1>0, <1>3 DEF Blocks
<1>5. HasEntry(calls[t].kind, calls[t].id, calls[t].made)
  BY <1>0, <1>3 DEF Entries
<1>6. /\ 1 <= calls[t].made /\ calls[t].made <= objects
      /\ entry \in [kind : Kind, object : Nat]
      /\ entry.kind = calls[t].kind /\ entry.object = calls[t].made
  BY <1>0, <1>1, StageFacts DEF CallsTyped, Call
<1> HIDE DEF entry
<1>7. /\ DOMAIN heap' = DOMAIN heap /\ heap'[b] = calls[t].id
      /\ \A c \in DOMAIN heap : c # b => heap'[c] = heap[c]
  BY <1>1, <1>4
<1>8. /\ DOMAIN owned' = DOMAIN owned \cup {b} /\ owned'[b] = entry
      /\ \A c \in DOMAIN owned : owned'[c] = owned[c]
  BY <1>1, <1>4 DEF With
<1>9. \A c \in DOMAIN owned : c \in DOMAIN heap /\ heap'[c] = heap[c]
  BY <1>0, <1>4, <1>7 DEF Entries
<1>10. \A u \in Thread : StepsAt(u) = D1 =>
          u # t /\ heap'[calls[u].block] = heap[calls[u].block]
  BY <1>0, <1>1, <1>3, <1>7, StageFacts DEF Blocks, HoldsBlock
<1>11. Typed'
  <2>1. CallsTyped'
    BY <1>0, <1>1, <1>2, CallsStayTyped DEF CallsTyped
  <2>2. TablesTyped'
    BY <1>0, <1>1 DEF TablesTyped
  <2>3. OwnedTyped'
    BY <1>0, <1>1, <1>6, <1>8 DEF OwnedTyped
  <2> QED
    BY <2>1, <2>2, <2>3 DEF Typed
<1> HIDE DEF b
<1>12. OneHolder'
  BY <1>0, <1>1, <1>2, <1>3, <1>6, <1>8, OthersKeep DEF OneHolder
<1>13. Entries'
  <2>1. \A c \in DOMAIN owned' : c \in DOMAIN heap' /\ HasEntry(owned[c].kind, heap[c], owned[c].object)'
    BY <1>0, <1>1, <1>4, <1>5, <1>6, <1>7, <1>8, <1>9 DEF Entries, HasEntry
  <2> QED
    BY <1>0, <1>1, <1>2, <1>3, <1>10, <2>1, OthersKeep DEF Entries, HasEntry
<1>14. Blocks'
  <2>1. \A u \in Thread : HoldsBlock(u)' => u # t /\ calls[u].block # b
    BY <1>0, <1>2, <1>3, OthersKeep DEF Blocks, b
  <2> QED
    BY <1>0, <1>2, <1>3, <1>7, <1>8, <2>1, OthersKeep DEF Blocks
<1>15. Users'
  <2>1. \A u \in Thread : User(u) => u # t /\ calls[u].made # entry.object
    BY <1>0, <1>1, <1>3, <1>6, StageFacts DEF OneHolder, User
  <2> QED
    BY <1>0, <1>1, <1>2, <1>3, <1>8, <1>9, <2>1, OthersKeep DEF Users, User
<1>16. Accounted'
  <2> SUFFICES ASSUME NEW k \in Kind, NEW id \in DOMAIN handles[k]
               PROVE  \/ \E c \in DOMAIN owned' :
                            owned'[c] = [kind |-> k, object |-> handles[k][id]] /\ heap'[c] = id
                      \/ \E u \in Thread :
                            /\ calls'[u].kind = k
                            /\ \/ KnowsEntry(u)' /\ calls'[u].id = id
                               \/ StepsAt(u)' = D1 /\ heap'[calls'[u].block] = id
    BY <1>1 DEF Accounted
  <2>1. CASE calls[t].kind = k /\ calls[t].id = id
    BY <1>5, <1>7, <1>8, <2>1 DEF HasEntry, entry
  <2>2. CASE ~(calls[t].kind = k /\ calls[t].id = id)
    BY <1>0, <1>2, <1>8, <1>9, <1>10, <2>2, OthersKeep DEF Accounted
  <2> QED
    BY <2>1, <2>2
<1> QED
  BY <1>11, <1>12, <1>13, <1>14, <1>15, <1>16 DEF Inv

\* A use begins with the block its caller owns.
LEMMA BeginUseInv ==
    ASSUME Inv, NEW t \in Thread, NEW b \in Block, BeginUse(t, b)
    PROVE  Inv'
<1>0. CallsTyped /\ TablesTyped /\ OwnedTyped /\ OneHolder /\ Entries /\ Blocks /\ Users /\ Accounted
  BY DEF Inv, Typed
<1>1. /\ StepsAt(t) = <<>> /\ b \in DOMAIN owned
      /\ calls' = [calls EXCEPT ![t] = NewCall("use", owned[b].kind, b, owned[b].object)]
      /\ \A u \in Thread : calls[u].made # owned[b].object
      /\ UNCHANGED <<nextHandleID, handles, heap, objects, owned>>
  BY <1>0, StageAt DEF BeginUse, IsFor
<1>2. /\ owned[b].kind \in Kind /\ owned[b].object \in Nat
      /\ 1 <= owned[b].object /\ owned[b].object <= objects
      /\ owned[b] = [kind |-> owned[b].kind, object |-> owned[b].object]
  BY <1>0, <1>1 DEF OwnedTyped
<1>3. /\ calls' \in [Thread -> Call] /\ Others(t) /\ StepsAt(t)' = U1
      /\ calls'[t].kind = owned[b].kind /\ calls'[t].block = b
      /\ calls'[t].made = owned[b].object
  <2> DEFINE kind == owned[b].kind
             object == owned[b].object
  <2>1. /\ kind \in Kind /\ object \in Nat
        /\ calls' = [calls EXCEPT ![t] = NewCall("use", kind, b, object)]
    BY <1>1, <1>2
  <2> HIDE DEF kind, object
  <2>2. /\ calls' \in [Thread -> Call] /\ Others(t) /\ StepsAt(t)' = U1
        /\ calls'[t].kind = kind /\ calls'[t].block = b /\ calls'[t].made = object
    BY <1>0, <2>1, Beginning
  <2> QED
    BY <2>2 DEF kind, object
<1>4. Typed'
  BY <1>1, <1>2, <1>3, TypesKept DEF Inv
<1>5. /\ ~Holder(t) /\ ~KnowsEntry(t) /\ ~HoldsBlock(t)
      /\ ~Holder(t)' /\ ~Creator(t)' /\ ~HoldsBlock(t)' /\ ~KnowsEntry(t)'
      /\ StepsAt(t)' \notin {C1, D1, U2, U3} /\ StepsAt(t) # D1
  BY <1>1, <1>3, StageFacts DEF Holder, Creator, HoldsBlock, KnowsEntry
<1>6. OneHolder'
  BY <1>0, <1>1, <1>3, <1>5, OthersKeep DEF OneHolder
<1>7. Entries'
  BY <1>0, <1>1, <1>3, <1>5, OthersKeep, SMTT(60) DEF Entries, HasEntry
<1>8. Blocks'
  BY <1>0, <1>1, <1>3, <1>5, OthersKeep DEF Blocks
<1>9. Users'
  BY <1>0, <1>1, <1>2, <1>3, <1>5, OthersKeep DEF Users
<1>10. Accounted'
  BY <1>0, <1>1, <1>3, <1>5, OthersKeep DEF Accounted
<1> QED
  BY <1>4, <1>6, <1>7, <1>8, <1>9, <1>10 DEF Inv

\* A use or a destruction reads the number of the entry.
LEMMA ReadHandleInv ==
    ASSUME Inv, NEW t \in Thread, ReadHandle(t)
    PROVE  Inv'
<1>0. CallsTyped /\ TablesTyped /\ OwnedTyped /\ OneHolder /\ Entries /\ Blocks /\ Users /\ Accounted
  BY DEF Inv, Typed
<1> DEFINE b == calls[t].block
           locals == [calls[t] EXCEPT !.id = heap[b]]
<1>1. /\ StepsAt(t) \in {U1, D1} /\ ~Idle(t) /\ calls[t] \in Call
      /\ Proceed(t, [calls[t] EXCEPT !.id = Read(b)])
      /\ UNCHANGED <<nextHandleID, handles, heap, objects, owned>>
  BY <1>0, StageAt DEF ReadHandle, At, CallsTyped
<1>2. /\ b \in DOMAIN heap
      /\ HasEntry(calls[t].kind, heap[b], calls[t].made)
      /\ StepsAt(t) = U1 =>
            /\ b \in DOMAIN owned
            /\ owned[b] = [kind |-> calls[t].kind, object |-> calls[t].made]
  <2>1. CASE StepsAt(t) = U1
    BY <1>0, <2>1 DEF Users, Entries
  <2>2. CASE StepsAt(t) = D1
    BY <1>0, <2>2, StageFacts DEF Blocks, HoldsBlock, Entries
  <2> QED
    BY <1>1, <2>1, <2>2
<1>3. heap[b] \in Nat /\ heap[b] < nextHandleID /\ calls[t].kind \in Kind
  BY <1>0, <1>1, <1>2 DEF TablesTyped, HasEntry, Call
<1>4. Proceed(t, locals)
  BY <1>1, <1>2 DEF Read
<1>5. /\ locals \in Call /\ locals.steps = StepsAt(t) /\ locals.id = heap[b]
      /\ locals.kind = calls[t].kind /\ locals.block = b /\ locals.made = calls[t].made
  BY <1>1, <1>3 DEF Call, StepsAt
<1> HIDE DEF locals
<1>6. /\ calls' \in [Thread -> Call] /\ Others(t)
      /\ StepsAt(t)' = IF StepsAt(t) = U1 THEN U2 ELSE D2
      /\ calls'[t].kind = calls[t].kind /\ calls'[t].id = heap[b]
      /\ calls'[t].block = b /\ calls'[t].made = calls[t].made
  <2>1. Len(StepsAt(t)) # 1 /\ Tail(StepsAt(t)) = IF StepsAt(t) = U1 THEN U2 ELSE D2
    BY <1>1, StageFacts
  <2> QED
    BY <1>0, <1>1, <1>4, <1>5, <2>1, Proceeding
<1>7. Typed'
  <2>1. 1 <= calls[t].made /\ calls[t].made <= objects
    BY <1>0, <1>1, StageFacts DEF CallsTyped
  <2> QED
    BY <1>1, <1>6, <2>1, TypesKept DEF Inv
<1>8. /\ StepsAt(t)' \notin {C1, D1, U1, U3} /\ ~KnowsEntry(t) /\ ~Creator(t)' /\ ~Creator(t)
      /\ StepsAt(t) = U1 =>
            /\ User(t) /\ ~HoldsBlock(t) /\ ~Holder(t)
            /\ ~Holder(t)' /\ ~HoldsBlock(t)' /\ ~KnowsEntry(t)'
      /\ StepsAt(t) = D1 =>
            /\ Holder(t) /\ HoldsBlock(t) /\ ~User(t)
            /\ Holder(t)' /\ HoldsBlock(t)' /\ KnowsEntry(t)' /\ ~User(t)' /\ StepsAt(t)' # U2
  BY <1>1, <1>6, StageFacts DEF Holder, Creator, User, HoldsBlock, KnowsEntry
<1> HIDE DEF b
<1>9. OneHolder'
  BY <1>0, <1>1, <1>6, <1>8, OthersKeep DEF OneHolder
<1>10. Entries'
  BY <1>0, <1>1, <1>2, <1>6, <1>8, OthersKeep, SMTT(60) DEF Entries, HasEntry
<1>11. Blocks'
  BY <1>0, <1>1, <1>6, <1>8, OthersKeep DEF Blocks, b
<1>12. Users'
  <2>1. StepsAt(t) = U1 => \A c \in DOMAIN owned :
           owned[c].object = calls[t].made => c = b /\ owned[c].kind = calls[t].kind
    BY <1>0, <1>2 DEF OneHolder
  <2>2. heap[b] \in DOMAIN handles[calls[t].kind] => handles[calls[t].kind][heap[b]] = calls[t].made
    BY <1>2 DEF HasEntry
  <2> QED
    BY <1>0, <1>1, <1>3, <1>6, <1>8, <2>1, <2>2, OthersKeep DEF Users
<1>13. Accounted'
  <2>1. \A k \in Kind : \A id \in DOMAIN handles[k] :
           StepsAt(t) = D1 /\ calls[t].kind = k /\ heap[b] = id =>
              /\ calls'[t].kind = k /\ KnowsEntry(t)' /\ calls'[t].id = id
    BY <1>6, <1>8
  <2> QED
    BY <1>0, <1>1, <1>6, <1>8, <2>1, OthersKeep DEF Accounted, b
<1> QED
  BY <1>7, <1>9, <1>10, <1>11, <1>12, <1>13 DEF Inv

\* A look-up finds the object, or nothing if it has no handle any more.
LEMMA LookupInv ==
    ASSUME Inv, NEW t \in Thread, Lookup(t)
    PROVE  Inv'
<1>0. CallsTyped /\ TablesTyped /\ OwnedTyped /\ OneHolder /\ Entries /\ Blocks /\ Users /\ Accounted
  BY DEF Inv, Typed
<1> DEFINE table == handles[calls[t].kind]
           found == IF calls[t].id \in DOMAIN table THEN table[calls[t].id] ELSE 0
           locals == [calls[t] EXCEPT !.found = found]
<1>1. /\ StepsAt(t) = U2 /\ ~Idle(t) /\ calls[t] \in Call
      /\ Proceed(t, locals)
      /\ UNCHANGED <<nextHandleID, handles, heap, objects, owned>>
  BY <1>0, StageAt DEF Lookup, At, CallsTyped
<1>2. calls[t].kind \in Kind /\ calls[t].id \in Nat
  BY <1>1 DEF Call
\* An object that has a handle has its entry, so a failed look-up means no handle.
<1>3. /\ found \in Nat
      /\ \/ found = calls[t].made
         \/ found = 0 /\ \A c \in DOMAIN owned : owned[c].object # calls[t].made
  <2>1. CASE calls[t].id \in DOMAIN table
    <3>1. found = table[calls[t].id] /\ table[calls[t].id] \in Nat
      BY <1>0, <1>2, <2>1 DEF TablesTyped
    <3>2. table[calls[t].id] = calls[t].made
      BY <1>0, <1>1, <2>1 DEF Users
    <3> QED
      BY <3>1, <3>2
  <2>2. CASE calls[t].id \notin DOMAIN table
    <3>1. found = 0
      BY <2>2
    <3>2. ASSUME NEW c \in DOMAIN owned, owned[c].object = calls[t].made
          PROVE  FALSE
      <4>1. owned[c].kind = calls[t].kind /\ heap[c] = calls[t].id
        BY <1>0, <1>1, <3>2 DEF Users
      <4>2. heap[c] \in DOMAIN handles[owned[c].kind]
        BY <1>0 DEF Entries, HasEntry
      <4> QED
        BY <2>2, <4>1, <4>2
    <3> QED
      BY <3>1, <3>2
  <2> QED
    BY <2>1, <2>2
<1> HIDE DEF found, table
<1>4. /\ locals \in Call /\ locals.steps = StepsAt(t) /\ locals.id = calls[t].id
      /\ locals.kind = calls[t].kind /\ locals.block = calls[t].block
      /\ locals.made = calls[t].made /\ locals.found = found
  BY <1>1, <1>3 DEF Call, StepsAt
<1> HIDE DEF locals
<1>5. /\ calls' \in [Thread -> Call] /\ Others(t) /\ StepsAt(t)' = U3
      /\ calls'[t].kind = calls[t].kind /\ calls'[t].id = calls[t].id
      /\ calls'[t].found = found /\ calls'[t].made = calls[t].made
  <2>1. Len(StepsAt(t)) # 1 /\ Tail(StepsAt(t)) = U3
    BY <1>1, StageFacts
  <2> QED
    BY <1>0, <1>1, <1>4, <2>1, Proceeding
<1>6. Typed'
  <2>1. 1 <= calls[t].made /\ calls[t].made <= objects
    BY <1>0, <1>1, StageFacts DEF CallsTyped
  <2> QED
    BY <1>1, <1>5, <2>1, TypesKept DEF Inv
<1>7. /\ StepsAt(t)' \notin {C1, D1, U1, U2} /\ StepsAt(t) # D1
      /\ User(t) /\ ~Holder(t) /\ ~KnowsEntry(t) /\ ~HoldsBlock(t)
      /\ ~Holder(t)' /\ ~Creator(t)' /\ ~HoldsBlock(t)' /\ ~KnowsEntry(t)'
  BY <1>1, <1>5, StageFacts DEF Holder, Creator, User, HoldsBlock, KnowsEntry
<1>8. OneHolder'
  BY <1>0, <1>1, <1>5, <1>7, OthersKeep DEF OneHolder
<1>9. Entries'
  BY <1>0, <1>1, <1>5, <1>7, OthersKeep DEF Entries, HasEntry
<1>10. Blocks'
  BY <1>0, <1>1, <1>5, <1>7, OthersKeep DEF Blocks
<1>11. Users'
  BY <1>0, <1>1, <1>3, <1>5, <1>7, OthersKeep DEF Users
<1>12. Accounted'
  BY <1>0, <1>1, <1>5, <1>7, OthersKeep DEF Accounted
<1> QED
  BY <1>6, <1>8, <1>9, <1>10, <1>11, <1>12 DEF Inv

\* A use ends.
LEMMA OperateInv ==
    ASSUME Inv, NEW t \in Thread, Operate(t)
    PROVE  Inv'
<1>0. CallsTyped /\ TablesTyped /\ OwnedTyped /\ OneHolder /\ Entries /\ Blocks /\ Users /\ Accounted
  BY DEF Inv, Typed
<1>1. /\ StepsAt(t) = U3 /\ ~Idle(t) /\ calls[t] \in Call /\ Proceed(t, calls[t])
      /\ UNCHANGED <<nextHandleID, handles, heap, objects, owned>>
  BY <1>0, StageAt DEF Operate, At, CallsTyped
<1>2. calls' \in [Thread -> Call] /\ Others(t) /\ StepsAt(t)' = <<>>
  <2>1. Len(StepsAt(t)) = 1 /\ calls[t].steps = StepsAt(t)
    BY <1>1, StageFacts DEF StepsAt
  <2> QED
    BY <1>0, <1>1, <2>1, Proceeding
<1>3. Typed'
  BY <1>1, <1>2, TypesKept DEF Inv
<1>4. /\ ~KnowsEntry(t) /\ StepsAt(t) # D1
      /\ ~Holder(t)' /\ ~Creator(t)' /\ ~User(t)' /\ ~HoldsBlock(t)' /\ ~KnowsEntry(t)'
      /\ StepsAt(t)' \notin {C1, D1, U1, U2, U3}
  BY <1>1, <1>2, StageFacts DEF Holder, Creator, User, HoldsBlock, KnowsEntry
<1>5. OneHolder'
  BY <1>0, <1>1, <1>2, <1>4, OthersKeep DEF OneHolder
<1>6. Entries'
  BY <1>0, <1>1, <1>2, <1>4, OthersKeep DEF Entries, HasEntry
<1>7. Blocks'
  BY <1>0, <1>1, <1>2, <1>4, OthersKeep DEF Blocks
<1>8. Users'
  BY <1>0, <1>1, <1>2, <1>4, OthersKeep DEF Users
<1>9. Accounted'
  BY <1>0, <1>1, <1>2, <1>4, OthersKeep DEF Accounted
<1> QED
  BY <1>3, <1>5, <1>6, <1>7, <1>8, <1>9 DEF Inv

\* A destruction takes block and entry over from the caller.
LEMMA BeginDestroyInv ==
    ASSUME Inv, NEW t \in Thread, NEW b \in Block, BeginDestroy(t, b)
    PROVE  Inv'
<1>0. CallsTyped /\ TablesTyped /\ OwnedTyped /\ OneHolder /\ Entries /\ Blocks /\ Users /\ Accounted
  BY DEF Inv, Typed
<1>1. /\ StepsAt(t) = <<>> /\ b \in DOMAIN owned
      /\ calls' = [calls EXCEPT ![t] = NewCall("destroy", owned[b].kind, b, owned[b].object)]
      /\ owned' = Without(owned, b)
      /\ UNCHANGED <<nextHandleID, handles, heap, objects>>
  BY <1>0, StageAt DEF BeginDestroy
<1>2. /\ owned[b].kind \in Kind /\ owned[b].object \in Nat
      /\ 1 <= owned[b].object /\ owned[b].object <= objects
  BY <1>0, <1>1 DEF OwnedTyped
<1>3. /\ calls' \in [Thread -> Call] /\ Others(t) /\ StepsAt(t)' = D1
      /\ calls'[t].kind = owned[b].kind /\ calls'[t].block = b
      /\ calls'[t].made = owned[b].object
  <2> DEFINE kind == owned[b].kind
             object == owned[b].object
  <2>1. /\ kind \in Kind /\ object \in Nat
        /\ calls' = [calls EXCEPT ![t] = NewCall("destroy", kind, b, object)]
    BY <1>1, <1>2
  <2> HIDE DEF kind, object
  <2>2. /\ calls' \in [Thread -> Call] /\ Others(t) /\ StepsAt(t)' = D1
        /\ calls'[t].kind = kind /\ calls'[t].block = b /\ calls'[t].made = object
    BY <1>0, <2>1, Beginning
  <2> QED
    BY <2>2 DEF kind, object
<1>4. DOMAIN owned' = DOMAIN owned \ {b} /\ \A c \in DOMAIN owned' : owned'[c] = owned[c]
  BY <1>1 DEF Without
<1>5. Typed'
  <2>1. CallsTyped'
    BY <1>0, <1>1, <1>2, <1>3, CallsStayTyped DEF CallsTyped
  <2>2. TablesTyped' /\ OwnedTyped'
    BY <1>0, <1>1, <1>4 DEF TablesTyped, OwnedTyped
  <2> QED
    BY <2>1, <2>2 DEF Typed
<1>6. /\ ~Holder(t) /\ ~KnowsEntry(t) /\ ~HoldsBlock(t) /\ StepsAt(t) # D1
      /\ Holder(t)' /\ ~Creator(t)' /\ ~User(t)' /\ HoldsBlock(t)' /\ ~KnowsEntry(t)'
      /\ StepsAt(t)' \notin {C1, U1, U2, U3}
  BY <1>1, <1>3, StageFacts DEF Holder, Creator, User, HoldsBlock, KnowsEntry
<1>7. OneHolder'
  BY <1>0, <1>1, <1>3, <1>4, <1>6, OthersKeep DEF OneHolder
<1>8. Entries'
  BY <1>0, <1>1, <1>3, <1>4, <1>6, OthersKeep, SMTT(60) DEF Entries, HasEntry
<1>9. Blocks'
  <2>1. b \in DOMAIN heap /\ b \notin DOMAIN owned'
    BY <1>0, <1>1, <1>4 DEF Entries
  <2>2. \A u \in Thread : HoldsBlock(u) => calls[u].block # b
    BY <1>0, <1>1 DEF Blocks
  <2> QED
    BY <1>0, <1>1, <1>3, <1>4, <1>6, <2>1, <2>2, OthersKeep DEF Blocks
<1>10. Users'
  \* The callers' part: no one has yet to read the number of this handle.
  <2>1. ASSUME NEW u \in Thread, u # t, StepsAt(u) = U1
        PROVE  calls[u].block # b
    <3>0. owned[calls[u].block] = [kind |-> calls[u].kind, object |-> calls[u].made]
      BY <1>0, <2>1 DEF Users
    <3>1. calls[u].block = b => calls[u].made = owned[b].object
      BY <3>0
    <3>2. At(u, "read")
      BY <1>0, <2>1, StageAt
    <3> QED
      BY <3>1, <3>2 DEF BeginDestroy, IsFor
  <2> QED
    BY <1>0, <1>1, <1>3, <1>4, <1>6, <2>1, OthersKeep DEF Users
<1>11. Accounted'
  <2> SUFFICES ASSUME NEW k \in Kind, NEW id \in DOMAIN handles[k]
               PROVE  \/ \E c \in DOMAIN owned' :
                            owned'[c] = [kind |-> k, object |-> handles[k][id]] /\ heap'[c] = id
                      \/ \E u \in Thread :
                            /\ calls'[u].kind = k
                            /\ \/ KnowsEntry(u)' /\ calls'[u].id = id
                               \/ StepsAt(u)' = D1 /\ heap'[calls'[u].block] = id
    BY <1>1 DEF Accounted
  <2>1. CASE owned[b] = [kind |-> k, object |-> handles[k][id]] /\ heap[b] = id
    BY <1>1, <1>3, <2>1
  <2>2. CASE ~(owned[b] = [kind |-> k, object |-> handles[k][id]] /\ heap[b] = id)
    BY <1>0, <1>1, <1>3, <1>4, <1>6, <2>2, OthersKeep DEF Accounted
  <2> QED
    BY <2>1, <2>2
<1> QED
  BY <1>5, <1>7, <1>8, <1>9, <1>10, <1>11 DEF Inv

\* The end of a destruction's entry, or of a creation's whose malloc has failed.
LEMMA RemoveInv ==
    ASSUME Inv, NEW t \in Thread, Remove(t)
    PROVE  Inv'
<1>0. CallsTyped /\ TablesTyped /\ OwnedTyped /\ OneHolder /\ Entries /\ Blocks /\ Users /\ Accounted
  BY DEF Inv, Typed
<1> DEFINE k == calls[t].kind
           id == calls[t].id
<1>1. /\ StepsAt(t) \in {D2, R1} /\ ~Idle(t) /\ calls[t] \in Call /\ k \in Kind
      /\ handles' = [handles EXCEPT ![k] = Without(@, id)]
      /\ Proceed(t, calls[t])
      /\ UNCHANGED <<nextHandleID, heap, objects, owned>>
  BY <1>0, StageAt DEF Remove, At, CallsTyped, Call
<1>2. /\ calls' \in [Thread -> Call] /\ Others(t)
      /\ StepsAt(t)' = IF StepsAt(t) = D2 THEN D3 ELSE <<>>
      /\ StepsAt(t) = D2 => /\ calls'[t].block = calls[t].block
                            /\ calls'[t].made = calls[t].made
  <2>1. /\ StepsAt(t) = D2 => Len(StepsAt(t)) # 1 /\ Tail(StepsAt(t)) = D3
        /\ StepsAt(t) # D2 => Len(StepsAt(t)) = 1
    BY <1>1, StageFacts
  <2>2. calls[t].steps = StepsAt(t)
    BY DEF StepsAt
  <2> QED
    BY <1>0, <1>1, <2>1, <2>2, Proceeding
<1>3. /\ Holder(t) /\ KnowsEntry(t) /\ StepsAt(t) # D1
      /\ ~Creator(t)' /\ ~User(t)' /\ ~KnowsEntry(t)' /\ StepsAt(t)' \notin {C1, D1, U1, U2, U3}
      /\ Holder(t)' <=> StepsAt(t) = D2
      /\ HoldsBlock(t)' <=> StepsAt(t) = D2
      /\ HoldsBlock(t) <=> StepsAt(t) = D2
  BY <1>1, <1>2, StageFacts DEF Holder, Creator, User, HoldsBlock, KnowsEntry
<1>4. HasEntry(k, id, calls[t].made)
  BY <1>0, <1>3 DEF Entries
<1>5. /\ DOMAIN handles' = Kind
      /\ DOMAIN handles'[k] = DOMAIN handles[k] \ {id}
      /\ \A other \in Kind : other # k => handles'[other] = handles[other]
      /\ \A i \in DOMAIN handles'[k] : handles'[k][i] = handles[k][i]
  BY <1>0, <1>1 DEF TablesTyped, Without
<1> HIDE DEF k, id
<1>6. \A kind \in Kind : \A i \in DOMAIN handles'[kind] :
         i \in DOMAIN handles[kind] /\ handles'[kind][i] = handles[kind][i]
  BY <1>5
<1>7. \A kind \in Kind : \A i, object :
         HasEntry(kind, i, object) /\ object # calls[t].made => HasEntry(kind, i, object)'
  BY <1>4, <1>5 DEF HasEntry
<1>8. Typed'
  <2>0. objects \in Nat /\ 1 <= calls[t].made /\ calls[t].made <= objects
    BY <1>0, <1>1, StageFacts DEF CallsTyped
  <2>1. CallsTyped'
    BY <1>0, <1>1, <1>2, <2>0, CallsStayTyped
  <2>2. TablesTyped'
    BY <1>0, <1>1, <1>5, <1>6 DEF TablesTyped
  <2>3. OwnedTyped'
    BY <1>0, <1>1 DEF OwnedTyped
  <2> QED
    BY <2>1, <2>2, <2>3 DEF Typed
<1>9. OneHolder'
  BY <1>0, <1>1, <1>2, <1>3, OthersKeep DEF OneHolder
<1>10. Entries'
  <2>1. \A b \in DOMAIN owned' :
           b \in DOMAIN heap' /\ HasEntry(owned[b].kind, heap[b], owned[b].object)'
    <3>1. \A b \in DOMAIN owned : owned[b].kind \in Kind /\ owned[b].object # calls[t].made
      BY <1>0, <1>3 DEF OneHolder, OwnedTyped
    <3> QED
      BY <1>0, <1>1, <1>7, <3>1 DEF Entries, HasEntry
  <2>2. ASSUME NEW u \in Thread, u # t, KnowsEntry(u) \/ StepsAt(u) = D1
        PROVE  calls[u].made # calls[t].made /\ calls[u].kind \in Kind
    BY <1>0, <1>3, <2>2 DEF OneHolder, Holder, KnowsEntry, CallsTyped, Call
  <2>3. ASSUME NEW u \in Thread, u # t
        PROVE  /\ KnowsEntry(u)' => HasEntry(calls[u].kind, calls[u].id, calls[u].made)'
               /\ StepsAt(u)' = D1 => HasEntry(calls[u].kind, heap[calls[u].block], calls[u].made)'
               /\ StepsAt(u)' = C1 =>
                    \A kind \in Kind : \A i \in DOMAIN handles'[kind] :
                        handles'[kind][i] # calls'[u].made
    <3>1. /\ calls'[u] = calls[u] /\ StepsAt(u)' = StepsAt(u) /\ KnowsEntry(u)' = KnowsEntry(u)
      BY <1>2, <2>3, OthersKeep
    <3>2. ASSUME KnowsEntry(u)'
          PROVE  HasEntry(calls[u].kind, calls[u].id, calls[u].made)'
      <4>1. calls[u].made # calls[t].made /\ calls[u].kind \in Kind
        BY <2>2, <2>3, <3>1, <3>2
      <4>2. HasEntry(calls[u].kind, calls[u].id, calls[u].made)
        BY <1>0, <3>1, <3>2 DEF Entries
      <4> QED
        BY <1>7, <3>1, <4>1, <4>2 DEF HasEntry
    <3>3. ASSUME StepsAt(u)' = D1
          PROVE  HasEntry(calls[u].kind, heap[calls[u].block], calls[u].made)'
      <4>1. calls[u].made # calls[t].made /\ calls[u].kind \in Kind
        BY <2>2, <2>3, <3>1, <3>3
      <4>2. HasEntry(calls[u].kind, heap[calls[u].block], calls[u].made)
        BY <1>0, <3>1, <3>3 DEF Entries
      <4> QED
        BY <1>1, <1>7, <3>1, <4>1, <4>2 DEF HasEntry
    <3> QED
      BY <1>0, <1>6, <3>1, <3>2, <3>3 DEF Entries
  <2>4. \A kind \in Kind : \A i, j \in DOMAIN handles'[kind] :
           handles'[kind][i] = handles'[kind][j] => i = j
    BY <1>0, <1>6 DEF Entries
  <2> QED
    BY <1>3, <2>1, <2>3, <2>4 DEF Entries
<1>11. Blocks'
  BY <1>0, <1>1, <1>2, <1>3, OthersKeep DEF Blocks
<1>12. Users'
  <2>1. ASSUME NEW u \in Thread, StepsAt(u) \in {U2, U3},
               calls[u].id \in DOMAIN handles'[calls[u].kind]
        PROVE  handles'[calls[u].kind][calls[u].id] = calls[u].made
    <3>1. calls[u].kind \in Kind
      BY <1>0 DEF CallsTyped, Call
    <3>2. /\ calls[u].id \in DOMAIN handles[calls[u].kind]
          /\ handles'[calls[u].kind][calls[u].id] = handles[calls[u].kind][calls[u].id]
      BY <1>6, <2>1, <3>1
    <3> QED
      BY <1>0, <2>1, <3>2 DEF Users
  <2> QED
    BY <1>0, <1>1, <1>2, <1>3, <2>1, OthersKeep DEF Users
<1>13. Accounted'
  <2> SUFFICES ASSUME NEW kind \in Kind, NEW i \in DOMAIN handles'[kind]
               PROVE  \/ \E c \in DOMAIN owned :
                            owned[c] = [kind |-> kind, object |-> handles[kind][i]] /\ heap[c] = i
                      \/ \E u \in Thread :
                            /\ calls'[u].kind = kind
                            /\ \/ KnowsEntry(u)' /\ calls'[u].id = i
                               \/ StepsAt(u)' = D1 /\ heap[calls'[u].block] = i
    BY <1>1, <1>6 DEF Accounted
  <2>1. i \in DOMAIN handles[kind] /\ ~(kind = k /\ i = id)
    BY <1>5, <1>6
  <2> QED
    BY <1>0, <1>2, <1>3, <2>1, OthersKeep DEF Accounted, k, id
<1> QED
  BY <1>8, <1>9, <1>10, <1>11, <1>12, <1>13 DEF Inv

\* The block goes, and no one else refers to it.
LEMMA FreeInv ==
    ASSUME Inv, NEW t \in Thread, Free(t)
    PROVE  Inv'
<1>0. CallsTyped /\ TablesTyped /\ OwnedTyped /\ OneHolder /\ Entries /\ Blocks /\ Users /\ Accounted
  BY DEF Inv, Typed
<1> DEFINE b == calls[t].block
<1>1. /\ StepsAt(t) = D3 /\ ~Idle(t) /\ calls[t] \in Call
      /\ heap' = Without(heap, b) /\ Proceed(t, calls[t])
      /\ UNCHANGED <<nextHandleID, handles, objects, owned>>
  BY <1>0, StageAt DEF Free, At, CallsTyped
<1>2. calls' \in [Thread -> Call] /\ Others(t) /\ StepsAt(t)' = <<>>
  <2>1. Len(StepsAt(t)) = 1 /\ calls[t].steps = StepsAt(t)
    BY <1>1, StageFacts DEF StepsAt
  <2> QED
    BY <1>0, <1>1, <2>1, Proceeding
<1>3. Typed'
  BY <1>1, <1>2, TypesKept DEF Inv
<1>4. /\ HoldsBlock(t) /\ ~KnowsEntry(t) /\ StepsAt(t) # D1
      /\ ~Holder(t)' /\ ~Creator(t)' /\ ~User(t)' /\ ~HoldsBlock(t)' /\ ~KnowsEntry(t)'
      /\ StepsAt(t)' \notin {C1, D1, U1, U2, U3}
  BY <1>1, <1>2, StageFacts DEF Holder, Creator, User, HoldsBlock, KnowsEntry
<1>5. DOMAIN heap' = DOMAIN heap \ {b} /\ \A c \in DOMAIN heap' : heap'[c] = heap[c]
  BY <1>1 DEF Without
<1>6. \A c \in DOMAIN owned : c \in DOMAIN heap' /\ heap'[c] = heap[c]
  BY <1>0, <1>4, <1>5 DEF Entries, Blocks
<1>7. \A u \in Thread : u # t /\ HoldsBlock(u) =>
         calls[u].block \in DOMAIN heap' /\ heap'[calls[u].block] = heap[calls[u].block]
  BY <1>0, <1>4, <1>5 DEF Blocks
<1>8. \A u \in Thread : StepsAt(u) = D1 => HoldsBlock(u) /\ u # t
  BY <1>4 DEF HoldsBlock
<1> HIDE DEF b
<1>9. OneHolder'
  BY <1>0, <1>1, <1>2, <1>4, OthersKeep DEF OneHolder
<1>10. Entries'
  BY <1>0, <1>1, <1>2, <1>4, <1>6, <1>7, <1>8, OthersKeep DEF Entries, HasEntry
<1>11. Blocks'
  BY <1>0, <1>1, <1>2, <1>4, <1>7, OthersKeep DEF Blocks
<1>12. Users'
  BY <1>0, <1>1, <1>2, <1>4, <1>6, OthersKeep DEF Users
<1>13. Accounted'
  BY <1>0, <1>1, <1>2, <1>4, <1>6, <1>7, <1>8, OthersKeep DEF Accounted
<1> QED
  BY <1>3, <1>9, <1>10, <1>11, <1>12, <1>13 DEF Inv

\* The invariant speaks of the variables only.
LEMMA StutterInv ==
    ASSUME Inv, UNCHANGED vars
    PROVE  Inv'
BY DEF vars, Inv, Typed, CallsTyped, TablesTyped, OwnedTyped, OneHolder, Entries, HasEntry, Blocks,
       Users, Accounted, StepsAt, Creator, User, Holder, HoldsBlock, KnowsEntry

\* The inductive invariant holds for every set of threads and blocks
\* (golang/cabi/main.go, the creations, uses and destructions of both kinds).
THEOREM InvariantHolds == Spec => []Inv
<1>1. ASSUME Inv, [Next]_vars
      PROVE  Inv'
  <2>1. CASE UNCHANGED vars
    BY <1>1, <2>1, StutterInv
  <2>2. CASE Next
    BY <1>1, <2>2, BeginCreateInv, RegisterInv, MallocInv, MallocFailsInv, WriteHandleInv,
       BeginUseInv, ReadHandleInv, LookupInv, OperateInv, BeginDestroyInv, RemoveInv, FreeInv
       DEF Next
  <2> QED
    BY <1>1, <2>1, <2>2
<1> QED
  BY <1>1, InitInv, PTL DEF Spec

(***************************************************************************)
(* Numbers are given out one for each object that is registered, so they   *)
(* never run ahead of the objects, however the threads take turns.         *)
(***************************************************************************)
Registering == {t \in Thread : StepsAt(t) = C1}

NumbersCount ==
    /\ IsFiniteSet(Registering)
    /\ nextHandleID + Cardinality(Registering) = objects + 1
    /\ objects <= MaxObjects

\* A block has a number that has been given out, or 0.
HeapTyped ==
    /\ DOMAIN heap \subseteq Block
    /\ \A b \in DOMAIN heap : heap[b] \in Nat /\ heap[b] < nextHandleID

Counted == NumbersCount /\ HeapTyped

\* A step of a call that has its number, whatever it learns.
LEMMA ProceedPast ==
    ASSUME CallsTyped, NEW t \in Thread, NEW locals, "steps" \in DOMAIN locals,
           locals.steps = StepsAt(t), StepsAt(t) \notin {<<>>, C1}, Proceed(t, locals)
    PROVE  Registering' = Registering
<1>1. StepsAt(t) \in Stages /\ calls \in [Thread -> Call]
  BY DEF CallsTyped, Call, StepsAt
<1>2. Len(StepsAt(t)) # 1 => Tail(StepsAt(t)) # C1
  BY <1>1, StageFacts DEF Stages
<1> DEFINE next == [locals EXCEPT !.steps = Tail(StepsAt(t))]
<1>3. next.steps = Tail(StepsAt(t)) /\ NoCall.steps = <<>>
  BY DEF NoCall
<1> HIDE DEF next
<1>4. calls' = [calls EXCEPT ![t] = IF Len(StepsAt(t)) = 1 THEN NoCall ELSE next]
  BY DEF Proceed, StepsAt, next
<1>5. Others(t) /\ StepsAt(t)' # C1
  BY <1>1, <1>2, <1>3, <1>4, StageFacts DEF Others, StepsAt
<1> QED
  BY <1>5, OthersKeep DEF Registering

\* Every step but the two that begin and end the wait for a number.
LEMMA RegisteringKept ==
    ASSUME Inv, NEW t \in Thread,
           \/ Malloc(t) \/ MallocFails(t) \/ WriteHandle(t) \/ ReadHandle(t) \/ Lookup(t)
           \/ Operate(t) \/ Remove(t) \/ Free(t)
           \/ \E b \in Block : BeginUse(t, b) \/ BeginDestroy(t, b)
    PROVE  Registering' = Registering /\ UNCHANGED <<nextHandleID, objects>>
<1>0. /\ CallsTyped /\ calls \in [Thread -> Call] /\ calls[t] \in Call
      /\ "steps" \in DOMAIN calls[t] /\ calls[t].steps = StepsAt(t)
  BY DEF Inv, Typed, CallsTyped, Call, StepsAt
<1>1. ASSUME NEW locals, Proceed(t, locals),
             "steps" \in DOMAIN locals, locals.steps = StepsAt(t),
             NEW step, step # "register", At(t, step)
      PROVE  Registering' = Registering
  <2>1. StepsAt(t) \notin {<<>>, C1}
    BY <1>1, StageFacts DEF At, Idle, StepsAt
  <2> QED
    BY <1>0, <1>1, <2>1, ProceedPast
<1>2. CASE Malloc(t)
  <2>1. PICK b \in Block : Proceed(t, [calls[t] EXCEPT !.block = b])
    BY <1>2 DEF Malloc
  <2>2. Registering' = Registering
    BY <1>0, <1>1, <1>2, <2>1 DEF Malloc
  <2> QED
    BY <1>2, <2>2 DEF Malloc
<1>3. CASE MallocFails(t)
  <2>1. StepsAt(t) = C2 /\ calls' = [calls EXCEPT ![t].steps = R1]
        /\ UNCHANGED <<nextHandleID, objects>>
    BY <1>0, <1>3, StageAt DEF MallocFails, R1
  <2>2. Others(t) /\ StepsAt(t) # C1 /\ StepsAt(t)' # C1
    BY <1>0, <2>1, StageFacts DEF Others, StepsAt, Call
  <2> QED
    BY <2>1, <2>2, OthersKeep DEF Registering
<1>4. CASE WriteHandle(t) \/ Operate(t) \/ Remove(t) \/ Free(t)
  <2>1. /\ Proceed(t, calls[t]) /\ UNCHANGED <<nextHandleID, objects>>
        /\ At(t, "write") \/ At(t, "operate") \/ At(t, "remove") \/ At(t, "free")
    BY <1>4 DEF WriteHandle, Operate, Remove, Free
  <2> QED
    BY <1>0, <1>1, <2>1
<1>5. CASE ReadHandle(t) \/ Lookup(t)
  <2>1. /\ At(t, "read") \/ At(t, "lookup")
        /\ \/ \E number : Proceed(t, [calls[t] EXCEPT !.id = number])
           \/ \E object : Proceed(t, [calls[t] EXCEPT !.found = object])
        /\ UNCHANGED <<nextHandleID, objects>>
    BY <1>5 DEF ReadHandle, Lookup
  <2>2. /\ \A number : /\ "steps" \in DOMAIN [calls[t] EXCEPT !.id = number]
                        /\ [calls[t] EXCEPT !.id = number].steps = StepsAt(t)
        /\ \A object : /\ "steps" \in DOMAIN [calls[t] EXCEPT !.found = object]
                        /\ [calls[t] EXCEPT !.found = object].steps = StepsAt(t)
    BY <1>0
  <2>3. Registering' = Registering
    BY <1>1, <2>1, <2>2
  <2> QED
    BY <2>1, <2>3
<1>6. ASSUME NEW b \in Block, BeginUse(t, b) \/ BeginDestroy(t, b)
      PROVE  Registering' = Registering /\ UNCHANGED <<nextHandleID, objects>>
  <2>1. /\ StepsAt(t) = <<>> /\ UNCHANGED <<nextHandleID, objects>>
        /\ \/ calls' = [calls EXCEPT ![t] = NewCall("use", owned[b].kind, b, owned[b].object)]
           \/ calls' = [calls EXCEPT ![t] = NewCall("destroy", owned[b].kind, b, owned[b].object)]
    BY <1>0, <1>6, StageAt DEF BeginUse, BeginDestroy
  <2>2. \A operation \in {"use", "destroy"} : \A kind, object :
           NewCall(operation, kind, b, object).steps # C1
    BY StageFacts DEF NewCall, NoCall, Steps, U1, D1
  <2>3. Others(t) /\ StepsAt(t)' # C1
    BY <1>0, <2>1, <2>2 DEF Others, StepsAt
  <2> QED
    BY <2>1, <2>3, OthersKeep, StageFacts DEF Registering
<1> QED
  BY <1>2, <1>3, <1>4, <1>5, <1>6

\* Each step keeps the count of numbers.
LEMMA NumbersCountKept ==
    ASSUME Inv, NumbersCount, Next
    PROVE  NumbersCount'
<1>0. CallsTyped /\ TablesTyped /\ nextHandleID \in Nat /\ objects \in Nat
  BY DEF Inv, Typed, CallsTyped, TablesTyped
<1>1. ASSUME NEW t \in Thread, NEW kind \in Kind, BeginCreate(t, kind)
      PROVE  NumbersCount'
  <2>1. /\ StepsAt(t) = <<>> /\ objects < MaxObjects /\ objects' = objects + 1
        /\ nextHandleID' = nextHandleID
        /\ calls' = [calls EXCEPT ![t] = NewCall("create", kind, Nil, objects + 1)]
    BY <1>0, <1>1, StageAt DEF BeginCreate
  <2>2. Others(t) /\ StepsAt(t)' = C1
    BY <1>0, <2>1, Beginning, objects + 1 \in Nat
  <2>3. Registering' = Registering \cup {t} /\ t \notin Registering
    BY <2>1, <2>2, OthersKeep, StageFacts DEF Registering
  <2>4. /\ IsFiniteSet(Registering')
        /\ Cardinality(Registering') = Cardinality(Registering) + 1
    BY <2>3, FS_AddElement DEF NumbersCount
  <2>5. Cardinality(Registering) \in Nat
    BY FS_CardinalityType DEF NumbersCount
  <2>6. objects + 1 <= MaxObjects
    BY <1>0, <2>1, ObjectAssumption
  <2> QED
    BY <1>0, <2>1, <2>4, <2>5, <2>6 DEF NumbersCount
<1>2. ASSUME NEW t \in Thread, Register(t)
      PROVE  NumbersCount'
  <2>1. /\ StepsAt(t) = C1 /\ objects' = objects /\ nextHandleID' = nextHandleID + 1
        /\ Proceed(t, [calls[t] EXCEPT !.id = nextHandleID])
    BY <1>0, <1>2, StageAt DEF Register, NewID
  <2>2. /\ [calls[t] EXCEPT !.id = nextHandleID] \in Call
        /\ [calls[t] EXCEPT !.id = nextHandleID].steps = StepsAt(t)
    BY <1>0 DEF CallsTyped, Call, StepsAt
  <2>3. Others(t) /\ StepsAt(t)' = C2
    <3>1. ~Idle(t) /\ Len(StepsAt(t)) # 1 /\ Tail(StepsAt(t)) = C2
      BY <2>1, StageFacts DEF Idle, StepsAt
    <3> QED
      BY <1>0, <2>1, <2>2, <3>1, Proceeding
  <2>4. Registering' = Registering \ {t} /\ t \in Registering
    BY <2>1, <2>3, OthersKeep, StageFacts DEF Registering
  <2>5. /\ IsFiniteSet(Registering')
        /\ Cardinality(Registering') = Cardinality(Registering) - 1
    BY <2>4, FS_RemoveElement DEF NumbersCount
  <2>6. Cardinality(Registering) \in Nat
    BY FS_CardinalityType DEF NumbersCount
  <2> QED
    BY <1>0, <2>1, <2>5, <2>6 DEF NumbersCount
<1> QED
  BY <1>1, <1>2, RegisteringKept DEF Next, NumbersCount

\* Each step leaves numbers that were given out in the blocks.
LEMMA HeapTypedKept ==
    ASSUME Inv, HeapTyped, Next
    PROVE  HeapTyped'
<1>0. /\ CallsTyped /\ TablesTyped /\ nextHandleID \in Nat /\ 1 <= nextHandleID
      /\ nextHandleID' \in {nextHandleID, nextHandleID + 1}
  <2>1. CallsTyped /\ TablesTyped /\ nextHandleID \in Nat /\ 1 <= nextHandleID
    BY DEF Inv, Typed, CallsTyped, TablesTyped
  <2>2. \/ UNCHANGED nextHandleID
        \/ \E t \in Thread : Register(t)
    BY RegisteringKept DEF Next, BeginCreate
  <2> QED
    BY <2>1, <2>2 DEF Register
<1>1. CASE heap' = heap
  BY <1>0, <1>1 DEF HeapTyped
<1>2. ASSUME NEW t \in Thread, Malloc(t)
      PROVE  HeapTyped'
  <2>1. PICK b \in Block \ DOMAIN heap : heap' = With(heap, b, 0)
    BY <1>2 DEF Malloc
  <2>2. /\ DOMAIN heap' = DOMAIN heap \cup {b} /\ heap'[b] = 0
        /\ \A c \in DOMAIN heap : heap'[c] = heap[c]
    BY <2>1 DEF With
  <2> QED
    BY <1>0, <2>2 DEF HeapTyped
<1>3. ASSUME NEW t \in Thread, WriteHandle(t)
      PROVE  HeapTyped'
  <2>1. StepsAt(t) = C3 /\ heap' = [heap EXCEPT ![calls[t].block] = calls[t].id]
    BY <1>0, <1>3, StageAt DEF WriteHandle
  <2>2. HasEntry(calls[t].kind, calls[t].id, calls[t].made) /\ calls[t].kind \in Kind
    BY <1>0, <2>1 DEF Inv, Entries, KnowsEntry, CallsTyped, Call
  <2>3. calls[t].id \in Nat /\ calls[t].id < nextHandleID
    BY <1>0, <2>2 DEF HasEntry, TablesTyped
  <2> QED
    BY <1>0, <2>1, <2>3 DEF HeapTyped
<1>4. ASSUME NEW t \in Thread, Free(t)
      PROVE  HeapTyped'
  <2>1. DOMAIN heap' \subseteq DOMAIN heap /\ \A c \in DOMAIN heap' : heap'[c] = heap[c]
    BY <1>4 DEF Free, Without
  <2> QED
    BY <1>0, <2>1 DEF HeapTyped
<1> QED
  BY <1>1, <1>2, <1>3, <1>4
     DEF Next, BeginCreate, Register, MallocFails, BeginUse, ReadHandle, Lookup, Operate,
         BeginDestroy, Remove

\* The bound of the numbers (the types of golang/cabi/main.go's tables, blocks and counter).
THEOREM HandlesTypeCorrect == Spec => []TypeOK
<1>1. Init => Counted
  <2> SUFFICES ASSUME Init
               PROVE  Counted
    OBVIOUS
  <2>1. Registering = {}
    BY StageFacts DEF Init, Registering, StepsAt, NoCall
  <2>2. HeapTyped
    BY DEF Init, HeapTyped
  <2>3. NumbersCount
    BY <2>1, FS_EmptySet, ObjectAssumption DEF Init, NumbersCount
  <2> QED
    BY <2>2, <2>3 DEF Counted
<1>2. ASSUME Inv, Counted, [Next]_vars
      PROVE  Counted'
  <2>1. CASE Next
    BY <1>2, <2>1, NumbersCountKept, HeapTypedKept DEF Counted
  <2>2. CASE UNCHANGED vars
    BY <1>2, <2>2 DEF vars, Counted, NumbersCount, HeapTyped, Registering, StepsAt
  <2> QED
    BY <1>2, <2>1, <2>2
<1>3. ASSUME Inv, Counted
      PROVE  TypeOK
  <2>1. /\ nextHandleID \in Nat /\ 1 <= nextHandleID /\ nextHandleID <= MaxObjects + 1
        /\ objects \in 0 .. MaxObjects
    <3>1. Cardinality(Registering) \in Nat
      BY <1>3, FS_CardinalityType DEF Counted, NumbersCount
    <3> QED
      BY <1>3, <3>1, ObjectAssumption
         DEF Inv, Typed, CallsTyped, TablesTyped, Counted, NumbersCount
  <2>2. ASSUME NEW k \in Kind, NEW id \in DOMAIN handles[k]
        PROVE  id \in HandleID /\ handles[k][id] \in Object
    BY <1>3, <2>1, <2>2, ObjectAssumption DEF Inv, Typed, TablesTyped, HandleID, Object
  <2>3. DOMAIN heap \subseteq Block /\ \A b \in DOMAIN heap : heap[b] \in 0 .. MaxObjects
    BY <1>3, <2>1, ObjectAssumption DEF Counted, HeapTyped
  <2>4. DOMAIN owned \subseteq DOMAIN heap
    BY <1>3 DEF Inv, Entries
  <2> QED
    BY <2>1, <2>2, <2>3, <2>4, ObjectAssumption DEF TypeOK
<1> QED
  BY <1>1, <1>2, <1>3, InvariantHolds, PTL DEF Spec

(***************************************************************************)
(* What callers see.                                                       *)
(***************************************************************************)
\* A call reaches the object its handle was created for, or none when the handle
\* has been destroyed meanwhile (getStreamHandle, getReassemblerHandle).
THEOREM HandlesReachTheirObjects == Spec => []OwnState
<1>1. Inv => OwnState
  <2> SUFFICES ASSUME Inv, NEW t \in Thread, At(t, "operate")
               PROVE  \/ calls[t].found = calls[t].made
                      \/ calls[t].found = 0 /\ \A b \in DOMAIN owned : ~IsFor(t, b)
    BY DEF OwnState
  <2>1. StepsAt(t) = U3
    BY StageAt DEF Inv, Typed
  <2> QED
    BY <2>1 DEF Inv, Users, IsFor
<1> QED
  BY <1>1, InvariantHolds, PTL

\* The entry of a handle in use stays, and no entry is forgotten
\* (newStreamHandle, deleteStreamHandle and their twins).
THEOREM EntriesKept == Spec => []EntriesAccounted
<1>1. Inv => EntriesAccounted
  <2> SUFFICES ASSUME Inv
               PROVE  EntriesAccounted
    OBVIOUS
  <2>1. \A b \in DOMAIN owned :
           /\ heap[b] \in DOMAIN handles[owned[b].kind]
           /\ handles[owned[b].kind][heap[b]] = owned[b].object
    BY DEF Inv, Entries, HasEntry
  <2>2. ASSUME NEW k \in Kind, NEW id \in DOMAIN handles[k], NEW t \in Thread,
               calls[t].kind = k, KnowsEntry(t), calls[t].id = id
        PROVE  Creating(t, k, handles[k][id]) \/ Removing(t, k, id)
    <3>1. calls[t].made = handles[k][id]
      BY <2>2 DEF Inv, Entries, HasEntry
    <3>2. At(t, "malloc") \/ At(t, "write") \/ At(t, "remove")
      BY <2>2, StageAt DEF Inv, Typed, KnowsEntry
    <3> QED
      BY <2>2, <3>1, <3>2 DEF Creating, Removing
  <2>3. ASSUME NEW k \in Kind, NEW id \in DOMAIN handles[k], NEW t \in Thread,
               calls[t].kind = k, StepsAt(t) = D1, heap[calls[t].block] = id
        PROVE  Removing(t, k, id)
    <3>1. At(t, "read")
      BY <2>3, StageAt DEF Inv, Typed
    <3> QED
      BY <2>3, <3>1 DEF Removing
  <2> QED
    BY <2>1, <2>2, <2>3 DEF EntriesAccounted, Inv, Accounted
<1> QED
  BY <1>1, InvariantHolds, PTL
============================================================================
