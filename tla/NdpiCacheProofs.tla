------------------------ MODULE NdpiCacheProofs ------------------------
(***************************************************************************)
(* The memory of the nDPI cache, for any limit, any heap and any endpoints. *)
(***************************************************************************)
EXTENDS NdpiCache, FiniteSetTheorems, TLAPS

\* The strengthening: an entry's key has its endpoints in order.
KeysOrdered == \A k \in DOMAIN flows : k.near <= k.far

Inv == Types /\ MapOwnsHeap /\ StateIsOwn /\ KeysOrdered

-----------------------------------------------------------------------------
(* Helpers *)

\* A key names the two endpoints, lower first.
LEMMA KeyType ==
    ASSUME NEW src \in Endpoint, NEW dst \in Endpoint, NEW proto \in Proto
    PROVE  LET key == FlowKey(src, dst, proto)
           IN  /\ key \in Connection
               /\ key.near <= key.far
               /\ {key.near, key.far} = {src, dst}
               /\ key.proto = proto
BY EndpointAssumption DEF FlowKey, Connection

\* Making room removes one entry with its state, or nothing.
LEMMA MakeRoom ==
    ASSUME Inv, NEW key, NEW victim \in Victims(key)
    PROVE  /\ DOMAIN Evict(victim) = DOMAIN flows \ {victim}
           /\ \A k \in DOMAIN Evict(victim) : Evict(victim)[k] = flows[k]
           /\ HeapWithout(victim) = {flows[k] : k \in DOMAIN Evict(victim)}
           /\ HeapWithout(victim) \subseteq heap
<1>1. /\ DOMAIN Evict(victim) = DOMAIN flows \ {victim}
      /\ \A k \in DOMAIN Evict(victim) : Evict(victim)[k] = flows[k]
  BY DEF Evict
<1>2. CASE victim \in DOMAIN flows
  BY <1>1, <1>2 DEF Inv, MapOwnsHeap, Owned, HeapWithout
<1>3. CASE victim \notin DOMAIN flows
  BY <1>1, <1>3 DEF Inv, MapOwnsHeap, Owned, HeapWithout
<1> QED
  BY <1>1, <1>2, <1>3

-----------------------------------------------------------------------------
(* The actions *)

LEMMA KnownInv ==
    ASSUME Inv, NEW src \in Endpoint, NEW dst \in Endpoint, NEW proto \in Proto,
           InspectKnown(src, dst, proto)
    PROVE  Inv'
<1> DEFINE key == FlowKey(src, dst, proto)
           packet == <<{src, dst}, proto>>
<1>1. /\ key \in DOMAIN flows
      /\ seen' = [seen EXCEPT ![flows[key]] = seen[flows[key]] \cup {packet}]
      /\ UNCHANGED <<ctx, engine, flows, heap>>
  BY DEF InspectKnown, Feed
<1>2. packet = <<{key.near, key.far}, key.proto>>
  BY KeyType
<1>3. flows[key] \in Ptr /\ seen \in [Ptr -> SUBSET ((SUBSET Endpoint) \X Proto)]
  BY <1>1 DEF Inv, Types, Owned
<1>4. seen[flows[key]] = {packet}
  BY <1>1, <1>2 DEF Inv, StateIsOwn
<1> HIDE DEF key, packet
<1>5. seen' = seen
  BY <1>1, <1>3, <1>4
<1> QED
  BY <1>1, <1>5 DEF Inv, Types, MapOwnsHeap, StateIsOwn, KeysOrdered, Owned

LEMMA NewInv ==
    ASSUME Inv, NEW src \in Endpoint, NEW dst \in Endpoint, NEW proto \in Proto,
           InspectNew(src, dst, proto)
    PROVE  Inv'
<1> DEFINE key == FlowKey(src, dst, proto)
           packet == <<{src, dst}, proto>>
<1>1. PICK victim \in Victims(key), p \in Ptr :
          /\ key \notin DOMAIN flows
          /\ p \notin HeapWithout(victim)
          /\ flows' = [k \in DOMAIN Evict(victim) \cup {key} |->
                          IF k = key THEN p ELSE flows[k]]
          /\ heap' = HeapWithout(victim) \cup {p}
          /\ seen' = [seen EXCEPT ![p] = {packet}]
          /\ UNCHANGED <<ctx, engine>>
  BY DEF InspectNew, Feed, Cleared
<1>2. /\ key \in Connection /\ key.near <= key.far
      /\ packet = <<{key.near, key.far}, key.proto>>
  BY KeyType
<1>3. packet \in (SUBSET Endpoint) \X Proto
  OBVIOUS
<1> HIDE DEF key, packet
<1>4. /\ DOMAIN Evict(victim) \subseteq DOMAIN flows
      /\ HeapWithout(victim) = {flows[k] : k \in DOMAIN Evict(victim)}
      /\ HeapWithout(victim) \subseteq heap
  BY MakeRoom
<1>5. /\ DOMAIN flows' = DOMAIN Evict(victim) \cup {key}
      /\ flows'[key] = p
      /\ \A k \in DOMAIN Evict(victim) : flows'[k] = flows[k] /\ flows'[k] # p
  BY <1>1, <1>4
<1>6. Types'
  <2>1. seen' \in [Ptr -> SUBSET ((SUBSET Endpoint) \X Proto)]
    BY <1>1, <1>3 DEF Inv, Types
  <2>2. DOMAIN flows' \subseteq Connection
    BY <1>2, <1>4, <1>5 DEF Inv, Types
  <2>3. \A k \in DOMAIN flows' : flows'[k] \in Ptr
    BY <1>4, <1>5 DEF Inv, Types, Owned
  <2>4. heap' \subseteq Ptr
    BY <1>1, <1>4 DEF Inv, Types
  <2>5. Owned' \subseteq Ptr
    BY <2>3 DEF Owned
  <2>6. /\ ctx' \in {"none", "live", "null", "freed"}
        /\ engine' \subseteq Made
    BY <1>1 DEF Inv, Types
  <2> QED
    BY <2>1, <2>2, <2>4, <2>5, <2>6 DEF Types
<1>7. MapOwnsHeap'
  <2>1. {flows'[k] : k \in DOMAIN flows'} = HeapWithout(victim) \cup {p}
    BY <1>4, <1>5
  <2>2. \A j, k \in DOMAIN flows' : flows'[j] = flows'[k] => j = k
    BY <1>4, <1>5 DEF Inv, MapOwnsHeap
  <2>3. UNCHANGED engine /\ UNCHANGED ctx
    BY <1>1
  <2>4. (engine = IF ctx = "live" THEN Made ELSE {})'
    BY <2>3 DEF Inv, MapOwnsHeap
  <2> QED
    BY <1>1, <2>1, <2>2, <2>4 DEF MapOwnsHeap, Owned
<1>8. StateIsOwn'
  <2> SUFFICES ASSUME NEW k \in DOMAIN flows'
               PROVE  seen'[flows'[k]] = {<<{k.near, k.far}, k.proto>>}
    BY DEF StateIsOwn
  <2>1. seen'[p] = {packet} /\ \A q \in Ptr : q # p => seen'[q] = seen[q]
    BY <1>1 DEF Inv, Types
  <2>2. CASE k = key
    BY <1>2, <1>5, <2>1, <2>2
  <2>3. CASE k # key
    <3>1. k \in DOMAIN flows /\ flows'[k] = flows[k] /\ flows[k] # p
      BY <1>4, <1>5, <2>3
    <3>2. flows[k] \in Ptr
      BY <3>1 DEF Inv, Types, Owned
    <3> QED
      BY <2>1, <3>1, <3>2 DEF Inv, StateIsOwn
  <2> QED
    BY <2>2, <2>3
<1>9. KeysOrdered'
  BY <1>2, <1>4, <1>5 DEF Inv, KeysOrdered
<1> QED
  BY <1>6, <1>7, <1>8, <1>9 DEF Inv

LEMMA OutOfMemoryInv ==
    ASSUME Inv, NEW src \in Endpoint, NEW dst \in Endpoint, NEW proto \in Proto,
           InspectOutOfMemory(src, dst, proto)
    PROVE  Inv'
<1>1. PICK victim \in Victims(FlowKey(src, dst, proto)) :
          /\ flows' = Evict(victim) /\ heap' = HeapWithout(victim)
          /\ UNCHANGED <<ctx, engine, seen>>
  BY DEF InspectOutOfMemory
<1>2. /\ DOMAIN flows' \subseteq DOMAIN flows
      /\ \A k \in DOMAIN flows' : flows'[k] = flows[k]
      /\ heap' = {flows'[k] : k \in DOMAIN flows'}
      /\ heap' \subseteq heap
  <2> DEFINE room == Evict(victim)
             left == HeapWithout(victim)
  <2>1. /\ DOMAIN room \subseteq DOMAIN flows
        /\ \A k \in DOMAIN room : room[k] = flows[k]
        /\ left = {flows[k] : k \in DOMAIN room}
        /\ left \subseteq heap
    BY MakeRoom
  <2>2. flows' = room /\ heap' = left
    BY <1>1
  <2> HIDE DEF room, left
  <2> QED
    BY <2>1, <2>2
<1>3. Types'
  BY <1>1, <1>2 DEF Inv, Types, Owned
<1>4. MapOwnsHeap' /\ KeysOrdered'
  BY <1>1, <1>2 DEF Inv, MapOwnsHeap, KeysOrdered, Owned
<1>5. StateIsOwn'
  BY <1>1, <1>2 DEF Inv, StateIsOwn
<1> QED
  BY <1>3, <1>4, <1>5 DEF Inv

LEMMA DropInv == ASSUME Inv, Drop PROVE Inv'
<1>1. DOMAIN flows' = {} /\ heap' = {}
  BY DEF Drop, Inv, MapOwnsHeap, Owned
<1>2. ctx' = "freed" /\ engine' = {} /\ seen' = seen
  BY DEF Drop, Inv, MapOwnsHeap
<1>3. Types'
  BY <1>1, <1>2 DEF Inv, Types, Owned
<1>4. MapOwnsHeap'
  BY <1>1, <1>2 DEF MapOwnsHeap, Owned
<1> QED
  BY <1>1, <1>3, <1>4 DEF Inv, StateIsOwn, KeysOrdered

LEMMA InitInv == Init => Inv
BY DEF Init, Inv, Types, MapOwnsHeap, StateIsOwn, KeysOrdered, Owned

LEMMA NextInv == Inv /\ [Next]_vars => Inv'
<1> SUFFICES ASSUME Inv, [Next]_vars PROVE Inv'
  OBVIOUS
<1>1. ASSUME NEW outcome \in Outcomes, New(outcome) PROVE Inv'
  <2>1. /\ ctx' = IF outcome = "made" THEN "live" ELSE "null"
        /\ engine' = IF outcome = "made" THEN Made ELSE {}
        /\ UNCHANGED <<flows, heap, seen>>
    BY <1>1 DEF New, Built
  <2>2. Types'
    BY <2>1 DEF Inv, Types, Owned
  <2>3. MapOwnsHeap'
    BY <2>1 DEF Inv, MapOwnsHeap, Owned
  <2> QED
    BY <2>1, <2>2, <2>3 DEF Inv, StateIsOwn, KeysOrdered
<1>2. CASE UNCHANGED vars
  BY <1>2 DEF vars, Inv, Types, MapOwnsHeap, StateIsOwn, KeysOrdered, Owned
<1> QED
  BY <1>1, <1>2, KnownInv, NewInv, OutOfMemoryInv, DropInv DEF Next

LEMMA InvHolds == Spec => []Inv
BY InitInv, NextInv, PTL DEF Spec

-----------------------------------------------------------------------------
(* The theorems *)

\* Every allocated detection state has exactly one entry in the map, at the limit,
\* after a failed allocation and after the drop: no leak, no double free.
THEOREM NoLeak == Spec => []MapOwnsHeap
<1>1. Inv => MapOwnsHeap
  BY DEF Inv
<1> QED
  BY <1>1, InvHolds, PTL

\* A reused address starts from nothing: no verdict on one connection ever rests on
\* the packets of another.
THEOREM StatesAreSeparate == Spec => []StateIsOwn
<1>1. Inv => StateIsOwn
  BY DEF Inv
<1> QED
  BY <1>1, InvHolds, PTL

\* The two directions of a connection feed one detection state.
THEOREM DirectionsJoin == Spec => []OneEntryPerConnection
<1>1. Inv => OneEntryPerConnection
  <2> SUFFICES ASSUME Inv, NEW j \in DOMAIN flows, NEW k \in DOMAIN flows,
                      {j.near, j.far} = {k.near, k.far}, j.proto = k.proto
               PROVE  j = k
    BY DEF OneEntryPerConnection
  <2>1. j \in Connection /\ k \in Connection
    BY DEF Inv, Types
  <2>2. /\ j.near \in Nat /\ j.far \in Nat /\ k.near \in Nat /\ k.far \in Nat
        /\ j.near <= j.far /\ k.near <= k.far
    BY <2>1, EndpointAssumption DEF Inv, KeysOrdered, Connection
  <2>3. j.near = k.near /\ j.far = k.far
    BY <2>2
  <2> QED
    BY <2>1, <2>3 DEF Connection
<1> QED
  BY <1>1, InvHolds, PTL

-----------------------------------------------------------------------------
(* The limit *)

CountInv == IsFiniteSet(DOMAIN flows) /\ Bounded

\* Making room for a new connection leaves a finite map with a place free.
LEMMA RoomIsMade ==
    ASSUME Inv, CountInv, NEW key, key \notin DOMAIN flows, NEW victim \in Victims(key)
    PROVE  /\ IsFiniteSet(DOMAIN Evict(victim))
           /\ Cardinality(DOMAIN Evict(victim)) \in Nat
           /\ Cardinality(DOMAIN Evict(victim)) < Limit
<1> DEFINE before == DOMAIN flows
           after == DOMAIN Evict(victim)
<1>1. after = before \ {victim}
  BY MakeRoom
<1>2. IsFiniteSet(before) /\ Cardinality(before) \in Nat /\ Cardinality(before) <= Limit
  BY FS_CardinalityType DEF CountInv, Bounded
<1>3. CASE Full(key)
  <2>1. victim \in before
    BY <1>3 DEF Victims
  <2>2. IsFiniteSet(before \ {victim})
        /\ Cardinality(before \ {victim}) = Cardinality(before) - 1
    BY <1>2, <2>1, FS_RemoveElement
  <2>3. Cardinality(before \ {victim}) \in Nat
    BY <2>2, FS_CardinalityType
  <2> QED
    BY <1>1, <1>2, <2>2, <2>3, LimitAssumption
<1>4. CASE ~Full(key)
  <2>1. victim = Null
    BY <1>4 DEF Victims
  <2>2. Null \notin before
    BY NullAssumption DEF Inv, Types
  <2>3. before \ {victim} = before
    BY <2>1, <2>2
  <2>4. ~(Cardinality(before) >= Limit)
    BY <1>4 DEF Full
  <2> QED
    BY <1>1, <1>2, <2>3, <2>4, LimitAssumption
<1> QED
  BY <1>3, <1>4

LEMMA CountNext == Inv /\ CountInv /\ [Next]_vars => CountInv'
<1> SUFFICES ASSUME Inv, CountInv, [Next]_vars PROVE CountInv'
  OBVIOUS
<1>1. ASSUME NEW src \in Endpoint, NEW dst \in Endpoint, NEW proto \in Proto,
             InspectNew(src, dst, proto)
      PROVE  CountInv'
  <2> DEFINE key == FlowKey(src, dst, proto)
  <2>1. PICK victim \in Victims(key) :
            /\ key \notin DOMAIN flows
            /\ DOMAIN flows' = DOMAIN Evict(victim) \cup {key}
    BY <1>1 DEF InspectNew
  <2> HIDE DEF key
  <2>2. /\ IsFiniteSet(DOMAIN Evict(victim))
        /\ Cardinality(DOMAIN Evict(victim)) \in Nat
        /\ Cardinality(DOMAIN Evict(victim)) < Limit
    BY <2>1, RoomIsMade
  <2>3. key \notin DOMAIN Evict(victim)
    BY <2>1, MakeRoom
  <2>4. /\ IsFiniteSet(DOMAIN flows')
        /\ Cardinality(DOMAIN flows') = Cardinality(DOMAIN Evict(victim)) + 1
    BY <2>1, <2>2, <2>3, FS_AddElement
  <2> QED
    BY <2>2, <2>4, LimitAssumption DEF CountInv, Bounded
<1>2. ASSUME NEW src \in Endpoint, NEW dst \in Endpoint, NEW proto \in Proto,
             InspectOutOfMemory(src, dst, proto)
      PROVE  CountInv'
  <2> DEFINE key == FlowKey(src, dst, proto)
  <2>1. PICK victim \in Victims(key) :
            key \notin DOMAIN flows /\ flows' = Evict(victim)
    BY <1>2 DEF InspectOutOfMemory
  <2> HIDE DEF key
  <2> QED
    BY <2>1, RoomIsMade, LimitAssumption DEF CountInv, Bounded
<1>3. CASE Drop
  <2>1. DOMAIN flows' = {}
    BY <1>3 DEF Drop
  <2> QED
    BY <2>1, FS_EmptySet, LimitAssumption DEF CountInv, Bounded
<1>4. CASE UNCHANGED flows
  BY <1>4 DEF CountInv, Bounded
<1> QED
  BY <1>1, <1>2, <1>3, <1>4 DEF Next, vars, New, InspectKnown

\* The types hold, and the map never holds more connections than its limit, whatever
\* is sampled: every insertion finds a place free, made by an eviction where there was
\* none.
THEOREM LimitHolds == Spec => []TypeOK
<1>1. Init => CountInv
  <2> SUFFICES ASSUME Init PROVE CountInv
    OBVIOUS
  <2>1. DOMAIN flows = {}
    BY DEF Init
  <2> QED
    BY <2>1, FS_EmptySet, LimitAssumption DEF CountInv, Bounded
<1>2. Inv /\ CountInv => TypeOK
  BY DEF Inv, CountInv, TypeOK
<1> QED
  BY <1>1, <1>2, InvHolds, CountNext, PTL DEF Spec
=============================================================================
