--------------------------- MODULE NdpiCache ---------------------------
(***************************************************************************)
(* NdpiEngine (ndpi.rs) and the shim it calls (native/ndpi_shim.c): a map  *)
(* from connections to detection states that live on libndpi's heap.  The  *)
(* map owns raw pointers, so a state must be freed when, and only when,    *)
(* its entry goes: at the limit of the map, and when the engine is dropped.*)
(*                                                                         *)
(* libndpi is external: an allocation may fail, and an address that was    *)
(* freed may be handed out again with the old content still in it.         *)
(***************************************************************************)
EXTENDS Integers, FiniteSets, FiniteSetsExt

CONSTANTS
    Endpoint,       \* pairs (address, port), numbered in their order
    Proto,          \* TCP and UDP
    Ptr,            \* addresses of libndpi's heap
    Null,           \* the null pointer
    Limit           \* 4096

ASSUME EndpointAssumption == Endpoint \subseteq Nat
ASSUME LimitAssumption == Limit \in Nat \ {0}

Connection == [near : Endpoint, far : Endpoint, proto : Proto]

ASSUME NullAssumption == Null \notin Ptr \cup Connection

VARIABLES
    ctx,            \* the engine's pointer to its context: none, live, null or freed
    engine,         \* what of the context and its detection module is allocated
    flows,          \* NdpiEngine.flows: connection -> pointer
    heap,           \* pointers allocated and not freed
    seen            \* [Ptr -> connections whose packets went into what is there]

vars == <<ctx, engine, flows, heap, seen>>

-----------------------------------------------------------------------------
(* FlowKey::from_l4: the lower endpoint first, whichever way the packet went. *)

DirectedKey(src, dst, proto) == [near |-> src, far |-> dst, proto |-> proto]
FlowKey(src, dst, proto) ==
    IF src <= dst
    THEN [near |-> src, far |-> dst, proto |-> proto]
    ELSE [near |-> dst, far |-> src, proto |-> proto]

\* The map is full and the connection is not in it; the variant looks too late.
FullLate(key) == Cardinality(DOMAIN flows) > Limit /\ key \notin DOMAIN flows
Full(key) == Cardinality(DOMAIN flows) >= Limit /\ key \notin DOMAIN flows

\* What is left of the map and of the heap when room has been made: any entry may
\* be the first that keys() yields.  The variant forgets to free.
Evict(victim) == [k \in DOMAIN flows \ {victim} |-> flows[k]]
HeapLeaked(victim) == heap
HeapWithout(victim) ==
    IF victim \in DOMAIN flows THEN heap \ {flows[victim]} ELSE heap

Victims(key) == IF Full(key) THEN DOMAIN flows ELSE {Null}

\* rs_ndpi_flow_new clears what it allocates; the variant does not.
Uncleared(p) == seen[p]
Cleared(p) == {}

\* rs_ndpi_inspect's packet goes into the state.
Feed(state, p, src, dst, proto) ==
    seen' = [seen EXCEPT ![p] = state \cup {<<{src, dst}, proto>>}]

-----------------------------------------------------------------------------
\* rs_ndpi_new: the context, then its module, then the module's initialization; what
\* was made before a step that fails is undone.  The variant returns at once.
Outcomes == {"no context", "no module", "not finalized", "made"}
Made == {"context", "module"}
BuiltAtFailure(outcome) ==
    CASE outcome = "no context" -> {}
      [] outcome = "no module" -> {"context"}
      [] OTHER -> Made
Built(outcome) == IF outcome = "made" THEN Made ELSE {}

\* NdpiEngine::new, or the engine without a context that Default falls back to.
New(outcome) ==
    /\ ctx = "none"
    /\ ctx' = IF outcome = "made" THEN "live" ELSE "null"
    /\ engine' = Built(outcome)
    /\ UNCHANGED <<flows, heap, seen>>

\* inspect, when there is a context and the packet's length is right; without, it
\* returns and changes nothing.  A known connection keeps its entry, full or not.
InspectKnown(src, dst, proto) ==
    /\ ctx = "live"
    /\ LET key == FlowKey(src, dst, proto)
       IN  /\ key \in DOMAIN flows
           /\ Feed(seen[flows[key]], flows[key], src, dst, proto)
    /\ UNCHANGED <<ctx, engine, flows, heap>>

InspectNew(src, dst, proto) ==
    /\ ctx = "live"
    /\ LET key == FlowKey(src, dst, proto)
       IN  /\ key \notin DOMAIN flows
           /\ \E victim \in Victims(key), p \in Ptr :
                  /\ p \notin HeapWithout(victim)
                  /\ flows' = [k \in DOMAIN Evict(victim) \cup {key} |->
                                  IF k = key THEN p ELSE flows[k]]
                  /\ heap' = HeapWithout(victim) \cup {p}
                  /\ Feed(Cleared(p), p, src, dst, proto)
    /\ UNCHANGED <<ctx, engine>>

\* The allocation fails when room has been made already.  The variant stores the
\* null pointer.
InspectOutOfMemoryUnchecked(src, dst, proto) ==
    /\ ctx = "live"
    /\ LET key == FlowKey(src, dst, proto)
       IN  /\ key \notin DOMAIN flows
           /\ \E victim \in Victims(key) :
                  /\ flows' = [k \in DOMAIN Evict(victim) \cup {key} |->
                                  IF k = key THEN Null ELSE flows[k]]
                  /\ heap' = HeapWithout(victim)
    /\ UNCHANGED <<ctx, engine, seen>>
InspectOutOfMemory(src, dst, proto) ==
    /\ ctx = "live"
    /\ LET key == FlowKey(src, dst, proto)
       IN  /\ key \notin DOMAIN flows
           /\ \E victim \in Victims(key) :
                  /\ flows' = Evict(victim)
                  /\ heap' = HeapWithout(victim)
    /\ UNCHANGED <<ctx, engine, seen>>

\* Drop: drain the map, then rs_ndpi_free, which passes over a null context.
Drop ==
    /\ ctx \in {"live", "null"}
    /\ heap' = heap \ {flows[k] : k \in DOMAIN flows}
    /\ flows' = [k \in {} |-> Null]
    /\ ctx' = "freed"
    /\ engine' = IF ctx = "live" THEN {} ELSE engine
    /\ UNCHANGED seen

Init ==
    /\ ctx = "none"
    /\ engine = {}
    /\ flows = [k \in {} |-> Null]
    /\ heap = {}
    /\ seen = [p \in Ptr |-> {}]

Next ==
    \/ \E outcome \in Outcomes : New(outcome)
    \/ \E src, dst \in Endpoint, proto \in Proto :
           \/ InspectKnown(src, dst, proto)
           \/ InspectNew(src, dst, proto)
           \/ InspectOutOfMemory(src, dst, proto)
    \/ Drop

Spec == Init /\ [][Next]_vars

-----------------------------------------------------------------------------
(* Properties *)

Owned == {flows[k] : k \in DOMAIN flows}
Bounded == Cardinality(DOMAIN flows) <= Limit

Types ==
    /\ ctx \in {"none", "live", "null", "freed"}
    /\ engine \subseteq Made
    /\ DOMAIN flows \subseteq Connection
    /\ Owned \subseteq Ptr /\ heap \subseteq Ptr
    /\ seen \in [Ptr -> SUBSET ((SUBSET Endpoint) \X Proto)]

\* The types, and the limit: the map never holds more than Limit connections,
\* whatever is sampled.
TypeOK == Types /\ Bounded

\* The engine owns the heap: every state that is allocated has exactly one entry,
\* every entry a state that is allocated, and the context and its module are there
\* exactly while the engine points to them.  No leak at the limit, when the context
\* cannot be made or when the engine is dropped, no double free, and no pointer to
\* freed memory in the map.
MapOwnsHeap ==
    /\ engine = IF ctx = "live" THEN Made ELSE {}
    /\ Owned = heap
    /\ \A j, k \in DOMAIN flows : flows[j] = flows[k] => j = k

\* A detection state has seen packets of one connection only, that of its entry, in
\* both directions, although addresses are reused after an eviction.
StateIsOwn ==
    \A k \in DOMAIN flows : seen[flows[k]] = {<<{k.near, k.far}, k.proto>>}

\* Both directions of a connection share one entry.
OneEntryPerConnection ==
    \A j, k \in DOMAIN flows :
        {j.near, j.far} = {k.near, k.far} /\ j.proto = k.proto => j = k
=============================================================================
