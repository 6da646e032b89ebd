----------------------------- MODULE EnumCache ------------------------------
(***************************************************************************)
(* pkg/enumcache and pkg/enumbitmap: the two maps of an enumeration, one   *)
(* from IDs to names and one from names to IDs, behind an RWMutex.         *)
(*                                                                         *)
(* An ID is an integer: here the set of its bits, {} being 0.  A bit is    *)
(* numbered from 1, as in BitMapToStrings.                                 *)
(***************************************************************************)
EXTENDS Naturals, FiniteSets

CONSTANTS IDs,          \* the IDs that are given, sets of bits
          Names,
          MaxBit,       \* BitMapToStrings looks at the first maxBit bits
          Goroutines,   \* those that use the cache
          None,         \* no goroutine
          MaxEnum       \* bound of the model: pairs in one call of SetAll

ASSUME EnumAssumption == None \notin Goroutines /\ MaxBit \in Nat

VARIABLES name,         \* ec.name, a function from IDs to names
          id,           \* ec.id, a function from names to IDs
          writer,       \* who holds the lock for writing
          readers,      \* who holds it for reading
          todo,         \* the pairs that the writer has yet to set
          half,         \* the pair of which it has set the name, not the ID
          written       \* history: the pairs that were set

cacheVars == <<name, id, writer, readers, todo, half, written>>

Pairs == IDs \X Names

\* ec.name[id] = name, and ec.id[name] = id.
WithName(f, p) == [i \in DOMAIN f \cup {p[1]} |-> IF i = p[1] THEN p[2] ELSE f[i]]
WithID(f, p) == [n \in DOMAIN f \cup {p[2]} |-> IF n = p[2] THEN p[1] ELSE f[n]]

Empty == [x \in {} |-> x]

CacheInit ==
    /\ name = Empty
    /\ id = Empty
    /\ writer = None
    /\ readers = {}
    /\ todo = {}
    /\ half = {}
    /\ written = {}

\* The pairs of one call: Set has one, SetAllIDByName has one for each name (of a
\* map whose values can be equal), SetAllNameByID one for each ID.
ByName(E) == \A p, q \in E : p[2] = q[2] => p = q
ByID(E) == \A p, q \in E : p[1] = q[1] => p = q
Enums == {E \in SUBSET Pairs : Cardinality(E) <= MaxEnum /\ (ByName(E) \/ ByID(E))}

Lock(g) ==
    /\ writer = None
    /\ readers = {}
    /\ writer' = g
    /\ todo' \in Enums
    /\ UNCHANGED <<name, id, readers, half, written>>

\* The pairs come in the order of the range over the map, which is any order.
SetName(g) ==
    /\ writer = g
    /\ half = {}
    /\ \E p \in todo :
           /\ name' = WithName(name, p)
           /\ half' = {p}
           /\ todo' = todo \ {p}
    /\ UNCHANGED <<id, writer, readers, written>>

SetID(g) ==
    /\ writer = g
    /\ \E p \in half :
           /\ id' = WithID(id, p)
           /\ written' = written \cup {p}
    /\ half' = {}
    /\ UNCHANGED <<name, writer, readers, todo>>

Unlock(g) ==
    /\ writer = g
    /\ todo = {} /\ half = {}
    /\ writer' = None
    /\ UNCHANGED <<name, id, readers, todo, half, written>>

\* A reader holds the lock for as long as its function looks at the maps.
RLock_Unguarded(g) ==
    /\ g \notin readers
    /\ writer # g
    /\ readers' = readers \cup {g}
    /\ UNCHANGED <<name, id, writer, todo, half, written>>
RLock(g) ==
    /\ writer = None
    /\ g \notin readers
    /\ readers' = readers \cup {g}
    /\ UNCHANGED <<name, id, writer, todo, half, written>>

RUnlock(g) ==
    /\ g \in readers
    /\ readers' = readers \ {g}
    /\ UNCHANGED <<name, id, writer, todo, half, written>>

CacheNext ==
    \E g \in Goroutines : \/ Lock(g) \/ SetName(g) \/ SetID(g) \/ Unlock(g)
                          \/ RLock(g) \/ RUnlock(g)

----------------------------------------------------------------------------
(* What the functions of a reader return.                                  *)

NotFound == [found |-> FALSE]
ID(n) == IF n \in DOMAIN id THEN [found |-> TRUE, id |-> id[n]] ELSE NotFound
Name(i) == IF i \in DOMAIN name THEN [found |-> TRUE, name |-> name[i]] ELSE NotFound
SortNames == DOMAIN id          \* in their order
SortIDs == DOMAIN name

\* BitMapToStrings: the names of the bits (in their order), and the bits that have
\* none.  The bits after MaxBit are not looked at.
BitMapToStrings_Skip(enum, v) ==
    LET bits == {k \in v : k < MaxBit}
    IN  [names |-> {enum[{k}] : k \in {b \in bits : {b} \in DOMAIN enum}},
         unknown |-> {k \in bits : {k} \notin DOMAIN enum}]
BitMapToStrings(enum, v) ==
    LET bits == {k \in v : k <= MaxBit}
    IN  [names |-> {enum[{k}] : k \in {b \in bits : {b} \in DOMAIN enum}},
         unknown |-> {k \in bits : {k} \notin DOMAIN enum}]

StringsToBitMap(enum, s) ==
    [v |-> UNION {enum[n] : n \in s \cap DOMAIN enum},
     unknown |-> s \ DOMAIN enum]

DecodeBinaryMap(v) == BitMapToStrings(name, v)
EncodeBinaryMap(s) == StringsToBitMap(id, s)
=============================================================================
