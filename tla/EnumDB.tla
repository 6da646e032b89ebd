------------------------------- MODULE EnumDB -------------------------------
(***************************************************************************)
(* pkg/enumdb: New loads a cache from each table, one table after the      *)
(* other; then the goroutines of the program use the caches, here one of   *)
(* them (EnumCache).  New gives the caches of all the tables, or an error. *)
(*                                                                         *)
(* Outside src/: database/sql, of which each call can fail.  The rows of a *)
(* query come in any order; a result that breaks ends the rows, and        *)
(* rows.Err tells it.                                                      *)
(***************************************************************************)
EXTENDS EnumCache

CONSTANTS Tables,       \* the tables of the queries
          Shared,       \* the one whose cache the goroutines use
          Rows          \* [Tables -> the pairs that its query returns]

ASSUME TablesAssumption == Shared \in Tables /\ Rows \in [Tables -> SUBSET Pairs]

VARIABLES phase,        \* of New: "loading", "loaded" or "failed"
          enum,         \* the caches it has
          table,        \* the table it is at, as a set
          stmt, rows,   \* "none", "open" or "closed"
          pending,      \* the rows that have not come
          cache         \* the cache of the table, [name, id]

loadVars == <<phase, enum, table, stmt, rows, pending, cache>>
enumVars == <<cacheVars, loadVars>>

NewCache == [name |-> Empty, id |-> Empty]
Put(c, p) == [name |-> WithName(c.name, p), id |-> WithID(c.id, p)]

EnumInit ==
    /\ CacheInit
    /\ phase = "loading"
    /\ enum = Empty
    /\ table = {}
    /\ stmt = "none" /\ rows = "none"
    /\ pending = {}
    /\ cache = NewCache

\* An error of any call: what is open is closed, and no cache is given.
Close(x) == IF x = "open" THEN "closed" ELSE x
Fail ==
    /\ phase' = "failed"
    /\ stmt' = Close(stmt) /\ rows' = Close(rows)
    /\ enum' = Empty
    /\ UNCHANGED <<table, pending, cache, cacheVars>>

Loading == phase = "loading" /\ table # {}

\* The tables come in the order of the range over the queries.
Prepare ==
    /\ phase = "loading" /\ table = {}
    /\ \E t \in Tables \ DOMAIN enum : table' = {t}
    /\ stmt' = "open"
    /\ UNCHANGED <<phase, enum, rows, pending, cache, cacheVars>>

PrepareFails ==
    /\ phase = "loading" /\ table = {} /\ DOMAIN enum # Tables
    /\ Fail

Query ==
    /\ Loading /\ rows = "none"
    /\ rows' = "open"
    /\ pending' = UNION {Rows[t] : t \in table}
    /\ cache' = NewCache
    /\ UNCHANGED <<phase, enum, table, stmt, cacheVars>>

QueryFails == Loading /\ rows = "none" /\ Fail

NextRow ==
    /\ Loading /\ rows = "open"
    /\ \E p \in pending : pending' = pending \ {p} /\ cache' = Put(cache, p)
    /\ UNCHANGED <<phase, enum, table, stmt, rows, cacheVars>>

ScanFails == Loading /\ rows = "open" /\ pending # {} /\ Fail

RowsEnd ==
    /\ Loading /\ rows = "open" /\ pending = {}
    /\ enum' = [t \in DOMAIN enum \cup table |->
                    IF t \in table THEN cache ELSE enum[t]]
    /\ table' = {}
    /\ stmt' = "none" /\ rows' = "none"         \* both are closed
    /\ UNCHANGED <<phase, pending, cache, cacheVars>>

\* The rows end early: Err of the rows is looked at after the last of them.
RowsBreak_Unnoticed ==
    /\ Loading /\ rows = "open"
    /\ enum' = [t \in DOMAIN enum \cup table |->
                    IF t \in table THEN cache ELSE enum[t]]
    /\ table' = {}
    /\ stmt' = "none" /\ rows' = "none"
    /\ pending' = {}
    /\ UNCHANGED <<phase, cache, cacheVars>>
RowsBreak == Loading /\ rows = "open" /\ Fail

\* New returns, and the goroutines have the cache of one table.
Loaded ==
    /\ phase = "loading" /\ table = {} /\ DOMAIN enum = Tables
    /\ phase' = "loaded"
    /\ name' = enum[Shared].name
    /\ id' = enum[Shared].id
    /\ written' = Rows[Shared]
    /\ UNCHANGED <<enum, table, stmt, rows, pending, cache,
                   writer, readers, todo, half>>

EnumNext ==
    \/ Prepare \/ PrepareFails \/ Query \/ QueryFails
    \/ NextRow \/ ScanFails \/ RowsEnd \/ RowsBreak \/ Loaded
    \/ phase = "loaded" /\ CacheNext /\ UNCHANGED loadVars

EnumSpec == EnumInit /\ [][EnumNext]_enumVars

----------------------------------------------------------------------------

EnumTypeOK ==
    /\ DOMAIN name \subseteq IDs /\ \A i \in DOMAIN name : name[i] \in Names
    /\ DOMAIN id \subseteq Names /\ \A n \in DOMAIN id : id[n] \in IDs
    /\ writer \in Goroutines \cup {None}
    /\ readers \subseteq Goroutines
    /\ todo \subseteq Pairs
    /\ half \subseteq Pairs
    /\ written \subseteq Pairs
    /\ phase \in {"loading", "loaded", "failed"}
    /\ DOMAIN enum \subseteq Tables
    /\ table \subseteq Tables
    /\ stmt \in {"none", "open", "closed"} /\ rows \in {"none", "open", "closed"}

OneToOne == ByID(written) /\ ByName(written)

\* A reader of the cache sees no write half done: what ID and Name return was
\* set as a pair, they find whatever was set, and they are the inverse of each
\* other as long as no pair that was set (by SetAll with equal values, by two
\* calls of Set, or by a query without the two unique keys) gave an ID a second
\* name or a name a second ID.  After such a pair one of them keeps a stale entry.
ReadsWhatWasSet ==
    readers # {} =>
        /\ \A n \in DOMAIN id : <<id[n], n>> \in written /\ id[n] \in DOMAIN name
        /\ \A i \in DOMAIN name : <<i, name[i]>> \in written /\ name[i] \in DOMAIN id
        /\ \A p \in written : p[1] \in DOMAIN name /\ p[2] \in DOMAIN id
        /\ OneToOne => /\ \A n \in DOMAIN id : name[id[n]] = n
                       /\ \A i \in DOMAIN name : id[name[i]] = i

\* In an enumeration of bits, the names that EncodeBinaryMap knows come back from
\* DecodeBinaryMap, all of them and no other, and DecodeBinaryMap tells every bit
\* without a name; provided that the bits are among the first MaxBit.
BitsRoundTrip ==
    readers # {} /\ OneToOne /\ (\A n \in DOMAIN id : \E k \in 1 .. MaxBit : id[n] = {k}) =>
        /\ \A s \in SUBSET Names :
               LET e == EncodeBinaryMap(s)
                   d == DecodeBinaryMap(e.v)
               IN  d.names = s \ e.unknown /\ d.unknown = {}
        /\ \A v \in SUBSET (1 .. MaxBit) :
               LET d == DecodeBinaryMap(v)
               IN  EncodeBinaryMap(d.names).v = v \ d.unknown

\* New gives the rows of every table, or nothing: a call that fails for one table,
\* at its last row even, drops the caches of the others.  When it returns, no
\* statement and no result is left open.
LoadsAllOrNothing ==
    /\ EnumTypeOK
    /\ phase = "loaded" =>
           /\ DOMAIN enum = Tables
           /\ \A t \in Tables :
                  /\ DOMAIN enum[t].name = {p[1] : p \in Rows[t]}
                  /\ DOMAIN enum[t].id = {p[2] : p \in Rows[t]}
    /\ phase = "failed" => enum = Empty
    /\ phase # "loading" => stmt # "open" /\ rows # "open"
=============================================================================
