----------------------------- MODULE RecencyMap -----------------------------
(***************************************************************************)
(* The JavaScript Map inside the query cache: a sequence of entries with   *)
(* distinct keys in insertion order, the order that decides what is        *)
(* evicted.                                                                *)
(***************************************************************************)
EXTENDS Integers, Sequences

CONSTANT Capacity   \* DEFAULT_SIZE

ASSUME CapacityAssumption == Capacity \in Nat \ {0}

HasKey(c, k) == \E i \in DOMAIN c : c[i].key = k

PlaceOf(c, k) == CHOOSE i \in DOMAIN c : c[i].key = k

ValueOf(c, k) == c[PlaceOf(c, k)].value

\* Map.delete of a key that is present, once.
Without(c, k) ==
  SubSeq(c, 1, PlaceOf(c, k) - 1) \o SubSeq(c, PlaceOf(c, k) + 1, Len(c))

\* Map.set: a key that is present keeps its place.
MapSet(c, k, v) ==
  IF HasKey(c, k)
  THEN [i \in DOMAIN c |-> IF c[i].key = k THEN [key |-> k, value |-> v] ELSE c[i]]
  ELSE Append(c, [key |-> k, value |-> v])

\* MemCacheServiceImpl.get: the entry is deleted and inserted again.
AfterGet(c, k) ==
  IF HasKey(c, k) THEN MapSet(Without(c, k), k, ValueOf(c, k)) ELSE c

\* MemCacheServiceImpl.set: the oldest entry of a full cache goes first, whether
\* or not the key is new.  Mutants: one entry too many; a stored
\* value is kept.
AfterSetOneMore(c, k, v) ==
  MapSet(IF Len(c) > Capacity THEN Tail(c) ELSE c, k, v)
AfterSetKeepOld(c, k, v) ==
  IF HasKey(c, k) THEN c
  ELSE MapSet(IF Len(c) >= Capacity THEN Tail(c) ELSE c, k, v)
AfterSet(c, k, v) ==
  MapSet(IF Len(c) >= Capacity THEN Tail(c) ELSE c, k, v)

=============================================================================
