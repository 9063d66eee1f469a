------------------------------- MODULE ByteLru -------------------------------
(***************************************************************************)
(* class ByteLru of packages/gateway/src/lru.ts: the entries in the order  *)
(* of their last use, oldest first, and the running total of their bytes.  *)
(* A value is a record with a size; what else it holds is its user's.      *)
(***************************************************************************)
EXTENDS Integers, SequencesExt

CONSTANTS
  CacheMaxBytes,  \* maxBytes
  CacheMaxEntry   \* maxEntryBytes

ASSUME CacheAssumption == CacheMaxBytes \in Nat \ {0} /\ CacheMaxEntry \in Nat

EmptyLru == [entries |-> << >>, bytes |-> 0]

BytesOf(entries) ==
  LET sum[n \in 0 .. Len(entries)] ==
        IF n = 0 THEN 0 ELSE sum[n - 1] + entries[n].value.size
  IN  sum[Len(entries)]

Holds(lru, key) == \E i \in DOMAIN lru.entries : lru.entries[i].key = key

\* Where the key is held; it is held once.
Place(lru, key) == CHOOSE i \in DOMAIN lru.entries : lru.entries[i].key = key

Of(lru, key) == lru.entries[Place(lru, key)]

Others(lru, key) ==
  IF Holds(lru, key) THEN RemoveAt(lru.entries, Place(lru, key)) ELSE lru.entries

Found(lru, key) == Of(lru, key).value

\* What get leaves of a hit: it becomes the entry used last.
LruGet(lru, key) ==
  [entries |-> Append(Others(lru, key), Of(lru, key)), bytes |-> lru.bytes]

\* How many of the oldest entries make room; never the one just set.
Dropped(entries, bytes) ==
  LET newest == Len(entries) - 1
  IN  Min({n \in 0..newest :
             bytes - BytesOf(SubSeq(entries, 1, n)) <= CacheMaxBytes \/ n = newest})

\* mutation: a value set again is counted twice
LruSetTwice(lru, key, value) ==
  IF value.size > CacheMaxEntry THEN lru
  ELSE LET entries == Append(Others(lru, key), [key |-> key, value |-> value])
           bytes == lru.bytes + value.size
           n == Dropped(entries, bytes)
       IN [entries |-> SubSeq(entries, n + 1, Len(entries)),
           bytes |-> bytes - BytesOf(SubSeq(entries, 1, n))]

\* What set leaves; an oversized value leaves even the old one.
LruSet(lru, key, value) ==
  IF value.size > CacheMaxEntry THEN lru
  ELSE LET entries == Append(Others(lru, key), [key |-> key, value |-> value])
           existing == IF Holds(lru, key) THEN Found(lru, key).size ELSE 0
           bytes == lru.bytes - existing + value.size
           n == Dropped(entries, bytes)
       IN [entries |-> SubSeq(entries, n + 1, Len(entries)),
           bytes |-> bytes - BytesOf(SubSeq(entries, 1, n))]
=============================================================================
