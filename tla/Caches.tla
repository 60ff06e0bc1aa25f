----------------------------- MODULE Caches -----------------------------
(***************************************************************************)
(* The two caches of pkg/cache, on top of github.com/jellydator/ttlcache.  *)
(*                                                                         *)
(* A duplicate cache maps a key to the tick at which its entry expires; a  *)
(* block slot cache maps a block root to a slot and such a tick.  Absent   *)
(* is the expiry of a key that was never set.  ttlcache takes its own lock *)
(* for the whole of Get, Set and GetOrSet, so each of them is one step,    *)
(* and it never returns an expired entry, whether or not the background    *)
(* loop that Start launches has evicted it: eviction cannot be observed    *)
(* through this interface and is no action of the model.                   *)
(***************************************************************************)
EXTENDS Integers

CONSTANTS
    ConsensusTTL,    \* 7 minutes, every duplicate cache but two
    PartialTTL,      \* 30 seconds, partial data columns and their outcomes
    BlockSlotTTL,    \* 7 minutes, block root to slot
    NoRoot           \* the empty block root ""

ASSUME TTLAssumption ==
    /\ ConsensusTTL \in Nat \ {0}
    /\ PartialTTL \in Nat \ {0}
    /\ BlockSlotTTL \in Nat \ {0}

Absent == -1

\* Item.isExpired: an entry lives up to and including its expiry tick.
Live(expiry, t) == expiry >= t

(***************************************************************************)
(* GetOrSet(key, value, WithTTL(DefaultTTL)) at tick t: whether it found a *)
(* live entry, and what the cache holds afterwards.  The duplicate caches  *)
(* are built without DisableTouchOnHit, so a hit restarts the entry's      *)
(* lifetime exactly as a miss does.                                        *)
(***************************************************************************)
Retrieved(cache, key, t) == Live(cache[key], t)
GetOrSet(cache, key, ttl, t) == [cache EXCEPT ![key] = t + ttl]

-----------------------------------------------------------------------------
\* A Set of slot for root at tick t.
SetSlot(cache, root, slot, t) ==
    [cache EXCEPT ![root] = [slot |-> slot, expiry |-> t + BlockSlotTTL]]

\* A Get of root at tick t, with 0 for a nil item.  DisableTouchOnHit: a
\* lookup does not extend the life of an entry.
GetSlot(cache, root, t) ==
    IF Live(cache[root].expiry, t) THEN cache[root].slot ELSE 0

\* Mutant: Resolve has no early return for the empty block root.
ResolveAnyRoot(cache, root, slot, t) ==
    IF slot # 0 THEN [slot |-> slot, cache |-> SetSlot(cache, root, slot, t)]
    ELSE [slot |-> GetSlot(cache, root, t), cache |-> cache]

\* Mutant: Resolve records an unknown slot too.
ResolveUnknown(cache, root, slot, t) ==
    IF root = NoRoot THEN [slot |-> slot, cache |-> cache]
    ELSE [slot |-> slot, cache |-> SetSlot(cache, root, slot, t)]

\* BlockSlotCache.Resolve at tick t: the slot it returns and the cache it leaves.
Resolve(cache, root, slot, t) ==
    IF root = NoRoot THEN [slot |-> slot, cache |-> cache]
    ELSE IF slot # 0 THEN [slot |-> slot, cache |-> SetSlot(cache, root, slot, t)]
    ELSE [slot |-> GetSlot(cache, root, t), cache |-> cache]

=============================================================================
