-------------------------- MODULE InterQueryCache --------------------------
(***************************************************************************)
(* The inter-query cache of topdown/cache: a map of sized entries, the     *)
(* FIFO list forced eviction works from, the running total of sizes, the   *)
(* goroutine that removes expired entries, and the configuration the       *)
(* server swaps under them.                                                *)
(*                                                                         *)
(* Every method holds cache.mtx, so each is one action.  The goroutine is  *)
(* not one action: it re-reads the configuration, without the lock, after  *)
(* it has cleaned up.  A cached value is its size and expiry time.         *)
(***************************************************************************)
EXTENDS Lists, Functions

CONSTANTS Keys,
          Sizes,     \* what SizeInBytes may return
          Configs,   \* [max, threshold, period] records UpdateConfig is given
          MaxTime    \* bound on the clock, and the latest expiry time

ASSUME ConfigsValid ==
    \A c \in Configs : c.max \in Int /\ c.threshold \in 0..100 /\ c.period \in Nat
ASSUME SizesValid == Sizes \subseteq Nat
ASSUME MaxTimeValid == MaxTime \in Nat \ {0}

VARIABLES cache,     \* [items, l, usage] of the cache struct
          config,    \* cache.config
          now,       \* time.Now
          cleaner    \* the clean-up goroutine

vars == <<cache, config, now, cleaner>>

\* "disabled": never started.  "waiting": in the select.  "rearming": between
\* cleanStaleValues and time.NewTicker.  "panicked": NewTicker panicked, which
\* ends the process.
CleanerStates == {"disabled", "waiting", "rearming", "stopped", "panicked"}

NoExpiry == 0
Times == 0..MaxTime
Items == [size : Sizes, expiresAt : Times]

TypeOK ==
    /\ \E D \in SUBSET Keys : cache.items \in [D -> Items]
    /\ cache.l \in Seq(Keys)
    /\ cache.usage \in Nat
    /\ config \in Configs
    /\ now \in Times
    /\ cleaner \in CleanerStates

-----------------------------------------------------------------------------
\* math.Ceil(threshold / 100.0) * max: the rounding comes before the product.
Limit(c) == ((c.threshold + 99) \div 100) * c.max

Expired(item) == item.expiresAt # NoExpiry /\ item.expiresAt < now

unsafeDelete(c, k) ==
    IF k \notin DOMAIN c.items THEN c
    ELSE [items |-> Restrict(c.items, DOMAIN c.items \ {k}),
          l     |-> RemoveFirst(c.l, k),
          usage |-> c.usage - c.items[k].size]

\* Mutant: the new value's size is not counted.
EvictIgnoringSize(c, size, limit) ==
    LET step(d, k) == IF d.usage > limit THEN unsafeDelete(d, k) ELSE d
    IN  FoldLeft(step, c, c.l)

\* Mutant: the newest entries go first.
EvictNewest(c, size, limit) ==
    LET step(d, k) == IF d.usage + size > limit THEN unsafeDelete(d, k) ELSE d
    IN  FoldLeft(step, c, [i \in DOMAIN c.l |-> c.l[Len(c.l) + 1 - i]])

\* The loop that drops entries from the front until the new one fits.
Evict(c, size, limit) ==
    LET step(d, k) == IF d.usage + size > limit THEN unsafeDelete(d, k) ELSE d
    IN  FoldLeft(step, c, c.l)

Put(items, k, item) == [e \in DOMAIN items \cup {k} |-> IF e = k THEN item ELSE items[e]]

\* Mutant: the old value of k is overwritten, not deleted.
PushBackOnly(c, k, item) ==
    [items |-> Put(c.items, k, item),
     l     |-> Append(c.l, k),
     usage |-> c.usage + item.size]

PushBack(c, k, item) ==
    LET d == unsafeDelete(c, k)
    IN  [items |-> Put(d.items, k, item),
         l     |-> Append(d.l, k),
         usage |-> d.usage + item.size]

\* With no positive limit nothing is evicted; a value above the limit is
\* dropped and what the cache holds for k stays.
unsafeInsert(c, k, item) ==
    IF Limit(config) <= 0 THEN PushBack(c, k, item)
    ELSE IF item.size > Limit(config) THEN c
    ELSE PushBack(Evict(c, item.size, Limit(config)), k, item)

\* Mutant: the loop stops at the first entry that has not expired.
CleanFront(c) ==
    LET step(d, k) == IF Head(d.l) = k /\ Expired(d.items[k]) THEN unsafeDelete(d, k) ELSE d
    IN  FoldLeft(step, c, c.l)

cleanStaleValues(c) ==
    LET step(d, k) == IF Expired(d.items[k]) THEN unsafeDelete(d, k) ELSE d
    IN  FoldLeft(step, c, c.l)

-----------------------------------------------------------------------------
newCache == [items |-> <<>>, l |-> <<>>, usage |-> 0]

\* NewInterQueryCacheWithContext.
Init ==
    /\ cache = newCache
    /\ config \in Configs
    /\ now = 1
    /\ cleaner = IF config.period > 0 THEN "waiting" ELSE "disabled"

Running == cleaner # "panicked"

\* Insert is the case of no expiry.
InsertWithExpiry(k, size, expiresAt) ==
    /\ Running
    /\ cache' = unsafeInsert(cache, k, [size |-> size, expiresAt |-> expiresAt])
    /\ UNCHANGED <<config, now, cleaner>>

Delete(k) ==
    /\ Running
    /\ cache' = unsafeDelete(cache, k)
    /\ UNCHANGED <<config, now, cleaner>>

\* The new configuration takes effect at the next insertion or tick.
UpdateConfig ==
    /\ Running
    /\ config' \in Configs
    /\ UNCHANGED <<cache, now, cleaner>>

\* The ticker fired.
CleanUp ==
    /\ cleaner = "waiting"
    /\ cache' = cleanStaleValues(cache)
    /\ cleaner' = "rearming"
    /\ UNCHANGED <<config, now>>

\* time.NewTicker panics on a period that is not positive.
RearmTicker ==
    /\ cleaner = "rearming"
    /\ cleaner' = IF config.period > 0 THEN "waiting" ELSE "panicked"
    /\ UNCHANGED <<cache, config, now>>

\* The context is done; the goroutine sees it in its select.
Cancelled ==
    /\ cleaner = "waiting"
    /\ cleaner' = "stopped"
    /\ UNCHANGED <<cache, config, now>>

Tick ==
    /\ Running
    /\ now < MaxTime
    /\ now' = now + 1
    /\ UNCHANGED <<cache, config, cleaner>>

Inserting ==
    \E k \in Keys, size \in Sizes, e \in Times : InsertWithExpiry(k, size, e)

Next ==
    \/ Inserting
    \/ \E k \in Keys : Delete(k)
    \/ UpdateConfig
    \/ CleanUp
    \/ RearmTicker
    \/ Cancelled
    \/ Tick

Fairness == WF_vars(CleanUp) /\ WF_vars(RearmTicker)

Spec == Init /\ [][Next]_vars
FairSpec == Spec /\ Fairness

-----------------------------------------------------------------------------
(* Safety *)

\* The three views of the cache's contents agree after any mix of insertions,
\* replacements, evictions, deletions and clean-ups: the list holds each key
\* of the map once, and usage is the sum of the sizes the map holds.
Accounting ==
    /\ IsInjective(cache.l)
    /\ Range(cache.l) = DOMAIN cache.items
    /\ cache.usage = MapThenSumSet(LAMBDA k : cache.items[k].size, DOMAIN cache.items)

\* unsafeInsert never leaves more in the cache than the limit in force, also
\* when UpdateConfig lowered the limit below what was already cached.
InsertionFits ==
    Limit(config) > 0 /\ cache.usage < cache'.usage => cache'.usage <= Limit(config)
GrowthWithinLimit == [][InsertionFits]_vars

\* Forced eviction takes the oldest entries: no entry survives an insertion
\* that evicts one inserted after it.  Only Delete and CleanUp may do that.
NewerLeavesFirst ==
    \E i, j \in DOMAIN cache.l :
        /\ i < j
        /\ cache.l[j] \notin DOMAIN cache'.items
        /\ cache.l[i] \in DOMAIN cache'.items
        /\ cache.l[i] # Last(cache'.l)
OldestEvicted == NewerLeavesFirst => ~Inserting
EvictionIsFIFO == [][OldestEvicted]_vars

(* Liveness *)

\* While the clean-up goroutine runs, an expired entry leaves the cache or is
\* replaced by a fresh one, whatever periods UpdateConfig switches between.
IsStale(k) == k \in DOMAIN cache.items /\ Expired(cache.items[k])
StaleEntriesLeave ==
    \A k \in Keys :
        IsStale(k) /\ cleaner \in {"waiting", "rearming"}
            ~> ~IsStale(k) \/ cleaner = "stopped"

-----------------------------------------------------------------------------
(* What the documentation says *)

\* configuration.md: a stale entry eviction period of zero disables the
\* clean-up.  It must not end the process.
ZeroPeriodDisables == cleaner # "panicked"

\* configuration.md: old items are dropped when usage exceeds the threshold, a
\* percentage of the maximum size.  Past it, only the new entry may remain.
AboveThreshold(usage) == config.max > 0 /\ usage * 100 > config.threshold * config.max
DropsAbove ==
    Inserting /\ cache' # cache /\ AboveThreshold(cache'.usage) => Len(cache'.l) = 1
ThresholdIsPercentage == [][DropsAbove]_vars
=============================================================================
