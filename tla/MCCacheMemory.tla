---------------------------- MODULE MCCacheMemory ----------------------------
EXTENDS CacheMemory

CONSTANTS k1, k2, k3, h1, h2, h3

CachedKeys == {k1, k2, k3}
\* Two classes that share a slab size.
TwoClasses == <<2, 4>>
Heap == {h1, h2, h3}
MemorySymmetry == Permutations(CachedKeys) \union Permutations(Heap)
==============================================================================
