---------------------------- MODULE MCCacheEngine ----------------------------
EXTENDS CacheEngine

CONSTANTS a, b, c

TwoKeys == {a, c}
ThreeKeys == {a, b, c}
OneEach == [k \in TwoKeys |-> IF k = c THEN 2 ELSE 1]
\* Two keys compete for the second shard, which has one byte less.
OneAndTwo == [k \in ThreeKeys |-> IF k = c THEN 1 ELSE 2]
SameShard == Permutations({a, b})
==============================================================================
