---------------------------- MODULE MCCacheServer ----------------------------
EXTENDS CacheServer

CONSTANTS f1, f2

TwoFds == {f1, f2}
DescriptorSymmetry == Permutations(TwoFds)
==============================================================================
