------------------------------- MODULE MCCache -------------------------------
EXTENDS Cache

CONSTANTS a, b, c, empty, long, small, big, wide, huge

\* Keys of one byte; an empty key and one longer than the limit are refused.
ValidKeys == {a, b, c}
AllKeys == ValidKeys \union {empty, long}
SizeOfKey == [k \in Keys |-> IF k = empty THEN 0 ELSE IF k = long THEN 3 ELSE 1]

\* wide fits no cache of Capacity bytes, huge is longer than any value may be.
ValidValues == {small, big}
AllValues == ValidValues \union {wide, huge}
SizeOfValue == [v \in Values |-> IF v = small THEN 0 ELSE IF v = big THEN 2
                                 ELSE IF v = wide THEN 3 ELSE 4]

KeySymmetry == Permutations(ValidKeys)
==============================================================================
