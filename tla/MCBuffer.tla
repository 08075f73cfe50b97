------------------------------ MODULE MCBuffer ------------------------------
EXTENDS Buffer

\* All strings of up to three of two different bytes.
ShortStrings == UNION {[1 .. n -> {0, 1}] : n \in 1 .. 3}
==============================================================================
