---------------------------- MODULE MCConnection -----------------------------
EXTENDS Connection

\* A frame that is all header, one with a body, and one whose bad
\* header announces more than the longest frame.
AllKinds == {"get", "set", "bad"}
Bad == {"bad"}
Lengths == [get |-> 2, set |-> 3, bad |-> 5]
==============================================================================
