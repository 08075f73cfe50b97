---------------------------- MODULE MCTimingWheel ----------------------------
\* A three-slot wheel, small enough for several events to share a slot.
EXTENDS TimingWheel

\* One to seven ticks of two milliseconds: up to three turns.
SmallTtls == 1 .. 14
==============================================================================
