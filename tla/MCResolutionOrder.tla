-------------------------- MODULE MCResolutionOrder -------------------------
EXTENDS ResolutionOrder

CONSTANTS d1, d2

\* With a modulus of 88, the mass of a clock with both devices wraps unless both
\* counters are 1; the mass of a clock with one device never wraps.
TightHashes == [d \in Device |-> IF d = d1 THEN 40 ELSE 45]
=============================================================================
