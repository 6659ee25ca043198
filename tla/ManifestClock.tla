--------------------------- MODULE ManifestClock ---------------------------
(***************************************************************************)
(* The vector clocks of crates/cs-manifest: a counter per device, ordered  *)
(* component by component.  The code keeps a BTreeMap and reads an absent  *)
(* device as 0; every counter that enters the map comes from a bump, so a  *)
(* stored 0 never occurs and a total function says the same thing.         *)
(***************************************************************************)
EXTENDS Integers

CONSTANTS
    Device,     \* the devices that share one vault
    U64Max      \* the largest value of the code's u64 counters

ASSUME CounterAssumption == U64Max \in Nat \ {0}

Counter == 0 .. U64Max

Clock == [Device -> Counter]

ZeroClock == [d \in Device |-> 0]

\* u64::saturating_add(1)
SaturatingNext(n) == IF n < U64Max THEN n + 1 ELSE U64Max

\* Mutant: a device enters the clock once and is not counted again.
BumpOnce(c, d) == IF c[d] = 0 THEN [c EXCEPT ![d] = 1] ELSE c

Bump(c, d) == [c EXCEPT ![d] = SaturatingNext(@)]

Merge(a, b) == [d \in Device |-> IF a[d] < b[d] THEN b[d] ELSE a[d]]

AtMost(a, b) == \A d \in Device : a[d] <= b[d]

\* Mutant: one greater counter is enough.
LessSomewhere(a, b) == \E d \in Device : a[d] < b[d]

HappensBefore(a, b) == AtMost(a, b) /\ \E d \in Device : a[d] < b[d]

=============================================================================
