---------------------------- MODULE MCDeviceLife ----------------------------
(***************************************************************************)
(* An instance of DeviceLife for TLC: two devices, one of them a Mac whose *)
(* clock is ahead, the other with its identity in a file.                  *)
(***************************************************************************)
EXTENDS DeviceLife, TLC

CONSTANTS d1, d2

MacAndFile == [d \in Device |-> IF d = d1 THEN "mac" ELSE "file"]
FirstAhead == [d \in Device |-> IF d = d1 THEN 1 ELSE 0]

\* Splits with a threshold of two, all by lines of one slope: the splits of two
\* RIKs still differ.
Pairs == {<<1>>}

\* What EverySplitComesBack says of the scheme, evaluated for these splits and for
\* all others with a threshold of up to three in this field.
ASSUME ShamirAssumption ==
    /\ SplitsComeBack
    /\ \A slopes \in UNION {[1 .. k -> Field] : k \in 0 .. 2} : ComesBack(slopes, Prime - 1)

LifeBudget == [init |-> 2, recover |-> 2, setup |-> 2, sync |-> 2, misread |-> 1,
               crash |-> 1, time |-> 2, user |-> 1, all |-> 7]
=============================================================================
