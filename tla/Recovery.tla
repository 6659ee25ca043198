------------------------------ MODULE Recovery ------------------------------
(***************************************************************************)
(* Recovery material (crates/cs-keys/src/recovery): what is made of a RIK, *)
(* and what comes back of it.  A RIK is an element of a field, here the    *)
(* integers modulo a prime in place of 32 bytes of GF(256); a fingerprint  *)
(* is as good as the RIK it stands for.                                    *)
(***************************************************************************)
EXTENDS Integers, Sequences, SequencesExt, FiniteSetsExt

CONSTANT Prime        \* the order of the field

ASSUME PrimeAssumption ==
    Prime \in Nat /\ Prime > 1 /\ \A m, n \in 2 .. Prime - 1 : m * n # Prime

Field == 0 .. Prime - 1
Failure == -1         \* an error in place of a RIK
Skip    == -2         \* no fingerprint entered

Reciprocal(a) == CHOOSE b \in Field : (a * b) % Prime = 1

-----------------------------------------------------------------------------
(* Shamir's scheme (shamir.rs, with the crate sharks).                       *)

\* The value at x of a polynomial; the first of its coefficients is its value at 0.
Value(coefs, x) == FoldRight(LAMBDA a, v : (v * x + a) % Prime, coefs, 0)

\* The n shares of a split with threshold Len(slopes) + 1: the points 1 .. n of
\* a random polynomial that is rik at 0.
Shares(rik, slopes, n) == {[index |-> x, y |-> Value(<<rik>> \o slopes, x)] : x \in 1 .. n}

\* What p counts for in the value at 0 of the polynomial through the points.
Weight(points, p) ==
    FoldSet(LAMBDA q, w : (w * q.index * Reciprocal((q.index - p.index) % Prime)) % Prime,
            1, points \ {p})

\* That value (sharks::recover).
Interpolate(points) == FoldSet(LAMBDA p, v : (v + p.y * Weight(points, p)) % Prime, 0, points)

\* What the scheme promises: shares of one split, as many as its threshold or
\* more, give back what was split.
ComesBack(slopes, n) ==
    \A rik \in Field : \A points \in SUBSET Shares(rik, slopes, n) :
        Cardinality(points) > Len(slopes) => Interpolate(points) = rik

Indices(entered) == {entered[i].index : i \in 1 .. Len(entered)}

\* Mutant: a share that is entered twice counts twice.
EnoughEntered(entered, k) == Len(entered) >= k

\* Duplicates are turned down, and with them too few different shares.
EnoughShares(entered, k) ==
    Cardinality(Indices(entered)) = Len(entered) /\ Cardinality(Indices(entered)) >= k

\* recombine.  The k is the one that the user enters, not that of the split.
Recombine(entered, k, fingerprint) ==
    LET rik == Interpolate({entered[i] : i \in 1 .. Len(entered)})
    IN  IF EnoughShares(entered, k) /\ fingerprint \in {Skip, rik} THEN rik ELSE Failure

-----------------------------------------------------------------------------
(* Bundles (mnemonic.rs, cloud.rs): the RIK under a key stretched from words *)
(* that are generated, or from a passphrase that is chosen, and a salt.      *)

MakeBundle(rik, secret, salt) == [rik |-> rik, kek |-> <<secret, salt>>, salt |-> salt]

OpenBundle(bundle, secret) ==
    IF bundle.kek = <<secret, bundle.salt>> THEN bundle.rik ELSE Failure
=============================================================================
