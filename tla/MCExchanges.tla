---------------------------- MODULE MCExchanges ----------------------------
(* Exchanges on a small instance, with the fingerprint of Fingerprint.     *)
EXTENDS Exchanges, Fingerprint

Symmetry == Permutations(Users)

One == Leaf("1")

\* One body in two orders, and bodies that differ in a value or in nesting.
SmallBodies ==
    {Object(<<1, 2>>, <<One, List(<<One>>)>>),
     Object(<<2, 1>>, <<List(<<One>>), One>>),
     Object(<<1, 2>>, <<One, One>>)}

OneBody == {Object(<<1>>, <<One>>)}

SmallFingerprints == [b \in Bodies |-> stableStringify(b)]

\* Of bodies that are the same data, one.
SmallData == [b \in Bodies |-> CHOOSE c \in Bodies : SameData(b, c)]

\* Every kind of value inside every kind of value, twice over.
Samples ==
    Nested({One, List(<<>>), List(<<One>>), List(<<One, One>>),
            Object(<<1, 2>>, <<One, Leaf("null")>>),
            Object(<<2, 1>>, <<Leaf("null"), One>>)})

SamplesAreCanonical == CanonicalOver(Samples) /\ FingerprintsTell

\* "Two requests with the same data but different key ordering hash identically"
\* and other data hashes differently: two bodies have one fingerprint exactly if
\* they are the same data.  Time does not change that: it is asked at the start.
FingerprintIsCanonical == effects = 0 /\ slots = {} => SamplesAreCanonical
=============================================================================
