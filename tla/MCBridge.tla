------------------------------ MODULE MCBridge ------------------------------
(* Small instances of Bridge: the sets of addresses, the tag bits and the  *)
(* masks a backend passes.                                                 *)
EXTENDS Bridge, TLC

CONSTANTS e1, e2, b1, b2, w1, w2, o1, o2, o3, d1, d2

OneEngine == {e1}
TwoEngines == {e1, e2}
OneBench == {b1}
TwoBenches == {b1, b2}
OneWrapper == {w1}
TwoWrappers == {w1, w2}
TwoObjects == {o1, o2}
ThreeObjects == {o1, o2, o3}
OneDatum == {d1}
TwoData == {d1, d2}

NoBits == {}
DerivedBit == {55}
OneOrTwo == {1, 2}

\* No bit, a bit of the backend, and the bits by which the wrapper tells
\* engines and benchmarks: a backend that passes those must be refused.
Masks == {{}, {0}, {63}, {60, 62}}
FewMasks == {{0}, {60, 62}}
CustomCodes == {"BACKEND_ERROR"}

Symmetry == Permutations({e1, e2}) \cup Permutations({b1, b2})
            \cup Permutations({w1, w2}) \cup Permutations({o1, o2, o3})
            \cup Permutations({d1, d2})
=============================================================================
