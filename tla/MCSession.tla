------------------------------ MODULE MCSession ------------------------------
(* Two engines whose handles the client interleaves; two benchmarks, so     *)
(* that each engine may have its own; two objects over one datum, which the *)
(* second can only share or make anew.  No allocation fails: a              *)
(* createBenchmark() that runs out of memory leaves a benchmark behind.     *)
EXTENDS Session

CONSTANTS e1, e2, b1, b2, w1, w2, o1, o2, d1

TwoEngines == {e1, e2}
TwoBenches == {b1, b2}
TwoWrappers == {w1, w2}
TwoObjects == {o1, o2}
OneDatum == {d1}
NoBits == {}
OneDescription == {1}
OneMask == {{0}}
CustomCodes == {"BACKEND_ERROR"}
=============================================================================
