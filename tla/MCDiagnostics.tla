---------------------------- MODULE MCDiagnostics ----------------------------
(* Two engines, one base code and one of the backend, texts of each length *)
(* from zero, and buffers too small, exact and too large for them.         *)
EXTENDS Diagnostics, TLC

CONSTANTS e1, e2, scheme, base, custom, empty, short, long

TwoEngines == {e1, e2}
OneEngine == {e1}
Codes == {base, custom}
BaseCodes == {base}
Names == {scheme}
Texts == {empty, short, long}
Lengths == (empty :> 0) @@ (short :> 1) @@ (long :> 3)
Sizes == {0, 2}
Symmetry == Permutations({e1, e2})
=============================================================================
