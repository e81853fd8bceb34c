-------------------------- MODULE MCExampleBackend --------------------------
(* One engine with one benchmark; three objects and data at a time are     *)
(* enough for the longest data flow, encode() to decode(), because a       *)
(* client may destroy a handle as soon as the next one exists.             *)
EXTENDS ExampleBackend, TLC

CONSTANTS e1, b1, w1, o1, o2, o3, d1, d2, d3, x, y, z

OneEngine == {e1}
OneBench == {b1}
OneWrapper == {w1}
Objects == {o1, o2, o3}
ThreeData == {d1, d2, d3}
NoBits == {}
BenchBit == {0}
One == {1}
Masks == {{i} : i \in {4, 6, 7, 8, 9, 10}}
Codes == {"HEBENCH_ECODE_INVALID_ARGS"}
Samples == {x, y, z}

Pack(pos, s) == [param_position |-> pos, sample |-> s]
\* In order, out of order, one position missing, one buffer empty, too few.
SomePacks ==
    {<<Pack(0, x), Pack(1, y)>>, <<Pack(1, z), Pack(0, x)>>,
     <<Pack(0, x), Pack(0, y)>>, <<Pack(1, NoSample), Pack(0, x)>>,
     <<Pack(0, x)>>}

Symmetry == Permutations({o1, o2, o3}) \cup Permutations({d1, d2, d3})
=============================================================================
