--------------------------- MODULE MCWorkloadParams ---------------------------
(* Lists of up to five parameters: the shortest in which a Generic object    *)
(* has inputs and results of different numbers.  The largest word is the     *)
(* bits of -1 and a count that wraps around.  The classes tell the type of   *)
(* their counts and lengths from all others, which Int64 stands for.         *)
EXTENDS WorkloadParams

SomeCounts == {0, 1, 2, Modulus - 1}
SomeBits ==
    [Int64 |-> {Modulus - 1}, UInt64 |-> {1, Modulus - 1}, Float64 |-> {}]
\* Places of lists and behind them, and one that wraps around to the counts.
SomePlaces == {0, 1, 2, 5, Modulus - 2}
=============================================================================
