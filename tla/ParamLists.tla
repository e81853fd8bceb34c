------------------------------ MODULE ParamLists ------------------------------
(***************************************************************************)
(* Lists of flexible workload parameters (types.h) and what the classes of *)
(* workload_params.hpp require of one.                                     *)
(*                                                                         *)
(* The value of a parameter is a union in the code: it is its bits here, a *)
(* word that each of the three types reads in its own way, and the name of *)
(* a parameter is left out.                                                *)
(***************************************************************************)
EXTENDS Naturals, Sequences

CONSTANT Modulus    \* 2^64 in the code: the arithmetic of std::uint64_t

ASSUME ModulusAssumption == Modulus \in Nat \ (0 .. 3)

Word == 0 .. Modulus - 1
Wrap(x) == x % Modulus

Untyped == "0"                  \* data_type of a value-initialised parameter
ParamType == {"Int64", "UInt64", "Float64"}
Param == [type : ParamType \cup {Untyped}, bits : Word]
UInt(v) == [type |-> "UInt64", bits |-> v]
NoParam == [type |-> Untyped, bits |-> 0]

\* MinRequiredParameters of the classes for which it is a constant.
FixedCount ==
    [MatrixMultiply |-> 3, VectorSize |-> 1, SimpleSetIntersection |-> 3]
Fixed == DOMAIN FixedCount
Kind == Fixed \cup {"Common", "Generic"}

\* Generic::n() and m(): the first two parameters, whatever their types.
n(ps) == ps[1].bits
m(ps) == ps[2].bits

\* Faulty variant: a set intersection requires the two its comment speaks of.
MinRequiredAsCommented(kind, ps) ==
    IF kind = "Common" THEN 0
    ELSE IF kind = "Generic" THEN Wrap(n(ps) + m(ps) + 2)
    ELSE IF kind = "SimpleSetIntersection" THEN 2
    ELSE FixedCount[kind]

\* How many parameters validateParams() of the class asks for.
MinRequiredParameters(kind, ps) ==
    IF kind = "Common" THEN 0
    ELSE IF kind = "Generic" THEN Wrap(n(ps) + m(ps) + 2)
    ELSE FixedCount[kind]

\* The check throws std::out_of_range, from vector::at() when there is no n
\* or m to read.
TooShort(kind, ps) ==
    \/ kind = "Generic" /\ Len(ps) < 2
    \/ Len(ps) < MinRequiredParameters(kind, ps)

\* The check throws std::logic_error.
WrongType(kind, ps) ==
    \E i \in 1 .. MinRequiredParameters(kind, ps) : ps[i].type # "UInt64"

validateParams(kind, ps) ==
    IF TooShort(kind, ps) THEN "out_of_range"
    ELSE IF WrongType(kind, ps) THEN "logic_error"
    ELSE "ok"
=============================================================================
