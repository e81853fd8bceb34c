---------------------------- MODULE MCDescriptions ----------------------------
(* The dimension is 2 and words have three bits.  Two arrays of up to four  *)
(* parameters: two sets of three fit, with room for one more in each, and   *)
(* every smaller capacity occurs as the first and as the second.            *)
EXTENDS Descriptions

CONSTANTS e1, b1, w1

OneEngine == {e1}
OneBench == {b1}
OneWrapper == {w1}
NoObjects == {}
NoBits == {}
UpToTwo == {0, 1, 2}
Codes == {"HEBENCH_ECODE_INVALID_ARGS"}

Square == <<UInt(2), UInt(2), UInt(2)>>
Other == <<UInt(2), UInt(1), UInt(2)>>
Longer == <<UInt(2), UInt(2), UInt(2), UInt(5)>>
Signed == <<UInt(2), [type |-> "Int64", bits |-> 2], UInt(2)>>
Short == <<UInt(2)>>

\* The example's; several sets and descriptions; none; empty sets; sets that
\* do not go together, in the first or in a later description.
SomeCatalogs ==
    {<<<<Square>>>>,
     <<<<Other, Square>>, <<Short>>>>,
     <<<<Longer>>, <<Signed, Square>>>>,
     <<<<>>>>, <<>>, <<<<<<>>, <<>>>>>>,
     <<<<Square, Short>>>>, <<<<<<>>, Short>>>>,
     <<<<Square>>, <<Short, Longer>>>>}
=============================================================================
