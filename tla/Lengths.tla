------------------------------- MODULE Lengths -------------------------------
(***************************************************************************)
(* What WorkloadParams::Generic promises: the lengths of the inputs of an  *)
(* operation and those of its results, two lists that have nothing to do   *)
(* with each other.  A new object has lengths of one; asking for a         *)
(* component that exists is answered with its length, which the client may *)
(* then change; asking for one that does not exist fails and changes       *)
(* nothing.  A const object says nothing reliable of the first input that  *)
(* does not exist.                                                         *)
(***************************************************************************)
EXTENDS Naturals, Sequences, Answers

CONSTANTS Length,    \* what a length may be
          Index      \* what the client may ask for

VARIABLES inputs, results,  \* lengths, by component
          answer            \* what was asked last, and how it ended

lengthVars == <<inputs, results, answer>>

LengthsInit ==
    inputs = <<>> /\ results = <<>> /\ answer = Done("Object")

New ==
    /\ inputs' \in Seq({1}) /\ results' \in Seq({1})
    /\ answer' = Done("Counts")

\* The object is replaced by one made from a list, or of another class.
Take ==
    /\ inputs' \in Seq(Length) /\ results' \in Seq(Length)
    /\ answer' = Done("Object")

\* A constructor that throws, or parameters that hold no length.
Keep ==
    /\ answer'.call \in {"Object", "Counts", "Parameter"}
    /\ UNCHANGED <<inputs, results>>

Unspecified(i) ==
    {Ended("ConstInput", i, "ok", v) : v \in Length}
    \cup {Ended("ConstInput", i, "out_of_range", 0)}

\* An existing input is asked for, and may be given another length.
Input(i) ==
    /\ i < Len(inputs)
    /\ answer' = Ended("Input", i, "ok", inputs'[i + 1])
    /\ \E v \in Length : inputs' = [inputs EXCEPT ![i + 1] = v]
    /\ UNCHANGED results

Result(i) ==
    /\ i < Len(results)
    /\ answer' = Ended("Result", i, "ok", results'[i + 1])
    /\ \E v \in Length : results' = [results EXCEPT ![i + 1] = v]
    /\ UNCHANGED inputs

NoSuch(i) ==
    /\ \/ i >= Len(inputs) /\ answer' = Ended("Input", i, "out_of_range", 0)
       \/ i >= Len(results) /\ answer' = Ended("Result", i, "out_of_range", 0)
    /\ UNCHANGED <<inputs, results>>

\* The const overload, which does not let the client change a length.
ConstInput(i) ==
    /\ i < Len(inputs)
    /\ answer' = Ended("ConstInput", i, "ok", inputs[i + 1])
    /\ UNCHANGED <<inputs, results>>

NoSuchConst(i) ==
    /\ \/ i = Len(inputs) /\ answer' \in Unspecified(i)
       \/ i > Len(inputs) /\ answer' = Ended("ConstInput", i, "out_of_range", 0)
    /\ UNCHANGED <<inputs, results>>

LengthsNext ==
    \/ New \/ Take \/ Keep
    \/ \E i \in Index :
          Input(i) \/ Result(i) \/ NoSuch(i) \/ ConstInput(i) \/ NoSuchConst(i)

LengthsSpec == LengthsInit /\ [][LengthsNext]_lengthVars
=============================================================================
