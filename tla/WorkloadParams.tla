---------------------------- MODULE WorkloadParams ----------------------------
(***************************************************************************)
(* An object of one of the classes of workload_params.hpp in the hands of  *)
(* a client (the Test Harness or a backend): it is made from counts, from  *)
(* values or from a list of parameters, copied into objects of other       *)
(* classes, read, changed and extended.                                    *)
(*                                                                         *)
(* The client changes parameters through the base class only in a Common   *)
(* object: workload_params.hpp discourages it for the other classes.  An   *)
(* object whose constructor throws does not come to exist, and the client  *)
(* keeps the one it had.                                                   *)
(***************************************************************************)
EXTENDS ParamLists, Answers

CONSTANTS
    MaxLen,     \* longest list that fits in memory
    Bits,       \* words the client gives to the parameters of each type
    Counts,     \* numbers it gives to the constructor of Generic
    Asked       \* places of parameters and of lengths that it asks for

\* A list is far shorter than a word counts: each parameter takes many bytes.
\* The client gives any words.
ASSUME ClientAssumption ==
    /\ MaxLen \in Nat \ (0 .. 2) /\ MaxLen < Modulus
    /\ Bits \in [ParamType -> SUBSET Word]
    /\ Counts \subseteq Word
    /\ Asked \subseteq Word

VARIABLES
    kind,       \* class of the object
    params,     \* Common::m_w_params
    answer,     \* what the last call came to
    wrapped     \* whether a Generic object was taken from a list of which
                \* n + m + 2 wraps around (history)

paramVars == <<kind, params, answer, wrapped>>

Given == {[type |-> t, bits |-> b] : t \in ParamType, b \in Word}
Chosen == {p \in Given : p.bits \in Bits[p.type]}
Value == Bits["UInt64"]

Refused(call, i, status) ==
    answer' = Ended(call, i, status, 0) /\ UNCHANGED <<kind, params, wrapped>>

\* A constructor made an object of its own list.
Becomes(k, ps, call) ==
    kind' = k /\ params' = ps /\ wrapped' = FALSE /\ answer' = Done(call)
-----------------------------------------------------------------------------
(* Constructors.                                                           *)

\* Common(num_params): value-initialised parameters.
MakeCommon ==
    \E len \in 0 .. MaxLen :
       Becomes("Common", [i \in 1 .. len |-> NoParam], "Object")

\* The values of the required parameters of a fixed class.
MakeFixed ==
    \E k \in Fixed : \E vs \in [1 .. FixedCount[k] -> Value] :
       Becomes(k, [i \in 1 .. FixedCount[k] |-> UInt(vs[i])], "Object")

\* The size of the list of a new Generic, a word.
GenericSize(in, out) == Wrap(in + out + 2)

\* The counts, and a length of one for each input and result.
GenericList(in, out) ==
    [i \in 1 .. GenericSize(in, out) |-> UInt(IF i = 1 THEN in
                                             ELSE IF i = 2 THEN out
                                             ELSE 1)]

\* Faulty variant: the list is written to without a check of its size.
PlacesInList(in, out) == 0 .. GenericSize(in, out) - 1

\* The places that the calls of set() in Generic(_n, _m) write to.
SetPlaces(in, out) ==
    {0, 1} \cup {Wrap(2 + i) : i \in 0 .. in - 1}
           \cup {Wrap(2 + in + i) : i \in 0 .. out - 1}

\* Generic(_n, _m).  A list too long for std::vector or for the memory is not
\* made, and a set() throws for a place that is not in the list.
MakeGeneric ==
    \E in, out \in Counts :
       LET size == GenericSize(in, out) IN
       \/ /\ size > MaxLen
          /\ \E status \in {"length_error", "bad_alloc"} :
                Refused("Counts", 0, status)
       \/ /\ size <= MaxLen /\ ~(SetPlaces(in, out) \subseteq 0 .. size - 1)
          /\ Refused("Counts", 0, "out_of_range")
       \/ /\ size <= MaxLen /\ SetPlaces(in, out) \subseteq 0 .. size - 1
          /\ Becomes("Generic", GenericList(in, out), "Counts")

\* The least number of parameters that holds all lengths is not a word.
Wraps(ps) == n(ps) + m(ps) + 2 >= Modulus

\* An object of class k from the list of another: getParams() and the
\* constructors that take a vector or a WorkloadParams.  Their validation lets
\* lists through whose counts wrap around to few enough.
MakeFrom(k) ==
    LET status == validateParams(k, params) IN
    \/ status # "ok" /\ Refused("Object", 0, status)
    \/ /\ status = "ok"
       /\ kind' = k /\ UNCHANGED params
       /\ wrapped' = (k = "Generic" /\ Wraps(params))
       /\ answer' = Done("Object")
-----------------------------------------------------------------------------
(* Parameters, through Common: add(), set() and get().                     *)

Parameter(i) == Ended("Parameter", i, "ok", params'[i + 1].bits)

Add ==
    /\ Len(params) < MaxLen
    /\ \E p \in Chosen : params' = Append(params, p)
    /\ answer' = Parameter(Len(params))
    /\ UNCHANGED <<kind, wrapped>>

Set(i) ==
    /\ kind = "Common"
    /\ \/ i >= Len(params) /\ Refused("Parameter", i, "out_of_range")
       \/ /\ i < Len(params)
          /\ \E p \in Chosen : params' = [params EXCEPT ![i + 1] = p]
          /\ answer' = Parameter(i)
          /\ UNCHANGED <<kind, wrapped>>

\* get() reads the union as the type it is asked for.
Get(i) ==
    \/ i >= Len(params) /\ Refused("Parameter", i, "out_of_range")
    \/ /\ i < Len(params)
       /\ UNCHANGED <<kind, params, wrapped>>
       /\ answer' = Parameter(i)

\* rows_M0(), cols_M0(), cols_M1(), n(), m() and k() of the fixed classes:
\* references to the bits of a required parameter.
Field(i) ==
    /\ kind \in Fixed /\ i < FixedCount[kind]
    /\ \E v \in Value : params' = [params EXCEPT ![i + 1].bits = v]
    /\ answer' = Parameter(i)
    /\ UNCHANGED <<kind, wrapped>>
-----------------------------------------------------------------------------
(* Lengths, through Generic.                                               *)

InputIndex(ps, i) == Wrap(i + 2)
\* Faulty variant: the results are taken to start where the inputs do.
ResultAsInput(ps, i) == Wrap(i + 2)
ResultIndex(ps, i) == Wrap(i + n(ps) + 2)

\* The call looks at a parameter that exists, and the client, who gets its
\* bits or a reference to them, leaves it alone or writes to it.
Look(call, i, index, mayWrite) ==
    \/ index >= Len(params) /\ Refused(call, i, "out_of_range")
    \/ /\ index < Len(params)
       /\ \/ UNCHANGED params
          \/ /\ mayWrite
             /\ \E v \in Value : params' = [params EXCEPT ![index + 1].bits = v]
       /\ answer' = Ended(call, i, "ok", params'[index + 1].bits)
       /\ UNCHANGED <<kind, wrapped>>

\* The const overload lets an index through that the other one refuses.
length_InputParamConst(i) ==
    /\ kind = "Generic"
    /\ \/ i > n(params) /\ Refused("ConstInput", i, "out_of_range")
       \/ /\ i <= n(params)
          /\ Look("ConstInput", i, InputIndex(params, i), FALSE)

length_InputParam(i) ==
    /\ kind = "Generic"
    /\ \/ i >= n(params) /\ Refused("Input", i, "out_of_range")
       \/ i < n(params) /\ Look("Input", i, InputIndex(params, i), TRUE)

\* Both overloads.
length_ResultComponent(i) ==
    /\ kind = "Generic"
    /\ \/ i >= m(params) /\ Refused("Result", i, "out_of_range")
       \/ i < m(params) /\ Look("Result", i, ResultIndex(params, i), TRUE)
-----------------------------------------------------------------------------
Init ==
    /\ kind = "Common" /\ params = <<>> /\ answer = Done("Object")
    /\ wrapped = FALSE

Next ==
    \/ MakeCommon \/ MakeFixed \/ MakeGeneric
    \/ \E k \in Kind : MakeFrom(k)
    \/ Add
    \/ \E i \in Asked :
          \/ Set(i) \/ Get(i) \/ Field(i)
          \/ length_InputParamConst(i) \/ length_InputParam(i)
          \/ length_ResultComponent(i)

Spec == Init /\ [][Next]_paramVars
-----------------------------------------------------------------------------
(* Properties.                                                             *)

\* Type invariant: the list is one of parameters, and the fields or counts of
\* the class are in it.
TypeOK ==
    /\ kind \in Kind
    /\ params \in Seq(Param) /\ Len(params) <= MaxLen
    /\ kind \in Fixed => Len(params) >= FixedCount[kind]
    /\ kind = "Generic" => Len(params) >= 2
    /\ wrapped \in BOOLEAN /\ (wrapped => kind = "Generic")

\* An object can be handed on through getParams(): whatever was done to it
\* since, its class takes its list again, as do the constructors of a backend
\* that receives it as flexible parameters.  A list whose counts wrap around
\* when it is taken is the only way to an object with which it is otherwise:
\* no constructor from counts and no write makes the counts of another wrap.
RoundTrip ==
    ~wrapped => /\ validateParams(kind, params) = "ok"
                /\ kind = "Generic" => ~Wraps(params)

\* A Generic object behaves as the two lists of lengths that its accessors
\* show: they lie one after the other in one list of parameters, where a
\* result's place depends on the number of inputs.  An object taken from a
\* list whose counts wrap around is no object of Lengths, and what it answers
\* is no promise: its list is too short for the lengths it speaks of.
HasLengths == kind = "Generic" /\ ~wrapped
Part(ps, first, count) == [i \in 1 .. count |-> ps[first + i].bits]
inputLengths == IF HasLengths THEN Part(params, 2, n(params)) ELSE <<>>
resultLengths ==
    IF HasLengths THEN Part(params, 2 + n(params), m(params)) ELSE <<>>
promised == IF wrapped THEN Done("Object") ELSE answer
Promised == INSTANCE Lengths WITH
               Length <- Word, Index <- Asked, inputs <- inputLengths,
               results <- resultLengths, answer <- promised
ImplementsLengths == Promised!LengthsSpec
-----------------------------------------------------------------------------
(* What a message of workload_params.hpp says.                             *)

\* Generic::length_InputParam(): "Index out of range; ..., expected less than
\* " the number of inputs.
LessThanN ==
    kind = "Generic" /\ answer.call = "ConstInput" /\ answer.status = "ok"
       => answer.index < n(params)
=============================================================================
