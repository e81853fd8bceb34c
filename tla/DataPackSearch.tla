--------------------------- MODULE DataPackSearch ---------------------------
(***************************************************************************)
(* The loop of BaseBenchmark::findDataPackIndex(), step by step, against   *)
(* the result DataPacks!findDataPackIndex says it computes.  retval serves *)
(* as the result, as the mark that nothing was found (any value from       *)
(* pack_count on) and in the loop condition.                               *)
(***************************************************************************)
EXTENDS DataPacks

CONSTANTS
    Position,   \* parameter positions that packs and callers name
    MaxPacks    \* packs in a collection, at most

ASSUME SearchAssumption == Position \subseteq Nat /\ MaxPacks \in Nat

VARIABLES
    parameters,     \* the DataPackCollection
    param_position, \* the position looked for
    i, retval,      \* locals of the function
    pc              \* "start", "loop" or "done"

vars == <<parameters, param_position, i, retval, pc>>

DataPack == [param_position : Position]

\* p_data_packs may be null while pack_count is not zero.
Collection ==
    [pack_count : 0 .. MaxPacks, null : BOOLEAN,
     p_data_packs : UNION {[1 .. n -> DataPack] : n \in 0 .. MaxPacks}]
WellFormed(c) == Len(c.p_data_packs) = c.pack_count

Count == parameters.pack_count
Packs == parameters.p_data_packs

\* Faulty variant: the result starts as the position itself.
InitAtPosition ==
    /\ parameters \in {c \in Collection : WellFormed(c)}
    /\ param_position \in Position
    /\ i = 0
    /\ retval = param_position
    /\ pc = "start"

Init ==
    /\ parameters \in {c \in Collection : WellFormed(c)}
    /\ param_position \in Position
    /\ i = 0
    /\ retval = parameters.pack_count
    /\ pc = "start"

\* The pack at the index of the position is the one for the position.
AtItsIndex ==
    param_position < Count /\ PackAt(Packs, param_position) = param_position

\* Nothing to search, or the pack is where its position says.
Start ==
    /\ pc = "start"
    /\ \/ parameters.null /\ pc' = "done" /\ UNCHANGED retval
       \/ /\ ~parameters.null /\ AtItsIndex
          /\ retval' = param_position
          /\ pc' = "done"
       \/ /\ ~parameters.null /\ ~AtItsIndex
          /\ pc' = "loop"
          /\ UNCHANGED retval
    /\ UNCHANGED <<parameters, param_position, i>>

\* Faulty variant: the loop goes on after a match.
SearchOn == i < Count

Searching == retval >= Count /\ i < Count

\* Faulty variant: the loop advances past matches only.
LoopStuck ==
    /\ pc = "loop" /\ Searching
    /\ retval' = IF PackAt(Packs, i) = param_position THEN i ELSE retval
    /\ i' = IF PackAt(Packs, i) = param_position THEN i + 1 ELSE i
    /\ UNCHANGED <<parameters, param_position, pc>>

Loop ==
    /\ pc = "loop" /\ Searching
    /\ retval' = IF PackAt(Packs, i) = param_position THEN i ELSE retval
    /\ i' = i + 1
    /\ UNCHANGED <<parameters, param_position, pc>>

Finish ==
    /\ pc = "loop" /\ ~Searching
    /\ pc' = "done"
    /\ UNCHANGED <<parameters, param_position, i, retval>>

Next == Start \/ Loop \/ Finish
Spec == Init /\ [][Next]_vars /\ WF_vars(Next)
-----------------------------------------------------------------------------
\* Types, and the bound by which a caller tells a match from none.
TypeOK ==
    /\ parameters \in Collection /\ WellFormed(parameters)
    /\ param_position \in Position
    /\ i \in 0 .. Count /\ retval \in 0 .. Count
    /\ pc \in {"start", "loop", "done"}

\* When the function returns, its result is the one backends rely on: the pack
\* at the index of the position if that one is for it, else the first that is.
ResultIsMatch ==
    pc = "done" =>
       retval = IF parameters.null THEN Count
                ELSE findDataPackIndex(Packs, param_position)

\* The search ends, for every collection.
Terminates == <>(pc = "done")
=============================================================================
