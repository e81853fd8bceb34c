----------------------------- MODULE Descriptions -----------------------------
(***************************************************************************)
(* Benchmark descriptions and their default sets of workload parameters,   *)
(* on top of the bridge: how a backend registers them in its constructors  *)
(* (addDefaultParameters()), how the client learns their sizes and copies  *)
(* them into arrays of its own (getWorkloadParamsDetails(),                *)
(* describeBenchmark()), and how it passes one back to createBenchmark(),  *)
(* which is that of the example backend.                                   *)
(*                                                                         *)
(* The client zeroes its arrays before the call and passes a prefix of one *)
(* of them, or a null pointer, as the parameters of a benchmark.  The      *)
(* BenchmarkDescriptor itself is data that is copied.                      *)
(***************************************************************************)
EXTENDS Bridge, ParamLists

CONSTANTS
    Catalogs,    \* what engines register: the sets added to each description
    Dimension,   \* the one dimension the example supports, 100 in the code
    MaxArrays,   \* bound on the number of arrays the client passes,
    MaxCapacity  \*   and on the capacity of each

ASSUME CatalogAssumption ==
    /\ \A c \in Catalogs : c \in Seq(Seq(Seq(Param))) /\ Len(c) <= 3
    /\ Dimension \in Word
    /\ MaxArrays \in Nat /\ MaxCapacity \in Nat

VARIABLES
    sets,        \* m_default_params of each description of each engine
    arrays,      \* the client's arrays of parameters
    request      \* the description they were filled from, and what came of it

descVars == <<vars, sets, arrays, request>>

Capacities ==
    UNION {[1 .. k -> 0 .. MaxCapacity] : k \in 0 .. MaxArrays}
Zeroed(capacity) == [i \in 1 .. capacity |-> NoParam]
NoRequest == [engine |-> None, index |-> 0, status |-> "none", array |-> 0,
              count |-> 0]
Asking(e, i, status) ==
    [engine |-> e, index |-> i, status |-> status, array |-> 0, count |-> 0]

DefaultsOf(e, hd) == sets[e][hd.p + 1]
getWorkloadParameterCount(defaults) ==
    IF defaults = <<>> THEN 0 ELSE Len(defaults[1])

Nothing == UNCHANGED <<sets, arrays, request>>
-----------------------------------------------------------------------------
(* Registration.                                                           *)

\* Faulty variant: a set of any size is added after an empty one.
AnySizeAfterEmpty(defaults, new) ==
    defaults # <<>> /\ defaults[1] # <<>> => Len(defaults[1]) = Len(new)

\* addDefaultParameters() throws std::invalid_argument unless this holds.
SameSize(defaults, new) == defaults # <<>> => Len(defaults[1]) = Len(new)

\* Whether all the sets of a description can be added, one after the other.
Registers(added) ==
    \A k \in DOMAIN added : SameSize(SubSeq(added, 1, k - 1), added[k])

\* initEngine(): the engine registers its descriptions, or fails with the
\* exception of the one that cannot be made, or in some other way.
RegisterAll ==
    \/ \E c \in Catalogs :
          \/ /\ \A i \in DOMAIN c : Registers(c[i])
             /\ InitEngine
             /\ \E e \in engines' \ engines :
                   descriptors'[e] = Len(c) /\ sets' = [sets EXCEPT ![e] = c]
          \/ /\ \E i \in DOMAIN c : ~Registers(c[i])
             /\ ThrowStd
             /\ UNCHANGED <<heap, held, sets>>
    \/ InitEngine /\ engines' = engines /\ UNCHANGED sets
-----------------------------------------------------------------------------
(* Queries.                                                                *)

GetWorkloadParamsDetails(he, hd) ==
    /\ checkHandleBits(he, BaseEngineTag)
    /\ \/ ~matchBenchmark(he.p, hd) /\ Reject(CRITICAL)
       \/ matchBenchmark(he.p, hd) /\ Succeed /\ UNCHANGED <<heap, held>>

\* The sets that describeBenchmark() looks at, and the first arrays that are
\* too small for theirs.
Asked(defaults, caps) == {j \in DOMAIN caps : j <= Len(defaults)}
TooSmall(defaults, caps) ==
    {j \in Asked(defaults, caps) : caps[j] < Len(defaults[j])}

\* Faulty variant: what fits is copied before the capacity is looked at.
WriteWhatFits(defaults, caps) ==
    [j \in DOMAIN caps |->
       [i \in 1 .. caps[j] |->
          IF /\ j \in Asked(defaults, caps)
             /\ \A k \in 1 .. j - 1 : k \notin TooSmall(defaults, caps)
             /\ i <= Len(defaults[j])
          THEN defaults[j][i] ELSE NoParam]]

\* The arrays after the call: sets are copied until one finds no space.
Write(defaults, caps) ==
    [j \in DOMAIN caps |->
       [i \in 1 .. caps[j] |->
          IF /\ j \in Asked(defaults, caps)
             /\ \A k \in 1 .. j : k \notin TooSmall(defaults, caps)
             /\ i <= Len(defaults[j])
          THEN defaults[j][i] ELSE NoParam]]

\* describeBenchmark().  No arrays stand for a null pointer as well.
DescribeBenchmark(he, hd, caps) ==
    /\ checkHandleBits(he, BaseEngineTag)
    /\ UNCHANGED <<heap, held, sets>>
    /\ \/ /\ ~matchBenchmark(he.p, hd)
          /\ Throw(CRITICAL)
          /\ UNCHANGED <<arrays, request>>
       \/ /\ matchBenchmark(he.p, hd)
          /\ LET defaults == DefaultsOf(he.p, hd) IN
             /\ arrays' = Write(defaults, caps)
             /\ \/ /\ TooSmall(defaults, caps) = {}
                   /\ Succeed
                   /\ request' = Asking(he.p, hd.p, "described")
                \/ /\ TooSmall(defaults, caps) # {}
                   /\ Throw(CRITICAL)
                   /\ request' = Asking(he.p, hd.p, "insufficient")
-----------------------------------------------------------------------------
(* Creation.                                                               *)

\* Faulty variant: a longer list than the workload requires is refused.
ExactlyThree(ps) ==
    IF Len(ps) # FixedCount["MatrixMultiply"] THEN INVALID_ARGS
    ELSE IF validateParams("MatrixMultiply", ps) # "ok" THEN CRITICAL
    ELSE IF \E i \in 1 .. 3 : ps[i].bits # Dimension THEN INVALID_ARGS
    ELSE SUCCESS

\* ExampleBenchmark::ExampleBenchmark(): the code of what it throws.
WorkloadError(ps) ==
    IF Len(ps) < FixedCount["MatrixMultiply"] THEN INVALID_ARGS
    ELSE IF validateParams("MatrixMultiply", ps) # "ok" THEN CRITICAL
    ELSE IF \E i \in 1 .. 3 : ps[i].bits # Dimension THEN INVALID_ARGS
    ELSE SUCCESS

\* ExampleBenchmarkDescription::createBenchmark() without parameters.
CreateWithNull(he, hd) ==
    /\ checkHandleBits(he, BaseEngineTag)
    /\ Reject(CRITICAL)
    /\ Nothing

\* createBenchmark() with the first count parameters of the j-th array.
CreateFrom(he, hd, j, count) ==
    /\ checkHandleBits(he, BaseEngineTag)
    /\ UNCHANGED <<sets, arrays>>
    /\ LET error == WorkloadError(SubSeq(arrays[j], 1, count))
           Then(status) ==
             IF request.engine = he.p /\ request.index = hd.p
             THEN request' = [request EXCEPT !.status = status, !.array = j,
                                             !.count = count]
             ELSE UNCHANGED request
       IN  \/ ~matchBenchmark(he.p, hd) /\ Reject(CRITICAL) /\ UNCHANGED request
           \/ /\ matchBenchmark(he.p, hd) /\ error # SUCCESS
              /\ Reject(error)
              /\ Then("refused")
           \/ /\ matchBenchmark(he.p, hd) /\ error = SUCCESS
              /\ CreateBenchmark(he, hd) /\ benchEngine' # benchEngine
              /\ Then("accepted")

\* destroyHandle(): the descriptions go with their engine, and the client
\* forgets what it asked it.
Destroy(h) ==
    /\ DestroyHandle(h)
    /\ LET gone == engines \ engines' IN
       /\ sets' = [e \in Engine |-> IF e \in gone THEN <<>> ELSE sets[e]]
       /\ IF request.engine \in gone
          THEN request' = NoRequest /\ arrays' = <<>>
          ELSE UNCHANGED <<request, arrays>>
-----------------------------------------------------------------------------
DescInit ==
    /\ Init
    /\ sets = [e \in Engine |-> <<>>]
    /\ arrays = <<>>
    /\ request = NoRequest

DescNext ==
    \/ RejectNullArgument /\ Nothing
    \/ RegisterAll /\ UNCHANGED <<arrays, request>>
    \/ \E he \in Passed :
          \/ RejectEngineHandle(he) /\ Nothing
          \/ SubscribeBenchmarksCount(he) /\ Nothing
          \/ \E k \in DescCounts : SubscribeBenchmarks(he, k) /\ Nothing
          \/ \E hd \in Passed :
                \/ GetWorkloadParamsDetails(he, hd) /\ Nothing
                \/ \E caps \in Capacities : DescribeBenchmark(he, hd, caps)
                \/ CreateWithNull(he, hd)
                \/ \E j \in DOMAIN arrays :
                      \E count \in 0 .. Len(arrays[j]) :
                         CreateFrom(he, hd, j, count)
    \/ \E h \in Passed : Destroy(h)

DescSpec == DescInit /\ [][DescNext]_descVars
-----------------------------------------------------------------------------
(* Properties.                                                             *)

\* Type invariant: an engine that exists has its descriptions, all sets of a
\* description are of one size, and no array outgrows its capacity.
DescTypeOK ==
    /\ \A e \in Engine : Len(sets[e]) = descriptors[e]
    /\ \A e \in Engine : \A i \in DOMAIN sets[e] : \A k \in DOMAIN sets[e][i] :
          Len(sets[e][i][k]) = getWorkloadParameterCount(sets[e][i])
    /\ arrays \in Seq(Seq(Param)) /\ Len(arrays) <= MaxArrays
    /\ \A j \in DOMAIN arrays : Len(arrays[j]) <= MaxCapacity
    /\ request.engine \in engines \cup {None}

Requested == sets[request.engine][request.index + 1]

\* describeBenchmark() never fails on a client that made its arrays as large
\* as getWorkloadParamsDetails() told it: the size told is that of the first
\* set, and the sets are compared with it one by one as they are added.
AskedSuffices ==
    request.status = "insufficient" =>
       \E j \in DOMAIN arrays :
          Len(arrays[j]) < getWorkloadParameterCount(Requested)

\* Each array of the client holds one whole default set and zeroes, or zeroes
\* only, also when the call failed on the way: never part of a set, and never
\* nothing when the call succeeded.
Holds(array, set) ==
    /\ Len(set) <= Len(array)
    /\ SubSeq(array, 1, Len(set)) = set
    /\ \A i \in Len(set) + 1 .. Len(array) : array[i] = NoParam

WholeSets ==
    request.status # "none" =>
       \A j \in DOMAIN arrays :
          \/ j <= Len(Requested) /\ Holds(arrays[j], Requested[j])
          \/ /\ arrays[j] = Zeroed(Len(arrays[j]))
             /\ j > Len(Requested) \/ request.status # "described"

\* What a description advertises and the backend supports, it accepts: a
\* default set that went through describeBenchmark() into an array of the
\* client, and back with whatever follows it there, makes a benchmark.
Supports(set) == WorkloadError(set) = SUCCESS

AdvertisedAccepted ==
    request.status = "refused" /\ request.array <= Len(Requested) =>
       LET set == Requested[request.array] IN
       Supports(set) /\ Holds(arrays[request.array], set)
          => request.count < Len(set)
=============================================================================
