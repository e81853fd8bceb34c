-------------------------- MODULE DescriptionsProofs --------------------------
(***************************************************************************)
(* Descriptions and their default sets, for any number of engines, any     *)
(* sets of any sizes and arrays of any capacity.                           *)
(*                                                                         *)
(* What the client finds in its arrays is a matter of the engine the       *)
(* request went to: the invariant says that the arrays still are what      *)
(* describeBenchmark() makes of the sets that the description has now,     *)
(* which holds as long as the engine lives.                                *)
(***************************************************************************)
EXTENDS Descriptions, BridgeProofs, SequenceTheorems

\* The capacities the client asked with.
Capacity == [j \in DOMAIN arrays |-> Len(arrays[j])]

Uniform(defaults) ==
    \A k \in DOMAIN defaults : Len(defaults[k]) = Len(defaults[1])

SetsOK ==
    /\ sets \in [Engine -> Seq(Seq(Seq(Param)))]
    /\ \A e \in Engine : Len(sets[e]) = descriptors[e]
    /\ \A e \in Engine : \A i \in DOMAIN sets[e] : Uniform(sets[e][i])

ArraysOK ==
    /\ arrays \in Seq(Seq(Param)) /\ Len(arrays) <= MaxArrays
    /\ \A j \in DOMAIN arrays : Len(arrays[j]) <= MaxCapacity

\* A creation that was refused got a list that the workload has an error for.
Refusal ==
    /\ request.array \in DOMAIN arrays
    /\ request.count \in 0 .. Len(arrays[request.array])
    /\ WorkloadError(SubSeq(arrays[request.array], 1, request.count)) # SUCCESS

Answered ==
    /\ request.engine \in engines
    /\ request.index \in DescIndex
    /\ request.index < descriptors[request.engine]
    /\ arrays = Write(Requested, Capacity)
    /\ request.status = "described" => TooSmall(Requested, Capacity) = {}
    /\ request.status = "insufficient" => TooSmall(Requested, Capacity) # {}
    /\ request.status = "refused" => Refusal

RequestOK ==
    /\ request \in [engine : Engine \cup {None}, index : DescIndex,
                    status : {"none", "described", "insufficient", "refused",
                              "accepted"},
                    array : Nat, count : Nat]
    /\ \/ request = NoRequest /\ arrays = <<>>
       \/ Answered

DescInv == IInv /\ SetsOK /\ ArraysOK /\ RequestOK

-----------------------------------------------------------------------------
(* Default sets.                                                           *)

\* Sets that could be added one after the other are of one size.
LEMMA RegisteredUniform ==
    ASSUME NEW added \in Seq(Seq(Param)), Registers(added)
    PROVE  Uniform(added)
<1> SUFFICES ASSUME NEW k \in DOMAIN added
             PROVE  Len(added[k]) = Len(added[1])
  BY DEF Uniform
<1>1. DOMAIN added = 1 .. Len(added) /\ Len(added) \in Nat
  BY LenProperties
<1>2. CASE k = 1
  BY <1>2
<1>3. CASE k # 1
  <2> DEFINE before == SubSeq(added, 1, k - 1)
  <2>1. k \in Int /\ k - 1 \in Int /\ 1 <= k - 1
    BY <1>1, <1>3
  <2>2. \A i \in 1 .. k - 1 : added[i] \in Seq(Param)
    BY <1>1, ElementOfSeq
  <2>3. /\ before \in Seq(Seq(Param)) /\ Len(before) = (k - 1) - 1 + 1
        /\ \A i \in 1 .. (k - 1) - 1 + 1 : before[i] = added[1 + i - 1]
    BY <2>1, <2>2, SubSeqProperties
  <2>4. before # <<>> /\ before[1] = added[1]
    <3>1. Len(before) # 0 /\ 1 \in 1 .. (k - 1) - 1 + 1 /\ 1 + 1 - 1 = 1
      BY <2>1, <2>3
    <3>2. before[1] = added[1 + 1 - 1]
      BY <2>3, <3>1
    <3>3. before # <<>>
      BY <3>1, EmptySeq
    <3> QED
      BY <3>1, <3>2, <3>3
  <2>5. SameSize(before, added[k])
    BY DEF Registers
  <2> QED
    BY <2>4, <2>5 DEF SameSize
<1> QED
  BY <1>2, <1>3

LEMMA FunctionIsSeq ==
    ASSUME NEW S, NEW q \in Nat, NEW f \in [1 .. q -> S]
    PROVE  f \in Seq(S) /\ Len(f) = q
  OBVIOUS

\* Whether a is an array of k arrays of parameters with these capacities.
OfCapacity(a, k, caps) ==
    /\ a \in Seq(Seq(Param)) /\ Len(a) = k /\ DOMAIN a = 1 .. k
    /\ \A j \in 1 .. k : Len(a[j]) = caps[j]
    /\ caps = [j \in DOMAIN a |-> Len(a[j])]

\* The arrays that describeBenchmark() writes are as large as they were.
LEMMA Written ==
    ASSUME NEW defaults \in Seq(Seq(Param)), NEW k \in 0 .. MaxArrays,
           NEW caps \in [1 .. k -> 0 .. MaxCapacity]
    PROVE  OfCapacity(Write(defaults, caps), k, caps)
<1> DEFINE a == Write(defaults, caps)
           at == [j \in 1 .. k |->
                    [i \in 1 .. caps[j] |->
                       IF /\ j \in Asked(defaults, caps)
                          /\ \A l \in 1 .. j :
                                l \notin TooSmall(defaults, caps)
                          /\ i <= Len(defaults[j])
                       THEN defaults[j][i] ELSE NoParam]]
<1>1. k \in Nat /\ MaxCapacity \in Nat
  BY CatalogAssumption
<1>2. a = at
  BY DEF Write
<1>3. ASSUME NEW j \in 1 .. k
      PROVE  at[j] \in [1 .. caps[j] -> Param]
  <2> SUFFICES ASSUME NEW i \in 1 .. caps[j]
               PROVE  at[j][i] \in Param
    OBVIOUS
  <2>1. NoParam \in Param
    BY ModulusAssumption DEF NoParam, Param, Untyped, Word
  <2>2. CASE j \in Asked(defaults, caps) /\ i <= Len(defaults[j])
    <3>1. j \in 1 .. Len(defaults)
      BY <2>2 DEF Asked
    <3>2. defaults[j] \in Seq(Param)
      BY <3>1, ElementOfSeq
    <3>3. i \in 1 .. Len(defaults[j])
      BY <1>1, <2>2, <3>2
    <3>4. defaults[j][i] \in Param
      BY <3>2, <3>3, ElementOfSeq
    <3> QED
      BY <2>1, <3>4
  <2> QED
    BY <2>1, <2>2
<1>4. at = [j \in 1 .. k |-> at[j]]
  OBVIOUS
<1> HIDE DEF at, a
<1>5. ASSUME NEW j \in 1 .. k
      PROVE  a[j] \in Seq(Param) /\ Len(a[j]) = caps[j]
  <2>1. caps[j] \in Nat /\ a[j] \in [1 .. caps[j] -> Param]
    BY <1>1, <1>2, <1>3
  <2> QED
    BY <2>1, FunctionIsSeq
<1>6. a \in Seq(Seq(Param)) /\ Len(a) = k /\ DOMAIN a = 1 .. k
  <2>1. a \in [1 .. k -> Seq(Param)]
    BY <1>2, <1>4, <1>5
  <2> QED
    BY <1>1, <2>1, FunctionIsSeq
<1>7. caps = [j \in DOMAIN a |-> Len(a[j])]
  BY <1>5, <1>6
<1> QED
  BY <1>5, <1>6, <1>7 DEF a, OfCapacity

-----------------------------------------------------------------------------
(* The bridge below.                                                       *)

\* A handle that passes for an engine's is the handle of an engine.
LEMMA EngineHandle ==
    ASSUME IInv, NEW he \in Passed, checkHandleBits(he, BaseEngineTag)
    PROVE  he \in held /\ he.p \in engines /\ he.p \in Engine
  BY DEF checkHandleBits, Passed, NullHandle, IInv, TypeOK, TagSound,
     NoDangling

LEMMA WorkloadCodes ==
    ASSUME NEW ps
    PROVE  WorkloadError(ps) \in ErrorCode
  BY DEF WorkloadError, ErrorCode

\* What registration, the queries and creation with parameters do to the
\* heap, the bridge knows of.
LEMMA BridgeStep ==
    ASSUME IInv, [DescNext]_descVars
    PROVE  IInv'
<1>1. CASE UNCHANGED descVars
  BY <1>1, NothingChanged DEF descVars, vars, IInv, TypeOK, CodesOK
<1>2. CASE RejectNullArgument
  BY <1>2, Endings, Rejected DEF RejectNullArgument, IInv
<1>3. CASE RegisterAll
  <2>1. CASE ThrowStd /\ UNCHANGED <<heap, held>>
    BY <2>1, Endings, NothingChanged DEF IInv
  <2> QED
    BY <1>3, <2>1, InitEnginePreserves DEF RegisterAll
<1>4. ASSUME NEW he \in Passed, RejectEngineHandle(he)
      PROVE  IInv'
  BY <1>4, Endings, Rejected DEF RejectEngineHandle, IInv
<1>5. ASSUME NEW he \in Passed, SubscribeBenchmarksCount(he)
      PROVE  IInv'
  BY <1>5, SubscribeBenchmarksCountPreserves
<1>6. ASSUME NEW he \in Passed, NEW k \in DescCounts,
             SubscribeBenchmarks(he, k)
      PROVE  IInv'
  BY <1>6, SubscribeBenchmarksPreserves
<1>7. ASSUME NEW he \in Passed, NEW hd \in Passed,
             GetWorkloadParamsDetails(he, hd)
      PROVE  IInv'
  <2>1. CASE Reject(CRITICAL)
    BY <2>1, Endings, Rejected DEF IInv
  <2>2. CASE Succeed /\ UNCHANGED <<heap, held>>
    BY <2>2, Endings, NothingChanged DEF IInv
  <2> QED
    BY <1>7, <2>1, <2>2 DEF GetWorkloadParamsDetails
<1>8. ASSUME NEW he \in Passed, NEW hd \in Passed, NEW caps \in Capacities,
             DescribeBenchmark(he, hd, caps)
      PROVE  IInv'
  <2>1. UNCHANGED <<heap, held>> /\ (Succeed \/ Throw(CRITICAL))
    BY <1>8 DEF DescribeBenchmark
  <2> QED
    BY <2>1, Endings, NothingChanged DEF IInv
<1>9. ASSUME NEW he \in Passed, NEW hd \in Passed, CreateWithNull(he, hd)
      PROVE  IInv'
  BY <1>9, Endings, Rejected DEF CreateWithNull, IInv
<1>10. ASSUME NEW he \in Passed, NEW hd \in Passed, NEW j \in DOMAIN arrays,
              NEW count \in 0 .. Len(arrays[j]), CreateFrom(he, hd, j, count)
       PROVE  IInv'
  <2> DEFINE error == WorkloadError(SubSeq(arrays[j], 1, count))
  <2>1. Reject(CRITICAL) \/ Reject(error) \/ CreateBenchmark(he, hd)
    BY <1>10 DEF CreateFrom
  <2>2. CRITICAL \in ErrorCode /\ error \in ErrorCode
    BY WorkloadCodes DEF ErrorCode
  <2> HIDE DEF error
  <2> QED
    BY <2>1, <2>2, Rejected, CreateBenchmarkPreserves
<1>11. ASSUME NEW h \in Passed, Destroy(h)
       PROVE  IInv'
  BY <1>11, DestroyHandlePreserves DEF Destroy
<1> QED
  BY <1>1, <1>2, <1>3, <1>4, <1>5, <1>6, <1>7, <1>8, <1>9, <1>10, <1>11
     DEF DescNext

-----------------------------------------------------------------------------
(* The sets of the descriptions.                                           *)

LEMMA SetsKept ==
    ASSUME SetsOK, UNCHANGED <<descriptors, sets>>
    PROVE  SetsOK'
  BY DEF SetsOK

\* The other engines, their descriptions and their sets, are not touched.
OthersKept ==
    \A e \in engines \cap engines' :
       sets'[e] = sets[e] /\ descriptors'[e] = descriptors[e]

LEMMA RegisterAllSets ==
    ASSUME IInv, SetsOK, RegisterAll
    PROVE  SetsOK' /\ OthersKept /\ engines \subseteq engines'
<1>1. CASE /\ engines' = engines /\ UNCHANGED sets
           /\ UNCHANGED descriptors
  BY <1>1, SetsKept DEF OthersKept
<1>2. ASSUME NEW c \in Catalogs, \A i \in DOMAIN c : Registers(c[i]),
             InitEngine, NEW e \in engines' \ engines,
             descriptors'[e] = Len(c), sets' = [sets EXCEPT ![e] = c]
      PROVE  SetsOK' /\ OthersKept /\ engines \subseteq engines'
  <2>1. /\ e \in Engine /\ engines' = engines \cup {e}
        /\ descriptors' = [descriptors EXCEPT ![e] = Len(c)]
    BY <1>2, Endings DEF InitEngine, heap, IInv, TypeOK
  <2>2. c \in Seq(Seq(Seq(Param)))
    BY CatalogAssumption
  <2>3. ASSUME NEW i \in DOMAIN c
        PROVE  Uniform(c[i])
    <3>1. c[i] \in Seq(Seq(Param))
      BY <2>2, ElementOfSeq, LenProperties
    <3> QED
      BY <1>2, <3>1, RegisteredUniform
  <2>4. SetsOK'
    BY <1>2, <2>1, <2>2, <2>3 DEF SetsOK, IInv, TypeOK
  <2>5. OthersKept
    BY <1>2, <2>1 DEF OthersKept, SetsOK, IInv, TypeOK
  <2> QED
    BY <2>1, <2>4, <2>5
<1>3. ASSUME InitEngine, engines' = engines
      PROVE  UNCHANGED descriptors
  BY <1>3 DEF InitEngine, heap
<1> QED
  BY <1>1, <1>2, <1>3 DEF RegisterAll, heap

LEMMA DestroySets ==
    ASSUME IInv, SetsOK, NEW h \in Passed, Destroy(h)
    PROVE  SetsOK' /\ OthersKept /\ engines' \subseteq engines
<1> DEFINE gone == engines \ engines'
<1>1. /\ sets' = [e \in Engine |-> IF e \in gone THEN <<>> ELSE sets[e]]
      /\ CallDestroyHandle(h)
  BY DEF Destroy, DestroyHandle
<1>2. CASE UNCHANGED <<engines, descriptors>>
  <2>1. sets' = sets
    BY <1>1, <1>2 DEF SetsOK
  <2> QED
    BY <1>2, <2>1, SetsKept DEF OthersKept
<1>3. CASE DestroyEngine(h)
  <2>1. h.p \in Engine /\ h.p \in engines
    BY <1>3, DispatchedHandle DEF DestroyEngine, IInv, NoDangling
  <2>2. /\ engines' = engines \ {h.p} /\ gone = {h.p}
        /\ descriptors' = [descriptors EXCEPT ![h.p] = 0]
    BY <1>3, <2>1 DEF DestroyEngine
  <2>3. <<>> \in Seq(Seq(Seq(Param))) /\ Len(<<>>) = 0 /\ DOMAIN <<>> = {}
    OBVIOUS
  <2> HIDE DEF gone
  <2>4. SetsOK'
    BY <1>1, <2>1, <2>2, <2>3 DEF SetsOK, IInv, TypeOK
  <2>5. OthersKept
    BY <1>1, <2>1, <2>2 DEF OthersKept, IInv, TypeOK
  <2> QED
    BY <2>2, <2>4, <2>5
<1> QED
  BY <1>1, <1>2, <1>3
     DEF CallDestroyHandle, DestroyNull, DestroyBenchmark, DestroyObject,
         DestroyDescription, DestroyUnknown, heap

-----------------------------------------------------------------------------
(* The request of the client, and its arrays.                              *)

\* What the client knows stays true while the engine it asked lives.
LEMMA RequestKept ==
    ASSUME RequestOK, UNCHANGED <<arrays, request>>,
           request.engine \in engines =>
              /\ request.engine \in engines'
              /\ sets'[request.engine] = sets[request.engine]
              /\ descriptors'[request.engine] = descriptors[request.engine]
    PROVE  RequestOK'
<1>1. CASE request = NoRequest /\ arrays = <<>>
  BY <1>1 DEF RequestOK
<1>2. CASE Answered
  <2>1. Requested' = Requested /\ Capacity' = Capacity
    BY <1>2 DEF Answered, Requested, Capacity
  <2>2. Answered'
    BY <1>2, <2>1 DEF Answered, Refusal
  <2> QED
    BY <2>2 DEF RequestOK
<1> QED
  BY <1>1, <1>2 DEF RequestOK

LEMMA MatchedDefaults ==
    ASSUME IInv, SetsOK, NEW he \in Passed, NEW hd,
           checkHandleBits(he, BaseEngineTag), matchBenchmark(he.p, hd)
    PROVE  /\ DefaultsOf(he.p, hd) \in Seq(Seq(Param))
           /\ Uniform(DefaultsOf(he.p, hd))
<1>1. he.p \in Engine
  BY EngineHandle
<1>2. hd.p \in 0 .. 2 /\ hd.p < Len(sets[he.p])
  BY <1>1 DEF matchBenchmark, SetsOK, DescIndex
<1>3. sets[he.p] \in Seq(Seq(Seq(Param)))
  BY <1>1 DEF SetsOK
<1>4. hd.p + 1 \in 1 .. Len(sets[he.p])
  BY <1>2, <1>3
<1> QED
  BY <1>1, <1>3, <1>4, ElementOfSeq, LenProperties DEF DefaultsOf, SetsOK

LEMMA DescribeBenchmarkRequest ==
    ASSUME IInv, SetsOK, ArraysOK, RequestOK, NEW he \in Passed,
           NEW hd \in Passed, NEW caps \in Capacities,
           DescribeBenchmark(he, hd, caps)
    PROVE  ArraysOK' /\ RequestOK'
<1>1. checkHandleBits(he, BaseEngineTag) /\ UNCHANGED <<heap, sets>>
  BY DEF DescribeBenchmark
<1>2. CASE UNCHANGED <<arrays, request>>
  BY <1>1, <1>2, RequestKept DEF ArraysOK, heap
<1>3. CASE matchBenchmark(he.p, hd)
  <2> DEFINE defaults == DefaultsOf(he.p, hd)
             tooSmall == TooSmall(defaults, caps)
  <2>1. he.p \in engines /\ he.p \in Engine
    BY <1>1, EngineHandle
  <2>2. defaults \in Seq(Seq(Param))
    BY <1>1, <1>3, MatchedDefaults
  <2>3. /\ arrays' = Write(defaults, caps)
        /\ \/ tooSmall = {} /\ request' = Asking(he.p, hd.p, "described")
           \/ tooSmall # {} /\ request' = Asking(he.p, hd.p, "insufficient")
    BY <1>3 DEF DescribeBenchmark
  <2>4. PICK k \in 0 .. MaxArrays : caps \in [1 .. k -> 0 .. MaxCapacity]
    BY DEF Capacities
  <2>5. OfCapacity(arrays', k, caps)
    <3> HIDE DEF defaults
    <3> QED
      BY <2>2, <2>3, <2>4, Written
  <2>6. caps = Capacity'
    BY <2>5 DEF Capacity, OfCapacity
  <2>7. ArraysOK'
    BY <2>4, <2>5, CatalogAssumption DEF ArraysOK, OfCapacity
  <2>8. /\ request'.engine = he.p /\ request'.index = hd.p
        /\ request'.status \in {"described", "insufficient"}
        /\ request'.array = 0 /\ request'.count = 0
        /\ request' \in [engine : Engine \cup {None}, index : DescIndex,
                         status : {"none", "described", "insufficient",
                                   "refused", "accepted"},
                         array : Nat, count : Nat]
    BY <1>3, <2>1, <2>3 DEF Asking, matchBenchmark
  <2>9. Requested' = defaults
    BY <1>1, <2>8 DEF Requested, DefaultsOf
  <2>10. /\ request'.status = "described" => tooSmall = {}
         /\ request'.status = "insufficient" => tooSmall # {}
    BY <2>3 DEF Asking
  <2>11. Answered'
    <3>1. /\ request'.engine \in engines' /\ request'.index \in DescIndex
          /\ request'.index < descriptors'[request'.engine]
      BY <1>1, <1>3, <2>1, <2>8 DEF heap, matchBenchmark
    <3>2. (arrays = Write(Requested, Capacity))'
      BY <2>3, <2>6, <2>9
    <3>3. /\ (request.status = "described" =>
                TooSmall(Requested, Capacity) = {})'
          /\ (request.status = "insufficient" =>
                TooSmall(Requested, Capacity) # {})'
      BY <2>6, <2>9, <2>10
    <3>4. (request.status = "refused" => Refusal)'
      BY <2>8
    <3> QED
      BY <3>1, <3>2, <3>3, <3>4 DEF Answered
  <2> QED
    BY <2>7, <2>8, <2>11 DEF RequestOK
<1> QED
  BY <1>2, <1>3 DEF DescribeBenchmark

LEMMA CreateFromRequest ==
    ASSUME IInv, SetsOK, ArraysOK, RequestOK, NEW he \in Passed,
           NEW hd \in Passed, NEW j \in DOMAIN arrays,
           NEW count \in 0 .. Len(arrays[j]), CreateFrom(he, hd, j, count)
    PROVE  SetsOK' /\ ArraysOK' /\ RequestOK'
<1> DEFINE error == WorkloadError(SubSeq(arrays[j], 1, count))
<1>1. checkHandleBits(he, BaseEngineTag) /\ UNCHANGED <<sets, arrays>>
  BY DEF CreateFrom
<1>2. UNCHANGED <<engines, descriptors>>
  BY DEF CreateFrom, CreateBenchmark, Reject, heap
<1>3. SetsOK' /\ ArraysOK'
  BY <1>1, <1>2, SetsKept DEF ArraysOK
<1>4. CASE UNCHANGED request
  BY <1>1, <1>2, <1>3, <1>4, RequestKept
<1>5. ASSUME NEW status \in {"refused", "accepted"},
             status = "refused" => error # SUCCESS,
             request.engine = he.p,
             request' = [request EXCEPT !.status = status, !.array = j,
                                        !.count = count]
      PROVE  RequestOK'
  <2>1. he.p \in Engine /\ he.p # None
    BY <1>1, EngineHandle, PoolAssumption
  <2>2. Answered
    BY <1>5, <2>1 DEF RequestOK, NoRequest
  <2>3. j \in Nat /\ count \in Nat
    BY LenProperties, ElementOfSeq DEF ArraysOK
  <2>4. /\ request'.engine = request.engine /\ request'.index = request.index
        /\ request'.status = status /\ request'.array = j
        /\ request'.count = count
        /\ request' \in [engine : Engine \cup {None}, index : DescIndex,
                         status : {"none", "described", "insufficient",
                                   "refused", "accepted"},
                         array : Nat, count : Nat]
    BY <1>5, <2>3 DEF RequestOK
  <2>5. Requested' = Requested /\ Capacity' = Capacity
    BY <1>1, <2>4 DEF Requested, Capacity
  <2>6. status = "refused" => Refusal'
    BY <1>1, <1>5, <2>4 DEF Refusal
  <2>7. Answered'
    BY <1>1, <1>2, <2>2, <2>4, <2>5, <2>6 DEF Answered
  <2> QED
    BY <2>4, <2>7 DEF RequestOK
<1> QED
  <2>1. \/ UNCHANGED request
        \/ /\ request.engine = he.p
           /\ \/ /\ error # SUCCESS
                 /\ request' = [request EXCEPT !.status = "refused",
                                               !.array = j, !.count = count]
              \/ request' = [request EXCEPT !.status = "accepted",
                                            !.array = j, !.count = count]
    BY DEF CreateFrom
  <2> HIDE DEF error
  <2> QED
    BY <1>3, <1>4, <1>5, <2>1

LEMMA DestroyRequest ==
    ASSUME IInv, SetsOK, ArraysOK, RequestOK, NEW h \in Passed, Destroy(h)
    PROVE  ArraysOK' /\ RequestOK'
<1>1. OthersKept /\ engines' \subseteq engines
  BY DestroySets
<1>2. CASE request' = NoRequest /\ arrays' = <<>>
  <2>1. /\ <<>> \in Seq(Seq(Param)) /\ Len(<<>>) = 0 /\ DOMAIN <<>> = {}
        /\ 0 \in DescIndex
    BY DEF DescIndex
  <2> QED
    BY <1>2, <2>1, CatalogAssumption DEF ArraysOK, RequestOK, NoRequest
<1>3. CASE /\ request.engine \notin engines \ engines'
           /\ UNCHANGED <<arrays, request>>
  <2>1. ArraysOK'
    BY <1>3 DEF ArraysOK
  <2>2. RequestOK'
    BY <1>1, <1>3, RequestKept DEF OthersKept
  <2> QED
    BY <2>1, <2>2
<1> QED
  BY <1>2, <1>3 DEF Destroy

-----------------------------------------------------------------------------
(* The invariant.                                                          *)

LEMMA InitDescInv == DescInit => DescInv
<1> SUFFICES ASSUME DescInit PROVE DescInv
  OBVIOUS
<1>1. <<>> \in Seq(Seq(Seq(Param))) /\ Len(<<>>) = 0 /\ DOMAIN <<>> = {}
  OBVIOUS
<1>2. SetsOK
  BY <1>1 DEF DescInit, Init, SetsOK
<1>3. ArraysOK
  <2>1. <<>> \in Seq(Seq(Param))
    OBVIOUS
  <2> QED
    BY <1>1, <2>1, CatalogAssumption DEF DescInit, ArraysOK
<1>4. RequestOK
  BY DEF DescInit, RequestOK, NoRequest, DescIndex
<1> QED
  BY <1>2, <1>3, <1>4, InitIInv DEF DescInit, DescInv

LEMMA DescNextPreserves ==
    ASSUME DescInv, [DescNext]_descVars
    PROVE  DescInv'
<1> USE DEF DescInv
<1>1. IInv'
  BY BridgeStep
<1>2. ASSUME UNCHANGED <<engines, descriptors, sets, arrays, request>>
      PROVE  SetsOK' /\ ArraysOK' /\ RequestOK'
  BY <1>2, SetsKept, RequestKept DEF ArraysOK
<1>3. CASE UNCHANGED descVars
  BY <1>1, <1>2, <1>3 DEF descVars, vars, heap
<1>4. CASE RejectNullArgument /\ Nothing
  BY <1>1, <1>2, <1>4 DEF RejectNullArgument, Reject, heap, Nothing
<1>5. CASE RegisterAll /\ UNCHANGED <<arrays, request>>
  <2>1. SetsOK' /\ OthersKept /\ engines \subseteq engines'
    BY <1>5, RegisterAllSets
  <2>2. ArraysOK'
    BY <1>5 DEF ArraysOK
  <2>3. RequestOK'
    BY <1>5, <2>1, RequestKept DEF OthersKept
  <2> QED
    BY <1>1, <2>1, <2>2, <2>3
<1>6. ASSUME NEW he \in Passed,
             \/ RejectEngineHandle(he) /\ Nothing
             \/ SubscribeBenchmarksCount(he) /\ Nothing
             \/ \E k \in DescCounts : SubscribeBenchmarks(he, k) /\ Nothing
      PROVE  DescInv'
  BY <1>1, <1>2, <1>6
     DEF RejectEngineHandle, SubscribeBenchmarksCount, SubscribeBenchmarks,
         Reject, heap, Nothing
<1>7. ASSUME NEW he \in Passed, NEW hd \in Passed,
             \/ GetWorkloadParamsDetails(he, hd) /\ Nothing
             \/ CreateWithNull(he, hd)
      PROVE  DescInv'
  BY <1>1, <1>2, <1>7
     DEF GetWorkloadParamsDetails, CreateWithNull, Reject, heap, Nothing
<1>8. ASSUME NEW he \in Passed, NEW hd \in Passed, NEW caps \in Capacities,
             DescribeBenchmark(he, hd, caps)
      PROVE  DescInv'
  <2>1. SetsOK'
    BY <1>8, SetsKept DEF DescribeBenchmark, heap
  <2> QED
    BY <1>1, <1>8, <2>1, DescribeBenchmarkRequest
<1>9. ASSUME NEW he \in Passed, NEW hd \in Passed, NEW j \in DOMAIN arrays,
             NEW count \in 0 .. Len(arrays[j]), CreateFrom(he, hd, j, count)
      PROVE  DescInv'
  BY <1>1, <1>9, CreateFromRequest
<1>10. ASSUME NEW h \in Passed, Destroy(h)
       PROVE  DescInv'
  BY <1>1, <1>10, DestroySets, DestroyRequest
<1> QED
  BY <1>3, <1>4, <1>5, <1>6, <1>7, <1>8, <1>9, <1>10 DEF DescNext

\* The invariant holds in every reachable state.
THEOREM DescInvariance == DescSpec => []DescInv
<1>1. DescInit => DescInv
  BY InitDescInv
<1>2. DescInv /\ [DescNext]_descVars => DescInv'
  BY DescNextPreserves
<1> QED
  BY <1>1, <1>2, PTL DEF DescSpec

-----------------------------------------------------------------------------
(* The theorems.                                                           *)

\* The type invariant of Descriptions: an engine has its descriptions while
\* it lives, the sets that addDefaultParameters() let into one description
\* are of one size, and the arrays keep their capacity.
THEOREM DescriptionTypes == DescSpec => []DescTypeOK
<1>1. DescInv => DescTypeOK
  <2> SUFFICES ASSUME DescInv PROVE DescTypeOK
    OBVIOUS
  <2>1. ASSUME NEW e \in Engine, NEW i \in DOMAIN sets[e],
               NEW k \in DOMAIN sets[e][i]
        PROVE  Len(sets[e][i][k]) = getWorkloadParameterCount(sets[e][i])
    <3>1. Uniform(sets[e][i]) /\ sets[e][i] # <<>>
      BY DEF DescInv, SetsOK
    <3> QED
      BY <3>1 DEF Uniform, getWorkloadParameterCount
  <2>2. request.engine \in engines \cup {None}
    BY DEF DescInv, RequestOK, NoRequest, Answered
  <2> QED
    BY <2>1, <2>2 DEF DescTypeOK, DescInv, SetsOK, ArraysOK
<1> QED
  BY <1>1, DescInvariance, PTL

\* The description the client asked about, with its sets.
LEMMA WhatWasAsked ==
    ASSUME DescInv, request.status # "none"
    PROVE  /\ Answered
           /\ Requested \in Seq(Seq(Param)) /\ Uniform(Requested)
           /\ DOMAIN Capacity = DOMAIN arrays
           /\ \A j \in DOMAIN arrays : Capacity[j] = Len(arrays[j])
<1>1. Answered
  BY DEF DescInv, RequestOK, NoRequest
<1>2. request.engine \in Engine
  BY <1>1 DEF Answered, DescInv, IInv, TypeOK
<1>3. sets[request.engine] \in Seq(Seq(Seq(Param)))
  BY <1>2 DEF DescInv, SetsOK
<1>4. request.index + 1 \in 1 .. Len(sets[request.engine])
  BY <1>1, <1>2, <1>3 DEF Answered, DescIndex, DescInv, SetsOK
<1>5. Requested \in Seq(Seq(Param)) /\ Uniform(Requested)
  BY <1>2, <1>3, <1>4, ElementOfSeq, LenProperties
     DEF Requested, DescInv, SetsOK
<1> QED
  BY <1>1, <1>5 DEF Capacity

\* describeBenchmark() finds every array large enough when each is as large
\* as getWorkloadParamsDetails() told, whatever the backend registered.
THEOREM AskedCapacitySuffices == DescSpec => []AskedSuffices
<1>1. DescInv => AskedSuffices
  <2> SUFFICES ASSUME DescInv, request.status = "insufficient"
               PROVE  \E j \in DOMAIN arrays :
                         Len(arrays[j]) < getWorkloadParameterCount(Requested)
    BY DEF AskedSuffices
  <2>1. PICK j \in TooSmall(Requested, Capacity) : TRUE
    BY WhatWasAsked DEF Answered
  <2>2. /\ j \in DOMAIN arrays /\ j <= Len(Requested)
        /\ Len(arrays[j]) < Len(Requested[j])
    BY <2>1, WhatWasAsked DEF TooSmall, Asked
  <2>3. j \in 1 .. Len(Requested)
    BY <2>2, LenProperties DEF DescInv, ArraysOK
  <2>4. /\ Len(Requested[j]) = Len(Requested[1]) /\ Requested # <<>>
        /\ DOMAIN Requested = 1 .. Len(Requested)
    BY <2>3, WhatWasAsked, LenProperties DEF Uniform
  <2> QED
    BY <2>2, <2>4 DEF getWorkloadParameterCount
<1> QED
  BY <1>1, DescInvariance, PTL

\* What describeBenchmark() writes to one array.
LEMMA WrittenArray ==
    ASSUME NEW array \in Seq(Param), NEW set \in Seq(Param),
           Len(set) <= Len(array),
           \A i \in 1 .. Len(array) :
              array[i] = IF i <= Len(set) THEN set[i] ELSE NoParam
    PROVE  Holds(array, set)
<1> DEFINE front == SubSeq(array, 1, Len(set))
<1>1. Len(set) \in Nat /\ Len(array) \in Nat
  BY LenProperties
<1>2. \A i \in 1 .. Len(set) : array[i] \in Param
  BY <1>1, ElementOfSeq
<1>3. /\ front \in Seq(Param) /\ Len(front) = Len(set)
      /\ \A i \in 1 .. Len(set) : front[i] = array[i]
  <2>1. /\ front \in Seq(Param)
        /\ Len(front) = IF 1 <= Len(set) THEN Len(set) - 1 + 1 ELSE 0
        /\ \A i \in 1 .. Len(set) - 1 + 1 : front[i] = array[1 + i - 1]
    BY <1>1, <1>2, SubSeqProperties
  <2> QED
    BY <1>1, <2>1
<1>4. front = set
  <2>1. \A i \in 1 .. Len(front) : front[i] = set[i]
    BY <1>1, <1>3
  <2> HIDE DEF front
  <2> QED
    BY <1>3, <2>1, SeqEqual
<1>5. \A i \in Len(set) + 1 .. Len(array) : array[i] = NoParam
  BY <1>1
<1> QED
  BY <1>4, <1>5 DEF Holds

\* Reading a set back from an array that holds it.
LEMMA HeldSet ==
    ASSUME NEW array \in Seq(Param), NEW set \in Seq(Param),
           Holds(array, set)
    PROVE  \A i \in 1 .. Len(set) : array[i] = set[i]
<1> SUFFICES ASSUME NEW i \in 1 .. Len(set)
             PROVE  array[i] = set[i]
  OBVIOUS
<1>1. Len(set) \in Nat /\ Len(array) \in Nat /\ Len(set) <= Len(array)
  BY LenProperties DEF Holds
<1>2. \A k \in 1 .. Len(set) : array[k] \in Param
  BY <1>1, ElementOfSeq
<1>3. \A k \in 1 .. Len(set) - 1 + 1 :
         SubSeq(array, 1, Len(set))[k] = array[1 + k - 1]
  BY <1>1, <1>2, SubSeqProperties
<1>4. SubSeq(array, 1, Len(set))[i] = array[1 + i - 1] /\ 1 + i - 1 = i
  BY <1>1, <1>3
<1> QED
  BY <1>4 DEF Holds

\* The arrays hold whole sets and zeroes, also after a failure on the way.
THEOREM SetsAreWhole == DescSpec => []WholeSets
<1>1. DescInv => WholeSets
  <2> SUFFICES ASSUME DescInv, request.status # "none", NEW j \in DOMAIN arrays
               PROVE
                 \/ j <= Len(Requested) /\ Holds(arrays[j], Requested[j])
                 \/ /\ arrays[j] = Zeroed(Len(arrays[j]))
                    /\ j > Len(Requested) \/ request.status # "described"
    BY DEF WholeSets
  <2> DEFINE fits == /\ j \in Asked(Requested, Capacity)
                     /\ \A l \in 1 .. j :
                           l \notin TooSmall(Requested, Capacity)
  <2>1. /\ Answered /\ Requested \in Seq(Seq(Param))
        /\ DOMAIN Capacity = DOMAIN arrays
        /\ Capacity[j] = Len(arrays[j])
    BY WhatWasAsked
  <2>2. arrays[j] = [i \in 1 .. Len(arrays[j]) |->
                       IF fits /\ i <= Len(Requested[j])
                       THEN Requested[j][i] ELSE NoParam]
    <3>1. arrays = Write(Requested, Capacity)
      BY <2>1 DEF Answered
    <3>2. Write(Requested, Capacity)[j] =
             [i \in 1 .. Capacity[j] |->
                IF fits /\ i <= Len(Requested[j])
                THEN Requested[j][i] ELSE NoParam]
      BY <2>1 DEF Write
    <3> QED
      BY <2>1, <3>1, <3>2
  <2>3. j \in Nat /\ j >= 1 /\ arrays[j] \in Seq(Param)
    BY LenProperties, ElementOfSeq DEF DescInv, ArraysOK
  <2>4. CASE fits
    <3>1. j \in 1 .. Len(Requested) /\ j <= Len(Requested)
      BY <2>1, <2>3, <2>4 DEF Asked
    <3>2. Requested[j] \in Seq(Param)
      BY <2>1, <3>1, ElementOfSeq
    <3>3. j \in 1 .. j /\ j \notin TooSmall(Requested, Capacity)
      BY <2>3, <2>4
    <3>4. Len(Requested[j]) <= Len(arrays[j])
      BY <2>1, <2>3, <2>4, <3>2, <3>3, LenProperties DEF TooSmall
    <3>5. \A i \in 1 .. Len(arrays[j]) :
             arrays[j][i] =
                IF i <= Len(Requested[j]) THEN Requested[j][i] ELSE NoParam
      BY <2>2, <2>4
    <3>6. Holds(arrays[j], Requested[j])
      BY <2>3, <3>2, <3>4, <3>5, WrittenArray
    <3> QED
      BY <3>1, <3>6
  <2>5. CASE ~fits
    <3>1. arrays[j] = Zeroed(Len(arrays[j]))
      BY <2>2, <2>5 DEF Zeroed
    <3>2. request.status = "described" => j \notin Asked(Requested, Capacity)
      BY <2>1, <2>5 DEF Answered
    <3>3. j \notin Asked(Requested, Capacity) => j > Len(Requested)
      BY <2>1, <2>3, LenProperties DEF Asked
    <3> QED
      BY <3>1, <3>2, <3>3
  <2> QED
    BY <2>4, <2>5
<1> QED
  BY <1>1, DescInvariance, PTL

\* What the example's constructor makes of a list: only the first three
\* parameters count.
LEMMA SupportedLists ==
    ASSUME NEW ps \in Seq(Param)
    PROVE  WorkloadError(ps) = SUCCESS <=>
              /\ Len(ps) >= 3
              /\ \A i \in 1 .. 3 : /\ ps[i].type = "UInt64"
                                   /\ ps[i].bits = Dimension
<1>1. Len(ps) \in Nat
  BY LenProperties
<1>2. INVALID_ARGS # SUCCESS /\ CRITICAL # SUCCESS
  BY DEF INVALID_ARGS, CRITICAL, SUCCESS
<1>3. /\ FixedCount["MatrixMultiply"] = 3
      /\ MinRequiredParameters("MatrixMultiply", ps) = 3
  BY DEF FixedCount, MinRequiredParameters
<1>4. Len(ps) >= 3 =>
         (validateParams("MatrixMultiply", ps) = "ok" <=>
             \A i \in 1 .. 3 : ps[i].type = "UInt64")
  BY <1>1, <1>3 DEF validateParams, TooShort, WrongType
<1> QED
  BY <1>1, <1>2, <1>3, <1>4 DEF WorkloadError

\* A default set the backend supports makes a benchmark, with whatever
\* follows it in the array that the client passes back.
THEOREM AdvertisedIsAccepted == DescSpec => []AdvertisedAccepted
<1>1. DescInv => AdvertisedAccepted
  <2> DEFINE array == arrays[request.array]
             set == Requested[request.array]
             count == request.count
             passed == SubSeq(array, 1, count)
  <2> SUFFICES ASSUME DescInv, request.status = "refused",
                      request.array <= Len(Requested),
                      Supports(set), Holds(array, set)
               PROVE  count < Len(set)
    BY DEF AdvertisedAccepted
  <2>1. /\ Requested \in Seq(Seq(Param)) /\ Refusal
    BY WhatWasAsked DEF Answered
  <2>2. request.array \in 1 .. Len(arrays) /\ array \in Seq(Param)
    BY <2>1, LenProperties, ElementOfSeq DEF Refusal, DescInv, ArraysOK
  <2>3. request.array \in 1 .. Len(Requested)
    BY <2>1, <2>2, LenProperties
  <2>4. set \in Seq(Param) /\ Len(set) \in Nat /\ Len(array) \in Nat
    BY <2>1, <2>2, <2>3, ElementOfSeq, LenProperties
  <2>5. count \in 0 .. Len(array) /\ WorkloadError(passed) # SUCCESS
    BY <2>1 DEF Refusal
  <2>6. /\ passed \in Seq(Param) /\ Len(passed) = count
        /\ \A i \in 1 .. count : passed[i] = array[i]
    <3>1. count \in Nat /\ \A i \in 1 .. count : array[i] \in Param
      BY <2>2, <2>4, <2>5, ElementOfSeq
    <3>2. /\ passed \in Seq(Param)
          /\ Len(passed) = IF 1 <= count THEN count - 1 + 1 ELSE 0
          /\ \A i \in 1 .. count - 1 + 1 : passed[i] = array[1 + i - 1]
      BY <3>1, SubSeqProperties
    <3> QED
      BY <3>1, <3>2
  <2>7. /\ Len(set) >= 3
        /\ \A i \in 1 .. 3 : set[i].type = "UInt64" /\ set[i].bits = Dimension
    BY <2>4, SupportedLists DEF Supports
  <2>8. \A i \in 1 .. Len(set) : array[i] = set[i]
    BY <2>2, <2>4, HeldSet
  <2>9. ASSUME count >= Len(set)
        PROVE  FALSE
    <3> HIDE DEF passed, set, array, count
    <3>1. /\ Len(passed) >= 3
          /\ \A i \in 1 .. 3 : passed[i] = set[i]
      BY <2>4, <2>5, <2>6, <2>7, <2>8, <2>9
    <3>2. WorkloadError(passed) = SUCCESS
      BY <2>6, <2>7, <3>1, SupportedLists
    <3> QED
      BY <2>5, <3>2
  <2> QED
    BY <2>4, <2>5, <2>9
<1> QED
  BY <1>1, DescInvariance, PTL
=============================================================================
