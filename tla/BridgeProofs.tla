---------------------------- MODULE BridgeProofs ----------------------------
(***************************************************************************)
(* Proofs about Bridge, for every number of engines, benchmarks, objects   *)
(* and data, and every mask a backend passes.                              *)
(*                                                                         *)
(* No part of the inductive invariant is inductive alone.  Destroying an   *)
(* object decrements a use count: that this count is positive follows from *)
(* RefCountExact, that the handle denotes an object from TagSound, that    *)
(* the object is still there from NoDangling, and that nobody else relied  *)
(* on it from OneHandleEach.                                               *)
(***************************************************************************)
EXTENDS Bridge, FiniteSetTheorems, TLAPS

IInv == TypeOK /\ TagSound /\ RefCountExact /\ NoDangling /\ OneHandleEach

-----------------------------------------------------------------------------
(* Tags.                                                                   *)

\* The bits that tell the three kinds of pointer apart in a tag.
HasKind(tag, engine, wrapper, object) ==
    /\ BaseEngineTag \subseteq tag <=> engine
    /\ BenchmarkHandleTag \subseteq tag <=> wrapper
    /\ EngineObjectTag \subseteq tag <=> object

\* Every tag the wrapper makes is of the kind of the object it is made for,
\* whatever client bits are added to it.
LEMMA TagKinds ==
    /\ EngineTag \subseteq Bit /\ HasKind(EngineTag, TRUE, FALSE, FALSE)
    /\ DescTag \subseteq Bit /\ HasKind(DescTag, FALSE, FALSE, FALSE)
    /\ BenchTag \cup BenchmarkHandleTag \subseteq Bit
    /\ HasKind(BenchTag \cup BenchmarkHandleTag, FALSE, TRUE, FALSE)
    /\ \A m \in SUBSET Bit :
          IsClientMask(m) =>
             /\ EngineObjectTag \cup m \subseteq Bit
             /\ HasKind(EngineObjectTag \cup m, FALSE, FALSE, TRUE)
<1> USE MaskAssumption
        DEF Bit, MaskReservedBits, ClientBit, BaseEngineTag, BaseBenchmarkTag,
            EngineObjectTag, BenchmarkDescriptionTag, BenchmarkHandleTag,
            HasKind
<1>1. EngineTag \subseteq Bit /\ HasKind(EngineTag, TRUE, FALSE, FALSE)
  BY DEF EngineTag
<1>2. DescTag \subseteq Bit /\ HasKind(DescTag, FALSE, FALSE, FALSE)
  BY DEF DescTag
<1>3. /\ BenchTag \cup BenchmarkHandleTag \subseteq Bit
      /\ HasKind(BenchTag \cup BenchmarkHandleTag, FALSE, TRUE, FALSE)
  BY DEF BenchTag
<1>4. ASSUME NEW m \in SUBSET Bit, IsClientMask(m)
      PROVE  /\ EngineObjectTag \cup m \subseteq Bit
             /\ HasKind(EngineObjectTag \cup m, FALSE, FALSE, TRUE)
  BY <1>4 DEF IsClientMask
<1> QED
  BY <1>1, <1>2, <1>3, <1>4

-----------------------------------------------------------------------------
(* How calls end.                                                          *)

CodesOK == ret \in ErrorCode /\ lastError \in ErrorCode

\* Every way a call ends leaves an error code in ret and in lastError.
LEMMA Endings ==
  ASSUME TypeOK
  PROVE  /\ Succeed => CodesOK'
         /\ ThrowStd => CodesOK'
         /\ BackendThrows => CodesOK'
         /\ \A c \in ErrorCode : Throw(c) => CodesOK'
         /\ {SUCCESS, INVALID_ARGS, CRITICAL} \subseteq ErrorCode
BY DEF TypeOK, CodesOK, Succeed, ThrowStd, ThrowOther, BackendThrows, Throw,
       Return, ErrorCode

\* A call that changes neither the heap nor the client's handles preserves
\* the invariant.
LEMMA NothingChanged ==
  ASSUME IInv, UNCHANGED <<heap, held>>, CodesOK'
  PROVE  IInv'
BY DEF IInv, TypeOK, TagSound, RefCountExact, NoDangling, OneHandleEach,
       Sharers, heap, CodesOK

\* So does a call that is rejected.
LEMMA Rejected ==
  ASSUME IInv, NEW c \in ErrorCode, Reject(c)
  PROVE  IInv'
<1>1. CodesOK'
  BY Endings DEF Reject, IInv
<1> QED
  BY <1>1, NothingChanged DEF Reject

-----------------------------------------------------------------------------
(* The initial state.                                                      *)

LEMMA InitIInv == Init => IInv
<1> SUFFICES ASSUME Init PROVE IInv
  OBVIOUS
<1>1. RefCountExact
  <2> SUFFICES ASSUME NEW d \in Data
               PROVE  useCount[d] = Cardinality(Sharers(d))
    BY DEF RefCountExact
  <2>1. CASE d = None
    BY <2>1, PoolAssumption
  <2>2. CASE d # None
    <3>1. Sharers(d) = {}
      BY <2>2 DEF Init, Sharers
    <3> QED
      BY <3>1, FS_EmptySet DEF Init
  <2> QED
    BY <2>1, <2>2
<1>2. TypeOK
  BY DEF Init, TypeOK, ErrorCode
<1>3. TagSound /\ NoDangling
  BY DEF Init, TagSound, NoDangling
<1>4. OneHandleEach
  BY DEF Init, OneHandleEach
<1> QED
  BY <1>1, <1>2, <1>3, <1>4 DEF IInv

-----------------------------------------------------------------------------
(* Engines, descriptions and benchmarks.                                   *)

\* The parts of the invariant that speak of objects and data only hold on
\* when neither changes.
LEMMA SharingUnchanged ==
  ASSUME RefCountExact, UNCHANGED <<objData, useCount>>
  PROVE  RefCountExact'
BY DEF RefCountExact, Sharers

LEMMA InitEnginePreserves ==
  ASSUME IInv, InitEngine
  PROVE  IInv'
<1>1. CASE BackendThrows /\ UNCHANGED <<heap, held>>
  BY <1>1, Endings, NothingChanged DEF IInv
<1>2. ASSUME NEW e \in Engine \ engines, NEW n \in DescCounts,
             engines' = engines \cup {e},
             descriptors' = [descriptors EXCEPT ![e] = n],
             held' = held \cup {HeldHandle(e, EngineTag, e)},
             Succeed,
             UNCHANGED <<benchEngine, wrapperBench, objEngine, objData,
                         useCount>>
      PROVE  IInv'
  <2> DEFINE new == HeldHandle(e, EngineTag, e)
  <2>1. /\ new \in Held /\ new.p = e /\ new.from = e /\ new.tag = EngineTag
    BY TagKinds DEF Held, HeldHandle
  <2>2. TypeOK'
    BY <1>2, <2>1, Endings, MaskAssumption
       DEF IInv, TypeOK, CodesOK
  <2>3. TagSound'
    BY <1>2, <2>1, TagKinds, PoolAssumption DEF IInv, TagSound, HasKind
  <2>4. RefCountExact'
    BY <1>2, SharingUnchanged DEF IInv
  <2>5. NoDangling'
    BY <1>2, <2>1, PoolAssumption DEF IInv, NoDangling
  <2>6. \A h \in held : h.p # e
    BY DEF IInv, NoDangling
  <2>7. OneHandleEach'
    BY <1>2, <2>1, <2>6 DEF IInv, OneHandleEach
  <2> QED
    BY <2>2, <2>3, <2>4, <2>5, <2>7 DEF IInv
<1> QED
  BY <1>1, <1>2 DEF InitEngine

LEMMA SubscribeBenchmarksPreserves ==
  ASSUME IInv, NEW he \in Passed, NEW count \in DescCounts,
         SubscribeBenchmarks(he, count)
  PROVE  IInv'
<1>1. CASE Reject(INVALID_ARGS)
  BY <1>1, Endings, Rejected DEF IInv
<1>2. CASE /\ held' = held \cup {HeldHandle(i, DescTag, he.p) :
                                    i \in {j \in DescIndex : j < count}}
           /\ Succeed /\ UNCHANGED heap
  <2>1. he \in held /\ he.p \in engines
    BY PoolAssumption DEF SubscribeBenchmarks, checkHandleBits, Passed,
       NullHandle, IInv, TagSound, NoDangling
  <2>2. ASSUME NEW h \in held', h \notin held
        PROVE  /\ h \in Held /\ h.p \in DescIndex /\ h.from = he.p
               /\ h.tag = DescTag
    BY <1>2, <2>1, <2>2, TagKinds DEF Held, HeldHandle, IInv, TypeOK
  <2>3. TypeOK'
    BY <1>2, <2>2, Endings DEF IInv, TypeOK, heap, CodesOK
  <2>4. TagSound'
    BY <1>2, <2>2, TagKinds, PoolAssumption DEF IInv, TagSound, HasKind
  <2>5. RefCountExact'
    BY <1>2, SharingUnchanged DEF IInv, heap
  <2>6. NoDangling'
    BY <1>2, <2>1, <2>2, PoolAssumption DEF IInv, NoDangling, heap
  <2>7. OneHandleEach'
    BY <1>2, <2>2 DEF IInv, OneHandleEach, heap
  <2> QED
    BY <2>3, <2>4, <2>5, <2>6, <2>7 DEF IInv
<1> QED
  BY <1>1, <1>2 DEF SubscribeBenchmarks

LEMMA SubscribeBenchmarksCountPreserves ==
  ASSUME IInv, NEW he \in Passed, SubscribeBenchmarksCount(he)
  PROVE  IInv'
  BY Endings, NothingChanged DEF SubscribeBenchmarksCount, IInv

LEMMA QueryDescriptionPreserves ==
  ASSUME IInv, NEW he \in Passed, NEW hd \in Passed, QueryDescription(he, hd)
  PROVE  IInv'
<1>1. CASE Reject(CRITICAL)
  BY <1>1, Endings, Rejected DEF IInv
<1>2. CASE (Succeed \/ Throw(CRITICAL)) /\ UNCHANGED <<heap, held>>
  BY <1>2, Endings, NothingChanged DEF IInv
<1> QED
  BY <1>1, <1>2 DEF QueryDescription

LEMMA CreateBenchmarkPreserves ==
  ASSUME IInv, NEW he \in Passed, NEW hd \in Passed, CreateBenchmark(he, hd)
  PROVE  IInv'
<1>1. CASE Reject(CRITICAL)
  BY <1>1, Endings, Rejected DEF IInv
<1>2. CASE BackendThrows /\ UNCHANGED <<heap, held>>
  BY <1>2, Endings, NothingChanged DEF IInv
<1>3. ASSUME NEW b \in Bench, benchEngine[b] = None,
             benchEngine' = [benchEngine EXCEPT ![b] = he.p],
             UNCHANGED <<engines, descriptors, objEngine, objData, useCount>>,
             \/ \E w \in Wrapper :
                   /\ wrapperBench[w] = None
                   /\ wrapperBench' = [wrapperBench EXCEPT ![w] = b]
                   /\ held' = held \cup
                         {HeldHandle(w, BenchTag \cup BenchmarkHandleTag,
                                     he.p)}
                   /\ Succeed
             \/ AllocMayFail /\ ThrowStd /\ UNCHANGED <<wrapperBench, held>>
      PROVE  IInv'
  <2>1. he \in held /\ he.p \in engines /\ he.p \in Engine
    BY PoolAssumption DEF CreateBenchmark, checkHandleBits, Passed,
       NullHandle, IInv, TypeOK, TagSound, NoDangling
  <2>2. RefCountExact'
    BY <1>3, SharingUnchanged DEF IInv
  \* The address b was free, so no benchmark handle refers to it.
  <2>3. \A w \in Wrapper : wrapperBench[w] # b
    BY <1>3, PoolAssumption DEF IInv, TypeOK, NoDangling, OneHandleEach
  <2>4. CASE ThrowStd /\ UNCHANGED <<wrapperBench, held>>
    <3>1. TypeOK'
      BY <1>3, <2>1, <2>4, Endings DEF IInv, TypeOK, CodesOK
    <3>2. TagSound' /\ OneHandleEach'
      BY <1>3, <2>4 DEF IInv, TagSound, OneHandleEach
    <3>3. NoDangling'
      BY <1>3, <2>3, <2>4 DEF IInv, TypeOK, NoDangling
    <3> QED
      BY <2>2, <3>1, <3>2, <3>3 DEF IInv
  <2>5. ASSUME NEW w \in Wrapper, wrapperBench[w] = None,
               wrapperBench' = [wrapperBench EXCEPT ![w] = b],
               held' = held \cup
                  {HeldHandle(w, BenchTag \cup BenchmarkHandleTag, he.p)},
               Succeed
        PROVE  IInv'
    <3> DEFINE new == HeldHandle(w, BenchTag \cup BenchmarkHandleTag, he.p)
    <3>1. /\ new \in Held /\ new.p = w /\ new.from = he.p
          /\ new.tag = BenchTag \cup BenchmarkHandleTag
      BY <2>1, TagKinds DEF Held, HeldHandle
    <3>2. TypeOK'
      BY <1>3, <2>1, <2>5, <3>1, Endings DEF IInv, TypeOK, CodesOK
    <3>3. TagSound'
      <4>1. /\ new.p \notin Engine /\ new.p \notin Object
            /\ HasKind(new.tag, FALSE, TRUE, FALSE)
        BY <3>1, TagKinds, PoolAssumption
      <4>2. held' = held \cup {new}
        BY <2>5
      <4> HIDE DEF new
      <4> QED
        BY <3>1, <4>1, <4>2 DEF IInv, TagSound, HasKind
    <3>4. \A h \in held : h.p # w
      BY <2>5 DEF IInv, NoDangling
    <3>5. NoDangling'
      <4>1. wrapperBench'[w] = b /\ benchEngine'[b] = he.p /\ b # None
        BY <1>3, <2>5, PoolAssumption DEF IInv, TypeOK
      <4>2. \A v \in Wrapper : v # w =>
               /\ wrapperBench'[v] = wrapperBench[v]
               /\ wrapperBench[v] \in Bench =>
                     benchEngine'[wrapperBench[v]] =
                        benchEngine[wrapperBench[v]]
        BY <1>3, <2>3, <2>5 DEF IInv, TypeOK
      <4>3. \A h \in held : h.p \in Wrapper =>
               h.p # w /\ wrapperBench[h.p] \in Bench
        BY <3>4 DEF IInv, TypeOK, NoDangling
      <4>4. new.p \notin Engine /\ new.p \notin Object
        BY <3>1, PoolAssumption
      <4> HIDE DEF new
      <4>5. held' = held \cup {new}
        BY <2>5 DEF new
      <4> QED
        BY <1>3, <2>1, <3>1, <4>1, <4>2, <4>3, <4>4, <4>5
           DEF IInv, NoDangling
    <3>6. OneHandleEach'
      BY <1>3, <2>3, <2>5, <3>1, <3>4 DEF IInv, TypeOK, OneHandleEach
    <3> QED
      BY <2>2, <3>2, <3>3, <3>5, <3>6 DEF IInv
  <2> QED
    BY <1>3, <2>4, <2>5
<1> QED
  BY <1>1, <1>2, <1>3 DEF CreateBenchmark

\* initBenchmark() and the operations that give the client no handle.
LEMMA RunBackendPreserves ==
  ASSUME IInv, NEW hb \in Passed, RunBackend(hb)
  PROVE  IInv'
<1>1. CASE Reject(CRITICAL)
  BY <1>1, Endings, Rejected DEF IInv
<1>2. CASE (Succeed \/ BackendThrows) /\ UNCHANGED <<heap, held>>
  BY <1>2, Endings, NothingChanged DEF IInv
<1> QED
  BY <1>1, <1>2 DEF RunBackend

-----------------------------------------------------------------------------
(* Objects.                                                                *)

\* A new object o of engine e with a handle of its own, sharing a datum whose
\* use count accounts for it, preserves the invariant.
LEMMA NewObject ==
  ASSUME IInv, Succeed,
         NEW o \in Object, NEW d \in Data, NEW e \in engines, NEW m,
         EngineObjectTag \cup m \subseteq Bit,
         HasKind(EngineObjectTag \cup m, FALSE, FALSE, TRUE),
         objData[o] = None,
         objEngine' = [objEngine EXCEPT ![o] = e],
         objData' = [objData EXCEPT ![o] = d],
         useCount' = [useCount EXCEPT ![d] = useCount[d] + 1],
         held' = held \cup {HeldHandle(o, EngineObjectTag \cup m, e)},
         UNCHANGED <<engines, descriptors, benchEngine, wrapperBench>>
  PROVE  IInv'
<1> DEFINE new == HeldHandle(o, EngineObjectTag \cup m, e)
<1>1. e \in Engine /\ d # None
  BY PoolAssumption DEF IInv, TypeOK
<1>2. /\ new \in Held /\ new.p = o /\ new.from = e
      /\ new.tag = EngineObjectTag \cup m
      /\ new.p \notin Engine /\ new.p \notin Wrapper
  BY <1>1, PoolAssumption DEF Held, HeldHandle
<1>3. held' = held \cup {new}
  OBVIOUS
<1> HIDE DEF new
<1>4. \A h \in held : h.p # o
  BY DEF IInv, NoDangling
<1>5. TypeOK'
  <2>1. CodesOK'
    BY Endings DEF IInv
  <2>2. /\ objEngine' \in [Object -> Engine \cup {None}]
        /\ objData' \in [Object -> Data \cup {None}]
        /\ useCount' \in [Data -> Nat]
    BY <1>1 DEF IInv, TypeOK
  <2>3. held' \subseteq Held
    BY <1>2, <1>3 DEF IInv, TypeOK
  <2> QED
    BY <2>1, <2>2, <2>3 DEF IInv, TypeOK, CodesOK
<1>6. TagSound'
  BY <1>2, <1>3 DEF IInv, TagSound, HasKind
<1>7. RefCountExact'
  <2> SUFFICES ASSUME NEW x \in Data
               PROVE  useCount'[x] = Cardinality(Sharers(x)')
    BY DEF RefCountExact
  <2>1. x # None /\ IsFiniteSet(Sharers(x)) /\ useCount[x] \in Nat
    BY PoolAssumption, FS_Subset DEF Sharers, IInv, TypeOK
  <2>2. useCount[x] = Cardinality(Sharers(x))
    BY DEF IInv, RefCountExact
  <2>3. CASE x = d
    <3>1. o \notin Sharers(x)
      BY <2>1 DEF Sharers
    <3>2. Sharers(x)' = Sharers(x) \cup {o}
      BY <2>3 DEF Sharers, IInv, TypeOK
    <3>3. Cardinality(Sharers(x)') = Cardinality(Sharers(x)) + 1
      BY <2>1, <3>1, <3>2, FS_AddElement
    <3>4. useCount'[x] = useCount[x] + 1
      BY <2>3 DEF IInv, TypeOK
    <3> QED
      BY <2>2, <3>3, <3>4
  <2>4. CASE x # d
    <3>1. Sharers(x)' = Sharers(x)
      BY <2>1, <2>4 DEF Sharers, IInv, TypeOK
    <3> QED
      BY <2>2, <2>4, <3>1 DEF IInv, TypeOK
  <2> QED
    BY <2>3, <2>4
<1>8. NoDangling'
  <2>1. objEngine'[o] = e /\ objData'[o] # None
    BY <1>1 DEF IInv, TypeOK
  <2>2. \A p \in Object : p # o => /\ objEngine'[p] = objEngine[p]
                                   /\ objData'[p] = objData[p]
    BY DEF IInv, TypeOK
  <2> QED
    BY <1>2, <1>3, <1>4, <2>1, <2>2 DEF IInv, NoDangling
<1>9. OneHandleEach'
  BY <1>2, <1>3, <1>4 DEF IInv, TypeOK, OneHandleEach
<1> QED
  BY <1>5, <1>6, <1>7, <1>8, <1>9 DEF IInv

\* The benchmark an operation runs on belongs to the engine the client
\* obtained it from, and that engine exists.
LEMMA BenchEngineLives ==
  ASSUME IInv, NEW hb \in BenchHandles
  PROVE  /\ benchEngine[wrapperBench[hb.p]] = hb.from
         /\ hb.from \in engines
BY DEF IInv, NoDangling, BenchHandles

\* A handle that passed checkHandleTags() and is not null is one of a live
\* object: the cast that follows in the code is safe.
LEMMA CheckedHandle ==
  ASSUME IInv, NEW h \in Passed, NEW m, checkHandleTags(h, m)
  PROVE  h \in held /\ h.p \in Object /\ objData[h.p] \in Data
<1>1. h \in held
  BY DEF checkHandleTags, EngineObjectTag, Passed, NullHandle
<1>2. h.p \in Object
  BY <1>1 DEF checkHandleTags, IInv, TagSound
<1> QED
  BY <1>1, <1>2 DEF IInv, TypeOK, NoDangling

LEMMA CreateHandlePreserves ==
  ASSUME IInv, NEW hb \in Passed, NEW m \in SUBSET Bit, CreateHandle(hb, m)
  PROVE  IInv'
<1>1. CASE Reject(CRITICAL)
  BY <1>1, Endings, Rejected DEF IInv
<1>2. CASE ThrowStd /\ UNCHANGED <<heap, held>>
  BY <1>2, Endings, NothingChanged DEF IInv
<1>3. ASSUME IsClientMask(m), Succeed,
             NEW o \in Object, NEW d \in Data,
             objData[o] = None, useCount[d] = 0,
             objEngine' = [objEngine EXCEPT ![o] =
                              benchEngine[wrapperBench[hb.p]]],
             objData' = [objData EXCEPT ![o] = d],
             useCount' = [useCount EXCEPT ![d] = 1],
             held' = held \cup
                {HeldHandle(o, EngineObjectTag \cup m, hb.from)},
             UNCHANGED <<engines, descriptors, benchEngine, wrapperBench>>
      PROVE  IInv'
  <2>1. benchEngine[wrapperBench[hb.p]] = hb.from /\ hb.from \in engines
    BY BenchEngineLives DEF CreateHandle
  <2>2. /\ EngineObjectTag \cup m \subseteq Bit
        /\ HasKind(EngineObjectTag \cup m, FALSE, FALSE, TRUE)
    BY <1>3, TagKinds
  <2>3. useCount' = [useCount EXCEPT ![d] = useCount[d] + 1]
    BY <1>3 DEF IInv, TypeOK
  <2> QED
    BY <1>3, <2>1, <2>2, <2>3, NewObject
<1> QED
  BY <1>1, <1>2, <1>3 DEF CreateHandle

LEMMA DuplicateHandlePreserves ==
  ASSUME IInv, NEW hb \in Passed, NEW h \in Passed, NEW check,
         NEW new \in (SUBSET Bit) \cup {h.tag},
         DuplicateHandle(hb, h, new, check)
  PROVE  IInv'
<1>1. CASE Reject(CRITICAL)
  BY <1>1, Endings, Rejected DEF IInv
<1>2. CASE ThrowStd /\ UNCHANGED <<heap, held>>
  BY <1>2, Endings, NothingChanged DEF IInv
<1>3. ASSUME checkHandleTags(h, check), new = h.tag \/ IsClientMask(new),
             Succeed,
             objEngine[h.p] = benchEngine[wrapperBench[hb.p]],
             NEW o \in Object, objData[o] = None,
             objEngine' = [objEngine EXCEPT ![o] = objEngine[h.p]],
             objData' = [objData EXCEPT ![o] = objData[h.p]],
             useCount' = [useCount EXCEPT ![objData[h.p]] = @ + 1],
             held' = held \cup
                {HeldHandle(o, EngineObjectTag \cup new, hb.from)},
             UNCHANGED <<engines, descriptors, benchEngine, wrapperBench>>
      PROVE  IInv'
  <2>1. objEngine[h.p] = hb.from /\ hb.from \in engines
    BY <1>3, BenchEngineLives DEF DuplicateHandle
  <2>2. h \in held /\ h.p \in Object /\ objData[h.p] \in Data
    BY <1>3, CheckedHandle
  <2>3. /\ EngineObjectTag \cup new \subseteq Bit
        /\ HasKind(EngineObjectTag \cup new, FALSE, FALSE, TRUE)
    <3>1. CASE new = h.tag
      <4>1. /\ h.tag \subseteq Bit /\ EngineObjectTag \subseteq h.tag
            /\ ~(BaseEngineTag \subseteq h.tag)
            /\ ~(BenchmarkHandleTag \subseteq h.tag)
        BY <2>2, PoolAssumption DEF IInv, TypeOK, Held, TagSound
      <4>2. EngineObjectTag \cup h.tag = h.tag
        BY <4>1
      <4> QED
        BY <3>1, <4>1, <4>2 DEF HasKind
    <3>2. CASE IsClientMask(new) /\ new # h.tag
      BY <3>2, TagKinds
    <3> QED
      BY <1>3, <3>1, <3>2
  <2>4. useCount' = [useCount EXCEPT ![objData[h.p]] =
                        useCount[objData[h.p]] + 1]
    BY <1>3
  <2> QED
    BY <1>3, <2>1, <2>2, <2>3, <2>4, NewObject
<1> QED
  BY <1>1, <1>2, <1>3 DEF DuplicateHandle, duplicateHandleInternal

LEMMA RetrieveFromHandlePreserves ==
  ASSUME IInv, NEW hb \in Passed, NEW h \in Passed, NEW m \in BackendMasks,
         RetrieveFromHandle(hb, h, m)
  PROVE  IInv'
<1>1. CASE Reject(CRITICAL)
  BY <1>1, Endings, Rejected DEF IInv
<1>2. CASE Succeed /\ UNCHANGED <<heap, held>>
  BY <1>2, Endings, NothingChanged DEF IInv
<1> QED
  BY <1>1, <1>2 DEF RetrieveFromHandle

-----------------------------------------------------------------------------
(* destroyHandle().                                                        *)

\* Dropping a handle without releasing anything is harmless when there is
\* nothing to release behind it, or an engine that cannot be released.
LEMMA HandleDropped ==
  ASSUME IInv, NEW h \in Passed, held' = held \ {h}, UNCHANGED heap, CodesOK',
         h \in held => \/ h.p \in DescIndex
                       \/ h.p \in Engine /\ EngineExtra # {}
  PROVE  IInv'
<1>1. TypeOK' /\ TagSound' /\ RefCountExact' /\ NoDangling'
  BY DEF IInv, TypeOK, TagSound, RefCountExact, Sharers, NoDangling, heap,
     CodesOK
<1>2. OneHandleEach'
  <2>1. \A g \in held : g.p \in Wrapper \cup Object => g \in held'
    BY PoolAssumption
  <2>2. EngineExtra = {} =>
           engines \subseteq Engine
           /\ \A g \in held : g.p \in Engine => g \in held'
    BY PoolAssumption DEF IInv, TypeOK
  <2> QED
    BY <2>1, <2>2 DEF IInv, OneHandleEach, heap
<1> QED
  BY <1>1, <1>2 DEF IInv

\* The handles of engines, benchmarks and objects that DestroyHandle sees.
LEMMA DispatchedHandle ==
  ASSUME IInv, NEW h \in Passed
  PROVE  /\ IsBenchmarkHandle(h) => h \in held /\ h.p \in Wrapper
         /\ IsObjectHandle(h) => h \in held /\ h.p \in Object
         /\ IsExact(h, BaseEngineTag) => h \in held /\ h.p \in Engine
         /\ IsExact(h, BenchmarkDescriptionTag) /\ h \in held =>
               h.p \in DescIndex
<1> USE DEF IInv, TagSound, TypeOK, Held, Passed, NullHandle, checkHandleBits,
            IsBenchmarkHandle, IsObjectHandle, IsExact
<1>1. IsBenchmarkHandle(h) => h \in held /\ h.p \in Wrapper
  OBVIOUS
<1>2. IsObjectHandle(h) => h \in held /\ h.p \in Object
  OBVIOUS
<1>3. IsExact(h, BaseEngineTag) => h \in held /\ h.p \in Engine
  OBVIOUS
<1>4. IsExact(h, BenchmarkDescriptionTag) /\ h \in held => h.p \in DescIndex
  BY DEF BaseEngineTag, BenchmarkDescriptionTag
<1> QED
  BY <1>1, <1>2, <1>3, <1>4

LEMMA DestroyBenchmarkPreserves ==
  ASSUME IInv, NEW h \in Passed, held' = held \ {h}, DestroyBenchmark(h)
  PROVE  IInv'
<1> DEFINE w == h.p
           b == wrapperBench[w]
<1>1. h \in held /\ w \in Wrapper /\ b # None /\ b \in Bench
  BY DispatchedHandle DEF DestroyBenchmark, IInv, TypeOK, NoDangling
<1>2. /\ benchEngine' = [benchEngine EXCEPT ![b] = None]
      /\ wrapperBench' = [wrapperBench EXCEPT ![w] = None]
      /\ UNCHANGED <<engines, descriptors, objEngine, objData, useCount>>
      /\ CodesOK'
  BY Endings DEF DestroyBenchmark, IInv
<1>3. \A v \in Wrapper : v # w => /\ wrapperBench'[v] = wrapperBench[v]
                                  /\ wrapperBench[v] # b
  BY <1>1, <1>2 DEF IInv, TypeOK, OneHandleEach
<1>4. \A g \in held' : g.p # w
  BY <1>1, PoolAssumption DEF IInv, OneHandleEach
<1>5. TypeOK'
  BY <1>2 DEF IInv, TypeOK, CodesOK
<1>6. TagSound' /\ RefCountExact'
  BY <1>2, SharingUnchanged DEF IInv, TagSound
<1>7. NoDangling'
  <2>1. \A g \in held' : g.p \in Wrapper =>
           benchEngine'[wrapperBench'[g.p]] = benchEngine[wrapperBench[g.p]]
    BY <1>2, <1>3, <1>4 DEF IInv, TypeOK, NoDangling
  <2> QED
    BY <1>2, <1>3, <1>4, <2>1 DEF IInv, NoDangling
<1>8. OneHandleEach'
  <2>1. \A g \in held : g.p # w => g \in held'
    OBVIOUS
  <2>2. wrapperBench'[w] = None
    BY <1>1, <1>2 DEF IInv, TypeOK
  <2>3. w \notin engines /\ w \notin Object
    BY <1>1, PoolAssumption DEF IInv, TypeOK
  <2> HIDE DEF w
  <2>4. EngineExtra = {} => \A e \in engines' : \E g \in held' : g.p = e
    BY <1>2, <2>1, <2>3 DEF IInv, OneHandleEach
  <2>5. \A v \in Wrapper : wrapperBench'[v] # None => \E g \in held' : g.p = v
    BY <1>3, <2>1, <2>2 DEF IInv, OneHandleEach
  <2>6. \A o \in Object : objData'[o] # None => \E g \in held' : g.p = o
    BY <1>2, <2>1, <2>3 DEF IInv, OneHandleEach
  <2>7. \A u, v \in Wrapper :
           wrapperBench'[u] = wrapperBench'[v] /\ wrapperBench'[u] # None
              => u = v
    BY <1>3, <2>2 DEF IInv, OneHandleEach
  <2> QED
    BY <2>4, <2>5, <2>6, <2>7 DEF IInv, OneHandleEach
<1> QED
  BY <1>5, <1>6, <1>7, <1>8 DEF IInv

LEMMA DestroyObjectPreserves ==
  ASSUME IInv, NEW h \in Passed, held' = held \ {h}, DestroyObject(h)
  PROVE  IInv'
<1> DEFINE o == h.p
           d == objData[o]
<1>1. h \in held /\ o \in Object /\ d # None /\ d \in Data
  BY DispatchedHandle DEF DestroyObject, IInv, TypeOK, NoDangling
<1>2. /\ useCount' = [useCount EXCEPT ![d] = useCount[d] - 1]
      /\ objData' = [objData EXCEPT ![o] = None]
      /\ objEngine' = [objEngine EXCEPT ![o] = None]
      /\ UNCHANGED <<engines, descriptors, benchEngine, wrapperBench>>
      /\ CodesOK'
  BY Endings DEF DestroyObject, IInv
<1>3. \A g \in held' : g.p # o
  BY <1>1, PoolAssumption DEF IInv, OneHandleEach
<1> HIDE DEF o, d
<1>4. \A x \in Data :
         IsFiniteSet(Sharers(x)) /\ useCount[x] = Cardinality(Sharers(x))
  BY PoolAssumption, FS_Subset DEF Sharers, IInv, RefCountExact
\* The object itself is one of the sharers that the use count counts.
<1>5. o \in Sharers(d)
  BY <1>1 DEF Sharers, d
<1>6. Cardinality(Sharers(d) \ {o}) = useCount[d] - 1
  BY <1>1, <1>4, <1>5, FS_RemoveElement
<1>7. useCount[d] - 1 \in Nat
  BY <1>1, <1>4, <1>6, FS_Subset, FS_CardinalityType
<1>8. TypeOK'
  BY <1>1, <1>2, <1>7 DEF IInv, TypeOK, CodesOK
<1>9. TagSound'
  BY DEF IInv, TagSound
<1>10. RefCountExact'
  <2> SUFFICES ASSUME NEW x \in Data
               PROVE  useCount'[x] = Cardinality(Sharers(x)')
    BY DEF RefCountExact
  <2>1. x # None
    BY PoolAssumption
  <2>2. CASE x = d
    <3>1. Sharers(x)' = Sharers(x) \ {o}
      BY <1>2, <2>1, <2>2 DEF Sharers, IInv, TypeOK
    <3>2. useCount'[x] = useCount[x] - 1
      BY <1>2, <2>2 DEF IInv, TypeOK
    <3> QED
      BY <1>6, <2>2, <3>1, <3>2
  <2>3. CASE x # d
    <3>1. Sharers(x)' = Sharers(x)
      BY <1>1, <1>2, <2>1, <2>3 DEF Sharers, IInv, TypeOK, d
    <3>2. useCount'[x] = useCount[x]
      BY <1>2, <2>3 DEF IInv, TypeOK
    <3> QED
      BY <1>4, <3>1, <3>2
  <2> QED
    BY <2>2, <2>3
<1>11. NoDangling'
  <2>1. \A p \in Object : p # o => /\ objEngine'[p] = objEngine[p]
                                   /\ objData'[p] = objData[p]
    BY <1>2 DEF IInv, TypeOK
  <2> QED
    BY <1>2, <1>3, <2>1 DEF IInv, NoDangling
<1>12. OneHandleEach'
  <2>1. \A g \in held : g.p # o => g \in held'
    BY DEF o
  <2>2. o \notin engines /\ o \notin Wrapper
    BY <1>1, PoolAssumption DEF IInv, TypeOK
  <2>3. \A p \in Object : objData'[p] # None =>
           p # o /\ objData[p] # None
    BY <1>2 DEF IInv, TypeOK
  <2> QED
    BY <1>2, <2>1, <2>2, <2>3 DEF IInv, OneHandleEach
<1> QED
  BY <1>8, <1>9, <1>10, <1>11, <1>12 DEF IInv

LEMMA DestroyEnginePreserves ==
  ASSUME IInv, NEW h \in Passed, held' = held \ {h}, DestroyEngine(h),
         h.p \in Engine => \A g \in held : g.from = h.p => g = h
  PROVE  IInv'
<1>1. h \in held /\ h.p \in Engine
  BY DispatchedHandle DEF DestroyEngine
<1>2. /\ engines' = engines \ {h.p}
      /\ descriptors' = [descriptors EXCEPT ![h.p] = 0]
      /\ UNCHANGED <<benchEngine, wrapperBench, objEngine, objData, useCount>>
      /\ CodesOK'
  BY Endings DEF DestroyEngine, IInv
<1>3. \A g \in held' : g.from # h.p
  BY <1>1
<1>4. TypeOK'
  <2>1. 0 \in 0 .. 3
    OBVIOUS
  <2>2. descriptors' \in [Engine -> 0 .. 3]
    BY <1>2, <2>1 DEF IInv, TypeOK
  <2> QED
    BY <1>2, <2>2 DEF IInv, TypeOK, CodesOK
<1>5. TagSound'
  BY DEF IInv, TagSound
<1>6. RefCountExact'
  BY <1>2, SharingUnchanged DEF IInv
<1>7. NoDangling'
  BY <1>2, <1>3 DEF IInv, NoDangling
<1>8. OneHandleEach'
  <2>1. h.p \notin Wrapper /\ h.p \notin Object
    BY <1>1, PoolAssumption
  <2> QED
    BY <1>2, <2>1 DEF IInv, OneHandleEach
<1> QED
  BY <1>4, <1>5, <1>6, <1>7, <1>8 DEF IInv

\* destroyHandle(): the branch taken fits what the handle points to, and the
\* last branch is left to handles with nothing to release.
LEMMA DestroyHandlePreserves ==
  ASSUME IInv, NEW h \in Passed, DestroyHandle(h)
  PROVE  IInv'
<1> held' = held \ {h}
  BY DEF DestroyHandle, CallDestroyHandle
<1>1. CASE DestroyNull(h)
  <2>1. h \in held => h.p \in DescIndex
    BY <1>1 DEF DestroyNull, DescIndex, NullPtr
  <2>2. CodesOK' /\ UNCHANGED heap
    BY <1>1, Endings DEF DestroyNull, IInv
  <2> QED
    BY <2>1, <2>2, HandleDropped
<1>2. CASE DestroyBenchmark(h)
  BY <1>2, DestroyBenchmarkPreserves
<1>3. CASE DestroyObject(h)
  BY <1>3, DestroyObjectPreserves
<1>4. CASE DestroyEngine(h)
  BY <1>4, DestroyEnginePreserves DEF DestroyHandle, CallDestroyHandle
<1>5. CASE DestroyDescription(h)
  <2>1. h \in held => h.p \in DescIndex
    BY <1>5, DispatchedHandle DEF DestroyDescription
  <2>2. CodesOK' /\ UNCHANGED heap
    BY <1>5, Endings DEF DestroyDescription, IInv
  <2> QED
    BY <2>1, <2>2, HandleDropped
<1>6. CASE DestroyUnknown(h)
  <2>1. h \in held => h.p \in DescIndex \/ h.p \in Engine
    BY <1>6 DEF DestroyUnknown, IsBenchmarkHandle, IsObjectHandle,
       checkHandleBits, IInv, TypeOK, TagSound, Held
  <2>2. h \in held /\ h.p \in Engine => EngineExtra # {}
    BY <1>6 DEF DestroyUnknown, IInv, TagSound, EngineTag
  <2>3. CodesOK' /\ UNCHANGED heap
    BY <1>6, Endings DEF DestroyUnknown, IInv
  <2> QED
    BY <2>1, <2>2, <2>3, HandleDropped
<1> QED
  BY <1>1, <1>2, <1>3, <1>4, <1>5, <1>6 DEF DestroyHandle, CallDestroyHandle

-----------------------------------------------------------------------------
(* The theorems.                                                           *)

LEMMA NextPreserves ==
  ASSUME IInv, [Next]_vars
  PROVE  IInv'
<1>1. CASE UNCHANGED vars
  BY <1>1, NothingChanged DEF vars, IInv, TypeOK, CodesOK
<1>2. CASE RejectNullArgument
  BY <1>2, Endings, Rejected DEF RejectNullArgument, IInv
<1>3. CASE InitEngine
  BY <1>3, InitEnginePreserves
<1>4. ASSUME NEW he \in Passed, RejectEngineHandle(he)
      PROVE  IInv'
  BY <1>4, Endings, Rejected DEF RejectEngineHandle, IInv
<1>12. ASSUME NEW he \in Passed, SubscribeBenchmarksCount(he)
       PROVE  IInv'
  BY <1>12, SubscribeBenchmarksCountPreserves
<1>5. ASSUME NEW he \in Passed, NEW n \in DescCounts,
             SubscribeBenchmarks(he, n)
      PROVE  IInv'
  BY <1>5, SubscribeBenchmarksPreserves
<1>6. ASSUME NEW he \in Passed, NEW hd \in Passed,
             QueryDescription(he, hd) \/ CreateBenchmark(he, hd)
      PROVE  IInv'
  BY <1>6, QueryDescriptionPreserves, CreateBenchmarkPreserves
<1>7. ASSUME NEW hb \in Passed, RunBackend(hb)
      PROVE  IInv'
  BY <1>7, RunBackendPreserves
<1>8. ASSUME NEW hb \in Passed, NEW m \in BackendMasks, CreateHandle(hb, m)
      PROVE  IInv'
  BY <1>8, CreateHandlePreserves, MaskAssumption
<1>9. ASSUME NEW hb \in Passed, NEW h \in Passed, NEW m \in BackendMasks,
             RetrieveFromHandle(hb, h, m)
      PROVE  IInv'
  BY <1>9, RetrieveFromHandlePreserves
<1>10. ASSUME NEW hb \in Passed, NEW h \in Passed, NEW m \in BackendMasks,
              NEW new \in BackendMasks \cup {h.tag},
              DuplicateHandle(hb, h, new, m)
       PROVE  IInv'
  BY <1>10, DuplicateHandlePreserves, MaskAssumption
<1>11. ASSUME NEW h \in Passed, DestroyHandle(h)
       PROVE  IInv'
  BY <1>11, DestroyHandlePreserves
<1> QED
  BY <1>1, <1>2, <1>3, <1>4, <1>5, <1>6, <1>7, <1>8, <1>9, <1>10, <1>11,
     <1>12 DEF Next, Calls

\* The invariant holds in every reachable state.
THEOREM Invariance == Spec => []IInv
<1>1. Init => IInv
  BY InitIInv
<1>2. IInv /\ [Next]_vars => IInv'
  BY NextPreserves
<1> QED
  BY <1>1, <1>2, PTL DEF Spec

\* Types are respected by every call of the API.
THEOREM TypeCorrect == Spec => []TypeOK
<1>1. IInv => TypeOK
  BY DEF IInv
<1> QED
  BY <1>1, Invariance, PTL

\* Whatever masks a backend passes to the handle helpers, the tag of every
\* handle in the client's hands tells what its pointer points to.
THEOREM TagsAreSound == Spec => []TagSound
<1>1. IInv => TagSound
  BY DEF IInv
<1> QED
  BY <1>1, Invariance, PTL

\* The use count of every datum is the number of objects that share it.
THEOREM RefCountsAreExact == Spec => []RefCountExact
<1>1. IInv => RefCountExact
  BY DEF IInv
<1> QED
  BY <1>1, Invariance, PTL

\* A client that destroys an engine after the handles it obtained through it
\* never holds a handle into freed memory, with any number of engines.
THEOREM NothingDangles == Spec => []NoDangling
<1>1. IInv => NoDangling
  BY DEF IInv
<1> QED
  BY <1>1, Invariance, PTL

\* Nothing is destroyed twice, and nothing that can be destroyed is lost.
THEOREM NothingLeaks == Spec => []OneHandleEach
<1>1. IInv => OneHandleEach
  BY DEF IInv
<1> QED
  BY <1>1, Invariance, PTL

-----------------------------------------------------------------------------
(* What calls do to the client's handles.                                  *)

\* Only destroyHandle() takes a handle from the client.
LEMMA CallsKeepHandles == Calls => held \subseteq held'
BY DEF Calls, RejectNullArgument, InitEngine, RejectEngineHandle,
       SubscribeBenchmarksCount, SubscribeBenchmarks, QueryDescription,
       CreateBenchmark, RunBackend, CreateHandle, RetrieveFromHandle,
       DuplicateHandle, duplicateHandleInternal, Reject

-----------------------------------------------------------------------------
(* Failing calls.                                                          *)

\* What FailureLeavesHeap says of a step.
FailedStep ==
    ret' # SUCCESS =>
       /\ UNCHANGED <<engines, descriptors, wrapperBench, objEngine, objData,
                      useCount>>
       /\ \A b \in Bench : benchEngine[b] # None => UNCHANGED benchEngine[b]
       /\ held' \subseteq held

LEMMA Harmless ==
    /\ Succeed => FailedStep
    /\ UNCHANGED heap /\ held' \subseteq held => FailedStep
    /\ \A code : Reject(code) => FailedStep
BY DEF Succeed, Return, FailedStep, Reject, heap

LEMMA FailedCreateBenchmark ==
    ASSUME IInv, NEW he \in Passed, NEW hd \in Passed, CreateBenchmark(he, hd)
    PROVE  FailedStep
<1>1. CASE Reject(CRITICAL) \/ UNCHANGED <<heap, held>>
  BY <1>1, Harmless
<1>2. CASE Succeed
  BY <1>2, Harmless
<1>3. ASSUME NEW b \in Bench, benchEngine[b] = None,
             benchEngine' = [benchEngine EXCEPT ![b] = he.p],
             UNCHANGED <<engines, descriptors, wrapperBench, objEngine,
                         objData, useCount, held>>
      PROVE  FailedStep
  BY <1>3 DEF FailedStep, IInv, TypeOK
<1> QED
  BY <1>1, <1>2, <1>3 DEF CreateBenchmark

LEMMA FailedCall ==
    ASSUME IInv, Calls
    PROVE  FailedStep
<1>1. ASSUME NEW he \in Passed, NEW hd \in Passed, CreateBenchmark(he, hd)
      PROVE  FailedStep
  BY <1>1, FailedCreateBenchmark
<1>2. CASE RejectNullArgument \/ InitEngine
  BY <1>2, Harmless DEF RejectNullArgument, InitEngine
<1>3. ASSUME NEW he \in Passed,
             \/ RejectEngineHandle(he)
             \/ SubscribeBenchmarksCount(he)
             \/ \E n \in DescCounts : SubscribeBenchmarks(he, n)
             \/ \E hd \in Passed : QueryDescription(he, hd)
      PROVE  FailedStep
  BY <1>3, Harmless DEF RejectEngineHandle, SubscribeBenchmarksCount,
     SubscribeBenchmarks, QueryDescription
<1>4. ASSUME NEW hb \in Passed,
             \/ RunBackend(hb)
             \/ \E m \in BackendMasks : CreateHandle(hb, m)
      PROVE  FailedStep
  BY <1>4, Harmless DEF RunBackend, CreateHandle
<1>5. ASSUME NEW hb \in Passed, NEW h \in Passed, NEW m \in BackendMasks,
             \/ RetrieveFromHandle(hb, h, m)
             \/ \E new \in BackendMasks \cup {h.tag} :
                   DuplicateHandle(hb, h, new, m)
      PROVE  FailedStep
  BY <1>5, Harmless DEF RetrieveFromHandle, DuplicateHandle,
     duplicateHandleInternal
<1> QED
  BY <1>1, <1>2, <1>3, <1>4, <1>5 DEF Calls

LEMMA FailedDestroy ==
    ASSUME NEW h \in Passed, CallDestroyHandle(h)
    PROVE  FailedStep
BY Harmless DEF CallDestroyHandle, DestroyNull, DestroyBenchmark,
   DestroyObject, DestroyEngine, DestroyDescription, DestroyUnknown

\* A call that fails leaves everything the client had as it was.
THEOREM FailuresLeaveHeap == Spec => FailureLeavesHeap
<1>1. IInv /\ [Next]_vars => [FailedStep]_vars
  BY FailedCall, FailedDestroy DEF Next, DestroyHandle
<1> QED
  BY <1>1, Invariance, PTL DEF Spec, FailureLeavesHeap, FailedStep

-----------------------------------------------------------------------------
(* Destruction.                                                            *)

\* What DestroyReleases says of a step.
ReleasingStep == \A h \in held \ held' : ~Allocated(h.p)'

LEMMA DestroyedIsGone ==
    ASSUME EngineExtra = {}, IInv, NEW h \in held, CallDestroyHandle(h)
    PROVE  ~Allocated(h.p)'
<1> USE DEF IInv
<1>1. h \in Passed /\ h \in Held
  BY DEF Passed, TypeOK
<1>2. h.p \in DescIndex /\ UNCHANGED heap => ~Allocated(h.p)'
  BY PoolAssumption DEF heap, Allocated, TypeOK
<1>3. CASE DestroyNull(h)
  BY <1>2, <1>3 DEF DestroyNull, DescIndex, NullPtr
<1>4. CASE DestroyBenchmark(h)
  <2>1. h.p \in Wrapper /\ wrapperBench'[h.p] = None /\ engines' \subseteq Engine
    BY <1>1, <1>4, DispatchedHandle DEF DestroyBenchmark, TypeOK
  <2> QED
    BY <2>1, PoolAssumption DEF Allocated
<1>5. CASE DestroyObject(h)
  <2>1. h.p \in Object /\ objData'[h.p] = None /\ engines' \subseteq Engine
    BY <1>1, <1>5, DispatchedHandle DEF DestroyObject, TypeOK
  <2> QED
    BY <2>1, PoolAssumption DEF Allocated
<1>6. CASE DestroyEngine(h)
  <2>1. h.p \in Engine /\ h.p \notin engines'
    BY <1>1, <1>6, DispatchedHandle DEF DestroyEngine
  <2> QED
    BY <2>1, PoolAssumption DEF Allocated
<1>7. CASE DestroyDescription(h)
  BY <1>1, <1>2, <1>7, DispatchedHandle DEF DestroyDescription
<1>8. CASE DestroyUnknown(h)
  \* An engine with a tag of its own would end here.
  <2>1. h.p \notin Engine
    BY <1>8 DEF DestroyUnknown, TagSound, EngineTag
  <2>2. h.p \in DescIndex
    BY <1>1, <1>8, <2>1 DEF DestroyUnknown, IsBenchmarkHandle, IsObjectHandle,
       checkHandleBits, TagSound, Held
  <2> QED
    BY <1>2, <1>8, <2>2 DEF DestroyUnknown
<1> QED
  BY <1>3, <1>4, <1>5, <1>6, <1>7, <1>8 DEF CallDestroyHandle

\* Where engine tags have no bits of their own, destroyHandle() releases what
\* is behind the handle it is passed.
THEOREM DestructionReleases ==
    ASSUME EngineExtra = {}
    PROVE  Spec => DestroyReleases
<1>1. IInv /\ [Next]_vars => [ReleasingStep]_vars
  <2> SUFFICES ASSUME IInv, Next PROVE ReleasingStep
    OBVIOUS
  <2>1. CASE Calls
    BY <2>1, CallsKeepHandles DEF ReleasingStep
  <2>2. ASSUME NEW h \in Passed, DestroyHandle(h)
        PROVE  ReleasingStep
    <3>1. CallDestroyHandle(h) /\ held \ held' \subseteq {h}
      BY <2>2 DEF DestroyHandle, CallDestroyHandle
    <3> QED
      BY <3>1, DestroyedIsGone DEF ReleasingStep
  <2> QED
    BY <2>1, <2>2 DEF Next
<1> QED
  BY <1>1, Invariance, PTL DEF Spec, DestroyReleases, ReleasingStep

-----------------------------------------------------------------------------
(* The abstract specification of shared data.                              *)

\* In a reachable state the owners of a datum that the client knows are all
\* the objects that share it, and the data that exist are those with owners.
OwnersKnown ==
    /\ ownersOfData = [d \in Data |-> Sharers(d)]
    /\ \A d \in Data : useCount[d] > 0 <=> Sharers(d) # {}

LEMMA OwnersAreSharers == IInv => OwnersKnown
<1> SUFFICES ASSUME IInv PROVE OwnersKnown
  OBVIOUS
<1>1. ASSUME NEW d \in Data, NEW o \in Sharers(d)
      PROVE  \E h \in held : h.p = o
  BY PoolAssumption DEF Sharers, IInv, OneHandleEach
<1>2. ASSUME NEW d \in Data
      PROVE  useCount[d] > 0 <=> Sharers(d) # {}
  <2>1. IsFiniteSet(Sharers(d)) /\ useCount[d] = Cardinality(Sharers(d))
    BY PoolAssumption, FS_Subset DEF Sharers, IInv, RefCountExact
  <2>2. useCount[d] = 0 <=> Sharers(d) = {}
    BY <2>1, FS_EmptySet
  <2> QED
    BY <2>2 DEF IInv, TypeOK
<1>3. ASSUME NEW d \in Data
      PROVE  {o \in Sharers(d) : \E h \in held : h.p = o} = Sharers(d)
  BY <1>1
<1> QED
  BY <1>2, <1>3 DEF OwnersKnown, ownersOfData

LEMMA OwnersStaySharers == IInv' => OwnersKnown'
<1> QED
  BY OwnersAreSharers, PTL

\* No object owns two data, and one that is not allocated owns none.
LEMMA OwningIsHaving ==
    ASSUME IInv, NEW o \in Object
    PROVE  Contract!Owning(o) <=> objData[o] # None
<1>1. (\E d \in Data : o \in Sharers(d)) <=> objData[o] # None
  BY PoolAssumption DEF Sharers, IInv, TypeOK
<1> QED
  BY <1>1, OwnersAreSharers DEF OwnersKnown, Contract!Owning

LEMMA SharingStutters ==
    ASSUME IInv, IInv', UNCHANGED <<objData, useCount>>
    PROVE  UNCHANGED Contract!shared
<1>1. \A d \in Data : Sharers(d)' = Sharers(d)
  BY DEF Sharers
<1>2. ownersOfData' = [d \in Data |-> Sharers(d)']
  BY OwnersStaySharers DEF OwnersKnown
<1>3. UNCHANGED ownersOfData
  BY <1>1, <1>2, OwnersAreSharers DEF OwnersKnown
<1> QED
  BY <1>3 DEF Contract!shared

\* createHandle() creates a datum.
LEMMA NewDatum ==
    ASSUME IInv, IInv', NEW o \in Object, NEW d \in Data,
           objData[o] = None, useCount[d] = 0,
           objData' = [objData EXCEPT ![o] = d],
           useCount' = [useCount EXCEPT ![d] = 1]
    PROVE  Contract!Create(o, d)
<1>1. Sharers(d)' = {o}
  <2>1. Sharers(d) = {}
    BY OwnersAreSharers DEF OwnersKnown
  <2> QED
    BY <2>1, PoolAssumption DEF Sharers, IInv, TypeOK
<1>2. \A x \in Data : x # d => Sharers(x)' = Sharers(x)
  BY PoolAssumption DEF Sharers, IInv, TypeOK
<1>3. ownersOfData' = [ownersOfData EXCEPT ![d] = {o}]
  <2>1. ownersOfData' = [x \in Data |-> Sharers(x)']
    BY OwnersStaySharers DEF OwnersKnown
  <2> QED
    BY <1>1, <1>2, <2>1, OwnersAreSharers DEF OwnersKnown
<1>4. {x \in Data : useCount[x] > 0}' = {x \in Data : useCount[x] > 0} \cup {d}
  BY DEF IInv, TypeOK
<1>5. ~Contract!Owning(o)
  BY OwningIsHaving
<1> QED
  BY <1>3, <1>4, <1>5 DEF Contract!Create

\* duplicateHandle() adds an owner to a datum that has one.
LEMMA NewOwner ==
    ASSUME IInv, IInv', NEW from \in Object, NEW o \in Object, NEW d \in Data,
           objData[from] = d, objData[o] = None,
           objData' = [objData EXCEPT ![o] = d],
           useCount' = [useCount EXCEPT ![d] = useCount[d] + 1]
    PROVE  Contract!Share(from, o, d)
<1>1. Sharers(d)' = Sharers(d) \cup {o}
  BY PoolAssumption DEF Sharers, IInv, TypeOK
<1>2. \A x \in Data : x # d => Sharers(x)' = Sharers(x)
  BY PoolAssumption DEF Sharers, IInv, TypeOK
<1>3. ownersOfData' = [ownersOfData EXCEPT ![d] = @ \cup {o}]
  <2>1. ownersOfData' = [x \in Data |-> Sharers(x)']
    BY OwnersStaySharers DEF OwnersKnown
  <2> QED
    BY <1>1, <1>2, <2>1, OwnersAreSharers DEF OwnersKnown
<1>4. from \in Sharers(d)
  BY DEF Sharers
<1>5. {x \in Data : useCount[x] > 0}' = {x \in Data : useCount[x] > 0}
  <2>1. useCount[d] > 0
    BY <1>4, OwnersAreSharers DEF OwnersKnown
  <2>2. \A x \in Data : useCount'[x] > 0 <=> useCount[x] > 0
    BY <2>1 DEF IInv, TypeOK
  <2> QED
    BY <2>2
<1>6. ~Contract!Owning(o)
  BY OwningIsHaving
<1>7. from \in ownersOfData[d]
  BY <1>4, OwnersAreSharers DEF OwnersKnown
<1> QED
  BY <1>3, <1>5, <1>6, <1>7 DEF Contract!Share

\* The destruction of an object takes an owner away, and the datum with the
\* last.
LEMMA OwnerGone ==
    ASSUME IInv, IInv', NEW o \in Object, NEW d \in Data,
           objData[o] = d,
           objData' = [objData EXCEPT ![o] = None],
           useCount' = [useCount EXCEPT ![d] = useCount[d] - 1]
    PROVE  Contract!Release(o, d)
<1>1. Sharers(d)' = Sharers(d) \ {o}
  BY PoolAssumption DEF Sharers, IInv, TypeOK
<1>2. \A x \in Data : x # d => Sharers(x)' = Sharers(x)
  BY PoolAssumption DEF Sharers, IInv, TypeOK
<1>3. ownersOfData' = [ownersOfData EXCEPT ![d] = @ \ {o}]
  <2>1. ownersOfData' = [x \in Data |-> Sharers(x)']
    BY OwnersStaySharers DEF OwnersKnown
  <2> QED
    BY <1>1, <1>2, <2>1, OwnersAreSharers DEF OwnersKnown
<1>4. o \in ownersOfData[d]
  <2>1. o \in Sharers(d)
    BY DEF Sharers
  <2> QED
    BY <2>1, OwnersAreSharers DEF OwnersKnown
<1>5. {x \in Data : useCount[x] > 0}' =
         IF ownersOfData[d] = {o} THEN {x \in Data : useCount[x] > 0} \ {d}
         ELSE {x \in Data : useCount[x] > 0}
  <2>1. \A x \in Data : x # d => useCount'[x] = useCount[x]
    BY DEF IInv, TypeOK
  <2>2. useCount[d] > 0
    BY <1>4, OwnersAreSharers DEF OwnersKnown
  <2>3. useCount'[d] > 0 <=> ownersOfData[d] # {o}
    <3>1. useCount'[d] > 0 <=> Sharers(d)' # {}
      BY OwnersStaySharers DEF OwnersKnown
    <3>2. ownersOfData[d] = Sharers(d)
      BY OwnersAreSharers DEF OwnersKnown
    <3> QED
      BY <1>1, <1>4, <3>1, <3>2
  <2> QED
    BY <2>1, <2>2, <2>3
<1> QED
  BY <1>3, <1>4, <1>5 DEF Contract!Release

\* Every call is one of the three, or changes no sharing.
LEMMA SharingStep ==
    ASSUME IInv, IInv', [Next]_vars
    PROVE  [Contract!SharedNext]_(Contract!shared)
<1>1. ASSUME NEW hb \in Passed, NEW m \in BackendMasks, CreateHandle(hb, m)
      PROVE  \/ UNCHANGED <<objData, useCount>>
             \/ \E o \in Object, d \in Data : Contract!Create(o, d)
  <2>1. CASE UNCHANGED heap
    BY <2>1 DEF heap
  <2>2. ASSUME NEW o \in Object, NEW d \in Data,
               objData[o] = None, useCount[d] = 0,
               objData' = [objData EXCEPT ![o] = d],
               useCount' = [useCount EXCEPT ![d] = 1]
        PROVE  Contract!Create(o, d)
    BY <2>2, NewDatum
  <2> QED
    BY <1>1, <2>1, <2>2 DEF CreateHandle, Reject
<1>2. ASSUME NEW hb \in Passed, NEW h \in Passed, NEW m \in BackendMasks,
             NEW new \in BackendMasks \cup {h.tag},
             DuplicateHandle(hb, h, new, m)
      PROVE  \/ UNCHANGED <<objData, useCount>>
             \/ \E from, o \in Object, d \in Data : Contract!Share(from, o, d)
  <2>1. CASE UNCHANGED heap
    BY <2>1 DEF heap
  <2>2. ASSUME checkHandleTags(h, m), NEW o \in Object, objData[o] = None,
               objData' = [objData EXCEPT ![o] = objData[h.p]],
               useCount' = [useCount EXCEPT ![objData[h.p]] =
                               useCount[objData[h.p]] + 1]
        PROVE  \E from \in Object, d \in Data : Contract!Share(from, o, d)
    <3>1. h.p \in Object /\ objData[h.p] \in Data
      BY <2>2, CheckedHandle
    <3> QED
      BY <2>2, <3>1, NewOwner
  <2> QED
    BY <1>2, <2>1, <2>2 DEF DuplicateHandle, duplicateHandleInternal, Reject
<1>3. ASSUME NEW h \in Passed, DestroyHandle(h)
      PROVE  \/ UNCHANGED <<objData, useCount>>
             \/ \E o \in Object, d \in Data : Contract!Release(o, d)
  <2>1. CASE UNCHANGED <<objData, useCount>>
    BY <2>1
  <2>2. CASE DestroyObject(h)
    <3>1. h.p \in Object /\ objData[h.p] \in Data
      BY <2>2, DispatchedHandle DEF DestroyObject, IInv, TypeOK, NoDangling
    <3>2. /\ objData' = [objData EXCEPT ![h.p] = None]
          /\ useCount' = [useCount EXCEPT ![objData[h.p]] =
                             useCount[objData[h.p]] - 1]
      BY <2>2 DEF DestroyObject
    <3> QED
      BY <3>1, <3>2, OwnerGone
  <2> QED
    BY <1>3, <2>1, <2>2 DEF DestroyHandle, CallDestroyHandle, DestroyNull,
       DestroyBenchmark, DestroyEngine, DestroyDescription, DestroyUnknown,
       heap
<1>4. CASE RejectNullArgument \/ InitEngine
  BY <1>4, SharingStutters DEF RejectNullArgument, InitEngine, Reject, heap
<1>5. ASSUME NEW he \in Passed,
             \/ RejectEngineHandle(he)
             \/ SubscribeBenchmarksCount(he)
             \/ \E n \in DescCounts : SubscribeBenchmarks(he, n)
             \/ \E hd \in Passed :
                   QueryDescription(he, hd) \/ CreateBenchmark(he, hd)
      PROVE  UNCHANGED <<objData, useCount>>
  BY <1>5 DEF RejectEngineHandle, SubscribeBenchmarksCount, Reject, heap,
     SubscribeBenchmarks, QueryDescription, CreateBenchmark
<1>6. ASSUME NEW hb \in Passed,
             \/ RunBackend(hb)
             \/ \E h \in Passed, m \in BackendMasks :
                   RetrieveFromHandle(hb, h, m)
      PROVE  UNCHANGED <<objData, useCount>>
  BY <1>6 DEF RunBackend, RetrieveFromHandle, Reject, heap
<1>7. CASE UNCHANGED vars
  BY <1>7, SharingStutters DEF vars, heap
<1>8. Next => \/ UNCHANGED <<objData, useCount>>
              \/ Contract!SharedNext
  <2>1. CASE Calls
    BY <1>1, <1>2, <1>4, <1>5, <1>6, <2>1 DEF Calls, Contract!SharedNext,
       RejectNullArgument, InitEngine, Reject, heap
  <2>2. CASE \E h \in Passed : DestroyHandle(h)
    BY <1>3, <2>2 DEF Contract!SharedNext
  <2> QED
    BY <2>1, <2>2 DEF Next
<1> QED
  BY <1>7, <1>8, SharingStutters

\* Data are shared the way BaseEngine documents it, through any sequence of
\* calls: no datum goes before its last owner or stays after it.
THEOREM SharingAsPromised == Spec => ImplementsSharedData
<1>1. Init => Contract!SharedInit
  <2> SUFFICES ASSUME Init PROVE Contract!SharedInit
    OBVIOUS
  <2>1. {d \in Data : useCount[d] > 0} = {}
    BY DEF Init
  <2>2. ownersOfData = [d \in Data |-> {}]
    BY DEF Init, ownersOfData
  <2> QED
    BY <2>1, <2>2 DEF Contract!SharedInit
<1>2. IInv /\ IInv' /\ [Next]_vars => [Contract!SharedNext]_(Contract!shared)
  BY SharingStep
<1> QED
  BY <1>1, <1>2, Invariance, PTL
     DEF Spec, ImplementsSharedData, Contract!SharedSpec
=============================================================================
