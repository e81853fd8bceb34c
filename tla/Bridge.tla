------------------------------- MODULE Bridge -------------------------------
(***************************************************************************)
(* The C API of the bridge (main.cpp) over the C++ wrapper (BaseEngine,    *)
(* BenchmarkDescription, BaseBenchmark, EngineObject): which objects are   *)
(* on the heap, who owns them, and which handles the client holds.         *)
(*                                                                         *)
(* The client is the Test Harness.  It is external: it destroys only       *)
(* handles it holds, each once, and an engine only after every handle it   *)
(* obtained through that engine (api.h promises the stricter reverse       *)
(* order).  It may pass any handle it holds, or a null one, where the      *)
(* library looks at the handle before it uses it.  The backend is external *)
(* too: an operation calls one of the wrapper's helpers with masks of its  *)
(* choice or throws.  Its destroyBenchmark() and destroyEngine() do not    *)
(* throw: they run destructors.                                            *)
(***************************************************************************)
EXTENDS Tags, FiniteSets

CONSTANTS
    Engine, Bench, Wrapper, Object, Data,  \* addresses the allocator returns
    None,                \* content of an address that is not allocated
    DescCounts,          \* how many descriptions an engine may register
    EngineExtra,         \* client bits in the class tag of the engine,
    DescExtra,           \*   of its benchmark descriptions,
    BenchExtra,          \*   and of its benchmarks
    BackendMasks,        \* masks the backend passes to the handle helpers
    BackendCodes,        \* error codes of the backend's own HEBenchErrors
    AllocMayFail         \* whether new may throw std::bad_alloc

SUCCESS == "HEBENCH_ECODE_SUCCESS"
INVALID_ARGS == "HEBENCH_ECODE_INVALID_ARGS"
CRITICAL == "HEBENCH_ECODE_CRITICAL_ERROR"
ErrorCode == {SUCCESS, INVALID_ARGS, CRITICAL} \cup BackendCodes

\* Index of a description in an engine: an engine registers at most 3.
DescIndex == 0 .. 2

ASSUME PoolAssumption ==
    /\ Engine \cap Wrapper = {}
    /\ Engine \cap Object = {}
    /\ Wrapper \cap Object = {}
    /\ DescIndex \cap (Engine \cup Wrapper \cup Object) = {}
    /\ None \notin Engine \cup Bench \cup Data
    /\ IsFiniteSet(Object)

ASSUME MaskAssumption ==
    /\ DescCounts \subseteq 0 .. 3
    /\ EngineExtra \subseteq ClientBit
    /\ DescExtra \subseteq ClientBit
    /\ BenchExtra \subseteq ClientBit
    /\ BackendMasks \subseteq SUBSET Bit
    /\ BackendCodes \cap {SUCCESS} = {}
    /\ AllocMayFail \in BOOLEAN

VARIABLES
    engines,      \* engines that exist
    descriptors,  \* m_descriptors.size() of each engine
    benchEngine,  \* BaseBenchmark::m_engine
    wrapperBench, \* BenchmarkHandle::p_benchmark
    objEngine,    \* EngineObject::m_engine
    objData,      \* EngineObject::m_p_obj, the data it shares
    useCount,     \* use count of the shared_ptr to each datum
    held,         \* handles of the client, with the engine they came through
    ret,          \* what the last call returned
    lastError     \* BaseEngine::m_last_error, static

heap == <<engines, descriptors, benchEngine, wrapperBench, objEngine, objData,
          useCount>>
vars == <<heap, held, ret, lastError>>
-----------------------------------------------------------------------------
(* Helpers: what a call sees, and how it ends.                             *)

EngineTag == BaseEngineTag \cup EngineExtra
DescTag == BenchmarkDescriptionTag \cup DescExtra
BenchTag == BaseBenchmarkTag \cup BenchExtra   \* p_bench->classTag()

\* A handle a call may receive: one the client holds, or a null one.
Passed == held \cup {NullHandle}

HeldHandle(p, tag, e) == [p |-> p, tag |-> tag, from |-> e]
BenchHandles == {h \in held : h.p \in Wrapper}

\* Objects that share the datum d.
Sharers(d) == {o \in Object : objData[o] = d}

Return(code) == ret' = code
Succeed == Return(SUCCESS) /\ UNCHANGED lastError
Throw(code) == Return(code) /\ lastError' = code   \* caught HEBenchError
ThrowStd == Return(CRITICAL) /\ lastError' = CRITICAL
ThrowOther == Return(CRITICAL) /\ UNCHANGED lastError  \* catch (...)

\* The call fails with code before it changes anything.
Reject(code) == Throw(code) /\ UNCHANGED <<heap, held>>

BackendThrows ==
    \/ \E c \in BackendCodes : Throw(c)
    \/ ThrowStd
    \/ ThrowOther

\* BaseEngine::matchBenchmark(): whether hd denotes a description of e.
matchBenchmark(e, hd) ==
    /\ hd.p \in DescIndex
    /\ hd.p < descriptors[e]
    /\ hd.tag \cap BenchmarkDescriptionTag # {}

\* Each throw that BaseEngine::checkHandleTags() makes, negated.
checkHandleTags(h, check) ==
    /\ IsClientMask(check)
    /\ EngineObjectTag \subseteq h.tag
    /\ check \subseteq h.tag
-----------------------------------------------------------------------------
(* Engines and descriptions.                                               *)

\* A null output pointer, a null data pack or an empty array, in any of the
\* calls that look for them before they do anything.
RejectNullArgument == Reject(CRITICAL)

\* initEngine(): createEngine() is the backend's; what it registers and
\* whether it throws is its choice.
InitEngine ==
    \/ \E e \in Engine \ engines, n \in DescCounts :
          /\ engines' = engines \cup {e}
          /\ descriptors' = [descriptors EXCEPT ![e] = n]
          /\ held' = held \cup {HeldHandle(e, EngineTag, e)}
          /\ Succeed
          /\ UNCHANGED <<benchEngine, wrapperBench, objEngine, objData,
                         useCount>>
    \/ BackendThrows /\ UNCHANGED <<heap, held>>

\* The engine calls reject a handle that lacks the engine bit.
RejectEngineHandle(he) ==
    /\ ~checkHandleBits(he, BaseEngineTag)
    /\ Reject(CRITICAL)

\* subscribeBenchmarksCount(): the count is all the client learns.
SubscribeBenchmarksCount(he) ==
    /\ checkHandleBits(he, BaseEngineTag)
    /\ Succeed
    /\ UNCHANGED <<heap, held>>

\* Faulty variant: the handles are written before the count is validated.
SubscribeBeforeCheck(he, count) ==
    /\ checkHandleBits(he, BaseEngineTag)
    /\ held' = held \cup {HeldHandle(i, DescTag, he.p) :
                             i \in {j \in DescIndex : j < count}}
    /\ IF count = descriptors[he.p] THEN Succeed ELSE Throw(INVALID_ARGS)
    /\ UNCHANGED heap

SubscribeBenchmarks(he, count) ==
    /\ checkHandleBits(he, BaseEngineTag)
    /\ \/ /\ count # descriptors[he.p]
          /\ Reject(INVALID_ARGS)
       \/ /\ count = descriptors[he.p]
          /\ held' = held \cup {HeldHandle(i, DescTag, he.p) :
                                   i \in {j \in DescIndex : j < count}}
          /\ Succeed
          /\ UNCHANGED heap

\* getWorkloadParamsDetails() and describeBenchmark(): reads of a matched
\* description.  describeBenchmark() also throws when the caller's parameter
\* arrays are too small.
QueryDescription(he, hd) ==
    /\ checkHandleBits(he, BaseEngineTag)
    /\ \/ ~matchBenchmark(he.p, hd) /\ Reject(CRITICAL)
       \/ /\ matchBenchmark(he.p, hd)
          /\ Succeed \/ Throw(CRITICAL)
          /\ UNCHANGED <<heap, held>>
-----------------------------------------------------------------------------
(* Benchmarks.                                                             *)

\* BaseEngine::createBenchmark().  The wrapper is allocated after the backend
\* made the benchmark, so that a failed allocation abandons the benchmark.
CreateBenchmark(he, hd) ==
    /\ checkHandleBits(he, BaseEngineTag)
    /\ \/ ~matchBenchmark(he.p, hd) /\ Reject(CRITICAL)
       \/ /\ matchBenchmark(he.p, hd)
          /\ BackendThrows
          /\ UNCHANGED <<heap, held>>
       \/ /\ matchBenchmark(he.p, hd)
          /\ \E b \in Bench :
                /\ benchEngine[b] = None
                /\ benchEngine' = [benchEngine EXCEPT ![b] = he.p]
                /\ \/ \E w \in Wrapper :
                         /\ wrapperBench[w] = None
                         /\ wrapperBench' = [wrapperBench EXCEPT ![w] = b]
                         /\ held' = held \cup
                               {HeldHandle(w, BenchTag \cup BenchmarkHandleTag,
                                           he.p)}
                         /\ Succeed
                   \/ /\ AllocMayFail
                      /\ ThrowStd
                      /\ UNCHANGED <<wrapperBench, held>>
          /\ UNCHANGED <<engines, descriptors, objEngine, objData, useCount>>

\* initBenchmark(), and every operation of a benchmark whose backend code
\* throws, or ends without giving the client a new handle.  A handle that is
\* null is rejected; no other check is made on it.
RunBackend(hb) ==
    \/ hb.p = NullPtr /\ Reject(CRITICAL)
    \/ /\ hb \in BenchHandles
       /\ Succeed \/ BackendThrows
       /\ UNCHANGED <<heap, held>>
-----------------------------------------------------------------------------
(* Objects: the helpers a backend builds its operations from.  Each is     *)
(* called inside encode(), encrypt(), decrypt(), load(), store() or        *)
(* operate() of the benchmark hb, and what it throws leaves that call.     *)

\* BaseEngine::createHandle(): new data in a new object.  If the allocation
\* fails the shared_ptr frees the data again.
CreateHandle(hb, extra) ==
    /\ hb \in BenchHandles
    /\ \/ ~IsClientMask(extra) /\ Reject(CRITICAL)
       \/ /\ IsClientMask(extra)
          /\ AllocMayFail
          /\ ThrowStd
          /\ UNCHANGED <<heap, held>>
       \/ /\ IsClientMask(extra)
          /\ LET e == benchEngine[wrapperBench[hb.p]]
             IN  \E o \in Object, d \in Data :
                   /\ objData[o] = None /\ useCount[d] = 0
                   /\ objEngine' = [objEngine EXCEPT ![o] = e]
                   /\ objData' = [objData EXCEPT ![o] = d]
                   /\ useCount' = [useCount EXCEPT ![d] = 1]
                   /\ held' = held \cup
                         {HeldHandle(o, EngineObjectTag \cup extra, hb.from)}
          /\ Succeed
          /\ UNCHANGED <<engines, descriptors, benchEngine, wrapperBench>>

\* Faulty variant: the new object gets a shared_ptr of its own to the data.
DuplicateUncounted(e, hb, h, new) ==
    /\ h.p # NullPtr /\ objEngine[h.p] = e
    /\ \E o \in Object :
          /\ objData[o] = None
          /\ objEngine' = [objEngine EXCEPT ![o] = objEngine[h.p]]
          /\ objData' = [objData EXCEPT ![o] = objData[h.p]]
          /\ held' = held \cup
                {HeldHandle(o, EngineObjectTag \cup new, hb.from)}
    /\ Succeed
    /\ UNCHANGED <<engines, descriptors, benchEngine, wrapperBench, useCount>>

\* Faulty variant: objects of another engine are duplicated as well.
DuplicateForeign(e, hb, h, new) ==
    /\ h.p # NullPtr
    /\ \E o \in Object :
          /\ objData[o] = None
          /\ objEngine' = [objEngine EXCEPT ![o] = objEngine[h.p]]
          /\ objData' = [objData EXCEPT ![o] = objData[h.p]]
          /\ held' = held \cup
                {HeldHandle(o, EngineObjectTag \cup new, hb.from)}
    /\ useCount' = [useCount EXCEPT ![objData[h.p]] = @ + 1]
    /\ Succeed
    /\ UNCHANGED <<engines, descriptors, benchEngine, wrapperBench>>

\* BaseEngine::duplicateHandleInternal() on behalf of engine e.
duplicateHandleInternal(e, hb, h, new) ==
    \/ h.p = NullPtr /\ Reject(CRITICAL)
    \/ h.p # NullPtr /\ objEngine[h.p] # e /\ Reject(CRITICAL)
    \/ /\ h.p # NullPtr /\ objEngine[h.p] = e
       /\ \/ AllocMayFail /\ ThrowStd /\ UNCHANGED <<heap, held>>
          \/ /\ \E o \in Object :
                   /\ objData[o] = None
                   /\ objEngine' = [objEngine EXCEPT ![o] = objEngine[h.p]]
                   /\ objData' = [objData EXCEPT ![o] = objData[h.p]]
                   /\ held' = held \cup
                         {HeldHandle(o, EngineObjectTag \cup new, hb.from)}
             /\ useCount' = [useCount EXCEPT ![objData[h.p]] = @ + 1]
             /\ Succeed
             /\ UNCHANGED <<engines, descriptors, benchEngine, wrapperBench>>

\* BaseEngine::duplicateHandle(), both overloads: without new_tags the new
\* handle has the tag of the old one.
DuplicateHandle(hb, h, new, check) ==
    /\ hb \in BenchHandles
    /\ \/ /\ \/ ~checkHandleTags(h, check)
             \/ new # h.tag /\ ~IsClientMask(new)
          /\ Reject(CRITICAL)
       \/ /\ checkHandleTags(h, check)
          /\ new = h.tag \/ IsClientMask(new)
          /\ duplicateHandleInternal(benchEngine[wrapperBench[hb.p]], hb, h,
                                     new)

\* BaseEngine::retrieveFromHandle(): unlike duplicateHandle() it does not ask
\* which engine the object is of.
RetrieveFromHandle(hb, h, extra) ==
    /\ hb \in BenchHandles
    /\ \/ /\ ~checkHandleTags(h, extra) \/ h.p = NullPtr
          /\ Reject(CRITICAL)
       \/ /\ checkHandleTags(h, extra) /\ h.p # NullPtr
          /\ Succeed
          /\ UNCHANGED <<heap, held>>
-----------------------------------------------------------------------------
(* destroyHandle(): one operator per branch of its dispatch on the tag.    *)

IsBenchmarkHandle(h) == checkHandleBits(h, BenchmarkHandleTag)
\* Faulty variant: the tag has to match exactly, as it has for an engine.
IsBareObjectHandle(h) == h.p # NullPtr /\ h.tag = EngineObjectTag

IsObjectHandle(h) ==
    ~IsBenchmarkHandle(h) /\ checkHandleBits(h, EngineObjectTag)
IsExact(h, tag) ==
    /\ h.p # NullPtr
    /\ ~IsBenchmarkHandle(h) /\ ~IsObjectHandle(h)
    /\ h.tag = tag

DestroyNull(h) == h.p = NullPtr /\ Succeed /\ UNCHANGED heap

\* Faulty variant: the wrapper is not freed.
DestroyBenchmarkOnly(h) ==
    /\ IsBenchmarkHandle(h)
    /\ benchEngine' = [benchEngine EXCEPT ![wrapperBench[h.p]] = None]
    /\ Succeed
    /\ UNCHANGED <<engines, descriptors, wrapperBench, objEngine, objData,
                   useCount>>

\* BaseEngine::destroyBenchmark(): the benchmark, then its wrapper.
DestroyBenchmark(h) ==
    /\ IsBenchmarkHandle(h)
    /\ benchEngine' = [benchEngine EXCEPT ![wrapperBench[h.p]] = None]
    /\ wrapperBench' = [wrapperBench EXCEPT ![h.p] = None]
    /\ Succeed
    /\ UNCHANGED <<engines, descriptors, objEngine, objData, useCount>>

\* Faulty variant: the object is the only owner it knows of.
DestroyShared(h) ==
    /\ IsObjectHandle(h)
    /\ useCount' = [useCount EXCEPT ![objData[h.p]] = 0]
    /\ objData' = [objData EXCEPT ![h.p] = None]
    /\ objEngine' = [objEngine EXCEPT ![h.p] = None]
    /\ Succeed
    /\ UNCHANGED <<engines, descriptors, benchEngine, wrapperBench>>

\* ~EngineObject() drops its reference; the last one frees the data.
DestroyObject(h) ==
    /\ IsObjectHandle(h)
    /\ useCount' = [useCount EXCEPT ![objData[h.p]] = @ - 1]
    /\ objData' = [objData EXCEPT ![h.p] = None]
    /\ objEngine' = [objEngine EXCEPT ![h.p] = None]
    /\ Succeed
    /\ UNCHANGED <<engines, descriptors, benchEngine, wrapperBench>>

DestroyEngine(h) ==
    /\ IsExact(h, BaseEngineTag)
    /\ engines' = engines \ {h.p}
    /\ descriptors' = [descriptors EXCEPT ![h.p] = 0]
    /\ Succeed
    /\ UNCHANGED <<benchEngine, wrapperBench, objEngine, objData, useCount>>

DestroyDescription(h) ==
    IsExact(h, BenchmarkDescriptionTag) /\ Succeed /\ UNCHANGED heap

DestroyUnknown(h) ==
    /\ h.p # NullPtr
    /\ ~IsBenchmarkHandle(h) /\ ~IsObjectHandle(h)
    /\ h.tag \notin {BaseEngineTag, BenchmarkDescriptionTag}
    /\ Throw(CRITICAL)
    /\ UNCHANGED heap

\* The client no longer uses h, whatever the call returns.
CallDestroyHandle(h) ==
    /\ held' = held \ {h}
    /\ \/ DestroyNull(h)
       \/ DestroyBenchmark(h)
       \/ DestroyObject(h)
       \/ DestroyEngine(h)
       \/ DestroyDescription(h)
       \/ DestroyUnknown(h)

\* The client destroys an engine last of what it obtained through it.
DestroyHandle(h) ==
    /\ h.p \in Engine => \A g \in held : g.from = h.p => g = h
    /\ CallDestroyHandle(h)
-----------------------------------------------------------------------------
Init ==
    /\ engines = {}
    /\ descriptors = [e \in Engine |-> 0]
    /\ benchEngine = [b \in Bench |-> None]
    /\ wrapperBench = [w \in Wrapper |-> None]
    /\ objEngine = [o \in Object |-> None]
    /\ objData = [o \in Object |-> None]
    /\ useCount = [d \in Data |-> 0]
    /\ held = {}
    /\ ret = SUCCESS
    /\ lastError = SUCCESS

\* Every call but destroyHandle().
Calls ==
    \/ RejectNullArgument
    \/ InitEngine
    \/ \E he \in Passed :
          \/ RejectEngineHandle(he)
          \/ SubscribeBenchmarksCount(he)
          \/ \E n \in DescCounts : SubscribeBenchmarks(he, n)
          \/ \E hd \in Passed :
                QueryDescription(he, hd) \/ CreateBenchmark(he, hd)
    \/ \E hb \in Passed :
          \/ RunBackend(hb)
          \/ \E m \in BackendMasks : CreateHandle(hb, m)
          \/ \E h \in Passed, m \in BackendMasks :
                \/ RetrieveFromHandle(hb, h, m)
                \/ \E new \in BackendMasks \cup {h.tag} :
                      DuplicateHandle(hb, h, new, m)

Next == Calls \/ \E h \in Passed : DestroyHandle(h)

Spec == Init /\ [][Next]_vars
-----------------------------------------------------------------------------
(* Properties.                                                             *)

\* Type invariant.
Held == [p : DescIndex \cup Engine \cup Wrapper \cup Object,
         tag : SUBSET Bit, from : Engine]

TypeOK ==
    /\ engines \subseteq Engine
    /\ descriptors \in [Engine -> 0 .. 3]
    /\ benchEngine \in [Bench -> Engine \cup {None}]
    /\ wrapperBench \in [Wrapper -> Bench \cup {None}]
    /\ objEngine \in [Object -> Engine \cup {None}]
    /\ objData \in [Object -> Data \cup {None}]
    /\ useCount \in [Data -> Nat]
    /\ held \subseteq Held
    /\ ret \in ErrorCode
    /\ lastError \in ErrorCode

\* The tag of a handle tells what its pointer points to, whatever masks the
\* backend passed on the way: destroyHandle() and the checks of the other
\* calls cast the pointer on the strength of these bits alone.  The handle of
\* an engine has to keep its very tag, which destroyHandle() compares.
TagSound ==
    \A h \in held :
       /\ h.p \in Engine <=> BaseEngineTag \subseteq h.tag
       /\ h.p \in Engine => h.tag = EngineTag
       /\ h.p \in Wrapper <=> BenchmarkHandleTag \subseteq h.tag
       /\ h.p \in Object <=> EngineObjectTag \subseteq h.tag

\* The shared_ptr inside the EngineObjects counts them: a datum is freed when
\* its last sharer is destroyed, not before and not later.
RefCountExact == \A d \in Data : useCount[d] = Cardinality(Sharers(d))

\* No handle the client may still use reaches a freed object: the engine it
\* came through exists, is the engine of what it points to, and so is
\* everything destroyHandle() or an operation follows from it.
NoDangling ==
    \A h \in held :
       /\ h.from \in engines
       /\ h.p \in Engine => h.p = h.from
       /\ h.p \in Wrapper => /\ wrapperBench[h.p] # None
                             /\ benchEngine[wrapperBench[h.p]] = h.from
       /\ h.p \in Object => /\ objEngine[h.p] = h.from
                            /\ objData[h.p] # None

\* What is on the heap is reached by exactly one handle of the client, so
\* nothing is destroyed twice and nothing but a benchmark abandoned by a
\* failed createBenchmark(), and an engine that destroyHandle() refuses for
\* the bits of its own in its tag, is left when the client destroyed them all.
OneHandleEach ==
    /\ \A g, h \in held : g.p = h.p /\ g.p \notin DescIndex => g = h
    /\ EngineExtra = {} => \A e \in engines : \E h \in held : h.p = e
    /\ \A w \in Wrapper : wrapperBench[w] # None => \E h \in held : h.p = w
    /\ \A o \in Object : objData[o] # None => \E h \in held : h.p = o
    /\ \A v, w \in Wrapper :
          wrapperBench[v] = wrapperBench[w] /\ wrapperBench[v] # None => v = w

\* What a handle is for: an engine, a benchmark handle or an object that is
\* on the heap.
Allocated(p) ==
    \/ p \in engines
    \/ p \in Wrapper /\ wrapperBench[p] # None
    \/ p \in Object /\ objData[p] # None

\* destroyHandle() releases what the handle holds (api.h): once the client has
\* passed it a handle, the object behind it is gone.  It fails for an engine
\* whose class tag has bits of its own besides BaseEngine::tag.
DestroyReleases == [][\A h \in held \ held' : ~Allocated(h.p)']_vars

\* A call that fails leaves what the client had as it was: no object, engine
\* or benchmark handle appears, disappears or changes its sharers, and the
\* client is given nothing.  Only the benchmark of a createBenchmark() that
\* ran out of memory stays behind, out of reach.
FailureLeavesHeap ==
    [][ret' # SUCCESS =>
          /\ UNCHANGED <<engines, descriptors, wrapperBench, objEngine,
                         objData, useCount>>
          /\ \A b \in Bench : benchEngine[b] # None => UNCHANGED benchEngine[b]
          /\ held' \subseteq held]_vars

\* getLastErrorDescription() is documented to tell of the last error that
\* occurred.  What catch (...) catches is returned but not recorded.
LastErrorRecorded == ret # SUCCESS => lastError = ret

\* Objects share data the way BaseEngine documents it: a datum exists exactly
\* while the client holds a handle of one of the objects that own it.
ownersOfData ==
    [d \in Data |-> {o \in Sharers(d) : \E h \in held : h.p = o}]
Contract == INSTANCE SharedData WITH
               alive <- {d \in Data : useCount[d] > 0}, owners <- ownersOfData
ImplementsSharedData == Contract!SharedSpec
=============================================================================
