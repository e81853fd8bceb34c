# Specifications of the HEBench API Bridge

The API Bridge lets a Test Harness drive benchmark backends through a C API of
opaque handles (`src/hebench/api_bridge/api.h`). A C++ wrapper implements the
API and leaves virtual functions for a backend to fill in; an example backend
and a loader for backend libraries come with it. This directory holds TLA+
models of these parts, TLC configurations that check them on small instances,
and proofs checked by TLAPS.

There are no threads in this code and nothing is stored on disk. What is hard
about it is *sequences of legal calls*: two sides that do not see each other's
types exchange pointers, ownership moves through tagged integers and
reference-counted copies, any call may fail half-way, and some of the state is
static and outlives the engines that wrote it.

## The system

| Part | Source | State it keeps | Operations |
|---|---|---|---|
| C API facade | `main.cpp` | none of its own | 20 functions: check handles and pointers, call the wrapper, turn exceptions into codes; `destroyHandle()` dispatches on tag bits |
| `BaseEngine` | `engine.cpp`, `engine.hpp` | `m_descriptors`; names of schemes and security; static last error and error descriptions | subscribe, describe, create and destroy benchmarks; `createHandle`, `duplicateHandle`, `retrieveFromHandle` |
| `EngineObject`, `ITaggedObject` | `engine_object.hpp` | the engine, a `shared_ptr` to the data | copy (shallow), destroy |
| `BenchmarkDescription` | `benchmark.cpp/.hpp` | descriptor, default parameter sets | add defaults, create and destroy a benchmark |
| `BaseBenchmark` | `benchmark.cpp/.hpp` | its engine, descriptor, parameters | virtual operations; `findDataPackIndex` |
| `Utilities::copyString` | `utilities.cpp` | – | bounded copy that returns the size needed |
| `WorkloadParams` | `workload_params.hpp` | list of typed parameters | add, set, get, validate, per-workload accessors |
| `HEBenchError` | `error_handling.*` | code, message | – |
| Example backend | `api_bridge_example_backend/` | matrices behind handles | `encode` … `decode` of a matrix product |
| `DynamicLibLoad` | `dynamic_lib_load/` | static library handle and table of 20 function pointers | load, unload, forward each call |
| Test Harness, backends | not in this repository | handles obtained | external |

How they interact: the harness calls the facade with handles by value. A handle
is a pointer and a 64-bit tag, of which the wrapper owns the 8 upper bits. The
facade casts the pointer after looking at the tag and calls `BaseEngine` or the
virtual functions of a benchmark; the backend's code calls back into
`BaseEngine` for handles. Exceptions travel up to the facade, where
`HEBenchError` keeps its code, `std::exception` becomes a critical error, and
anything else a critical error without a description.

What makes each part correct:

- *facade and engine*: the tag of a handle tells the type of what it points to,
  whatever bits backends add; everything allocated has exactly one handle;
  no handle a correct client may use reaches freed memory; data shared by
  duplicated handles live exactly as long as one of them; a failing call has no
  effect; a failing call leaves its error behind.
- *texts*: no buffer is overrun, a cut text is told, descriptions last.
- *example backend*: tags tell the shape of the data; operands are not swapped.
- *pack search*: finds a pack if there is one, always ends.
- *descriptions*: a client that asked for the sizes is not refused; no default
  set is cut on the way; what is advertised and supported is accepted.
- *workload parameters*: a class takes its own lists back; lengths of inputs and
  results do not get into each other's way.
- *harness*: reverse order is enough to be safe, and its cleanup frees all.
- *loader*: never runs a mixture of two libraries; accounts for
  every library it has open, those it loaded over and can no longer close included.

## Modules

| Module | Models | Depends on |
|---|---|---|
| `Tags` | tag masks, handle tests; a mask is the set of its bits | |
| `SharedData` | abstract: data with owners, what `duplicateHandle()` documents | |
| `Bridge` | facade + `BaseEngine` + `EngineObject` + wrapper side of benchmarks | `Tags`, `SharedData` (refinement) |
| `BridgeProofs` | proofs about `Bridge` | `Bridge` |
| `DataPacks` | `findDataPackIndex()` as a function | |
| `DataPackSearch`, `DataPackSearchProofs` | its loop, step by step, and proofs | `DataPacks` |
| `ExampleBackend`, `ExampleBackendProofs` | `ExampleBenchmark` on top of the bridge, and proofs | `Bridge`, `DataPacks`, `BridgeProofs` |
| `ParamLists` | lists of flexible parameters, what each class requires of one | |
| `Descriptions`, `DescriptionsProofs` | default sets from the backend to the client and back, and proofs | `Bridge`, `ParamLists`, `BridgeProofs` |
| `Session`, `SessionProofs` | the harness that cleans up in reverse order, with the bridge, and proofs | `Bridge`, `BridgeProofs` |
| `Answers`, `Lengths` | abstract: what `WorkloadParams::Generic` promises | |
| `WorkloadParams`, `WorkloadParamsProofs` | the classes of `workload_params.hpp`, and proofs | `ParamLists`, `Lengths` (refinement) |
| `Diagnostics`, `DiagnosticsProofs` | error descriptions, last error, names, text calls | |
| `DynamicLibLoad`, `DynamicLibLoadProofs` | the loader | |
| `MC*` | constants for TLC | |

Operators named like `DuplicateForeign`, preceded by the comment "Faulty
variant", are not part of any specification. Each is a plausible bug in the
definition after it; replacing the definition by it makes TLC report the
property that `PROJECT.json` pairs with it.

### Bridge

| Variable | Code |
|---|---|
| `engines`, `descriptors` | engines on the heap, `m_descriptors.size()` of each |
| `benchEngine[b]` | `BaseBenchmark::m_engine`; `None` when `b` is not allocated |
| `wrapperBench[w]` | `BenchmarkHandle::p_benchmark` of a wrapper |
| `objEngine[o]`, `objData[o]` | `EngineObject::m_engine`, `m_p_obj` |
| `useCount[d]` | use count of the `shared_ptr` to `d`; 0 when `d` is free |
| `held` | handles the client holds, with the engine each came through (history) |
| `ret`, `lastError` | code returned by the last call; static `m_last_error` |

Addresses are drawn from the constant sets `Engine`, `Bench`, `Wrapper`,
`Object`, `Data`; a freed address may be given out again, so that stale
pointers would be found out. Each action is one API call from entry to return.
`encode()` and the other operations appear as `CreateHandle`,
`DuplicateHandle`, `RetrieveFromHandle` (the helper the backend calls) or
`RunBackend` (no new handle, or the backend throws), each for every mask in
`BackendMasks`. In `ExampleBackend` the operations are the real ones.

An operation of a real backend may call several helpers. `ExampleBackend`
composes them (retrieve, then create) as its code does; in `Bridge` an
operation that called more than one would leak what the first made if the
second threw, which is the backend's responsibility and not modelled.

The client: passes handles it holds or null, where the code looks at the handle
first; destroys a handle once; and destroys an engine after everything it got
through it. `api.h:21-23` promises reverse order of creation, which is
stricter: `Session` shows that such a client does what `Bridge` assumes. The
guard that stands for it is in `DestroyHandle`; `CallDestroyHandle` is the
function without it. Operations on a benchmark handle only test it for null
(`main.cpp:313`), so there the client passes benchmark handles or null.
`destroyBenchmark()` and `destroyEngine()` of a backend run destructors and do
not throw.

`matchBenchmark()` reads a pointer as an index. The index range `DescIndex` is
disjoint from the addresses, and its 0 is the null pointer, as in the code: the
handle of the first description is "null" to `destroyHandle()`.

### ExampleBackend

`content[d]` is the sequence of matrices in a datum, and a matrix is a symbol: a
sample of the client, or a pair that stands for a product. `native` is the
client's output buffers. `Contents` derives the new content from the use counts
before and after the step, so that a datum changes only when it is created or
freed. The loops over the elements of a matrix are left out. Batches do not
occur: the category is latency, with one sample for each operand. A collection of packs is given with a flag for
each pack that says whether it has buffers: `decode()` checks the client's output
only where it has (`ex_benchmark.cpp:204`).

### Descriptions

| Variable | Code |
|---|---|
| `sets[e]` | `m_default_params` of each element of `m_descriptors` |
| `arrays` | the client's `p_default_params`, after the last `describeBenchmark()` |
| `request` | what these arrays were filled from and whether a benchmark was made of one (history) |

`RegisterAll` is an `initEngine()` whose backend adds a catalog of sets or fails
at one it cannot add. The client makes arrays of any sizes up to a bound,
zeroes them, and passes a prefix of any of them to `createBenchmark()`, which is
the example backend's, with the dimension as a constant.

### Session

`obtained` is the client's list of handles, oldest first, and `closing` tells
that it cleans up. `Use` is any call of `Bridge` but `destroyHandle()`;
`DestroyOne` destroys the newest handle, also before the end of a session. A
description handle that was already obtained is not listed again: it is the
same value. The library is not reset between sessions.

### WorkloadParams

| Variable | Code |
|---|---|
| `kind` | the class of the object; `VectorSize` stands for the four typedefs as well |
| `params` | `Common::m_w_params`; a value is the bits of the union |
| `answer` | the last call and what it returned or threw (history) |
| `wrapped` | whether a `Generic` object was taken from a list of which `n() + m() + 2` wraps around (history) |

Values are any words, in lists as in constructors. `MakeGeneric` has the
constructor's loops of `set()`: a list too long throws `length_error` or
`bad_alloc`, and a place (`SetPlaces`) that is not in the list `out_of_range`.

The object is replaced when one is made from counts, from values, or from the
list of the present one (`MakeFrom`, any class from any other). A Generic
object answers as a const one (`ConstInput`) or as one that may be changed
(`Input`). `Modulus` is
2^64 in the code. The header discourages changes through the base class, so the
client uses `set()` only on a `Common` object; `add()` may be used on all.
`Lengths` has two lists and no layout. The refinement mapping reads them out of
`params` at the places the class gives them. An object with `wrapped` has no lengths in the
mapping and its answers promise nothing, since its list is too short for the
lengths it speaks of. `Lengths` leaves open what the const
`length_InputParam()` answers for the first input that does not exist: the code
answers it with whatever parameter comes next.

### Diagnostics

Texts are symbols with a length. `BeginInit` … `FinishInit` is one
`initEngine()`, cut at each call the backend's `init()` makes; no client call
happens in between. A client asks for a size (`Ask`), may do anything else,
and fetches with a buffer of that size (`Fetch`), or uses a buffer of its own
(`FetchUnasked`). A backend may override `getBenchmarkDescription()`: `Described`
has all that the call may come to, a text or any kind of exception. `getSchemeName()` and `getSchemeSecurityName()` share their
control and are one kind of call.

### DynamicLibLoad

The table maps each of the 20 symbols to the library its pointer points into.
`dlopen()` counts handles per library. `wanted` is the client's view: the
library whose load threw nothing, until the next load or unload. `overwritten`
counts the loads made over a library that was not unloaded, which is lost. A failing
`dlopen()` (`LoadNothing`) changes nothing.

### DataPackSearch

`i`, `retval` and the program counter of `findDataPackIndex()`. The result is
compared with `DataPacks!findDataPackIndex`, which `ExampleBackend` uses.

## Runs

| Run | Checks | Instance |
|---|---|---|
| `bridge_two_engines` | `TypeOK`, `TagSound`, `RefCountExact`, `NoDangling`, `OneHandleEach`, `FailureLeavesHeap`, `DestroyReleases`, `ImplementsSharedData` | 2 engines, 2 benchmarks, 3 objects, 2 data, failing allocations, a mask of the client and one with engine and benchmark bits |
| `example_backend` | `ShapeSound`, `OperandsKept`, `DecodedProduct`, `ContentStable` | 1 engine, 3 objects, 3 data, 5 pack collections in and out of order, incomplete or with an empty buffer; arrays up to 2 |
| `data_pack_search` | `TypeOK`, `ResultIsMatch`, `Terminates` | all collections of up to 4 packs over positions 0..4 |
| `diagnostics` | `TypeOK`, `WholeOrTold`, `NamesFetchedWhole`, `DescriptionsPersist` | 2 engines, texts of length 0, 1 and 3, buffers 0 and 2 and of the size asked for |
| `loader_reload` | `TypeOK`, `TableWhole`, `HandlesAccounted`, `OnlyCompleteRun` | 2 whole and 4 incomplete libraries, up to `MaxOpen` = 2 handles each |
| `workload_params` | `TypeOK`, `RoundTrip`, `ImplementsLengths` | lists of up to 5, words of 5 bits, values 1 and the largest word as `UInt64` and the largest as `Int64`, counts up to 2 and the largest word, places up to 2, behind the list and one that wraps |
| `descriptions` | `DescTypeOK`, `AskedSuffices`, `WholeSets`, `AdvertisedAccepted` | 9 catalogs, up to 2 arrays of capacity 0 to 4, dimension 2 |
| `session` | `SessionTypeOK`, `ClientIsSafe`, `CleanUpEnds` | 2 engines, 2 benchmarks, 2 objects over 1 datum, 1 description |

Four runs expect a violation: the code differs from what it says there.

| Run | Property | What it shows |
|---|---|---|
| `bridge_last_error` | `LastErrorRecorded` | `catch (...)` records no last error |
| `diagnostics_error_size` | `ErrorIsZero` | a missing name returns an error code as the size |
| `diagnostics_second_engine` | `FirstCodeAccepted` | an engine made while another lives cannot add the backend's error codes; the same static map refuses them after a failed `init()` or after the first engine is destroyed |
| `workload_params_const_length` | `LessThanN` | the const `length_InputParam()` answers for the index `n()` |

Further differences were met in modelling and have no run of their own:

- `destroyHandle()` compares the tag of an engine exactly (`main.cpp:49-52`), and
  `engine_object.hpp:24-26` recommends that derived classes add bits to it: an
  engine that does is never destroyed. `DestroyReleases` is checked with
  `EngineExtra` empty, and fails otherwise.
- `decode()` of the example backend takes only what `decrypt()` returned
  (`ex_benchmark.cpp:189-191`), while `api.h:219-220` documents it as the inverse
  of `encode()`; the comment at `ex_benchmark.cpp:179-186` says it is on purpose.
- `addDefaultParameters()` takes an empty first set (`benchmark.cpp:40-45`); then
  there is one default set and no parameter, where `api.h:82-83` says "0 if and
  only if". `descriptions` has such catalogs among its own.
- `SimpleSetIntersection` requires three parameters (`workload_params.hpp:617`);
  its comments say two (`:584`, `:587`).
- `n() + m() + 2` may wrap around (`workload_params.hpp:518`), and a list too
  short for its counts is then taken, against `:482-486`. The model takes such
  lists, `wrapped` remembers it, and `RoundTrip` and `ImplementsLengths` except
  these objects and no others. What goes wrong with them: with n = 1 and
  m = 2^64 - 1 over a list of two, `length_ResultComponent()` reaches the counts
  themselves, and writing through it makes an object that its own class refuses.

**Why the bounds suffice.** Three objects over two data are the least with two
sharers of one datum beside an owner of another, and let one of three sharers go
while two remain. Two engines are the least for a foreign handle. A handle's
treatment depends on which of the bits 60 to 63 and which client bits it has:
the masks are one that is allowed and one that is not, and the theorems cover
the others. Three objects carry the longest data flow since
the client may destroy a handle as soon as the next one exists. Four packs
leave room for a match that is first, last, repeated, missing or at its own
index. A buffer is too small, exact or larger for some text. Libraries lack the
first, a middle or the last symbol. A list of five parameters is the shortest of
a `Generic` object with unequal, non-zero numbers of inputs and results; words
of five bits are wide enough for each length, and the largest makes sums and
places wrap. The classes tell `UInt64` from the other types and not those from
each other: `Int64` stands for both. Two arrays of
up to four parameters hold two sets of three with room for one more, and every
smaller capacity occurs first and second. Two engines and two benchmarks let a
session hold handles of both in any order; a second datum quadruples its states,
and `bridge_two_engines` has one. The theorems below are free of these bounds.
Symmetry is used for sets of addresses in invariants and in the action
properties, never for liveness.

`CHECK_DEADLOCK FALSE` appears in `data_pack_search` alone: the function
returns. Elsewhere some call is always possible.

**Fairness.** `DataPackSearch` assumes `WF_vars(Next)`, since a function that
was called runs until it returns. `Session` assumes weak fairness of `CleanUp`,
a destruction while the session is closing: `api.h:21-23` says that the harness
will clean up its handles. Nothing obliges it to close a
session, nor to make any call before. The other modules describe what an
outside client may call, and no liveness is claimed.

**What `CleanUpEnds` needs.** A backend whose engine tag has no bits of its own
(see above), and allocations that do not fail: a `createBenchmark()` that runs
out of memory abandons a benchmark, which `FailureLeavesHeap` admits.

## Proofs

The proof modules are checked by TLAPS from the assumptions on constants of
their modules (pools disjoint, masks are sets of bits, class tags add client
bits only, texts have lengths, and the like). They hold for any number of
engines, benchmarks, objects, data, texts, libraries, parameters and packs.
`PROJECT.json` lists the theorems with what each establishes. Every invariant,
action property and refinement of the passing runs is the conclusion of one.

**Bridge.** `IInv` is the conjunction `TypeOK /\ TagSound /\ RefCountExact /\
NoDangling /\ OneHandleEach`. None is inductive alone: which branch
`destroyHandle()` takes follows from the tags (`TagSound`); that the branch
decrements a positive count from the handle's object being allocated
(`NoDangling`) and the count being the number of sharers (`RefCountExact`);
that no second handle is left behind from there being one (`OneHandleEach`).
`BridgeProofs` has a lemma per action, a few about endings common to the
calls, and lemmas on the cardinality of the sharers of a datum. From
`Invariance` follow `TypeCorrect`, `TagsAreSound`, `RefCountsAreExact`,
`NothingDangles` and `NothingLeaks`.

The action properties follow from `IInv` and the step. `FailuresLeaveHeap` goes
through the endings of every call. `DestructionReleases` needs that the
dispatch on the tag reaches the branch of the handle's own kind, and assumes
`EngineExtra = {}`, without which it is false (see above).
`SharingAsPromised` maps the owners of `SharedData` to the client's handles of
objects. A handle stands for its object by `OneHandleEach`, so that an owner
coming or going is one step of the abstract specification, and "has an owner
left" there is "use count is positive" here by `RefCountExact`.

**Session.** The strengthening is `EnginesFirst`: the handle of an engine
precedes in the client's list all that was obtained through the engine. Then the
last handle of the list satisfies the guard of `DestroyHandle`, and
`ReverseOrderIsSafe` follows: a session is a behaviour of `Bridge`, for which
all the theorems above hold. `NothingStaysBehind` says that a client that holds
nothing left nothing on the heap. It assumes what `CleanUpEnds` needs, and adds
to `IInv` that no benchmark was abandoned. `CleanUpAdvances` is the safety half
of `CleanUpEnds`: each step of a cleanup shortens the list and the cleanup is
not over before the list is empty.

**Descriptions.** `DescInv` adds to `IInv` that the sets of a description are of
one size, and that while the engine of the last request lives, the client's
arrays are what `Write` makes of the sets the description has *now*. The latter
needs that nothing is registered under a client's feet: `initEngine()` makes the
sets of an engine no request went to yet, and only `destroyHandle()` takes sets
away, with their engine.
`AskedCapacitySuffices` uses the one size, `SetsAreWhole` and
`AdvertisedIsAccepted` the equality.

**ExampleBackend.** `ExInv` adds `Meaning` to `IInv`: each bit of a tag that the
backend sets says how many matrices are behind the handle and whether they are
operands or a product. It has to hold of every sharer of a datum; a call of the
bridge keeps it since the data behind a kept handle stay in use (`NoDangling`,
`RefCountExact`), so that `Contents` leaves them alone, which is `ContentStable`
as well. `TagsTellShapes`, `OperandOrder`, `ProductsOnly` and
`SharedContentStays` follow.

**WorkloadParams.** `PInv` is `TypeOK /\ RoundTrip`. `RoundTrip` says two
things of an object that is not `wrapped`, and neither is inductive alone: that
validation passes, and that `n() + m() + 2` is the number meant. The proofs use
it in the form `PInvPlain`, which says what validation asks without the
arithmetic of words. `NewGenericFits` is the lemma on the constructor from
counts: one that makes an object did not wrap, for its loops of `set()` would
have left the list. A `wrapped` object stays so until it is replaced, whatever
is written to it. `TypeCorrect` and `ObjectsPassOn` follow, for any words.
`GenericIsTwoLists` needs a lemma for each way to write: an index of an input
never is the place of a result's length or of a count. The answers of a call are
compared one by one with those of `Lengths`. Both theorems except objects taken
from lists whose counts wrap, as the properties do, and nothing else.

**Diagnostics.** The strengthening is `AskedSound`: an answer to a question
about a name is the size of a name the engine has now. It holds because names
are written only while the engine is being made, when the client has no handle
of it. `FetchesAreHonest`, `NamesAreWhole` and `DescriptionsStay` follow.

**DynamicLibLoad.** The invariant joins the table, the count of handles and the
client's view; `TableIsWhole`, `RunsCompleteOnly`, `NoLibraryLeaks`, and
`LoaderTypes`, that no library is closed more often than it was opened.

**DataPackSearch.** The loop invariant: no pack before `i` matches, or `retval`
is the first that does and `i` is past it. `SearchIsCorrect`. `StepsAreBounded`
is the safety half of `Terminates`: a natural number of steps is left, and each
step lowers it.

**Model-checked only.** The liveness properties `Terminates` and `CleanUpEnds`,
as liveness under fairness is out of the prover's reach. `StepsAreBounded`,
`CleanUpAdvances` and `NothingStaysBehind` are about the same executions, but
none says that a step can be taken or will be. The four runs that expect a
violation are counterexamples and need no proof.

## Not modelled

- The text of error messages (`HEBenchError::generateMessage`), names of
  workload parameters, logging and file and line prefixes: no property is about
  them.
- The fields of `BenchmarkDescriptor`: they are copied and never looked at.
- The elements of matrices: the loops of `encode()`, `operate()` and `decode()`
  over rows and columns of one matrix depend on nothing else. A sample shorter than the workload prescribes: `encode()` reads past its end
  without looking (`ex_benchmark.cpp:161`); `api.h` leaves the sizes to the harness.
- A description handle used with another engine than the one it came from: it
  is an index that matches whatever is registered there (`engine.cpp:100`), and
  the API does not say what it should do.
- The order of the allocations inside `createHandle()`: a failing call releases
  what it made by the shared pointer's destructor, and is one step.
- Other C++ types behind an `EngineObject`, which `retrieveFromHandle<T>` could
  be asked for: one backend uses one type.
- Calls after `unloadLibrary()` or after a load that threw, for which the client
  has no library. The table is then null, mixed or points into a closed library.
- Build files and version headers.
- `EngineObject::operator=`: it has no caller.

## Plan

Done, in this order: `Tags`, `SharedData`, `Bridge`; `BridgeProofs`;
`DataPacks`, `DataPackSearch`; `ExampleBackend`; `Diagnostics`;
`DynamicLibLoad`; their proofs; `ParamLists`, `Lengths`, `WorkloadParams`;
`Descriptions`; `Session`; the refinement and the action properties of
`Bridge`; the proofs of `Session`, `WorkloadParams`, `Descriptions` and
`ExampleBackend`.

Next:

1. What the differences above leave true: the last error is that of the last
   failing call unless it was an unknown exception; a second engine can add
   every code that is not the first's; `length_InputParam()` tells lengths below
   `n()`. As theorems they would say how far the documents hold.
2. `Bridge` leaves operations that call several helpers to `ExampleBackend`: a
   lemma on which of them may follow one another without a leak.
