------------------------- MODULE ExampleBackendProofs -------------------------
(***************************************************************************)
(* The example backend on any number of engines, benchmarks and objects,   *)
(* and any samples and collections of packs.                               *)
(*                                                                         *)
(* The backend trusts the bits of a tag to tell what it will find behind   *)
(* the handle.  The invariant says that they do, and for a shared datum    *)
(* this has to hold of each of its handles: the bridge's invariant is what *)
(* keeps a datum in place while one of them is left.                       *)
(***************************************************************************)
EXTENDS ExampleBackend, BridgeProofs, SequenceTheorems

Products == {Product(ab[1], ab[2]) : ab \in OperandPairs}
Results == {<<product>> : product \in Products}

OperandBits == tagEncodeOutput \cup tagEncryptOutput \cup tagLoadOutput
ResultBits == tagOperateOutput \cup tagStoreOutput \cup tagDecryptOutput

\* What the bits of a tag say of the matrices behind its handle.
Fits(tag, matrices) ==
    /\ tag \cap OperandBits # {} => matrices \in OperandPairs
    /\ tag \cap ResultBits # {} => matrices \in Results

Meaning == \A h \in held : h.p \in Object => Fits(h.tag, ContentOf(h))

NativeOK == \E p \in {NoSample} \cup Products : native = <<p, NoSample>>

ExInv == IInv /\ Meaning /\ NativeOK

-----------------------------------------------------------------------------
(* The bridge below.                                                       *)

TagBits == {{4}, {6}, {7}, {8}, {9}, {10}}

LEMMA OperationTags ==
    /\ {tagEncodeOutput, tagEncryptOutput, tagDecryptOutput, tagLoadOutput,
        tagStoreOutput, tagOperateOutput} \subseteq TagBits
    /\ TagBits \subseteq SUBSET Bit
  BY DEF TagBits, Bit, tagEncodeOutput, tagEncryptOutput, tagDecryptOutput,
         tagLoadOutput, tagStoreOutput, tagOperateOutput

\* All that an operation does to the heap and the client's handles: nothing,
\* or it creates a handle, or it duplicates one.
Idle == UNCHANGED <<heap, held>> /\ CodesOK'
Creates(hb, tag, made) ==
    CreateHandle(hb, tag) /\ Contents(made) /\ UNCHANGED native
Duplicates(hb, h, tag, mask) ==
    DuplicateHandle(hb, h, tag, mask) /\ Plain

LEMMA IdleRejection ==
    ASSUME IInv, NEW code \in ErrorCode, Reject(code)
    PROVE  Idle
  BY Endings DEF Reject, Idle, IInv

LEMMA OperandErrors ==
    ASSUME NEW packs, NEW pos
    PROVE  OperandError(packs, pos) \in ErrorCode
  BY DEF OperandError, ErrorCode

LEMMA EncodeStep ==
    ASSUME IInv, NEW hb \in held, NEW packs \in Packs, Encode(hb, packs)
    PROVE  \/ Idle /\ Plain
           \/ /\ Len(packs) = 2
              /\ \A i \in {0, 1} : OperandError(packs, i) = SUCCESS
              /\ Creates(hb, tagEncodeOutput,
                         [i \in 1 .. 2 |->
                            packs[PackFor(packs, i - 1) + 1].sample])
<1> DEFINE bad == {i \in 0 .. 1 : OperandError(packs, i) # SUCCESS}
           operands == [i \in 1 .. 2 |->
                          packs[PackFor(packs, i - 1) + 1].sample]
<1>1. \/ Reject(INVALID_ARGS) /\ Plain
      \/ Reject(OperandError(packs, MinIndex(bad))) /\ Plain
      \/ /\ Len(packs) = 2 /\ bad = {}
         /\ CreateHandle(hb, tagEncodeOutput)
         /\ Contents(operands) /\ UNCHANGED native
  <2>1. NumOperands = 2 /\ NumOperands - 1 = 1
    BY DEF NumOperands
  <2> QED
    BY <2>1 DEF Encode
<1>2. INVALID_ARGS \in ErrorCode
  BY DEF ErrorCode
<1>3. bad = {} => \A i \in {0, 1} : OperandError(packs, i) = SUCCESS
  OBVIOUS
<1> HIDE DEF bad
<1>4. CASE \/ Reject(INVALID_ARGS) /\ Plain
           \/ Reject(OperandError(packs, MinIndex(bad))) /\ Plain
  BY <1>2, <1>4, OperandErrors, IdleRejection
<1> HIDE DEF operands
<1>5. CASE /\ Len(packs) = 2 /\ bad = {}
           /\ CreateHandle(hb, tagEncodeOutput)
           /\ Contents(operands) /\ UNCHANGED native
  BY <1>3, <1>5 DEF Creates, operands
<1> QED
  BY <1>1, <1>4, <1>5

LEMMA TransformStep ==
    ASSUME IInv, NEW hb \in held, NEW h \in Passed, NEW mask, NEW tag,
           NEW made, Transform(hb, h, mask, tag, made)
    PROVE  \/ Idle /\ Plain
           \/ checkHandleTags(h, mask) /\ Creates(hb, tag, made)
<1>1. CRITICAL \in ErrorCode
  BY DEF ErrorCode
<1> QED
  BY <1>1, IdleRejection DEF Transform, Creates, Retrievable

LEMMA OperateStep ==
    ASSUME IInv, NEW hb \in held, NEW h \in Passed, NEW ix, Operate(hb, h, ix)
    PROVE  \/ Idle /\ Plain
           \/ /\ checkHandleTags(h, tagLoadOutput)
              /\ Creates(hb, tagOperateOutput,
                         <<Product(ContentOf(h)[1], ContentOf(h)[2])>>)
<1> DEFINE made == <<Product(ContentOf(h)[1], ContentOf(h)[2])>>
<1>1. \/ Reject(INVALID_ARGS) /\ Plain
      \/ Transform(hb, h, tagLoadOutput, tagOperateOutput, made)
  BY DEF Operate
<1>2. INVALID_ARGS \in ErrorCode
  BY DEF ErrorCode
<1> HIDE DEF made
<1>3. \/ Idle /\ Plain
      \/ /\ checkHandleTags(h, tagLoadOutput)
         /\ Creates(hb, tagOperateOutput, made)
  BY <1>1, <1>2, IdleRejection, TransformStep
<1> QED
  BY <1>3 DEF made

LEMMA LoadStep ==
    ASSUME IInv, NEW hb \in held, NEW h \in Passed, NEW count,
           Load(hb, h, count)
    PROVE  (Idle /\ Plain) \/ Duplicates(hb, h, tagLoadOutput, LoadTag(h))
<1>1. {CRITICAL, INVALID_ARGS} \subseteq ErrorCode
  BY DEF ErrorCode
<1> QED
  BY <1>1, IdleRejection DEF Load, Duplicates

LEMMA StoreStep ==
    ASSUME IInv, NEW hb \in held, NEW h \in Passed, NEW count,
           Store(hb, h, count)
    PROVE  (Idle /\ Plain) \/ Duplicates(hb, h, tagStoreOutput, tagOperateOutput)
<1>1. CRITICAL \in ErrorCode
  BY DEF ErrorCode
<1>2. Succeed /\ UNCHANGED <<heap, held>> => Idle
  BY Endings DEF IInv, Idle
<1> QED
  BY <1>1, <1>2, IdleRejection DEF Store, Duplicates

LEMMA DecodeStep ==
    ASSUME IInv, NEW hb \in held, NEW h \in Passed, NEW hasBuffers,
           Decode(hb, h, hasBuffers)
    PROVE  /\ Idle
           /\ \/ Plain
              \/ /\ checkHandleTags(h, tagDecryptOutput)
                 /\ native' = [i \in 1 .. Len(native) |->
                                 IF /\ i <= Len(hasBuffers) /\ hasBuffers[i]
                                    /\ i <= Len(ContentOf(h))
                                 THEN ContentOf(h)[i] ELSE native[i]]
                 /\ Contents(Freed)
<1>1. CRITICAL \in ErrorCode
  BY DEF ErrorCode
<1>2. Succeed /\ UNCHANGED <<heap, held>> => Idle
  BY Endings DEF IInv, Idle
<1> QED
  BY <1>1, <1>2, IdleRejection DEF Decode, Retrievable

LEMMA CreatesPreserves ==
    ASSUME IInv, NEW hb \in held, NEW tag \in TagBits, NEW made,
           Creates(hb, tag, made)
    PROVE  IInv'
<1>1. hb \in Passed /\ tag \in SUBSET Bit
  BY OperationTags DEF Passed
<1> QED
  BY <1>1, CreateHandlePreserves DEF Creates

LEMMA DuplicatesPreserves ==
    ASSUME IInv, NEW hb \in held, NEW h \in Passed, NEW tag \in TagBits,
           NEW mask, Duplicates(hb, h, tag, mask)
    PROVE  IInv'
<1>1. hb \in Passed /\ tag \in (SUBSET Bit) \cup {h.tag}
  BY OperationTags DEF Passed
<1> QED
  BY <1>1, DuplicateHandlePreserves DEF Duplicates

-----------------------------------------------------------------------------
(* What stays behind a handle.                                             *)

\* Behind every object handle there is a datum in use.
InUse ==
    \A h \in held : h.p \in Object =>
       objData[h.p] \in Data /\ useCount[objData[h.p]] # 0

LEMMA HeldDataInUse == IInv => InUse
<1> SUFFICES ASSUME IInv, NEW h \in held, h.p \in Object
             PROVE  objData[h.p] \in Data /\ useCount[objData[h.p]] # 0
  BY DEF InUse
<1> DEFINE d == objData[h.p]
<1>1. d \in Data
  BY DEF IInv, TypeOK, NoDangling
<1>2. IsFiniteSet(Sharers(d)) /\ h.p \in Sharers(d)
  BY PoolAssumption, FS_Subset DEF Sharers
<1>3. Cardinality(Sharers(d)) # 0
  BY <1>2, FS_EmptySet
<1> QED
  BY <1>1, <1>3 DEF IInv, RefCountExact

LEMMA HeldDataStayInUse == IInv' => InUse'
  BY HeldDataInUse, PTL

\* A step leaves the objects alone that the client keeps a handle of.
ObjectsStay ==
    \A h \in held \cap held' : h.p \in Object => objData'[h.p] = objData[h.p]

LEMMA CreatesKeepsObjects ==
    ASSUME IInv, NEW hb, NEW tag, CreateHandle(hb, tag)
    PROVE  ObjectsStay
<1>1. CASE UNCHANGED objData
  BY <1>1 DEF ObjectsStay
<1>2. ASSUME NEW o \in Object, NEW d \in Data, objData[o] = None,
             objData' = [objData EXCEPT ![o] = d]
      PROVE  ObjectsStay
  BY <1>2 DEF ObjectsStay, IInv, TypeOK, NoDangling
<1> QED
  BY <1>1, <1>2 DEF CreateHandle, Reject, heap

LEMMA DuplicatesKeepsObjects ==
    ASSUME IInv, NEW hb, NEW h, NEW tag, NEW mask,
           DuplicateHandle(hb, h, tag, mask)
    PROVE  ObjectsStay
<1>1. CASE UNCHANGED objData
  BY <1>1 DEF ObjectsStay
<1>2. ASSUME NEW o \in Object, objData[o] = None,
             objData' = [objData EXCEPT ![o] = objData[h.p]]
      PROVE  ObjectsStay
  BY <1>2 DEF ObjectsStay, IInv, TypeOK, NoDangling
<1> QED
  BY <1>1, <1>2 DEF DuplicateHandle, duplicateHandleInternal, Reject, heap

LEMMA BridgeCallKeepsObjects ==
    ASSUME IInv, BridgeCall
    PROVE  ObjectsStay /\ IInv'
<1>1. CASE RejectNullArgument
  <2>1. UNCHANGED objData
    BY <1>1 DEF RejectNullArgument, Reject, heap
  <2> QED
    BY <1>1, <2>1, Endings, Rejected DEF RejectNullArgument, ObjectsStay, IInv
<1>2. CASE InitEngine
  <2>1. UNCHANGED objData
    BY <1>2 DEF InitEngine, heap
  <2> QED
    BY <1>2, <2>1, InitEnginePreserves DEF ObjectsStay
<1>3. ASSUME NEW he \in held, NEW n \in DescCounts, SubscribeBenchmarks(he, n)
      PROVE  ObjectsStay /\ IInv'
  <2>1. UNCHANGED objData /\ he \in Passed
    BY <1>3 DEF SubscribeBenchmarks, Reject, heap, Passed
  <2> QED
    BY <1>3, <2>1, SubscribeBenchmarksPreserves DEF ObjectsStay
<1>4. ASSUME NEW he \in held, NEW hd \in held, CreateBenchmark(he, hd)
      PROVE  ObjectsStay /\ IInv'
  <2>1. UNCHANGED objData /\ he \in Passed /\ hd \in Passed
    BY <1>4 DEF CreateBenchmark, Reject, heap, Passed
  <2> QED
    BY <1>4, <2>1, CreateBenchmarkPreserves DEF ObjectsStay
<1>5. ASSUME NEW h \in held, DestroyHandle(h)
      PROVE  ObjectsStay /\ IInv'
  <2>1. h \in Passed /\ held' = held \ {h}
    BY <1>5 DEF DestroyHandle, CallDestroyHandle, Passed
  <2>2. objData' = objData => ObjectsStay
    BY DEF ObjectsStay
  <2>3. ASSUME DestroyObject(h)
        PROVE  ObjectsStay
    <3>1. h.p \in Object /\ h.p \notin DescIndex
      BY <2>1, <2>3, DispatchedHandle, PoolAssumption DEF DestroyObject
    <3>2. \A g \in held' : g.p # h.p
      BY <2>1, <3>1 DEF IInv, OneHandleEach
    <3>3. objData' = [objData EXCEPT ![h.p] = None]
      BY <2>3 DEF DestroyObject
    <3> QED
      BY <3>2, <3>3 DEF ObjectsStay, IInv, TypeOK
  <2>4. ObjectsStay
    BY <1>5, <2>2, <2>3
       DEF DestroyHandle, CallDestroyHandle, DestroyNull, DestroyBenchmark,
           DestroyEngine, DestroyDescription, DestroyUnknown, heap
  <2> QED
    BY <1>5, <2>1, <2>4, DestroyHandlePreserves
<1> QED
  BY <1>1, <1>2, <1>3, <1>4, <1>5 DEF BridgeCall

\* So it leaves what is behind their handles as it is: a datum is written only
\* when it gets its first object.
ContentStays ==
    \A h \in held \cap held' :
       h.p \in Object => content'[objData'[h.p]] = ContentOf(h)

LEMMA ContentKept ==
    ASSUME IInv, IInv', ObjectsStay, NEW made, Contents(made)
    PROVE  ContentStays
<1> SUFFICES ASSUME NEW h \in held, h \in held', h.p \in Object
             PROVE  content'[objData'[h.p]] = ContentOf(h)
  BY DEF ContentStays
<1>1. objData[h.p] \in Data /\ useCount[objData[h.p]] # 0
  BY HeldDataInUse DEF InUse
<1>2. objData'[h.p] = objData[h.p]
  BY DEF ObjectsStay
<1>3. useCount'[objData[h.p]] # 0
  BY <1>2, HeldDataStayInUse DEF InUse
<1> QED
  BY <1>1, <1>2, <1>3 DEF Contents, ContentOf

-----------------------------------------------------------------------------
(* What the operations make.                                               *)

\* What a handle means goes on, and a new one has to mean what it says.
LEMMA MeaningKept ==
    ASSUME Meaning, ContentStays,
           \A h \in held' \ held :
              h.p \in Object => Fits(h.tag, content'[objData'[h.p]])
    PROVE  Meaning'
  BY DEF Meaning, ContentStays, ContentOf

\* The pack that is found for a position, in the collections that encode()
\* takes, is one for this position.
LEMMA FoundPack ==
    ASSUME NEW packs, Len(packs) = 2, NEW pos \in {0, 1}
    PROVE  \/ PackFor(packs, pos) = 2
           \/ /\ PackFor(packs, pos) \in {0, 1}
              /\ PackAt(packs, PackFor(packs, pos)) = pos
<1> DEFINE matches == Matches(packs, pos)
<1>1. matches = {i \in {0, 1} : PackAt(packs, i) = pos}
  BY DEF Matches
<1>2. matches # {} => MinIndex(matches) \in matches
  <2> SUFFICES ASSUME matches # {}
               PROVE  \E i \in matches : \A j \in matches : i <= j
    BY DEF MinIndex
  <2>1. CASE 0 \in matches
    BY <1>1, <2>1
  <2>2. CASE 0 \notin matches
    BY <1>1, <2>2
  <2> QED
    BY <2>1, <2>2
<1> QED
  BY <1>1, <1>2 DEF PackFor, findDataPackIndex

LEMMA EncodedOperands ==
    ASSUME NEW packs \in Packs, Len(packs) = 2,
           \A i \in {0, 1} : OperandError(packs, i) = SUCCESS
    PROVE  [i \in 1 .. 2 |-> packs[PackFor(packs, i - 1) + 1].sample]
              \in OperandPairs
<1> DEFINE place(i) == PackFor(packs, i) + 1
           a == packs[place(0)].sample
           b == packs[place(1)].sample
<1>1. ASSUME NEW i \in {0, 1}
      PROVE  /\ place(i) \in 1 .. Len(packs)
             /\ packs[place(i)].param_position = i
             /\ packs[place(i)].sample \in Sample
  <2>1. CRITICAL # SUCCESS /\ INVALID_ARGS # SUCCESS
    BY DEF CRITICAL, INVALID_ARGS, SUCCESS
  <2>2. ~(PackFor(packs, i) >= Len(packs))
        /\ packs[place(i)].sample # NoSample
    BY <2>1 DEF OperandError
  <2>3. /\ PackFor(packs, i) \in {0, 1}
        /\ PackAt(packs, PackFor(packs, i)) = i
    BY <2>2, FoundPack
  <2>4. place(i) \in 1 .. 2 /\ packs[place(i)].param_position = i
    BY <2>3 DEF PackAt
  <2>5. packs[place(i)] \in [param_position : Nat,
                             sample : Sample \cup {NoSample}]
    BY <2>4, PackAssumption, ElementOfSeq
  <2> QED
    BY <2>2, <2>4, <2>5
<1>2. a \in Sample /\ b \in Sample
  BY <1>1
<1>3. /\ place(0) \in 1 .. Len(packs) /\ place(1) \in 1 .. Len(packs)
      /\ packs[place(0)].param_position = 0
      /\ packs[place(1)].param_position = 1
  BY <1>1
<1>4. [i \in 1 .. 2 |-> packs[PackFor(packs, i - 1) + 1].sample] = <<a, b>>
  BY <1>2
<1> HIDE DEF place
<1>5. <<a, b>> \in OperandPairs
  BY <1>2, <1>3 DEF OperandPairs
<1> QED
  BY <1>4, <1>5

-----------------------------------------------------------------------------
(* The steps.                                                              *)

OperandTags == {tagEncodeOutput, tagEncryptOutput, tagLoadOutput}
ResultTags == {tagOperateOutput, tagStoreOutput, tagDecryptOutput}

\* A tag says one thing, and is believed.
LEMMA NewTagsFit ==
    ASSUME NEW matrices
    PROVE  /\ matrices \in OperandPairs =>
                 \A tag \in OperandTags :
                    Fits(EngineObjectTag \cup tag, matrices)
           /\ matrices \in Results =>
                 \A tag \in ResultTags :
                    Fits(EngineObjectTag \cup tag, matrices)
  BY DEF Fits, OperandTags, ResultTags, OperandBits, ResultBits,
         EngineObjectTag, tagEncodeOutput, tagEncryptOutput, tagDecryptOutput,
         tagLoadOutput, tagStoreOutput, tagOperateOutput

LEMMA TagsMean ==
    ASSUME IInv, Meaning, NEW h \in Passed, NEW mask, checkHandleTags(h, mask)
    PROVE  /\ mask \in OperandTags => ContentOf(h) \in OperandPairs
           /\ mask \in ResultTags => ContentOf(h) \in Results
<1>1. Fits(h.tag, ContentOf(h)) /\ mask \subseteq h.tag
  BY CheckedHandle DEF Meaning, checkHandleTags
<1>2. mask \in OperandTags => h.tag \cap OperandBits # {}
  BY <1>1 DEF OperandTags, OperandBits, tagEncodeOutput, tagEncryptOutput,
              tagLoadOutput
<1>3. mask \in ResultTags => h.tag \cap ResultBits # {}
  BY <1>1 DEF ResultTags, ResultBits, tagDecryptOutput, tagStoreOutput,
              tagOperateOutput
<1> QED
  BY <1>1, <1>2, <1>3 DEF Fits

\* What is to be shown of each step.
GoodStep == ExInv' /\ ContentStays

LEMMA QuietStep ==
    ASSUME ExInv, Idle, NEW made, Contents(made), NativeOK'
    PROVE  GoodStep
<1>1. IInv'
  BY NothingChanged DEF Idle, ExInv
<1>2. ObjectsStay
  BY DEF Idle, heap, ObjectsStay
<1>3. ContentStays
  BY <1>1, <1>2, ContentKept DEF ExInv
<1>4. Meaning'
  BY <1>3, MeaningKept DEF ExInv, Idle
<1> QED
  BY <1>1, <1>3, <1>4 DEF GoodStep, ExInv

LEMMA PlainStep ==
    ASSUME ExInv, Idle, Plain
    PROVE  GoodStep
<1>1. NativeOK'
  BY DEF Plain, ExInv, NativeOK
<1> QED
  BY <1>1, QuietStep DEF Plain

LEMMA BridgeCallStep ==
    ASSUME ExInv, BridgeCall, Plain
    PROVE  GoodStep
<1>1. ObjectsStay /\ IInv'
  BY BridgeCallKeepsObjects DEF ExInv
<1>2. ContentStays
  BY <1>1, ContentKept DEF ExInv, Plain
<1>3. \A h \in held' \ held : h.p \notin Object
  BY PoolAssumption
     DEF BridgeCall, RejectNullArgument, InitEngine, SubscribeBenchmarks,
         CreateBenchmark, DestroyHandle, CallDestroyHandle, Reject, HeldHandle
<1>4. Meaning'
  BY <1>2, <1>3, MeaningKept DEF ExInv
<1>5. NativeOK'
  BY DEF Plain, ExInv, NativeOK
<1> QED
  BY <1>1, <1>2, <1>4, <1>5 DEF GoodStep, ExInv

LEMMA CreatesStep ==
    ASSUME ExInv, NEW hb \in held, NEW tag \in TagBits, NEW made,
           Creates(hb, tag, made), Fits(EngineObjectTag \cup tag, made)
    PROVE  GoodStep
<1>1. IInv'
  BY CreatesPreserves DEF ExInv
<1>2. ContentStays
  BY <1>1, CreatesKeepsObjects, ContentKept DEF Creates, ExInv
<1>3. ASSUME NEW h \in held' \ held, h.p \in Object
      PROVE  Fits(h.tag, content'[objData'[h.p]])
  <2>1. PICK o \in Object, d \in Data :
           /\ objData' = [objData EXCEPT ![o] = d]
           /\ useCount[d] = 0 /\ useCount' = [useCount EXCEPT ![d] = 1]
           /\ h = HeldHandle(o, EngineObjectTag \cup tag, hb.from)
    BY <1>3 DEF Creates, CreateHandle, Reject
  <2>2. h.p = o /\ h.tag = EngineObjectTag \cup tag
    BY <2>1 DEF HeldHandle
  <2>3. objData'[o] = d /\ useCount'[d] = 1
    BY <2>1 DEF ExInv, IInv, TypeOK
  <2>4. content'[d] = made
    BY <2>1, <2>3 DEF Creates, Contents
  <2> QED
    BY <2>2, <2>3, <2>4
<1>4. Meaning'
  BY <1>2, <1>3, MeaningKept DEF ExInv
<1>5. NativeOK'
  BY DEF Creates, ExInv, NativeOK
<1> QED
  BY <1>1, <1>2, <1>4, <1>5 DEF GoodStep, ExInv

LEMMA DuplicatesStep ==
    ASSUME ExInv, NEW hb \in held, NEW h \in Passed, NEW tag \in TagBits,
           NEW mask, Duplicates(hb, h, tag, mask),
           checkHandleTags(h, mask) =>
              Fits(EngineObjectTag \cup tag, ContentOf(h))
    PROVE  GoodStep
<1>1. IInv'
  BY DuplicatesPreserves DEF ExInv
<1>2. ContentStays
  BY <1>1, DuplicatesKeepsObjects, ContentKept DEF Duplicates, Plain, ExInv
<1>3. ASSUME NEW g \in held' \ held, g.p \in Object
      PROVE  Fits(g.tag, content'[objData'[g.p]])
  <2>1. PICK o \in Object :
           /\ checkHandleTags(h, mask) /\ held \subseteq held'
           /\ objData' = [objData EXCEPT ![o] = objData[h.p]]
           /\ g = HeldHandle(o, EngineObjectTag \cup tag, hb.from)
    BY <1>3 DEF Duplicates, DuplicateHandle, duplicateHandleInternal, Reject
  <2>2. g.p = o /\ g.tag = EngineObjectTag \cup tag
    BY <2>1 DEF HeldHandle
  <2>3. h \in held /\ h \in held' /\ h.p \in Object
    BY <2>1, CheckedHandle DEF ExInv
  <2>4. objData'[o] = objData[h.p] /\ objData'[h.p] = objData[h.p]
    BY <2>1, <2>3 DEF ExInv, IInv, TypeOK
  <2>5. content'[objData'[o]] = ContentOf(h)
    BY <1>2, <2>3, <2>4 DEF ContentStays
  <2> QED
    BY <2>1, <2>2, <2>5
<1>4. Meaning'
  BY <1>2, <1>3, MeaningKept DEF ExInv
<1>5. NativeOK'
  BY DEF Duplicates, Plain, ExInv, NativeOK
<1> QED
  BY <1>1, <1>2, <1>4, <1>5 DEF GoodStep, ExInv

LEMMA ExNextGood ==
    ASSUME ExInv, ExNext
    PROVE  GoodStep
<1> USE DEF ExInv
<1>1. CASE BridgeCall /\ Plain
  BY <1>1, BridgeCallStep
<1>2. /\ tagEncodeOutput \in TagBits \cap OperandTags
      /\ tagEncryptOutput \in TagBits \cap OperandTags
      /\ tagLoadOutput \in TagBits \cap OperandTags
      /\ tagOperateOutput \in TagBits \cap ResultTags
      /\ tagStoreOutput \in TagBits \cap ResultTags
      /\ tagDecryptOutput \in TagBits \cap ResultTags
  BY OperationTags DEF OperandTags, ResultTags
<1>3. ASSUME NEW hb \in held, NEW packs \in Packs, Encode(hb, packs)
      PROVE  GoodStep
  <2> DEFINE operands == [i \in 1 .. 2 |->
                            packs[PackFor(packs, i - 1) + 1].sample]
  <2>1. CASE Idle /\ Plain
    BY <2>1, PlainStep
  <2>2. CASE /\ Len(packs) = 2
             /\ \A i \in {0, 1} : OperandError(packs, i) = SUCCESS
             /\ Creates(hb, tagEncodeOutput, operands)
    <3>1. operands \in OperandPairs
      BY <2>2, EncodedOperands
    <3> HIDE DEF operands
    <3>2. Fits(EngineObjectTag \cup tagEncodeOutput, operands)
      BY <1>2, <3>1, NewTagsFit
    <3> QED
      BY <1>2, <2>2, <3>2, CreatesStep
  <2> QED
    BY <1>3, <2>1, <2>2, EncodeStep
<1>4. ASSUME NEW hb \in held, NEW h \in Passed, Encrypt(hb, h)
      PROVE  GoodStep
  <2>1. \/ Idle /\ Plain
        \/ /\ checkHandleTags(h, tagEncodeOutput)
           /\ Creates(hb, tagEncryptOutput, ContentOf(h))
    BY <1>4, TransformStep DEF Encrypt
  <2>2. checkHandleTags(h, tagEncodeOutput) =>
           Fits(EngineObjectTag \cup tagEncryptOutput, ContentOf(h))
    BY <1>2, TagsMean, NewTagsFit
  <2> QED
    BY <1>2, <2>1, <2>2, PlainStep, CreatesStep
<1>5. ASSUME NEW hb \in held, NEW h \in Passed, Decrypt(hb, h)
      PROVE  GoodStep
  <2>1. \/ Idle /\ Plain
        \/ /\ checkHandleTags(h, tagStoreOutput)
           /\ Creates(hb, tagDecryptOutput, ContentOf(h))
    BY <1>5, TransformStep DEF Decrypt
  <2>2. checkHandleTags(h, tagStoreOutput) =>
           Fits(EngineObjectTag \cup tagDecryptOutput, ContentOf(h))
    BY <1>2, TagsMean, NewTagsFit
  <2> QED
    BY <1>2, <2>1, <2>2, PlainStep, CreatesStep
<1>6. ASSUME NEW hb \in held, NEW h \in Passed, NEW ix, Operate(hb, h, ix)
      PROVE  GoodStep
  <2> DEFINE made == <<Product(ContentOf(h)[1], ContentOf(h)[2])>>
  <2>1. \/ Idle /\ Plain
        \/ /\ checkHandleTags(h, tagLoadOutput)
           /\ Creates(hb, tagOperateOutput, made)
    BY <1>6, OperateStep
  <2>2. checkHandleTags(h, tagLoadOutput) => made \in Results
    BY <1>2, TagsMean DEF Results, Products
  <2> HIDE DEF made
  <2>3. checkHandleTags(h, tagLoadOutput) =>
           Fits(EngineObjectTag \cup tagOperateOutput, made)
    BY <1>2, <2>2, NewTagsFit
  <2> QED
    BY <1>2, <2>1, <2>3, PlainStep, CreatesStep
<1>7. ASSUME NEW hb \in held, NEW h \in Passed, NEW count,
             Load(hb, h, count)
      PROVE  GoodStep
  <2>1. (Idle /\ Plain) \/ Duplicates(hb, h, tagLoadOutput, LoadTag(h))
    BY <1>7, LoadStep
  <2>2. LoadTag(h) \in OperandTags
    BY <1>2 DEF LoadTag
  <2>3. checkHandleTags(h, LoadTag(h)) =>
           Fits(EngineObjectTag \cup tagLoadOutput, ContentOf(h))
    BY <1>2, <2>2, TagsMean, NewTagsFit
  <2> QED
    BY <1>2, <2>1, <2>3, PlainStep, DuplicatesStep
<1>8. ASSUME NEW hb \in held, NEW h \in Passed, NEW count,
             Store(hb, h, count)
      PROVE  GoodStep
  <2>1. (Idle /\ Plain) \/ Duplicates(hb, h, tagStoreOutput, tagOperateOutput)
    BY <1>8, StoreStep
  <2>2. checkHandleTags(h, tagOperateOutput) =>
           Fits(EngineObjectTag \cup tagStoreOutput, ContentOf(h))
    BY <1>2, TagsMean, NewTagsFit
  <2> QED
    BY <1>2, <2>1, <2>2, PlainStep, DuplicatesStep
<1>9. ASSUME NEW hb \in held, NEW h \in Passed, NEW hasBuffers,
             Decode(hb, h, hasBuffers)
      PROVE  GoodStep
  <2>1. CASE Idle /\ Plain
    BY <2>1, PlainStep
  <2>2. CASE /\ Idle /\ checkHandleTags(h, tagDecryptOutput)
             /\ native' = [i \in 1 .. Len(native) |->
                             IF /\ i <= Len(hasBuffers) /\ hasBuffers[i]
                                /\ i <= Len(ContentOf(h))
                             THEN ContentOf(h)[i] ELSE native[i]]
             /\ Contents(Freed)
    <3>1. PICK product \in Products : ContentOf(h) = <<product>>
      BY <1>2, <2>2, TagsMean DEF Results
    <3>2. PICK old \in {NoSample} \cup Products : native = <<old, NoSample>>
      BY DEF NativeOK
    <3> DEFINE written == 1 <= Len(hasBuffers) /\ hasBuffers[1]
    <3>3. native' = <<IF written THEN product ELSE old, NoSample>>
      BY <2>2, <3>1, <3>2
    <3>4. NativeOK'
      BY <3>1, <3>2, <3>3 DEF NativeOK
    <3> QED
      BY <2>2, <3>4, QuietStep
  <2> QED
    BY <1>9, <2>1, <2>2, DecodeStep
<1> QED
  BY <1>1, <1>3, <1>4, <1>5, <1>6, <1>7, <1>8, <1>9 DEF ExNext

LEMMA ExStep ==
    ASSUME ExInv, [ExNext]_exVars
    PROVE  GoodStep
<1>1. CASE UNCHANGED exVars
  <2>1. IInv'
    BY <1>1, NothingChanged DEF exVars, vars, ExInv, IInv, TypeOK, CodesOK
  <2>2. Meaning' /\ NativeOK' /\ ContentStays
    BY <1>1 DEF exVars, vars, heap, ExInv, Meaning, NativeOK, ContentStays,
                ContentOf
  <2> QED
    BY <2>1, <2>2 DEF GoodStep, ExInv
<1> QED
  BY <1>1, ExNextGood

-----------------------------------------------------------------------------
(* The theorems.                                                           *)

\* The invariant holds in every reachable state.
THEOREM ExInvariance == ExSpec => []ExInv
<1>1. ExInit => ExInv
  BY InitIInv DEF ExInit, ExInv, Init, Meaning, NativeOK
<1>2. ExInv /\ [ExNext]_exVars => ExInv'
  BY ExStep DEF GoodStep
<1> QED
  BY <1>1, <1>2, PTL DEF ExSpec

\* operate() and decode() may index what they find behind a handle: it has
\* the shape that the tag they checked says.
THEOREM TagsTellShapes == ExSpec => []ShapeSound
<1>1. ExInv => ShapeSound
  <2> SUFFICES ASSUME ExInv, NEW h \in held, h.p \in Object
               PROVE  /\ tagLoadOutput \subseteq h.tag =>
                            Len(ContentOf(h)) = NumOperands
                      /\ ResultBits \cap h.tag # {} => Len(ContentOf(h)) = 1
    BY DEF ShapeSound, ResultBits
  <2>1. Fits(h.tag, ContentOf(h))
    BY DEF ExInv, Meaning
  <2>2. tagLoadOutput \subseteq h.tag => ContentOf(h) \in OperandPairs
    BY <2>1 DEF Fits, OperandBits, tagLoadOutput
  <2>3. \A ab \in OperandPairs : Len(ab) = 2
    BY DEF OperandPairs
  <2>4. \A result \in Results : Len(result) = 1
    BY DEF Results
  <2> QED
    BY <2>1, <2>2, <2>3, <2>4 DEF Fits, NumOperands
<1> QED
  BY <1>1, ExInvariance, PTL

\* The operands are kept in the order of their positions until operate().
THEOREM OperandOrder == ExSpec => []OperandsKept
<1>1. ExInv => OperandsKept
  BY DEF ExInv, Meaning, Fits, OperandsKept, OperandBits
<1> QED
  BY <1>1, ExInvariance, PTL

\* What decode() gives the client is a product of operands it supplied.
THEOREM ProductsOnly == ExSpec => []DecodedProduct
<1>1. ExInv => DecodedProduct
  BY DEF ExInv, NativeOK, Products, DecodedProduct
<1> QED
  BY <1>1, ExInvariance, PTL

\* Destroying one handle of a shared datum does not touch what another shows.
THEOREM SharedContentStays == ExSpec => ContentStable
<1>1. ExInv /\ [ExNext]_exVars =>
         [\A h \in held \cap held' :
             h.p \in Object => content'[objData'[h.p]] = ContentOf(h)]_exVars
  BY ExStep DEF GoodStep, ContentStays
<1> QED
  BY <1>1, ExInvariance, PTL DEF ExSpec, ContentStable
=============================================================================
