--------------------------- MODULE ExampleBackend ---------------------------
(***************************************************************************)
(* The example backend (ExampleEngine, ExampleBenchmark) on top of the     *)
(* bridge: what each operation makes of the matrices behind the handles,   *)
(* and the tags by which it recognises the output of the operation before. *)
(*                                                                         *)
(* A matrix is a symbol: a sample the client supplied, or the product of   *)
(* two matrices.  Engine and benchmark calls are those of Bridge.          *)
(***************************************************************************)
EXTENDS Bridge, DataPacks

CONSTANTS
    Sample,      \* matrices the client supplies
    NoSample,    \* a null buffer, or one that was not written
    Packs,       \* data pack collections the client encodes
    MaxCount     \* bound on array lengths the client passes

ASSUME PackAssumption ==
    /\ Packs \subseteq Seq([param_position : Nat,
                            sample : Sample \cup {NoSample}])
    /\ MaxCount \in Nat

VARIABLES
    content,     \* the matrices of each datum
    native       \* what the client's buffers hold after decode()

NumOperands == 2

tagEncodeOutput == {4}
tagEncryptOutput == {6}
tagDecryptOutput == {7}
tagLoadOutput == {8}
tagStoreOutput == {9}
tagOperateOutput == {10}

Freed == <<>>
exVars == <<vars, content, native>>

Product(a, b) == <<a, b>>
ContentOf(h) == content[objData[h.p]]

\* A datum gets the content v with its first sharer and loses it with its
\* last.  While it is shared nobody writes to it.
Contents(v) ==
    content' = [d \in Data |-> IF useCount'[d] = 0 THEN Freed
                               ELSE IF useCount[d] = 0 THEN v
                               ELSE content[d]]

\* Each throw of BaseEngine::retrieveFromHandle(), negated.
Retrievable(h, mask) == checkHandleTags(h, mask) /\ h.p # NullPtr

\* No content is made and none is read.
Plain == Contents(Freed) /\ UNCHANGED native
-----------------------------------------------------------------------------
(* Operations.                                                             *)

\* Faulty variant: the packs are taken in the order they come in.
PackInOrder(packs, pos) == pos

\* The pack encode() takes for the parameter at a position.
PackFor(packs, pos) == findDataPackIndex(packs, pos)

\* What is wrong with the parameter at pos of the packs, if anything is.
OperandError(packs, pos) ==
    LET i == PackFor(packs, pos) IN
    IF i >= Len(packs) THEN CRITICAL
    ELSE IF packs[i + 1].sample = NoSample THEN INVALID_ARGS
    ELSE SUCCESS

Encode(hb, packs) ==
    LET bad == {i \in 0 .. NumOperands - 1 :
                  OperandError(packs, i) # SUCCESS}
        operands == [i \in 1 .. NumOperands |->
                       packs[PackFor(packs, i - 1) + 1].sample]
    IN  /\ hb \in BenchHandles
        /\ \/ Len(packs) # NumOperands /\ Reject(INVALID_ARGS) /\ Plain
           \/ /\ Len(packs) = NumOperands /\ bad # {}
              /\ Reject(OperandError(packs, MinIndex(bad))) /\ Plain
           \/ /\ Len(packs) = NumOperands /\ bad = {}
              /\ CreateHandle(hb, tagEncodeOutput)
              /\ Contents(operands)
              /\ UNCHANGED native

\* An operation that reads a handle with the tag mask and returns a new datum,
\* of the content it made from what it read.
Transform(hb, h, mask, tag, made) ==
    /\ hb \in BenchHandles
    /\ \/ ~Retrievable(h, mask) /\ Reject(CRITICAL) /\ Plain
       \/ /\ Retrievable(h, mask)
          /\ CreateHandle(hb, tag)
          /\ Contents(made)
          /\ UNCHANGED native

\* Ciphers are plain text in this backend.
Encrypt(hb, h) ==
    Transform(hb, h, tagEncodeOutput, tagEncryptOutput, ContentOf(h))
Decrypt(hb, h) ==
    Transform(hb, h, tagStoreOutput, tagDecryptOutput, ContentOf(h))

\* indexers says of each parameter indexer whether it is the one expected in
\* a latency test; only those of the two operands are looked at.
Operate(hb, h, indexers) ==
    LET Valid == \A i \in 1 .. Len(indexers) : i <= NumOperands => indexers[i]
    IN  \/ /\ hb \in BenchHandles /\ h.p # NullPtr
           /\ ~Valid /\ Reject(INVALID_ARGS) /\ Plain
        \/ /\ Valid \/ h.p = NullPtr
           /\ Transform(hb, h, tagLoadOutput, tagOperateOutput,
                        <<Product(ContentOf(h)[1], ContentOf(h)[2])>>)

\* Faulty variant: whatever has been encoded at some time may be loaded.
LoadAnyTag(h) == IF tagEncodeOutput \subseteq h.tag THEN tagEncodeOutput ELSE {}

LoadTag(h) ==
    IF tagEncodeOutput \subseteq h.tag THEN tagEncodeOutput
    ELSE tagEncryptOutput

\* load() of an array of count handles with h the first.  The API rejects an
\* empty array, the backend any count but one.
Load(hb, h, count) ==
    /\ hb \in BenchHandles
    /\ \/ count = 0 /\ Reject(CRITICAL)
       \/ count > 1 /\ Reject(INVALID_ARGS)
       \/ count = 1 /\ DuplicateHandle(hb, h, tagLoadOutput, LoadTag(h))
    /\ Plain

\* store() into an array of count handles, which it clears first: the client
\* keeps no handle there.
Store(hb, h, count) ==
    /\ hb \in BenchHandles
    /\ \/ h.p = NullPtr /\ Reject(CRITICAL)
       \/ h.p # NullPtr /\ count = 0 /\ Succeed /\ UNCHANGED <<heap, held>>
       \/ /\ h.p # NullPtr /\ count > 0
          /\ DuplicateHandle(hb, h, tagStoreOutput, tagOperateOutput)
    /\ Plain

\* decode() fills as many of the client's packs as there is content for, except
\* for those without buffers; hasBuffers says of each pack whether it has any.
Decode(hb, h, hasBuffers) ==
    /\ hb \in BenchHandles
    /\ \/ ~Retrievable(h, tagDecryptOutput) /\ Reject(CRITICAL) /\ Plain
       \/ /\ Retrievable(h, tagDecryptOutput)
          /\ Succeed /\ UNCHANGED <<heap, held>>
          /\ native' = [i \in 1 .. Len(native) |->
                          IF /\ i <= Len(hasBuffers) /\ hasBuffers[i]
                             /\ i <= Len(ContentOf(h))
                          THEN ContentOf(h)[i] ELSE native[i]]
          /\ Contents(Freed)
-----------------------------------------------------------------------------
ExInit == Init /\ content = [d \in Data |-> Freed]
               /\ native = <<NoSample, NoSample>>

\* One flag for each element of an array of the client.
Flags == UNION {[1 .. n -> BOOLEAN] : n \in 0 .. MaxCount}

BridgeCall ==
    \/ RejectNullArgument
    \/ InitEngine
    \/ \E he \in held :
          \/ \E n \in DescCounts : SubscribeBenchmarks(he, n)
          \/ \E hd \in held : CreateBenchmark(he, hd)
    \/ \E h \in held : DestroyHandle(h)

ExNext ==
    \/ BridgeCall /\ Plain
    \/ \E hb \in held :
          \/ \E packs \in Packs : Encode(hb, packs)
          \/ \E h \in Passed :
                \/ Encrypt(hb, h)
                \/ Decrypt(hb, h)
                \/ \E flags \in Flags :
                      Operate(hb, h, flags) \/ Decode(hb, h, flags)
                \/ \E n \in 0 .. MaxCount : Load(hb, h, n) \/ Store(hb, h, n)

ExSpec == ExInit /\ [][ExNext]_exVars
-----------------------------------------------------------------------------
(* Properties.                                                             *)

\* Pairs of operands the client supplied, by position and not by the order of
\* the packs.
OperandPairs ==
    {ab \in Sample \X Sample :
        \E p \in Packs : \E i, j \in 1 .. Len(p) :
           /\ p[i].param_position = 0 /\ p[i].sample = ab[1]
           /\ p[j].param_position = 1 /\ p[j].sample = ab[2]}

\* The tag of a handle tells the shape of what it holds: operate() indexes two
\* operands of whatever is tagged as loaded and checks no size, and decode()
\* expects one result.
ShapeSound ==
    \A h \in held : h.p \in Object =>
       /\ tagLoadOutput \subseteq h.tag => Len(ContentOf(h)) = NumOperands
       /\ (tagOperateOutput \cup tagStoreOutput \cup tagDecryptOutput)
             \cap h.tag # {} => Len(ContentOf(h)) = 1

\* Operands stay in the order of their positions through encode(), encrypt()
\* and load(), in whatever order the client's packs came.
OperandsKept ==
    \A h \in held :
       h.p \in Object /\ (tagEncodeOutput \cup tagEncryptOutput
                             \cup tagLoadOutput) \cap h.tag # {}
          => ContentOf(h) \in OperandPairs

\* Whatever the client finally decodes is the product of a pair of operands it
\* supplied, whichever handles it mixed up or destroyed on the way.
DecodedProduct ==
    /\ native[1] \in {NoSample} \cup {Product(ab[1], ab[2]) :
                                         ab \in OperandPairs}
    /\ native[2] = NoSample

\* Handles that share a datum do not feel each other's destruction: as long as
\* the client holds a handle, what is behind it does not change.
ContentStable ==
    [][\A h \in held \cap held' :
          h.p \in Object => content'[objData'[h.p]] = ContentOf(h)]_exVars
=============================================================================
