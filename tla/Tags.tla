-------------------------------- MODULE Tags --------------------------------
(***************************************************************************)
(* Opaque handles of the API bridge and the tag bits that type them.       *)
(*                                                                         *)
(* A tag is a 64-bit mask in the code and the set of its bits here: a      *)
(* binary OR is a union, an AND an intersection, and the test              *)
(* (tag & mask) == mask is mask \subseteq tag.                             *)
(***************************************************************************)
EXTENDS Naturals

Bit == 0 .. 63
MaskReservedBits == 56 .. 63        \* ITaggedObject: kept by the C++ wrapper
ClientBit == Bit \ MaskReservedBits \* left to the backend

BaseEngineTag == {63}
BaseBenchmarkTag == {62}
EngineObjectTag == {61}
BenchmarkDescriptionTag == {60}

\* What a handle of a benchmark is recognised by in destroyHandle().
BenchmarkHandleTag == BaseBenchmarkTag \cup BenchmarkDescriptionTag

NullPtr == 0
NullHandle == [p |-> NullPtr, tag |-> {}]

checkHandleBits(h, tag) == h.p # NullPtr /\ tag \subseteq h.tag

\* Faulty variant: only the sign bit of the mask is looked at.
IsPositiveMask(tag) == 63 \notin tag

\* A mask that backend code may pass as its own bits.
IsClientMask(tag) == tag \cap MaskReservedBits = {}
=============================================================================
