------------------------- MODULE WorkloadParamsProofs -------------------------
(***************************************************************************)
(* Objects of the workload parameter classes for a word of any width, any  *)
(* length of their lists and any words the client gives them.              *)
(*                                                                         *)
(* That an object passes its own validation is inductive only together     *)
(* with the other half of RoundTrip, that its counts do not wrap around:   *)
(* only then does the validation ask for all of its lengths.  The proofs   *)
(* use the invariant in a form without arithmetic modulo a word.           *)
(***************************************************************************)
EXTENDS WorkloadParams, SequenceTheorems, TLAPS

PInv == TypeOK /\ RoundTrip

\* What validateParams() asks of a list of a class, without its arithmetic.
AllUInt(ps, count) == \A i \in 1 .. count : ps[i].type = "UInt64"

ValidFixed(k, ps) == FixedCount[k] <= Len(ps) /\ AllUInt(ps, FixedCount[k])

ValidGeneric(ps) ==
    /\ 2 <= Len(ps)
    /\ n(ps) + m(ps) + 2 <= Len(ps)
    /\ AllUInt(ps, n(ps) + m(ps) + 2)

Valid(k, ps) ==
    /\ k \in Fixed => ValidFixed(k, ps)
    /\ k = "Generic" => ValidGeneric(ps)

-----------------------------------------------------------------------------
(* Words.                                                                  *)

LEMMA NoWrap ==
    ASSUME NEW x \in Nat, x < Modulus
    PROVE  Wrap(x) = x
BY ModulusAssumption DEF Wrap

LEMMA Numbers ==
    /\ Word \subseteq Nat /\ 0 \in Word /\ 1 \in Word
    /\ Counts \subseteq Word /\ Asked \subseteq Nat
    /\ MaxLen \in Nat /\ MaxLen >= 3 /\ Modulus \in Nat /\ MaxLen < Modulus
BY ModulusAssumption, ClientAssumption DEF Word

LEMMA WordOf == \A x \in Nat : Wrap(x) \in Nat
BY ModulusAssumption DEF Wrap

\* Each class has its count.
LEMMA Kinds ==
    /\ "Common" \notin Fixed /\ "Generic" \notin Fixed
    /\ Kind = Fixed \cup {"Common", "Generic"}
    /\ \A k \in Fixed : FixedCount[k] \in 1 .. 3
BY DEF Fixed, FixedCount, Kind

\* The counts of a list that has them are numbers.
LEMMA CountsOf ==
    ASSUME NEW ps \in Seq(Param), Len(ps) >= 2
    PROVE  n(ps) \in Word /\ m(ps) \in Word /\ n(ps) \in Nat /\ m(ps) \in Nat
<1>1. ps[1] \in Param /\ ps[2] \in Param
  BY ElementOfSeq
<1> QED
  BY <1>1, Numbers DEF Param, n, m

Accepted(k, ps) ==
    validateParams(k, ps) = "ok" /\ (k = "Generic" => ~Wraps(ps))

\* A list that passes the validation of its class and whose counts, those of a
\* Generic object, do not wrap around is valid.
LEMMA Validated ==
    ASSUME NEW k \in Kind, NEW ps \in Seq(Param), Len(ps) <= MaxLen
    PROVE  Accepted(k, ps) <=> Valid(k, ps)
<1>1. CASE k = "Common"
  <2>1. ~TooShort(k, ps) /\ ~WrongType(k, ps)
    BY <1>1 DEF TooShort, WrongType, MinRequiredParameters
  <2> QED
    BY <1>1, <2>1, Kinds DEF validateParams, Valid, Accepted
<1>2. CASE k \in Fixed
  <2>1. MinRequiredParameters(k, ps) = FixedCount[k] /\ FixedCount[k] \in Nat
    BY <1>2, Kinds DEF MinRequiredParameters
  <2>2. /\ TooShort(k, ps) <=> ~(FixedCount[k] <= Len(ps))
        /\ WrongType(k, ps) <=> ~AllUInt(ps, FixedCount[k])
    BY <1>2, <2>1, Kinds DEF TooShort, WrongType, AllUInt
  <2> QED
    BY <1>2, <2>2, Kinds DEF validateParams, Valid, ValidFixed, Accepted
<1>3. CASE k = "Generic"
  <2>1. CASE Len(ps) < 2
    BY <1>3, <2>1, Kinds
       DEF TooShort, validateParams, Valid, ValidGeneric, Accepted
  <2>2. CASE Len(ps) >= 2
    <3> DEFINE sum == n(ps) + m(ps) + 2
    <3>1. /\ sum \in Nat /\ 2 <= Len(ps) /\ k \notin Fixed /\ Len(ps) \in Nat
          /\ Len(ps) < Modulus /\ Modulus \in Nat
      <4>1. Len(ps) \in Nat /\ Len(ps) < Modulus /\ Modulus \in Nat
        BY Numbers
      <4>2. n(ps) \in Nat /\ m(ps) \in Nat
        BY <2>2, <4>1, CountsOf
      <4> QED
        BY <1>3, <2>2, <4>1, <4>2, Kinds
    <3>2. Wraps(ps) <=> sum >= Modulus
      BY DEF Wraps
    <3>3. MinRequiredParameters(k, ps) = Wrap(sum)
      BY <1>3 DEF MinRequiredParameters
    <3>4. ValidGeneric(ps) <=> sum <= Len(ps) /\ AllUInt(ps, sum)
      BY <3>1 DEF ValidGeneric
    <3>5. Valid(k, ps) <=> ValidGeneric(ps)
      BY <1>3, <3>1 DEF Valid
    <3> HIDE DEF sum
    <3>6. CASE sum >= Modulus
      <4>1. ~(sum <= Len(ps))
        BY <3>1, <3>6
      <4> QED
        BY <1>3, <3>2, <3>4, <3>5, <3>6, <4>1 DEF Accepted
    <3>7. CASE sum < Modulus
      <4>1. MinRequiredParameters(k, ps) = sum /\ ~Wraps(ps)
        BY <3>1, <3>2, <3>3, <3>7, NoWrap
      <4>2. TooShort(k, ps) <=> ~(sum <= Len(ps))
        BY <3>1, <4>1 DEF TooShort
      <4>3. WrongType(k, ps) <=> ~AllUInt(ps, sum)
        BY <4>1 DEF WrongType, AllUInt
      <4> QED
        BY <3>4, <3>5, <4>1, <4>2, <4>3 DEF validateParams, Accepted
    <3> QED
      BY <3>1, <3>6, <3>7
  <2> QED
    BY <2>1, <2>2
<1> QED
  BY <1>1, <1>2, <1>3, Kinds

\* The invariant without the arithmetic.
PInvPlain ==
    /\ kind \in Kind
    /\ params \in Seq(Param) /\ Len(params) <= MaxLen
    /\ wrapped \in BOOLEAN /\ (wrapped => kind = "Generic")
    /\ kind = "Generic" => Len(params) >= 2
    /\ ~wrapped => Valid(kind, params)

LEMMA InvariantMeans == PInv <=> PInvPlain
<1>1. kind \in Fixed /\ Valid(kind, params) => Len(params) >= FixedCount[kind]
  BY Kinds DEF Valid, ValidFixed
<1>2. kind \in Fixed /\ (wrapped => kind = "Generic") => ~wrapped
  BY Kinds
<1>3. kind \in Kind /\ params \in Seq(Param) /\ Len(params) <= MaxLen
         => (Accepted(kind, params) <=> Valid(kind, params))
  BY Validated
<1>4. RoundTrip <=> (~wrapped => Accepted(kind, params))
  BY DEF RoundTrip, Accepted
<1> QED
  BY <1>1, <1>2, <1>3, <1>4 DEF PInv, PInvPlain, TypeOK

-----------------------------------------------------------------------------
(* Lists.                                                                  *)

\* qs has the parameters of ps in front, of the same types and, in a Generic
\* object, with the same counts.
SameFront(k, ps, qs) ==
    /\ Len(ps) <= Len(qs)
    /\ \A i \in 1 .. Len(ps) : qs[i].type = ps[i].type
    /\ k = "Generic" => qs[1].bits = ps[1].bits /\ qs[2].bits = ps[2].bits

\* It is as valid as ps.
LEMMA StaysValid ==
    ASSUME NEW k \in Kind, NEW ps \in Seq(Param), NEW qs \in Seq(Param),
           Valid(k, ps), SameFront(k, ps, qs)
    PROVE  Valid(k, qs)
<1> USE DEF SameFront
<1>0. Len(ps) \in Nat /\ Len(qs) \in Nat
  OBVIOUS
<1>1. ASSUME k \in Fixed
      PROVE  ValidFixed(k, qs)
  <2>1. FixedCount[k] \in Nat /\ FixedCount[k] <= Len(ps)
    BY <1>1, Kinds DEF Valid, ValidFixed
  <2> QED
    BY <1>0, <1>1, <2>1 DEF Valid, ValidFixed, AllUInt
<1>2. ASSUME k = "Generic"
      PROVE  ValidGeneric(qs)
  <2> DEFINE sum == n(ps) + m(ps) + 2
  <2>1. 2 <= Len(ps) /\ sum <= Len(ps) /\ AllUInt(ps, sum)
    BY <1>2 DEF Valid, ValidGeneric
  <2>2. n(ps) \in Nat /\ m(ps) \in Nat
    BY <1>0, <2>1, CountsOf
  <2>3. n(qs) = n(ps) /\ m(qs) = m(ps) /\ sum \in Nat
    BY <1>2, <2>2 DEF n, m
  <2>4. ValidGeneric(qs) <=>
           2 <= Len(qs) /\ sum <= Len(qs) /\ AllUInt(qs, sum)
    BY <2>3 DEF ValidGeneric
  <2> HIDE DEF sum
  <2>5. AllUInt(qs, sum)
    BY <1>0, <2>1, <2>3 DEF AllUInt
  <2> QED
    BY <1>0, <2>1, <2>3, <2>4, <2>5
<1> QED
  BY <1>1, <1>2 DEF Valid

\* A list with other bits in one place.
LEMMA BitsChanged ==
    ASSUME NEW ps \in Seq(Param), NEW j \in 1 .. Len(ps), NEW v \in Word
    PROVE  LET qs == [ps EXCEPT ![j].bits = v]
           IN  /\ qs \in Seq(Param) /\ Len(qs) = Len(ps)
               /\ \A i \in 1 .. Len(ps) :
                     /\ qs[i].type = ps[i].type
                     /\ qs[i].bits = IF i = j THEN v ELSE ps[i].bits
<1> DEFINE p == [ps[j] EXCEPT !.bits = v]
           qs == [ps EXCEPT ![j].bits = v]
<1>1. ps[j] \in Param
  BY ElementOfSeq
<1>2. p \in Param /\ p.type = ps[j].type /\ p.bits = v
  BY <1>1 DEF Param
<1>3. qs = [ps EXCEPT ![j] = p]
  OBVIOUS
<1> HIDE DEF p, qs
<1>4. /\ qs \in Seq(Param) /\ Len(qs) = Len(ps)
      /\ \A i \in 1 .. Len(ps) : qs[i] = IF i = j THEN p ELSE ps[i]
  BY <1>2, <1>3, ExceptSeq
<1>5. \A i \in 1 .. Len(ps) :
         /\ qs[i].type = ps[i].type
         /\ qs[i].bits = IF i = j THEN v ELSE ps[i].bits
  BY <1>2, <1>4
<1> QED
  BY <1>4, <1>5 DEF qs

\* What the client gives is a parameter.
LEMMA ClientValues ==
    /\ Value \subseteq Word
    /\ \A p \in Chosen : p \in Param
    /\ \A v \in Word : UInt(v) \in Param /\ UInt(v).type = "UInt64"
                       /\ UInt(v).bits = v
    /\ NoParam \in Param
BY Numbers, ClientAssumption
   DEF Value, Chosen, Given, Param, ParamType, UInt, NoParam

-----------------------------------------------------------------------------
(* Constructors.                                                           *)

LEMMA MakeCommonPreserves == MakeCommon => PInvPlain' /\ ~wrapped'
<1> SUFFICES ASSUME NEW len \in 0 .. MaxLen,
                    Becomes("Common", [i \in 1 .. len |-> NoParam], "Object")
             PROVE  PInvPlain' /\ ~wrapped'
  BY DEF MakeCommon
<1>1. /\ kind' = "Common" /\ params' = [i \in 1 .. len |-> NoParam]
      /\ len \in Nat /\ len <= MaxLen /\ wrapped' = FALSE
  BY Numbers DEF Becomes
<1>2. params' \in Seq(Param) /\ Len(params') <= MaxLen
  BY <1>1, ClientValues
<1> QED
  BY <1>1, <1>2, Kinds DEF PInvPlain, Valid

LEMMA MakeFixedPreserves == MakeFixed => PInvPlain' /\ ~wrapped'
<1> SUFFICES ASSUME NEW k \in Fixed, NEW vs \in [1 .. FixedCount[k] -> Value],
                    Becomes(k, [i \in 1 .. FixedCount[k] |-> UInt(vs[i])],
                            "Object")
             PROVE  PInvPlain' /\ ~wrapped'
  BY DEF MakeFixed
<1> DEFINE c == FixedCount[k]
<1>1. c \in Nat /\ c <= MaxLen
  BY Kinds, Numbers
<1> HIDE DEF c
<1>2. kind' = k /\ params' = [i \in 1 .. c |-> UInt(vs[i])] /\ wrapped' = FALSE
  BY DEF Becomes, c
<1>3. \A i \in 1 .. c : vs[i] \in Word
  BY ClientValues DEF c
<1>4. /\ params' \in Seq(Param) /\ Len(params') = c
      /\ \A i \in 1 .. c : params'[i].type = "UInt64"
  BY <1>1, <1>2, <1>3, ClientValues
<1>5. ValidFixed(k, params')
  BY <1>1, <1>4 DEF ValidFixed, AllUInt, c
<1> QED
  BY <1>1, <1>2, <1>4, <1>5, Kinds DEF PInvPlain, Valid

\* Where every set() of Generic(_n, _m) finds its place, the size of the list
\* did not wrap around: of the places after the size that did, the first is
\* among the ones to be set.
LEMMA NewGenericFits ==
    ASSUME NEW in \in Word, NEW out \in Word,
           SetPlaces(in, out) \subseteq 0 .. GenericSize(in, out) - 1
    PROVE  /\ in + out + 2 < Modulus
           /\ GenericSize(in, out) = in + out + 2
<1> DEFINE sum == in + out + 2
           size == GenericSize(in, out)
<1>1. /\ in \in Nat /\ out \in Nat /\ in < Modulus /\ out < Modulus
      /\ sum \in Nat /\ sum <= 2 * Modulus
      /\ Modulus \in Nat /\ Modulus > 3
  BY ModulusAssumption DEF Word
<1>2. size = Wrap(sum)
  BY DEF GenericSize
<1>3. {0, 1} \subseteq 0 .. size - 1
  BY DEF SetPlaces
<1>4. ASSUME sum >= Modulus
      PROVE  FALSE
  <2>1. CASE sum = 2 * Modulus
    <3>1. Wrap(sum) = 0
      BY <1>1, <2>1 DEF Wrap
    <3> QED
      BY <1>2, <1>3, <3>1
  <2>2. CASE sum < 2 * Modulus
    <3>1. size = sum - Modulus
      <4> HIDE DEF sum
      <4> QED
        BY <1>1, <1>2, <1>4, <2>2 DEF Wrap
    <3> DEFINE i == size - 2
    <3>2. size \in Nat /\ size >= 2 /\ size < Modulus
      BY <1>1, <1>3, <1>4, <2>2, <3>1
    <3>3. i \in 0 .. in - 1 /\ 2 + i = size
      BY <1>1, <3>1, <3>2
    <3>4. Wrap(2 + i) \in SetPlaces(in, out)
      BY <3>3 DEF SetPlaces
    <3>5. Wrap(2 + i) = size
      BY <3>2, <3>3, NoWrap
    <3> QED
      BY <3>2, <3>4, <3>5
  <2> QED
    BY <1>1, <2>1, <2>2
<1> QED
  BY <1>1, <1>2, <1>4, NoWrap

\* The list of a new Generic has its counts, and a one for each length.
LEMMA NewGeneric ==
    ASSUME NEW in \in Word, NEW out \in Word,
           SetPlaces(in, out) \subseteq 0 .. GenericSize(in, out) - 1
    PROVE  LET ps == GenericList(in, out)
           IN  /\ ps \in Seq(Param) /\ ValidGeneric(ps)
               /\ Len(ps) = GenericSize(in, out)
               /\ n(ps) = in /\ m(ps) = out
               /\ \A i \in 3 .. in + out + 2 : ps[i].bits = 1
<1> DEFINE ps == GenericList(in, out)
           sum == in + out + 2
           bits(i) == IF i = 1 THEN in ELSE IF i = 2 THEN out ELSE 1
<1>1. in \in Nat /\ out \in Nat /\ sum \in Nat /\ sum >= 2
  BY Numbers
<1>0. GenericSize(in, out) = sum
  BY NewGenericFits
<1>2. ps = [i \in 1 .. sum |-> UInt(bits(i))]
  BY <1>0 DEF GenericList
<1>3. \A i \in 1 .. sum : bits(i) \in Word
  BY Numbers
<1> HIDE DEF ps
<1>4. /\ Len(ps) = sum /\ ps \in Seq(Param)
      /\ \A i \in 1 .. sum : ps[i].type = "UInt64" /\ ps[i].bits = bits(i)
  <2> HIDE DEF sum, bits
  <2>1. \A i \in 1 .. sum : /\ UInt(bits(i)) \in Param
                            /\ UInt(bits(i)).type = "UInt64"
                            /\ UInt(bits(i)).bits = bits(i)
    BY <1>3, ClientValues
  <2>2. Len(ps) = sum /\ ps \in Seq(Param)
    BY <1>1, <1>2, <2>1
  <2>3. \A i \in 1 .. sum : ps[i] = UInt(bits(i))
    BY <1>2
  <2> QED
    BY <2>1, <2>2, <2>3
<1>5. n(ps) = in /\ m(ps) = out
  BY <1>1, <1>4 DEF n, m
<1>6. ValidGeneric(ps)
  BY <1>1, <1>4, <1>5 DEF ValidGeneric, AllUInt
<1>7. \A i \in 3 .. sum : ps[i].bits = 1
  BY <1>1, <1>4
<1> QED
  BY <1>0, <1>4, <1>5, <1>6, <1>7 DEF ps

\* Every attempt to make one from counts ends in a valid object or in none.
LEMMA MakeGenericPreserves ==
    ASSUME PInvPlain, MakeGeneric
    PROVE  PInvPlain' /\ (UNCHANGED <<kind, params, wrapped>> \/ ~wrapped')
<1>1. ASSUME NEW in \in Counts, NEW out \in Counts,
             GenericSize(in, out) <= MaxLen,
             SetPlaces(in, out) \subseteq 0 .. GenericSize(in, out) - 1,
             Becomes("Generic", GenericList(in, out), "Counts")
      PROVE  PInvPlain' /\ ~wrapped'
  <2>1. in \in Word /\ out \in Word
    BY Numbers
  <2>2. /\ kind' = "Generic" /\ params' = GenericList(in, out)
        /\ wrapped' = FALSE
    BY <1>1 DEF Becomes
  <2>3. /\ params' \in Seq(Param) /\ ValidGeneric(params')
        /\ Len(params') <= MaxLen
    BY <1>1, <2>1, <2>2, NewGeneric
  <2> QED
    BY <2>2, <2>3, Kinds DEF PInvPlain, Valid, ValidGeneric
<1>2. CASE UNCHANGED <<kind, params, wrapped>>
  BY <1>2 DEF PInvPlain
<1> QED
  BY <1>1, <1>2 DEF MakeGeneric, Refused

LEMMA MakeFromPreserves ==
    ASSUME PInvPlain, NEW k \in Kind, MakeFrom(k)
    PROVE  PInvPlain'
<1>1. CASE UNCHANGED <<kind, params, wrapped>>
  BY <1>1 DEF PInvPlain
<1>2. CASE /\ validateParams(k, params) = "ok" /\ kind' = k /\ params' = params
           /\ wrapped' = (k = "Generic" /\ Wraps(params))
  <2>1. k = "Generic" => Len(params) >= 2
    <3>1. ~TooShort(k, params) /\ Len(params) \in Nat
      BY <1>2 DEF validateParams, PInvPlain
    <3> QED
      BY <3>1 DEF TooShort
  <2>2. ~wrapped' => Valid(k, params)
    BY <1>2, Validated DEF PInvPlain, Accepted
  <2>3. wrapped' \in BOOLEAN /\ (wrapped' => k = "Generic")
    BY <1>2, Zenon DEF Wraps
  <2> QED
    BY <1>2, <2>1, <2>2, <2>3 DEF PInvPlain
<1> QED
  BY <1>1, <1>2 DEF MakeFrom, Refused

-----------------------------------------------------------------------------
(* Parameters.                                                             *)

\* The list stays as long as it was, and only the bits in place j change, to
\* v: what writing through a reference to a parameter does.
BitsWritten(j, v) ==
    /\ kind' = kind /\ wrapped' = wrapped
    /\ Len(params') = Len(params)
    /\ \A i \in 1 .. Len(params) :
          /\ params'[i].type = params[i].type
          /\ params'[i].bits = IF i = j THEN v ELSE params[i].bits

LEMMA WritingPreserves ==
    ASSUME PInvPlain, NEW j \in 1 .. Len(params), NEW v \in Word,
           HasLengths => j > 2, kind' = kind, wrapped' = wrapped,
           params' = [params EXCEPT ![j].bits = v]
    PROVE  PInvPlain' /\ BitsWritten(j, v)
<1>1. params \in Seq(Param) /\ Len(params) \in Nat
  BY DEF PInvPlain
<1>2. params' \in Seq(Param) /\ BitsWritten(j, v)
  BY <1>1, BitsChanged DEF BitsWritten
<1>3. ASSUME ~wrapped
      PROVE  Valid(kind, params')
  <2>1. kind = "Generic" => /\ params'[1].bits = params[1].bits
                            /\ params'[2].bits = params[2].bits
    BY <1>1, <1>2, <1>3 DEF PInvPlain, HasLengths, BitsWritten
  <2>2. SameFront(kind, params, params')
    BY <1>1, <1>2, <2>1 DEF SameFront, BitsWritten
  <2> QED
    BY <1>2, <1>3, <2>2, StaysValid DEF PInvPlain
<1> QED
  BY <1>2, <1>3 DEF PInvPlain, BitsWritten

LEMMA AddPreserves ==
    ASSUME PInvPlain, Add
    PROVE  /\ PInvPlain'
           /\ kind' = kind /\ wrapped' = wrapped /\ Len(params) <= Len(params')
           /\ \A i \in 1 .. Len(params) : params'[i] = params[i]
<1> PICK p \in Chosen : params' = Append(params, p)
  BY DEF Add
<1>1. /\ params \in Seq(Param) /\ Len(params) \in Nat /\ p \in Param
      /\ Len(params) < MaxLen /\ kind' = kind /\ wrapped' = wrapped
  BY ClientValues DEF PInvPlain, Add
<1>2. /\ params' \in Seq(Param) /\ Len(params') = Len(params) + 1
      /\ \A i \in 1 .. Len(params) : params'[i] = params[i]
      /\ params'[Len(params) + 1] = p
  BY <1>1
<1>3. Len(params') <= MaxLen /\ Len(params) <= Len(params')
  BY <1>1, <1>2, Numbers
<1>4. ASSUME ~wrapped
      PROVE  Valid(kind, params')
  <2>1. kind = "Generic" => /\ params'[1].bits = params[1].bits
                            /\ params'[2].bits = params[2].bits
    BY <1>1, <1>2 DEF PInvPlain
  <2>2. SameFront(kind, params, params')
    BY <1>2, <1>3, <2>1 DEF SameFront
  <2> QED
    BY <1>2, <1>4, <2>2, StaysValid DEF PInvPlain
<1> QED
  BY <1>1, <1>2, <1>3, <1>4 DEF PInvPlain

LEMMA SetPreserves ==
    ASSUME PInvPlain, NEW i \in Asked, Set(i)
    PROVE  PInvPlain' /\ kind' = kind /\ wrapped' = wrapped /\ kind = "Common"
<1>1. kind = "Common" /\ kind' = kind /\ wrapped' = wrapped
  BY DEF Set, Refused
<1>2. CASE UNCHANGED params
  BY <1>1, <1>2 DEF PInvPlain
<1>3. ASSUME NEW p \in Chosen, i < Len(params),
             params' = [params EXCEPT ![i + 1] = p]
      PROVE  PInvPlain'
  <2>1. /\ params \in Seq(Param) /\ p \in Param /\ i \in Nat
        /\ Len(params) \in Nat
    BY ClientValues, Numbers DEF PInvPlain
  <2>2. i + 1 \in 1 .. Len(params)
    BY <1>3, <2>1
  <2>3. params' \in Seq(Param) /\ Len(params') = Len(params)
    BY <1>3, <2>1, <2>2, ExceptSeq
  <2> QED
    BY <1>1, <2>3, Kinds DEF PInvPlain, Valid
<1> QED
  BY <1>1, <1>2, <1>3 DEF Set, Refused

LEMMA FieldPreserves ==
    ASSUME PInvPlain, NEW i \in Asked, Field(i)
    PROVE  PInvPlain' /\ kind' = kind /\ wrapped' = wrapped /\ kind \in Fixed
<1> PICK v \in Value : params' = [params EXCEPT ![i + 1].bits = v]
  BY DEF Field
<1>1. /\ kind \in Fixed /\ kind' = kind /\ wrapped' = wrapped
      /\ kind # "Generic" /\ v \in Word
  BY Kinds, ClientValues DEF Field
<1>2. i + 1 \in 1 .. Len(params)
  <2>1. i \in Nat /\ i < FixedCount[kind] /\ FixedCount[kind] \in Nat
    BY <1>1, Numbers, Kinds DEF Field
  <2>2. FixedCount[kind] <= Len(params) /\ Len(params) \in Nat
    BY <1>1 DEF PInvPlain, Valid, ValidFixed
  <2> QED
    BY <2>1, <2>2
<1> QED
  BY <1>1, <1>2, WritingPreserves DEF HasLengths

-----------------------------------------------------------------------------
(* Lengths.                                                                *)

\* The counts of a Generic object fit its list, unless it was taken from one
\* whose counts wrap around, and the places of its inputs and results are found
\* without wrapping around.
LEMMA GenericCounts ==
    ASSUME PInvPlain, HasLengths
    PROVE  /\ n(params) \in Nat /\ m(params) \in Nat /\ Len(params) \in Nat
           /\ n(params) + m(params) + 2 <= Len(params)
           /\ \A i \in Nat : i <= n(params) => InputIndex(params, i) = i + 2
           /\ \A i \in Nat : i < m(params) =>
                 ResultIndex(params, i) = i + n(params) + 2
<1>1. /\ Len(params) \in Nat /\ Len(params) < Modulus /\ Len(params) >= 2
      /\ params \in Seq(Param)
  BY Numbers DEF PInvPlain, HasLengths
<1>2. n(params) + m(params) + 2 <= Len(params)
  BY DEF PInvPlain, HasLengths, Valid, ValidGeneric
<1>3. n(params) \in Nat /\ m(params) \in Nat
  BY <1>1, CountsOf
<1>4. ASSUME NEW i \in Nat, i <= n(params)
      PROVE  InputIndex(params, i) = i + 2
  <2>1. i + 2 < Modulus /\ i + 2 \in Nat
    BY <1>1, <1>2, <1>3, <1>4, Numbers
  <2> QED
    BY <2>1, NoWrap DEF InputIndex
<1>5. ASSUME NEW i \in Nat, i < m(params)
      PROVE  ResultIndex(params, i) = i + n(params) + 2
  <2> DEFINE x == i + n(params) + 2
  <2>1. x \in Nat /\ x < Modulus
    BY <1>1, <1>2, <1>3, <1>5, Numbers
  <2>2. ResultIndex(params, i) = Wrap(x)
    BY DEF ResultIndex
  <2> HIDE DEF x
  <2>3. Wrap(x) = x
    BY <2>1, NoWrap
  <2> QED
    BY <2>2, <2>3 DEF x
<1> QED
  BY <1>1, <1>2, <1>3, <1>4, <1>5

\* The call is answered with the bits that parameter j has in the end.
Answered(call, i, j) ==
    \E v \in Word : BitsWritten(j, v) /\ answer' = Ended(call, i, "ok", v)

\* A look at a parameter behind the counts, or at any of an object of which
\* they wrapped around, changes its bits at most.
LEMMA Looked ==
    ASSUME PInvPlain, kind = "Generic",
           NEW call, NEW i, NEW mayWrite \in BOOLEAN,
           NEW index \in Nat, HasLengths => index >= 2, index < Len(params),
           Look(call, i, index, mayWrite)
    PROVE  /\ PInvPlain'
           /\ Answered(call, i, index + 1)
           /\ mayWrite \/ params' = params
<1>1. /\ index + 1 \in 1 .. Len(params) /\ (HasLengths => index + 1 > 2)
      /\ params \in Seq(Param) /\ Len(params) \in Nat
  BY DEF PInvPlain
<1>2. /\ kind' = kind /\ wrapped' = wrapped
      /\ params' = params \/ mayWrite
      /\ answer' = Ended(call, i, "ok", params'[index + 1].bits)
  BY <1>1 DEF Look
<1>3. CASE params' = params
  <2>1. params[index + 1] \in Param
    BY <1>1, ElementOfSeq
  <2> DEFINE v == params[index + 1].bits
  <2>2. v \in Word
    BY <2>1 DEF Param
  <2>3. BitsWritten(index + 1, v)
    BY <1>2, <1>3 DEF BitsWritten
  <2> QED
    BY <1>2, <1>3, <2>2, <2>3 DEF PInvPlain, Answered
<1>4. ASSUME NEW v \in Value, mayWrite,
             params' = [params EXCEPT ![index + 1].bits = v]
      PROVE  /\ PInvPlain'
             /\ Answered(call, i, index + 1)
             /\ mayWrite \/ params' = params
  <2>1. v \in Word
    BY ClientValues
  <2>2. PInvPlain' /\ BitsWritten(index + 1, v)
    BY <1>1, <1>2, <1>4, <2>1, WritingPreserves
  <2>3. params'[index + 1].bits = v
    BY <1>1, <2>2 DEF BitsWritten
  <2> QED
    BY <1>2, <1>4, <2>1, <2>2, <2>3 DEF Answered
<1>5. \/ params' = params
      \/ mayWrite /\ \E v \in Value :
                        params' = [params EXCEPT ![index + 1].bits = v]
  <2>1. ~(index >= Len(params))
    BY <1>1
  <2> QED
    BY <2>1, Zenon DEF Look
<1> QED
  BY <1>3, <1>4, <1>5

\* Every call about a length is refused and changes nothing, or looks at the
\* parameter of that length.
LEMMA InputLooks ==
    ASSUME PInvPlain, ~wrapped, NEW i \in Asked, length_InputParam(i)
    PROVE  \/ i >= n(params) /\ Refused("Input", i, "out_of_range")
           \/ /\ i < n(params) /\ PInvPlain'
              /\ Answered("Input", i, i + 3)
<1>1. kind = "Generic" /\ i \in Nat /\ HasLengths
  BY Numbers DEF length_InputParam, HasLengths
<1>2. CASE i < n(params) /\ Look("Input", i, InputIndex(params, i), TRUE)
  <2> DEFINE x == i + 2
  <2>1. InputIndex(params, i) = x /\ x < Len(params) /\ x \in Nat /\ x >= 2
    BY <1>1, <1>2, GenericCounts
  <2>2. x + 1 = i + 3
    BY <1>1
  <2> HIDE DEF x
  <2>3. PInvPlain' /\ Answered("Input", i, x + 1)
    BY <1>1, <1>2, <2>1, Looked
  <2> QED
    BY <1>2, <2>2, <2>3
<1> QED
  BY <1>2 DEF length_InputParam

LEMMA ResultLooks ==
    ASSUME PInvPlain, ~wrapped, NEW i \in Asked, length_ResultComponent(i)
    PROVE  \/ i >= m(params) /\ Refused("Result", i, "out_of_range")
           \/ /\ i < m(params) /\ PInvPlain'
              /\ Answered("Result", i, i + n(params) + 3)
<1>1. kind = "Generic" /\ i \in Nat /\ HasLengths
  BY Numbers DEF length_ResultComponent, HasLengths
<1>2. CASE i < m(params) /\ Look("Result", i, ResultIndex(params, i), TRUE)
  <2> DEFINE x == i + n(params) + 2
  <2>1. ResultIndex(params, i) = x /\ x < Len(params) /\ x \in Nat /\ x >= 2
    BY <1>1, <1>2, GenericCounts
  <2>2. x + 1 = i + n(params) + 3
    BY <1>1, GenericCounts
  <2> HIDE DEF x
  <2>3. PInvPlain' /\ Answered("Result", i, x + 1)
    BY <1>1, <1>2, <2>1, Looked
  <2> QED
    BY <1>2, <2>2, <2>3
<1> QED
  BY <1>2 DEF length_ResultComponent

LEMMA ConstInputLooks ==
    ASSUME PInvPlain, ~wrapped, NEW i \in Asked, length_InputParamConst(i)
    PROVE  \/ /\ i >= n(params) /\ Refused("ConstInput", i, "out_of_range")
           \/ /\ i <= n(params) /\ PInvPlain' /\ params' = params
              /\ Answered("ConstInput", i, i + 3)
<1>1. /\ kind = "Generic" /\ i \in Nat /\ HasLengths
      /\ n(params) \in Nat /\ Len(params) \in Nat
  BY Numbers, GenericCounts DEF length_InputParamConst, HasLengths
<1>2. CASE /\ i <= n(params)
           /\ Look("ConstInput", i, InputIndex(params, i), FALSE)
  <2> DEFINE x == i + 2
  <2>1. InputIndex(params, i) = x /\ x \in Nat /\ x >= 2 /\ x + 1 = i + 3
    BY <1>1, <1>2, GenericCounts
  <2>2. x >= Len(params) => i >= n(params)
    BY <1>1, GenericCounts
  <2> HIDE DEF x
  <2>3. CASE x < Len(params)
    <3>1. /\ PInvPlain' /\ params' = params
          /\ Answered("ConstInput", i, x + 1)
      BY <1>1, <1>2, <2>1, <2>3, Looked
    <3> QED
      BY <1>2, <2>1, <3>1
  <2>4. CASE x >= Len(params)
    <3>1. Refused("ConstInput", i, "out_of_range")
      BY <1>1, <1>2, <2>1, <2>4 DEF Look
    <3> QED
      BY <2>2, <2>4, <3>1
  <2> QED
    BY <1>1, <2>1, <2>3, <2>4
<1>3. CASE i > n(params) /\ Refused("ConstInput", i, "out_of_range")
  BY <1>1, <1>3
<1> QED
  BY <1>2, <1>3 DEF length_InputParamConst

\* Calls about the lengths of an object of which the counts wrapped around keep
\* to its list.
LEMMA WrappedLooks ==
    ASSUME PInvPlain, wrapped, NEW i \in Asked,
           \/ length_InputParamConst(i)
           \/ length_InputParam(i)
           \/ length_ResultComponent(i)
    PROVE  PInvPlain' /\ wrapped'
<1>1. /\ kind = "Generic" /\ ~HasLengths /\ i \in Nat
      /\ params \in Seq(Param) /\ Len(params) >= 2
  BY Numbers DEF PInvPlain, HasLengths
<1>2. n(params) \in Nat
  BY <1>1, CountsOf
<1>3. InputIndex(params, i) \in Nat /\ ResultIndex(params, i) \in Nat
  <2>1. i + 2 \in Nat /\ i + n(params) + 2 \in Nat
    BY <1>1, <1>2
  <2> QED
    BY <2>1, WordOf DEF InputIndex, ResultIndex
<1>4. ASSUME NEW call, NEW status, Refused(call, i, status)
      PROVE  PInvPlain' /\ wrapped'
  BY <1>4 DEF Refused, PInvPlain
<1>5. ASSUME NEW call, NEW mayWrite \in BOOLEAN, NEW index \in Nat,
             Look(call, i, index, mayWrite)
      PROVE  PInvPlain' /\ wrapped'
  <2>1. CASE index >= Len(params)
    <3>1. ~(index < Len(params))
      BY <1>1, <2>1
    <3>2. Refused(call, i, "out_of_range")
      BY <1>5, <3>1, Zenon DEF Look
    <3> QED
      BY <1>4, <3>2
  <2>2. CASE index < Len(params)
    BY <1>1, <1>5, <2>2, Looked DEF Answered, BitsWritten
  <2> QED
    BY <1>1, <2>1, <2>2
<1>6. CASE length_InputParamConst(i)
  BY <1>3, <1>4, <1>5, <1>6 DEF length_InputParamConst
<1>7. CASE length_InputParam(i)
  BY <1>3, <1>4, <1>5, <1>7 DEF length_InputParam
<1>8. CASE length_ResultComponent(i)
  BY <1>3, <1>4, <1>5, <1>8 DEF length_ResultComponent
<1> QED
  BY <1>6, <1>7, <1>8

-----------------------------------------------------------------------------
(* The invariant.                                                          *)

LEMMA StepPreserves ==
    ASSUME PInvPlain, [Next]_paramVars
    PROVE  PInvPlain'
<1>0. UNCHANGED <<kind, params, wrapped>> => PInvPlain'
  BY DEF PInvPlain
<1>2. ASSUME NEW i \in Asked, Get(i)
      PROVE  PInvPlain'
  BY <1>0, <1>2 DEF Get, Refused
<1>3. ASSUME NEW i \in Asked,
             \/ length_InputParamConst(i)
             \/ length_InputParam(i)
             \/ length_ResultComponent(i)
      PROVE  PInvPlain'
  <2>1. CASE wrapped
    BY <1>3, <2>1, WrappedLooks
  <2>2. CASE ~wrapped
    BY <1>0, <1>3, <2>2, ConstInputLooks, InputLooks, ResultLooks DEF Refused
  <2> QED
    BY <2>1, <2>2
<1>4. CASE UNCHANGED paramVars
  BY <1>0, <1>4 DEF paramVars
<1>5. ASSUME NEW i \in Asked, Set(i) \/ Field(i)
      PROVE  PInvPlain'
  BY <1>5, SetPreserves, FieldPreserves
<1> QED
  BY <1>2, <1>3, <1>4, <1>5, MakeCommonPreserves, MakeFixedPreserves,
     MakeGenericPreserves, MakeFromPreserves, AddPreserves DEF Next

LEMMA Invariance == Spec => []PInvPlain
<1>1. Init => PInvPlain
  <2> SUFFICES ASSUME Init PROVE PInvPlain
    OBVIOUS
  <2>1. kind = "Common" /\ params = <<>> /\ wrapped = FALSE
    BY DEF Init
  <2>2. params \in Seq(Param) /\ Len(params) <= MaxLen
    BY <2>1, Numbers
  <2> QED
    BY <2>1, <2>2, Kinds DEF PInvPlain, Valid
<1> QED
  BY <1>1, StepPreserves, PTL DEF Spec

\* The list of an object is one of parameters, with the fields of its class.
THEOREM TypeCorrect == Spec => []TypeOK
<1>1. PInvPlain => TypeOK
  BY InvariantMeans DEF PInv
<1> QED
  BY <1>1, Invariance, PTL

\* Whatever is done to an object, its class takes its list again and its counts
\* do not wrap around, for any width of the word and any words the client gives
\* as values and as counts.  The exception is a Generic object taken from a
\* list whose counts wrap around when it is taken (workload_params.hpp:518).
THEOREM ObjectsPassOn == Spec => []RoundTrip
<1>1. PInvPlain => RoundTrip
  BY InvariantMeans DEF PInv
<1> QED
  BY <1>1, Invariance, PTL

-----------------------------------------------------------------------------
(* A Generic object and its two lists of lengths.                          *)

\* What the lists are of.
Shown ==
    /\ inputLengths \in Seq(Word) /\ resultLengths \in Seq(Word)
    /\ ~HasLengths => inputLengths = <<>> /\ resultLengths = <<>>
    /\ HasLengths =>
          /\ Len(inputLengths) = n(params)
          /\ Len(resultLengths) = m(params)
          /\ \A i \in 1 .. n(params) : inputLengths[i] = params[2 + i].bits
          /\ \A i \in 1 .. m(params) :
                resultLengths[i] = params[2 + n(params) + i].bits

LEMMA PartShown ==
    ASSUME NEW ps \in Seq(Param), NEW first \in Nat, NEW count \in Nat,
           first + count <= Len(ps)
    PROVE  /\ Part(ps, first, count) \in Seq(Word)
           /\ Len(Part(ps, first, count)) = count
           /\ \A i \in 1 .. count :
                 Part(ps, first, count)[i] = ps[first + i].bits
<1>1. \A i \in 1 .. count : ps[first + i].bits \in Word
  <2> SUFFICES ASSUME NEW i \in 1 .. count PROVE ps[first + i].bits \in Word
    OBVIOUS
  <2>1. first + i \in 1 .. Len(ps)
    OBVIOUS
  <2>2. ps[first + i] \in Param
    BY <2>1, ElementOfSeq
  <2> QED
    BY <2>2 DEF Param
<1> QED
  BY <1>1 DEF Part

LEMMA LengthsShown == PInvPlain => Shown
<1> SUFFICES ASSUME PInvPlain PROVE Shown
  OBVIOUS
<1>1. CASE ~HasLengths
  BY <1>1 DEF Shown, inputLengths, resultLengths
<1>2. CASE HasLengths
  <2>1. /\ n(params) \in Nat /\ m(params) \in Nat /\ Len(params) \in Nat
        /\ n(params) + m(params) + 2 <= Len(params)
        /\ params \in Seq(Param)
    BY <1>2, GenericCounts DEF PInvPlain
  <2>2. /\ 2 + n(params) <= Len(params)
        /\ 2 + n(params) + m(params) <= Len(params)
    BY <2>1
  <2>3. /\ inputLengths = Part(params, 2, n(params))
        /\ resultLengths = Part(params, 2 + n(params), m(params))
    BY <1>2 DEF inputLengths, resultLengths
  <2>4. /\ inputLengths \in Seq(Word) /\ Len(inputLengths) = n(params)
        /\ \A i \in 1 .. n(params) : inputLengths[i] = params[2 + i].bits
    BY <2>1, <2>2, <2>3, PartShown
  <2>5. /\ resultLengths \in Seq(Word) /\ Len(resultLengths) = m(params)
        /\ \A i \in 1 .. m(params) :
              resultLengths[i] = params[2 + n(params) + i].bits
    <3>1. 2 + n(params) \in Nat
      BY <2>1
    <3> QED
      BY <2>1, <2>2, <2>3, <3>1, PartShown
  <2> QED
    BY <1>2, <2>4, <2>5 DEF Shown
<1> QED
  BY <1>1, <1>2

LEMMA LengthsShownAfter == PInvPlain' => Shown'
BY LengthsShown, PTL

\* An object that has lengths and keeps its bits keeps them, and one that has
\* none gets none.
LEMMA LengthsKept ==
    ASSUME PInvPlain, PInvPlain', kind' = kind, wrapped' = wrapped,
           HasLengths =>
              \A i \in 1 .. Len(params) : params'[i].bits = params[i].bits
    PROVE  UNCHANGED <<inputLengths, resultLengths>>
<1>1. Shown /\ Shown' /\ (HasLengths' <=> HasLengths)
  BY LengthsShown, LengthsShownAfter DEF HasLengths
<1>2. CASE ~HasLengths
  BY <1>1, <1>2 DEF Shown
<1>3. CASE HasLengths
  <2>1. /\ n(params) \in Nat /\ m(params) \in Nat /\ Len(params) \in Nat
        /\ n(params) + m(params) + 2 <= Len(params)
    BY <1>3, GenericCounts
  <2>2. n(params') = n(params) /\ m(params') = m(params)
    BY <1>3, <2>1 DEF n, m
  <2>3. /\ inputLengths \in Seq(Word) /\ inputLengths' \in Seq(Word)
        /\ Len(inputLengths) = n(params) /\ Len(inputLengths') = n(params)
        /\ resultLengths \in Seq(Word) /\ resultLengths' \in Seq(Word)
        /\ Len(resultLengths) = m(params) /\ Len(resultLengths') = m(params)
    BY <1>1, <1>3, <2>2 DEF Shown
  <2>4. ASSUME NEW i \in 1 .. n(params)
        PROVE  inputLengths'[i] = inputLengths[i]
    <3>1. inputLengths'[i] = params'[2 + i].bits
      BY <1>1, <1>3, <2>2 DEF Shown
    <3>2. inputLengths[i] = params[2 + i].bits
      BY <1>1, <1>3 DEF Shown
    <3>3. 2 + i \in 1 .. Len(params)
      BY <2>1
    <3> QED
      BY <1>3, <3>1, <3>2, <3>3
  <2>5. ASSUME NEW i \in 1 .. m(params)
        PROVE  resultLengths'[i] = resultLengths[i]
    <3>1. resultLengths'[i] = params'[2 + n(params) + i].bits
      BY <1>1, <1>3, <2>2 DEF Shown
    <3>2. resultLengths[i] = params[2 + n(params) + i].bits
      BY <1>1, <1>3 DEF Shown
    <3>3. 2 + n(params) + i \in 1 .. Len(params)
      BY <2>1
    <3> QED
      BY <1>3, <3>1, <3>2, <3>3
  <2>6. inputLengths' = inputLengths
    BY <2>3, <2>4, SeqEqual
  <2>7. resultLengths' = resultLengths
    BY <2>3, <2>5, SeqEqual
  <2> QED
    BY <2>6, <2>7
<1> QED
  BY <1>2, <1>3

\* Writing to the parameter of a length changes that length and no other.
LEMMA InputWritten ==
    ASSUME PInvPlain, PInvPlain', HasLengths, NEW v \in Word,
           NEW i \in Nat, i < n(params), BitsWritten(i + 3, v)
    PROVE  /\ i < Len(inputLengths)
           /\ inputLengths' = [inputLengths EXCEPT ![i + 1] = v]
           /\ inputLengths'[i + 1] = v
           /\ resultLengths' = resultLengths
<1>1. Shown /\ Shown' /\ HasLengths'
  BY LengthsShown, LengthsShownAfter DEF BitsWritten, HasLengths
<1>2. /\ n(params) \in Nat /\ m(params) \in Nat /\ Len(params) \in Nat
      /\ n(params) + m(params) + 2 <= Len(params)
  BY GenericCounts
<1>3. \A j \in 1 .. Len(params) :
         params'[j].bits = IF j = i + 3 THEN v ELSE params[j].bits
  BY DEF BitsWritten
<1>4. n(params') = n(params) /\ m(params') = m(params)
  BY <1>2, <1>3 DEF n, m
<1>5. /\ inputLengths \in Seq(Word) /\ inputLengths' \in Seq(Word)
      /\ Len(inputLengths) = n(params) /\ Len(inputLengths') = n(params)
      /\ resultLengths \in Seq(Word) /\ resultLengths' \in Seq(Word)
      /\ Len(resultLengths) = m(params) /\ Len(resultLengths') = m(params)
  BY <1>1, <1>4 DEF Shown
<1>6. ASSUME NEW j \in 1 .. n(params)
      PROVE  inputLengths'[j] = IF j = i + 1 THEN v ELSE inputLengths[j]
  <2>1. inputLengths'[j] = params'[2 + j].bits
    BY <1>1, <1>4 DEF Shown
  <2>2. inputLengths[j] = params[2 + j].bits
    BY <1>1 DEF Shown
  <2>3. 2 + j \in 1 .. Len(params) /\ (2 + j = i + 3 <=> j = i + 1)
    BY <1>2
  <2> QED
    BY <1>3, <2>1, <2>2, <2>3
<1>7. ASSUME NEW j \in 1 .. m(params)
      PROVE  resultLengths'[j] = resultLengths[j]
  <2>1. resultLengths'[j] = params'[2 + n(params) + j].bits
    BY <1>1, <1>4 DEF Shown
  <2>2. resultLengths[j] = params[2 + n(params) + j].bits
    BY <1>1 DEF Shown
  <2>3. 2 + n(params) + j \in 1 .. Len(params) /\ 2 + n(params) + j # i + 3
    BY <1>2
  <2> QED
    BY <1>3, <2>1, <2>2, <2>3
<1>8. i + 1 \in 1 .. n(params)
  BY <1>2
<1>9. inputLengths' = [inputLengths EXCEPT ![i + 1] = v]
  <2> DEFINE f == [inputLengths EXCEPT ![i + 1] = v]
  <2>1. /\ f \in Seq(Word) /\ Len(f) = n(params)
        /\ \A j \in 1 .. n(params) :
              f[j] = IF j = i + 1 THEN v ELSE inputLengths[j]
    BY <1>5, <1>8, ExceptSeq
  <2> HIDE DEF f
  <2>2. inputLengths' = f
    BY <1>5, <1>6, <2>1, SeqEqual
  <2> QED
    BY <2>2 DEF f
<1>10. resultLengths' = resultLengths
  BY <1>5, <1>7, SeqEqual
<1> QED
  BY <1>5, <1>6, <1>8, <1>9, <1>10

LEMMA ResultWritten ==
    ASSUME PInvPlain, PInvPlain', HasLengths, NEW v \in Word,
           NEW i \in Nat, i < m(params), BitsWritten(i + n(params) + 3, v)
    PROVE  /\ i < Len(resultLengths)
           /\ resultLengths' = [resultLengths EXCEPT ![i + 1] = v]
           /\ resultLengths'[i + 1] = v
           /\ inputLengths' = inputLengths
<1>1. Shown /\ Shown' /\ HasLengths'
  BY LengthsShown, LengthsShownAfter DEF BitsWritten, HasLengths
<1>2. /\ n(params) \in Nat /\ m(params) \in Nat /\ Len(params) \in Nat
      /\ n(params) + m(params) + 2 <= Len(params)
  BY GenericCounts
<1>3. \A j \in 1 .. Len(params) :
         params'[j].bits = IF j = i + n(params) + 3 THEN v ELSE params[j].bits
  BY DEF BitsWritten
<1>4. n(params') = n(params) /\ m(params') = m(params)
  BY <1>2, <1>3 DEF n, m
<1>5. /\ inputLengths \in Seq(Word) /\ inputLengths' \in Seq(Word)
      /\ Len(inputLengths) = n(params) /\ Len(inputLengths') = n(params)
      /\ resultLengths \in Seq(Word) /\ resultLengths' \in Seq(Word)
      /\ Len(resultLengths) = m(params) /\ Len(resultLengths') = m(params)
  BY <1>1, <1>4 DEF Shown
<1>6. ASSUME NEW j \in 1 .. m(params)
      PROVE  resultLengths'[j] = IF j = i + 1 THEN v ELSE resultLengths[j]
  <2>1. resultLengths'[j] = params'[2 + n(params) + j].bits
    BY <1>1, <1>4 DEF Shown
  <2>2. resultLengths[j] = params[2 + n(params) + j].bits
    BY <1>1 DEF Shown
  <2>3. /\ 2 + n(params) + j \in 1 .. Len(params)
        /\ 2 + n(params) + j = i + n(params) + 3 <=> j = i + 1
    BY <1>2
  <2> QED
    BY <1>3, <2>1, <2>2, <2>3
<1>7. ASSUME NEW j \in 1 .. n(params)
      PROVE  inputLengths'[j] = inputLengths[j]
  <2>1. inputLengths'[j] = params'[2 + j].bits
    BY <1>1, <1>4 DEF Shown
  <2>2. inputLengths[j] = params[2 + j].bits
    BY <1>1 DEF Shown
  <2>3. 2 + j \in 1 .. Len(params) /\ 2 + j # i + n(params) + 3
    BY <1>2
  <2> QED
    BY <1>3, <2>1, <2>2, <2>3
<1>8. i + 1 \in 1 .. m(params)
  BY <1>2
<1>9. resultLengths' = [resultLengths EXCEPT ![i + 1] = v]
  <2> DEFINE f == [resultLengths EXCEPT ![i + 1] = v]
  <2>1. /\ f \in Seq(Word) /\ Len(f) = m(params)
        /\ \A j \in 1 .. m(params) :
              f[j] = IF j = i + 1 THEN v ELSE resultLengths[j]
    BY <1>5, <1>8, ExceptSeq
  <2> HIDE DEF f
  <2>2. resultLengths' = f
    BY <1>5, <1>6, <2>1, SeqEqual
  <2> QED
    BY <2>2 DEF f
<1>10. inputLengths' = inputLengths
  BY <1>5, <1>7, SeqEqual
<1> QED
  BY <1>5, <1>6, <1>8, <1>9, <1>10

-----------------------------------------------------------------------------
(* Every call is one of the lists of lengths, or changes none of them.     *)

Stays == UNCHANGED <<inputLengths, resultLengths>>

LEMMA RefusalStays ==
    ASSUME PInvPlain, UNCHANGED <<kind, params, wrapped>>
    PROVE  PInvPlain' /\ Stays
<1>1. PInvPlain'
  BY DEF PInvPlain
<1> QED
  BY <1>1, LengthsKept DEF Stays

LEMMA EndedCall ==
    \A call, i, status, v : Ended(call, i, status, v).call = call
BY DEF Ended

LEMMA DoneObject == promised' = Promised!Done("Object") <=>
                    (wrapped' \/ answer' = Done("Object"))
BY DEF promised, Done, Ended, Promised!Done, Promised!Ended

\* What is said of no length is said with the lengths kept.
LEMMA CallKeeps ==
    ASSUME Stays, answer'.call \in {"Object", "Counts", "Parameter"}
    PROVE  Promised!Keep
BY DEF Stays, Promised!Keep, promised, Done, Ended

LEMMA RefusalKeeps ==
    ASSUME PInvPlain, NEW call \in {"Object", "Counts", "Parameter"},
           NEW i, NEW status, Refused(call, i, status)
    PROVE  Promised!Keep
<1>1. Stays
  BY RefusalStays DEF Refused
<1>2. answer'.call = call
  BY DEF Refused, Ended
<1> QED
  BY <1>1, <1>2, CallKeeps

\* An object of which the counts wrapped around keeps having no lengths, and
\* nothing it answers is promised.
LEMMA WrappedKept ==
    ASSUME PInvPlain, PInvPlain', wrapped, wrapped'
    PROVE  Promised!Keep
BY DEF HasLengths, inputLengths, resultLengths, promised, Promised!Keep, Done,
       Ended

LEMMA ObjectTaken ==
    ASSUME PInvPlain', answer' = Done("Object")
    PROVE  Promised!Take
BY LengthsShownAfter, DoneObject DEF Shown, Promised!Take

LEMMA CountsTaken ==
    ASSUME PInvPlain, MakeGeneric
    PROVE  Promised!New \/ Promised!Keep
<1>1. ASSUME NEW in \in Counts, NEW out \in Counts,
             SetPlaces(in, out) \subseteq 0 .. GenericSize(in, out) - 1,
             Becomes("Generic", GenericList(in, out), "Counts")
      PROVE  Promised!New
  <2>1. in \in Word /\ out \in Word /\ in \in Nat /\ out \in Nat
    BY Numbers
  <2>2. /\ kind' = "Generic" /\ params' = GenericList(in, out)
        /\ wrapped' = FALSE /\ answer' = Done("Counts") /\ HasLengths'
    BY <1>1 DEF Becomes, HasLengths
  <2>3. /\ params' \in Seq(Param) /\ n(params') = in /\ m(params') = out
        /\ \A i \in 3 .. in + out + 2 : params'[i].bits = 1
    BY <1>1, <2>1, <2>2, NewGeneric
  <2>4. Shown'
    BY MakeGenericPreserves, LengthsShownAfter
  <2>5. /\ inputLengths' \in Seq(Word) /\ Len(inputLengths') = in
        /\ \A i \in 1 .. in : inputLengths'[i] = params'[2 + i].bits
        /\ resultLengths' \in Seq(Word) /\ Len(resultLengths') = out
        /\ \A i \in 1 .. out : resultLengths'[i] = params'[2 + in + i].bits
    BY <2>2, <2>3, <2>4 DEF Shown
  <2>6. ASSUME NEW i \in 1 .. in PROVE inputLengths'[i] = 1
    <3>1. 2 + i \in 3 .. in + out + 2
      BY <2>1
    <3> QED
      BY <2>3, <2>5, <3>1
  <2>7. ASSUME NEW i \in 1 .. out PROVE resultLengths'[i] = 1
    <3>1. 2 + in + i \in 3 .. in + out + 2
      BY <2>1
    <3> QED
      BY <2>3, <2>5, <3>1
  <2>8. ASSUME NEW s \in Seq(Word), \A i \in 1 .. Len(s) : s[i] = 1
        PROVE  s \in Seq({1})
    BY <2>8
  <2>9. inputLengths' \in Seq({1}) /\ resultLengths' \in Seq({1})
    BY <2>5, <2>6, <2>7, <2>8
  <2>10. promised' = Promised!Done("Counts")
    BY <2>2 DEF promised, Done, Ended, Promised!Done, Promised!Ended
  <2> QED
    BY <2>9, <2>10 DEF Promised!New
<1>2. ASSUME NEW status, Refused("Counts", 0, status)
      PROVE  Promised!Keep
  BY <1>2, RefusalKeeps
<1> QED
  BY <1>1, <1>2 DEF MakeGeneric

\* A parameter that is not a length, or not of a Generic object's.
LEMMA ParameterKept ==
    ASSUME PInvPlain, NEW i,
           Add \/ (i \in Asked /\ (Set(i) \/ Get(i) \/ Field(i)))
    PROVE  Promised!Keep
<1>1. ASSUME NEW j, NEW status, Refused("Parameter", j, status)
      PROVE  Promised!Keep
  BY <1>1, RefusalKeeps
<1>2. ASSUME NEW j, Stays, answer' = Parameter(j)
      PROVE  Promised!Keep
  <2>1. answer'.call = "Parameter"
    BY <1>2, EndedCall, Zenon DEF Parameter
  <2> QED
    BY <1>2, <2>1, CallKeeps
<1>3. CASE Add
  <2>1. PInvPlain' /\ kind' = kind /\ wrapped' = wrapped
        /\ \A j \in 1 .. Len(params) : params'[j].bits = params[j].bits
    BY <1>3, AddPreserves
  <2>2. Stays
    BY <2>1, LengthsKept DEF Stays
  <2>3. answer' = Parameter(Len(params))
    BY <1>3 DEF Add
  <2> QED
    BY <1>2, <2>2, <2>3
<1>4. CASE i \in Asked /\ Set(i)
  <2>1. PInvPlain' /\ kind' = kind /\ wrapped' = wrapped /\ ~HasLengths
    BY <1>4, SetPreserves DEF HasLengths
  <2>2. Stays
    BY <2>1, LengthsKept DEF Stays
  <2>3. Refused("Parameter", i, "out_of_range") \/ answer' = Parameter(i)
    BY <1>4 DEF Set
  <2> QED
    BY <1>1, <1>2, <2>2, <2>3
<1>5. CASE Get(i)
  <2>1. \/ Refused("Parameter", i, "out_of_range")
        \/ UNCHANGED <<kind, params, wrapped>> /\ answer' = Parameter(i)
    BY <1>5 DEF Get
  <2> QED
    BY <1>1, <1>2, <2>1, RefusalStays
<1>6. CASE i \in Asked /\ Field(i)
  <2>1. PInvPlain' /\ kind' = kind /\ wrapped' = wrapped /\ ~HasLengths
    BY <1>6, FieldPreserves, Kinds DEF HasLengths
  <2>2. Stays
    BY <2>1, LengthsKept DEF Stays
  <2> QED
    BY <1>2, <1>6, <2>2 DEF Field
<1> QED
  BY <1>3, <1>4, <1>5, <1>6

LEMMA InputAnswered ==
    ASSUME PInvPlain, ~wrapped, NEW i \in Asked, length_InputParam(i)
    PROVE  Promised!Input(i) \/ Promised!NoSuch(i)
<1>1. HasLengths /\ i \in Nat /\ n(params) \in Nat
      /\ Len(inputLengths) = n(params)
  BY Numbers, GenericCounts, LengthsShown
     DEF length_InputParam, Shown, HasLengths
<1>2. CASE i >= n(params) /\ Refused("Input", i, "out_of_range")
  BY <1>1, <1>2, RefusalStays
     DEF Refused, Stays, promised, Promised!NoSuch, Ended, Promised!Ended
<1>3. CASE /\ i < n(params) /\ PInvPlain'
           /\ Answered("Input", i, i + 3)
  <2>1. PICK v \in Word : /\ BitsWritten(i + 3, v)
                          /\ answer' = Ended("Input", i, "ok", v)
    BY <1>3 DEF Answered
  <2>2. /\ i < Len(inputLengths)
        /\ inputLengths' = [inputLengths EXCEPT ![i + 1] = v]
        /\ inputLengths'[i + 1] = v
        /\ resultLengths' = resultLengths
    BY <1>1, <1>3, <2>1, InputWritten
  <2>3. promised' = Promised!Ended("Input", i, "ok", inputLengths'[i + 1])
    BY <2>1, <2>2 DEF BitsWritten, promised, Ended, Promised!Ended
  <2> QED
    BY <2>2, <2>3 DEF Promised!Input
<1> QED
  BY <1>2, <1>3, InputLooks

LEMMA ResultAnswered ==
    ASSUME PInvPlain, ~wrapped, NEW i \in Asked, length_ResultComponent(i)
    PROVE  Promised!Result(i) \/ Promised!NoSuch(i)
<1>1. HasLengths /\ i \in Nat /\ m(params) \in Nat
      /\ Len(resultLengths) = m(params)
  BY Numbers, GenericCounts, LengthsShown
     DEF length_ResultComponent, Shown, HasLengths
<1>2. CASE i >= m(params) /\ Refused("Result", i, "out_of_range")
  BY <1>1, <1>2, RefusalStays
     DEF Refused, Stays, promised, Promised!NoSuch, Ended, Promised!Ended
<1>3. CASE /\ i < m(params) /\ PInvPlain'
           /\ Answered("Result", i, i + n(params) + 3)
  <2>1. PICK v \in Word : /\ BitsWritten(i + n(params) + 3, v)
                          /\ answer' = Ended("Result", i, "ok", v)
    BY <1>3 DEF Answered
  <2>2. /\ i < Len(resultLengths)
        /\ resultLengths' = [resultLengths EXCEPT ![i + 1] = v]
        /\ resultLengths'[i + 1] = v
        /\ inputLengths' = inputLengths
    BY <1>1, <1>3, <2>1, ResultWritten
  <2>3. promised' = Promised!Ended("Result", i, "ok", resultLengths'[i + 1])
    BY <2>1, <2>2 DEF BitsWritten, promised, Ended, Promised!Ended
  <2> QED
    BY <2>2, <2>3 DEF Promised!Result
<1> QED
  BY <1>2, <1>3, ResultLooks

LEMMA ConstInputAnswered ==
    ASSUME PInvPlain, ~wrapped, NEW i \in Asked, length_InputParamConst(i)
    PROVE  Promised!ConstInput(i) \/ Promised!NoSuchConst(i)
<1>1. HasLengths /\ i \in Nat /\ n(params) \in Nat
      /\ Len(inputLengths) = n(params)
  BY Numbers, GenericCounts, LengthsShown
     DEF length_InputParamConst, Shown, HasLengths
<1>2. CASE i >= n(params) /\ Refused("ConstInput", i, "out_of_range")
  BY <1>1, <1>2, RefusalStays
     DEF Refused, Stays, promised, Promised!NoSuchConst, Promised!Unspecified, Ended,
         Promised!Ended
<1>3. CASE /\ i <= n(params) /\ PInvPlain' /\ params' = params
           /\ Answered("ConstInput", i, i + 3)
  <2>1. PICK v \in Word : /\ BitsWritten(i + 3, v)
                          /\ answer' = Ended("ConstInput", i, "ok", v)
    BY <1>3 DEF Answered
  <2>2. Stays
    BY <1>3, <2>1, RefusalStays DEF BitsWritten
  <2>3. CASE i < n(params)
    <3>1. inputLengths'[i + 1] = v
      BY <1>1, <1>3, <2>1, <2>3, InputWritten
    <3>2. promised' = Promised!Ended("ConstInput", i, "ok", inputLengths[i + 1])
      BY <2>1, <2>2, <3>1 DEF BitsWritten, promised, Stays, Ended, Promised!Ended
    <3> QED
      BY <1>1, <2>2, <2>3, <3>2 DEF Stays, Promised!ConstInput
  <2>4. CASE i = n(params)
    <3>1. promised' \in Promised!Unspecified(i)
      BY <2>1 DEF BitsWritten, promised, Promised!Unspecified, Ended, Promised!Ended
    <3> QED
      BY <1>1, <2>2, <2>4, <3>1 DEF Stays, Promised!NoSuchConst
  <2> QED
    BY <1>1, <1>3, <2>3, <2>4
<1> QED
  BY <1>2, <1>3, ConstInputLooks

\* So is every step from an object taken from a list whose counts wrapped
\* around, and to one.
LEMMA WrappedStep ==
    ASSUME PInvPlain, Next, wrapped \/ wrapped'
    PROVE  Promised!LengthsNext
<1>1. PInvPlain'
  BY StepPreserves
<1>2. ASSUME wrapped, wrapped'
      PROVE  Promised!LengthsNext
  BY <1>1, <1>2, WrappedKept DEF Promised!LengthsNext
<1>3. ASSUME answer' = Done("Object")
      PROVE  Promised!LengthsNext
  BY <1>1, <1>3, ObjectTaken DEF Promised!LengthsNext
<1>4. CASE MakeCommon \/ MakeFixed
  BY <1>3, <1>4 DEF MakeCommon, MakeFixed, Becomes
<1>5. CASE MakeGeneric
  BY <1>5, CountsTaken DEF Promised!LengthsNext
<1>6. ASSUME NEW k \in Kind, MakeFrom(k)
      PROVE  Promised!LengthsNext
  BY <1>3, <1>6, RefusalKeeps DEF MakeFrom, Promised!LengthsNext
<1>7. CASE Add
  BY <1>2, <1>7 DEF Add
<1>8. ASSUME NEW i \in Asked,
             \/ Set(i) \/ Get(i) \/ Field(i)
             \/ length_InputParamConst(i) \/ length_InputParam(i)
             \/ length_ResultComponent(i)
      PROVE  wrapped' = wrapped
  BY <1>8 DEF Set, Get, Field, length_InputParamConst, length_InputParam,
              length_ResultComponent, Look, Refused
<1> QED
  BY <1>2, <1>4, <1>5, <1>6, <1>7, <1>8 DEF Next

LEMMA LengthsStep ==
    ASSUME PInvPlain, [Next]_paramVars
    PROVE  [Promised!LengthsNext]_(Promised!lengthVars)
<1>1. CASE UNCHANGED paramVars
  BY <1>1, RefusalStays DEF paramVars, Stays, promised, Promised!lengthVars
<1>2. CASE Next /\ (wrapped \/ wrapped')
  BY <1>2, WrappedStep
<1>3. ASSUME ~wrapped, ~wrapped', Next
      PROVE  Promised!LengthsNext
  <2>1. CASE MakeCommon \/ MakeFixed
    <3>1. PInvPlain' /\ answer' = Done("Object")
      BY <2>1, MakeCommonPreserves, MakeFixedPreserves
         DEF MakeCommon, MakeFixed, Becomes
    <3> QED
      BY <3>1, ObjectTaken DEF Promised!LengthsNext
  <2>2. CASE MakeGeneric
    BY <2>2, CountsTaken DEF Promised!LengthsNext
  <2>3. ASSUME NEW k \in Kind, MakeFrom(k)
        PROVE  Promised!LengthsNext
    <3>1. CASE answer' = Done("Object")
      BY <2>3, <3>1, MakeFromPreserves, ObjectTaken DEF Promised!LengthsNext
    <3>2. ASSUME NEW status, Refused("Object", 0, status)
          PROVE  Promised!LengthsNext
      BY <3>2, RefusalKeeps DEF Promised!LengthsNext
    <3> QED
      BY <2>3, <3>1, <3>2 DEF MakeFrom
  <2>4. CASE Add
    BY <2>4, ParameterKept DEF Promised!LengthsNext
  <2>5. ASSUME NEW i \in Asked, Set(i) \/ Get(i) \/ Field(i)
        PROVE  Promised!LengthsNext
    BY <2>5, ParameterKept DEF Promised!LengthsNext
  <2>6. ASSUME NEW i \in Asked,
               \/ length_InputParamConst(i)
               \/ length_InputParam(i)
               \/ length_ResultComponent(i)
        PROVE  Promised!LengthsNext
    BY <1>3, <2>6, ConstInputAnswered, InputAnswered, ResultAnswered
       DEF Promised!LengthsNext
  <2> QED
    BY <1>3, <2>1, <2>2, <2>3, <2>4, <2>5, <2>6 DEF Next
<1> QED
  BY <1>1, <1>2, <1>3

\* A Generic object is two lists of lengths that have nothing to do with each
\* other, for any width of the word and any words as counts, values and places,
\* and however it was made, written to and passed on.  The exception is one
\* taken from a list whose counts wrap around (workload_params.hpp:518): it is
\* too short for the lengths it speaks of, until another takes its place.
THEOREM GenericIsTwoLists == Spec => ImplementsLengths
<1>1. Init => Promised!LengthsInit
  BY DEF Init, HasLengths, inputLengths, resultLengths, promised,
     Promised!LengthsInit, Done, Ended,
     Promised!Done, Promised!Ended
<1>2. PInvPlain /\ [Next]_paramVars =>
         [Promised!LengthsNext]_(Promised!lengthVars)
  BY LengthsStep
<1> QED
  BY <1>1, <1>2, Invariance, PTL
     DEF Spec, ImplementsLengths, Promised!LengthsSpec
=============================================================================
