-------------------------- MODULE DiagnosticsProofs --------------------------
(***************************************************************************)
(* The invariants of the texts and of the size-then-fetch calls, for any   *)
(* texts, engines, names and codes.                                        *)
(***************************************************************************)
EXTENDS Diagnostics, TLAPS

\* The client's question still has the answer it was given: it concerns an
\* engine the client holds, and the name is what it was.
AskedSound ==
    asked # None /\ asked.call.fn = "name" /\ asked.call.e # None =>
       /\ asked.call.e \in engines
       /\ names[asked.call.e][asked.call.key] # NoText =>
             asked.size = Length[names[asked.call.e][asked.call.key]] + 1

IInv == TypeOK /\ AskedSound /\ WholeOrTold /\ NamesFetchedWhole

\* What a call returns is a text, or none.
LEMMA TextOfType ==
    ASSUME TypeOK, NEW call \in Call, Callable(call)
    PROVE  TextOf(call) \in Text \cup {NoText}
<1>1. getErrorDesc(call.key) \in Text \/ call.fn # "error"
  BY TextAssumption DEF getErrorDesc, TypeOK, Call
<1>2. call.fn = "name" /\ call.e # None =>
         names[call.e][call.key] \in Text \cup {NoText}
  BY DiagnosticsAssumption DEF TypeOK, Call, Callable
<1> QED
  BY <1>1, <1>2, TextAssumption DEF TextOf, TypeOK

\* copyString() answers with the size of the text, writes within the buffer,
\* and writes the whole text if and only if it fits.
LEMMA CopySound ==
    ASSUME NEW size \in Nat, NEW src \in Text
    PROVE  LET a == copyString(size, src) IN
           /\ a.returned = Length[src] + 1
           /\ a \in [returned : Nat, chars : Nat, of : Text \cup {NoText}]
           /\ a.of = IF size > 0 THEN src ELSE NoText
           /\ a.of # NoText => /\ a.chars + 1 <= size
                               /\ a.chars = Length[a.of] <=> a.returned <= size
<1>1. Length[src] \in Nat
  BY TextAssumption
<1> QED
  BY <1>1 DEF copyString

\* The same of the answer of any call, whether it fails or not.
LEMMA AnswerSound ==
    ASSUME TypeOK, NEW call \in Call, Callable(call), NEW size \in Nat
    PROVE  LET a == Answer(call, size) IN
           /\ a \in [returned : Nat, chars : Nat, of : Text \cup {NoText}]
           /\ a.of # NoText => /\ a.of = TextOf(call)
                               /\ a.chars + 1 <= size
                               /\ a.chars = Length[a.of] <=> a.returned <= size
                               /\ a.returned = Length[a.of] + 1
           /\ TextOf(call) # NoText => a.returned = Length[TextOf(call)] + 1
<1>1. TextOf(call) \in Text \cup {NoText}
  BY TextOfType
<1>2. CASE TextOf(call) = NoText
  BY <1>2 DEF Answer, Failure, CRITICAL
<1>3. CASE TextOf(call) # NoText
  <2> DEFINE a == copyString(size, TextOf(call))
  <2>1. TextOf(call) \in Text /\ Answer(call, size) = a
    BY <1>1, <1>3 DEF Answer
  <2> QED
    BY <2>1, <1>3, CopySound
<1> QED
  BY <1>2, <1>3

\* A call that fails leaves a text as the last error.
LEMMA FailingType ==
    ASSUME TypeOK, NEW call, Failing(call)
    PROVE  lastText' \in Text
BY DEF TypeOK, Failing

\* What a fetch brings satisfies the two properties of fetches.
LEMMA FetchedSound ==
    ASSUME TypeOK, NEW call \in Call, Callable(call), NEW size \in Nat,
           NEW sized \in BOOLEAN,
           sized /\ call.fn = "name" /\ TextOf(call) # NoText
              => size = Length[TextOf(call)] + 1,
           got' = [call |-> call, size |-> size, sized |-> sized,
                   answer |-> Answer(call, size)]
    PROVE  /\ WholeOrTold' /\ NamesFetchedWhole'
           /\ got'.call \in Call /\ got'.size \in Nat /\ got'.sized \in BOOLEAN
           /\ got'.answer \in [returned : Nat, chars : Nat,
                               of : Text \cup {NoText}]
<1> DEFINE a == Answer(call, size)
<1>1. /\ got'.call = call /\ got'.size = size /\ got'.sized = sized
      /\ got'.answer = a
  OBVIOUS
<1>2. a \in [returned : Nat, chars : Nat, of : Text \cup {NoText}]
  BY AnswerSound
<1>3. a.of # NoText =>
         /\ a.of = TextOf(call)
         /\ a.chars + 1 <= size
         /\ a.chars = Length[a.of] <=> a.returned <= size
         /\ a.returned = Length[a.of] + 1
  BY AnswerSound
<1>4. WholeOrTold'
  BY <1>1, <1>3 DEF WholeOrTold
<1>5. NamesFetchedWhole'
  <2> SUFFICES ASSUME sized, call.fn = "name", a.of # NoText
               PROVE  a.chars = Length[a.of]
    BY <1>1 DEF NamesFetchedWhole
  <2>1. size = a.returned /\ a.returned \in Nat
    BY <1>2, <1>3
  <2> QED
    BY <1>3, <2>1
<1> QED
  BY <1>1, <1>2, <1>4, <1>5

\* Initialisation of an engine touches no name of an engine the client holds.
LEMMA InitStepPreserves ==
    ASSUME IInv,
           \/ \E e \in Engine : BeginInit(e)
           \/ \E c \in Code \ BaseCode, t \in Text : AddErrorCode(c, t)
           \/ \E n \in Name, t \in Text : AddName(n, t)
           \/ InitThrows
           \/ FinishInit
    PROVE  IInv'
<1> USE DiagnosticsAssumption, TextAssumption
<1>1. TypeOK'
  <2>1. ASSUME NEW e \in Engine, BeginInit(e) PROVE TypeOK'
    BY <2>1 DEF IInv, TypeOK, BeginInit, NoNames, statics, client
  <2>2. ASSUME NEW c \in Code, NEW t \in Text, AddErrorCode(c, t)
        PROVE  TypeOK'
    BY <2>2 DEF IInv, TypeOK, AddErrorCode, AbortInit, client
  <2>3. ASSUME NEW n \in Name, NEW t \in Text, AddName(n, t) PROVE TypeOK'
    BY <2>3 DEF IInv, TypeOK, AddName, AbortInit, statics, client
  <2>4. CASE InitThrows \/ FinishInit
    BY <2>4 DEF IInv, TypeOK, InitThrows, AbortInit, FinishInit, statics,
                client
  <2> QED
    BY <2>1, <2>2, <2>3, <2>4
<1>2. /\ UNCHANGED client /\ engines \subseteq engines'
      /\ \A e \in engines : names'[e] = names[e]
  <2>1. ASSUME NEW e \in Engine, BeginInit(e)
        PROVE  /\ UNCHANGED client /\ engines \subseteq engines'
               /\ \A x \in engines : names'[x] = names[x]
    BY <2>1 DEF IInv, TypeOK, BeginInit, client
  <2>2. ASSUME NEW c \in Code, NEW t \in Text, AddErrorCode(c, t)
        PROVE  UNCHANGED <<client, engines, names>>
    BY <2>2 DEF AddErrorCode, AbortInit, client
  <2>3. ASSUME NEW n \in Name, NEW t \in Text, AddName(n, t)
        PROVE  /\ UNCHANGED client /\ engines \subseteq engines'
               /\ \A x \in engines : names'[x] = names[x]
    BY <2>3 DEF IInv, TypeOK, AddName, AbortInit, client
  <2>4. CASE InitThrows \/ FinishInit
    BY <2>4 DEF InitThrows, AbortInit, FinishInit, client
  <2> QED
    BY <2>1, <2>2, <2>3, <2>4
<1>3. AskedSound'
  BY <1>2 DEF IInv, AskedSound, client
<1>4. WholeOrTold' /\ NamesFetchedWhole'
  BY <1>2 DEF IInv, WholeOrTold, NamesFetchedWhole, client
<1> QED
  BY <1>1, <1>3, <1>4 DEF IInv

\* Destroying an engine takes the question about it along.
LEMMA DestroyPreserves ==
    ASSUME IInv, NEW e \in Engine, DestroyEngine(e)
    PROVE  IInv'
<1>1. /\ UNCHANGED <<statics, names, building, added, got>>
      /\ engines' = engines \ {e}
      /\ asked' = None \/ asked' = asked
      /\ asked' # None => asked.call.e # e
  BY DEF DestroyEngine
<1>2. TypeOK'
  BY <1>1 DEF IInv, TypeOK, statics
<1>3. AskedSound'
  BY <1>1 DEF IInv, AskedSound
<1> QED
  BY <1>1, <1>2, <1>3 DEF IInv, WholeOrTold, NamesFetchedWhole

\* The first call notes the size that the second will get.
LEMMA AskPreserves ==
    ASSUME IInv, NEW call \in Call, Ask(call)
    PROVE  IInv'
<1>1. TypeOK /\ Callable(call) /\ 0 \in Nat
  BY DEF IInv, Ask
<1> DEFINE a == Answer(call, 0)
<1>2. /\ a.returned \in Nat
      /\ TextOf(call) # NoText => a.returned = Length[TextOf(call)] + 1
  BY <1>1, AnswerSound
<1>3. /\ asked' = [call |-> call, size |-> a.returned]
      /\ asked'.call = call /\ asked'.size = a.returned
      /\ lastText' \in Text
      /\ UNCHANGED <<errorDesc, names, engines, building, added, got>>
  BY <1>1, FailingType DEF Ask
<1>4. TypeOK'
  BY <1>1, <1>2, <1>3 DEF TypeOK
<1>5. AskedSound'
  <2>1. call.fn = "name" /\ call.e # None =>
           /\ call.e \in engines
           /\ TextOf(call) = names[call.e][call.key]
    BY <1>1 DEF Callable, TextOf
  <2> QED
    BY <1>2, <1>3, <2>1 DEF AskedSound
<1> QED
  BY <1>3, <1>4, <1>5 DEF IInv, WholeOrTold, NamesFetchedWhole

\* The second call of a pair.
LEMMA FetchPreserves ==
    ASSUME IInv, Fetch
    PROVE  IInv'
<1> DEFINE call == asked.call
<1>1. /\ TypeOK /\ AskedSound
      /\ call \in Call /\ Callable(call) /\ asked.size \in Nat
      /\ asked # None /\ asked' = None
      /\ got' = [call |-> call, size |-> asked.size, sized |-> TRUE,
                 answer |-> Answer(call, asked.size)]
      /\ Failing(call)
      /\ UNCHANGED <<errorDesc, names, engines, building, added>>
  BY DEF IInv, TypeOK, Fetch
<1>2. call.fn = "name" /\ TextOf(call) # NoText
         => asked.size = Length[TextOf(call)] + 1
  BY <1>1 DEF AskedSound, TextOf
<1>3. /\ WholeOrTold' /\ NamesFetchedWhole'
      /\ got'.call \in Call /\ got'.size \in Nat /\ got'.sized \in BOOLEAN
      /\ got'.answer \in [returned : Nat, chars : Nat,
                          of : Text \cup {NoText}]
  BY <1>1, <1>2, FetchedSound
<1>4. lastText' \in Text
  BY <1>1, FailingType
<1>5. TypeOK'
  BY <1>1, <1>3, <1>4 DEF TypeOK
<1> QED
  BY <1>1, <1>3, <1>5 DEF IInv, AskedSound

\* A call with a buffer of the client's own.
LEMMA FetchUnaskedPreserves ==
    ASSUME IInv, NEW call \in Call, NEW size \in ClientSize,
           FetchUnasked(call, size)
    PROVE  IInv'
<1>1. /\ TypeOK /\ AskedSound
      /\ Callable(call) /\ size \in Nat
      /\ got' = [call |-> call, size |-> size, sized |-> FALSE,
                 answer |-> Answer(call, size)]
      /\ Failing(call)
      /\ UNCHANGED <<errorDesc, names, engines, building, added, asked>>
  BY DiagnosticsAssumption DEF IInv, FetchUnasked
<1>2. /\ WholeOrTold' /\ NamesFetchedWhole'
      /\ got'.call \in Call /\ got'.size \in Nat /\ got'.sized \in BOOLEAN
      /\ got'.answer \in [returned : Nat, chars : Nat,
                          of : Text \cup {NoText}]
  BY <1>1, FetchedSound
<1>3. lastText' \in Text
  BY <1>1, FailingType
<1>4. TypeOK'
  BY <1>1, <1>2, <1>3 DEF TypeOK
<1> QED
  BY <1>1, <1>2, <1>4 DEF IInv, AskedSound
-----------------------------------------------------------------------------
\* The invariant holds in every reachable state.
THEOREM DiagnosticsInvariance == Spec => []IInv
<1>1. Init => IInv
  BY TextAssumption, DiagnosticsAssumption
     DEF Init, IInv, TypeOK, AskedSound, WholeOrTold, NamesFetchedWhole,
         NoNames
<1>2. IInv /\ [Next]_vars => IInv'
  <2> SUFFICES ASSUME IInv, [Next]_vars PROVE IInv'
    OBVIOUS
  <2>1. CASE UNCHANGED vars
    BY <2>1 DEF IInv, TypeOK, AskedSound, WholeOrTold, NamesFetchedWhole,
                vars, statics, client
  <2>2. ASSUME NEW e \in Engine, DestroyEngine(e) PROVE IInv'
    BY <2>2, DestroyPreserves
  <2>3. ASSUME NEW t \in Text, setLastError(t) PROVE IInv'
    BY <2>3 DEF setLastError, client, IInv, TypeOK, AskedSound, WholeOrTold,
                NamesFetchedWhole
  <2>4. ASSUME NEW call \in Call, Ask(call) PROVE IInv'
    BY <2>4, AskPreserves
  <2>5. ASSUME NEW call \in Call, NEW size \in ClientSize,
               FetchUnasked(call, size)
        PROVE  IInv'
    BY <2>5, FetchUnaskedPreserves
  <2>6. CASE Fetch
    BY <2>6, FetchPreserves
  <2> QED
    BY <2>1, <2>2, <2>3, <2>4, <2>5, <2>6, InitStepPreserves DEF Next
<1> QED
  BY <1>1, <1>2, PTL DEF Spec

\* Every text, name and answer is one of the backend or none, and an engine that
\* is being made is not one the client has.
THEOREM DiagnosticsTypes == Spec => []TypeOK
<1>1. IInv => TypeOK
  BY DEF IInv
<1> QED
  BY <1>1, DiagnosticsInvariance, PTL

\* No fetch overruns its buffer, and its result tells whether it is whole.
THEOREM FetchesAreHonest == Spec => []WholeOrTold
<1>1. IInv => WholeOrTold
  BY DEF IInv
<1> QED
  BY <1>1, DiagnosticsInvariance, PTL

\* A name is fetched whole into a buffer of the size asked for before.
THEOREM NamesAreWhole == Spec => []NamesFetchedWhole
<1>1. IInv => NamesFetchedWhole
  BY DEF IInv
<1> QED
  BY <1>1, DiagnosticsInvariance, PTL

\* No step changes the description of a code that has one.
THEOREM DescriptionsStay == Spec => DescriptionsPersist
<1>1. TypeOK /\ [Next]_vars =>
         [\A c \in Code : errorDesc[c] # NoText => UNCHANGED errorDesc[c]]_vars
  <2> SUFFICES ASSUME TypeOK, [Next]_vars, NEW c \in Code,
                      errorDesc[c] # NoText
               PROVE  errorDesc'[c] = errorDesc[c]
    OBVIOUS
  <2>1. ASSUME NEW d \in Code, NEW t \in Text, AddErrorCode(d, t)
        PROVE  errorDesc'[c] = errorDesc[c]
    BY <2>1 DEF TypeOK, AddErrorCode, AbortInit
  <2>2. CASE \E e \in Engine : BeginInit(e) \/ DestroyEngine(e)
    BY <2>2 DEF BeginInit, DestroyEngine, statics
  <2>3. CASE \E n \in Name, t \in Text : AddName(n, t)
    BY <2>3 DEF AddName, AbortInit, statics
  <2>4. CASE InitThrows \/ FinishInit \/ \E t \in Text : setLastError(t)
    BY <2>4 DEF InitThrows, AbortInit, FinishInit, setLastError, statics
  <2>5. CASE \/ Fetch
             \/ \E call \in Call :
                   Ask(call) \/ \E size \in ClientSize :
                                   FetchUnasked(call, size)
    BY <2>5 DEF Fetch, Ask, FetchUnasked
  <2>6. CASE UNCHANGED vars
    BY <2>6 DEF vars, statics
  <2> QED
    BY <2>1, <2>2, <2>3, <2>4, <2>5, <2>6 DEF Next
<1>2. IInv => TypeOK
  BY DEF IInv
<1> QED
  BY <1>1, <1>2, DiagnosticsInvariance, PTL DEF Spec, DescriptionsPersist
=============================================================================
