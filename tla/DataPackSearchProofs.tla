------------------------ MODULE DataPackSearchProofs ------------------------
(***************************************************************************)
(* The search for a data pack, for collections of any size.  The loop's    *)
(* invariant: no pack before index i is for the position, unless retval    *)
(* is the first that is.                                                   *)
(***************************************************************************)
EXTENDS DataPackSearch, TLAPS

IsMatch(j) == PackAt(Packs, j) = param_position

\* The function has not left by way of the pack at its index.
LoopInv ==
    /\ ~parameters.null /\ ~AtItsIndex
    /\ retval = Count => \A j \in 0 .. i - 1 : ~IsMatch(j)
    /\ retval < Count => IsMatch(retval)
                         /\ \A j \in 0 .. retval - 1 : ~IsMatch(j)

IInv ==
    /\ TypeOK
    /\ pc = "start" => i = 0 /\ retval = Count
    /\ pc = "loop" => LoopInv
    /\ ResultIsMatch

\* The least index of a set, where there is one.
LEMMA MinIndexIs ==
    ASSUME NEW S \in SUBSET Nat, NEW k \in S, \A j \in S : k <= j
    PROVE  MinIndex(S) = k
<1>1. \A x \in S : (\A j \in S : x <= j) => x = k
  OBVIOUS
<1> QED
  BY <1>1 DEF MinIndex

\* The three outcomes of findDataPackIndex(), by what is in the collection.
LEMMA FoundAtIndex ==
    ASSUME TypeOK, AtItsIndex
    PROVE  findDataPackIndex(Packs, param_position) = param_position
<1>1. Len(Packs) = Count /\ Count \in Nat /\ param_position \in Nat
  BY SearchAssumption DEF TypeOK, WellFormed, Collection, Packs, Count
<1> QED
  BY <1>1 DEF findDataPackIndex, Matches, AtItsIndex

LEMMA FoundFirst ==
    ASSUME TypeOK, ~AtItsIndex, retval < Count, IsMatch(retval),
           \A j \in 0 .. retval - 1 : ~IsMatch(j)
    PROVE  findDataPackIndex(Packs, param_position) = retval
<1> DEFINE M == Matches(Packs, param_position)
<1>1. /\ Len(Packs) = Count /\ Count \in Nat /\ param_position \in Nat
      /\ retval \in Nat
  BY SearchAssumption DEF TypeOK, WellFormed, Collection, Packs, Count
<1>2. M = {j \in 0 .. Count - 1 : IsMatch(j)}
  BY <1>1 DEF Matches, IsMatch
<1>3. param_position \notin M
  BY <1>1, <1>2 DEF AtItsIndex, IsMatch
<1>4. /\ M \in SUBSET Nat /\ retval \in M
      /\ \A j \in M : retval <= j
  BY <1>1, <1>2
<1>5. MinIndex(M) = retval
  BY <1>4, MinIndexIs
<1> QED
  BY <1>3, <1>4, <1>5 DEF findDataPackIndex

LEMMA FoundNone ==
    ASSUME TypeOK, ~AtItsIndex, \A j \in 0 .. Count - 1 : ~IsMatch(j)
    PROVE  findDataPackIndex(Packs, param_position) = Count
<1>1. Len(Packs) = Count
  BY DEF TypeOK, WellFormed, Packs, Count
<1>2. Matches(Packs, param_position) = {}
  BY <1>1 DEF Matches, IsMatch
<1> QED
  BY <1>1, <1>2 DEF findDataPackIndex

\* The step to the loop or past it.
LEMMA StartPreserves ==
    ASSUME IInv, Start
    PROVE  IInv'
<1>1. /\ TypeOK /\ pc = "start" /\ i = 0 /\ retval = Count
      /\ UNCHANGED <<parameters, param_position, i>>
  BY DEF IInv, Start
<1>2. Count \in Nat /\ param_position \in Nat
  BY <1>1, SearchAssumption DEF TypeOK, Collection, Count
<1>3. CASE parameters.null /\ pc' = "done" /\ UNCHANGED retval
  BY <1>1, <1>3 DEF IInv, TypeOK, ResultIsMatch, Count
<1>4. CASE /\ ~parameters.null /\ AtItsIndex
           /\ retval' = param_position /\ pc' = "done"
  <2>1. findDataPackIndex(Packs, param_position) = param_position
    BY <1>1, <1>4, FoundAtIndex
  <2>2. ResultIsMatch'
    BY <1>1, <1>4, <2>1 DEF ResultIsMatch, Packs, Count
  <2>3. TypeOK'
    BY <1>1, <1>2, <1>4 DEF TypeOK, AtItsIndex, Count
  <2> QED
    BY <1>4, <2>2, <2>3 DEF IInv
<1>5. CASE ~parameters.null /\ ~AtItsIndex /\ pc' = "loop" /\ UNCHANGED retval
  <2>1. LoopInv'
    BY <1>1, <1>2, <1>5
       DEF LoopInv, AtItsIndex, IsMatch, Packs, Count, PackAt
  <2> QED
    BY <1>1, <1>5, <2>1 DEF IInv, TypeOK, ResultIsMatch, Count
<1> QED
  BY <1>3, <1>4, <1>5 DEF Start

\* One round of the loop.
LEMMA LoopPreserves ==
    ASSUME IInv, Loop
    PROVE  IInv'
<1>1. /\ TypeOK /\ LoopInv /\ pc = "loop" /\ retval >= Count /\ i < Count
      /\ retval' = IF IsMatch(i) THEN i ELSE retval
      /\ i' = i + 1
      /\ UNCHANGED <<parameters, param_position, pc>>
  BY DEF IInv, Loop, Searching, IsMatch
<1>2. /\ Count \in Nat /\ i \in Nat /\ retval = Count
      /\ Count' = Count /\ Packs' = Packs
  BY <1>1 DEF TypeOK, Collection, Count, Packs
<1>3. TypeOK'
  BY <1>1, <1>2 DEF TypeOK
<1>4. \A j : IsMatch(j)' <=> IsMatch(j)
  BY <1>1, <1>2 DEF IsMatch, PackAt
<1>5. \A j \in 0 .. i - 1 : ~IsMatch(j)
  BY <1>1, <1>2 DEF LoopInv
<1>6. LoopInv'
  <2>1. ~parameters'.null /\ ~AtItsIndex'
    BY <1>1, <1>2 DEF LoopInv, AtItsIndex
  <2>2. retval' = Count' => \A j \in 0 .. i' - 1 : ~IsMatch(j)'
    <3>1. SUFFICES ASSUME retval' = Count, NEW j \in 0 .. i PROVE ~IsMatch(j)
      BY <1>1, <1>2, <1>4
    <3>2. ~IsMatch(i)
      BY <1>1, <1>2, <3>1
    <3> QED
      BY <1>2, <1>5, <3>2
  <2>3. retval' < Count' => /\ PackAt(Packs', retval') = param_position'
                            /\ \A j \in 0 .. retval' - 1 : ~IsMatch(j)'
    <3>1. SUFFICES ASSUME retval' < Count
                   PROVE  /\ PackAt(Packs, retval') = param_position
                          /\ \A j \in 0 .. retval' - 1 : ~IsMatch(j)
      BY <1>1, <1>2, <1>4
    <3>2. IsMatch(i) /\ retval' = i
      BY <1>1, <1>2, <3>1
    <3> QED
      BY <1>5, <3>2 DEF IsMatch
  <2> QED
    BY <2>1, <2>2, <2>3 DEF LoopInv, IsMatch
<1> QED
  BY <1>1, <1>3, <1>6 DEF IInv, ResultIsMatch

\* The end of the loop.
LEMMA FinishPreserves ==
    ASSUME IInv, Finish
    PROVE  IInv'
<1>1. /\ retval < Count \/ ~(i < Count)
      /\ TypeOK /\ LoopInv /\ pc' = "done"
      /\ UNCHANGED <<parameters, param_position, i, retval>>
  BY DEF IInv, Finish, Searching, TypeOK, Collection, Count
<1>2. Count \in Nat /\ i \in 0 .. Count /\ retval \in 0 .. Count
  BY <1>1 DEF TypeOK, Collection, Count
<1>3. retval = findDataPackIndex(Packs, param_position)
  <2>1. CASE retval < Count
    BY <1>1, <2>1, FoundFirst DEF LoopInv
  <2>2. CASE retval = Count
    <3>1. i = Count
      BY <1>1, <1>2, <2>2
    <3> QED
      BY <1>1, <2>2, <3>1, FoundNone DEF LoopInv
  <2> QED
    BY <1>2, <2>1, <2>2
<1>4. ResultIsMatch'
  BY <1>1, <1>3 DEF ResultIsMatch, LoopInv, Packs
<1> QED
  BY <1>1, <1>4 DEF IInv, TypeOK, Count

\* The loop's invariant holds in every reachable state.
THEOREM SearchInvariance == Spec => []IInv
<1>1. Init => IInv
  <2> SUFFICES ASSUME Init PROVE IInv
    OBVIOUS
  <2>1. Count \in Nat
    BY SearchAssumption DEF Init, Collection, Count
  <2> QED
    BY <2>1 DEF Init, IInv, TypeOK, ResultIsMatch, Count
<1>2. IInv /\ [Next]_vars => IInv'
  <2> SUFFICES ASSUME IInv, [Next]_vars PROVE IInv'
    OBVIOUS
  <2>1. CASE UNCHANGED vars
    BY <2>1 DEF vars, IInv, TypeOK, LoopInv, ResultIsMatch, AtItsIndex,
                IsMatch, Packs, Count
  <2> QED
    BY <2>1, StartPreserves, LoopPreserves, FinishPreserves DEF Next
<1> QED
  BY <1>1, <1>2, PTL DEF Spec

\* The indices of the search stay in the collection, or are its size.
THEOREM SearchTypes == Spec => []TypeOK
<1>1. IInv => TypeOK
  BY DEF IInv
<1> QED
  BY <1>1, SearchInvariance, PTL

\* When the search returns, the result is the pack it is documented to be.
THEOREM SearchIsCorrect == Spec => []ResultIsMatch
<1>1. IInv => ResultIsMatch
  BY DEF IInv
<1> QED
  BY <1>1, SearchInvariance, PTL

\* How many more steps the function can take.
StepsLeft ==
    IF pc = "start" THEN Count + 2
    ELSE IF pc = "loop" THEN Count - i + 1
    ELSE 0

\* The search takes at most two steps more than there are packs: what is left
\* is a natural number and each step makes it smaller, also the ones that
\* find nothing.  That the steps are taken is fairness, in Terminates.
THEOREM StepsAreBounded ==
    Spec => [](StepsLeft \in Nat) /\ [][StepsLeft' < StepsLeft]_vars
<1>1. IInv => StepsLeft \in Nat
  BY DEF IInv, TypeOK, StepsLeft, Collection, Count
<1>2. IInv /\ [Next]_vars => [StepsLeft' < StepsLeft]_vars
  <2> SUFFICES ASSUME IInv, Next
               PROVE  StepsLeft' < StepsLeft
    OBVIOUS
  <2>1. Count \in Nat /\ i \in 0 .. Count
    BY DEF IInv, TypeOK, Collection, Count
  <2>2. CASE Start
    <3>1. pc = "start" /\ pc' \in {"loop", "done"} /\ i' = i /\ Count' = Count
      BY <2>2 DEF Start, Count
    <3>2. i = 0
      BY <3>1 DEF IInv
    <3> QED
      BY <2>1, <3>1, <3>2 DEF StepsLeft
  <2>3. CASE Loop
    <3>1. /\ pc = "loop" /\ pc' = "loop" /\ i < Count /\ i' = i + 1
          /\ Count' = Count
      BY <2>3 DEF Loop, Searching, Count
    <3> QED
      BY <2>1, <3>1 DEF StepsLeft
  <2>4. CASE Finish
    <3>1. pc = "loop" /\ pc' = "done"
      BY <2>4 DEF Finish
    <3> QED
      BY <2>1, <3>1 DEF StepsLeft
  <2> QED
    BY <2>2, <2>3, <2>4 DEF Next
<1> QED
  BY <1>1, <1>2, SearchInvariance, PTL DEF Spec
=============================================================================
