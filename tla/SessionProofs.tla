---------------------------- MODULE SessionProofs ----------------------------
(***************************************************************************)
(* A client that destroys its handles in reverse order stays within what   *)
(* Bridge assumes of its client, for any number of engines, objects and    *)
(* handles, and leaves nothing behind when it destroyed them all.          *)
(*                                                                         *)
(* The invariant that shows it: the handle of an engine comes before       *)
(* everything that was obtained through the engine.                        *)
(***************************************************************************)
EXTENDS Session, BridgeProofs, SequenceTheorems

EnginesFirst ==
    \A i, j \in DOMAIN obtained :
       obtained[j].p \in Engine /\ obtained[i].from = obtained[j].p => j <= i

SessionInv ==
    /\ IInv
    /\ obtained \in Seq(Held)
    /\ SessionTypeOK
    /\ EnginesFirst

-----------------------------------------------------------------------------
(* The client's list.                                                      *)

\* The list of a finite set has each of its elements once.
LEMMA SetListed ==
    ASSUME NEW S, IsFiniteSet(S)
    PROVE  /\ SetToSeq(S) \in Seq(S)
           /\ ToSet(SetToSeq(S)) = S
           /\ IsInjective(SetToSeq(S))
<1> DEFINE n == Cardinality(S)
           s == SetToSeq(S)
<1>1. n \in Nat /\ \E f \in [1 .. n -> S] : IsInjective(f)
  BY FS_CardinalityType DEF ExistsBijection, Bijection, Injection
<1>2. s \in [1 .. n -> S] /\ IsInjective(s)
  BY <1>1 DEF SetToSeq
<1>3. s \in Surjection(1 .. n, S)
  <2>1. s \in Injection(1 .. n, S)
    BY <1>2 DEF Injection
  <2>2. IsFiniteSet(1 .. n) /\ Cardinality(1 .. n) = n
    BY <1>1, FS_Interval
  <2> HIDE DEF s
  <2> QED
    BY <2>1, <2>2, FS_Injection
<1>4. ToSet(s) = S
  BY <1>2, <1>3 DEF Surjection, ToSet
<1>5. s \in Seq(S)
  BY <1>1, <1>2
<1> QED
  BY <1>2, <1>4, <1>5

\* sr is the list s with the elements of r behind it.
Extension(s, r, sr) ==
    /\ IsInjective(sr)
    /\ ToSet(sr) = ToSet(s) \cup ToSet(r)
    /\ \A i \in DOMAIN s : i \in DOMAIN sr /\ sr[i] = s[i]
    /\ \A i \in DOMAIN sr \ DOMAIN s :
          sr[i] \in ToSet(r) /\ \A j \in DOMAIN s : j < i

LEMMA ListExtended ==
    ASSUME NEW T, NEW s \in Seq(T), NEW r \in Seq(T), NEW sr, sr = s \o r,
           IsInjective(s), IsInjective(r), ToSet(s) \cap ToSet(r) = {}
    PROVE  sr \in Seq(T) /\ Extension(s, r, sr)
<1> DEFINE l == Len(s)
           k == Len(r)
<1>1. /\ l \in Nat /\ k \in Nat
      /\ DOMAIN s = 1 .. l /\ DOMAIN r = 1 .. k
  BY LenProperties
<1>2. /\ sr \in Seq(T) /\ DOMAIN sr = 1 .. l + k
      /\ \A i \in 1 .. l + k : sr[i] = IF i <= l THEN s[i] ELSE r[i - l]
  BY ConcatProperties, LenProperties
<1> HIDE DEF l, k
<1>3. ASSUME NEW i \in 1 .. l
      PROVE  i \in DOMAIN sr /\ sr[i] = s[i] /\ s[i] \in ToSet(s)
  BY <1>1, <1>2 DEF ToSet
<1>4. ASSUME NEW i \in 1 .. k
      PROVE  i + l \in DOMAIN sr /\ sr[i + l] = r[i] /\ r[i] \in ToSet(r)
  <2>1. i + l \in 1 .. l + k /\ ~(i + l <= l) /\ (i + l) - l = i
    BY <1>1
  <2> QED
    BY <1>1, <1>2, <2>1 DEF ToSet
<1>5. ASSUME NEW i \in DOMAIN sr
      PROVE  i \in 1 .. l \/ (i - l \in 1 .. k /\ i = (i - l) + l)
  BY <1>1, <1>2
<1>6. ToSet(sr) = ToSet(s) \cup ToSet(r)
  <2>1. ASSUME NEW i \in DOMAIN sr PROVE sr[i] \in ToSet(s) \cup ToSet(r)
    BY <1>3, <1>4, <1>5
  <2>2. ASSUME NEW i \in DOMAIN s PROVE s[i] \in ToSet(sr)
    BY <1>1, <1>3 DEF ToSet
  <2>3. ASSUME NEW j \in DOMAIN r PROVE r[j] \in ToSet(sr)
    <3>1. j + l \in DOMAIN sr /\ sr[j + l] = r[j]
      BY <1>1, <1>4
    <3> QED
      BY <3>1 DEF ToSet
  <2>4. ToSet(sr) \subseteq ToSet(s) \cup ToSet(r)
    BY <2>1 DEF ToSet
  <2>5. ToSet(s) \subseteq ToSet(sr)
    BY <2>2 DEF ToSet
  <2>6. ToSet(r) \subseteq ToSet(sr)
    BY <2>3 DEF ToSet
  <2> QED
    BY <2>4, <2>5, <2>6
<1>7. IsInjective(sr)
  <2> SUFFICES ASSUME NEW i \in DOMAIN sr, NEW j \in DOMAIN sr, sr[i] = sr[j]
               PROVE  i = j
    BY DEF IsInjective
  <2>1. CASE i \in 1 .. l /\ j \in 1 .. l
    <3>1. s[i] = s[j]
      BY <1>3, <2>1
    <3> QED
      BY <1>1, <2>1, <3>1 DEF IsInjective
  <2>2. CASE /\ i - l \in 1 .. k /\ i = (i - l) + l
             /\ j - l \in 1 .. k /\ j = (j - l) + l
    <3>1. r[i - l] = r[j - l]
      BY <1>4, <2>2
    <3>2. i - l = j - l
      BY <1>1, <2>2, <3>1 DEF IsInjective
    <3> QED
      BY <2>2, <3>2
  <2>3. CASE i \in 1 .. l /\ j - l \in 1 .. k /\ j = (j - l) + l
    <3>1. sr[i] \in ToSet(s) /\ sr[j] \in ToSet(r)
      BY <1>3, <1>4, <2>3
    <3> QED
      BY <3>1
  <2>4. CASE j \in 1 .. l /\ i - l \in 1 .. k /\ i = (i - l) + l
    <3>1. sr[j] \in ToSet(s) /\ sr[i] \in ToSet(r)
      BY <1>3, <1>4, <2>4
    <3> QED
      BY <3>1
  <2> QED
    BY <1>5, <2>1, <2>2, <2>3, <2>4
<1>8. ASSUME NEW i \in DOMAIN sr \ DOMAIN s
      PROVE  sr[i] \in ToSet(r) /\ \A j \in DOMAIN s : j < i
  <2>1. i - l \in 1 .. k /\ i = (i - l) + l
    BY <1>1, <1>5
  <2>2. \A j \in 1 .. l : j < i
    BY <1>1, <2>1
  <2> QED
    BY <1>1, <1>4, <2>1, <2>2
<1> QED
  BY <1>1, <1>2, <1>3, <1>6, <1>7, <1>8 DEF Extension

\* f is the list s without its last element.
Shortened(s, f) ==
    LET l == Len(s)
    IN  /\ IsInjective(f)
        /\ ToSet(f) = ToSet(s) \ {s[l]}
        /\ l \in DOMAIN s /\ \A i \in DOMAIN s : i <= l
        /\ DOMAIN f = DOMAIN s \ {l}
        /\ \A i \in DOMAIN f : f[i] = s[i]

LEMMA LastRemoved ==
    ASSUME NEW T, NEW s \in Seq(T), s # <<>>, IsInjective(s),
           NEW f, f = RemoveAt(s, Len(s))
    PROVE  f \in Seq(T) /\ Shortened(s, f)
<1> DEFINE l == Len(s)
<1>1. l \in Nat \ {0} /\ DOMAIN s = 1 .. l /\ \A i \in 1 .. l : s[i] \in T
  BY EmptySeq, LenProperties, ElementOfSeq
<1> HIDE DEF l
<1>2. f = SubSeq(s, 1, l - 1)
  <2>1. SubSeq(s, l + 1, l) = <<>>
    BY <1>1, SubSeqEmpty
  <2>2. SubSeq(s, 1, l - 1) \in Seq(T)
    <3>1. \A i \in 1 .. l - 1 : s[i] \in T
      BY <1>1
    <3> QED
      BY <1>1, <3>1, SubSeqProperties
  <2> QED
    BY <2>1, <2>2, ConcatEmptySeq DEF RemoveAt, l
<1>3. /\ f \in Seq(T) /\ DOMAIN f = 1 .. l - 1
      /\ \A i \in 1 .. l - 1 : f[i] = s[i]
  <2>1. \A i \in 1 .. l - 1 : s[i] \in T
    BY <1>1
  <2>2. /\ f \in Seq(T) /\ Len(f) = IF 1 <= l - 1 THEN (l - 1) - 1 + 1 ELSE 0
        /\ \A i \in 1 .. (l - 1) - 1 + 1 : f[i] = s[1 + i - 1]
    BY <1>1, <1>2, <2>1, SubSeqProperties
  <2>3. Len(f) = l - 1
    BY <1>1, <2>2
  <2>4. \A i \in 1 .. l - 1 : f[i] = s[i]
    BY <1>1, <2>2
  <2> QED
    BY <2>2, <2>3, <2>4, LenProperties
<1>4. IsInjective(f)
  BY <1>1, <1>3 DEF IsInjective
<1>5. DOMAIN f = DOMAIN s \ {l} /\ l \in DOMAIN s
  BY <1>1, <1>3
<1>6. ToSet(f) = ToSet(s) \ {s[l]}
  <2>1. ASSUME NEW i \in DOMAIN f
        PROVE  f[i] \in ToSet(s) \ {s[l]}
    BY <1>1, <1>3, <1>5 DEF ToSet, IsInjective
  <2>2. ASSUME NEW i \in DOMAIN s, s[i] # s[l]
        PROVE  s[i] \in ToSet(f)
    BY <1>1, <1>3, <1>5, <2>2 DEF ToSet
  <2>3. ToSet(f) \subseteq ToSet(s) \ {s[l]}
    BY <2>1 DEF ToSet
  <2>4. ToSet(s) \ {s[l]} \subseteq ToSet(f)
    BY <2>2 DEF ToSet
  <2> QED
    BY <2>3, <2>4
<1> QED
  BY <1>1, <1>3, <1>4, <1>5, <1>6 DEF l, Shortened

-----------------------------------------------------------------------------
(* The client's calls.                                                     *)

\* What a call gives the client is finite, and an engine among it is new and
\* alone.
GivesAnew ==
    LET given == held' \ held
    IN  /\ held \subseteq held'
        /\ IsFiniteSet(given)
        /\ \A g \in given : g.p \in Engine => g.p \notin engines
        /\ \A g, h \in given : g.p \in Engine => g = h

LEMMA OneGiven ==
    ASSUME NEW h, held' = held \cup {h}, h.p \in Engine => h.p \notin engines
    PROVE  GivesAnew
<1>1. \A g \in held' \ held : g = h
  OBVIOUS
<1>2. held' \ held \subseteq {h} /\ IsFiniteSet({h})
  BY FS_Singleton
<1> QED
  BY <1>1, <1>2, FS_Subset DEF GivesAnew

LEMMA NothingGiven ==
    UNCHANGED held => GivesAnew
BY FS_EmptySet DEF GivesAnew

LEMMA DescriptionsGiven ==
    ASSUME IInv, NEW he \in Passed, NEW n \in DescCounts,
           SubscribeBenchmarks(he, n)
    PROVE  GivesAnew
<1>1. CASE UNCHANGED held
  BY <1>1, NothingGiven
<1>2. CASE held' = held \cup {HeldHandle(i, DescTag, he.p) :
                                 i \in {j \in DescIndex : j < n}}
  <2> DEFINE I == {j \in DescIndex : j < n}
             D == {HeldHandle(i, DescTag, he.p) : i \in I}
  <2>1. \A g \in D : g.p \in DescIndex
    BY DEF HeldHandle
  <2>2. IsFiniteSet(I)
    <3>1. 0 \in Int /\ 2 \in Int
      OBVIOUS
    <3>2. IsFiniteSet(0 .. 2)
      BY <3>1, FS_Interval
    <3> QED
      BY <3>2, FS_Subset DEF DescIndex
  <2>3. IsFiniteSet(D)
    <3> DEFINE f == [i \in I |-> HeldHandle(i, DescTag, he.p)]
    <3>1. f \in Surjection(I, D)
      BY DEF Surjection
    <3> QED
      BY <2>2, <3>1, FS_Surjection
  <2>4. held' \ held \subseteq D
    BY <1>2
  <2> HIDE DEF D
  <2> QED
    BY <1>2, <2>1, <2>3, <2>4, FS_Subset, PoolAssumption DEF GivesAnew
<1> QED
  BY <1>1, <1>2 DEF SubscribeBenchmarks, Reject

LEMMA CallsGive ==
    ASSUME IInv, Calls
    PROVE  GivesAnew
<1>1. CASE RejectNullArgument \/ InitEngine
  <2>1. ASSUME NEW e \in Engine \ engines,
               held' = held \cup {HeldHandle(e, EngineTag, e)}
        PROVE  GivesAnew
    BY <2>1, OneGiven DEF HeldHandle
  <2> QED
    BY <1>1, <2>1, NothingGiven DEF RejectNullArgument, InitEngine, Reject
<1>2. ASSUME NEW he \in Passed,
             \/ RejectEngineHandle(he)
             \/ SubscribeBenchmarksCount(he)
             \/ \E hd \in Passed : QueryDescription(he, hd)
      PROVE  GivesAnew
  BY <1>2, NothingGiven DEF RejectEngineHandle, SubscribeBenchmarksCount,
     QueryDescription, Reject
<1>3. ASSUME NEW he \in Passed, NEW n \in DescCounts,
             SubscribeBenchmarks(he, n)
      PROVE  GivesAnew
  BY <1>3, DescriptionsGiven
<1>4. ASSUME NEW he \in Passed, NEW hd \in Passed, CreateBenchmark(he, hd)
      PROVE  GivesAnew
  <2>1. ASSUME NEW w \in Wrapper, NEW tag,
               held' = held \cup {HeldHandle(w, tag, he.p)}
        PROVE  GivesAnew
    BY <2>1, OneGiven, PoolAssumption DEF HeldHandle
  <2> QED
    BY <1>4, <2>1, NothingGiven DEF CreateBenchmark, Reject
<1>5. ASSUME NEW hb \in Passed, NEW o \in Object, NEW tag,
             held' = held \cup {HeldHandle(o, tag, hb.from)}
      PROVE  GivesAnew
  BY <1>5, OneGiven, PoolAssumption DEF HeldHandle
<1>6. ASSUME NEW hb \in Passed,
             RunBackend(hb) \/ \E m \in BackendMasks : CreateHandle(hb, m)
      PROVE  GivesAnew
  BY <1>5, <1>6, NothingGiven DEF RunBackend, CreateHandle, Reject
<1>7. ASSUME NEW hb \in Passed, NEW h \in Passed, NEW m \in BackendMasks,
             \/ RetrieveFromHandle(hb, h, m)
             \/ \E new \in BackendMasks \cup {h.tag} :
                   DuplicateHandle(hb, h, new, m)
      PROVE  GivesAnew
  BY <1>5, <1>7, NothingGiven DEF RetrieveFromHandle, DuplicateHandle,
     duplicateHandleInternal, Reject
<1> QED
  BY <1>1, <1>2, <1>3, <1>4, <1>6, <1>7 DEF Calls

LEMMA UsePreserves ==
    ASSUME SessionInv, Use
    PROVE  Next /\ SessionInv'
<1> DEFINE r == Received(held, held')
<1>1. Next /\ IInv'
  <2>1. Next
    BY DEF Use, Next
  <2> QED
    BY <2>1, NextPreserves DEF SessionInv
<1>2. GivesAnew
  BY CallsGive DEF Use, SessionInv
<1>3. r \in Seq(Held) /\ ToSet(r) = held' \ held /\ IsInjective(r)
  <2>1. held' \ held \subseteq Held
    BY <1>1 DEF IInv, TypeOK
  <2>2. r \in Seq(held' \ held) /\ ToSet(r) = held' \ held /\ IsInjective(r)
    BY <1>2, SetListed DEF GivesAnew, Received
  <2> HIDE DEF r
  <2> QED
    BY <2>1, <2>2, SeqMonotonic
<1> HIDE DEF r
<1>4. /\ obtained \in Seq(Held) /\ IsInjective(obtained)
      /\ ToSet(obtained) = held /\ closing' = closing /\ closing \in BOOLEAN
      /\ obtained' = obtained \o r
  BY DEF SessionInv, SessionTypeOK, Use, r
<1>5. /\ obtained' \in Seq(Held)
      /\ ToSet(obtained') = held \cup (held' \ held)
      /\ IsInjective(obtained')
      /\ \A i \in DOMAIN obtained : i \in DOMAIN obtained'
                                    /\ obtained'[i] = obtained[i]
      /\ \A i \in DOMAIN obtained' \ DOMAIN obtained :
            obtained'[i] \in held' \ held /\ \A j \in DOMAIN obtained : j < i
  <2>1. /\ r \in Seq(Held) /\ IsInjective(r)
        /\ ToSet(obtained) \cap ToSet(r) = {}
    BY <1>3, <1>4
  <2>2. obtained' \in Seq(Held) /\ Extension(obtained, r, obtained')
    BY <1>4, <2>1, ListExtended
  <2> QED
    BY <1>3, <1>4, <2>2 DEF Extension
<1>6. SessionTypeOK'
  BY <1>2, <1>4, <1>5 DEF SessionTypeOK, GivesAnew
<1>7. EnginesFirst'
  <2> SUFFICES ASSUME NEW i \in DOMAIN obtained', NEW j \in DOMAIN obtained',
                      obtained'[j].p \in Engine,
                      obtained'[i].from = obtained'[j].p
               PROVE  j <= i
    BY DEF EnginesFirst
  <2>0. DOMAIN obtained' \subseteq Nat
    BY <1>5, LenProperties
  <2>1. CASE i \in DOMAIN obtained /\ j \in DOMAIN obtained
    BY <1>5, <2>1 DEF SessionInv, EnginesFirst
  <2>2. CASE i \notin DOMAIN obtained /\ j \in DOMAIN obtained
    BY <1>5, <2>0, <2>2
  <2>3. CASE i \in DOMAIN obtained /\ j \notin DOMAIN obtained
    <3>1. obtained[i] \in held
      BY <1>4, <2>3 DEF ToSet
    <3>2. obtained'[i].from \in engines
      BY <1>5, <2>3, <3>1 DEF SessionInv, IInv, NoDangling
    <3> QED
      BY <1>2, <1>5, <2>3, <3>2 DEF GivesAnew
  <2>4. CASE i \notin DOMAIN obtained /\ j \notin DOMAIN obtained
    <3>1. obtained'[i] = obtained'[j]
      BY <1>2, <1>5, <2>4 DEF GivesAnew
    <3>2. i = j
      BY <1>5, <3>1 DEF IsInjective
    <3> QED
      BY <2>0, <3>2
  <2> QED
    BY <2>1, <2>2, <2>3, <2>4
<1> QED
  BY <1>1, <1>5, <1>6, <1>7 DEF SessionInv

\* An engine is the last on the list only when nothing obtained through it is
\* left.
LEMMA DestroyOnePreserves ==
    ASSUME SessionInv, DestroyOne
    PROVE  Next /\ SessionInv'
<1> DEFINE l == Len(obtained)
           h == obtained[l]
<1>1. /\ obtained \in Seq(Held) /\ IsInjective(obtained) /\ obtained # <<>>
      /\ ToSet(obtained) = held /\ closing' = closing /\ closing \in BOOLEAN
      /\ obtained' = RemoveAt(obtained, l) /\ CallDestroyHandle(h)
  BY DEF SessionInv, SessionTypeOK, DestroyOne, NextToDestroy
<1>2. /\ obtained' \in Seq(Held)
      /\ l \in DOMAIN obtained
      /\ \A i \in DOMAIN obtained : i <= l
      /\ DOMAIN obtained' = DOMAIN obtained \ {l}
      /\ \A i \in DOMAIN obtained' : obtained'[i] = obtained[i]
      /\ ToSet(obtained') = ToSet(obtained) \ {h}
      /\ IsInjective(obtained')
  <2>1. obtained' \in Seq(Held) /\ Shortened(obtained, obtained')
    BY <1>1, LastRemoved
  <2> QED
    BY <1>1, <2>1 DEF Shortened
<1>3. h \in held /\ DOMAIN obtained \subseteq Nat
  BY <1>1, <1>2, LenProperties DEF ToSet
<1> HIDE DEF l, h
<1>4. h.p \in Engine => \A g \in held : g.from = h.p => g = h
  <2> SUFFICES ASSUME h.p \in Engine, NEW g \in held, g.from = h.p
               PROVE  g = h
    OBVIOUS
  <2>1. PICK i \in DOMAIN obtained : g = obtained[i]
    BY <1>1 DEF ToSet
  <2>2. l <= i
    BY <1>2, <2>1 DEF SessionInv, EnginesFirst, h
  <2>3. i = l
    BY <1>2, <1>3, <2>2
  <2> QED
    BY <2>1, <2>3 DEF h
<1>5. Next /\ IInv'
  <2>1. Next
    BY <1>1, <1>3, <1>4 DEF Next, DestroyHandle, Passed
  <2> QED
    BY <2>1, NextPreserves DEF SessionInv
<1>6. SessionTypeOK'
  BY <1>1, <1>2 DEF SessionTypeOK, CallDestroyHandle
<1>7. EnginesFirst'
  BY <1>2 DEF SessionInv, EnginesFirst
<1> QED
  BY <1>2, <1>5, <1>6, <1>7 DEF SessionInv

\* A null handle takes nothing from the client.
LEMMA DestroyNothingPreserves ==
    ASSUME SessionInv, DestroyNothing
    PROVE  Next /\ SessionInv'
<1>1. Next /\ IInv'
  <2>1. NullHandle.p \notin Engine /\ NullHandle \in Passed
    BY PoolAssumption DEF NullHandle, NullPtr, DescIndex, Passed
  <2>2. Next
    BY <2>1 DEF Next, DestroyHandle, DestroyNothing
  <2> QED
    BY <2>2, NextPreserves DEF SessionInv
<1>2. UNCHANGED <<held, obtained, closing>>
  <2>1. NullHandle \notin Held
    <3>1. DOMAIN NullHandle = {"p", "tag"}
      BY DEF NullHandle
    <3>2. \A h \in Held : DOMAIN h = {"p", "tag", "from"}
      BY DEF Held
    <3>3. "from" \notin {"p", "tag"}
      OBVIOUS
    <3> QED
      BY <3>1, <3>2, <3>3
  <2> QED
    BY <2>1 DEF DestroyNothing, CallDestroyHandle, SessionInv, IInv, TypeOK
<1> QED
  BY <1>1, <1>2 DEF SessionInv, SessionTypeOK, EnginesFirst

LEMMA SessionNextPreserves ==
    ASSUME SessionInv, [SessionNext]_sessionVars
    PROVE  [Next]_vars /\ SessionInv'
<1>1. CASE UNCHANGED vars /\ UNCHANGED obtained /\ closing' \in BOOLEAN
  <2>1. [Next]_vars
    BY <1>1
  <2>2. IInv'
    BY <2>1, NextPreserves DEF SessionInv
  <2> QED
    BY <1>1, <2>1, <2>2 DEF SessionInv, SessionTypeOK, EnginesFirst, vars
<1>2. CASE Close \/ Reopen \/ UNCHANGED sessionVars
  BY <1>1, <1>2
     DEF Close, Reopen, sessionVars, SessionInv, SessionTypeOK
<1> QED
  BY <1>2, UsePreserves, DestroyOnePreserves, DestroyNothingPreserves
     DEF SessionNext

LEMMA SessionStarts == SessionInit => SessionInv
<1> SUFFICES ASSUME SessionInit PROVE SessionInv
  OBVIOUS
<1>1. IInv
  BY InitIInv DEF SessionInit
<1>2. obtained = <<>> /\ held = {} /\ closing = FALSE
  BY DEF SessionInit, Init
<1>3. DOMAIN obtained = {} /\ obtained \in Seq(Held)
  BY <1>2
<1>4. ToSet(obtained) = {} /\ IsInjective(obtained)
  BY <1>3 DEF ToSet, IsInjective
<1> QED
  BY <1>1, <1>2, <1>3, <1>4 DEF SessionInv, SessionTypeOK, EnginesFirst

LEMMA SessionInvariance == SessionSpec => []SessionInv
BY SessionStarts, SessionNextPreserves, PTL DEF SessionSpec

\* The client's list is exactly what it holds, each handle once.
THEOREM SessionTypes == SessionSpec => []SessionTypeOK
<1>1. SessionInv => SessionTypeOK
  BY DEF SessionInv
<1> QED
  BY <1>1, SessionInvariance, PTL

\* A client that does no more than destroy its handles in reverse order keeps
\* to what Bridge assumes of it: every theorem about Bridge is one about any
\* session.
THEOREM ReverseOrderIsSafe == SessionSpec => ClientIsSafe
<1>1. SessionInit => Init
  BY DEF SessionInit
<1>2. SessionInv /\ [SessionNext]_sessionVars => [Next]_vars
  BY SessionNextPreserves
<1> QED
  BY <1>1, <1>2, SessionInvariance, PTL DEF SessionSpec, ClientIsSafe, Spec

-----------------------------------------------------------------------------
(* What is left.                                                           *)

\* Every benchmark has a benchmark handle: none was abandoned.
NoneAbandoned ==
    \A b \in Bench : benchEngine[b] # None =>
       \E w \in Wrapper : wrapperBench[w] = b

LEMMA NoneAbandonedPreserved ==
    ASSUME ~AllocMayFail, IInv, NoneAbandoned, [Next]_vars
    PROVE  NoneAbandoned'
<1> USE DEF NoneAbandoned
<1>1. CASE UNCHANGED <<benchEngine, wrapperBench>>
  BY <1>1
<1>2. ASSUME NEW he \in Passed, NEW hd \in Passed, CreateBenchmark(he, hd)
      PROVE  NoneAbandoned'
  <2>1. CASE UNCHANGED heap
    BY <1>1, <2>1 DEF heap
  <2>2. ASSUME NEW b \in Bench, benchEngine[b] = None,
               benchEngine' = [benchEngine EXCEPT ![b] = he.p],
               NEW w \in Wrapper, wrapperBench[w] = None,
               wrapperBench' = [wrapperBench EXCEPT ![w] = b]
        PROVE  NoneAbandoned'
    <3> SUFFICES ASSUME NEW c \in Bench, benchEngine'[c] # None
                 PROVE  \E v \in Wrapper : wrapperBench'[v] = c
      OBVIOUS
    <3>1. CASE c = b
      BY <2>2, <3>1 DEF IInv, TypeOK
    <3>2. CASE c # b
      <4>1. PICK v \in Wrapper : wrapperBench[v] = c
        BY <2>2, <3>2 DEF IInv, TypeOK
      <4>2. c # None
        BY PoolAssumption
      <4> QED
        BY <2>2, <4>1, <4>2 DEF IInv, TypeOK
    <3> QED
      BY <3>1, <3>2
  <2> QED
    BY <1>2, <2>1, <2>2 DEF CreateBenchmark, Reject
<1>3. ASSUME NEW h \in Passed, DestroyBenchmark(h)
      PROVE  NoneAbandoned'
  <2>1. h.p \in Wrapper /\ wrapperBench[h.p] \in Bench
    BY <1>3, DispatchedHandle DEF DestroyBenchmark, IInv, TypeOK, NoDangling
  <2>2. /\ benchEngine' = [benchEngine EXCEPT ![wrapperBench[h.p]] = None]
        /\ wrapperBench' = [wrapperBench EXCEPT ![h.p] = None]
    BY <1>3 DEF DestroyBenchmark
  <2> SUFFICES ASSUME NEW c \in Bench, benchEngine'[c] # None
               PROVE  \E v \in Wrapper : wrapperBench'[v] = c
    OBVIOUS
  <2>3. c # wrapperBench[h.p] /\ benchEngine[c] # None
    BY <2>1, <2>2 DEF IInv, TypeOK
  <2>4. PICK v \in Wrapper : wrapperBench[v] = c
    BY <2>3
  <2> QED
    BY <2>1, <2>2, <2>3, <2>4 DEF IInv, TypeOK
<1>4. ASSUME NEW h \in Passed, DestroyHandle(h)
      PROVE  NoneAbandoned'
  BY <1>1, <1>3, <1>4 DEF DestroyHandle, CallDestroyHandle, DestroyNull,
     DestroyObject, DestroyEngine, DestroyDescription, DestroyUnknown, heap
<1>5. CASE RejectNullArgument \/ InitEngine \/ UNCHANGED vars
  BY <1>1, <1>5 DEF RejectNullArgument, InitEngine, Reject, vars, heap
<1>6. ASSUME NEW he \in Passed,
             \/ RejectEngineHandle(he)
             \/ SubscribeBenchmarksCount(he)
             \/ \E n \in DescCounts : SubscribeBenchmarks(he, n)
             \/ \E hd \in Passed : QueryDescription(he, hd)
      PROVE  NoneAbandoned'
  BY <1>1, <1>6 DEF RejectEngineHandle, SubscribeBenchmarksCount,
     SubscribeBenchmarks, QueryDescription, Reject, heap
<1>7. ASSUME NEW hb \in Passed,
             RunBackend(hb) \/ \E m \in BackendMasks : CreateHandle(hb, m)
      PROVE  NoneAbandoned'
  BY <1>1, <1>7 DEF RunBackend, CreateHandle, Reject, heap
<1>8. ASSUME NEW hb \in Passed, NEW h \in Passed, NEW m \in BackendMasks,
             \/ RetrieveFromHandle(hb, h, m)
             \/ \E new \in BackendMasks \cup {h.tag} :
                   DuplicateHandle(hb, h, new, m)
      PROVE  NoneAbandoned'
  BY <1>1, <1>8 DEF RetrieveFromHandle, DuplicateHandle,
     duplicateHandleInternal, Reject, heap
<1> QED
  BY <1>2, <1>4, <1>5, <1>6, <1>7, <1>8 DEF Next, Calls

LEMMA NothingHeldNothingLeft ==
    ASSUME EngineExtra = {}, IInv, NoneAbandoned, held = {}
    PROVE  NothingLeft
<1> USE DEF IInv
<1>1. engines = {} /\ \A w \in Wrapper : wrapperBench[w] = None
  BY DEF OneHandleEach
<1>2. \A o \in Object : objData[o] = None
  BY DEF OneHandleEach
<1>3. \A b \in Bench : benchEngine[b] = None
  BY <1>1, PoolAssumption DEF NoneAbandoned
<1>4. ASSUME NEW d \in Data PROVE useCount[d] = 0
  <2>1. Sharers(d) = {}
    BY <1>2, PoolAssumption DEF Sharers
  <2> QED
    BY <2>1, FS_EmptySet DEF RefCountExact
<1> QED
  BY <1>1, <1>2, <1>3, <1>4 DEF NothingLeft

\* Whenever the client has destroyed all it held, at the end of a session or
\* between two calls, the library has nothing left on the heap.  A failed
\* allocation in createBenchmark() and engine tags with bits of their own are
\* what it takes to leave something behind.  That a cleanup comes to this
\* point is CleanUpEnds, which is checked.
THEOREM NothingStaysBehind ==
    ASSUME EngineExtra = {}, ~AllocMayFail
    PROVE  SessionSpec => [](held = {} => NothingLeft)
<1>1. Init => NoneAbandoned
  BY DEF Init, NoneAbandoned
<1>2. IInv /\ NoneAbandoned /\ [Next]_vars => NoneAbandoned'
  BY NoneAbandonedPreserved
<1>3. IInv /\ NoneAbandoned => (held = {} => NothingLeft)
  BY NothingHeldNothingLeft
<1>4. Spec => [](held = {} => NothingLeft)
  BY <1>1, <1>2, <1>3, Invariance, PTL DEF Spec
<1> QED
  BY <1>4, ReverseOrderIsSafe, PTL DEF ClientIsSafe

\* What a step does to a cleanup under way: it adds no handle, one that is
\* part of the cleanup takes one off the list, and the cleanup is over only
\* when the client holds nothing.
CleanUpStep ==
    closing =>
       /\ Len(obtained') <= Len(obtained)
       /\ CleanUp => Len(obtained') < Len(obtained)
       /\ ~closing' => held' = {}

\* A cleanup that goes on destroys every handle, in as many steps as there
\* are handles: nothing the client may do then makes its list longer, or ends
\* the cleanup early.  With NothingStaysBehind this is what CleanUpEnds says,
\* but for the fairness by which the cleanup goes on.
THEOREM CleanUpAdvances == SessionSpec => [][CleanUpStep]_sessionVars
<1>1. SessionInv /\ [SessionNext]_sessionVars => [CleanUpStep]_sessionVars
  <2> SUFFICES ASSUME SessionInv, SessionNext, closing
               PROVE  CleanUpStep
    BY DEF CleanUpStep
  <2>1. Len(obtained) \in Nat
    BY LenProperties DEF SessionInv
  <2>2. ASSUME DestroyOne
        PROVE  Len(obtained') < Len(obtained) /\ closing'
    <3>1. /\ obtained # <<>> /\ IsInjective(obtained)
          /\ obtained \in Seq(Held) /\ closing' = closing
          /\ obtained' = RemoveAt(obtained, Len(obtained))
      BY <2>2 DEF DestroyOne, NextToDestroy, SessionInv, SessionTypeOK
    <3>2. obtained' \in Seq(Held) /\ Shortened(obtained, obtained')
      BY <3>1, LastRemoved
    <3> DEFINE last == Len(obtained)
    <3>3. /\ last \in DOMAIN obtained
          /\ DOMAIN obtained' = DOMAIN obtained \ {last}
      BY <3>2 DEF Shortened
    <3>4. /\ DOMAIN obtained = 1 .. last /\ last \in Nat
          /\ DOMAIN obtained' = 1 .. Len(obtained') /\ Len(obtained') \in Nat
      BY <3>1, <3>2, LenProperties
    <3> HIDE DEF last
    <3>5. last \notin 1 .. Len(obtained') /\ last >= 1
      BY <3>3, <3>4
    <3>6. Len(obtained') < last
      BY <3>4, <3>5
    <3> QED
      BY <3>1, <3>6 DEF last
  <2>3. ~Use
    BY DEF Use
  <2>4. CASE DestroyNothing
    BY <2>1, <2>2, <2>4 DEF DestroyNothing, CleanUpStep, CleanUp
  <2>5. CASE Reopen
    <3>1. obtained = <<>> /\ UNCHANGED <<held, obtained>>
      BY <2>5 DEF Reopen, vars
    <3>2. held = {}
      BY <3>1 DEF SessionInv, SessionTypeOK, ToSet
    <3> QED
      BY <2>1, <2>2, <3>1, <3>2 DEF CleanUpStep, CleanUp
  <2>6. ~Close
    BY DEF Close
  <2> QED
    BY <2>1, <2>2, <2>3, <2>4, <2>5, <2>6 DEF SessionNext, CleanUpStep, CleanUp
<1> QED
  BY <1>1, SessionInvariance, PTL DEF SessionSpec
=============================================================================
