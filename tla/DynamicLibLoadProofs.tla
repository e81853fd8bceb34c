------------------------ MODULE DynamicLibLoadProofs ------------------------
(***************************************************************************)
(* The loader's invariants for any set of libraries, any number of         *)
(* functions and any order of loads, unloads and calls.                    *)
(***************************************************************************)
EXTENDS DynamicLibLoad, TLAPS

IInv == TypeOK /\ TableWhole /\ HandlesAccounted /\ OnlyCompleteRun
           /\ (wanted # None => Exports[wanted] = Symbol)

\* A load that ends with every symbol found is of a library that exports them.
LEMMA FoundAll ==
    ASSUME NEW p \in Path, Found(p) = Symbol
    PROVE  Exports[p] = Symbol
<1>1. \A s \in Symbol : s \in Exports[p]
  BY DEF Found, Symbol
<1>2. Exports[p] \subseteq Symbol
  BY LoaderAssumption
<1> QED
  BY <1>1, <1>2

\* loadLibrary() preserves the invariant: a table that is whole is whole of
\* the library just opened, and the one it was loaded over stays open.
LEMMA LoadPreserves ==
    ASSUME IInv, NEW p \in Path, loadLibrary(p)
    PROVE  IInv'
<1> USE LoaderAssumption
<1>1. TypeOK'
  BY DEF IInv, TypeOK, loadLibrary, loadSymbols, dlopen
<1>2. /\ m_lib' = p
      /\ opened' = [opened EXCEPT ![p] = @ + 1]
      /\ opened'[p] = opened[p] + 1
      /\ opened[p] \in Nat
      /\ ran' = ran
  BY DEF IInv, TypeOK, loadLibrary, dlopen
<1>3. wanted' # None => wanted' = p /\ Found(p) = Symbol
  BY DEF loadLibrary, loadSymbols
<1>4. TableWhole'
  BY <1>2, <1>3 DEF TableWhole, loadLibrary, loadSymbols
<1>5. HandlesAccounted'
  <2> SUFFICES ASSUME NEW q \in Path
               PROVE  opened'[q] = overwritten'[q] + IF m_lib' = q THEN 1 ELSE 0
    BY DEF HandlesAccounted
  <2>1. /\ opened'[q] = opened[q] + IF q = p THEN 1 ELSE 0
        /\ overwritten'[q] = overwritten[q] + IF m_lib = q THEN 1 ELSE 0
        /\ opened[q] \in Nat /\ overwritten[q] \in Nat
    BY <1>2 DEF IInv, TypeOK, loadLibrary
  <2>2. opened[q] = overwritten[q] + IF m_lib = q THEN 1 ELSE 0
    BY DEF IInv, HandlesAccounted
  <2> QED
    BY <1>2, <2>1, <2>2
<1>6. wanted' # None => Exports[wanted'] = Symbol
  BY <1>3, FoundAll
<1> QED
  BY <1>1, <1>2, <1>4, <1>5, <1>6 DEF IInv, OnlyCompleteRun

\* unloadLibrary() preserves the invariant: what it closes was open.
LEMMA UnloadPreserves ==
    ASSUME IInv, unloadLibrary
    PROVE  IInv'
<1> USE LoaderAssumption
<1>1. CASE m_lib = None
  BY <1>1 DEF IInv, TypeOK, TableWhole, HandlesAccounted, OnlyCompleteRun,
              unloadLibrary
<1>2. CASE m_lib # None
  <2>1. /\ m_lib \in Path /\ opened[m_lib] \in 1 .. MaxOpen
        /\ opened' = [opened EXCEPT ![m_lib] = @ - 1]
        /\ m_lib' = None /\ wanted' = None
        /\ m_functions' = m_functions /\ ran' = ran
        /\ overwritten' = overwritten
    BY <1>2 DEF IInv, TypeOK, HandlesAccounted, unloadLibrary
  <2>2. TypeOK'
    BY <2>1 DEF IInv, TypeOK
  <2>3. HandlesAccounted'
    BY <2>1 DEF IInv, TypeOK, HandlesAccounted
  <2> QED
    BY <2>1, <2>2, <2>3 DEF IInv, TableWhole, OnlyCompleteRun
<1> QED
  BY <1>1, <1>2

\* A forwarded call runs code of the library the client takes for loaded.
LEMMA ForwardPreserves ==
    ASSUME IInv, NEW s \in Symbol, Forward(s)
    PROVE  IInv'
<1>1. ran' = wanted /\ wanted \in Path /\ Exports[wanted] = Symbol
  BY DEF IInv, TypeOK, TableWhole, Forward
<1> QED
  BY <1>1 DEF IInv, TypeOK, TableWhole, HandlesAccounted, OnlyCompleteRun,
              Forward

\* The loader's invariant holds in every reachable state.
THEOREM LoaderInvariance == Spec => []IInv
<1>1. Init => IInv
  BY LoaderAssumption
     DEF Init, IInv, TypeOK, TableWhole, HandlesAccounted, OnlyCompleteRun
<1>2. IInv /\ [Next]_vars => IInv'
  <2> SUFFICES ASSUME IInv, [Next]_vars PROVE IInv'
    OBVIOUS
  <2>1. CASE UNCHANGED vars
    BY <2>1 DEF IInv, TypeOK, TableWhole, HandlesAccounted, OnlyCompleteRun,
                vars
  <2>2. CASE LoadNothing
    BY <2>1, <2>2 DEF LoadNothing, IInv, TypeOK, TableWhole, HandlesAccounted,
                      OnlyCompleteRun, vars
  <2>3. ASSUME NEW p \in Path, loadLibrary(p) PROVE IInv'
    BY <2>3, LoadPreserves
  <2>4. CASE unloadLibrary
    BY <2>4, UnloadPreserves
  <2>5. ASSUME NEW s \in Symbol, Forward(s) PROVE IInv'
    BY <2>5, ForwardPreserves
  <2> QED
    BY <2>1, <2>2, <2>3, <2>4, <2>5 DEF Next
<1> QED
  BY <1>1, <1>2, PTL DEF Spec

\* The table and the handles of dlopen() are of their types: none is closed
\* more often than it was opened.
THEOREM LoaderTypes == Spec => []TypeOK
<1>1. IInv => TypeOK
  BY DEF IInv
<1> QED
  BY <1>1, LoaderInvariance, PTL

\* Every function the client calls is of the library it takes for loaded, and
\* the library is mapped.
THEOREM TableIsWhole == Spec => []TableWhole
<1>1. IInv => TableWhole
  BY DEF IInv
<1> QED
  BY <1>1, LoaderInvariance, PTL

\* No code of a library with a missing symbol runs.
THEOREM RunsCompleteOnly == Spec => []OnlyCompleteRun
<1>1. IInv => OnlyCompleteRun
  BY DEF IInv
<1> QED
  BY <1>1, LoaderInvariance, PTL

\* A library stays open only where the client loaded over it.
THEOREM NoLibraryLeaks == Spec => []HandlesAccounted
<1>1. IInv => HandlesAccounted
  BY DEF IInv
<1> QED
  BY <1>1, LoaderInvariance, PTL
=============================================================================
