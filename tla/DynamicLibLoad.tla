--------------------------- MODULE DynamicLibLoad ---------------------------
(***************************************************************************)
(* The loader that forwards the C API to a backend library: the library it *)
(* holds, the table of function pointers, and how the two come apart when  *)
(* a load fails midway or a library is unloaded.                           *)
(*                                                                         *)
(* dlopen(), dlsym() and dlclose() are external: the system counts the     *)
(* handles of a library and unmaps it with the last.  The client takes a   *)
(* load that throws nothing for a success (dynamic_lib_load.h) and calls   *)
(* no function before one, nor after unloadLibrary().                      *)
(***************************************************************************)
EXTENDS Integers

CONSTANTS
    Path,        \* backend libraries
    Exports,     \* the symbols that each exports
    NSymbols,    \* functions of the C API, looked up in this order
    None,        \* no library
    MaxOpen      \* bound on the handles of a library

Symbol == 1 .. NSymbols

ASSUME LoaderAssumption ==
    /\ None \notin Path
    /\ NSymbols \in Nat /\ MaxOpen \in Nat
    /\ Exports \in [Path -> SUBSET Symbol]

VARIABLES
    m_lib,        \* the DynamicLib, by the path of its library
    m_functions,  \* the library each function pointer points into
    opened,       \* handles dlopen() gave out and dlclose() has not taken
    wanted,       \* the library the client takes for loaded
    ran,          \* the library whose code the last call of the client ran
    overwritten   \* how often the client loaded over each library (history)

vars == <<m_lib, m_functions, opened, wanted, ran, overwritten>>
-----------------------------------------------------------------------------
\* The constructor of DynamicLib throws: there is nothing to assign.
LoadNothing == UNCHANGED vars

dlopen(p) == opened[p] < MaxOpen /\ opened' = [opened EXCEPT ![p] = @ + 1]

\* The pointers of p up to the first symbol that it lacks.
Found(p) == {s \in Symbol : 1 .. s \subseteq Exports[p]}

\* Faulty variant: a symbol that is missing is left as it was.
loadAnySymbols(p) ==
    /\ m_functions' = [s \in Symbol |-> IF s \in Exports[p] THEN p
                                        ELSE m_functions[s]]
    /\ wanted' = p

\* The calls of loadSymbol().  The first that throws ends loadLibrary(), and
\* the table keeps what was there for this symbol and those after it.
loadSymbols(p) ==
    /\ m_functions' = [s \in Symbol |-> IF s \in Found(p) THEN p
                                        ELSE m_functions[s]]
    /\ wanted' = IF Found(p) = Symbol THEN p ELSE None

\* loadLibrary() forgets the library it held, if any.
loadLibrary(p) ==
    /\ dlopen(p)
    /\ m_lib' = p
    /\ loadSymbols(p)
    /\ overwritten' = [q \in Path |-> IF q = m_lib THEN overwritten[q] + 1
                                     ELSE overwritten[q]]
    /\ UNCHANGED ran

\* Faulty variant: dlclose() is not called.
unloadOnly ==
    /\ m_lib' = None
    /\ wanted' = None
    /\ UNCHANGED <<opened, m_functions, ran, overwritten>>

\* Faulty variant: the pointer is not reset, and deleted anew by the next call.
unloadAgain ==
    /\ \/ m_lib = None /\ UNCHANGED opened
       \/ /\ m_lib # None
          /\ opened' = [opened EXCEPT ![m_lib] = @ - 1]
    /\ wanted' = None
    /\ UNCHANGED <<m_lib, m_functions, ran, overwritten>>

\* unloadLibrary() and ~DynamicLib().  The table keeps its pointers.
unloadLibrary ==
    /\ \/ m_lib = None /\ UNCHANGED <<m_lib, opened>>
       \/ /\ m_lib # None
          /\ opened' = [opened EXCEPT ![m_lib] = @ - 1]
          /\ m_lib' = None
    /\ wanted' = None
    /\ UNCHANGED <<m_functions, ran, overwritten>>

\* Any function of the C API, forwarded through the table.
Forward(s) ==
    /\ wanted # None
    /\ ran' = m_functions[s]
    /\ UNCHANGED <<m_lib, m_functions, opened, wanted, overwritten>>
-----------------------------------------------------------------------------
Init ==
    /\ m_lib = None
    /\ m_functions = [s \in Symbol |-> None]
    /\ opened = [p \in Path |-> 0]
    /\ wanted = None
    /\ ran = None
    /\ overwritten = [p \in Path |-> 0]

Next ==
    \/ LoadNothing
    \/ \E p \in Path : loadLibrary(p)
    \/ unloadLibrary
    \/ \E s \in Symbol : Forward(s)

Spec == Init /\ [][Next]_vars
-----------------------------------------------------------------------------
\* Type invariant.
TypeOK ==
    /\ m_lib \in Path \cup {None}
    /\ m_functions \in [Symbol -> Path \cup {None}]
    /\ opened \in [Path -> 0 .. MaxOpen]
    /\ wanted \in Path \cup {None}
    /\ ran \in Path \cup {None}
    /\ overwritten \in [Path -> Nat]

\* While the client takes a library for loaded, every function of the API is
\* that library's and the library is mapped: no load that failed before and no
\* library loaded before has left a pointer behind.
TableWhole ==
    wanted # None =>
       /\ m_lib = wanted
       /\ opened[wanted] > 0
       /\ \A s \in Symbol : m_functions[s] = wanted

\* A library in which a symbol is missing is never run, not even for the
\* functions that were found.
OnlyCompleteRun == ran # None => Exports[ran] = Symbol

\* The handles left open are the one that the loader holds and one for each
\* time the client loaded over a library, also over one whose load failed: a
\* client that unloads first, whatever its loads came to, leaves none open.
HandlesAccounted ==
    \A p \in Path :
       opened[p] = overwritten[p] + IF m_lib = p THEN 1 ELSE 0
=============================================================================
