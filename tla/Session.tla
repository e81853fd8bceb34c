------------------------------- MODULE Session -------------------------------
(***************************************************************************)
(* The Test Harness as api.h describes it: a client that obtains handles   *)
(* from the bridge, "will call destroyHandle() to clean up a handle it no  *)
(* longer needs" and "will take care to destroy handles in reverse order   *)
(* in which it obtained them".  At the end of a session it destroys all it *)
(* has left.  The client is external; the library's calls are Bridge's,    *)
(* without what Bridge assumes of its client.                              *)
(***************************************************************************)
EXTENDS Bridge, SequencesExt

VARIABLES
    obtained,   \* the handles the client holds, in the order it got them
    closing     \* whether the session is being cleaned up

sessionVars == <<vars, obtained, closing>>

\* Faulty variant: handles are destroyed in the order they were obtained.
FirstObtained(seq) == 1

\* The place in the list of the handle the client destroys next.
NextToDestroy(seq) == Len(seq)

\* Faulty variant: a handle is listed each time a call returns it.
ListedAgain(before, after) == SetToSeq(after)

\* The handles a call gave the client: those of subscribeBenchmarks() are one
\* array, and no news if they were subscribed before.
Received(before, after) == SetToSeq(after \ before)

Use ==
    /\ ~closing
    /\ Calls
    /\ obtained' = obtained \o Received(held, held')
    /\ UNCHANGED closing

\* The client need not look at what destroyHandle() returns.
DestroyOne ==
    /\ obtained # <<>>
    /\ LET i == NextToDestroy(obtained) IN
       /\ CallDestroyHandle(obtained[i])
       /\ obtained' = RemoveAt(obtained, i)
    /\ UNCHANGED closing

DestroyNothing ==
    CallDestroyHandle(NullHandle) /\ UNCHANGED <<obtained, closing>>

Close == ~closing /\ closing' = TRUE /\ UNCHANGED <<vars, obtained>>

\* The library stays loaded and serves another session.
Reopen ==
    /\ closing /\ obtained = <<>>
    /\ closing' = FALSE
    /\ UNCHANGED <<vars, obtained>>

SessionInit == Init /\ obtained = <<>> /\ closing = FALSE

SessionNext == Use \/ DestroyOne \/ DestroyNothing \/ Close \/ Reopen

\* A cleanup that was begun goes on.
CleanUp == closing /\ DestroyOne

SessionSpec ==
    SessionInit /\ [][SessionNext]_sessionVars /\ WF_sessionVars(CleanUp)
-----------------------------------------------------------------------------
(* Properties.                                                             *)

\* The client knows what it holds, once each.
SessionTypeOK ==
    /\ ToSet(obtained) = held /\ IsInjective(obtained)
    /\ closing \in BOOLEAN

\* Reverse order is all a client needs to do to stay within what Bridge
\* assumes of it: it never destroys an engine before something it obtained
\* through it, so that all that holds of Bridge holds of a session.
ClientIsSafe == Spec

\* A cleanup comes to an end that leaves nothing in the library: each branch
\* of destroyHandle() releases all that is behind its kind of handle, and
\* what the handles share is freed with the last of them.
NothingLeft ==
    /\ engines = {}
    /\ \A b \in Bench : benchEngine[b] = None
    /\ \A w \in Wrapper : wrapperBench[w] = None
    /\ \A o \in Object : objData[o] = None
    /\ \A d \in Data : useCount[d] = 0

CleanUpEnds == closing ~> held = {} /\ NothingLeft
=============================================================================
