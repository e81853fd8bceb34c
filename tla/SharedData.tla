----------------------------- MODULE SharedData -----------------------------
(***************************************************************************)
(* What BaseEngine promises about handles: a datum is created with one     *)
(* owner, duplicating a handle adds an owner and copies nothing,           *)
(* destroying a handle removes one, and the datum ceases to exist with     *)
(* its last owner, neither before nor after.                               *)
(***************************************************************************)
CONSTANTS Object, Data    \* owners, and what they own
VARIABLES alive,          \* data that exist
          owners          \* owners of each datum, as the client knows them

shared == <<alive, owners>>

Owning(o) == \E d \in Data : o \in owners[d]

SharedInit == alive = {} /\ owners = [d \in Data |-> {}]

Create(o, d) ==
    /\ d \notin alive /\ ~Owning(o)
    /\ alive' = alive \cup {d}
    /\ owners' = [owners EXCEPT ![d] = {o}]

Share(o, new, d) ==
    /\ o \in owners[d] /\ ~Owning(new)
    /\ owners' = [owners EXCEPT ![d] = @ \cup {new}]
    /\ UNCHANGED alive

Release(o, d) ==
    /\ o \in owners[d]
    /\ owners' = [owners EXCEPT ![d] = @ \ {o}]
    /\ alive' = IF owners[d] = {o} THEN alive \ {d} ELSE alive

SharedNext ==
    \E o \in Object, d \in Data :
       \/ Create(o, d)
       \/ \E new \in Object : Share(o, new, d)
       \/ Release(o, d)

SharedSpec == SharedInit /\ [][SharedNext]_shared
=============================================================================
