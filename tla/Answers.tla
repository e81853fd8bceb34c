------------------------------- MODULE Answers -------------------------------
(***************************************************************************)
(* What a call on a workload parameters object came to: the call, the      *)
(* index it was about, whether it threw and what it returned.              *)
(***************************************************************************)
Ended(call, i, status, v) ==
    [call |-> call, index |-> i, status |-> status, value |-> v]

\* A constructor that returned.
Done(call) == Ended(call, 0, "ok", 0)
=============================================================================
