------------------------------ MODULE MCLifecycle ------------------------------
(* Instances of AgentLifecycle for TLC: two connection threads. *)
EXTENDS AgentLifecycle, TLC

AnyThread == Permutations(Threads)
=================================================================================
