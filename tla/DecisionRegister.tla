-------------------------- MODULE DecisionRegister --------------------------
(***************************************************************************)
(* What asynchronous evaluation promises to proposers and pollers, with no *)
(* threads, sweeps or locks: a proposal is filed once and decided once,    *)
(* and an answer that carries a decision carries the one that was taken,   *)
(* with nothing of the other.                                              *)
(***************************************************************************)
CONSTANTS Filed, Pollers, Nil

VARIABLES
  decision,   \* [proposal -> "unfiled", "pending", "accepted" or "rejected"]
  told        \* [poller -> Nil, or the decision it is being answered with]

registerVars == <<decision, told>>

Verdicts == {"accepted", "rejected"}
CodeOf(v) == IF v = "accepted" THEN 263 ELSE 463

Init ==
  /\ decision = [i \in Filed |-> "unfiled"]
  /\ told = [p \in Pollers |-> Nil]

File(i) ==
  /\ decision[i] = "unfiled"
  /\ decision' = [decision EXCEPT ![i] = "pending"]
  /\ UNCHANGED told

Decide(i, v) ==
  /\ decision[i] = "pending"
  /\ decision' = [decision EXCEPT ![i] = v]
  /\ UNCHANGED told

(* A verdict may reach the poller before its status or its body does: the
   answer is then a plain 200, or carries no body. *)
Tell(p, i, code, body) ==
  /\ told[p] = Nil
  /\ decision[i] \in Verdicts /\ code \in {200, CodeOf(decision[i])} /\ body \in {Nil, decision[i]}
  /\ told' = [told EXCEPT ![p] = [id |-> i, verdict |-> decision[i], code |-> code, body |-> body]]
  /\ UNCHANGED decision

Forget(p) ==
  /\ told[p] # Nil
  /\ told' = [told EXCEPT ![p] = Nil]
  /\ UNCHANGED decision

Next ==
  \/ \E i \in Filed : File(i) \/ \E v \in Verdicts : Decide(i, v)
  \/ \E p \in Pollers : \/ Forget(p)
                        \/ \E i \in Filed, code \in {200, 263, 463}, body \in Verdicts \cup {Nil} : Tell(p, i, code, body)

Spec == Init /\ [][Next]_registerVars
=============================================================================
