----------------------------- MODULE MCLifetimes -----------------------------
(* The run contracts_lifecycle: the instance of MCContracts under one of    *)
(* two loads, drawn at the start.  "lifecycle": requests of every kind, no  *)
(* idempotency keys.  "retries": negotiations under a key, by agents that   *)
(* wait (KeysInTurn), and releases of contracts.                            *)
EXTENDS MCContracts

VARIABLE load

Carried ==
  /\ load = "lifecycle" => \A t \in Threads : req[t].key = NoKey
  /\ load = "retries" => /\ KeysInTurn
                         /\ \A t \in Threads : req[t].key \in Keys \/ req[t].kind \in {"none", "suspend"}

LoadInit == Init /\ load \in {"lifecycle", "retries"}
LoadNext == Next /\ UNCHANGED load /\ Carried'
LoadSpec == LoadInit /\ [][LoadNext]_<<vars, load>>
=============================================================================
