----------------------------- MODULE ContractLedger -----------------------------
(***************************************************************************)
(* What the contract machinery promises, with no threads, tables or locks: *)
(* an id is bound once, to one holder or to nobody; it is used only while  *)
(* bound, and only by its holder when it has one; once void it stays void. *)
(***************************************************************************)
CONSTANTS Sids, Agents, Nobody

VARIABLES
    ledger,   \* id -> "unused", "bound" or "void"
    holder,   \* id -> the agent it is bound to, or Nobody
    uses      \* every <<agent, id>> under which a contract has run

ledgerVars == <<ledger, holder, uses>>

Init ==
    /\ ledger = [s \in Sids |-> "unused"]
    /\ holder = [s \in Sids |-> Nobody]
    /\ uses   = {}

Bind(s, a) ==
    /\ ledger[s] = "unused"
    /\ ledger' = [ledger EXCEPT ![s] = "bound"]
    /\ holder' = [holder EXCEPT ![s] = a]
    /\ UNCHANGED uses

Use(s, a) ==
    /\ ledger[s] = "bound"
    /\ holder[s] \in {a, Nobody}
    /\ uses' = uses \cup {<<a, s>>}
    /\ UNCHANGED <<ledger, holder>>

\* One contract is evicted, or a restart voids every bound one at once.
Void(S) ==
    /\ \A s \in S : ledger[s] = "bound"
    /\ ledger' = [s \in Sids |-> IF s \in S THEN "void" ELSE ledger[s]]
    /\ UNCHANGED <<holder, uses>>

Next ==
    \/ \E s \in Sids, a \in Agents \cup {Nobody} : Bind(s, a)
    \/ \E s \in Sids, a \in Agents : Use(s, a)
    \/ \E S \in SUBSET Sids : Void(S)

Spec == Init /\ [][Next]_ledgerVars
=============================================================================
