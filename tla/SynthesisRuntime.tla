---------------------------- MODULE SynthesisRuntime ----------------------------
(***************************************************************************)
(* The tables of server/synthesis/runtime.py and the critical sections     *)
(* that touch them.  The runtime keeps one dict of plans and four side     *)
(* tables behind one lock, and mirrors every contract in a second, legacy  *)
(* registry (SYNTHESES) that has a lock of its own.  Every definition      *)
(* below that primes a variable is exactly one locked region; the handlers *)
(* of ContractServer string them together with unlocked gaps in between.   *)
(***************************************************************************)
EXTENDS Integers, FiniteSets

CONSTANTS
    Sids,     \* the ids new_synthesis_id() can return
    Agents,   \* Agent-IDs
    Plans,    \* contract content: endpoint plus recipe lineage
    NoPlan,   \* "not in the dict"
    Nobody    \* no originating agent: an unscoped contract

ASSUME RuntimeAssumption ==
    /\ NoPlan \notin Plans
    /\ Nobody \notin Agents

Origins   == {"propose-explicit", "rcns-confirmed", "rcns-optimistic"}
Deadlines == {"none", "ahead", "passed"}

VARIABLES
    active,           \* synthesis_id -> plan
    expires_at,       \* where its deadline lies relative to the clock
    originating,      \* synthesis_id -> agent it was negotiated for
    contract_hashes,  \* synthesis_id -> hash; sha256 is injective, so the content itself
    origin,           \* synthesis_id -> negotiation origin (absent reads as the default)
    legacy,           \* ids in the legacy registry
    minted            \* history: ids handed out so far, by any incarnation

runtimeVars == <<active, expires_at, originating, contract_hashes, origin,
                 legacy, minted>>

RuntimeTypeOK ==
    /\ active          \in [Sids -> Plans \cup {NoPlan}]
    /\ expires_at      \in [Sids -> Deadlines]
    /\ originating     \in [Sids -> Agents \cup {Nobody}]
    /\ contract_hashes \in [Sids -> Plans \cup {NoPlan}]
    /\ origin          \in [Sids -> Origins]
    /\ legacy          \in SUBSET Sids
    /\ minted          \in SUBSET Sids

EmptyTables ==
    /\ active          = [s \in Sids |-> NoPlan]
    /\ expires_at      = [s \in Sids |-> "none"]
    /\ originating     = [s \in Sids |-> Nobody]
    /\ contract_hashes = [s \in Sids |-> NoPlan]
    /\ origin          = [s \in Sids |-> "propose-explicit"]
    /\ legacy          = {}

RuntimeInit == EmptyTables /\ minted = {}

\* A daemon restart: the tables live in memory only.
RuntimeRestart ==
    /\ active'          = [s \in Sids |-> NoPlan]
    /\ expires_at'      = [s \in Sids |-> "none"]
    /\ originating'     = [s \in Sids |-> Nobody]
    /\ contract_hashes' = [s \in Sids |-> NoPlan]
    /\ origin'          = [s \in Sids |-> "propose-explicit"]
    /\ legacy'          = {}
    /\ UNCHANGED minted

-----------------------------------------------------------------------------
(* What get() finds.  It reads plan and deadline under the lock and compares *)
(* the clock outside it; taking the comparison as the instant of the call    *)
(* gives the same outcomes.                                                  *)

\* Mutant of Live: only the deadline table is consulted.
LiveByDeadline(s) == expires_at[s] # "passed"

Live(s)    == active[s] # NoPlan /\ expires_at[s] # "passed"
Overdue(s) == active[s] # NoPlan /\ expires_at[s] = "passed"
Gone(s)    == active[s] = NoPlan

\* Mutant of Register: ids can come round again.
RegisterReusingIds(s, plan, owner, hash, from, due) ==
    /\ minted'          = minted \cup {s}
    /\ active'          = [active EXCEPT ![s] = plan]
    /\ expires_at'      = [expires_at EXCEPT ![s] = due]
    /\ originating'     = [originating EXCEPT ![s] = owner]
    /\ contract_hashes' = [contract_hashes EXCEPT ![s] = hash]
    /\ origin'          = [origin EXCEPT ![s] = from]
    /\ UNCHANGED legacy

\* The locked block of instantiate(): the plan and every side table at once.
Register(s, plan, owner, hash, from, due) ==
    /\ s \notin minted
    /\ minted'          = minted \cup {s}
    /\ active'          = [active EXCEPT ![s] = plan]
    /\ expires_at'      = [expires_at EXCEPT ![s] = due]
    /\ originating'     = [originating EXCEPT ![s] = owner]
    /\ contract_hashes' = [contract_hashes EXCEPT ![s] = hash]
    /\ origin'          = [origin EXCEPT ![s] = from]
    /\ UNCHANGED legacy

\* Mutant of Mirror: unscoped contracts are left out.
MirrorScopedOnly(s) ==
    /\ legacy' = IF originating[s] = Nobody THEN legacy ELSE legacy \cup {s}
    /\ UNCHANGED <<active, expires_at, originating, contract_hashes, origin, minted>>

\* The legacy entry instantiate() adds after releasing the lock.
Mirror(s) ==
    /\ legacy' = legacy \cup {s}
    /\ UNCHANGED <<active, expires_at, originating, contract_hashes, origin, minted>>

\* The locked block of expire(): plan and side tables go together.
Expire(s) ==
    /\ active'          = [active EXCEPT ![s] = NoPlan]
    /\ expires_at'      = [expires_at EXCEPT ![s] = "none"]
    /\ originating'     = [originating EXCEPT ![s] = Nobody]
    /\ contract_hashes' = [contract_hashes EXCEPT ![s] = NoPlan]
    /\ origin'          = [origin EXCEPT ![s] = "propose-explicit"]
    /\ UNCHANGED <<legacy, minted>>

\* The legacy removal expire() does after releasing the lock.
Unmirror(s) ==
    /\ legacy' = legacy \ {s}
    /\ UNCHANGED <<active, expires_at, originating, contract_hashes, origin, minted>>

\* The clock passes a deadline; nothing notices until the next get().
DeadlinePasses(s) ==
    /\ expires_at[s] = "ahead"
    /\ expires_at' = [expires_at EXCEPT ![s] = "passed"]
    /\ UNCHANGED <<active, originating, contract_hashes, origin, legacy, minted>>
=============================================================================
