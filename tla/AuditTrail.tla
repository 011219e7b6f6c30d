----------------------------- MODULE AuditTrail -----------------------------
(***************************************************************************)
(* The Attribution-Records a daemon keeps per agent: each names the one    *)
(* before it, a head file names the last (_finalize_response in            *)
(* src/server/main.py, audit_chain.py, audit_records.py).  Connection      *)
(* threads append under one lock of the process; both writes may fail and  *)
(* are then only logged, and the daemon may die between them.  The         *)
(* operator's tools walk the chains and rebuild heads from another process *)
(* that does not share the lock (src/tools/chain_integrity_check.py).      *)
(***************************************************************************)
EXTENDS Naturals, FiniteSets

CONSTANTS
  Writers,     \* connection threads
  Owners,      \* agents with a chain
  Nobody,      \* no thread, no agent: a response for the server itself
  RepairLive,  \* the tool is run while the daemon serves
  MaxRecords, MaxWriteFaults, MaxRepairs  \* bounds

ASSUME TrailAssumption ==
  /\ RepairLive \in BOOLEAN /\ {MaxRecords, MaxWriteFaults, MaxRepairs} \subseteq Nat
  /\ Nobody \notin Writers \cup Owners
  /\ Nobody \notin [agent : Owners \cup {Nobody}, prev : 0..MaxRecords]

Ids == 1..MaxRecords   \* audit ids, in the order the records are built; 0 is none

VARIABLES
  stage,    \* [writer -> next step of its append]
  whose,    \* [writer -> agent of its response]
  building, \* [writer -> id of its record]
  holder,   \* who is inside audit_append_transaction
  record,   \* [id -> record built: [agent, prev], or Nobody]
  onDisk,   \* ids AuditRecordStore holds
  headOf,   \* [agent -> id in its head file, 0 without one]
  sentIds,  \* ids whose response went out
  headLost, bodyLost, \* ids whose head write or record write failed
  plan,     \* [agent -> tip the repair tool found, 0 for none]
  repairs, writeFaults \* counted against their bounds

trailVars == <<stage, whose, building, holder, record, onDisk, headOf, sentIds,
               headLost, bodyLost, plan, repairs, writeFaults>>

TrailInit ==
  /\ stage = [w \in Writers |-> "idle"] /\ whose = [w \in Writers |-> Nobody]
  /\ building = [w \in Writers |-> 0] /\ holder = Nobody
  /\ record = [i \in Ids |-> Nobody] /\ onDisk = {} /\ headOf = [a \in Owners |-> 0]
  /\ sentIds = {} /\ headLost = {} /\ bodyLost = {}
  /\ plan = [a \in Owners |-> 0] /\ repairs = 0 /\ writeFaults = 0

Built == {i \in Ids : record[i] # Nobody}
Step(w, from, to) == stage[w] = from /\ stage' = [stage EXCEPT ![w] = to]
WriteFails == writeFaults < MaxWriteFaults /\ writeFaults' = writeFaults + 1

Finalize(w) ==
  /\ Step(w, "idle", "waiting")
  /\ \E a \in Owners \cup {Nobody} : whose' = [whose EXCEPT ![w] = a]
  /\ UNCHANGED <<building, holder, record, onDisk, headOf, sentIds, headLost, bodyLost, plan, repairs, writeFaults>>

(* Mutant of Build: the head is read before the lock is taken. *)
BuildUnlocked(w) ==
  /\ Step(w, "waiting", "record")
  /\ \E i \in Ids \ Built :
       /\ \A j \in Ids \ Built : i <= j
       /\ record' = [record EXCEPT ![i] = [agent |-> whose[w], prev |-> IF whose[w] = Nobody THEN 0 ELSE headOf[whose[w]]]]
       /\ building' = [building EXCEPT ![w] = i]
  /\ UNCHANGED <<whose, holder, onDisk, headOf, sentIds, headLost, bodyLost, plan, repairs, writeFaults>>

(* Mutant of Build: the head file is moved before the record is stored. *)
BuildMovesHead(w) ==
  /\ Step(w, "waiting", "record") /\ holder = Nobody /\ holder' = w
  /\ \E i \in Ids \ Built :
       /\ \A j \in Ids \ Built : i <= j
       /\ record' = [record EXCEPT ![i] =
            [agent |-> whose[w], prev |-> IF whose[w] = Nobody THEN 0 ELSE headOf[whose[w]]]]
       /\ building' = [building EXCEPT ![w] = i]
       /\ headOf' = [a \in Owners |-> IF a = whose[w] THEN i ELSE headOf[a]]
  /\ UNCHANGED <<whose, onDisk, sentIds, headLost, bodyLost, plan, repairs, writeFaults>>

(* The lock is taken, the head read and the record built on it. *)
Build(w) ==
  /\ Step(w, "waiting", "record") /\ holder = Nobody /\ holder' = w
  /\ \E i \in Ids \ Built :
       /\ \A j \in Ids \ Built : i <= j
       /\ record' = [record EXCEPT ![i] =
            [agent |-> whose[w], prev |-> IF whose[w] = Nobody THEN 0 ELSE headOf[whose[w]]]]
       /\ building' = [building EXCEPT ![w] = i]
  /\ UNCHANGED <<whose, onDisk, headOf, sentIds, headLost, bodyLost, plan, repairs, writeFaults>>

(* AuditRecordStore.write, best effort. *)
WriteRecord(w) ==
  /\ Step(w, "record", "head")
  /\ \/ onDisk' = onDisk \cup {building[w]} /\ UNCHANGED <<bodyLost, writeFaults>>
     \/ WriteFails /\ bodyLost' = bodyLost \cup {building[w]} /\ UNCHANGED onDisk
  /\ UNCHANGED <<whose, building, holder, record, headOf, sentIds, headLost, plan, repairs>>

(* AuditChainStore.write, best effort, whether the record was stored or not;
   then the lock is released. *)
WriteHead(w) ==
  /\ Step(w, "head", "send") /\ holder' = Nobody
  /\ \/ whose[w] = Nobody /\ UNCHANGED <<headOf, headLost, writeFaults>>
     \/ /\ whose[w] # Nobody /\ headOf' = [headOf EXCEPT ![whose[w]] = building[w]]
        /\ UNCHANGED <<headLost, writeFaults>>
     \/ whose[w] # Nobody /\ WriteFails /\ headLost' = headLost \cup {building[w]} /\ UNCHANGED headOf
  /\ UNCHANGED <<whose, building, record, onDisk, sentIds, bodyLost, plan, repairs>>

SendResponse(w) ==
  /\ Step(w, "send", "idle") /\ sentIds' = sentIds \cup {building[w]}
  /\ whose' = [whose EXCEPT ![w] = Nobody] /\ building' = [building EXCEPT ![w] = 0]
  /\ UNCHANGED <<holder, record, onDisk, headOf, headLost, bodyLost, plan, repairs, writeFaults>>

(* Death at any point; the files stay, the lock does not. *)
Die ==
  /\ WriteFails
  /\ stage' = [w \in Writers |-> "idle"] /\ whose' = [w \in Writers |-> Nobody]
  /\ building' = [w \in Writers |-> 0] /\ holder' = Nobody
  /\ UNCHANGED <<record, onDisk, headOf, sentIds, headLost, bodyLost, plan, repairs>>
-----------------------------------------------------------------------------
(***************************************************************************)
(* agtp-chain-integrity-check: walk_chain from the head, and --repair-heads*)
(***************************************************************************)
Chain(a) == {i \in onDisk : record[i].agent = a}
Referenced(a) == {record[i].prev : i \in Chain(a)}
Tips(a) == Chain(a) \ Referenced(a)

(* Records a walk from an id reads; 0 among them when it reaches genesis. *)
WalkFrom ==
  LET walk[i \in 0..MaxRecords] ==
        IF i = 0 THEN {0}
        ELSE IF i \notin onDisk THEN {} ELSE {i} \cup walk[record[i].prev]
  IN walk
WalkOK(a) == 0 \in WalkFrom[headOf[a]]

(* Mutant of Recoverable: any tip will do. *)
RecoverableAnyTip(a, i) == i \in Tips(a) /\ 0 \in WalkFrom[i]

(* discover_recoverable_heads: one tip, and its chain is all there is. *)
Recoverable(a, i) == Tips(a) = {i} /\ WalkFrom[i] = Chain(a) \cup {0}

DaemonDown == \A w \in Writers : stage[w] = "idle"
Scan ==
  /\ repairs < MaxRepairs /\ repairs' = repairs + 1 /\ plan = [a \in Owners |-> 0]
  /\ RepairLive \/ DaemonDown
  /\ plan' = [a \in Owners |-> IF \E i \in Ids : Recoverable(a, i)
                               THEN CHOOSE i \in Ids : Recoverable(a, i) ELSE 0]
  /\ UNCHANGED <<stage, whose, building, holder, record, onDisk, headOf, sentIds, headLost, bodyLost, writeFaults>>

(* repair_heads: the head is compared and overwritten. *)
Repair(a) ==
  /\ plan[a] # 0 /\ plan' = [plan EXCEPT ![a] = 0] /\ headOf' = [headOf EXCEPT ![a] = plan[a]]
  /\ RepairLive \/ DaemonDown
  /\ UNCHANGED <<stage, whose, building, holder, record, onDisk, sentIds, headLost, bodyLost, repairs, writeFaults>>

(* Run with the daemon down, the tool is done before the daemon is back. *)
Writing(w) ==
  /\ RepairLive \/ \A a \in Owners : plan[a] = 0
  /\ Finalize(w) \/ Build(w) \/ WriteRecord(w) \/ WriteHead(w) \/ SendResponse(w)
TrailNext == Die \/ Scan \/ (\E a \in Owners : Repair(a)) \/ \E w \in Writers : Writing(w)
TrailSpec == TrailInit /\ [][TrailNext]_trailVars
-----------------------------------------------------------------------------
(* server/audit_chain.py:50: the read of the head and the writes are one
   transaction, so no two responses an agent received name the same
   predecessor, unless a write for one of them failed.  (A record that was
   lost counts: rebuilding heads takes the chain back to before it.) *)
SentChainsAreLinear ==
  ~RepairLive => \A i, j \in sentIds :
     i # j /\ record[i].agent = record[j].agent /\ record[i].agent # Nobody /\ record[i].prev = record[j].prev
       => {i, j} \cap (headLost \cup bodyLost) # {}

(* The record is written before the head: a crash alone, however timed,
   leaves no head that points at a record the store does not hold. *)
HeadsWalkable == bodyLost = {} => \A a \in Owners : WalkOK(a)

(* tools/chain_integrity_check.py:199: a head is rebuilt only where nothing
   is lost by it: all the records of the agent hang from the rebuilt head. *)
RepairLosesNothing ==
  [][\A a \in Owners : plan[a] # 0 /\ plan'[a] = 0
       => Chain(a) \subseteq WalkFrom[headOf'[a]]]_trailVars

(* server/audit_chain.py:50: no append orphans a branch.  A record that a walk
   from its agent's head reads is read by every later walk: appends, heads
   that fail to be written, deaths and repairs with the daemon down leave it
   there, as long as no body was lost. *)
ChainsOnlyGrow ==
  [][~RepairLive /\ bodyLost = {}
       => \A a \in Owners : WalkFrom[headOf[a]] \subseteq (WalkFrom[headOf[a]])']_trailVars
=============================================================================
