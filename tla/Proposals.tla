----------------------------- MODULE Proposals -----------------------------
(***************************************************************************)
(* Asynchronous proposals (src/server/proposal_store.py), the poll that    *)
(* reads them (query_proposal in builtins.py) and the command line that    *)
(* proposes (src/client/cli/propose.py).  PROPOSE only files a record; an  *)
(* evaluation engine of the deployment decides it later through            *)
(* resolve_accepted or resolve_rejected, and may sweep the overdue ones.   *)
(* The store's lock is held while a record changes, but a poll keeps the   *)
(* record it looked up and reads its fields without the lock.              *)
(***************************************************************************)
EXTENDS Naturals, FiniteSets

CONSTANTS
  Filed,      \* proposal ids
  Deciders,   \* threads of the evaluation engine, the sweep among them
  Pollers,    \* threads answering QUERY /proposals
  Nil,        \* nothing
  Bodies,     \* proposals the command line may send: [name, approved, wellFormed, duration]
  Policy,     \* the server's: [enabled, async, composable, near]; near is [name -> name]
  Current,    \* whether the server a command meets is this one, or one from before the
              \* 26x and 46x codes (docs/propose.md:26): a set of Booleans
  Deadline, MaxClock

(* ProposalRecord, as far as a poll or a sweep looks at it. *)
Entries == [state : {"pending", "accepted", "rejected"}, status : {Nil, 263, 463},
            body : {Nil, "accepted", "rejected"}, deadline : Nat]

ASSUME ProposalAssumption ==
  Deadline \in Nat /\ Nil \notin Deciders \cup {"accepted", "rejected"} /\ Nil \notin Entries

VARIABLES
  filed,      \* [id -> Nil or [state, status, body, deadline]]
  storeLock,  \* holder of the store's lock
  decider,    \* [thread -> [at, id, verdict]]
  overdue,    \* ids the running sweep has listed
  poll,       \* [thread -> [at, id, state, body, code]]
  time,
  cli         \* the command line: [at, draft, response, rounds, exit]; a response
              \* is [code, accepted, counter]

proposalVars == <<filed, storeLock, decider, overdue, poll, time, cli>>

AtRest == [at |-> "idle", id |-> Nil, verdict |-> Nil]
NoPoll == [at |-> "idle", id |-> Nil, state |-> Nil, body |-> Nil, code |-> 0]
ProposalInit ==
  /\ filed = [i \in Filed |-> Nil] /\ storeLock = Nil /\ decider = [d \in Deciders |-> AtRest]
  /\ overdue = {} /\ poll = [p \in Pollers |-> NoPoll] /\ time = 0
  /\ cli = [at |-> "draft", draft |-> Nil, response |-> Nil, rounds |-> 0, exit |-> Nil]

Known == {i \in Filed : filed[i] # Nil}

(* handle_propose with async_evaluation_enabled: 261 and a record. *)
File(i) ==
  /\ filed[i] = Nil /\ storeLock = Nil
  /\ filed' = [filed EXCEPT ![i] =
       [state |-> "pending", status |-> Nil, body |-> Nil, deadline |-> time + Deadline]]
  /\ UNCHANGED <<storeLock, decider, overdue, poll, time, cli>>

(* Mutant of Take: the last decision wins. *)
TakeAlways(d, i) == filed' = [filed EXCEPT ![i].state = decider[d].verdict] /\ storeLock' = d
  /\ decider' = [decider EXCEPT ![d].at = "status"]

(* _resolve: under the lock, a pending record gets its state first. *)
Take(d, i) ==
  IF filed[i].state = "pending"
  THEN /\ filed' = [filed EXCEPT ![i].state = decider[d].verdict] /\ storeLock' = d
       /\ decider' = [decider EXCEPT ![d].at = "status"]
  ELSE decider' = [decider EXCEPT ![d] = AtRest] /\ UNCHANGED <<filed, storeLock>>

Decide(d) ==
  /\ decider[d].at = "idle" /\ \E i \in Known : filed[i].state = "pending"
  /\ \E i \in Known, v \in {"accepted", "rejected"} :
       decider' = [decider EXCEPT ![d] = [at |-> "state", id |-> i, verdict |-> v]]
  /\ UNCHANGED <<filed, storeLock, overdue, poll, time, cli>>

SetState(d) ==
  /\ decider[d].at = "state" /\ storeLock = Nil /\ Take(d, decider[d].id)
  /\ UNCHANGED <<overdue, poll, time, cli>>

SetStatus(d) ==
  /\ decider[d].at = "status" /\ decider' = [decider EXCEPT ![d].at = "body"]
  /\ filed' = [filed EXCEPT ![decider[d].id].status = IF decider[d].verdict = "accepted" THEN 263 ELSE 463]
  /\ UNCHANGED <<storeLock, overdue, poll, time, cli>>

SetBody(d) ==
  /\ decider[d].at = "body" /\ decider' = [decider EXCEPT ![d] = AtRest] /\ storeLock' = Nil
  /\ filed' = [filed EXCEPT ![decider[d].id].body = decider[d].verdict]
  /\ UNCHANGED <<overdue, poll, time, cli>>

(* sweep_expired lists under the lock and rejects one by one without it. *)
SweepScan ==
  /\ overdue = {} /\ storeLock = Nil
  /\ overdue' = {i \in Known : filed[i].state = "pending" /\ time >= filed[i].deadline}
  /\ overdue' # {} /\ UNCHANGED <<filed, storeLock, decider, poll, time, cli>>
SweepOne(d) ==
  /\ decider[d].at = "idle" /\ \E i \in overdue :
       /\ overdue' = overdue \ {i}
       /\ decider' = [decider EXCEPT ![d] = [at |-> "state", id |-> i, verdict |-> "rejected"]]
  /\ UNCHANGED <<filed, storeLock, poll, time, cli>>

(***************************************************************************)
(* query_proposal: the record is looked up under the lock; its state, body *)
(* and status are read afterwards, one after the other.                    *)
(***************************************************************************)
LookUp(p, i) ==
  /\ poll[p].at = "idle" /\ storeLock = Nil
  /\ poll' = [poll EXCEPT ![p] = IF filed[i] = Nil THEN [NoPoll EXCEPT !.id = i, !.code = 404, !.at = "answered"]
                                 ELSE [NoPoll EXCEPT !.at = "state", !.id = i]]
  /\ UNCHANGED <<filed, storeLock, decider, overdue, time, cli>>
ReadState(p) ==
  /\ poll[p].at = "state"
  /\ poll' = [poll EXCEPT ![p].at = IF filed[poll[p].id].state = "pending" THEN "answered" ELSE "body",
                          ![p].state = filed[poll[p].id].state,
                          ![p].code = IF filed[poll[p].id].state = "pending" THEN 261 ELSE 0]
  /\ UNCHANGED <<filed, storeLock, decider, overdue, time, cli>>
ReadBody(p) ==
  /\ poll[p].at = "body"
  /\ poll' = [poll EXCEPT ![p].at = "status", ![p].body = filed[poll[p].id].body]
  /\ UNCHANGED <<filed, storeLock, decider, overdue, time, cli>>
ReadStatus(p) ==
  /\ poll[p].at = "status"
  /\ poll' = [poll EXCEPT ![p].at = "answered",
                          ![p].code = IF filed[poll[p].id].status = Nil THEN 200 ELSE filed[poll[p].id].status]
  /\ UNCHANGED <<filed, storeLock, decider, overdue, time, cli>>
Answered(p) ==
  /\ poll[p].at = "answered" /\ poll' = [poll EXCEPT ![p] = NoPoll]
  /\ UNCHANGED <<filed, storeLock, decider, overdue, time, cli>>

Pass(n) == time < MaxClock /\ time' = n /\ UNCHANGED <<filed, storeLock, decider, overdue, poll, cli>>

(***************************************************************************)
(* The command line: compose a draft at the prompt or read one from a      *)
(* file, send it, read the answer, and offer to take a counter-proposal    *)
(* up, once.                                                               *)
(***************************************************************************)
CliAt(step) == cli.at = step /\ UNCHANGED <<filed, storeLock, decider, overdue, poll, time>>
(* handle_propose without asynchronous evaluation, in the order it checks. *)
Response(code, accepted, counter) == [code |-> code, accepted |-> accepted, counter |-> counter]
Malformed(b) == ~b.wellFormed \/ (Policy.enabled /\ b.duration = "malformed")
(* find_counter_proposal: the same proposal under the nearest known name. *)
Counter(b) == IF b.name \in DOMAIN Policy.near THEN [b EXCEPT !.name = Policy.near[b.name]] ELSE Nil
Respond(b, current) ==
  IF Malformed(b) THEN Response(400, FALSE, Nil)
  ELSE IF ~Policy.enabled THEN Response(463, FALSE, Nil)
  ELSE IF Policy.async THEN Response(261, FALSE, Nil)
  ELSE IF b.name \in Policy.composable THEN Response(IF current THEN 263 ELSE 200, TRUE, Nil)
  ELSE Response(IF current THEN 463 ELSE 422, FALSE, Counter(b))
Lost == Response(0, FALSE, Nil)   \* no connection, no answer

(* Each field is asked for until its check passes; the draft that comes out
   is complete. *)
Checked(b) == b.approved /\ b.wellFormed /\ b.duration = "none"
CliWalk ==
  /\ CliAt("draft")
  /\ \E b \in Bodies : Checked(b) /\ cli' = [cli EXCEPT !.at = "preview", !.draft = b]
CliPreview ==
  /\ CliAt("preview")
  /\ \/ \E step \in {"send", "draft"} : cli' = [cli EXCEPT !.at = step]
     \/ cli' = [cli EXCEPT !.at = "exit", !.exit = 1]   \* cancelled, or saved for later
(* A body from -d or a file: only its verb and path are checked. *)
CliLoad ==
  /\ CliAt("draft")
  /\ \/ cli' = [cli EXCEPT !.at = "exit", !.exit = 2]
     \/ \E b \in Bodies :
          cli' = IF b.approved THEN [cli EXCEPT !.at = "send", !.draft = b] ELSE [cli EXCEPT !.at = "exit", !.exit = 1]
CliSend ==
  /\ CliAt("send")
  /\ \E r \in {Respond(cli.draft, c) : c \in Current} \cup {Lost} : cli' = [cli EXCEPT !.at = "render", !.response = r]

(* _render_propose_response: success is a 200; an offer is a 422. *)
CliRender ==
  /\ CliAt("render")
  /\ cli' = [cli EXCEPT !.at = IF cli.response.code = 422 /\ cli.response.counter # Nil /\ cli.rounds = 0
                               THEN "confirm" ELSE "exit",
                        !.exit = IF cli.response.code = 200 THEN 0 ELSE 1]
CliConfirm ==
  /\ CliAt("confirm")
  /\ \/ cli' = [cli EXCEPT !.at = "exit"]
     \/ cli' = [cli EXCEPT !.at = "send", !.draft = cli.response.counter, !.rounds = 1, !.exit = Nil]

StoreNext ==
  \/ (\E i \in Filed : File(i)) \/ SweepScan \/ Pass(time + 1)
  \/ \E d \in Deciders : Decide(d) \/ SetState(d) \/ SetStatus(d) \/ SetBody(d) \/ SweepOne(d)
  \/ \E p \in Pollers : (\E i \in Filed : LookUp(p, i)) \/ ReadState(p) \/ ReadBody(p) \/ ReadStatus(p) \/ Answered(p)
CliNext == CliWalk \/ CliPreview \/ CliLoad \/ CliSend \/ CliRender \/ CliConfirm
ProposalNext == StoreNext \/ CliNext

ProposalSpec == ProposalInit /\ [][ProposalNext]_proposalVars
-----------------------------------------------------------------------------
(* server/proposal_store.py:131: the first decision stands, be it an
   engine's or the deadline's, whoever else decides at the same time. *)
DecisionIsFinal ==
  [][\A i \in Known : filed[i].state # "pending" => filed'[i].state = filed[i].state]_proposalVars

(* A poll never mixes two decisions, and never reports one that was not
   taken: status and body, where it carries them, are the record's own. *)
PollsDoNotMix ==
  \A p \in Pollers : poll[p].code \in {263, 463} =>
    /\ poll[p].state = (IF poll[p].code = 263 THEN "accepted" ELSE "rejected")
    /\ filed[poll[p].id].state = poll[p].state /\ poll[p].body \in {Nil, poll[p].state}

(* server/proposal_store.py:131, builtins.py:297: to those who file and poll,
   the store is a register in which a proposal is decided once, by an engine
   or by its deadline, whoever else decides at the same time; and although a
   poll reads a record field by field while it is being decided, what it
   answers is one decision, taken, with nothing of another. *)
Decision(i) == IF filed[i] = Nil THEN "unfiled" ELSE filed[i].state
Tells(p) ==
  IF poll[p].at = "answered" /\ poll[p].state \in {"accepted", "rejected"}
  THEN [id |-> poll[p].id, verdict |-> poll[p].state, code |-> poll[p].code, body |-> poll[p].body]
  ELSE Nil
Decisions == INSTANCE DecisionRegister WITH
  decision <- [i \in Filed |-> Decision(i)], told <- [p \in Pollers |-> Tells(p)]
ImplementsRegister == Decisions!Spec

(* client/cli/propose.py:20: the command succeeds when the proposal was
   accepted, and only then.  Kept with the servers of old, Current = {FALSE};
   this one answers with 263, which the command takes for a failure. *)
CliReportsAcceptance == cli.at = "exit" /\ cli.response # Nil => (cli.exit = 0) = cli.response.accepted
=============================================================================
