-------------------------- MODULE OperationsProofs --------------------------
(***************************************************************************)
(* Proofs about what goes on around a daemon: the decisions on proposals   *)
(* (Proposals), the sweep of sessions after a revocation (CertSessions),   *)
(* the identity a registration leaves in the daemon (Enrollment), the run  *)
(* of a composed plan (Composition) and what the daemon makes of endpoint  *)
(* files (Endpoints), for any number of threads, sessions, sweeps, kills,  *)
(* registrations, policies, plans, documents and boots.                    *)
(***************************************************************************)
EXTENDS Proposals, CertSessions, Enrollment, Composition, Endpoints, TLAPS

-----------------------------------------------------------------------------
(* Decisions on proposals.                                                   *)

Verdicts == {"accepted", "rejected"}
Codes == {263, 463}
CodeOf(v) == IF v = "accepted" THEN 263 ELSE 463

DeciderRecord == [at : {"idle", "state", "status", "body"}, id : Filed \cup {Nil}, verdict : Verdicts \cup {Nil}]
PollRecord == [at : {"idle", "state", "body", "status", "answered"}, id : Filed \cup {Nil},
               state : {Nil, "pending", "accepted", "rejected"},
               body : {Nil, "accepted", "rejected"}, code : Nat]

ProposalTypeOK ==
  /\ filed \in [Filed -> Entries \cup {Nil}] /\ time \in Nat /\ overdue \subseteq Known
  /\ decider \in [Deciders -> DeciderRecord] /\ poll \in [Pollers -> PollRecord]

\* Status and body are empty until the decision, and its own from then on.
Consistent(e) ==
  /\ e.status \in {Nil, CodeOf(e.state)} /\ e.body \in {Nil, e.state}
  /\ e.state = "pending" => e.status = Nil /\ e.body = Nil
OneDecision == \A i \in Known : Consistent(filed[i])

\* A thread that is writing a decision is the one whose verdict stands.
DeciderStands ==
  \A d \in Deciders :
    decider[d].at # "idle" =>
      /\ decider[d].id \in Known /\ decider[d].verdict \in Verdicts
      /\ decider[d].at # "state" => filed[decider[d].id].state = decider[d].verdict

\* What a poll has read so far is of one decision.
ReadSoFar(q) ==
  /\ q.at \in {"state", "body", "status"} => q.id \in Known
  /\ q.at = "state" => q.body = Nil
  /\ q.at \in {"body", "status"} \/ q.code \in Codes =>
       /\ q.id \in Known /\ q.state \in Verdicts
       /\ filed[q.id].state = q.state /\ q.body \in {Nil, q.state}
  /\ q.code \in Codes => q.code = CodeOf(q.state)
PollReads == \A p \in Pollers : ReadSoFar(poll[p])

ProposalInv == ProposalTypeOK /\ OneDecision /\ DeciderStands /\ PollReads

LEMMA NilIsNone == Deadline \in Nat /\ Nil \notin Deciders /\ Nil \notin Entries /\ Nil \notin Verdicts
BY ProposalAssumption DEF Verdicts

LEMMA InitProposals == ProposalInit => ProposalInv
<1> SUFFICES ASSUME ProposalInit
             PROVE  ProposalInv
  OBVIOUS
<1>1. Known = {}
  BY DEF ProposalInit, Known
<1>2. \A d \in Deciders : decider[d] = AtRest
  BY DEF ProposalInit
<1>3. \A p \in Pollers : poll[p] = NoPoll
  BY DEF ProposalInit
<1>4. ProposalTypeOK
  BY <1>1 DEF ProposalInit, ProposalTypeOK, DeciderRecord, PollRecord, AtRest, NoPoll
<1>5. OneDecision /\ DeciderStands /\ PollReads
  BY <1>1, <1>2, <1>3 DEF OneDecision, DeciderStands, PollReads, ReadSoFar, Codes, AtRest, NoPoll
<1> QED
  BY <1>4, <1>5 DEF ProposalInv

\* A record that is being changed field by field stays a record, and the
\* others stay what they are.
LEMMA OneField ==
    ASSUME ProposalTypeOK, NEW i \in Known, NEW e \in Entries, filed' = [filed EXCEPT ![i] = e]
    PROVE  /\ filed' \in [Filed -> Entries \cup {Nil}] /\ Known' = Known
           /\ filed'[i] = e /\ \A j \in Filed : j # i => filed'[j] = filed[j]
BY NilIsNone DEF ProposalTypeOK, Known

\* Typed records and what their fields become.
LEMMA StateField ==
    ASSUME NEW e \in Entries, NEW v \in Verdicts
    PROVE  LET g == [e EXCEPT !.state = v] IN
           g \in Entries /\ g.state = v /\ g.status = e.status /\ g.body = e.body
BY DEF Entries, Verdicts

LEMMA StatusField ==
    ASSUME NEW e \in Entries, NEW n \in Codes
    PROVE  LET g == [e EXCEPT !.status = n] IN
           g \in Entries /\ g.status = n /\ g.state = e.state /\ g.body = e.body
BY DEF Entries, Codes

LEMMA BodyField ==
    ASSUME NEW e \in Entries, NEW v \in Verdicts
    PROVE  LET g == [e EXCEPT !.body = v] IN
           g \in Entries /\ g.body = v /\ g.status = e.status /\ g.state = e.state
BY DEF Entries, Verdicts

\* Steps that leave the records and the polls alone.
LEMMA DecidersOnly ==
    ASSUME ProposalInv, UNCHANGED <<filed, poll>>, time' \in Nat, overdue' \subseteq Known,
           \A d \in Deciders : decider'[d].at # "idle" =>
             /\ decider'[d].id \in Known /\ decider'[d].verdict \in Verdicts
             /\ decider'[d].at # "state" => filed[decider'[d].id].state = decider'[d].verdict,
           decider' \in [Deciders -> DeciderRecord]
    PROVE  ProposalInv'
<1>1. Known' = Known
  BY DEF Known
<1> QED
  BY <1>1 DEF ProposalInv, ProposalTypeOK, OneDecision, Consistent, DeciderStands, PollReads, ReadSoFar

\* Steps that change one decided record in a field of its decision.
LEMMA OneWrite ==
    ASSUME ProposalInv, NEW d \in Deciders, NEW e \in Entries, decider[d].at # "idle",
           filed' = [filed EXCEPT ![decider[d].id] = e], UNCHANGED <<overdue, poll, time>>,
           e.state = decider[d].verdict, Consistent(e),
           filed[decider[d].id].state \in {"pending", e.state},
           NEW r \in DeciderRecord,
           decider' = [decider EXCEPT ![d] = r],
           r.at = "idle" \/ (r.id = decider[d].id /\ r.verdict = decider[d].verdict /\ r.at # "state")
    PROVE  ProposalInv'
<1> DEFINE i == decider[d].id
<1>1. ProposalTypeOK /\ OneDecision /\ DeciderStands /\ PollReads
  BY DEF ProposalInv
<1>2. i \in Known /\ decider[d].verdict \in Verdicts /\ i \in Filed
  BY <1>1 DEF DeciderStands, Known
<1>3. /\ filed' \in [Filed -> Entries \cup {Nil}] /\ Known' = Known
      /\ filed'[i] = e /\ \A j \in Filed : j # i => filed'[j] = filed[j]
  BY <1>1, <1>2, OneField
<1>4. decider'[d] = r /\ \A c \in Deciders : c # d => decider'[c] = decider[c]
  BY <1>1 DEF ProposalTypeOK
<1>5. \A j \in Known : j \in Filed /\ filed'[j].state \in {filed[j].state, e.state}
                       /\ filed[j].state # "pending" => filed'[j].state = filed[j].state
  BY <1>3 DEF Known
<1>6. e.state # "pending" /\ e.state \in Verdicts
  BY <1>2 DEF Verdicts
<1>7. ProposalTypeOK'
  BY <1>1, <1>3 DEF ProposalTypeOK
<1>8. OneDecision'
  BY <1>1, <1>3 DEF OneDecision, Known
<1>9. DeciderStands'
  <2> SUFFICES ASSUME NEW c \in Deciders, decider'[c].at # "idle"
               PROVE  /\ decider'[c].id \in Known /\ decider'[c].verdict \in Verdicts
                      /\ decider'[c].at # "state" => filed'[decider'[c].id].state = decider'[c].verdict
    BY <1>3 DEF DeciderStands
  <2>1. CASE c = d
    BY <2>1, <1>2, <1>3, <1>4
  <2>2. CASE c # d
    <3>1. decider'[c] = decider[c] /\ decider[c].id \in Known /\ decider[c].verdict \in Verdicts
      BY <2>2, <1>1, <1>4 DEF DeciderStands
    <3>2. decider[c].at # "state" => filed[decider[c].id].state = decider[c].verdict
      BY <3>1, <1>1 DEF DeciderStands
    <3> QED
      BY <3>1, <3>2, <1>5 DEF Verdicts
  <2> QED
    BY <2>1, <2>2
<1>10. PollReads'
  BY <1>1, <1>3, <1>5 DEF PollReads, ReadSoFar, Verdicts
<1> QED
  BY <1>7, <1>8, <1>9, <1>10 DEF ProposalInv

\* The three locked steps of a decision.
LEMMA DecisionStep ==
    ASSUME ProposalInv, NEW d \in Deciders, SetState(d) \/ SetStatus(d) \/ SetBody(d)
    PROVE  ProposalInv'
<1> DEFINE i == decider[d].id
           v == decider[d].verdict
<1>1. ProposalTypeOK /\ OneDecision /\ DeciderStands
  BY DEF ProposalInv
<1>2. decider[d] \in DeciderRecord /\ decider[d].at # "idle"
  BY <1>1 DEF ProposalTypeOK, SetState, SetStatus, SetBody
<1>3. i \in Known /\ v \in Verdicts /\ filed[i] \in Entries
  BY <1>1, <1>2 DEF DeciderStands, ProposalTypeOK, Known
<1>4. UNCHANGED <<overdue, poll, time>>
  BY DEF SetState, SetStatus, SetBody
<1>5. ASSUME NEW a \in {"status", "body"}
      PROVE  LET r == [decider[d] EXCEPT !.at = a] IN
             r \in DeciderRecord /\ r.at = a /\ r.id = i /\ r.verdict = v
  BY <1>2 DEF DeciderRecord
<1>6. AtRest \in DeciderRecord /\ AtRest.at = "idle"
  BY DEF AtRest, DeciderRecord
<1>7. CASE SetState(d)
  <2>1. CASE filed[i].state = "pending"
    <3> DEFINE e == [filed[i] EXCEPT !.state = v]
               r == [decider[d] EXCEPT !.at = "status"]
    <3>1. filed' = [filed EXCEPT ![i] = e] /\ decider' = [decider EXCEPT ![d] = r]
      <4>1. filed' = [filed EXCEPT ![i].state = v] /\ decider' = [decider EXCEPT ![d].at = "status"]
        BY <1>7, <2>1 DEF SetState, Take
      <4> QED
        BY <4>1
    <3>2. e \in Entries /\ e.state = v /\ e.status = Nil /\ e.body = Nil
      <4>1. e \in Entries /\ e.state = v /\ e.status = filed[i].status /\ e.body = filed[i].body
        BY <1>3, StateField
      <4>2. filed[i].status = Nil /\ filed[i].body = Nil
        BY <1>1, <1>3, <2>1 DEF OneDecision, Consistent
      <4> QED
        BY <4>1, <4>2
    <3>3. r \in DeciderRecord /\ r.id = i /\ r.verdict = v /\ r.at = "status"
      BY <1>5
    <3> HIDE DEF e, r
    <3>4. Consistent(e)
      BY <1>3, <3>2 DEF Consistent, Verdicts
    <3> QED
      BY <1>2, <1>4, <2>1, <3>1, <3>2, <3>3, <3>4, OneWrite
  <2>2. CASE filed[i].state # "pending"
    <3>1. decider' = [decider EXCEPT ![d] = AtRest] /\ filed' = filed
      BY <1>7, <2>2 DEF SetState, Take
    <3>2. decider' \in [Deciders -> DeciderRecord]
      BY <1>1, <1>6, <3>1 DEF ProposalTypeOK
    <3>3. decider'[d].at = "idle" /\ \A c \in Deciders : c # d => decider'[c] = decider[c]
      BY <1>1, <1>6, <3>1 DEF ProposalTypeOK
    <3> QED
      BY <1>1, <1>4, <3>1, <3>2, <3>3, DecidersOnly DEF DeciderStands, ProposalTypeOK
  <2> QED
    BY <2>1, <2>2
<1>8. CASE SetStatus(d)
  <2>0. filed[i].state = v
    BY <1>1, <1>8 DEF SetStatus, DeciderStands
  <2>1. PICK n \in Codes : n = CodeOf(v)
    BY DEF CodeOf, Codes
  <2> DEFINE e == [filed[i] EXCEPT !.status = n]
             r == [decider[d] EXCEPT !.at = "body"]
  <2>2. filed' = [filed EXCEPT ![i] = e] /\ decider' = [decider EXCEPT ![d] = r]
    <3>1. filed' = [filed EXCEPT ![i].status = n] /\ decider' = [decider EXCEPT ![d].at = "body"]
      BY <1>8, <2>1 DEF SetStatus, CodeOf
    <3> QED
      BY <3>1
  <2>4. e \in Entries /\ e.state = v /\ Consistent(e)
    <3>1. e \in Entries /\ e.status = n /\ e.state = filed[i].state /\ e.body = filed[i].body
      BY <1>3, StatusField
    <3>2. filed[i].body \in {Nil, filed[i].state}
      BY <1>1, <1>3 DEF OneDecision, Consistent
    <3> HIDE DEF e
    <3> QED
      BY <1>3, <2>0, <2>1, <3>1, <3>2 DEF Consistent, Verdicts
  <2>3. r \in DeciderRecord /\ r.id = i /\ r.verdict = v /\ r.at = "body"
    BY <1>5
  <2> HIDE DEF e, r
  <2> QED
    BY <1>2, <1>4, <2>0, <2>2, <2>3, <2>4, OneWrite
<1>9. CASE SetBody(d)
  <2>0. filed[i].state = v
    BY <1>1, <1>9 DEF SetBody, DeciderStands
  <2> DEFINE e == [filed[i] EXCEPT !.body = v]
  <2>1. filed' = [filed EXCEPT ![i] = e] /\ decider' = [decider EXCEPT ![d] = AtRest]
    <3>1. filed' = [filed EXCEPT ![i].body = v] /\ decider' = [decider EXCEPT ![d] = AtRest]
      BY <1>9 DEF SetBody
    <3> QED
      BY <3>1
  <2>2. e \in Entries /\ e.state = v /\ Consistent(e)
    <3>1. e \in Entries /\ e.body = v /\ e.status = filed[i].status /\ e.state = filed[i].state
      BY <1>3, BodyField
    <3>2. filed[i].status \in {Nil, CodeOf(filed[i].state)}
      BY <1>1, <1>3 DEF OneDecision, Consistent
    <3> HIDE DEF e
    <3> QED
      BY <1>3, <2>0, <3>1, <3>2 DEF Consistent, Verdicts
  <2> HIDE DEF e
  <2> QED
    <3>1. ASSUME NEW r \in DeciderRecord, r = AtRest
          PROVE  ProposalInv'
      <4>1. r.at = "idle" /\ decider' = [decider EXCEPT ![d] = r]
        BY <1>6, <2>1, <3>1
      <4>2. filed' = [filed EXCEPT ![decider[d].id] = e] /\ filed[decider[d].id].state \in {"pending", e.state}
        BY <2>0, <2>1, <2>2
      <4>3. e.state = decider[d].verdict
        BY <2>2
      <4>4. decider[d].at # "idle" /\ e \in Entries /\ r \in DeciderRecord
        BY <1>2, <2>2
      <4>5. r.at = "idle" \/ (r.id = decider[d].id /\ r.verdict = decider[d].verdict /\ r.at # "state")
        BY <4>1
      <4> QED
        BY <1>4, <4>1, <4>2, <4>3, <4>4, <2>2, <4>5, OneWrite
    <3> QED
      BY <1>6, <3>1
<1> QED
  BY <1>7, <1>8, <1>9

\* A thread takes a proposal up, by choice or from the sweep's list.
LEMMA AssignStep ==
    ASSUME ProposalInv, NEW d \in Deciders, Decide(d) \/ SweepOne(d)
    PROVE  ProposalInv'
<1>1. ProposalTypeOK /\ DeciderStands
  BY DEF ProposalInv
<1>2. PICK i \in Known, v \in Verdicts : decider' = [decider EXCEPT ![d] = [at |-> "state", id |-> i, verdict |-> v]]
  BY <1>1 DEF Decide, SweepOne, Verdicts, ProposalTypeOK
<1> DEFINE r == [at |-> "state", id |-> i, verdict |-> v]
<1>3. r \in DeciderRecord /\ r.at = "state" /\ r.id = i /\ r.verdict = v
  BY DEF DeciderRecord, Known
<1> HIDE DEF r
<1>4. decider' = [decider EXCEPT ![d] = r]
  BY <1>2 DEF r
<1>5. decider' \in [Deciders -> DeciderRecord]
  BY <1>1, <1>3, <1>4 DEF ProposalTypeOK
<1>6. decider'[d] = r /\ \A c \in Deciders : c # d => decider'[c] = decider[c]
  BY <1>1, <1>4 DEF ProposalTypeOK
<1>7. UNCHANGED <<filed, poll, time>> /\ overdue' \subseteq overdue
  BY DEF Decide, SweepOne
<1> QED
  BY <1>1, <1>3, <1>5, <1>6, <1>7, DecidersOnly DEF DeciderStands, ProposalTypeOK

\* A proposal is filed, the sweep lists the overdue ones, time passes.
LEMMA FilingStep ==
    ASSUME ProposalInv, (\E i \in Filed : File(i)) \/ SweepScan \/ Pass(time + 1)
    PROVE  ProposalInv'
<1>1. ProposalTypeOK /\ OneDecision /\ DeciderStands /\ PollReads
  BY DEF ProposalInv
<1>2. ASSUME NEW i \in Filed, File(i)
      PROVE  ProposalInv'
  <2> DEFINE e == [state |-> "pending", status |-> Nil, body |-> Nil, deadline |-> time + Deadline]
  <2>1. e \in Entries /\ e.state = "pending" /\ e.status = Nil /\ e.body = Nil
    BY <1>1, NilIsNone DEF ProposalTypeOK, Entries
  <2>2. filed[i] = Nil /\ filed' = [filed EXCEPT ![i] = e] /\ UNCHANGED <<decider, overdue, poll, time>>
    BY <1>2 DEF File
  <2> HIDE DEF e
  <2>3. filed' \in [Filed -> Entries \cup {Nil}] /\ filed'[i] = e /\ \A j \in Filed : j # i => filed'[j] = filed[j]
    BY <1>1, <2>1, <2>2 DEF ProposalTypeOK
  <2>4. Known' = Known \cup {i} /\ i \notin Known
    BY <2>1, <2>2, <2>3, NilIsNone DEF Known
  <2>5. \A j \in Known : filed'[j] = filed[j]
    BY <2>3, <2>4 DEF Known
  <2>6. ProposalTypeOK'
    BY <1>1, <2>2, <2>3, <2>4 DEF ProposalTypeOK
  <2>7. OneDecision'
    BY <1>1, <2>1, <2>3, <2>4, <2>5 DEF OneDecision, Consistent
  <2>8. DeciderStands'
    BY <1>1, <2>2, <2>4, <2>5 DEF DeciderStands
  <2>9. ASSUME NEW p \in Pollers
        PROVE  ReadSoFar(poll[p])'
    <3>1. ReadSoFar(poll[p]) /\ poll'[p] = poll[p]
      BY <1>1, <2>2 DEF PollReads
    <3> QED
      BY <3>1, <2>4, <2>5 DEF ReadSoFar
  <2> QED
    BY <2>6, <2>7, <2>8, <2>9 DEF ProposalInv, PollReads
<1>3. CASE SweepScan \/ Pass(time + 1)
  <2>1. UNCHANGED <<filed, poll, decider>> /\ time' \in Nat /\ overdue' \subseteq Known
    BY <1>1, <1>3 DEF SweepScan, Pass, ProposalTypeOK
  <2> QED
    BY <1>1, <2>1, DecidersOnly DEF DeciderStands, ProposalTypeOK
<1> QED
  BY <1>2, <1>3

\* Steps of one poll.
LEMMA OnePoll ==
    ASSUME ProposalInv, NEW p \in Pollers, NEW q \in PollRecord, poll' = [poll EXCEPT ![p] = q],
           UNCHANGED <<filed, decider, overdue, time>>, ReadSoFar(q)
    PROVE  ProposalInv'
<1>1. ProposalTypeOK /\ OneDecision /\ DeciderStands /\ PollReads
  BY DEF ProposalInv
<1>2. poll'[p] = q /\ \A o \in Pollers : o # p => poll'[o] = poll[o]
  BY <1>1 DEF ProposalTypeOK
<1>3. Known' = Known
  BY DEF Known
<1>4. ProposalTypeOK'
  BY <1>1, <1>3 DEF ProposalTypeOK
<1>5. OneDecision' /\ DeciderStands'
  BY <1>1, <1>3 DEF OneDecision, Consistent, DeciderStands
<1>6. \A o \in Pollers : ReadSoFar(poll'[o])
  BY <1>1, <1>2 DEF PollReads
<1>7. PollReads'
  BY <1>3, <1>6 DEF PollReads, ReadSoFar
<1> QED
  BY <1>4, <1>5, <1>7 DEF ProposalInv

\* The fields of a poll's record, set one or two at a time.
States == {"pending", "accepted", "rejected"}
BodyValues == {Nil, "accepted", "rejected"}
Answers == Nat

LEMMA PollFound ==
    ASSUME NEW q \in PollRecord, NEW i \in Filed
    PROVE  LET g == [q EXCEPT !.at = "state", !.id = i] IN
           g \in PollRecord /\ g.at = "state" /\ g.id = i /\ g.code = q.code /\ g.body = q.body
BY DEF PollRecord

LEMMA PollPending ==
    ASSUME NEW q \in PollRecord, NEW n \in Answers, NEW v \in States
    PROVE  LET g == [q EXCEPT !.at = "answered", !.state = v, !.code = n] IN
           g \in PollRecord /\ g.at = "answered" /\ g.code = n
BY DEF PollRecord, States, Answers

LEMMA PollBody ==
    ASSUME NEW q \in PollRecord, NEW b \in BodyValues
    PROVE  LET g == [q EXCEPT !.at = "status", !.body = b] IN
           /\ g \in PollRecord /\ g.at = "status" /\ g.body = b
           /\ g.code = q.code /\ g.state = q.state /\ g.id = q.id
BY DEF PollRecord, BodyValues

LEMMA PollStatus ==
    ASSUME NEW q \in PollRecord, NEW n \in Nat
    PROVE  LET g == [q EXCEPT !.at = "answered", !.code = n] IN
           /\ g \in PollRecord /\ g.at = "answered" /\ g.code = n
           /\ g.state = q.state /\ g.id = q.id /\ g.body = q.body
BY DEF PollRecord

\* A poll looks the record up, reads its fields one after the other, answers.
LEMMA PollStep ==
    ASSUME ProposalInv, NEW p \in Pollers,
           (\E i \in Filed : LookUp(p, i)) \/ ReadState(p) \/ ReadBody(p) \/ ReadStatus(p) \/ Answered(p)
    PROVE  ProposalInv'
<1>1. ProposalTypeOK /\ OneDecision /\ PollReads
  BY DEF ProposalInv
<1>2. UNCHANGED <<filed, decider, overdue, time>>
  BY DEF LookUp, ReadState, ReadBody, ReadStatus, Answered
<1> DEFINE q == poll[p]
           rec == filed[q.id]
<1>3. q \in PollRecord
  BY <1>1 DEF ProposalTypeOK
<1>4. NoPoll \in PollRecord /\ NoPoll.at = "idle" /\ NoPoll.code = 0 /\ NoPoll.body = Nil
  BY DEF NoPoll, PollRecord
<1>5. ASSUME NEW i \in Filed, LookUp(p, i)
      PROVE  ProposalInv'
  <2>1. CASE filed[i] = Nil
    <3>0. PICK n \in Answers : n = 404
      BY DEF Answers
    <3> DEFINE g == [NoPoll EXCEPT !.id = i, !.code = n, !.at = "answered"]
    <3>1. poll' = [poll EXCEPT ![p] = g]
      BY <1>5, <2>1, <3>0 DEF LookUp
    <3>2. g \in PollRecord /\ g.at = "answered" /\ g.code = n
      <4>1. NoPoll \in PollRecord
        BY <1>4
      <4> QED
        BY <4>1 DEF PollRecord, Answers
    <3> HIDE DEF g
    <3>3. ReadSoFar(g)
      BY <3>0, <3>2 DEF ReadSoFar, Codes
    <3> QED
      BY <1>2, <3>1, <3>2, <3>3, OnePoll
  <2>2. CASE filed[i] # Nil
    <3> DEFINE g == [NoPoll EXCEPT !.at = "state", !.id = i]
    <3>1. poll' = [poll EXCEPT ![p] = g]
      BY <1>5, <2>2 DEF LookUp
    <3>2. g \in PollRecord /\ g.at = "state" /\ g.id = i /\ g.code = NoPoll.code /\ g.body = NoPoll.body
      BY <1>4, PollFound
    <3> HIDE DEF g
    <3>3. ReadSoFar(g)
      BY <1>4, <2>2, <3>2 DEF ReadSoFar, Codes, Known
    <3> QED
      BY <1>2, <3>1, <3>2, <3>3, OnePoll
  <2> QED
    BY <2>1, <2>2
<1>6. ASSUME q.at \in {"state", "body", "status"}
      PROVE  q.id \in Known /\ rec \in Entries
  BY <1>1, <1>6 DEF PollReads, ReadSoFar, ProposalTypeOK, Known
<1>7. CASE ReadState(p)
  <2>1. q.at = "state" /\ q.id \in Known /\ rec \in Entries /\ q.body = Nil
    BY <1>1, <1>6, <1>7 DEF ReadState, PollReads, ReadSoFar
  <2>2. rec.state \in {"pending"} \cup Verdicts
    BY <2>1 DEF Entries, Verdicts
  <2>3. CASE rec.state = "pending"
    <3>0. PICK n \in Answers, v \in States : n = 261 /\ v = rec.state
      BY <2>3 DEF Answers, States
    <3> DEFINE g == [q EXCEPT !.at = "answered", !.state = v, !.code = n]
    <3>1. poll' = [poll EXCEPT ![p] = g]
      BY ZenonT(60), <1>7, <2>3, <3>0 DEF ReadState
    <3>2. g \in PollRecord /\ g.at = "answered" /\ g.code = n
      BY ZenonT(60), <1>3, PollPending
    <3> HIDE DEF g
    <3>3. ReadSoFar(g)
      BY <3>0, <3>2 DEF ReadSoFar, Codes
    <3> QED
      BY <1>2, <3>1, <3>2, <3>3, OnePoll
  <2>4. CASE rec.state # "pending"
    <3>0. PICK n \in Answers, v \in States : n = 0 /\ v = rec.state
      BY <2>2 DEF Answers, Verdicts, States
    <3> DEFINE g == [q EXCEPT !.at = "body", !.state = v, !.code = n]
    <3>1. poll' = [poll EXCEPT ![p] = g]
      BY <1>7, <2>4, <3>0 DEF ReadState
    <3>3. /\ g \in PollRecord /\ g.at = "body" /\ g.code = n /\ g.state = v
          /\ g.id = q.id /\ g.body = q.body
      <4>1. n \in Nat /\ v \in States
        BY DEF Answers
      <4> QED
        BY <1>3, <4>1 DEF PollRecord, States
    <3> HIDE DEF g
    <3>4. ReadSoFar(g)
      BY <2>1, <2>2, <2>4, <3>0, <3>3 DEF ReadSoFar, Codes
    <3> QED
      BY <1>2, <3>1, <3>3, <3>4, OnePoll
  <2> QED
    BY <2>3, <2>4
<1>8. CASE ReadBody(p)
  <2> DEFINE g == [q EXCEPT !.at = "status", !.body = rec.body]
  <2>1. poll' = [poll EXCEPT ![p] = g]
    BY <1>8 DEF ReadBody
  <2>2. /\ q.id \in Known /\ q.state \in Verdicts /\ rec.state = q.state /\ rec \in Entries
        /\ q.code \in Codes => q.code = CodeOf(q.state)
    BY <1>1, <1>6, <1>8 DEF ReadBody, PollReads, ReadSoFar
  <2>3. rec.body \in {Nil, q.state} /\ rec.body \in BodyValues
    BY <1>1, <2>2 DEF OneDecision, Consistent, Verdicts, BodyValues
  <2>4. /\ g \in PollRecord /\ g.at = "status" /\ g.body = rec.body /\ g.code = q.code
        /\ g.state = q.state /\ g.id = q.id
    BY <1>3, <2>3, PollBody
  <2> HIDE DEF g
  <2>5. ReadSoFar(g)
    BY <2>2, <2>3, <2>4 DEF ReadSoFar
  <2> QED
    BY <1>2, <2>1, <2>4, <2>5, OnePoll
<1>9. CASE ReadStatus(p)
  <2>1. /\ q.id \in Known /\ q.state \in Verdicts /\ rec.state = q.state /\ q.body \in {Nil, q.state}
    BY <1>1, <1>9 DEF ReadStatus, PollReads, ReadSoFar
  <2>2. PICK n \in Nat : /\ n = (IF rec.status = Nil THEN 200 ELSE rec.status)
                         /\ n \in {200, CodeOf(q.state)}
    <3>1. rec.status \in {Nil, CodeOf(q.state)}
      BY <1>1, <2>1 DEF OneDecision, Consistent
    <3>2. CodeOf(q.state) \in Nat
      BY DEF CodeOf
    <3> QED
      BY <3>1, <3>2
  <2> DEFINE g == [q EXCEPT !.at = "answered", !.code = n]
  <2>3. poll' = [poll EXCEPT ![p] = g]
    BY <1>9, <2>2 DEF ReadStatus
  <2>4. /\ g \in PollRecord /\ g.at = "answered" /\ g.code = n
        /\ g.state = q.state /\ g.id = q.id /\ g.body = q.body
    BY <1>3, PollStatus
  <2> HIDE DEF g
  <2>5. n \in Codes => n = CodeOf(q.state)
    BY <2>2 DEF Codes
  <2>6. ReadSoFar(g)
    BY <2>1, <2>4, <2>5 DEF ReadSoFar
  <2> QED
    BY <1>2, <2>3, <2>4, <2>6, OnePoll
<1>10. CASE Answered(p)
  <2>1. poll' = [poll EXCEPT ![p] = NoPoll]
    BY <1>10 DEF Answered
  <2>2. ReadSoFar(NoPoll)
    BY <1>4 DEF ReadSoFar, Codes
  <2> QED
    BY <1>2, <1>4, <2>1, <2>2, OnePoll
<1> QED
  BY <1>5, <1>7, <1>8, <1>9, <1>10

LEMMA ProposalStep == ProposalInv /\ [ProposalNext]_proposalVars => ProposalInv'
<1> SUFFICES ASSUME ProposalInv, [ProposalNext]_proposalVars
             PROVE  ProposalInv'
  OBVIOUS
<1>1. CASE \/ \E i \in Filed : File(i)
           \/ SweepScan \/ Pass(time + 1)
  BY <1>1, FilingStep
<1>2. ASSUME NEW d \in Deciders, Decide(d) \/ SweepOne(d)
      PROVE  ProposalInv'
  BY <1>2, AssignStep
<1>3. ASSUME NEW d \in Deciders, SetState(d) \/ SetStatus(d) \/ SetBody(d)
      PROVE  ProposalInv'
  BY <1>3, DecisionStep
<1>4. ASSUME NEW p \in Pollers,
             (\E i \in Filed : LookUp(p, i)) \/ ReadState(p) \/ ReadBody(p) \/ ReadStatus(p) \/ Answered(p)
      PROVE  ProposalInv'
  BY <1>4, PollStep
<1>5. CASE CliNext \/ UNCHANGED proposalVars
  <2>1. UNCHANGED <<filed, decider, overdue, poll, time>>
    BY <1>5 DEF CliNext, CliWalk, CliPreview, CliLoad, CliSend, CliRender, CliConfirm, CliAt, proposalVars
  <2> QED
    BY <2>1, DecidersOnly DEF ProposalInv, ProposalTypeOK, DeciderStands
<1> QED
  BY <1>1, <1>2, <1>3, <1>4, <1>5 DEF ProposalNext, StoreNext

(* server/proposal_store.py:131 and builtins.py: whatever threads decide,
   sweep and poll, a poll that reports a decision reports one that was
   taken, and status and body are that decision's. *)
THEOREM Polls == ProposalSpec => []PollsDoNotMix
<1>1. ProposalInv => PollsDoNotMix
  BY DEF ProposalInv, ProposalTypeOK, PollReads, ReadSoFar, PollsDoNotMix, Codes, CodeOf, Verdicts
<1> QED
  BY <1>1, InitProposals, ProposalStep, PTL DEF ProposalSpec

(* The first decision on a proposal stands: no later engine thread, sweep or
   refiling changes the state of a decided record. *)
THEOREM FirstDecision == ProposalSpec => DecisionIsFinal
<1> DEFINE Stands == \A i \in Known : filed[i].state # "pending" => filed'[i].state = filed[i].state
<1>1. ProposalInv /\ [ProposalNext]_proposalVars => [Stands]_proposalVars
  <2> SUFFICES ASSUME ProposalInv, ProposalNext, NEW i \in Known, filed[i].state # "pending"
               PROVE  filed'[i].state = filed[i].state
    BY DEF proposalVars
  <2>1. ProposalTypeOK /\ DeciderStands /\ i \in Filed /\ filed[i] \in Entries
    BY DEF ProposalInv, ProposalTypeOK, Known
  <2>2. CASE filed' = filed
    BY <2>2
  <2>3. ASSUME NEW j \in Filed, File(j)
        PROVE  filed'[i].state = filed[i].state
    BY <2>1, <2>3 DEF File, ProposalTypeOK, Known
  <2>4. ASSUME NEW d \in Deciders, SetState(d)
        PROVE  filed'[i].state = filed[i].state
    <3>1. CASE decider[d].id = i
      BY <2>4, <3>1 DEF SetState, Take
    <3>2. CASE decider[d].id # i
      BY <2>1, <2>4, <3>2 DEF SetState, Take, ProposalTypeOK
    <3> QED
      BY <3>1, <3>2
  <2>5. ASSUME NEW d \in Deciders, SetStatus(d) \/ SetBody(d)
        PROVE  filed'[i].state = filed[i].state
    <3> DEFINE j == decider[d].id
    <3>1. PICK e : filed' = [filed EXCEPT ![j] = e] /\ (e.state = filed[j].state)
      <4>1. j \in Known /\ filed[j] \in Entries
        BY <2>1, <2>5 DEF SetStatus, SetBody, DeciderStands, ProposalTypeOK, Known
      <4>2. CASE SetStatus(d)
        <5>1. PICK n \in Codes : n = CodeOf(decider[d].verdict)
          BY DEF CodeOf, Codes
        <5> DEFINE e == [filed[j] EXCEPT !.status = n]
        <5>2. filed' = [filed EXCEPT ![j] = e]
          <6>1. filed' = [filed EXCEPT ![j].status = n]
            BY <4>2, <5>1 DEF SetStatus, CodeOf
          <6> QED
            BY <6>1
        <5>3. e.state = filed[j].state
          BY <4>1, StatusField
        <5> HIDE DEF e
        <5> QED
          BY <5>2, <5>3
      <4>3. CASE SetBody(d)
        <5> DEFINE e == [filed[j] EXCEPT !.body = decider[d].verdict]
        <5>1. filed' = [filed EXCEPT ![j] = e]
          <6>1. filed' = [filed EXCEPT ![j].body = decider[d].verdict]
            BY <4>3 DEF SetBody
          <6> QED
            BY <6>1
        <5>2. decider[d].verdict \in Verdicts
          BY <2>1, <4>3 DEF SetBody, DeciderStands
        <5>3. e.state = filed[j].state
          BY <4>1, <5>2, BodyField
        <5> HIDE DEF e
        <5> QED
          BY <5>1, <5>3
      <4> QED
        BY <2>5, <4>2, <4>3
    <3> QED
      BY <2>1, <3>1 DEF ProposalTypeOK
  <2>6. CASE CliNext
    BY <2>6, <2>2 DEF CliNext, CliWalk, CliPreview, CliLoad, CliSend, CliRender, CliConfirm, CliAt
  <2>7. CASE StoreNext
    <3>1. CASE SweepScan \/ Pass(time + 1)
      BY <3>1, <2>2 DEF SweepScan, Pass
    <3>2. CASE \E d \in Deciders : Decide(d) \/ SweepOne(d)
      BY <3>2, <2>2 DEF Decide, SweepOne
    <3>3. CASE \E p \in Pollers : (\E j \in Filed : LookUp(p, j)) \/ ReadState(p) \/ ReadBody(p)
                                  \/ ReadStatus(p) \/ Answered(p)
      BY <3>3, <2>2 DEF LookUp, ReadState, ReadBody, ReadStatus, Answered
    <3> QED
      BY <2>7, <2>3, <2>4, <2>5, <3>1, <3>2, <3>3 DEF StoreNext
  <2> QED
    BY <2>6, <2>7 DEF ProposalNext
<1> QED
  BY <1>1, InitProposals, ProposalStep, PTL DEF ProposalSpec, DecisionIsFinal

\* A step that decides nothing and tells nobody.
LEMMA RegisterRests ==
    ASSUME \A i \in Filed : Decision(i)' = Decision(i), \A p \in Pollers : Tells(p)' = Tells(p)
    PROVE  UNCHANGED Decisions!registerVars
BY DEF Decisions!registerVars

\* Steps that leave the polls alone: nobody is told anything new.
LEMMA NobodyTold == ASSUME poll' = poll PROVE \A p \in Pollers : Tells(p)' = Tells(p)
BY DEF Tells

LEMMA NothingDecided == ASSUME filed' = filed PROVE \A i \in Filed : Decision(i)' = Decision(i)
BY DEF Decision

LEMMA RegisterFiles ==
    ASSUME ProposalInv, NEW i \in Filed, File(i)
    PROVE  Decisions!Next
<1>1. ProposalTypeOK /\ filed[i] = Nil /\ poll' = poll
  BY DEF ProposalInv, File
<1> DEFINE e == [state |-> "pending", status |-> Nil, body |-> Nil, deadline |-> time + Deadline]
<1>2. e \in Entries
  BY <1>1, NilIsNone DEF Entries, ProposalTypeOK
<1>3. filed' = [filed EXCEPT ![i] = e] /\ e.state = "pending"
  BY DEF File
<1> HIDE DEF e
<1>4. Decision(i) = "unfiled" /\ Decision(i)' = "pending"
  BY <1>1, <1>2, <1>3, NilIsNone DEF Decision, ProposalTypeOK
<1>5. \A j \in Filed : j # i => Decision(j)' = Decision(j)
  BY <1>1, <1>3 DEF Decision, ProposalTypeOK
<1>6. \A p \in Pollers : Tells(p)' = Tells(p)
  BY <1>1, NobodyTold
<1>7. Decisions!File(i)
  BY <1>4, <1>5, <1>6 DEF Decisions!File
<1> QED
  BY <1>7 DEF Decisions!Next

\* The write of the state is the decision; the writes of status and body,
\* and a decision that comes too late, change nothing to the outside.
LEMMA RegisterDecides ==
    ASSUME ProposalInv, NEW d \in Deciders, SetState(d)
    PROVE  Decisions!Next \/ UNCHANGED Decisions!registerVars
<1>0. PICK i \in Filed, v \in Verdicts : i = decider[d].id /\ v = decider[d].verdict /\ filed[i] \in Entries
  BY DEF ProposalInv, DeciderStands, ProposalTypeOK, SetState, Known
<1>1. ProposalTypeOK /\ poll' = poll
  BY DEF ProposalInv, SetState
<1>2. \A p \in Pollers : Tells(p)' = Tells(p)
  BY <1>1, NobodyTold
<1>3. CASE filed[i].state # "pending"
  <2>1. filed' = filed
    BY <1>0, <1>3 DEF SetState, Take
  <2> QED
    BY <2>1, <1>2, NothingDecided, RegisterRests
<1>4. CASE filed[i].state = "pending"
  <2> DEFINE e == [filed[i] EXCEPT !.state = v]
  <2>1. filed' = [filed EXCEPT ![i] = e]
    <3>1. filed' = [filed EXCEPT ![i].state = v]
      BY <1>0, <1>4 DEF SetState, Take
    <3> QED
      BY <3>1
  <2>2. e \in Entries /\ e.state = v
    BY <1>0, StateField
  <2> HIDE DEF e
  <2>3. Decision(i) = "pending" /\ Decision(i)' = v
    BY <1>0, <1>1, <1>4, <2>1, <2>2, NilIsNone DEF Decision, ProposalTypeOK
  <2>4. \A j \in Filed : j # i => Decision(j)' = Decision(j)
    BY <1>1, <2>1 DEF Decision, ProposalTypeOK
  <2>5. Decisions!Decide(i, v)
    BY <1>2, <2>3, <2>4 DEF Decisions!Decide
  <2> QED
    BY <2>5 DEF Decisions!Next, Decisions!Verdicts, Verdicts
<1> QED
  BY <1>3, <1>4

LEMMA RegisterWrites ==
    ASSUME ProposalInv, NEW d \in Deciders, SetStatus(d) \/ SetBody(d)
    PROVE  UNCHANGED Decisions!registerVars
<1> DEFINE i == decider[d].id
           v == decider[d].verdict
<1>1. ProposalTypeOK /\ i \in Filed /\ filed[i] \in Entries /\ v \in Verdicts /\ poll' = poll
  BY DEF ProposalInv, DeciderStands, ProposalTypeOK, SetStatus, SetBody, Known
<1>2. \A p \in Pollers : Tells(p)' = Tells(p)
  BY <1>1, NobodyTold
<1>3. PICK e \in Entries : filed' = [filed EXCEPT ![i] = e] /\ e.state = filed[i].state
  <2>1. CASE SetStatus(d)
    <3>1. PICK n \in Codes : n = CodeOf(v)
      BY DEF CodeOf, Codes
    <3> DEFINE e == [filed[i] EXCEPT !.status = n]
    <3>2. filed' = [filed EXCEPT ![i] = e]
      <4>1. filed' = [filed EXCEPT ![i].status = n]
        BY <2>1, <3>1 DEF SetStatus, CodeOf
      <4> QED
        BY <4>1
    <3>3. e \in Entries /\ e.state = filed[i].state
      BY <1>1, StatusField
    <3> HIDE DEF e
    <3> QED
      BY <3>2, <3>3
  <2>2. CASE SetBody(d)
    <3> DEFINE e == [filed[i] EXCEPT !.body = v]
    <3>1. filed' = [filed EXCEPT ![i] = e]
      <4>1. filed' = [filed EXCEPT ![i].body = v]
        BY <2>2 DEF SetBody
      <4> QED
        BY <4>1
    <3>2. e \in Entries /\ e.state = filed[i].state
      BY <1>1, BodyField
    <3> HIDE DEF e
    <3> QED
      BY <3>1, <3>2
  <2> QED
    BY <2>1, <2>2
<1> HIDE DEF i, v
<1>4. \A j \in Filed : Decision(j)' = Decision(j)
  BY <1>1, <1>3, NilIsNone DEF Decision, ProposalTypeOK
<1> QED
  BY <1>2, <1>4, RegisterRests

\* A poll tells something when it answers with a decision.
LEMMA RegisterTells ==
    ASSUME ProposalInv, NEW p \in Pollers, ReadStatus(p)
    PROVE  Decisions!Next
<1> DEFINE q == poll[p]
           rec == filed[q.id]
<1>1. ProposalTypeOK /\ q \in PollRecord /\ q.at = "status" /\ filed' = filed
  BY DEF ProposalInv, ProposalTypeOK, ReadStatus
<1>2. /\ q.id \in Filed /\ rec \in Entries /\ q.state \in Verdicts /\ rec.state = q.state
      /\ q.body \in {Nil, q.state} /\ Consistent(rec)
  BY <1>1 DEF ProposalInv, PollReads, ReadSoFar, ProposalTypeOK, OneDecision, Known
<1>3. PICK n \in Nat : n = (IF rec.status = Nil THEN 200 ELSE rec.status)
  BY <1>2 DEF Entries
<1>4. n \in {200, CodeOf(q.state)}
  BY <1>2, <1>3 DEF Consistent
<1> DEFINE g == [q EXCEPT !.at = "answered", !.code = n]
<1>5. poll' = [poll EXCEPT ![p] = g]
  BY <1>3 DEF ReadStatus
<1>6. g.at = "answered" /\ g.code = n /\ g.state = q.state /\ g.id = q.id /\ g.body = q.body
  BY <1>1, PollStatus
<1> HIDE DEF g
<1>7. poll'[p] = g /\ \A o \in Pollers : o # p => poll'[o] = poll[o]
  BY <1>1, <1>5 DEF ProposalTypeOK
<1>8. Tells(p) = Nil
  BY <1>1 DEF Tells
<1>9. Tells(p)' = [id |-> q.id, verdict |-> q.state, code |-> n, body |-> q.body]
  BY <1>2, <1>6, <1>7 DEF Tells, Verdicts
<1>10. \A o \in Pollers : o # p => Tells(o)' = Tells(o)
  BY <1>7 DEF Tells
<1>11. Decision(q.id) = q.state /\ \A i \in Filed : Decision(i)' = Decision(i)
  BY <1>1, <1>2, NilIsNone, NothingDecided DEF Decision
<1> HIDE DEF q, rec
<1>12. Decisions!Tell(p, q.id, n, q.body)
  <2> DEFINE r == [id |-> q.id, verdict |-> q.state, code |-> n, body |-> q.body]
             told == [o \in Pollers |-> Tells(o)]
  <2>1. [o \in Pollers |-> Tells(o)'] = [told EXCEPT ![p] = r]
    BY <1>9, <1>10
  <2>2. q.state \in Decisions!Verdicts /\ n \in {200, Decisions!CodeOf(q.state)} /\ q.body \in {Nil, q.state}
    BY <1>2, <1>4 DEF Decisions!Verdicts, Decisions!CodeOf, Verdicts, CodeOf
  <2>3. told[p] = Nil
    BY <1>8
  <2>4. [i \in Filed |-> Decision(i)][q.id] = q.state
    BY <1>2, <1>11
  <2>5. [i \in Filed |-> Decision(i)'] = [i \in Filed |-> Decision(i)]
    BY <1>11
  <2> QED
    BY <2>1, <2>2, <2>3, <2>4, <2>5 DEF Decisions!Tell
<1>13. q.id \in Filed /\ n \in {200, 263, 463} /\ q.body \in Decisions!Verdicts \cup {Nil}
  BY <1>2, <1>4 DEF CodeOf, Verdicts, Decisions!Verdicts
<1> QED
  BY <1>12, <1>13 DEF Decisions!Next

\* The other steps of a poll tell nothing, or end an answer.
LEMMA RegisterPolls ==
    ASSUME ProposalInv, NEW p \in Pollers,
           (\E i \in Filed : LookUp(p, i)) \/ ReadState(p) \/ ReadBody(p) \/ Answered(p)
    PROVE  Decisions!Next \/ UNCHANGED Decisions!registerVars
<1> DEFINE q == poll[p]
<1>1. ProposalTypeOK /\ q \in PollRecord /\ filed' = filed
  BY DEF ProposalInv, ProposalTypeOK, LookUp, ReadState, ReadBody, Answered
<1>2. \A i \in Filed : Decision(i)' = Decision(i)
  BY <1>1, NothingDecided
<1>3. \A o \in Pollers : o # p => Tells(o)' = Tells(o)
  <2>1. \A o \in Pollers : o # p => poll'[o] = poll[o]
    BY <1>1 DEF LookUp, ReadState, ReadBody, Answered, ProposalTypeOK
  <2> QED
    BY <2>1 DEF Tells
<1>4. ASSUME Tells(p) = Nil, Tells(p)' = Nil
      PROVE  UNCHANGED Decisions!registerVars
  <2>1. \A o \in Pollers : Tells(o)' = Tells(o)
    BY <1>3, <1>4
  <2> QED
    BY <1>2, <2>1, RegisterRests
<1>5. CASE \E i \in Filed : LookUp(p, i)
  <2>1. PICK i \in Filed : LookUp(p, i)
    BY <1>5
  <2>2. Tells(p) = Nil
    BY <2>1 DEF LookUp, Tells
  <2>3. poll'[p].at = "state" \/ poll'[p].state = Nil
    BY <1>1, <2>1 DEF LookUp, NoPoll, ProposalTypeOK
  <2>4. Tells(p)' = Nil
    BY <2>3, NilIsNone DEF Tells, Verdicts
  <2> QED
    BY <1>4, <2>2, <2>4
<1>6. CASE ReadState(p)
  <2>1. Tells(p) = Nil
    BY <1>6 DEF ReadState, Tells
  <2>2. poll'[p].at = "body" \/ poll'[p].state = "pending"
    BY <1>1, <1>6 DEF ReadState, ProposalTypeOK
  <2>3. Tells(p)' = Nil
    BY <2>2 DEF Tells
  <2> QED
    BY <1>4, <2>1, <2>3
<1>7. CASE ReadBody(p)
  <2>1. Tells(p) = Nil
    BY <1>7 DEF ReadBody, Tells
  <2>2. poll'[p].at = "status"
    BY <1>1, <1>7 DEF ReadBody, ProposalTypeOK
  <2>3. Tells(p)' = Nil
    BY <2>2 DEF Tells
  <2> QED
    BY <1>4, <2>1, <2>3
<1>8. CASE Answered(p)
  <2>1. poll'[p].at = "idle"
    BY <1>1, <1>8 DEF Answered, NoPoll, ProposalTypeOK
  <2>2. Tells(p)' = Nil
    BY <2>1 DEF Tells
  <2>3. CASE Tells(p) = Nil
    BY <1>4, <2>2, <2>3
  <2>4. CASE Tells(p) # Nil
    <3> DEFINE told == [o \in Pollers |-> Tells(o)]
    <3>1. [o \in Pollers |-> Tells(o)'] = [told EXCEPT ![p] = Nil] /\ told[p] # Nil
      BY <1>3, <2>2, <2>4
    <3>2. [i \in Filed |-> Decision(i)'] = [i \in Filed |-> Decision(i)]
      BY <1>2
    <3>3. Decisions!Forget(p)
      BY <3>1, <3>2 DEF Decisions!Forget
    <3> QED
      BY <3>3 DEF Decisions!Next
  <2> QED
    BY <2>3, <2>4
<1> QED
  BY <1>5, <1>6, <1>7, <1>8

LEMMA RegisterStep ==
    ASSUME ProposalInv, [ProposalNext]_proposalVars
    PROVE  [Decisions!Next]_Decisions!registerVars
<1>1. ASSUME filed' = filed, poll' = poll
      PROVE  UNCHANGED Decisions!registerVars
  BY <1>1, NobodyTold, NothingDecided, RegisterRests
<1>2. CASE UNCHANGED proposalVars
  BY <1>1, <1>2 DEF proposalVars
<1>3. CASE CliNext
  BY <1>1, <1>3 DEF CliNext, CliWalk, CliPreview, CliLoad, CliSend, CliRender, CliConfirm, CliAt
<1>4. CASE SweepScan \/ Pass(time + 1) \/ \E d \in Deciders : Decide(d) \/ SweepOne(d)
  BY <1>1, <1>4 DEF SweepScan, Pass, Decide, SweepOne
<1> QED
  BY <1>2, <1>3, <1>4, RegisterFiles, RegisterDecides, RegisterWrites, RegisterTells, RegisterPolls
  DEF ProposalNext, StoreNext

(* server/proposal_store.py:131, builtins.py:297: whatever threads decide,
   sweep and poll at the same time, and although a poll reads a record field
   by field while it is being decided, those who file and poll see a register
   in which every proposal is decided once. *)
THEOREM DecidesAsARegister == ProposalSpec => ImplementsRegister
<1>1. ProposalInit => Decisions!Init
  <2> SUFFICES ASSUME ProposalInit PROVE Decisions!Init
    OBVIOUS
  <2>1. \A i \in Filed : Decision(i) = "unfiled"
    BY DEF ProposalInit, Decision
  <2>2. \A p \in Pollers : Tells(p) = Nil
    BY DEF ProposalInit, Tells, NoPoll
  <2> QED
    BY <2>1, <2>2 DEF Decisions!Init
<1>2. ProposalInv /\ [ProposalNext]_proposalVars => [Decisions!Next]_Decisions!registerVars
  BY RegisterStep
<1> QED
  BY <1>1, <1>2, InitProposals, ProposalStep, PTL DEF ProposalSpec, ImplementsRegister, Decisions!Spec

-----------------------------------------------------------------------------
(* The sweep after a certificate_revoked NOTIFY.                             *)

SessionsTypeOK ==
  /\ sessions \in [Serials -> SUBSET Sessions] /\ agentOf \subseteq Serials
  /\ sweep \in [Sweeps -> {"idle", "named", "sweeping", "returned"}]
  /\ named \in [Sweeps -> Serials \cup {NoSerial}] /\ subject = [w \in Sweeps |-> subject[w]]
  /\ left \in [Sweeps -> SUBSET Serials] /\ terminated \in [Sweeps -> SUBSET Sessions]
  /\ due \in [Sweeps -> SUBSET Sessions]

\* A serial with sessions has its agent beside it.
Entered == \A s \in Serials : sessions[s] # {} => s \in agentOf

\* Sweep w finds nothing it owes under serial s.
Clear(w, s) == due[w] \cap sessions[s] = {}

\* Nothing is owed under the named serial once it is revoked; what is owed
\* under the agent's others is still to be read, or to be revoked.
Owed ==
  \A w \in Sweeps, s \in Serials :
    /\ sweep[w] # "idle" /\ s = named[w] => Clear(w, s)
    /\ sweep[w] = "sweeping" /\ Agent[s] = subject[w] => Clear(w, s) \/ s \in left[w]
    /\ sweep[w] = "returned" /\ Agent[s] = subject[w] => Clear(w, s)

SweepInv == SessionsTypeOK /\ Entered /\ Owed

LEMMA InitSweeps == CeInit => SweepInv
BY SerialsAssumption DEF CeInit, SweepInv, SessionsTypeOK, Entered, Owed, Clear

\* Nothing a sweep owes turns up under another serial.
LEMMA Shrinks ==
    ASSUME SweepInv, NEW w \in Sweeps,
           \A s \in Serials : due'[w] \cap sessions'[s] \subseteq due[w] \cap sessions[s],
           sweep'[w] = sweep[w], named'[w] = named[w], subject'[w] = subject[w], left'[w] = left[w]
    PROVE  \A s \in Serials :
             /\ sweep'[w] # "idle" /\ s = named'[w] => Clear(w, s)'
             /\ sweep'[w] = "sweeping" /\ Agent[s] = subject'[w] => Clear(w, s)' \/ s \in left'[w]
             /\ sweep'[w] = "returned" /\ Agent[s] = subject'[w] => Clear(w, s)'
BY DEF SweepInv, Owed, Clear

LEMMA SweepStep == SweepInv /\ [CeNext]_cevars => SweepInv'
<1> SUFFICES ASSUME SweepInv, [CeNext]_cevars
             PROVE  SweepInv'
  OBVIOUS
<1> USE DEF SweepInv
<1>1. ASSUME NEW s \in Serials, NEW x \in Sessions, Enrol(s, x)
      PROVE  SweepInv'
  <2>1. SessionsTypeOK' /\ Entered'
    BY <1>1 DEF Enrol, SessionsTypeOK, Entered
  <2>2. \A w \in Sweeps, r \in Serials : due'[w] \cap sessions'[r] \subseteq due[w] \cap sessions[r]
    BY <1>1 DEF Enrol, SessionsTypeOK
  <2> QED
    BY <1>1, <2>1, <2>2, Shrinks DEF Enrol, Owed
<1>2. ASSUME NEW x \in Sessions, Deregister(x)
      PROVE  SweepInv'
  <2>1. SessionsTypeOK' /\ Entered'
    BY <1>2 DEF Deregister, SessionsTypeOK, Entered
  <2>2. \A w \in Sweeps, r \in Serials : due'[w] \cap sessions'[r] \subseteq due[w] \cap sessions[r]
    BY <1>2 DEF Deregister, SessionsTypeOK
  <2> QED
    BY <1>2, <2>1, <2>2, Shrinks DEF Deregister, Owed
<1>3. ASSUME NEW w \in Sweeps, NEW a \in Agents, NEW s \in Serials \cup {NoSerial}, Notify(w, a, s)
      PROVE  SweepInv'
  <2>1. /\ s = NoSerial => UNCHANGED <<sessions, agentOf>>
        /\ s # NoSerial => sessions' = [sessions EXCEPT ![s] = {}] /\ agentOf' = agentOf \ {s}
    BY <1>3 DEF Notify, Pop
  <2>2. due' \in [Sweeps -> SUBSET Sessions] /\ terminated' \in [Sweeps -> SUBSET Sessions]
    <3>1. UNION {sessions[r] : r \in ThisAgents(a)} \subseteq Sessions
      BY DEF SessionsTypeOK, ThisAgents
    <3>2. s # NoSerial => sessions[s] \subseteq Sessions
      BY DEF SessionsTypeOK
    <3> QED
      BY <1>3, <3>1, <3>2 DEF Notify, SessionsTypeOK
  <2>3. SessionsTypeOK' /\ Entered'
    BY <1>3, <2>1, <2>2 DEF Notify, SessionsTypeOK, Entered
  <2>4. \A o \in Sweeps : o # w =>
          /\ \A r \in Serials : due'[o] \cap sessions'[r] \subseteq due[o] \cap sessions[r]
          /\ sweep'[o] = sweep[o] /\ named'[o] = named[o] /\ subject'[o] = subject[o] /\ left'[o] = left[o]
    BY <1>3, <2>1 DEF Notify, SessionsTypeOK
  <2>5. sweep'[w] = "named" /\ named'[w] = s /\ (s # NoSerial => sessions'[s] = {})
    BY <1>3, <2>1 DEF Notify, SessionsTypeOK
  <2>6. ASSUME NEW r \in Serials
        PROVE  r = named'[w] => Clear(w, r)'
    BY <2>5, SerialsAssumption DEF Clear
  <2> QED
    BY <2>3, <2>4, <2>5, <2>6, Shrinks DEF Owed
<1>4. ASSUME NEW w \in Sweeps, ReadSerials(w)
      PROVE  SweepInv'
  <2>1. SessionsTypeOK' /\ Entered'
    BY <1>4 DEF ReadSerials, SessionsTypeOK, Entered, Remaining, ThisAgents
  <2>2. \A o \in Sweeps : o # w =>
          /\ \A r \in Serials : due'[o] \cap sessions'[r] \subseteq due[o] \cap sessions[r]
          /\ sweep'[o] = sweep[o] /\ named'[o] = named[o] /\ subject'[o] = subject[o] /\ left'[o] = left[o]
    BY <1>4 DEF ReadSerials, SessionsTypeOK
  <2>3. /\ sweep[w] = "named" /\ sweep'[w] = "sweeping" /\ left'[w] = Remaining(w)
        /\ UNCHANGED <<sessions, due, named, subject, agentOf>>
    BY <1>4 DEF ReadSerials, SessionsTypeOK
  <2>4. ASSUME NEW r \in Serials
        PROVE  /\ r = named'[w] => Clear(w, r)'
               /\ Agent[r] = subject'[w] => Clear(w, r)' \/ r \in left'[w]
    BY <2>3 DEF Owed, Entered, Clear, Remaining, ThisAgents
  <2> QED
    BY <2>1, <2>2, <2>3, <2>4, Shrinks DEF Owed
<1>5. ASSUME NEW w \in Sweeps, RevokeNext(w)
      PROVE  SweepInv'
  <2>1. PICK s \in left[w] : RevokeSerial(w, s) /\ left' = [left EXCEPT ![w] = left[w] \ {s}]
    BY <1>5 DEF RevokeNext
  <2>2. s \in Serials /\ sessions[s] \subseteq Sessions
    BY <2>1 DEF SessionsTypeOK
  <2>3. /\ sessions' = [sessions EXCEPT ![s] = {}] /\ agentOf' = agentOf \ {s}
        /\ terminated' = [terminated EXCEPT ![w] = terminated[w] \cup sessions[s]]
        /\ UNCHANGED <<sweep, named, subject, due>> /\ sweep[w] = "sweeping"
    BY <1>5, <2>1 DEF RevokeNext, RevokeSerial, Pop
  <2>4. SessionsTypeOK' /\ Entered'
    BY <2>1, <2>2, <2>3 DEF SessionsTypeOK, Entered
  <2>5. /\ sessions'[s] = {} /\ \A r \in Serials : r # s => sessions'[r] = sessions[r]
        /\ left'[w] = left[w] \ {s} /\ \A o \in Sweeps : o # w => left'[o] = left[o]
    BY <2>1, <2>2, <2>3 DEF SessionsTypeOK
  <2>6. \A o \in Sweeps, r \in Serials : Clear(o, r) => Clear(o, r)'
    BY <2>3, <2>5 DEF Clear
  <2>7. \A o \in Sweeps : Clear(o, s)'
    BY <2>5 DEF Clear
  <2> QED
    BY <2>3, <2>4, <2>5, <2>6, <2>7 DEF Owed
<1>6. ASSUME NEW w \in Sweeps, Return(w)
      PROVE  SweepInv'
  <2>1. SessionsTypeOK' /\ Entered'
    BY <1>6 DEF Return, SessionsTypeOK, Entered
  <2>2. /\ sweep'[w] = "returned" /\ sweep[w] = "sweeping" /\ left[w] = {}
        /\ \A o \in Sweeps : o # w => sweep'[o] = sweep[o]
        /\ UNCHANGED <<sessions, due, named, subject, left>>
    BY <1>6 DEF Return, SessionsTypeOK
  <2> QED
    BY <2>1, <2>2 DEF Owed, Clear
<1>7. ASSUME NEW w \in Sweeps, Again(w)
      PROVE  SweepInv'
  <2>0. PICK a : subject' = [subject EXCEPT ![w] = a]
    BY <1>7 DEF Again
  <2>4. /\ sweep' = [sweep EXCEPT ![w] = "idle"] /\ named' = [named EXCEPT ![w] = NoSerial]
        /\ terminated' = [terminated EXCEPT ![w] = {}] /\ due' = [due EXCEPT ![w] = {}]
        /\ UNCHANGED <<sessions, agentOf, left>>
    BY <1>7 DEF Again
  <2>1. SessionsTypeOK' /\ Entered'
    BY <2>0, <2>4 DEF SessionsTypeOK, Entered
  <2>2. \A o \in Sweeps : o # w =>
          /\ \A r \in Serials : due'[o] \cap sessions'[r] \subseteq due[o] \cap sessions[r]
          /\ sweep'[o] = sweep[o] /\ named'[o] = named[o] /\ subject'[o] = subject[o] /\ left'[o] = left[o]
    BY <1>7 DEF Again, SessionsTypeOK
  <2>3. sweep'[w] = "idle"
    BY <1>7 DEF Again, SessionsTypeOK
  <2> QED
    BY <2>1, <2>2, <2>3, Shrinks DEF Owed
<1>8. CASE UNCHANGED cevars
  BY <1>8 DEF cevars, SessionsTypeOK, Entered, Owed, Clear
<1> QED
  BY <1>1, <1>2, <1>3, <1>4, <1>5, <1>6, <1>7, <1>8 DEF CeNext

\* What a sweep owes has been listed, was removed by another sweep, or is still
\* registered under a certificate of the agent.
Accounted(w, x) ==
  \/ x \in taken[w] \cup terminated[w]
  \/ \E s \in Serials : Agent[s] = subject[w] /\ x \in sessions[s]

Listed ==
  /\ taken = [w \in Sweeps |-> taken[w]]
  /\ \A w \in Sweeps : \A x \in due[w] : Accounted(w, x)

LEMMA InitListed == CeInit => Listed
BY DEF CeInit, Listed

\* A sweep that pops a serial lists what it had, or leaves it to be counted
\* as taken.
LEMMA PopAccounts ==
    ASSUME SweepInv, Listed, NEW u \in Sweeps, NEW s \in Serials, Pop(u, s),
           UNCHANGED <<due, subject>>, NEW w \in Sweeps, w # u, terminated'[w] = terminated[w],
           NEW x \in due[w]
    PROVE  Accounted(w, x)'
<1>1. /\ taken'[w] = taken[w] \cup (due[w] \cap sessions[s])
      /\ sessions'[s] = {} /\ \A r \in Serials : r # s => sessions'[r] = sessions[r]
  BY DEF Pop, SweepInv, SessionsTypeOK
<1>2. Accounted(w, x)
  BY DEF Listed
<1> QED
  BY <1>1, <1>2 DEF Accounted

LEMMA ListedStep == SweepInv /\ Listed /\ [CeNext]_cevars => Listed'
<1> SUFFICES ASSUME SweepInv, Listed, [CeNext]_cevars
             PROVE  Listed'
  OBVIOUS
<1>1. ASSUME NEW s \in Serials, NEW x \in Sessions, Enrol(s, x)
      PROVE  Listed'
  <2>1. \A w \in Sweeps : due'[w] \subseteq due[w]
    BY <1>1 DEF Enrol, SweepInv, SessionsTypeOK
  <2>2. \A r \in Serials : sessions[r] \subseteq sessions'[r]
    BY <1>1 DEF Enrol, SweepInv, SessionsTypeOK
  <2> QED
    BY <1>1, <2>1, <2>2 DEF Enrol, Listed, Accounted
<1>2. ASSUME NEW x \in Sessions, Deregister(x)
      PROVE  Listed'
  <2>1. \A w \in Sweeps : due'[w] = due[w] \ {x}
    BY <1>2 DEF Deregister
  <2>2. \A r \in Serials : sessions'[r] = sessions[r] \ {x}
    BY <1>2 DEF Deregister
  <2> QED
    BY <1>2, <2>1, <2>2 DEF Deregister, Listed, Accounted
<1>3. ASSUME NEW w \in Sweeps, NEW a \in Agents, NEW s \in Serials \cup {NoSerial}, Notify(w, a, s)
      PROVE  Listed'
  <2>1. /\ due'[w] = UNION {sessions[r] : r \in ThisAgents(a)} /\ subject'[w] = a
        /\ \A o \in Sweeps : o # w => due'[o] = due[o] /\ subject'[o] = subject[o] /\ terminated'[o] = terminated[o]
    BY <1>3 DEF Notify, SweepInv, SessionsTypeOK
  <2>2. CASE s = NoSerial
    <3>1. UNCHANGED <<sessions, taken>>
      BY <1>3, <2>2 DEF Notify
    <3> QED
      BY <2>1, <3>1 DEF Listed, Accounted, ThisAgents, SweepInv, SessionsTypeOK
  <2>3. CASE s # NoSerial
    <3>1. s \in Serials /\ Pop(w, s) /\ terminated'[w] = sessions[s]
      BY <1>3, <2>3 DEF Notify, SweepInv, SessionsTypeOK
    <3>2. /\ taken' = [o \in Sweeps |-> IF o = w THEN taken[o] ELSE taken[o] \cup (due[o] \cap sessions[s])]
          /\ \A r \in Serials : r # s => sessions'[r] = sessions[r]
      BY <3>1 DEF Pop, SweepInv, SessionsTypeOK
    <3>3. ASSUME NEW o \in Sweeps, NEW x \in due'[o]
          PROVE  Accounted(o, x)'
      <4>1. CASE o = w
        <5>1. PICK r \in ThisAgents(a) : x \in sessions[r]
          BY <2>1, <3>3, <4>1
        <5>2. r \in Serials /\ Agent[r] = a
          BY DEF ThisAgents, SweepInv, SessionsTypeOK
        <5>3. CASE r = s
          BY <3>1, <4>1, <5>1, <5>3 DEF Accounted
        <5>4. CASE r # s
          BY <2>1, <3>2, <4>1, <5>1, <5>2, <5>4 DEF Accounted
        <5> QED  BY <5>3, <5>4
      <4>2. CASE o # w
        <5>1. Accounted(o, x)
          BY <2>1, <3>3, <4>2 DEF Listed
        <5>2. taken'[o] = taken[o] \cup (due[o] \cap sessions[s]) /\ x \in due[o]
          BY <2>1, <3>2, <3>3, <4>2
        <5> QED
          BY <2>1, <3>2, <4>2, <5>1, <5>2 DEF Accounted
      <4> QED  BY <4>1, <4>2
    <3>4. taken' = [o \in Sweeps |-> taken'[o]]
      BY <3>2
    <3> QED
      BY <3>3, <3>4 DEF Listed
  <2> QED
    BY <2>2, <2>3
<1>4. ASSUME NEW w \in Sweeps, ReadSerials(w) \/ Return(w)
      PROVE  Listed'
  BY <1>4 DEF ReadSerials, Return, Listed, Accounted
<1>5. ASSUME NEW w \in Sweeps, RevokeNext(w)
      PROVE  Listed'
  <2>1. PICK s \in left[w] : RevokeSerial(w, s)
    BY <1>5 DEF RevokeNext
  <2>2. s \in Serials
    BY <2>1 DEF SweepInv, SessionsTypeOK
  <2>3. /\ Pop(w, s) /\ UNCHANGED <<due, subject>> /\ terminated'[w] = terminated[w] \cup sessions[s]
        /\ \A o \in Sweeps : o # w => terminated'[o] = terminated[o]
    BY <1>5, <2>1 DEF RevokeNext, RevokeSerial, SweepInv, SessionsTypeOK
  <2>4. /\ taken' = [o \in Sweeps |-> IF o = w THEN taken[o] ELSE taken[o] \cup (due[o] \cap sessions[s])]
        /\ \A r \in Serials : r # s => sessions'[r] = sessions[r]
    BY <2>2, <2>3 DEF Pop, SweepInv, SessionsTypeOK
  <2>5. ASSUME NEW o \in Sweeps, NEW x \in due[o]
        PROVE  Accounted(o, x)'
    <3>1. CASE o = w
      <4>1. Accounted(w, x)
        BY <2>5, <3>1 DEF Listed
      <4> QED
        BY <2>3, <2>4, <3>1, <4>1 DEF Accounted
    <3>2. CASE o # w
      BY <2>2, <2>3, <2>5, <3>2, PopAccounts
    <3> QED  BY <3>1, <3>2
  <2>6. taken' = [o \in Sweeps |-> taken'[o]]
    BY <2>4
  <2> QED
    BY <2>3, <2>5, <2>6 DEF Listed
<1>6. ASSUME NEW w \in Sweeps, Again(w)
      PROVE  Listed'
  <2>1. PICK a : subject' = [subject EXCEPT ![w] = a]
    BY <1>6 DEF Again
  <2>2. /\ due'[w] = {} /\ taken' = [taken EXCEPT ![w] = {}] /\ UNCHANGED sessions
        /\ \A o \in Sweeps : o # w => /\ due'[o] = due[o] /\ subject'[o] = subject[o]
                                       /\ terminated'[o] = terminated[o] /\ taken'[o] = taken[o]
    BY <1>6, <2>1 DEF Again, SweepInv, SessionsTypeOK, Listed
  <2>3. ASSUME NEW o \in Sweeps, NEW x \in due'[o]
        PROVE  Accounted(o, x)'
    <3>1. o # w
      BY <2>2, <2>3
    <3> QED
      BY <2>2, <2>3, <3>1 DEF Listed, Accounted
  <2>4. taken' = [o \in Sweeps |-> taken'[o]]
    BY <2>2 DEF Listed
  <2> QED
    BY <2>3, <2>4 DEF Listed
<1>7. CASE UNCHANGED cevars
  BY <1>7 DEF cevars, Listed, Accounted
<1> QED
  BY <1>1, <1>2, <1>3, <1>4, <1>5, <1>6, <1>7 DEF CeNext

(* server/cert_sessions.py: however requests register, sessions end and
   other sweeps run between the methods of one, a sweep that returns leaves
   none of the sessions it was due to remove under any of the agent's
   serials, and its summary lists every one that no other sweep removed. *)
THEOREM NothingDueIsLeft == CeSpec => []SweepLeavesNone
<1>1. SweepInv /\ Listed => SweepLeavesNone
  BY DEF SweepInv, Owed, Clear, Listed, Accounted, SweepLeavesNone
<1> QED
  BY <1>1, InitSweeps, SweepStep, InitListed, ListedStep, PTL DEF CeSpec

-----------------------------------------------------------------------------
(* The identity a registration leaves in the daemon.                         *)

Desks == {"none", "sent", "queued", "refused", "writing", "written", "answered", "lost"}
Holding == {"minted", "document", "document begun", "genesis", "genesis begun"}
Signed == [agent : Keys, by : {"self", "registrar"}]

\* A Genesis of a key that was minted; one a registrar signed was answered for.
Good(g) ==
  /\ g \in Signed /\ g.agent <= minted
  /\ g.by = "registrar" => desk[g.agent] = "answered"

\* The registrar's files and its log, as the thread of a request goes on.
Registry ==
  \A k \in Keys : /\ desk[k] \in {"written", "answered"} => issued[k] = k
                  /\ desk[k] = "answered" => k \in logged

\* Where a Genesis is: asked for or carried by the tool, in the agents
\* directory, in the daemon.
Asked == tool.at = "asking" => tool.key[2] \in Keys /\ tool.key[2] <= minted
Carried == tool.at \in Holding => Good(tool.genesis)
Installed == agents.genesis \notin {None, Torn} => Good(agents.genesis)
Served == daemon.genesis # None => Good(daemon.genesis) /\ daemon.genesis.agent = daemon.doc

ToolShape == tool = [at |-> tool.at, force |-> tool.force, cert |-> tool.cert, key |-> tool.key, genesis |-> tool.genesis]
AgentsShape == agents = [doc |-> agents.doc, genesis |-> agents.genesis, key |-> agents.key]
EnTypeOK ==
  /\ desk \in [Keys -> Desks] /\ issued = [k \in Keys |-> issued[k]] /\ minted \in Nat
  /\ ToolShape /\ AgentsShape

EnInv == EnTypeOK /\ Registry /\ Asked /\ Carried /\ Installed /\ Served

LEMMA InitEnrollment == EnInit => EnInv
<1> SUFFICES ASSUME EnInit
             PROVE  EnInv
  OBVIOUS
<1>1. tool.at = "idle" /\ ToolShape /\ AgentsShape /\ daemon.genesis = None /\ agents.genesis = None
  BY DEF EnInit, Idle, Off, ToolShape, AgentsShape
<1>2. EnTypeOK /\ Registry
  BY <1>1 DEF EnInit, EnTypeOK, Registry, Desks
<1> QED
  BY <1>1, <1>2 DEF EnInv, Asked, Carried, Installed, Served, Holding

\* A good Genesis stays one while the registrar and the tool go on.
LEMMA StaysGood ==
    ASSUME EnTypeOK, minted' \in Nat, minted' >= minted, NEW g, Good(g),
           \A k \in Keys : k <= minted /\ desk[k] = "answered" => desk'[k] = "answered"
    PROVE  Good(g)'
<1>1. g.agent \in Nat /\ g.agent \in Keys
  BY DEF Good, Signed, Keys
<1> QED
  BY <1>1 DEF Good, EnTypeOK

\* Steps of the registrar alone.
LEMMA RegistrarOnly ==
    ASSUME EnInv, UNCHANGED <<tool, agents, daemon, minted>>,
           desk' \in [Keys -> Desks], issued' = [k \in Keys |-> issued'[k]], Registry',
           \A k \in Keys : desk[k] = "answered" => desk'[k] = "answered"
    PROVE  EnInv'
<1>1. EnTypeOK'
  BY DEF EnInv, EnTypeOK, ToolShape, AgentsShape
<1>2. \A g : Good(g) => Good(g)'
  BY StaysGood DEF EnInv, EnTypeOK
<1> QED
  BY <1>1, <1>2 DEF EnInv, Asked, Carried, Installed, Served

LEMMA RegistrarStep ==
    ASSUME EnInv,
           \/ \E k \in Keys : Accept(k) \/ Issue(k) \/ IssueWritten(k) \/ AppendAudit(k)
           \/ RegistrarKilled \/ RegistrarStarted
    PROVE  EnInv'
<1>1. EnTypeOK /\ Registry
  BY DEF EnInv
<1>2. UNCHANGED <<tool, agents, daemon, minted>>
  BY DEF Accept, Issue, IssueWritten, AppendAudit, RegistrarKilled, RegistrarStarted
<1>3. ASSUME NEW k \in Keys, Accept(k) \/ Issue(k) \/ IssueWritten(k) \/ AppendAudit(k)
      PROVE  EnInv'
  <2>1. PICK d \in Desks : desk' = [desk EXCEPT ![k] = d] /\ desk[k] # "answered"
    BY <1>3 DEF Accept, Issue, IssueWritten, AppendAudit, Desks
  <2>2. desk' \in [Keys -> Desks] /\ desk'[k] = d /\ \A j \in Keys : j # k => desk'[j] = desk[j]
    BY <1>1, <2>1 DEF EnTypeOK
  <2>3. issued' = [j \in Keys |-> issued'[j]] /\ \A j \in Keys : j # k => issued'[j] = issued[j]
    BY <1>1, <1>3 DEF EnTypeOK, Accept, Issue, IssueWritten, AppendAudit
  <2>4. logged \subseteq logged'
    BY <1>3 DEF Accept, Issue, IssueWritten, AppendAudit
  <2>5. /\ desk'[k] \in {"written", "answered"} => issued'[k] = k
        /\ desk'[k] = "answered" => k \in logged'
    <3>1. CASE Accept(k)
      BY <1>1, <3>1 DEF Accept, EnTypeOK
    <3>2. CASE Issue(k)
      BY <1>1, <3>2 DEF Issue, EnTypeOK
    <3>3. CASE IssueWritten(k)
      BY <1>1, <3>3 DEF IssueWritten, EnTypeOK
    <3>4. CASE AppendAudit(k)
      BY <1>1, <3>4 DEF AppendAudit, EnTypeOK, Registry
    <3> QED
      BY <1>3, <3>1, <3>2, <3>3, <3>4
  <2>6. Registry'
    BY <1>1, <2>2, <2>3, <2>4, <2>5 DEF Registry
  <2> QED
    BY <1>2, <2>1, <2>2, <2>3, <2>6, RegistrarOnly
<1>4. CASE RegistrarKilled
  <2>1. desk' = [k \in Keys |-> IF desk[k] \in {"none", "answered"} THEN desk[k] ELSE "lost"]
        /\ UNCHANGED <<issued, logged>>
    BY <1>4 DEF RegistrarKilled
  <2>2. desk' \in [Keys -> Desks] /\ \A k \in Keys : desk[k] = "answered" => desk'[k] = "answered"
    BY <1>1, <2>1 DEF EnTypeOK, Desks
  <2>3. Registry' /\ issued' = [j \in Keys |-> issued'[j]]
    BY <1>1, <2>1 DEF Registry, EnTypeOK
  <2> QED
    BY <1>2, <2>2, <2>3, RegistrarOnly
<1>5. CASE RegistrarStarted
  BY <1>1, <1>2, <1>5, RegistrarOnly DEF RegistrarStarted, EnTypeOK, Registry
<1> QED
  BY <1>3, <1>4, <1>5

\* Steps of the tool alone: what it carries and what it installs is good.
LEMMA ToolOnly ==
    ASSUME EnInv, UNCHANGED <<desk, issued, logged, minted, daemon>>, ToolShape', AgentsShape',
           tool'.at = "asking" => tool.at = "asking" /\ tool'.key = tool.key,
           tool'.at \in Holding => Good(tool'.genesis),
           agents'.genesis \notin {None, Torn} => Good(agents'.genesis)
    PROVE  EnInv'
BY DEF EnInv, EnTypeOK, Registry, Asked, Carried, Installed, Served, Good

LEMMA ToolMoves ==
    ASSUME ToolShape, NEW x, tool' = [tool EXCEPT !.at = x]
    PROVE  ToolShape' /\ tool'.at = x /\ tool'.genesis = tool.genesis
BY DEF ToolShape

LEMMA WriteTextStep ==
    ASSUME NEW file, NEW content, NEW at, NEW begun, NEW done, WriteText(file, content, at, begun, done)
    PROVE  /\ tool.at \in {at, begun}
           /\ \E x \in {begun, done, "finally"} : tool' = [tool EXCEPT !.at = x]
           /\ agents' = agents \/ \E c \in {Torn, content} : agents' = [agents EXCEPT ![file] = c]
<1>1. CASE tool' = [tool EXCEPT !.at = begun]
  BY <1>1 DEF WriteText
<1>2. CASE tool' = [tool EXCEPT !.at = done]
  BY <1>2 DEF WriteText
<1>3. CASE tool' = [tool EXCEPT !.at = "finally"]
  BY <1>3 DEF WriteText
<1> QED
  BY <1>1, <1>2, <1>3 DEF WriteText

LEMMA InstallStep == ASSUME EnInv, Install PROVE EnInv'
<1>1. EnTypeOK /\ ToolShape /\ AgentsShape /\ Carried /\ Installed
  BY DEF EnInv, EnTypeOK
<1>2. UNCHANGED <<desk, issued, logged, minted, daemon>>
  BY DEF Install, toolframe
<1>3. /\ tool.at \in Holding
      /\ \E x \in {"document begun", "genesis", "genesis begun", "finally"} : tool' = [tool EXCEPT !.at = x]
      /\ \/ agents' = agents
         \/ \E content : agents' = [agents EXCEPT !.doc = content]
         \/ \E content \in {Torn, tool.genesis} : agents' = [agents EXCEPT !.genesis = content]
  <2>1. CASE WriteText("doc", tool.genesis.agent, "document", "document begun", "genesis")
    <3>1. /\ tool.at \in {"document", "document begun"}
          /\ \E x \in {"document begun", "genesis", "finally"} : tool' = [tool EXCEPT !.at = x]
          /\ agents' = agents \/ \E c \in {Torn, tool.genesis.agent} : agents' = [agents EXCEPT !.doc = c]
      BY <2>1, WriteTextStep
    <3> QED
      BY <3>1 DEF Holding
  <2>2. CASE WriteText("genesis", tool.genesis, "genesis", "genesis begun", "finally")
    <3>1. /\ tool.at \in {"genesis", "genesis begun"}
          /\ \E x \in {"genesis begun", "finally"} : tool' = [tool EXCEPT !.at = x]
          /\ agents' = agents \/ \E c \in {Torn, tool.genesis} : agents' = [agents EXCEPT !.genesis = c]
      <4>1. PICK done : done = "finally"
        OBVIOUS
      <4>2. WriteText("genesis", tool.genesis, "genesis", "genesis begun", done)
        BY <2>2, <4>1
      <4>3. /\ tool.at \in {"genesis", "genesis begun"}
            /\ \E x \in {"genesis begun", done, "finally"} : tool' = [tool EXCEPT !.at = x]
            /\ agents' = agents \/ \E c \in {Torn, tool.genesis} : agents' = [agents EXCEPT !.genesis = c]
        BY <4>2, WriteTextStep
      <4> QED
        BY <4>1, <4>3
    <3> QED
      BY <3>1 DEF Holding
  <2> QED
    BY <2>1, <2>2 DEF Install
<1>4. ToolShape' /\ tool'.genesis = tool.genesis /\ tool'.at \in {"document begun", "genesis", "genesis begun", "finally"}
  BY <1>1, <1>3, ToolMoves
<1>5. /\ AgentsShape'
      /\ agents'.genesis \in {agents.genesis, Torn, tool.genesis}
  BY <1>1, <1>3 DEF AgentsShape
<1> QED
  BY <1>1, <1>2, <1>3, <1>4, <1>5, ToolOnly DEF Carried, Installed

LEMMA ToolStep ==
    ASSUME EnInv, Receive \/ Certify \/ Install \/ Finally \/ ToolKilled
    PROVE  EnInv'
<1>1. EnTypeOK /\ ToolShape /\ AgentsShape /\ Asked /\ Carried /\ Installed
  BY DEF EnInv, EnTypeOK
<1>2. UNCHANGED <<desk, issued, logged, minted, daemon>>
  BY DEF Receive, Certify, Install, Finally, ToolKilled, toolframe
<1>3. CASE Receive
  <2> DEFINE k == tool.key[2]
             g == Genesis(k, "registrar")
  <2>1. k \in Keys /\ k <= minted /\ UNCHANGED agents
    BY <1>1, <1>3 DEF Receive, Asked
  <2>2. CASE desk[k] = "answered" /\ tool' = [tool EXCEPT !.at = "minted", !.genesis = g]
    <3>1. Good(g)
      BY <2>1, <2>2 DEF Good, Genesis, Signed
    <3> HIDE DEF g
    <3>2. ToolShape' /\ tool'.at = "minted" /\ tool'.genesis = g
      BY <1>1, <2>2 DEF ToolShape
    <3> QED
      BY <1>1, <1>2, <2>1, <3>1, <3>2, ToolOnly DEF AgentsShape, Installed
  <2>3. CASE tool' = [tool EXCEPT !.at = "finally"]
    BY <1>1, <1>2, <2>1, <2>3, ToolMoves, ToolOnly DEF AgentsShape, Installed, Holding
  <2> QED
    BY <1>3, <2>2, <2>3 DEF Receive
<1>4. CASE Certify
  <2>1. PICK key : tool' = [tool EXCEPT !.at = "document", !.key = key]
    BY <1>4 DEF Certify
  <2>2. tool.at = "minted" /\ UNCHANGED agents
    BY <1>4 DEF Certify
  <2>3. ToolShape' /\ tool'.at = "document" /\ tool'.genesis = tool.genesis
    BY <1>1, <2>1 DEF ToolShape
  <2> QED
    BY <1>1, <1>2, <2>2, <2>3, ToolOnly DEF AgentsShape, Carried, Installed, Holding
<1>5. CASE Install
  BY <1>5, InstallStep
<1>6. CASE Finally \/ ToolKilled
  <2>1. tool' = Idle /\ (agents' = agents \/ agents' = [agents EXCEPT !.key = tool.key])
    BY <1>6 DEF Finally, ToolKilled
  <2>2. ToolShape' /\ tool'.at = "idle"
    BY <2>1 DEF ToolShape, Idle
  <2>3. AgentsShape' /\ agents'.genesis = agents.genesis
    BY <1>1, <2>1 DEF AgentsShape
  <2> QED
    BY <1>1, <1>2, <2>2, <2>3, ToolOnly DEF Installed, Holding
<1> QED
  BY <1>3, <1>4, <1>5, <1>6

\* A key is minted, and a Genesis signed with it or asked for.
LEMMA MintStep ==
    ASSUME EnInv, NEW force, NEW cert, NEW registrar, Mint(force, cert, registrar)
    PROVE  EnInv'
<1>0. PICK k : k = minted + 1
  OBVIOUS
<1>1. EnTypeOK /\ Registry /\ AgentsShape /\ Installed /\ Served
  BY DEF EnInv, EnTypeOK
<1>2. /\ minted' = k /\ k \in Keys /\ minted \in Nat /\ k > minted
      /\ UNCHANGED <<agents, daemon, issued, logged>>
  BY <1>0, <1>1, EnrollmentAssumption DEF Mint, toolframe, Keys, EnTypeOK
<1>3. desk' = desk \/ desk' = [desk EXCEPT ![k] = "sent"]
  BY <1>0 DEF Mint
<1>4. /\ desk' \in [Keys -> Desks]
      /\ \A j \in Keys : j # k => desk'[j] = desk[j]
      /\ desk'[k] \in {"sent", desk[k]}
  BY <1>1, <1>2, <1>3 DEF EnTypeOK, Desks
<1>5. Registry'
  BY <1>1, <1>2, <1>4 DEF Registry
<1>6. /\ \A j \in Keys : j <= minted => j # k
      /\ minted' \in Nat /\ minted' >= minted /\ minted' <= minted'
  BY <1>2 DEF Keys
<1>7. ASSUME NEW g, Good(g)
      PROVE  Good(g)'
  <2>1. \A j \in Keys : j <= minted /\ desk[j] = "answered" => desk'[j] = "answered"
    BY <1>4, <1>6
  <2> QED
    BY <1>1, <1>6, <1>7, <2>1, StaysGood
<1>10. k \in Keys /\ k <= minted'
  BY <1>2, <1>6
<1>8. ToolShape' /\ Asked' /\ Carried'
  <2>1. CASE registrar
    <3>1. PICK at \in {"asking", "finally"} :
            tool' = [at |-> at, force |-> force, cert |-> cert, key |-> <<"agent", k>>, genesis |-> None]
      BY <1>0, <2>1 DEF Mint, Idle
    <3>2. ToolShape' /\ tool'.at = at /\ tool'.key = <<"agent", k>>
      BY <3>1 DEF ToolShape
    <3>3. tool'.key[2] = k
      <4>1. ASSUME NEW pair, pair = <<"agent", k>>
            PROVE  pair[2] = k
        BY <4>1
      <4> QED
        BY <3>2, <4>1
    <3> QED
      BY <1>10, <3>2, <3>3 DEF Asked, Carried, Holding
  <2>2. CASE ~registrar
    <3> DEFINE g == Genesis(k, "self")
    <3>1. tool' = [at |-> "minted", force |-> force, cert |-> cert, key |-> <<"agent", k>>, genesis |-> g]
      BY <1>0, <2>2 DEF Mint
    <3>2. Good(g)'
      BY <1>10 DEF Good, Genesis, Signed
    <3> HIDE DEF g
    <3>3. ToolShape' /\ tool'.at = "minted" /\ tool'.genesis = g
      BY <3>1 DEF ToolShape
    <3> QED
      BY <3>2, <3>3 DEF Asked, Carried
  <2> QED
    BY <2>1, <2>2
<1>9. Installed' /\ Served' /\ AgentsShape'
  BY <1>1, <1>2, <1>7 DEF Installed, Served, AgentsShape
<1>11. issued' = [j \in Keys |-> issued'[j]]
  BY <1>1, <1>2 DEF EnTypeOK
<1> QED
  BY <1>4, <1>5, <1>6, <1>8, <1>9, <1>11 DEF EnInv, EnTypeOK

LEMMA DaemonStep == ASSUME EnInv, LoadAgents \/ Stop \/ Persist PROVE EnInv'
<1>1. EnTypeOK /\ Registry /\ AgentsShape /\ Asked /\ Carried /\ Installed /\ Served
  BY DEF EnInv, EnTypeOK
<1>2. UNCHANGED <<desk, issued, logged, minted, tool>>
  BY DEF LoadAgents, Stop, Persist, daemonframe
<1>3. AgentsShape' /\ agents'.genesis = agents.genesis
  BY <1>1 DEF LoadAgents, Stop, Persist, AgentsShape
<1>4. Served'
  <2>1. CASE LoadAgents
    <3>1. CASE agents.doc \in {None, Torn}
      BY <2>1, <3>1 DEF LoadAgents, Off, Served
    <3>2. CASE agents.doc \notin {None, Torn}
      <4>1. daemon'.doc = agents.doc /\ daemon'.genesis = Attached(agents.doc, agents.genesis)
        BY <2>1, <3>2 DEF LoadAgents
      <4> QED
        BY <1>1, <1>2, <4>1 DEF Attached, Served, Installed, Good
    <3> QED
      BY <3>1, <3>2
  <2>2. CASE Stop
    BY <2>2 DEF Stop, Off, Served
  <2>3. CASE Persist
    BY <1>1, <1>2, <2>3 DEF Persist, Served, Good
  <2> QED
    BY <2>1, <2>2, <2>3
<1> QED
  BY <1>1, <1>2, <1>3, <1>4 DEF EnInv, EnTypeOK, Registry, ToolShape, Asked, Carried, Installed, Good

(* server/main.py and tools/agtp_agent.py: whatever is killed or restarted
   between two of its steps, and however registrations, the registrar and
   the daemon interleave, the Genesis a daemon serves is its document's own
   and, when a registrar signed it, is on the registrar's disk and in its
   log. *)
THEOREM ServedIdentity == EnSpec => []ServedIdentityIsRegistered
<1>1. EnInv => ServedIdentityIsRegistered
  BY DEF EnInv, Served, Good, Signed, Registry, ServedIdentityIsRegistered
<1>2. EnInv /\ [EnNext]_envars => EnInv'
  <2> SUFFICES ASSUME EnInv, [EnNext]_envars
               PROVE  EnInv'
    OBVIOUS
  <2>1. CASE UNCHANGED envars
    BY <2>1, RegistrarOnly DEF envars, EnInv, EnTypeOK, Registry
  <2> QED
    BY <2>1, RegistrarStep, ToolStep, MintStep, DaemonStep DEF EnNext
<1> QED
  BY <1>1, <1>2, InitEnrollment, PTL DEF EnSpec

-----------------------------------------------------------------------------
(* The run of a plan.                                                        *)

\* The first n steps of the plan ran and were answered 200.
RanTo(n) ==
  /\ n <= Len(chosen.steps)
  /\ \A i \in 1..n : captured[i].code = 200 /\ captured[i].method = chosen.steps[i].method

\* Only the step that ended the run may have been answered otherwise.
PlanInv ==
  /\ next \in Nat \ {0} /\ \E S : captured \in Seq(S)
  /\ chosen \in {Open, NoPlan} => next = 1 /\ captured = <<>> /\ outcome = NoPlan
  /\ chosen = Open => shelf \in Shelves
  /\ chosen \notin {Open, NoPlan} => Len(chosen.steps) \in Nat /\ RanTo(next - 1)
  /\ Len(captured) = next - 1 \/ (outcome # NoPlan /\ Len(captured) = next)
  /\ outcome # NoPlan /\ outcome.code = 200 => Len(captured) = next - 1 /\ next > Len(chosen.steps)

\* A plan a policy offers is a list of steps.
LEMMA PlansAreListed ==
    ASSUME shelf \in Shelves, NEW i \in DOMAIN shelf, NEW plan \in Fitting(i)
    PROVE  Len(plan.steps) \in Nat
<1>1. plan \in FromPolicy(shelf[i], proposal)
  BY DEF Fitting
<1>2. CASE shelf[i].kind = "passthrough"
  BY <1>1, <1>2 DEF FromPolicy, Passthrough
<1>3. CASE shelf[i].kind # "passthrough"
  BY <1>1, <1>3, CompositionAssumption DEF FromPolicy
<1> QED
  BY <1>2, <1>3

\* A list with one more element is a list.
LEMMA Longer ==
    ASSUME NEW S, NEW s \in Seq(S), NEW x
    PROVE  /\ Append(s, x) \in Seq(S \cup {x}) /\ Len(Append(s, x)) = Len(s) + 1 /\ Len(s) \in Nat
           /\ Append(s, x)[Len(s) + 1] = x /\ \A i \in 1..Len(s) : Append(s, x)[i] = s[i]
<1>1. s \in Seq(S \cup {x})
  OBVIOUS
<1> QED
  BY <1>1

LEMMA RunStepInOrder == PlanInv /\ RunStep => PlanInv'
<1> SUFFICES ASSUME PlanInv, RunStep
             PROVE  PlanInv'
  OBVIOUS
<1> DEFINE s == chosen.steps[next]
           sent(code) == [method |-> s.method, params |-> Resolved(s), code |-> code]
<1>1. /\ chosen \notin {Open, NoPlan} /\ outcome = NoPlan /\ next <= Len(chosen.steps)
      /\ chosen' = chosen /\ shelf' = shelf
  BY DEF RunStep, Running, offer
<1>2. PICK S : captured \in Seq(S)
  BY DEF PlanInv
<1>3. PICK n \in Nat \ {0} : n = next
  BY DEF PlanInv
<1>4. Len(captured) = n - 1 /\ Len(chosen.steps) \in Nat /\ RanTo(n - 1) /\ n <= Len(chosen.steps)
  BY <1>1, <1>3 DEF PlanInv
<1>5. ASSUME NEW code, captured' = Append(captured, sent(code))
      PROVE  /\ \E T : captured' \in Seq(T)
             /\ Len(captured') = n /\ captured'[n].method = s.method /\ captured'[n].code = code
             /\ RanTo(n - 1)'
  <2>1. /\ captured' \in Seq(S \cup {sent(code)}) /\ Len(captured') = n
        /\ captured'[n] = sent(code) /\ \A i \in 1..n - 1 : captured'[i] = captured[i]
    BY <1>2, <1>4, <1>5, Longer
  <2> QED
    BY <2>1, <1>1, <1>4 DEF RanTo
<1>6. CASE Dispatched(s, 200) /\ next' = next + 1 /\ UNCHANGED outcome
  <2>1. captured' = Append(captured, sent(200))
    BY <1>6 DEF Dispatched
  <2>2. RanTo(n)'
    BY <2>1, <1>1, <1>3, <1>4, <1>5 DEF RanTo
  <2>3. next' = n + 1 /\ Len(captured') = n /\ \E T : captured' \in Seq(T)
    BY <2>1, <1>3, <1>5, <1>6
  <2> QED
    BY <2>2, <2>3, <1>1, <1>4, <1>6 DEF PlanInv
<1>7. CASE \E code \in {200, 404} \ {200} :
             /\ Dispatched(s, code) /\ outcome' = [code |-> code, why |-> "synthesis-step-failed"]
             /\ UNCHANGED <<next, context>>
  <2>1. /\ captured' = Append(captured, sent(404)) /\ next' = next
        /\ outcome' = [code |-> 404, why |-> "synthesis-step-failed"]
    BY <1>7 DEF Dispatched
  <2>2. outcome' # NoPlan /\ outcome'.code = 404
    BY <2>1, CompositionAssumption
  <2>3. next' = n /\ Len(captured') = n /\ RanTo(n - 1)' /\ \E T : captured' \in Seq(T)
    BY <2>1, <1>3, <1>5
  <2> QED
    BY <2>2, <2>3, <1>1, <1>4 DEF PlanInv
<1> QED
  BY <1>6, <1>7 DEF RunStep

(* synthesis/runtime.py execute_plan: the steps of a plan run in its order,
   each after all before it were answered 200, and a success is reported only
   when every step of the plan ran and succeeded; for any policies, recipes,
   proposals and depth limits. *)
THEOREM PlansRunInOrder == ComposeSpec => []PartialPlansFail
<1>1. ComposeInit => PlanInv
  <2> SUFFICES ASSUME ComposeInit
               PROVE  PlanInv
    OBVIOUS
  <2>1. captured \in Seq({})
    BY DEF ComposeInit
  <2> QED
    BY <2>1 DEF ComposeInit, PlanInv
<1>2. PlanInv /\ [ComposeNext]_composeVars => PlanInv'
  <2> SUFFICES ASSUME PlanInv, [ComposeNext]_composeVars
               PROVE  PlanInv'
    OBVIOUS
  <2>1. CASE Attempt
    <3>1. chosen = Open /\ next = 1 /\ captured = <<>> /\ outcome = NoPlan /\ shelf \in Shelves
          /\ UNCHANGED <<next, captured, outcome, shelf>>
      BY <2>1 DEF Attempt, PlanInv, offer
    <3>2. chosen' # NoPlan => Len(chosen'.steps) \in Nat
      BY <2>1, <3>1, PlansAreListed DEF Attempt
    <3> QED
      BY <3>1, <3>2 DEF PlanInv, RanTo
  <2>2. CASE Invoke
    BY <2>2 DEF Invoke, PlanInv, RanTo, offer
  <2>3. CASE BadReference
    <3>1. Running /\ outcome'.code = 500 /\ UNCHANGED <<chosen, next, captured, shelf>>
      BY <2>3 DEF BadReference, offer
    <3> QED
      BY <3>1 DEF PlanInv, RanTo, Running
  <2>4. CASE RunStep
    BY <2>4, RunStepInOrder
  <2>5. CASE Aggregate
    <3>1. Running /\ next > Len(chosen.steps) /\ UNCHANGED <<chosen, next, captured, shelf>>
      BY <2>5 DEF Aggregate, offer
    <3> QED
      BY <3>1 DEF PlanInv, RanTo, Running
  <2>6. CASE UNCHANGED composeVars
    BY <2>6 DEF composeVars, offer, PlanInv, RanTo
  <2> QED
    BY <2>1, <2>2, <2>3, <2>4, <2>5, <2>6 DEF ComposeNext
<1>3. PlanInv => PartialPlansFail
  <2> SUFFICES ASSUME PlanInv
               PROVE  PartialPlansFail
    OBVIOUS
  <2>1. DOMAIN captured = 1..Len(captured) /\ Len(captured) \in Nat
    BY DEF PlanInv
  <2>2. CASE chosen \in {Open, NoPlan}
    BY <2>2 DEF PlanInv, PartialPlansFail
  <2>3. CASE chosen \notin {Open, NoPlan}
    <3> DEFINE len == Len(captured)
    <3> HIDE DEF len
    <3>1. len \in Nat /\ (len = next - 1 \/ len = next) /\ DOMAIN captured = 1..len
      BY <2>1 DEF PlanInv, len
    <3>2. /\ next \in Nat \ {0} /\ Len(chosen.steps) \in Nat /\ next - 1 <= Len(chosen.steps)
          /\ \A i \in 1..next - 1 : captured[i].code = 200 /\ captured[i].method = chosen.steps[i].method
      BY <2>3 DEF PlanInv, RanTo
    <3>3. \A i \in DOMAIN captured : i < len => captured[i].code = 200
      BY <3>1, <3>2
    <3>4. outcome # NoPlan /\ outcome.code = 200 => len = next - 1 /\ next > Len(chosen.steps)
      BY DEF PlanInv, len
    <3>5. ASSUME outcome # NoPlan, outcome.code = 200
          PROVE  DOMAIN captured = 1..next - 1 /\ len = Len(chosen.steps)
      BY <3>1, <3>2, <3>4, <3>5
    <3> QED
      BY <3>2, <3>3, <3>5 DEF PartialPlansFail, len
  <2> QED
    BY <2>2, <2>3
<1> QED
  BY <1>1, <1>2, <1>3, PTL DEF ComposeSpec

-----------------------------------------------------------------------------
(* Endpoints from a document to an answer.                                   *)

Writing == {"POST", "PUT", "PATCH", "DELETE"}

\* What the importer says of an endpoint, wherever the file has got to.
AsImported(f) ==
  f.by = "importer" =>
    /\ f.type = "external_service" /\ Mapped(f.map) \cup Transport \subseteq f.errors
    /\ f.http \in Writing => f.impact = "irreversible"

\* The answers that are kept are of endpoints in service that only read.
EndInv ==
  /\ \A n \in DOMAIN files : AsImported(files[n])
  /\ \A f \in specs : AsImported(f)
  /\ \A k \in DOMAIN entries : AsImported(entries[k])
  /\ \A k \in kept : stage = "up" /\ k \in DOMAIN entries /\ Cacheable(entries[k])
  /\ ImportedErrorsDeclared /\ WritesReachUpstream

\* A step that answers nothing.
LEMMA NoAnswer ==
    ASSUME ImportedErrorsDeclared, WritesReachUpstream, reply' \in {reply, Absent}
    PROVE  ImportedErrorsDeclared' /\ WritesReachUpstream'
BY DEF ImportedErrorsDeclared, WritesReachUpstream

\* A conversion describes the operation.
LEMMA Converted == \A op, base : AsImported(Convert(op, base))
BY DEF AsImported, Convert, Declared, ImpactOf, Writing

LEMMA ImportSound == EndInv /\ (\E d \in Documents : Import(d)) => EndInv'
<1> SUFFICES ASSUME EndInv, NEW d \in Documents, Import(d)
             PROVE  EndInv'
  OBVIOUS
<1> DEFINE new == Written(d)
<1>1. \A n \in DOMAIN new : AsImported(new[n])
  BY Converted DEF Written
<1>2. files' = [n \in DOMAIN files \cup DOMAIN new |-> IF n \in DOMAIN new THEN new[n] ELSE files[n]]
  BY DEF Import
<1>3. \A n \in DOMAIN files' : AsImported(files'[n])
  <2> HIDE DEF new
  <2> QED
    BY <1>1, <1>2 DEF EndInv
<1>4. ImportedErrorsDeclared' /\ WritesReachUpstream'
  BY NoAnswer DEF EndInv, Import
<1> QED
  BY <1>3, <1>4 DEF EndInv, Import

\* Validation, resolution and the first claim on a path choose among files.
LEMMA BootSound ==
    ASSUME EndInv, Boot \/ Load \/ Register \/ RegisterBuiltins \/ Announce \/ Restart \/ \E r \in Registries : Connects(r)
    PROVE  EndInv'
<1>1. CASE Boot
  BY <1>1, NoAnswer DEF Boot, EndInv
<1>2. CASE Load
  <2>1. \A f \in specs' : AsImported(f)
    BY <1>2 DEF Load, EndInv, Found
  <2> QED
    BY <1>2, <2>1, NoAnswer DEF Load, EndInv
<1>3. CASE Register
  <2>1. \A k \in DOMAIN entries' : AsImported(entries'[k])
    <3>1. CASE entries' = entries
      BY <3>1 DEF EndInv
    <3>2. ASSUME NEW first \in Claims({f \in specs : Resolves(f) /\ Key(f) \notin DOMAIN entries}),
                 entries' = [k \in DOMAIN entries \cup DOMAIN first |->
                               IF k \in DOMAIN entries THEN entries[k] ELSE first[k]]
          PROVE  \A k \in DOMAIN entries' : AsImported(entries'[k])
      <4>1. \A k \in DOMAIN first : first[k] \in specs
        BY DEF Claims
      <4> QED
        BY <3>2, <4>1 DEF EndInv
    <3> QED
      BY <1>3, <3>1, <3>2 DEF Register
  <2> QED
    BY <1>3, <2>1, NoAnswer DEF Register, EndInv
<1>4. CASE RegisterBuiltins
  <2>1. \A k : AsImported(Builtin(k))
    BY DEF AsImported, Builtin
  <2>2. \A k \in DOMAIN entries' : AsImported(entries'[k])
    BY <1>4, <2>1 DEF RegisterBuiltins, EndInv
  <2> QED
    BY <1>4, <2>2, NoAnswer DEF RegisterBuiltins, EndInv
<1>5. CASE Announce
  BY <1>5, NoAnswer DEF Announce, EndInv
<1>6. CASE Restart
  BY <1>6, NoAnswer DEF Restart, EndInv, NoEntries
<1>7. CASE \E r \in Registries : Connects(r)
  BY <1>7, NoAnswer DEF Connects, EndInv
<1> QED
  BY <1>1, <1>2, <1>3, <1>4, <1>5, <1>6, <1>7

\* The codes an imported endpoint may answer are those it declares.
LEMMA CodesDeclared ==
    ASSUME NEW f, AsImported(f), f.by = "importer", NEW o \in Outcomes
    PROVE  ExternalCode(f, o) \in f.errors \cup {"ok", "exception"}
<1>1. Mapped(f.map) \cup Transport \subseteq f.errors
  BY DEF AsImported
<1>2. o.status \in DOMAIN f.map => f.map[o.status] \in f.errors
  BY <1>1 DEF Mapped
<1>3. {"upstream_malformed_response", "upstream_authentication_failed", "upstream_error"} \subseteq f.errors
  BY <1>1 DEF Transport
<1> QED
  BY <1>1, <1>2, <1>3 DEF ExternalCode, Outcomes, Transport

LEMMA Answering ==
    ASSUME EndInv, NEW f, NEW code, NEW upstream, Reply(f, code, upstream), AsImported(f),
           f.by = "importer" => code \in f.errors \cup {"ok", "exception"},
           f.by = "importer" /\ upstream = "cache" => f.http \notin Writing
    PROVE  ImportedErrorsDeclared' /\ WritesReachUpstream'
<1>1. PICK seen \in Translated(f, code) :
         reply' = [file |-> f, code |-> code, seen |-> seen, upstream |-> upstream]
  BY DEF Reply
<1>2. f.by = "importer" => seen # "undeclared-error-code"
  BY <1>1 DEF Translated
<1> QED
  BY <1>1, <1>2 DEF ImportedErrorsDeclared, WritesReachUpstream, Writing

LEMMA ServiceSound ==
    ASSUME EndInv, stage = "up", NEW k \in DOMAIN entries, InService(k)
    PROVE  EndInv'
<1> DEFINE f == entries[k]
<1>1. AsImported(f)
  BY DEF EndInv
<1>2. UNCHANGED booted
  BY DEF InService, ServeExternal, ServeKept, Expire, ServeComposition, ServeFunction, ServeModule, Reply
<1>3. ASSUME \A j \in kept' : Cacheable(entries[j]) /\ j \in DOMAIN entries,
             ImportedErrorsDeclared' /\ WritesReachUpstream'
      PROVE  EndInv'
  BY <1>2, <1>3 DEF EndInv, booted
<1>4. CASE ServeExternal(k)
  <2>1. PICK o \in Outcomes : /\ Reply(f, ExternalCode(f, o), o.status)
                              /\ kept' = IF ExternalCode(f, o) = "ok" /\ Cacheable(f) THEN kept \cup {k} ELSE kept
    BY <1>4 DEF ServeExternal
  <2>2. o.status # "cache"
    BY EndpointAssumption DEF Outcomes
  <2>3. ImportedErrorsDeclared' /\ WritesReachUpstream'
    BY <2>1, <2>2, <1>1, CodesDeclared, Answering
  <2> QED
    BY <2>1, <2>3, <1>3 DEF EndInv
<1>5. CASE ServeKept(k)
  <2>1. f.impact = "irreversible" => ~Cacheable(f)
    BY DEF Cacheable
  <2>2. f.by = "importer" => f.http \notin Writing
    BY <1>1, <1>5, <2>1 DEF ServeKept, EndInv, AsImported
  <2>3. ImportedErrorsDeclared' /\ WritesReachUpstream'
    BY <1>1, <1>5, <2>2, Answering DEF ServeKept
  <2> QED
    BY <2>3, <1>3, <1>5 DEF ServeKept, EndInv
<1>6. CASE Expire(k)
  BY <1>3, <1>6, NoAnswer DEF Expire, EndInv
<1>7. CASE ServeComposition(k) \/ ServeFunction(k) \/ ServeModule(k)
  <2>1. f.by # "importer"
    BY <1>1, <1>7 DEF ServeComposition, ServeFunction, ServeModule, AsImported
  <2>2. PICK code, upstream : Reply(f, code, upstream)
    BY <1>7 DEF ServeComposition, ServeFunction, ServeModule
  <2>3. ImportedErrorsDeclared' /\ WritesReachUpstream'
    BY <1>1, <2>1, <2>2, Answering
  <2>4. kept' = kept
    BY <1>7 DEF ServeComposition, ServeFunction, ServeModule
  <2> QED
    BY <2>3, <2>4, <1>3 DEF EndInv
<1> QED
  BY <1>4, <1>5, <1>6, <1>7 DEF InService

LEMMA EndpointsSound == EndSpec => []EndInv
<1>1. EndInit => EndInv
  BY EndpointAssumption DEF EndInit, EndInv, AsImported, NoEntries, ImportedErrorsDeclared, WritesReachUpstream
<1>2. EndInv /\ [EndNext]_endvars => EndInv'
  <2> SUFFICES ASSUME EndInv, [EndNext]_endvars
               PROVE  EndInv'
    OBVIOUS
  <2>1. CASE UNCHANGED endvars
    BY <2>1, NoAnswer DEF endvars, EndInv
  <2> QED
    BY <2>1, ImportSound, BootSound, ServiceSound DEF EndNext
<1> QED
  BY <1>1, <1>2, PTL DEF EndSpec

(* tools/openapi_import.py with server/methods.py: an endpoint the importer
   wrote and the daemon registered never answers an error it has not
   declared, whatever the document says and the upstream does. *)
THEOREM ErrorsDeclared == EndSpec => []ImportedErrorsDeclared
<1>1. EndInv => ImportedErrorsDeclared
  BY DEF EndInv
<1> QED
  BY <1>1, EndpointsSound, PTL

(* operational/mod_cache/hook.py decides by the impact the importer wrote: no
   answer of an imported operation that writes comes out of the cache. *)
THEOREM WritesAreCarriedOut == EndSpec => []WritesReachUpstream
<1>1. EndInv => WritesReachUpstream
  BY DEF EndInv
<1> QED
  BY <1>1, EndpointsSound, PTL
=============================================================================
