----------------------------- MODULE ContractProofs -----------------------------
(***************************************************************************)
(* Theorems about ContractServer, for every value of its constants: type   *)
(* correctness, isolation, ownership in the idempotency cache, the limit   *)
(* of the durable store, and the refinement of ContractLedger.             *)
(***************************************************************************)
EXTENDS ContractServer, TLAPS

\* The labels at which a thread has an id in hand.
Holding == {"cached_plan", "mirror", "remember", "announce", "deliver", "lookup",
            "owner", "execute", "walk", "stamp_hash", "stamp", "snapshot",
            "expire", "unmirror", "publish"}

\* A request under way has an agent behind it.
Attributed == \A t \in Threads : pc[t] # "idle" => req[t].agent \in Agents

\* Whatever id a thread works with was handed out.
HoldsMinted ==
    \A t \in Threads : pc[t] \in Holding => loc[t].sid \in minted

\* The side table agrees with the ledger as long as the contract is active:
\* plan and originator are written, and removed, in the same locked region.
OwnersAgree ==
    \A s \in Sids : active[s] # NoPlan => s \in minted /\ originating[s] = owner_of[s]

\* Between its registration and its delivery a negotiated contract is the
\* negotiating agent's own; so is one taken from the idempotency cache.
OwnNegotiation ==
    \A t \in Threads :
        \/ pc[t] \in {"cached_plan", "remember", "announce", "deliver"}
        \/ pc[t] = "mirror" /\ req[t].kind = "negotiate"
        => owner_of[loc[t].sid] = req[t].agent

\* A thread that passed the ownership check either works for the holder or on
\* an id that has been evicted since, and then for good.
Cleared ==
    \A t \in Threads :
        pc[t] = "execute" /\ active[loc[t].sid] # NoPlan
            => owner_of[loc[t].sid] \in {req[t].agent, Nobody}

RanMinted == \A use \in ran : use[2] \in minted

Inv == /\ Attributed /\ HoldsMinted /\ OwnersAgree /\ OwnNegotiation /\ Cleared
       /\ RanMinted /\ CacheNamesOwnContract /\ ContractIsolation

IInv == TypeOK /\ Inv

-----------------------------------------------------------------------------
(* Type correctness.                                                         *)

\* The values a finished thread is reset to are typed.
LEMMA EmptyTyped == EmptyFrame \in Frames /\ NoRequest \in Requests
  BY ServerAssumption DEF Frames, EmptyFrame, Returns, Requests, NoRequest

\* A write to an existing field, or to a pair of them, keeps a frame a frame.
LEMMA FrameUpdates ==
    ASSUME NEW f \in Frames
    PROVE  /\ \A b \in BOOLEAN : [f EXCEPT !.existed = b] \in Frames
           /\ \A s \in Sids \cup {NoSid}, b \in BOOLEAN :
                 [f EXCEPT !.sid = s, !.late = b] \in Frames
           /\ \A s \in Sids, p \in Plans \cup {NoPlan} :
                 [f EXCEPT !.sid = s, !.hash = p] \in Frames
           /\ \A a \in Agents \cup {Nobody}, r \in Returns :
                 [f EXCEPT !.seen = a, !.ret = r] \in Frames
           /\ [f EXCEPT !.status = 404, !.ret = "stamp_hash"] \in Frames
<1>1. \A b \in BOOLEAN : [f EXCEPT !.existed = b] \in Frames
  <2>1. [f EXCEPT !.existed = TRUE] \in Frames
    BY ZenonT(60) DEF Frames
  <2>2. [f EXCEPT !.existed = FALSE] \in Frames
    BY ZenonT(60) DEF Frames
  <2> QED
    BY <2>1, <2>2
<1>2. ASSUME NEW s \in Sids \cup {NoSid}, NEW b \in BOOLEAN
      PROVE  [f EXCEPT !.sid = s, !.late = b] \in Frames
  BY ZenonT(60) DEF Frames
<1>3. ASSUME NEW s \in Sids, NEW p \in Plans \cup {NoPlan}
      PROVE  [f EXCEPT !.sid = s, !.hash = p] \in Frames
  BY ZenonT(60) DEF Frames
<1>4. ASSUME NEW a \in Agents \cup {Nobody}, NEW r \in Returns
      PROVE  [f EXCEPT !.seen = a, !.ret = r] \in Frames
  BY ZenonT(60) DEF Frames
<1>5. ASSUME NEW c \in {200, 404}, NEW r \in Returns
      PROVE  [f EXCEPT !.status = c, !.ret = r] \in Frames
  BY ZenonT(60) DEF Frames
<1>6. 404 \in {200, 404} /\ "stamp_hash" \in Returns
  BY DEF Returns
<1> QED
  BY ZenonT(60), <1>1, <1>2, <1>3, <1>4, <1>5, <1>6

\* Ending a request, and moving on with a typed frame, keep the threads typed.
LEMMA Moves ==
    ASSUME ThreadTypeOK, NEW t \in Threads
    PROVE  /\ Finish(t) => ThreadTypeOK'
           /\ \A l \in Labels : GoTo(t, l) /\ loc' \in [Threads -> Frames] => ThreadTypeOK'
  BY EmptyTyped DEF ThreadTypeOK, Finish, GoTo, Labels

\* Every step keeps pc, req and loc typed.
LEMMA ThreadTypeStep ==
    ASSUME TypeOK, HoldsMinted, Attributed, Next PROVE ThreadTypeOK'
<1> USE DEF At
<1>0. /\ ThreadTypeOK /\ RuntimeTypeOK /\ GateTypeOK
      /\ loc \in [Threads -> Frames] /\ req \in [Threads -> Requests]
  BY DEF TypeOK, ThreadTypeOK
<1>1. ASSUME NEW t \in Threads, Arrive(t) PROVE ThreadTypeOK'
  <2>1. PICK r \in Negotiations \cup Proposals \cup Presentations :
          /\ r.kind \in Kinds
          /\ pc'  = [pc EXCEPT ![t] = FirstLabel(r.kind)]
          /\ req' = [req EXCEPT ![t] = r]
          /\ loc' = [loc EXCEPT ![t] = [EmptyFrame EXCEPT
                       !.sid = r.sid, !.late = r.kind = "invoke" /\ Gone(r.sid)]]
    BY <1>1 DEF Arrive
  <2>2. r \in Requests
    BY <1>0, <2>1, ServerAssumption DEF Negotiations, Proposals, Presentations, Requests, RuntimeTypeOK
  <2>3. (r.kind = "invoke" /\ Gone(r.sid)) \in BOOLEAN
    OBVIOUS
  <2>4. r.sid \in Sids \cup {NoSid}
    BY <2>2 DEF Requests
  <2>5. [EmptyFrame EXCEPT !.sid = r.sid, !.late = r.kind = "invoke" /\ Gone(r.sid)] \in Frames
    BY ZenonT(60), <2>3, <2>4, EmptyTyped, FrameUpdates
  <2>6. FirstLabel(r.kind) \in Labels
    BY DEF FirstLabel, Labels
  <2> QED
    BY <1>0, <1>1, <2>1, <2>2, <2>5, <2>6, ServerAssumption DEF Arrive, ThreadTypeOK
<1>2. ASSUME NEW t \in Threads,
             \/ GateRefuses(t) \/ RateLimited(t) \/ DeliverPreview(t) \/ RefuseStranger(t)
             \/ Stamp(t) \/ Publish(t)
      PROVE ThreadTypeOK'
  BY <1>0, <1>2, Moves
     DEF GateRefuses, RateLimited, DeliverPreview, RefuseStranger, Stamp, Publish
<1>3. ASSUME NEW t \in Threads,
             \/ RateAdmits(t) \/ CachedPlanGone(t) \/ Compose(t) \/ MirrorContract(t)
             \/ Remember(t) \/ Announce(t) \/ DeliverInline(t) \/ LookupLive(t)
             \/ Execute(t) \/ WalkSteps(t)
      PROVE ThreadTypeOK'
  BY <1>0, <1>3, Moves
     DEF RateAdmits, CachedPlanGone, Compose, MirrorContract, Remember, Announce,
         DeliverInline, LookupLive, Execute, WalkSteps, Labels
<1>4. ASSUME NEW t \in Threads, ReadCache(t) PROVE ThreadTypeOK'
  <2>1. CachedSid(req[t].agent, req[t].key) \in Sids \cup {NoSid}
    BY <1>0, <1>4 DEF ReadCache, CachedSid, GateTypeOK, Attributed
  <2>2. [loc[t] EXCEPT !.sid = CachedSid(req[t].agent, req[t].key)] \in Frames
    BY <1>0, <2>1 DEF Frames
  <2>3. loc' \in [Threads -> Frames]
    BY <1>0, <1>4, <2>2 DEF ReadCache
  <2> QED BY <1>0, <1>4, <2>3, Moves DEF ReadCache, Labels
<1>5. ASSUME NEW t \in Threads, CachedPlanLives(t) \/ StampHash(t) PROVE ThreadTypeOK'
  <2>1. contract_hashes[loc[t].sid] \in Plans \cup {NoPlan}
    BY <1>0, <1>5 DEF CachedPlanLives, StampHash, HoldsMinted, Holding, RuntimeTypeOK
  <2>2. [loc[t] EXCEPT !.hash = contract_hashes[loc[t].sid]] \in Frames
    BY <1>0, <2>1 DEF Frames
  <2>3. loc' \in [Threads -> Frames]
    BY <1>0, <1>5, <2>2 DEF CachedPlanLives, StampHash
  <2> QED BY <1>0, <1>5, <2>3, Moves DEF CachedPlanLives, StampHash, Labels
<1>6. ASSUME NEW t \in Threads, RegisterNegotiated(t) PROVE ThreadTypeOK'
  <2>1. PICK s \in Sids : loc' = [loc EXCEPT ![t].sid = s, ![t].hash = req[t].plan]
    BY <1>6 DEF RegisterNegotiated
  <2>2. [loc[t] EXCEPT !.sid = s, !.hash = req[t].plan] \in Frames
    <3>1. req[t].plan \in Plans \cup {NoPlan}
      BY <1>0 DEF Requests
    <3>2. loc[t] \in Frames
      BY <1>0
    <3> QED BY ZenonT(60), <3>1, <3>2, FrameUpdates
  <2>3. loc' \in [Threads -> Frames]
    BY <1>0, <2>1, <2>2
  <2> QED BY <1>0, <1>6, <2>3, Moves DEF RegisterNegotiated, Labels
<1>7. ASSUME NEW t \in Threads, RegisterProposed(t) PROVE ThreadTypeOK'
  <2>1. PICK s \in Sids : loc' = [loc EXCEPT ![t].sid = s]
    BY <1>7 DEF RegisterProposed
  <2>2. [loc[t] EXCEPT !.sid = s] \in Frames
    BY <1>0 DEF Frames
  <2>3. loc' \in [Threads -> Frames]
    BY <1>0, <2>1, <2>2
  <2> QED BY <1>0, <1>7, <2>3, Moves DEF RegisterProposed, Labels
<1>8. ASSUME NEW t \in Threads, LookupGone(t) \/ LookupOverdue(t) PROVE ThreadTypeOK'
  <2>1. /\ [loc[t] EXCEPT !.ret = "publish"] \in Frames
        /\ [loc[t] EXCEPT !.ret = "expire"] \in Frames
        /\ [loc[t] EXCEPT !.ret = "done"] \in Frames
        /\ [loc[t] EXCEPT !.status = 404] \in Frames
    BY <1>0 DEF Frames, Returns
  <2>3. [loc[t] EXCEPT !.status = 404, !.ret = "stamp_hash"] \in Frames
    BY ZenonT(60), <1>0, FrameUpdates
  <2>2. Finish(t) \/ loc' \in [Threads -> Frames]
    BY <1>0, <1>8, <2>1, <2>3 DEF LookupGone, LookupOverdue, EvictThen
  <2> QED BY <1>0, <1>8, <2>2, Moves DEF LookupGone, LookupOverdue, EvictThen, Labels
<1>9. ASSUME NEW t \in Threads, ReadOwner(t) PROVE ThreadTypeOK'
  <2>1. originating[loc[t].sid] \in Agents \cup {Nobody}
    BY <1>0, <1>9 DEF ReadOwner, HoldsMinted, Holding, RuntimeTypeOK
  <2>2. [loc[t] EXCEPT !.seen = originating[loc[t].sid],
                       !.ret = IF req[t].kind = "suspend" THEN "publish" ELSE @] \in Frames
    <3>1. loc[t].ret \in Returns
      BY <1>0 DEF Frames
    <3>2. (IF req[t].kind = "suspend" THEN "publish" ELSE loc[t].ret) \in Returns
      BY <3>1 DEF Returns
    <3>3. loc[t] \in Frames
      BY <1>0
    <3> QED BY ZenonT(60), <2>1, <3>2, <3>3, FrameUpdates
  <2>3. loc' \in [Threads -> Frames]
    BY <1>0, <1>9, <2>2 DEF ReadOwner
  <2> QED BY <1>0, <1>9, <2>3, Moves DEF ReadOwner, Labels
<1>10. ASSUME NEW t \in Threads, ExecuteGone(t) \/ ExecuteOverdue(t) PROVE ThreadTypeOK'
  <2>1. [loc[t] EXCEPT !.status = 404] \in Frames
    BY <1>0 DEF Frames
  <2>3. [loc[t] EXCEPT !.status = 404, !.ret = "stamp_hash"] \in Frames
    BY ZenonT(60), <1>0, FrameUpdates
  <2>2. loc' \in [Threads -> Frames]
    BY <1>0, <1>10, <2>1, <2>3 DEF ExecuteGone, ExecuteOverdue
  <2> QED BY <1>0, <1>10, <2>2, Moves DEF ExecuteGone, ExecuteOverdue, Labels
<1>11. ASSUME NEW t \in Threads, WalkReenters(t) PROVE ThreadTypeOK'
  <2>1. loc[t].depth < RecursionLimit => [loc[t] EXCEPT !.depth = @ + 1] \in Frames
    BY <1>0, ServerAssumption DEF Frames
  <2>2. Finish(t) \/ loc' \in [Threads -> Frames]
    BY <1>0, <1>11, <2>1 DEF WalkReenters
  <2> QED BY <1>0, <1>11, <2>2, Moves DEF WalkReenters, Labels
<1>12. ASSUME NEW t \in Threads, SnapshotTaken(t) \/ SnapshotFails(t) PROVE ThreadTypeOK'
  <2>1. /\ [loc[t] EXCEPT !.ret = "publish"] \in Frames
        /\ [loc[t] EXCEPT !.ret = "done"] \in Frames
    BY <1>0 DEF Frames, Returns
  <2>2. Finish(t) \/ loc' \in [Threads -> Frames]
    BY <1>0, <1>12, <2>1 DEF SnapshotTaken, SnapshotFails, EvictThen
  <2> QED BY <1>0, <1>12, <2>2, Moves DEF SnapshotTaken, SnapshotFails, EvictThen, Labels
<1>13. ASSUME NEW t \in Threads, ExpireContract(t) PROVE ThreadTypeOK'
  <2>1. (~Gone(loc[t].sid)) \in BOOLEAN
    OBVIOUS
  <2>2. [loc[t] EXCEPT !.existed = ~Gone(loc[t].sid)] \in Frames
    BY <1>0, <2>1, FrameUpdates
  <2>3. loc' \in [Threads -> Frames]
    BY <1>0, <1>13, <2>2 DEF ExpireContract
  <2> QED BY <1>0, <1>13, <2>3, Moves DEF ExpireContract, Labels
<1>14. ASSUME NEW t \in Threads, UnmirrorContract(t) PROVE ThreadTypeOK'
  <2> DEFINE known == loc[t].existed \/ loc[t].sid \in legacy
  <2>1. known \in BOOLEAN
    OBVIOUS
  <2>2. /\ [loc[t] EXCEPT !.ret = "publish"] \in Frames
        /\ [loc[t] EXCEPT !.existed = known] \in Frames
    <3>1. [loc[t] EXCEPT !.ret = "publish"] \in Frames
      BY <1>0 DEF Frames, Returns
    <3>2. [loc[t] EXCEPT !.existed = known] \in Frames
      BY <1>0, <2>1, FrameUpdates
    <3> QED BY <3>1, <3>2
  <2>3. Finish(t) \/ loc' \in [Threads -> Frames]
    BY <1>0, <1>14, <2>2 DEF UnmirrorContract
  <2>4. Finish(t) \/ \E l \in Labels : GoTo(t, l)
    BY <1>14 DEF UnmirrorContract, Labels
  <2> QED BY <1>0, <2>3, <2>4, Moves
<1>15. CASE Restart
  BY <1>0, <1>15, EmptyTyped DEF Restart, ThreadTypeOK, Labels
<1>16. ASSUME NEW s \in Sids, ContractFallsDue(s) PROVE ThreadTypeOK'
  BY <1>0, <1>16 DEF ContractFallsDue, ThreadTypeOK
<1>17. ASSUME NEW a \in Agents, WindowSlides(a) \/ \E k \in Keys : KeyExpires(a, k) PROVE ThreadTypeOK'
  BY <1>0, <1>17 DEF WindowSlides, KeyExpires, ThreadTypeOK
<1>18. CASE Drained
  BY <1>0, <1>18 DEF Drained, vars, ThreadTypeOK
<1> QED
  BY <1>1, <1>2, <1>3, <1>4, <1>5, <1>6, <1>7, <1>8, <1>9, <1>10, <1>11, <1>12, <1>13, <1>14,
     <1>15, <1>16, <1>17, <1>18
     DEF Next, Handle, Negotiate, Present, Environment

\* The steps that write a table of the runtime.
LEMMA TablesMoveOnlyIn ==
    ASSUME Next
    PROVE  \/ \E t \in Threads : \/ RegisterNegotiated(t) \/ RegisterProposed(t) \/ MirrorContract(t)
                                 \/ ExpireContract(t) \/ UnmirrorContract(t)
           \/ \E s \in Sids : ContractFallsDue(s)
           \/ Restart
           \/ UNCHANGED runtimeVars
<1>1. ASSUME NEW t \in Threads, Arrive(t) PROVE UNCHANGED runtimeVars
  BY <1>1 DEF Arrive
<1>2. ASSUME NEW t \in Threads, Negotiate(t)
      PROVE  \/ RegisterNegotiated(t) \/ RegisterProposed(t) \/ MirrorContract(t)
             \/ UNCHANGED runtimeVars
  BY <1>2 DEF Negotiate, GateRefuses, RateLimited, RateAdmits, ReadCache, CachedPlanLives,
              CachedPlanGone, Compose, Remember, Announce, DeliverPreview, DeliverInline
<1>3. ASSUME NEW t \in Threads, Present(t)
      PROVE  ExpireContract(t) \/ UnmirrorContract(t) \/ UNCHANGED runtimeVars
  BY <1>3 DEF Present, LookupLive, LookupGone, LookupOverdue, ReadOwner, RefuseStranger, Execute,
              ExecuteGone, ExecuteOverdue, WalkSteps, WalkReenters, StampHash, Stamp,
              SnapshotTaken, SnapshotFails, Publish
<1>4. ASSUME NEW a \in Agents, WindowSlides(a) \/ \E k \in Keys : KeyExpires(a, k)
      PROVE  UNCHANGED runtimeVars
  BY <1>4 DEF WindowSlides, KeyExpires
<1>5. CASE Drained
  BY <1>5 DEF Drained, vars
<1> QED
  BY <1>1, <1>2, <1>3, <1>4, <1>5 DEF Next, Handle, Environment

\* The steps that write anything the gate, the audit files or the history keep.
LEMMA StoresMoveOnlyIn ==
    ASSUME Next
    PROVE  \/ \E t \in Threads : \/ GateRefuses(t) \/ DeliverPreview(t) \/ RefuseStranger(t)
                                 \/ RateAdmits(t) \/ Compose(t) \/ RegisterNegotiated(t)
                                 \/ RegisterProposed(t) \/ Remember(t) \/ Announce(t)
                                 \/ Execute(t) \/ Stamp(t) \/ Publish(t)
           \/ \E a \in Agents : WindowSlides(a) \/ \E k \in Keys : KeyExpires(a, k)
           \/ Restart
           \/ Quiet
<1>1. ASSUME NEW t \in Threads, Arrive(t) PROVE Quiet
  BY <1>1 DEF Arrive
<1>2. ASSUME NEW t \in Threads, Negotiate(t)
      PROVE  \/ GateRefuses(t) \/ RateAdmits(t) \/ Compose(t) \/ RegisterNegotiated(t)
             \/ RegisterProposed(t) \/ Remember(t) \/ Announce(t) \/ DeliverPreview(t)
             \/ Quiet
  BY <1>2 DEF Negotiate, RateLimited, ReadCache, CachedPlanLives, CachedPlanGone, MirrorContract,
              DeliverInline
<1>3. ASSUME NEW t \in Threads, Present(t)
      PROVE  RefuseStranger(t) \/ Execute(t) \/ Stamp(t) \/ Publish(t) \/ Quiet
  BY <1>3 DEF Present, LookupLive, LookupGone, LookupOverdue, ReadOwner, ExecuteGone,
              ExecuteOverdue, WalkSteps, WalkReenters, StampHash, SnapshotTaken, SnapshotFails,
              ExpireContract, UnmirrorContract
<1>4. ASSUME NEW s \in Sids, ContractFallsDue(s) PROVE Quiet
  BY <1>4 DEF ContractFallsDue
<1>5. CASE Drained
  BY <1>5 DEF Drained, vars, Quiet
<1> QED
  BY <1>1, <1>2, <1>3, <1>4, <1>5 DEF Next, Handle, Environment

\* Every step keeps the runtime's tables typed.
LEMMA RuntimeTypeStep ==
    ASSUME TypeOK, HoldsMinted, Next PROVE RuntimeTypeOK'
<1> USE DEF At
<1>0. RuntimeTypeOK /\ loc \in [Threads -> Frames] /\ req \in [Threads -> Requests]
  BY DEF TypeOK, ThreadTypeOK
<1>1. ASSUME NEW t \in Threads, RegisterNegotiated(t) PROVE RuntimeTypeOK'
  <2>1. req[t].plan \in Plans \cup {NoPlan} /\ req[t].agent \in Agents \cup {Nobody}
    BY <1>0 DEF Requests
  <2>2. NegotiatedOrigin(req[t].mode) \in Origins
    BY DEF NegotiatedOrigin, Origins
  <2> QED
    BY <1>0, <1>1, <2>1, <2>2 DEF RegisterNegotiated, Instantiate, Register, RuntimeTypeOK, Deadlines
<1>2. ASSUME NEW t \in Threads, RegisterProposed(t) PROVE RuntimeTypeOK'
  <2>1. req[t].plan \in Plans \cup {NoPlan}
    BY <1>0 DEF Requests
  <2> QED
    BY <1>0, <1>2, <2>1
       DEF RegisterProposed, Instantiate, Register, RuntimeTypeOK, Deadlines, Origins
<1>3. ASSUME NEW t \in Threads, MirrorContract(t) PROVE RuntimeTypeOK'
  BY <1>0, <1>3 DEF MirrorContract, Mirror, RuntimeTypeOK, HoldsMinted, Holding
<1>4. ASSUME NEW t \in Threads, ExpireContract(t) PROVE RuntimeTypeOK'
  BY <1>0, <1>4 DEF ExpireContract, Expire, RuntimeTypeOK, Deadlines, Origins
<1>5. ASSUME NEW t \in Threads, UnmirrorContract(t) PROVE RuntimeTypeOK'
  BY <1>0, <1>5 DEF UnmirrorContract, Unmirror, RuntimeTypeOK
<1>6. ASSUME NEW s \in Sids, ContractFallsDue(s) PROVE RuntimeTypeOK'
  BY <1>0, <1>6 DEF ContractFallsDue, DeadlinePasses, RuntimeTypeOK, Deadlines
<1>7. CASE Restart
  BY <1>0, <1>7 DEF Restart, RuntimeRestart, RuntimeTypeOK, Deadlines, Origins
<1>8. CASE UNCHANGED runtimeVars
  BY <1>0, <1>8 DEF runtimeVars, RuntimeTypeOK
<1> QED
  BY <1>1, <1>2, <1>3, <1>4, <1>5, <1>6, <1>7, <1>8, TablesMoveOnlyIn

\* Every step keeps the gate's stores, the audit files and the history typed.
LEMMA StoreTypeStep ==
    ASSUME TypeOK, Inv, Next PROVE GateTypeOK' /\ AuditTypeOK' /\ HistoryTypeOK'
<1> USE DEF At
<1>0. /\ RuntimeTypeOK /\ GateTypeOK /\ AuditTypeOK /\ HistoryTypeOK
      /\ loc \in [Threads -> Frames] /\ req \in [Threads -> Requests]
      /\ Attributed /\ HoldsMinted
  BY DEF TypeOK, ThreadTypeOK, Inv
<1> DEFINE Goal == GateTypeOK' /\ AuditTypeOK' /\ HistoryTypeOK'
<1>a. ASSUME NEW t \in Threads
      PROVE /\ req[t].agent \in Agents \cup {Nobody} /\ req[t].plan \in Plans \cup {NoPlan}
            /\ req[t].key \in Keys \cup {NoKey}
            /\ loc[t].sid \in Sids \cup {NoSid} /\ loc[t].hash \in Plans \cup {NoPlan}
            /\ loc[t].status \in {200, 404} /\ loc[t].seen \in Agents \cup {Nobody}
  BY <1>0 DEF Requests, Frames
<1>b. ASSUME NEW t \in Threads
      PROVE  /\ Refusal464(NoSid) \in Replies
             /\ Refusal464(loc[t].sid) \in Replies
             /\ Preview461(loc[t].sid, req[t].plan) \in Replies
  BY <1>a DEF Refusal464, Preview461, Replies
<1>c. ASSUME NEW t \in Threads
      PROVE  /\ \A s \in {req[t].agent, Stream(t)}, e \in EventTypes :
                   Event(e, loc[t].sid, s, req[t].agent) \in Events
             /\ {"rcns_propose_accepted", "rcns_revoke", "rcns_release"} \subseteq EventTypes
  BY <1>a DEF Stream, Event, Events, EventTypes
<1>1. ASSUME NEW t \in Threads, GateRefuses(t) \/ DeliverPreview(t) \/ RefuseStranger(t) PROVE Goal
  BY <1>0, <1>1, <1>b
     DEF GateRefuses, DeliverPreview, RefuseStranger, GateTypeOK, AuditTypeOK, HistoryTypeOK,
         gateVars, auditVars, historyVars, birthVars
<1>2. ASSUME NEW t \in Threads, RateAdmits(t) \/ Compose(t) PROVE Goal
  <2>1. CountNegotiation(req[t].agent) \/ UNCHANGED negotiations
    BY <1>2 DEF RateAdmits, Compose
  <2>2. negotiations' \in [Agents -> Nat]
    BY <1>0, <2>1 DEF CountNegotiation, GateTypeOK
  <2>3. idem' = idem
    BY <1>2 DEF RateAdmits, Compose
  <2> QED
    BY <1>0, <1>2, <1>b, <2>2, <2>3
     DEF RateAdmits, Compose, GateTypeOK, AuditTypeOK, HistoryTypeOK,
         gateVars, auditVars, historyVars, birthVars
<1>3. ASSUME NEW t \in Threads, RegisterNegotiated(t) PROVE Goal
  BY <1>0, <1>3, <1>a
     DEF RegisterNegotiated, Instantiate, NegotiatedOrigin, Origins, GateTypeOK, AuditTypeOK,
         HistoryTypeOK, gateVars, auditVars
<1>4. ASSUME NEW t \in Threads, RegisterProposed(t) PROVE Goal
  BY <1>0, <1>4, <1>a
     DEF RegisterProposed, Instantiate, Origins, GateTypeOK, AuditTypeOK, HistoryTypeOK,
         gateVars, auditVars
<1>5. ASSUME NEW t \in Threads, Remember(t) PROVE Goal
  <2>1. [sid |-> loc[t].sid, agent |-> req[t].agent, key |-> req[t].key] \in Spawns
    BY <1>a DEF Spawns
  <2>2. loc[t].sid \in Sids /\ req[t].agent \in Agents
    BY <1>0, <1>5 DEF Remember, Attributed, HoldsMinted, Holding, RuntimeTypeOK
  <2>3. idem' \in [Agents -> [Keys -> Sids \cup {NoSid}]]
    <3>1. CASE req[t].key \in Keys
      <4>1. [idem[req[t].agent] EXCEPT ![req[t].key] = loc[t].sid] \in [Keys -> Sids \cup {NoSid}]
        BY <1>0, <2>2, <3>1 DEF GateTypeOK
      <4>2. idem' = [idem EXCEPT ![req[t].agent] = [idem[req[t].agent] EXCEPT ![req[t].key] = loc[t].sid]]
        BY <1>5, <3>1 DEF Remember
      <4> QED
        BY <1>0, <2>2, <4>1, <4>2 DEF GateTypeOK
    <3>2. CASE req[t].key \notin Keys
      BY <1>0, <1>5, <3>2 DEF Remember, GateTypeOK
    <3> QED
      BY <3>1, <3>2
  <2>4. spawned' \subseteq Spawns
    BY <1>0, <1>5, <2>1 DEF Remember, HistoryTypeOK
  <2> QED
    BY <1>0, <1>5, <2>3, <2>4
     DEF Remember, Attributed, HoldsMinted, Holding, RuntimeTypeOK, GateTypeOK, AuditTypeOK,
         HistoryTypeOK, auditVars, birthVars
<1>6. ASSUME NEW t \in Threads, Announce(t) PROVE Goal
  BY <1>0, <1>6, <1>c
     DEF Announce, GateTypeOK, AuditTypeOK, HistoryTypeOK, gateVars, historyVars, birthVars
<1>7. ASSUME NEW t \in Threads, Execute(t) PROVE Goal
  BY <1>0, <1>7, <1>a
     DEF Execute, GateTypeOK, AuditTypeOK, HistoryTypeOK, gateVars, auditVars, birthVars
<1>8. ASSUME NEW t \in Threads, Stamp(t) PROVE Goal
  <2>1. (IF req[t].kind = "invoke" THEN origin[loc[t].sid] ELSE "rcns-optimistic") \in Origins
    BY <1>0, <1>8 DEF Stamp, HoldsMinted, Holding, RuntimeTypeOK, Origins
  <2> QED
    BY <1>0, <1>8, <1>a, <2>1
       DEF Stamp, Stamps, GateTypeOK, AuditTypeOK, HistoryTypeOK, gateVars, historyVars, birthVars
<1>9. ASSUME NEW t \in Threads, Publish(t) PROVE Goal
  BY <1>0, <1>9, <1>c
       DEF Publish, GateTypeOK, AuditTypeOK, HistoryTypeOK, gateVars, historyVars, birthVars
<1>10. ASSUME NEW a \in Agents, WindowSlides(a) PROVE Goal
  BY <1>0, <1>10
     DEF WindowSlides, GateTypeOK, AuditTypeOK, HistoryTypeOK, auditVars, historyVars, birthVars
<1>11. ASSUME NEW a \in Agents, NEW k \in Keys, KeyExpires(a, k) PROVE Goal
  BY <1>0, <1>11
     DEF KeyExpires, GateTypeOK, AuditTypeOK, HistoryTypeOK, auditVars, birthVars
<1>12. CASE Restart
  BY <1>0, <1>12, ServerAssumption
     DEF Restart, GateTypeOK, AuditTypeOK, HistoryTypeOK, gateVars, auditVars, birthVars
<1>13. CASE Quiet
  BY <1>0, <1>13
     DEF Quiet, GateTypeOK, AuditTypeOK, HistoryTypeOK, gateVars, auditVars, historyVars, birthVars
<1> QED
  BY <1>1, <1>2, <1>3, <1>4, <1>5, <1>6, <1>7, <1>8, <1>9, <1>10, <1>11, <1>12, <1>13, StoresMoveOnlyIn

\* Ids are minted once: what is known of a minted id stays, and an evicted
\* contract never becomes active again.
LEMMA FreshIds ==
    ASSUME IInv, Next
    PROVE  /\ minted \subseteq minted'
           /\ \A s \in minted : owner_of'[s] = owner_of[s]
           /\ \A s \in minted : active'[s] # NoPlan => active[s] # NoPlan
<1> USE RuntimeAssumption
<1>0. RuntimeTypeOK /\ HistoryTypeOK
  BY DEF IInv, TypeOK
<1>1. ASSUME NEW t \in Threads, RegisterNegotiated(t) \/ RegisterProposed(t)
      PROVE  /\ minted \subseteq minted'
             /\ \A s \in minted : owner_of'[s] = owner_of[s] /\ active'[s] = active[s]
  BY <1>0, <1>1
     DEF RegisterNegotiated, RegisterProposed, Instantiate, Register, RuntimeTypeOK, HistoryTypeOK
<1>2. ASSUME UNCHANGED <<minted, active, owner_of>>
      PROVE  /\ minted \subseteq minted'
             /\ \A s \in minted : owner_of'[s] = owner_of[s] /\ active'[s] = active[s]
  BY <1>2
<1>3. ASSUME NEW t \in Threads, ExpireContract(t)
      PROVE  /\ UNCHANGED <<minted, owner_of>>
             /\ \A s \in minted : active'[s] # NoPlan => active[s] # NoPlan
  BY <1>0, <1>3 DEF ExpireContract, Expire, RuntimeTypeOK, Quiet, historyVars, birthVars
<1>4. CASE Restart
  BY <1>0, <1>4 DEF Restart, RuntimeRestart, RuntimeTypeOK, birthVars
<1>5. ASSUME NEW t \in Threads, MirrorContract(t) \/ UnmirrorContract(t)
      PROVE  UNCHANGED <<minted, active, owner_of>>
  BY <1>5 DEF MirrorContract, UnmirrorContract, Mirror, Unmirror, Quiet, historyVars, birthVars
<1>6. ASSUME NEW s \in Sids, ContractFallsDue(s)
      PROVE  UNCHANGED <<minted, active, owner_of>>
  BY <1>6 DEF ContractFallsDue, DeadlinePasses, Quiet, historyVars, birthVars
<1>7. UNCHANGED owner_of \/ \E t \in Threads : RegisterNegotiated(t) \/ RegisterProposed(t)
  BY StoresMoveOnlyIn
     DEF GateRefuses, DeliverPreview, RefuseStranger, RateAdmits, Compose, Remember, Announce,
         Execute, Stamp, Publish, WindowSlides, KeyExpires, Restart, Quiet, historyVars, birthVars
<1> QED
  BY <1>1, <1>2, <1>3, <1>4, <1>5, <1>6, <1>7, TablesMoveOnlyIn DEF runtimeVars

ThreadInv == Attributed /\ HoldsMinted /\ OwnNegotiation /\ Cleared

\* A thread that ends its request is bound by nothing any more.
LEMMA Leaving ==
    ASSUME IInv, Next, NEW t \in Threads, Finish(t) PROVE ThreadInv'
  BY FreshIds DEF IInv, Inv, TypeOK, ThreadTypeOK, Finish, ThreadInv, Attributed, HoldsMinted, Holding,
                  OwnNegotiation, Cleared

\* A thread that keeps its id may go on to any label that asks for no more.
Plain == {"lookup", "owner", "walk", "stamp_hash", "stamp", "snapshot", "expire", "unmirror", "publish"}

KeepsId(t) ==
    /\ pc[t] \in Holding
    /\ loc'[t].sid = loc[t].sid
    /\ \A u \in Threads \ {t} : loc'[u] = loc[u]

LEMMA Advancing ==
    ASSUME IInv, Next, NEW t \in Threads, KeepsId(t), \E l \in Plain : GoTo(t, l)
    PROVE  ThreadInv'
  BY FreshIds DEF IInv, Inv, TypeOK, ThreadTypeOK, GoTo, ThreadInv, Attributed, HoldsMinted, Holding,
                  OwnNegotiation, Cleared, KeepsId, Plain

\* Every step keeps what the threads rely on.
LEMMA ThreadInvStep ==
    ASSUME IInv, Next PROVE ThreadInv'
<1> USE DEF At
<1>0. /\ loc \in [Threads -> Frames]
      /\ \A f \in Frames, h \in Plans \cup {NoPlan} : [f EXCEPT !.hash = h].sid = f.sid
  BY DEF IInv, TypeOK, ThreadTypeOK, Frames
<1>1. ASSUME NEW t \in Threads, Arrive(t) PROVE ThreadInv'
  BY <1>1, FreshIds
     DEF Arrive, Negotiations, Proposals, Presentations, FirstLabel, EmptyFrame, IInv, Inv, TypeOK,
         ThreadTypeOK, ThreadInv, Attributed, HoldsMinted, Holding, OwnNegotiation, Cleared
<1>2. ASSUME NEW t \in Threads,
             \/ GateRefuses(t) \/ RateLimited(t) \/ DeliverPreview(t) \/ RefuseStranger(t)
             \/ Stamp(t) \/ Publish(t)
      PROVE ThreadInv'
  BY <1>2, Leaving
     DEF GateRefuses, RateLimited, DeliverPreview, RefuseStranger, Stamp, Publish
<1>3. ASSUME NEW t \in Threads, RateAdmits(t) \/ CachedPlanGone(t) PROVE ThreadInv'
  BY <1>3, FreshIds
     DEF RateAdmits, CachedPlanGone, GoTo, IInv, Inv, TypeOK, ThreadTypeOK, ThreadInv, Attributed,
         HoldsMinted, Holding, OwnNegotiation, Cleared
<1>4. ASSUME NEW t \in Threads, Compose(t) PROVE ThreadInv'
  <2>1. Finish(t) \/ (GoTo(t, "register") /\ UNCHANGED loc)
    BY <1>4 DEF Compose
  <2>2. pc[t] = "compose"
    BY <1>4 DEF Compose
  <2>3. ASSUME GoTo(t, "register"), UNCHANGED loc PROVE ThreadInv'
    BY <2>2, <2>3, FreshIds
       DEF GoTo, IInv, Inv, TypeOK, ThreadTypeOK, ThreadInv, Attributed, HoldsMinted, Holding,
           OwnNegotiation, Cleared
  <2> QED
    BY <2>1, <2>3, Leaving
<1>5. ASSUME NEW t \in Threads, ReadCache(t) PROVE ThreadInv'
  <2> DEFINE s == CachedSid(req[t].agent, req[t].key)
  <2>1. req[t].agent \in Agents
    BY <1>5 DEF ReadCache, IInv, Inv, Attributed
  <2>2. s # NoSid => s \in minted /\ owner_of[s] = req[t].agent
    BY <2>1 DEF CachedSid, IInv, Inv, CacheNamesOwnContract
  <2>3. loc'[t].sid = s /\ \A u \in Threads \ {t} : loc'[u] = loc[u]
    BY <1>0, <1>5 DEF ReadCache, Frames
  <2>4. GoTo(t, IF s = NoSid THEN "compose" ELSE "cached_plan")
    BY <1>5 DEF ReadCache
  <2> HIDE DEF s
  <2> QED
    BY <2>1, <2>2, <2>3, <2>4, FreshIds
       DEF GoTo, IInv, Inv, TypeOK, ThreadTypeOK, ThreadInv, Attributed, HoldsMinted, Holding,
           OwnNegotiation, Cleared
<1>6. ASSUME NEW t \in Threads, RegisterNegotiated(t) PROVE ThreadInv'
  BY <1>6, FreshIds
     DEF RegisterNegotiated, Instantiate, Register, GoTo, Requests, IInv, Inv, TypeOK, ThreadTypeOK,
         HistoryTypeOK, ThreadInv, Attributed, HoldsMinted, Holding, OwnNegotiation, Cleared
<1>7. ASSUME NEW t \in Threads, RegisterProposed(t) PROVE ThreadInv'
  BY <1>7, FreshIds
     DEF RegisterProposed, Instantiate, Register, GoTo, IInv, Inv, TypeOK, ThreadTypeOK,
         HistoryTypeOK, ThreadInv, Attributed, HoldsMinted, Holding, OwnNegotiation, Cleared
<1>8. ASSUME NEW t \in Threads,
             CachedPlanLives(t) \/ Remember(t) \/ Announce(t) \/ DeliverInline(t)
      PROVE ThreadInv'
  <2>1. pc[t] \in {"cached_plan", "remember", "announce", "deliver"} /\ KeepsId(t)
    BY <1>0, <1>8
       DEF CachedPlanLives, Remember, Announce, DeliverInline, KeepsId, Holding, Frames
  <2>2. \E l \in {"announce", "deliver", "execute"} : GoTo(t, l)
    BY <1>8 DEF CachedPlanLives, Remember, Announce, DeliverInline
  <2> QED
    BY <2>1, <2>2, FreshIds
       DEF KeepsId, GoTo, IInv, Inv, TypeOK, ThreadTypeOK, ThreadInv, Attributed, HoldsMinted,
           Holding, OwnNegotiation, Cleared
<1>9. ASSUME NEW t \in Threads, MirrorContract(t) PROVE ThreadInv'
  BY <1>9, FreshIds, Leaving
     DEF MirrorContract, GoTo, IInv, Inv, TypeOK, ThreadTypeOK,
         ThreadInv, Attributed, HoldsMinted, Holding, OwnNegotiation, Cleared
<1>10. ASSUME NEW t \in Threads, ReadOwner(t) PROVE ThreadInv'
  BY <1>10, FreshIds
     DEF ReadOwner, Stranger, GoTo, IInv, Inv, OwnersAgree, TypeOK, RuntimeTypeOK, ThreadTypeOK,
         ThreadInv, Attributed, HoldsMinted, Holding, OwnNegotiation, Cleared
<1>11. ASSUME NEW t \in Threads, LookupLive(t) \/ Execute(t) \/ WalkSteps(t) PROVE ThreadInv'
  <2>1. Finish(t) \/ KeepsId(t)
    BY <1>0, <1>11 DEF LookupLive, Execute, WalkSteps, KeepsId, Holding, Frames
  <2>2. Finish(t) \/ \E l \in Plain : GoTo(t, l)
    BY <1>11 DEF LookupLive, Execute, WalkSteps, Plain
  <2> QED
    BY <2>1, <2>2, Leaving, Advancing
<1>12. ASSUME NEW t \in Threads, WalkReenters(t) PROVE ThreadInv'
  <2>1. Finish(t) \/ KeepsId(t)
    BY <1>0, <1>12 DEF WalkReenters, KeepsId, Holding, Frames
  <2>2. Finish(t) \/ \E l \in Plain : GoTo(t, l)
    BY <1>12 DEF WalkReenters, Plain
  <2> QED
    BY <2>1, <2>2, Leaving, Advancing
<1>13. ASSUME NEW t \in Threads, LookupGone(t) PROVE ThreadInv'
  <2>1. Finish(t) \/ KeepsId(t)
    BY <1>0, <1>13 DEF LookupGone, EvictThen, KeepsId, Holding, Frames
  <2>2. Finish(t) \/ \E l \in Plain : GoTo(t, l)
    BY <1>13 DEF LookupGone, EvictThen, Plain
  <2> QED
    BY <2>1, <2>2, Leaving, Advancing
<1>14. ASSUME NEW t \in Threads, LookupOverdue(t) PROVE ThreadInv'
  <2>1. Finish(t) \/ KeepsId(t)
    BY <1>0, <1>14 DEF LookupOverdue, EvictThen, KeepsId, Holding, Frames
  <2>2. Finish(t) \/ \E l \in Plain : GoTo(t, l)
    BY <1>14 DEF LookupOverdue, EvictThen, Plain
  <2> QED
    BY <2>1, <2>2, Leaving, Advancing
<1>15. ASSUME NEW t \in Threads, SnapshotTaken(t) PROVE ThreadInv'
  <2>1. Finish(t) \/ KeepsId(t)
    BY <1>0, <1>15 DEF SnapshotTaken, EvictThen, KeepsId, Holding, Frames
  <2>2. Finish(t) \/ \E l \in Plain : GoTo(t, l)
    BY <1>15 DEF SnapshotTaken, EvictThen, Plain
  <2> QED
    BY <2>1, <2>2, Leaving, Advancing
<1>16. ASSUME NEW t \in Threads, SnapshotFails(t) PROVE ThreadInv'
  <2>1. Finish(t) \/ KeepsId(t)
    BY <1>0, <1>16 DEF SnapshotFails, EvictThen, KeepsId, Holding, Frames
  <2>2. Finish(t) \/ \E l \in Plain : GoTo(t, l)
    BY <1>16 DEF SnapshotFails, EvictThen, Plain
  <2> QED
    BY <2>1, <2>2, Leaving, Advancing
<1>17. ASSUME NEW t \in Threads, StampHash(t) PROVE ThreadInv'
  <2>1. Finish(t) \/ KeepsId(t)
    BY <1>0, <1>17 DEF StampHash, KeepsId, Holding, Frames
  <2>2. Finish(t) \/ \E l \in Plain : GoTo(t, l)
    BY <1>17 DEF StampHash, Plain
  <2> QED
    BY <2>1, <2>2, Leaving, Advancing
<1>18. ASSUME NEW t \in Threads, ExecuteGone(t) \/ ExecuteOverdue(t) PROVE ThreadInv'
  <2>1. Finish(t) \/ KeepsId(t)
    BY <1>0, <1>18 DEF ExecuteGone, ExecuteOverdue, KeepsId, Holding, Frames
  <2>2. Finish(t) \/ \E l \in Plain : GoTo(t, l)
    BY <1>18 DEF ExecuteGone, ExecuteOverdue, Plain
  <2> QED
    BY <2>1, <2>2, Leaving, Advancing
<1>19. ASSUME NEW t \in Threads, ExpireContract(t) PROVE ThreadInv'
  <2>1. Finish(t) \/ KeepsId(t)
    BY <1>0, <1>19 DEF ExpireContract, KeepsId, Holding, Frames
  <2>2. Finish(t) \/ \E l \in Plain : GoTo(t, l)
    BY <1>19 DEF ExpireContract, Plain
  <2> QED
    BY <2>1, <2>2, Leaving, Advancing
<1>20. ASSUME NEW t \in Threads, UnmirrorContract(t) PROVE ThreadInv'
  <2>1. Finish(t) \/ KeepsId(t)
    BY <1>0, <1>20 DEF UnmirrorContract, KeepsId, Holding, Frames
  <2>2. Finish(t) \/ \E l \in Plain : GoTo(t, l)
    BY <1>20 DEF UnmirrorContract, Plain
  <2> QED
    BY <2>1, <2>2, Leaving, Advancing
<1>21. CASE Restart
  BY <1>21 DEF Restart, ThreadInv, Attributed, HoldsMinted, Holding, OwnNegotiation, Cleared
<1>22. ASSUME UNCHANGED <<pc, req, loc>> PROVE ThreadInv'
  BY <1>22, FreshIds
     DEF IInv, Inv, ThreadInv, Attributed, HoldsMinted, Holding, OwnNegotiation, Cleared
<1>23. ASSUME NEW s \in Sids, ContractFallsDue(s) PROVE UNCHANGED <<pc, req, loc>>
  BY <1>23 DEF ContractFallsDue
<1>24. ASSUME NEW a \in Agents, WindowSlides(a) \/ \E k \in Keys : KeyExpires(a, k)
       PROVE  UNCHANGED <<pc, req, loc>>
  BY <1>24 DEF WindowSlides, KeyExpires
<1>25. ASSUME Drained PROVE UNCHANGED <<pc, req, loc>>
  BY <1>25 DEF Drained, vars
<1> QED
  BY <1>1, <1>2, <1>3, <1>4, <1>5, <1>6, <1>7, <1>8, <1>9, <1>10, <1>11, <1>12, <1>13, <1>14,
     <1>15, <1>16, <1>17, <1>18, <1>19, <1>20, <1>21, <1>22, <1>23, <1>24, <1>25
     DEF Next, Handle, Negotiate, Present, Environment

\* The side table and the ledger move together, or the contract is not active.
LEMMA OwnersAgreeStep ==
    ASSUME IInv, Next PROVE OwnersAgree'
<1> USE RuntimeAssumption
<1>0. RuntimeTypeOK /\ HistoryTypeOK /\ OwnersAgree
  BY DEF IInv, Inv, TypeOK
<1>a. ASSUME NEW s \in Sids, NEW plan, NEW owner, NEW hash, NEW from, NEW due,
             Instantiate(s, plan, owner, hash, from, due)
      PROVE  OwnersAgree'
  BY <1>0, <1>a DEF Instantiate, Register, RuntimeTypeOK, HistoryTypeOK, OwnersAgree
<1>1. ASSUME NEW t \in Threads, RegisterNegotiated(t) \/ RegisterProposed(t) PROVE OwnersAgree'
  BY <1>1, <1>a DEF RegisterNegotiated, RegisterProposed
<1>2. ASSUME NEW t \in Threads, ExpireContract(t) PROVE OwnersAgree'
  BY <1>0, <1>2
     DEF ExpireContract, Expire, Quiet, historyVars, birthVars, RuntimeTypeOK, OwnersAgree
<1>3. ASSUME NEW t \in Threads, MirrorContract(t) \/ UnmirrorContract(t) PROVE OwnersAgree'
  BY <1>0, <1>3
     DEF MirrorContract, UnmirrorContract, Mirror, Unmirror, Quiet, historyVars, birthVars, OwnersAgree
<1>4. ASSUME NEW s \in Sids, ContractFallsDue(s) PROVE OwnersAgree'
  BY <1>0, <1>4 DEF ContractFallsDue, DeadlinePasses, Quiet, historyVars, birthVars, OwnersAgree
<1>5. CASE Restart
  BY <1>5 DEF Restart, RuntimeRestart, OwnersAgree
<1>6. ASSUME UNCHANGED runtimeVars, UNCHANGED owner_of PROVE OwnersAgree'
  BY <1>0, <1>6 DEF runtimeVars, OwnersAgree
<1>7. \/ \E t \in Threads : RegisterNegotiated(t) \/ RegisterProposed(t)
      \/ UNCHANGED owner_of
  BY StoresMoveOnlyIn
     DEF GateRefuses, DeliverPreview, RefuseStranger, RateAdmits, Compose, Remember, Announce,
         Execute, Stamp, Publish, WindowSlides, KeyExpires, Restart, Quiet, historyVars, birthVars
<1> QED
  BY <1>1, <1>2, <1>3, <1>4, <1>5, <1>6, <1>7, TablesMoveOnlyIn

\* A walk is recorded by Execute alone, for a contract that is live at that moment.
LEMMA IsolationStep ==
    ASSUME IInv, Next PROVE RanMinted' /\ ContractIsolation'
<1>0. RanMinted /\ ContractIsolation /\ Cleared /\ HoldsMinted
  BY DEF IInv, Inv
<1>1. ASSUME NEW t \in Threads, Execute(t) PROVE RanMinted' /\ ContractIsolation'
  <2>1. /\ loc[t].sid \in minted
        /\ owner_of[loc[t].sid] \in {req[t].agent, Nobody}
    BY <1>0, <1>1 DEF Execute, Live, At, Cleared, HoldsMinted, Holding
  <2>2. /\ ran' = ran \cup {<<req[t].agent, loc[t].sid>>}
        /\ UNCHANGED <<minted, owner_of>>
    BY <1>1 DEF Execute, runtimeVars, birthVars
  <2> QED
    BY <1>0, <2>1, <2>2 DEF RanMinted, ContractIsolation
<1>2. ASSUME UNCHANGED ran PROVE RanMinted' /\ ContractIsolation'
  BY <1>0, <1>2, FreshIds DEF RanMinted, ContractIsolation
<1>3. (\E t \in Threads : Execute(t)) \/ UNCHANGED ran
  BY StoresMoveOnlyIn
     DEF GateRefuses, DeliverPreview, RefuseStranger, RateAdmits, Compose, RegisterNegotiated,
         RegisterProposed, Remember, Announce, Stamp, Publish, WindowSlides, KeyExpires, Restart,
         Quiet, historyVars
<1> QED
  BY <1>1, <1>2, <1>3

\* The cache is written by Remember, with the id the same request registered.
LEMMA CacheStep ==
    ASSUME IInv, Next PROVE CacheNamesOwnContract'
<1> USE ServerAssumption DEF CacheNamesOwnContract
<1>0. /\ CacheNamesOwnContract /\ OwnNegotiation /\ HoldsMinted /\ Attributed
      /\ GateTypeOK
  BY DEF IInv, Inv, TypeOK
<1>1. ASSUME NEW t \in Threads, Remember(t) PROVE CacheNamesOwnContract'
  <2>1. /\ loc[t].sid \in minted /\ owner_of[loc[t].sid] = req[t].agent
        /\ req[t].agent \in Agents
    BY <1>0, <1>1 DEF Remember, At, OwnNegotiation, HoldsMinted, Holding, Attributed
  <2>2. UNCHANGED <<minted, owner_of>>
    BY <1>1 DEF Remember, runtimeVars, birthVars
  <2>3. ASSUME NEW a \in Agents, NEW k \in Keys
        PROVE  \/ idem'[a][k] = idem[a][k]
               \/ a = req[t].agent /\ idem'[a][k] = loc[t].sid
    BY <1>0, <1>1 DEF Remember, GateTypeOK
  <2> QED
    BY <1>0, <2>1, <2>2, <2>3
<1>2. ASSUME NEW b \in Agents, NEW h \in Keys, KeyExpires(b, h) PROVE CacheNamesOwnContract'
  <2>1. UNCHANGED <<minted, owner_of>>
    BY <1>2 DEF KeyExpires, runtimeVars, birthVars
  <2>2. ASSUME NEW a \in Agents, NEW k \in Keys
        PROVE  idem'[a][k] = idem[a][k] \/ idem'[a][k] = NoSid
    BY <1>0, <1>2 DEF KeyExpires, GateTypeOK
  <2> QED
    BY <1>0, <2>1, <2>2
<1>3. CASE Restart
  <2>1. UNCHANGED <<minted, owner_of>>
    BY <1>3 DEF Restart, RuntimeRestart, birthVars
  <2>2. ASSUME NEW a \in Agents, NEW k \in Keys
        PROVE  idem'[a][k] = idem[a][k] \/ idem'[a][k] = NoSid
    BY <1>0, <1>3 DEF Restart, gateVars
  <2> QED
    BY <1>0, <2>1, <2>2
<1>4. ASSUME UNCHANGED idem PROVE CacheNamesOwnContract'
  BY <1>0, <1>4, FreshIds
<1>5. \/ \E t \in Threads : Remember(t)
      \/ \E a \in Agents, k \in Keys : KeyExpires(a, k)
      \/ Restart
      \/ UNCHANGED idem
  BY StoresMoveOnlyIn
     DEF GateRefuses, DeliverPreview, RefuseStranger, RateAdmits, Compose, RegisterNegotiated,
         RegisterProposed, Announce, Execute, Stamp, Publish, WindowSlides, Quiet, gateVars
<1> QED
  BY <1>1, <1>2, <1>3, <1>4, <1>5

-----------------------------------------------------------------------------
(* The inductive invariant, and what follows from it.                        *)

\* The invariant holds at the start ...
LEMMA InitIInv == ASSUME Init PROVE IInv
<1> USE RuntimeAssumption, ServerAssumption
<1>1. RuntimeTypeOK
  BY DEF Init, RuntimeInit, EmptyTables, RuntimeTypeOK, Deadlines, Origins
<1>2. ThreadTypeOK
  BY EmptyTyped DEF Init, ThreadTypeOK, Labels
<1>3. GateTypeOK /\ AuditTypeOK /\ HistoryTypeOK
  BY DEF Init, GateTypeOK, AuditTypeOK, HistoryTypeOK, Origins
<1>4. Inv
  BY DEF Init, RuntimeInit, EmptyTables, Inv, Attributed, HoldsMinted, Holding, OwnersAgree,
         OwnNegotiation, Cleared, RanMinted, CacheNamesOwnContract, ContractIsolation
<1> QED
  BY <1>1, <1>2, <1>3, <1>4 DEF IInv, TypeOK

\* ... and no step breaks it.
LEMMA IInvStep == ASSUME IInv, [Next]_vars PROVE IInv'
<1>1. CASE Next
  <2>1. RuntimeTypeOK' /\ ThreadTypeOK'
    BY <1>1, RuntimeTypeStep, ThreadTypeStep DEF IInv, Inv
  <2>2. GateTypeOK' /\ AuditTypeOK' /\ HistoryTypeOK'
    BY <1>1, StoreTypeStep DEF IInv
  <2>3. ThreadInv' /\ OwnersAgree'
    BY <1>1, ThreadInvStep, OwnersAgreeStep
  <2>4. RanMinted' /\ ContractIsolation' /\ CacheNamesOwnContract'
    BY <1>1, IsolationStep, CacheStep
  <2> QED
    BY <2>1, <2>2, <2>3, <2>4 DEF IInv, Inv, TypeOK, ThreadInv
<1>2. CASE UNCHANGED vars
  BY <1>2
     DEF vars, runtimeVars, gateVars, auditVars, historyVars, birthVars, IInv, Inv, TypeOK,
         RuntimeTypeOK, ThreadTypeOK, GateTypeOK, AuditTypeOK, HistoryTypeOK, Attributed,
         HoldsMinted, OwnersAgree, OwnNegotiation, Cleared, RanMinted, CacheNamesOwnContract,
         ContractIsolation
<1> QED
  BY <1>1, <1>2

\* The invariant holds in every reachable state: eviction, registration and restart
\* never leave a thread working under a false assumption.
THEOREM Invariance == Spec => []IInv
  BY InitIInv, IInvStep, PTL DEF Spec

\* Every variable keeps its type in every reachable state, whatever the number of
\* threads, agents and ids and however the handlers interleave.
THEOREM TypeCorrect == Spec => []TypeOK
  BY Invariance, PTL DEF IInv

\* No agent ever executes a contract that was negotiated for another one: the
\* ownership check of _dispatch_inner holds across every gap between the locks.
THEOREM Isolation == Spec => []ContractIsolation
  BY Invariance, PTL DEF IInv, Inv

\* A cached idempotency key only ever answers with a contract of the agent that
\* presents it, restarts of the daemon included.
THEOREM CacheOwnership == Spec => []CacheNamesOwnContract
  BY Invariance, PTL DEF IInv, Inv

-----------------------------------------------------------------------------
(* The limit of the durable store.                                           *)

\* With the SQLite store no agent exceeds its negotiation limit, whatever the
\* number of threads: check and reservation are one step (RateAdmits).
THEOREM DurableLimit == ASSUME Durable PROVE Spec => []WithinNegotiationLimit
<1>1. ASSUME Init PROVE WithinNegotiationLimit
  BY <1>1, ServerAssumption DEF Init, WithinNegotiationLimit
<1>2. ASSUME IInv, WithinNegotiationLimit, [Next]_vars PROVE WithinNegotiationLimit'
  <2>0. GateTypeOK /\ Attributed /\ Limit \in Nat
    BY <1>2, ServerAssumption DEF IInv, Inv, TypeOK
  <2>1. ASSUME NEW t \in Threads, RateAdmits(t) PROVE WithinNegotiationLimit'
    <3>1. req[t].agent \in Agents
      BY <2>0, <2>1 DEF RateAdmits, At, Attributed
    <3>2. Limit > 0 => negotiations[req[t].agent] < Limit
      BY <2>0, <2>1, <3>1 DEF RateAdmits, OverLimit, GateTypeOK
    <3>3. UNCHANGED negotiations \/ CountNegotiation(req[t].agent)
      BY <2>1 DEF RateAdmits
    <3> QED
      BY <1>2, <2>0, <3>1, <3>2, <3>3 DEF CountNegotiation, WithinNegotiationLimit, GateTypeOK
  <2>2. ASSUME NEW a \in Agents, WindowSlides(a) PROVE WithinNegotiationLimit'
    BY <1>2, <2>0, <2>2 DEF WindowSlides, WithinNegotiationLimit, GateTypeOK
  <2>3. ASSUME UNCHANGED negotiations PROVE WithinNegotiationLimit'
    BY <1>2, <2>3 DEF WithinNegotiationLimit
  <2>4. ASSUME NEW t \in Threads, Compose(t) PROVE UNCHANGED negotiations
    BY <2>4 DEF Compose
  <2>5. CASE UNCHANGED vars
    BY <2>3, <2>5 DEF vars, gateVars
  <2>6. CASE Restart
    BY <2>3, <2>6 DEF Restart, gateVars
  <2>7. ASSUME Next
        PROVE  \/ \E t \in Threads : RateAdmits(t) \/ Compose(t)
               \/ \E a \in Agents : WindowSlides(a)
               \/ Restart
               \/ UNCHANGED negotiations
    BY <2>7, StoresMoveOnlyIn
       DEF GateRefuses, DeliverPreview, RefuseStranger, RegisterNegotiated, RegisterProposed,
           Remember, Announce, Execute, Stamp, Publish, KeyExpires, Quiet, gateVars
  <2> QED
    BY <1>2, <2>1, <2>2, <2>3, <2>4, <2>5, <2>6, <2>7
<1> QED
  BY <1>1, <1>2, Invariance, PTL DEF Spec

-----------------------------------------------------------------------------
(* The runtime implements the ledger.                                        *)

\* What is registered is a plan.
PlanNamed ==
    \A t \in Threads : req[t].kind \in {"negotiate", "propose"} => req[t].plan \in Plans

\* Requests are not rewritten on the way.
LEMMA PlanNamedStep ==
    ASSUME IInv, PlanNamed, Next PROVE PlanNamed'
<1> USE ServerAssumption
<1>0. req \in [Threads -> Requests]
  BY DEF IInv, TypeOK, ThreadTypeOK
<1>1. ASSUME NEW t \in Threads, NEW r \in Negotiations \cup Proposals \cup Presentations,
             req' = [req EXCEPT ![t] = r]
      PROVE  PlanNamed'
  BY <1>0, <1>1 DEF PlanNamed, Negotiations, Proposals, Presentations
<1>2. ASSUME NEW t \in Threads, Arrive(t) PROVE PlanNamed'
  BY <1>1, <1>2 DEF Arrive
<1>3. ASSUME NEW t \in Threads, Finish(t) PROVE PlanNamed'
  BY <1>0, <1>3 DEF Finish, NoRequest, PlanNamed
<1>4. ASSUME UNCHANGED req PROVE PlanNamed'
  BY <1>4 DEF PlanNamed
<1>5. ASSUME NEW t \in Threads, Negotiate(t) PROVE Finish(t) \/ UNCHANGED req
  BY <1>5
     DEF Negotiate, GoTo, GateRefuses, RateLimited, RateAdmits, ReadCache, CachedPlanLives,
         CachedPlanGone, Compose, RegisterNegotiated, RegisterProposed, MirrorContract, Remember,
         Announce, DeliverPreview, DeliverInline
<1>6. ASSUME NEW t \in Threads, Present(t) PROVE Finish(t) \/ UNCHANGED req
  BY <1>6
     DEF Present, GoTo, EvictThen, LookupLive, LookupGone, LookupOverdue, ReadOwner, RefuseStranger,
         Execute, ExecuteGone, ExecuteOverdue, WalkSteps, WalkReenters, StampHash, Stamp,
         SnapshotTaken, SnapshotFails, ExpireContract, UnmirrorContract, Publish
<1>7. CASE Restart
  BY <1>7 DEF Restart, NoRequest, PlanNamed
<1>8. ASSUME (\E s \in Sids : ContractFallsDue(s)) \/ (\E a \in Agents : WindowSlides(a))
               \/ (\E a \in Agents, k \in Keys : KeyExpires(a, k)) \/ Drained
      PROVE  UNCHANGED req
  BY <1>8 DEF ContractFallsDue, WindowSlides, KeyExpires, Drained, vars
<1> QED
  BY <1>2, <1>3, <1>4, <1>5, <1>6, <1>7, <1>8 DEF Next, Handle, Environment

\* Registration binds a fresh id.
LEMMA RegisterBinds ==
    ASSUME IInv, NEW s \in Sids, NEW STATE plan, NEW STATE owner,
           NEW STATE hash, NEW STATE from, NEW STATE due,
           plan \in Plans, owner \in Agents \cup {Nobody},
           Instantiate(s, plan, owner, hash, from, due), UNCHANGED ran
    PROVE  \E a \in Agents \cup {Nobody} : Ledger!Bind(s, a)
<1>1. PICK a \in Agents \cup {Nobody} : a = owner
  OBVIOUS
<1>2. Ledger!Bind(s, a)
  BY <1>1, RuntimeAssumption
     DEF Instantiate, Register, IInv, TypeOK, RuntimeTypeOK, HistoryTypeOK, Gone, Ledger!Bind
<1> QED
  BY <1>2

\* A walk starts on a bound id, for its holder.
LEMMA ExecuteUses ==
    ASSUME IInv, NEW t \in Threads, Execute(t)
    PROVE  Ledger!Use(loc[t].sid, req[t].agent) /\ req[t].agent \in Agents /\ loc[t].sid \in Sids
<1>1. loc[t].sid \in minted /\ req[t].agent \in Agents
  BY DEF IInv, Inv, HoldsMinted, Holding, Attributed, Execute, At
<1>2. loc[t].sid \in Sids /\ ~Gone(loc[t].sid)
  BY <1>1 DEF Execute, Live, Gone, IInv, TypeOK, RuntimeTypeOK
<1>3. owner_of[loc[t].sid] \in {req[t].agent, Nobody}
  BY <1>2 DEF IInv, Inv, Cleared, Execute, At, Gone
<1>4. /\ UNCHANGED <<minted, active, owner_of>>
      /\ ran' = ran \cup {<<req[t].agent, loc[t].sid>>}
  BY DEF Execute, runtimeVars, birthVars
<1> QED
  BY <1>1, <1>2, <1>3, <1>4 DEF Ledger!Use, Gone

\* An eviction voids the id, unless that was done before.
LEMMA ExpireVoids ==
    ASSUME IInv, NEW t \in Threads, ExpireContract(t)
    PROVE  (\E S \in SUBSET Sids : Ledger!Void(S)) \/ UNCHANGED Ledger!ledgerVars
<1>1. PICK s \in Sids : s = loc[t].sid /\ s \in minted
  BY DEF IInv, Inv, HoldsMinted, Holding, ExpireContract, At, TypeOK, RuntimeTypeOK
<1>2. /\ UNCHANGED <<minted, owner_of, ran>>
      /\ active' = [active EXCEPT ![s] = NoPlan]
      /\ active \in [Sids -> Plans \cup {NoPlan}]
  BY <1>1 DEF ExpireContract, Expire, Quiet, historyVars, birthVars, IInv, TypeOK, RuntimeTypeOK
<1>3. CASE ~Gone(s)
  <2>1. Ledger!Void({s})
    BY <1>1, <1>2, <1>3 DEF Ledger!Void, Gone
  <2>2. {s} \in SUBSET Sids
    OBVIOUS
  <2> QED
    BY <2>1, <2>2
<1>4. CASE Gone(s)
  <2>1. active' = active
    BY <1>2, <1>4 DEF Gone
  <2> QED
    BY <1>2, <2>1 DEF Ledger!ledgerVars, Gone
<1> QED
  BY <1>3, <1>4

\* A restart voids every bound id.
LEMMA RestartVoids ==
    ASSUME IInv, Restart
    PROVE  \E S \in SUBSET Sids : Ledger!Void(S)
<1>1. PICK S \in SUBSET Sids : S = {s \in Sids : s \in minted /\ ~Gone(s)}
  OBVIOUS
<1>2. /\ UNCHANGED <<minted, owner_of, ran>>
      /\ active' = [s \in Sids |-> NoPlan]
  BY DEF Restart, RuntimeRestart, birthVars
<1>3. Ledger!Void(S)
  BY <1>1, <1>2 DEF Ledger!Void, Gone
<1> QED
  BY <1>3

\* Every step of the server is a step of the ledger, or invisible to it.
LEMMA LedgerStep ==
    ASSUME IInv, PlanNamed, [Next]_vars
    PROVE  [Ledger!Next]_Ledger!ledgerVars
<1>0. req \in [Threads -> Requests]
  BY DEF IInv, TypeOK, ThreadTypeOK
<1>1. ASSUME NEW t \in Threads, RegisterNegotiated(t) PROVE Ledger!Next
  <2>1. PICK s \in Sids : Instantiate(s, req[t].plan, req[t].agent, req[t].plan,
                                      NegotiatedOrigin(req[t].mode), "none")
    BY <1>1 DEF RegisterNegotiated
  <2>2. req[t].plan \in Plans /\ req[t].agent \in Agents \cup {Nobody} /\ UNCHANGED ran
    BY <1>0, <1>1 DEF RegisterNegotiated, PlanNamed, Requests
  <2>3. \E a \in Agents \cup {Nobody} : Ledger!Bind(s, a)
    BY <2>1, <2>2, RegisterBinds
  <2> QED
    BY <2>3 DEF Ledger!Next
<1>2. ASSUME NEW t \in Threads, RegisterProposed(t) PROVE Ledger!Next
  <2>1. PICK s \in Sids, due \in {"none", "ahead"} :
          Instantiate(s, req[t].plan, Nobody, NoPlan, "propose-explicit", due)
    BY <1>2 DEF RegisterProposed
  <2>2. req[t].plan \in Plans /\ UNCHANGED ran
    BY <1>2 DEF RegisterProposed, PlanNamed
  <2>3. \E a \in Agents \cup {Nobody} : Ledger!Bind(s, a)
    BY <2>1, <2>2, RegisterBinds
  <2> QED
    BY <2>3 DEF Ledger!Next
<1>3. ASSUME NEW t \in Threads, Execute(t) PROVE Ledger!Next
  BY <1>3, ExecuteUses DEF Ledger!Next
<1>4. ASSUME NEW t \in Threads, ExpireContract(t) PROVE [Ledger!Next]_Ledger!ledgerVars
  BY <1>4, ExpireVoids DEF Ledger!Next
<1>5. CASE Restart
  BY <1>5, RestartVoids DEF Ledger!Next
<1>6. ASSUME UNCHANGED <<minted, active, owner_of, ran>> PROVE UNCHANGED Ledger!ledgerVars
  BY <1>6 DEF Ledger!ledgerVars, Gone
<1>7. ASSUME NEW t \in Threads, MirrorContract(t) \/ UnmirrorContract(t)
      PROVE  UNCHANGED <<minted, active, owner_of, ran>>
  BY <1>7 DEF MirrorContract, UnmirrorContract, Mirror, Unmirror, Quiet, historyVars, birthVars
<1>8. ASSUME NEW s \in Sids, ContractFallsDue(s)
      PROVE  UNCHANGED <<minted, active, owner_of, ran>>
  BY <1>8 DEF ContractFallsDue, DeadlinePasses, Quiet, historyVars, birthVars
<1>9. ASSUME Next
      PROVE  \/ \E t \in Threads : RegisterNegotiated(t) \/ RegisterProposed(t) \/ Execute(t)
             \/ Restart
             \/ UNCHANGED <<owner_of, ran>>
  BY <1>9, StoresMoveOnlyIn
     DEF GateRefuses, DeliverPreview, RefuseStranger, RateAdmits, Compose, Remember, Announce,
         Stamp, Publish, WindowSlides, KeyExpires, Quiet, historyVars, birthVars
<1>10. CASE UNCHANGED vars
  BY <1>6, <1>10 DEF vars, runtimeVars, historyVars, birthVars
<1> QED
  BY <1>1, <1>2, <1>3, <1>4, <1>5, <1>6, <1>7, <1>8, <1>9, <1>10, TablesMoveOnlyIn DEF runtimeVars

\* The server implements the ledger: however its threads interleave, an id is bound
\* once, used only by its holder while bound, and void for good.
THEOREM Refinement == Spec => ImplementsLedger
<1>1. ASSUME Init PROVE Ledger!Init /\ PlanNamed
  BY <1>1
     DEF Init, RuntimeInit, EmptyTables, NoRequest, PlanNamed, Ledger!Init
<1>2. ASSUME IInv, PlanNamed, [Next]_vars PROVE PlanNamed'
  BY <1>2, PlanNamedStep DEF PlanNamed, vars
<1> QED
  BY <1>1, <1>2, LedgerStep, Invariance, PTL DEF Spec, ImplementsLedger, Ledger!Spec
===============================================================================
