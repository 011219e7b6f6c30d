---------------------------- MODULE RevocationProofs ----------------------------
(***************************************************************************)
(* Theorems about how contracts end in ContractServer: that a revocation   *)
(* holds against requests that come later, what the lifecycle streams say  *)
(* of it and to whom, what the legacy registry keeps, by how much the      *)
(* in-memory limiter may be overrun, and that an idempotency key           *)
(* negotiated in turn stands for one contract.                             *)
(*                                                                         *)
(* An eviction is spread over four locked regions and a file append with   *)
(* other threads in between.  What carries it across the gaps is that an   *)
(* evicted id is never bound again (FreshIds), so that what one region     *)
(* established of a dead contract is still true in the next.               *)
(***************************************************************************)
EXTENDS ContractProofs, FiniteSetTheorems

\* A request that arrived too late for its contract never gets past the lookup
\* to a walk.
LateIsGone(t) ==
    loc[t].late =>
        /\ pc[t] \in {"lookup", "owner", "execute", "stamp_hash", "stamp", "snapshot",
                      "expire", "unmirror", "publish"}
        /\ Gone(loc[t].sid)

\* Past the locked region of expire() the contract is gone.
Evicted(t) == pc[t] \in {"unmirror", "publish"} => Gone(loc[t].sid)

\* Only SUSPEND expires what its own lookup has already evicted.
Resuming(t) == loc[t].ret = "expire" => req[t].kind = "suspend"

\* Who may revoke the contract the thread has in hand, and whose stream hears of it.
Entitled(t) ==
    \/ owner_of[loc[t].sid] = Nobody
    \/ /\ owner_of[loc[t].sid] = Stream(t)
       /\ req[t].agent \in Operators \cup {owner_of[loc[t].sid]}

\* A revoker that still finds the plan read its owner while it was active; one
\* that finds nothing to snapshot publishes nothing.
Revoking(t) ==
    req[t].kind = "revoke" =>
        /\ pc[t] = "snapshot" /\ ~Gone(loc[t].sid) => Entitled(t)
        /\ pc[t] \in {"expire", "unmirror"} /\ loc[t].ret = "publish" => Entitled(t)
        /\ pc[t] = "publish" => Entitled(t)

ThreadEvicts(t) == LateIsGone(t) /\ Evicted(t) /\ Resuming(t) /\ Revoking(t)

\* What the streams say of an eviction has happened, to the right agent.
EventsHold ==
    \A e \in events :
        e.type # "rcns_propose_accepted" =>
            /\ e.sid \in minted
            /\ Gone(e.sid)
            /\ e.type = "rcns_revoke" =>
                  \/ owner_of[e.sid] = Nobody
                  \/ /\ owner_of[e.sid] = e.stream
                     /\ e.actor \in Operators \cup {owner_of[e.sid]}

EvictionInv == (\A t \in Threads : ThreadEvicts(t)) /\ EventsHold /\ ActiveIsMirrored


-----------------------------------------------------------------------------
(* One thread moves at a time; what the others know of dead contracts lasts. *)

\* An evicted contract stays evicted.
LEMMA GoneForGood ==
    ASSUME IInv, Next
    PROVE  \A s \in minted : s \in minted' /\ owner_of'[s] = owner_of[s] /\ (Gone(s) => Gone(s)')
  BY FreshIds DEF Gone

\* The events written so far remain true.
LEMMA OldEvents ==
    ASSUME IInv, Next, EventsHold, UNCHANGED events
    PROVE  EventsHold'
  BY GoneForGood DEF EventsHold

\* A thread that does not move keeps what it has.
LEMMA Bystander ==
    ASSUME IInv, Next, NEW u \in Threads, ThreadEvicts(u),
           pc'[u] = pc[u], req'[u] = req[u], loc'[u] = loc[u]
    PROVE  ThreadEvicts(u)'
<1>1. pc[u] \in Holding => /\ loc[u].sid \in minted
                           /\ owner_of'[loc[u].sid] = owner_of[loc[u].sid]
                           /\ Gone(loc[u].sid) => Gone(loc[u].sid)'
  BY GoneForGood DEF IInv, Inv, HoldsMinted
<1>2. CASE pc[u] \in Holding
  <2>1. Entitled(u) => Entitled(u)'
    BY <1>1, <1>2 DEF Entitled, Stream
  <2>2. LateIsGone(u)' /\ Evicted(u)' /\ Resuming(u)'
    BY <1>1, <1>2 DEF ThreadEvicts, LateIsGone, Evicted, Resuming, Gone
  <2>3. Gone(loc[u].sid) => active'[loc'[u].sid] = NoPlan
    BY <1>1, <1>2 DEF Gone
  <2>4. Revoking(u)'
    BY <2>1, <2>3 DEF ThreadEvicts, Revoking, Gone
  <2>. QED  BY <2>2, <2>4 DEF ThreadEvicts
<1>3. CASE pc[u] \notin Holding
  BY <1>3 DEF Holding, ThreadEvicts, LateIsGone, Evicted, Resuming, Revoking
<1>. QED  BY <1>2, <1>3

\* A thread that has answered knows nothing.
LEMMA Answered ==
    ASSUME IInv, NEW t \in Threads, Finish(t)
    PROVE  /\ ThreadEvicts(t)'
           /\ \A u \in Threads \ {t} : pc'[u] = pc[u] /\ req'[u] = req[u] /\ loc'[u] = loc[u]
<1>1. /\ pc'[t] = "idle" /\ req'[t] = NoRequest /\ loc'[t] = EmptyFrame
      /\ \A u \in Threads \ {t} : pc'[u] = pc[u] /\ req'[u] = req[u] /\ loc'[u] = loc[u]
  BY DEF Finish, IInv, TypeOK, ThreadTypeOK
<1>2. ~EmptyFrame.late /\ EmptyFrame.ret = "done" /\ NoRequest.kind = "none"
  BY DEF EmptyFrame, NoRequest
<1>. QED  BY <1>1, <1>2 DEF ThreadEvicts, LateIsGone, Evicted, Resuming, Revoking

\* The labels of a thread that has its contract from the wire.
Presenting == {"lookup", "owner", "execute", "stamp_hash", "stamp", "snapshot",
               "expire", "unmirror", "publish"}

OthersStay(t) == \A u \in Threads \ {t} : loc'[u] = loc[u]

\* What a move has to establish: that the contract is dead where the label says
\* so, and that a revoker is entitled to what it goes on with.
LEMMA Moving ==
    ASSUME IInv, Next, NEW t \in Threads, NEW l \in Labels, GoTo(t, l), OthersStay(t),
           loc'[t].late => l \in Presenting /\ Gone(loc[t].sid)',
           l \in {"unmirror", "publish"} => Gone(loc[t].sid)',
           loc'[t].ret = "expire" => req[t].kind = "suspend",
           req[t].kind = "revoke" =>
               \/ l = "snapshot" /\ Gone(loc[t].sid)'
               \/ l \in {"expire", "unmirror"} /\ loc'[t].ret # "publish"
               \/ l \notin {"snapshot", "expire", "unmirror", "publish"}
               \/ Entitled(t)'
    PROVE  /\ ThreadEvicts(t)'
           /\ \A u \in Threads \ {t} : pc'[u] = pc[u] /\ req'[u] = req[u] /\ loc'[u] = loc[u]
<1>1. /\ pc'[t] = l /\ req'[t] = req[t]
      /\ \A u \in Threads \ {t} : pc'[u] = pc[u] /\ req'[u] = req[u] /\ loc'[u] = loc[u]
  BY DEF GoTo, OthersStay, IInv, TypeOK, ThreadTypeOK
<1>. QED
  BY <1>1 DEF ThreadEvicts, LateIsGone, Evicted, Resuming, Revoking, Gone, Presenting

\* A negotiation is never late and evicts nothing.
LEMMA Negotiating ==
    ASSUME IInv, Next, NEW t \in Threads, ThreadEvicts(t), pc[t] \notin Presenting,
           NEW l \in Labels, GoTo(t, l), OthersStay(t),
           l \notin {"snapshot", "expire", "unmirror", "publish"},
           loc'[t].late = loc[t].late, loc'[t].ret = loc[t].ret
    PROVE  /\ ThreadEvicts(t)'
           /\ \A u \in Threads \ {t} : pc'[u] = pc[u] /\ req'[u] = req[u] /\ loc'[u] = loc[u]
<1>1. ~loc[t].late /\ (loc[t].ret = "expire" => req[t].kind = "suspend")
  BY DEF ThreadEvicts, LateIsGone, Resuming, Presenting
<1>. QED  BY <1>1, Moving

\* A write to one or two fields of a frame leaves the others.
LEMMA FrameFields ==
    ASSUME NEW f \in Frames
    PROVE  /\ \A h \in Plans \cup {NoPlan} :
                LET g == [f EXCEPT !.hash = h]
                IN  g.sid = f.sid /\ g.late = f.late /\ g.ret = f.ret
           /\ \A i \in Sids \cup {NoSid} :
                LET g == [f EXCEPT !.sid = i]
                IN  g.sid = i /\ g.late = f.late /\ g.ret = f.ret
           /\ \A i \in Sids \cup {NoSid}, h \in Plans \cup {NoPlan} :
                LET g == [f EXCEPT !.sid = i, !.hash = h]
                IN  g.sid = i /\ g.late = f.late /\ g.ret = f.ret
           /\ LET g == [f EXCEPT !.status = 404]
              IN  g.sid = f.sid /\ g.late = f.late /\ g.ret = f.ret
           /\ \A r \in Returns :
                LET g == [f EXCEPT !.status = 404, !.ret = r]
                IN  g.sid = f.sid /\ g.late = f.late /\ g.ret = r
           /\ \A r \in Returns :
                LET g == [f EXCEPT !.ret = r]
                IN  g.sid = f.sid /\ g.late = f.late /\ g.ret = r /\ g.seen = f.seen
           /\ \A a \in Agents \cup {Nobody}, r \in Returns :
                LET g == [f EXCEPT !.seen = a, !.ret = r]
                IN  g.sid = f.sid /\ g.late = f.late /\ g.ret = r /\ g.seen = a
           /\ \A b \in BOOLEAN :
                LET g == [f EXCEPT !.existed = b]
                IN  g.sid = f.sid /\ g.late = f.late /\ g.ret = f.ret /\ g.seen = f.seen
           /\ \A d \in Nat :
                LET g == [f EXCEPT !.depth = d]
                IN  g.sid = f.sid /\ g.late = f.late /\ g.ret = f.ret
<1>1. ASSUME NEW h \in Plans \cup {NoPlan}
      PROVE  LET g == [f EXCEPT !.hash = h]
             IN  g.sid = f.sid /\ g.late = f.late /\ g.ret = f.ret
  BY DEF Frames
<1>2. ASSUME NEW i \in Sids \cup {NoSid}
      PROVE  LET g == [f EXCEPT !.sid = i]
             IN  g.sid = i /\ g.late = f.late /\ g.ret = f.ret
  BY DEF Frames
<1>3. ASSUME NEW i \in Sids \cup {NoSid}, NEW h \in Plans \cup {NoPlan}
      PROVE  LET g == [f EXCEPT !.sid = i, !.hash = h]
             IN  g.sid = i /\ g.late = f.late /\ g.ret = f.ret
  BY DEF Frames
<1>4. LET g == [f EXCEPT !.status = 404]
      IN  g.sid = f.sid /\ g.late = f.late /\ g.ret = f.ret
  BY DEF Frames
<1>5. ASSUME NEW r \in Returns
      PROVE  LET g == [f EXCEPT !.status = 404, !.ret = r]
             IN  g.sid = f.sid /\ g.late = f.late /\ g.ret = r
  BY DEF Frames
<1>6. ASSUME NEW r \in Returns
      PROVE  LET g == [f EXCEPT !.ret = r]
             IN  g.sid = f.sid /\ g.late = f.late /\ g.ret = r /\ g.seen = f.seen
  BY DEF Frames
<1>7. ASSUME NEW a \in Agents \cup {Nobody}, NEW r \in Returns
      PROVE  LET g == [f EXCEPT !.seen = a, !.ret = r]
             IN  g.sid = f.sid /\ g.late = f.late /\ g.ret = r /\ g.seen = a
  BY DEF Frames
<1>8. ASSUME NEW b \in BOOLEAN
      PROVE  LET g == [f EXCEPT !.existed = b]
             IN  g.sid = f.sid /\ g.late = f.late /\ g.ret = f.ret /\ g.seen = f.seen
  BY DEF Frames
<1>9. ASSUME NEW d \in Nat
      PROVE  LET g == [f EXCEPT !.depth = d]
             IN  g.sid = f.sid /\ g.late = f.late /\ g.ret = f.ret
  BY DEF Frames
<1>. QED  BY <1>1, <1>2, <1>3, <1>4, <1>5, <1>6, <1>7, <1>8, <1>9

\* The moves of a thread, with what its frame says before and after.
OthersAsBefore(t) ==
    \A u \in Threads \ {t} : pc'[u] = pc[u] /\ req'[u] = req[u] /\ loc'[u] = loc[u]

\* The steps of a negotiation keep what is known of evictions (try_rcns and
\* instantiate, up to the delivery).
LEMMA NegotiateEvicts ==
    ASSUME IInv, Next, NEW t \in Threads, ThreadEvicts(t), Negotiate(t)
    PROVE  ThreadEvicts(t)' /\ OthersAsBefore(t)
<1>. USE DEF At, OthersAsBefore
<1>0. loc \in [Threads -> Frames] /\ loc[t] \in Frames
  BY DEF IInv, TypeOK, ThreadTypeOK
<1>1. CASE GateRefuses(t) \/ RateLimited(t) \/ DeliverPreview(t)
  BY <1>1, Answered DEF GateRefuses, RateLimited, DeliverPreview
<1>2. CASE RateAdmits(t) \/ CachedPlanGone(t) \/ Remember(t) \/ Announce(t) \/ DeliverInline(t)
  BY <1>2, Negotiating
     DEF RateAdmits, CachedPlanGone, Remember, Announce, DeliverInline, Labels, Presenting, OthersStay
<1>3. CASE Compose(t) \/ MirrorContract(t)
  <2>1. pc[t] \in {"compose", "mirror"}
    BY <1>3 DEF Compose, MirrorContract
  <2>2. CASE Finish(t)
    BY <2>2, Answered
  <2>3. CASE \E l \in {"register", "remember"} : GoTo(t, l) /\ UNCHANGED loc
    BY <2>1, <2>3, Negotiating DEF Labels, OthersStay, Presenting
  <2>4. Compose(t) => Finish(t) \/ (GoTo(t, "register") /\ UNCHANGED loc)
    BY DEF Compose
  <2>5. MirrorContract(t) => Finish(t) \/ (GoTo(t, "remember") /\ UNCHANGED loc)
    BY DEF MirrorContract
  <2>. QED  BY <1>3, <2>2, <2>3, <2>4, <2>5
<1>4. CASE ReadCache(t) \/ CachedPlanLives(t) \/ RegisterNegotiated(t) \/ RegisterProposed(t)
  <2>1. loc'[t].late = loc[t].late /\ loc'[t].ret = loc[t].ret /\ OthersStay(t)
    <3>1. CASE ReadCache(t)
      <4>1. CachedSid(req[t].agent, req[t].key) \in Sids \cup {NoSid}
        BY <3>1 DEF ReadCache, CachedSid, IInv, Inv, TypeOK, GateTypeOK, Attributed
      <4>2. loc' = [loc EXCEPT ![t] = [loc[t] EXCEPT !.sid = CachedSid(req[t].agent, req[t].key)]]
        BY <3>1 DEF ReadCache
      <4>. QED  BY <1>0, <4>1, <4>2, FrameFields DEF OthersStay
    <3>2. CASE CachedPlanLives(t)
      <4>1. contract_hashes[loc[t].sid] \in Plans \cup {NoPlan}
        BY <3>2 DEF CachedPlanLives, IInv, Inv, HoldsMinted, Holding, TypeOK, RuntimeTypeOK
      <4>2. loc' = [loc EXCEPT ![t] = [loc[t] EXCEPT !.hash = contract_hashes[loc[t].sid]]]
        BY <3>2 DEF CachedPlanLives
      <4>. QED  BY <1>0, <4>1, <4>2, FrameFields DEF OthersStay
    <3>3. CASE RegisterNegotiated(t)
      <4>1. req[t].plan \in Plans \cup {NoPlan}
        BY DEF IInv, TypeOK, ThreadTypeOK, Requests
      <4>2. PICK s \in Sids : loc' = [loc EXCEPT ![t] = [loc[t] EXCEPT !.sid = s, !.hash = req[t].plan]]
        BY <3>3 DEF RegisterNegotiated
      <4>. QED  BY <1>0, <4>1, <4>2, FrameFields DEF OthersStay
    <3>4. CASE RegisterProposed(t)
      <4>1. PICK s \in Sids : loc' = [loc EXCEPT ![t] = [loc[t] EXCEPT !.sid = s]]
        BY <3>4 DEF RegisterProposed
      <4>. QED  BY <1>0, <4>1, FrameFields DEF OthersStay
    <3>. QED  BY <1>4, <3>1, <3>2, <3>3, <3>4
  <2>2. pc[t] \notin Presenting
    BY <1>4 DEF ReadCache, CachedPlanLives, RegisterNegotiated, RegisterProposed, Presenting
  <2>3. \E l \in {"compose", "cached_plan", "deliver", "mirror"} : GoTo(t, l)
    BY <1>4 DEF ReadCache, CachedPlanLives, RegisterNegotiated, RegisterProposed
  <2>. QED  BY <2>1, <2>2, <2>3, Negotiating DEF Labels
<1>. QED  BY <1>1, <1>2, <1>3, <1>4 DEF Negotiate

\* An entitled revoker stays entitled while it keeps its contract.
LEMMA EntitledStays ==
    ASSUME IInv, Next, NEW t \in Threads, pc[t] \in Holding, Entitled(t),
           loc'[t].sid = loc[t].sid, loc'[t].seen = loc[t].seen, req'[t] = req[t]
    PROVE  Entitled(t)'
  BY GoneForGood DEF Entitled, Stream, IInv, Inv, HoldsMinted

\* The steps of a presented contract keep it too: what a step reads of the
\* contract it reads in one locked region (the Synthesis-Id path of
\* _dispatch_inner, _revoke_contract, handle_suspend).
LEMMA PresentEvicts ==
    ASSUME IInv, Next, NEW t \in Threads, ThreadEvicts(t), Present(t)
    PROVE  ThreadEvicts(t)' /\ OthersAsBefore(t)
<1>. USE DEF At, OthersAsBefore
<1>0. /\ loc \in [Threads -> Frames] /\ loc[t] \in Frames /\ RuntimeTypeOK
      /\ req \in [Threads -> Requests]
  BY DEF IInv, TypeOK, ThreadTypeOK
<1>a. pc[t] \in Holding =>
        /\ loc[t].sid \in minted /\ loc[t].sid \in Sids
        /\ Gone(loc[t].sid) => active'[loc[t].sid] = NoPlan
  BY GoneForGood DEF IInv, Inv, HoldsMinted, TypeOK, RuntimeTypeOK, Gone
<1>b. /\ loc[t].late => pc[t] \in Presenting /\ Gone(loc[t].sid)
      /\ pc[t] \in {"unmirror", "publish"} => Gone(loc[t].sid)
      /\ loc[t].ret = "expire" => req[t].kind = "suspend"
      /\ req[t].kind = "revoke" =>
            /\ pc[t] = "snapshot" /\ ~Gone(loc[t].sid) => Entitled(t)
            /\ pc[t] \in {"expire", "unmirror"} /\ loc[t].ret = "publish" => Entitled(t)
  BY DEF ThreadEvicts, LateIsGone, Evicted, Resuming, Revoking, Presenting
<1>1. CASE RefuseStranger(t) \/ Stamp(t) \/ Publish(t)
  BY <1>1, Answered DEF RefuseStranger, Stamp, Publish
<1>2. CASE LookupLive(t) \/ Execute(t) \/ WalkSteps(t)
  <2>1. ~loc[t].late /\ UNCHANGED loc
    BY <1>2, <1>b DEF LookupLive, Execute, WalkSteps, Live, Gone, Presenting
  <2>2. \E l \in {"owner", "walk", "stamp_hash", "stamp"} : GoTo(t, l)
    BY <1>2 DEF LookupLive, Execute, WalkSteps
  <2>. QED  BY <1>b, <2>1, <2>2, Moving DEF Labels, OthersStay
<1>3. CASE LookupGone(t)
  <2>1. pc[t] = "lookup" /\ pc[t] \in Holding /\ Gone(loc[t].sid)
    BY <1>3 DEF LookupGone, Holding
  <2>2. CASE req[t].kind = "suspend" /\ EvictThen(t, "publish")
    <3>1. GoTo(t, "expire") /\ loc' = [loc EXCEPT ![t] = [loc[t] EXCEPT !.ret = "publish"]]
      BY <2>2 DEF EvictThen
    <3>2. loc'[t].sid = loc[t].sid /\ loc'[t].ret = "publish" /\ OthersStay(t)
      BY <1>0, <3>1, FrameFields DEF Returns, OthersStay
    <3>. QED  BY <1>a, <2>1, <2>2, <3>1, <3>2, Moving DEF Labels, Presenting, Gone
  <2>3. CASE /\ req[t].kind = "invoke" /\ GoTo(t, "stamp_hash")
             /\ loc' = [loc EXCEPT ![t].status = 404]
    <3>1. loc' = [loc EXCEPT ![t] = [loc[t] EXCEPT !.status = 404]]
      BY <2>3
    <3>2. loc'[t].sid = loc[t].sid /\ loc'[t].ret = loc[t].ret /\ OthersStay(t)
      BY <1>0, <3>1, FrameFields DEF OthersStay
    <3>. QED  BY <1>a, <1>b, <2>1, <2>3, <3>2, Moving DEF Labels, Presenting, Gone
  <2>4. CASE Finish(t)
    BY <2>4, Answered
  <2>. QED  BY <1>3, <2>2, <2>3, <2>4 DEF LookupGone
<1>4. CASE LookupOverdue(t) \/ SnapshotFails(t) \/ ExecuteOverdue(t)
  <2>1. CASE Finish(t)
    BY <2>1, Answered
  <2>2. CASE ~Finish(t)
    <3>1. ~loc[t].late
      BY <1>4, <1>b, <2>2 DEF LookupOverdue, SnapshotFails, ExecuteOverdue, Overdue, Gone
    <3>2. /\ GoTo(t, "expire") /\ OthersStay(t) /\ loc'[t].late = loc[t].late
          /\ loc'[t].ret \in {"done", "expire", "stamp_hash"}
          /\ loc'[t].ret = "expire" => req[t].kind = "suspend"
      <4>1. CASE EvictThen(t, "expire") /\ req[t].kind = "suspend"
        <5>1. loc' = [loc EXCEPT ![t] = [loc[t] EXCEPT !.ret = "expire"]] /\ GoTo(t, "expire")
          BY <4>1 DEF EvictThen
        <5>. QED  BY <1>0, <4>1, <5>1, FrameFields DEF Returns, OthersStay
      <4>2. CASE EvictThen(t, "done")
        <5>1. loc' = [loc EXCEPT ![t] = [loc[t] EXCEPT !.ret = "done"]] /\ GoTo(t, "expire")
          BY <4>2 DEF EvictThen
        <5>. QED  BY <1>0, <5>1, FrameFields DEF Returns, OthersStay
      <4>3. CASE loc' = [loc EXCEPT ![t].status = 404, ![t].ret = "stamp_hash"] /\ GoTo(t, "expire")
        <5>1. loc' = [loc EXCEPT ![t] = [loc[t] EXCEPT !.status = 404, !.ret = "stamp_hash"]]
          <6>1. t \in DOMAIN loc
            BY <1>0
          <6>. QED  BY ZenonT(60), <4>3, <6>1
        <5>. QED  BY <1>0, <4>3, <5>1, FrameFields DEF Returns, OthersStay
      <4>. QED
        BY <1>4, <2>2, <4>1, <4>2, <4>3 DEF LookupOverdue, SnapshotFails, ExecuteOverdue
    <3>. QED  BY <3>1, <3>2, Moving DEF Labels
  <2>. QED  BY <2>1, <2>2
<1>5. CASE ReadOwner(t)
  <2>. DEFINE owner == originating[loc[t].sid]
              r == IF req[t].kind = "suspend" THEN "publish" ELSE loc[t].ret
  <2>1. pc[t] = "owner" /\ pc[t] \in Holding /\ UNCHANGED <<active, owner_of>> /\ UNCHANGED req
    BY <1>5 DEF ReadOwner, Holding, runtimeVars, Quiet, historyVars, birthVars, GoTo
  <2>2. loc' = [loc EXCEPT ![t] = [loc[t] EXCEPT !.seen = owner, !.ret = r]]
    BY <1>5 DEF ReadOwner
  <2>3. owner \in Agents \cup {Nobody} /\ r \in Returns
    BY <1>0, <1>a, <2>1 DEF RuntimeTypeOK, Frames, Returns
  <2>4. /\ loc'[t].sid = loc[t].sid /\ loc'[t].late = loc[t].late
        /\ loc'[t].ret = r /\ loc'[t].seen = owner /\ OthersStay(t)
    <3>. HIDE DEF owner, r
    <3>. QED  BY <1>0, <2>2, <2>3, FrameFields DEF OthersStay
  <2>5. CASE req[t].kind = "revoke"
    <3>1. GoTo(t, "snapshot") /\ (Stranger(t) => req[t].agent \in Operators)
      BY <1>5, <2>5 DEF ReadOwner
    <3>2. ASSUME ~Gone(loc[t].sid) PROVE Entitled(t)'
      <4>1. owner = owner_of[loc[t].sid]
        BY <1>a, <2>1, <3>2 DEF IInv, Inv, OwnersAgree, Gone
      <4>. QED  BY <2>1, <2>4, <3>1, <4>1, RuntimeAssumption DEF Entitled, Stream, Stranger
    <3>. QED  BY <1>a, <1>b, <2>1, <2>4, <2>5, <3>1, <3>2, Moving DEF Labels, Presenting, Gone
  <2>6. CASE req[t].kind # "revoke"
    <3>1. \E l \in {"execute", "expire"} : GoTo(t, l)
      BY <1>5, <2>6 DEF ReadOwner
    <3>. QED  BY <1>a, <1>b, <2>1, <2>4, <2>6, <3>1, Moving DEF Labels, Presenting, Gone
  <2>. QED  BY <2>5, <2>6
<1>6. CASE ExecuteGone(t) \/ StampHash(t)
  <2>1. pc[t] \in Holding
    BY <1>6 DEF ExecuteGone, StampHash, Holding
  <2>2. loc'[t].sid = loc[t].sid /\ loc'[t].late = loc[t].late
        /\ loc'[t].ret = loc[t].ret /\ OthersStay(t)
    <3>1. contract_hashes[loc[t].sid] \in Plans \cup {NoPlan}
      BY <1>0, <1>a, <2>1 DEF RuntimeTypeOK
    <3>2. CASE loc' = [loc EXCEPT ![t] = [loc[t] EXCEPT !.status = 404]]
      BY <1>0, <3>2, FrameFields DEF OthersStay
    <3>3. CASE loc' = [loc EXCEPT ![t] = [loc[t] EXCEPT !.hash = contract_hashes[loc[t].sid]]]
      BY <1>0, <3>1, <3>3, FrameFields DEF OthersStay
    <3>. QED  BY <1>6, <3>2, <3>3 DEF ExecuteGone, StampHash
  <2>3. \E l \in {"stamp_hash", "stamp"} : GoTo(t, l)
    BY <1>6 DEF ExecuteGone, StampHash
  <2>. QED  BY <1>a, <1>b, <2>1, <2>2, <2>3, Moving DEF Labels, Presenting, Gone
<1>7. CASE WalkReenters(t)
  <2>1. CASE Finish(t)
    BY <2>1, Answered
  <2>2. CASE ~Finish(t)
    <3>1. loc' = [loc EXCEPT ![t] = [loc[t] EXCEPT !.depth = loc[t].depth + 1]] /\ GoTo(t, "lookup")
      BY <1>7, <2>2 DEF WalkReenters
    <3>2. loc[t].depth + 1 \in Nat /\ ~loc[t].late
      BY <1>0, <1>7, <1>b, ServerAssumption DEF Frames, WalkReenters, Presenting
    <3>3. loc'[t].late = loc[t].late /\ loc'[t].ret = loc[t].ret /\ OthersStay(t)
      BY <1>0, <3>1, <3>2, FrameFields DEF OthersStay
    <3>. QED  BY <1>b, <3>1, <3>2, <3>3, Moving DEF Labels
  <2>. QED  BY <2>1, <2>2
<1>8. CASE SnapshotTaken(t)
  <2>1. pc[t] = "snapshot" /\ pc[t] \in Holding /\ ~Gone(loc[t].sid) /\ ~loc[t].late
    BY <1>8, <1>b DEF SnapshotTaken, Live, Gone, Holding
  <2>2. GoTo(t, "expire") /\ loc' = [loc EXCEPT ![t] = [loc[t] EXCEPT !.ret = "publish"]]
    BY <1>8 DEF SnapshotTaken, EvictThen
  <2>3. /\ loc'[t].sid = loc[t].sid /\ loc'[t].seen = loc[t].seen /\ ~loc'[t].late
        /\ loc'[t].ret = "publish" /\ OthersStay(t) /\ req'[t] = req[t]
    BY <1>0, <2>1, <2>2, FrameFields DEF Returns, OthersStay, GoTo
  <2>4. req[t].kind = "revoke" => Entitled(t)'
    BY <1>b, <2>1, <2>3, EntitledStays
  <2>. QED  BY <2>2, <2>3, <2>4, Moving DEF Labels
<1>9. CASE ExpireContract(t)
  <2>1. pc[t] = "expire" /\ pc[t] \in Holding /\ GoTo(t, "unmirror")
        /\ active' = [active EXCEPT ![loc[t].sid] = NoPlan]
    BY <1>9 DEF ExpireContract, Expire, Holding
  <2>2. loc' = [loc EXCEPT ![t] = [loc[t] EXCEPT !.existed = ~Gone(loc[t].sid)]]
    BY <1>9 DEF ExpireContract
  <2>3. /\ loc'[t].sid = loc[t].sid /\ loc'[t].seen = loc[t].seen /\ loc'[t].late = loc[t].late
        /\ loc'[t].ret = loc[t].ret /\ OthersStay(t) /\ req'[t] = req[t]
    <3>1. (~Gone(loc[t].sid)) \in BOOLEAN
      OBVIOUS
    <3>. QED  BY <1>0, <2>1, <2>2, <3>1, FrameFields DEF OthersStay, GoTo
  <2>4. active'[loc'[t].sid] = NoPlan
    BY <1>0, <1>a, <2>1, <2>3 DEF RuntimeTypeOK
  <2>5. req[t].kind = "revoke" /\ loc[t].ret = "publish" => Entitled(t)'
    BY <1>b, <2>1, <2>3, EntitledStays
  <2>. QED  BY <1>b, <2>1, <2>3, <2>4, <2>5, Moving DEF Labels, Presenting, Gone
<1>10. CASE UnmirrorContract(t)
  <2>. DEFINE known == loc[t].existed \/ loc[t].sid \in legacy
  <2>1. pc[t] = "unmirror" /\ pc[t] \in Holding /\ Gone(loc[t].sid)
    BY <1>10, <1>b DEF UnmirrorContract, Holding
  <2>2. CASE Finish(t)
    BY <2>2, Answered
  <2>3. CASE loc[t].ret = "expire" /\ loc' = [loc EXCEPT ![t].ret = "publish"] /\ GoTo(t, "expire")
    <3>1. loc' = [loc EXCEPT ![t] = [loc[t] EXCEPT !.ret = "publish"]]
      BY <2>3
    <3>2. loc'[t].sid = loc[t].sid /\ loc'[t].ret = "publish" /\ OthersStay(t)
      BY <1>0, <3>1, FrameFields DEF Returns, OthersStay
    <3>. QED  BY <1>a, <1>b, <2>1, <2>3, <3>2, Moving DEF Labels, Presenting, Gone
  <2>4. CASE /\ loc[t].ret \in {"publish", "stamp_hash"}
             /\ loc' = [loc EXCEPT ![t].existed = known] /\ GoTo(t, loc[t].ret)
    <3>1. known \in BOOLEAN
      OBVIOUS
    <3>2. loc' = [loc EXCEPT ![t] = [loc[t] EXCEPT !.existed = known]]
      BY <2>4
    <3>3. /\ loc'[t].sid = loc[t].sid /\ loc'[t].seen = loc[t].seen
          /\ loc'[t].ret = loc[t].ret /\ OthersStay(t) /\ req'[t] = req[t]
      <4>. HIDE DEF known
      <4>. QED  BY <1>0, <2>4, <3>1, <3>2, FrameFields DEF OthersStay, GoTo
    <3>4. req[t].kind = "revoke" /\ loc[t].ret = "publish" => Entitled(t)'
      BY <1>b, <2>1, <3>3, EntitledStays
    <3>5. Gone(loc[t].sid)'
      BY <1>a, <2>1, <3>3 DEF Gone
    <3>. QED  BY <1>b, <2>4, <3>3, <3>4, <3>5, Moving DEF Labels, Presenting
  <2>. QED  BY <1>10, <2>2, <2>3, <2>4 DEF UnmirrorContract
<1>. QED
  BY <1>1, <1>2, <1>3, <1>4, <1>5, <1>6, <1>7, <1>8, <1>9, <1>10 DEF Present

-----------------------------------------------------------------------------
(* The invariant, step by step.                                              *)

\* A request that arrives is late exactly when its contract is already dead
\* (Arrive).
LEMMA ArriveEvicts ==
    ASSUME IInv, Next, NEW t \in Threads, Arrive(t)
    PROVE  ThreadEvicts(t)' /\ OthersAsBefore(t)
<1>1. PICK r \in Negotiations \cup Proposals \cup Presentations :
        /\ pc'  = [pc EXCEPT ![t] = FirstLabel(r.kind)]
        /\ req' = [req EXCEPT ![t] = r]
        /\ loc' = [loc EXCEPT ![t] = [EmptyFrame EXCEPT
                     !.sid = r.sid, !.late = r.kind = "invoke" /\ Gone(r.sid)]]
  BY DEF Arrive
<1>2. /\ pc'[t] = FirstLabel(r.kind) /\ req'[t] = r
      /\ loc'[t] = [EmptyFrame EXCEPT !.sid = r.sid, !.late = r.kind = "invoke" /\ Gone(r.sid)]
      /\ OthersAsBefore(t)
  BY <1>1 DEF IInv, TypeOK, ThreadTypeOK, OthersAsBefore
<1>3. /\ loc'[t].sid = r.sid /\ loc'[t].ret = "done"
      /\ loc'[t].late = (r.kind = "invoke" /\ Gone(r.sid))
  BY <1>2 DEF EmptyFrame
<1>4. UNCHANGED active
  BY DEF Arrive, runtimeVars
<1>5. pc'[t] \in {"gate", "register", "lookup"} /\ (r.kind = "invoke" => pc'[t] = "lookup")
  BY <1>2 DEF FirstLabel
<1>. QED
  BY <1>2, <1>3, <1>4, <1>5 DEF ThreadEvicts, LateIsGone, Evicted, Resuming, Revoking, Gone

\* Every step keeps what every thread knows of evictions.
LEMMA ThreadsEvict ==
    ASSUME IInv, Next, \A t \in Threads : ThreadEvicts(t)
    PROVE  \A u \in Threads : ThreadEvicts(u)'
<1>1. ASSUME NEW t \in Threads, Arrive(t) \/ Handle(t) PROVE \A u \in Threads : ThreadEvicts(u)'
  <2>1. ThreadEvicts(t)' /\ OthersAsBefore(t)
    BY <1>1, ArriveEvicts, NegotiateEvicts, PresentEvicts DEF Handle
  <2>. QED  BY <2>1, Bystander DEF OthersAsBefore
<1>2. ASSUME UNCHANGED <<pc, req, loc>> PROVE \A u \in Threads : ThreadEvicts(u)'
  BY <1>2, Bystander
<1>3. CASE Restart
  <2>1. \A u \in Threads : pc'[u] = "idle" /\ req'[u] = NoRequest /\ loc'[u] = EmptyFrame
    BY <1>3 DEF Restart
  <2>2. ~EmptyFrame.late /\ EmptyFrame.ret = "done" /\ NoRequest.kind = "none"
    BY DEF EmptyFrame, NoRequest
  <2>. QED  BY <2>1, <2>2 DEF ThreadEvicts, LateIsGone, Evicted, Resuming, Revoking
<1>4. CASE Environment
  BY <1>2, <1>3, <1>4 DEF Environment, ContractFallsDue, WindowSlides, KeyExpires
<1>5. CASE Drained
  BY <1>2, <1>5 DEF Drained, vars
<1>. QED  BY <1>1, <1>4, <1>5 DEF Next

\* A line is appended by a thread that has seen the contract die (Publish).
LEMMA EventsStep ==
    ASSUME IInv, Next, EventsHold, \A t \in Threads : ThreadEvicts(t)
    PROVE  EventsHold'
<1>. USE DEF At
<1>1. ASSUME NEW t \in Threads, Announce(t) PROVE EventsHold'
  <2>1. \A e \in events' : e.type # "rcns_propose_accepted" => e \in events
    BY <1>1 DEF Announce, Event
  <2>. QED  BY <2>1, GoneForGood DEF EventsHold
<1>2. ASSUME NEW t \in Threads, Publish(t) PROVE EventsHold'
  <2>1. /\ loc[t].sid \in minted /\ Gone(loc[t].sid)
        /\ req[t].kind = "revoke" => Entitled(t)
    BY <1>2 DEF Publish, IInv, Inv, HoldsMinted, Holding, ThreadEvicts, Evicted, Revoking
  <2>2. UNCHANGED <<minted, active, owner_of>>
    BY <1>2 DEF Publish, runtimeVars, historyVars, birthVars
  <2>3. ASSUME NEW e \in events', e \notin events
        PROVE  /\ e.sid = loc[t].sid /\ e.stream = Stream(t) /\ e.actor = req[t].agent
               /\ e.type = "rcns_revoke" => req[t].kind = "revoke"
    BY <1>2, <2>3 DEF Publish, Event
  <2>4. ASSUME NEW e \in events', e \notin events
        PROVE  /\ e.sid \in minted' /\ active'[e.sid] = NoPlan
               /\ e.type = "rcns_revoke" =>
                     \/ owner_of'[e.sid] = Nobody
                     \/ /\ owner_of'[e.sid] = e.stream
                        /\ e.actor \in Operators \cup {owner_of'[e.sid]}
    BY <2>1, <2>2, <2>3, <2>4 DEF Gone, Entitled
  <2>5. ASSUME NEW e \in events, e.type # "rcns_propose_accepted"
        PROVE  /\ e.sid \in minted' /\ active'[e.sid] = NoPlan
               /\ e.type = "rcns_revoke" =>
                     \/ owner_of'[e.sid] = Nobody
                     \/ /\ owner_of'[e.sid] = e.stream
                        /\ e.actor \in Operators \cup {owner_of'[e.sid]}
    BY <2>2, <2>5 DEF EventsHold, Gone
  <2>. QED  BY <2>4, <2>5 DEF EventsHold, Gone
<1>3. ASSUME UNCHANGED events PROVE EventsHold'
  BY <1>3, OldEvents
<1>4. (\E t \in Threads : Announce(t) \/ Publish(t)) \/ UNCHANGED events
  BY StoresMoveOnlyIn
     DEF GateRefuses, DeliverPreview, RefuseStranger, RateAdmits, Compose, RegisterNegotiated,
         RegisterProposed, Remember, Execute, Stamp, WindowSlides, KeyExpires, Restart, Quiet,
         auditVars
<1>. QED  BY <1>1, <1>2, <1>3, <1>4

\* A thread waits at the legacy registry with its new contract until it has
\* entered it (MirrorContract).
LEMMA WaitsAtMirror ==
    ASSUME IInv, Next, \A t \in Threads : ThreadEvicts(t), NEW u \in Threads, pc[u] = "mirror"
    PROVE  MirrorContract(u) \/ Restart \/ (pc'[u] = "mirror" /\ loc'[u] = loc[u])
<1>. USE DEF At
<1>1. ASSUME NEW t \in Threads, Arrive(t) \/ Handle(t), t # u
      PROVE  pc'[u] = "mirror" /\ loc'[u] = loc[u]
  BY <1>1, ArriveEvicts, NegotiateEvicts, PresentEvicts DEF Handle, OthersAsBefore
<1>2. ~Arrive(u)
  BY DEF Arrive
<1>3. Negotiate(u) => MirrorContract(u)
  BY DEF Negotiate, GateRefuses, RateLimited, RateAdmits, ReadCache, CachedPlanLives,
         CachedPlanGone, Compose, RegisterNegotiated, RegisterProposed, Remember, Announce,
         DeliverPreview, DeliverInline
<1>4. ~Present(u)
  BY DEF Present, LookupLive, LookupGone, LookupOverdue, ReadOwner, RefuseStranger, Execute,
         ExecuteGone, ExecuteOverdue, WalkSteps, WalkReenters, StampHash, Stamp, SnapshotTaken,
         SnapshotFails, ExpireContract, UnmirrorContract, Publish
<1>5. Environment \/ Drained => Restart \/ UNCHANGED <<pc, loc>>
  BY DEF Environment, ContractFallsDue, WindowSlides, KeyExpires, Drained, vars
<1>. QED  BY <1>1, <1>2, <1>3, <1>4, <1>5 DEF Next, Handle

\* The legacy registry loses an id only after the runtime has (Expire, Unmirror).
LEMMA MirrorStep ==
    ASSUME IInv, Next, ActiveIsMirrored, \A t \in Threads : ThreadEvicts(t)
    PROVE  ActiveIsMirrored'
<1>. USE DEF At
<1>0. RuntimeTypeOK /\ loc \in [Threads -> Frames]
  BY DEF IInv, TypeOK, ThreadTypeOK
<1>1. SUFFICES ASSUME NEW s \in Sids, active'[s] # NoPlan
               PROVE  s \in legacy' \/ \E t \in Threads : pc'[t] = "mirror" /\ loc'[t].sid = s
  BY DEF ActiveIsMirrored, Gone
<1>2. ASSUME active[s] # NoPlan, s \in legacy => s \in legacy',
             \A t \in Threads : MirrorContract(t) => loc[t].sid \in legacy'
      PROVE  s \in legacy' \/ \E t \in Threads : pc'[t] = "mirror" /\ loc'[t].sid = s
  <2>1. ~Restart
    BY <1>1 DEF Restart, RuntimeRestart
  <2>. QED  BY <1>2, <2>1, WaitsAtMirror DEF ActiveIsMirrored, Gone
<1>3. ASSUME NEW t \in Threads, RegisterNegotiated(t) \/ RegisterProposed(t)
      PROVE  s \in legacy' \/ \E u \in Threads : pc'[u] = "mirror" /\ loc'[u].sid = s
  <2>1. PICK i \in Sids : /\ UNCHANGED legacy
                          /\ \E plan : active' = [active EXCEPT ![i] = plan]
                          /\ GoTo(t, "mirror") /\ loc'[t].sid = i
    <3>1. CASE RegisterNegotiated(t)
      <4>1. req[t].plan \in Plans \cup {NoPlan}
        BY DEF IInv, TypeOK, ThreadTypeOK, Requests
      <4>2. PICK i \in Sids :
              /\ Instantiate(i, req[t].plan, req[t].agent, req[t].plan,
                             NegotiatedOrigin(req[t].mode), "none")
              /\ loc' = [loc EXCEPT ![t].sid = i, ![t].hash = req[t].plan]
        BY <3>1 DEF RegisterNegotiated
      <4>3. loc' = [loc EXCEPT ![t] = [loc[t] EXCEPT !.sid = i, !.hash = req[t].plan]]
        BY <4>2
      <4>4. loc'[t].sid = i
        BY <1>0, <4>1, <4>3, FrameFields
      <4>5. UNCHANGED legacy /\ active' = [active EXCEPT ![i] = req[t].plan]
        BY <4>2 DEF Instantiate, Register
      <4>. QED  BY <3>1, <4>4, <4>5 DEF RegisterNegotiated
    <3>2. CASE RegisterProposed(t)
      <4>1. PICK i \in Sids :
              /\ loc' = [loc EXCEPT ![t] = [loc[t] EXCEPT !.sid = i]]
              /\ UNCHANGED legacy /\ active' = [active EXCEPT ![i] = req[t].plan]
        BY <3>2 DEF RegisterProposed, Instantiate, Register
      <4>2. loc'[t].sid = i
        BY <1>0, <4>1, FrameFields
      <4>. QED  BY <3>2, <4>1, <4>2 DEF RegisterProposed
    <3>. QED  BY <1>3, <3>1, <3>2
  <2>2. CASE s = i
    BY <2>1, <2>2 DEF GoTo, IInv, TypeOK, ThreadTypeOK
  <2>3. CASE s # i
    <3>1. active[s] # NoPlan
      BY <1>0, <1>1, <2>1, <2>3 DEF RuntimeTypeOK
    <3>2. \A u \in Threads : ~MirrorContract(u)
      <4>1. pc[t] = "register" /\ pc'[t] = "mirror"
        BY <1>3, <2>1 DEF RegisterNegotiated, RegisterProposed, GoTo, IInv, TypeOK, ThreadTypeOK
      <4>. QED  BY <4>1 DEF MirrorContract, Finish, GoTo, IInv, TypeOK, ThreadTypeOK
    <3>. QED  BY <1>2, <2>1, <3>1, <3>2
  <2>. QED  BY <2>2, <2>3
<1>4. ASSUME NEW t \in Threads, MirrorContract(t)
      PROVE  s \in legacy' \/ \E u \in Threads : pc'[u] = "mirror" /\ loc'[u].sid = s
  <2>1. legacy' = legacy \cup {loc[t].sid} /\ UNCHANGED active /\ pc[t] = "mirror"
    BY <1>4 DEF MirrorContract, Mirror
  <2>2. ASSUME NEW u \in Threads, MirrorContract(u) PROVE loc[u].sid \in legacy'
    BY <2>2 DEF MirrorContract, Mirror
  <2>. QED  BY <1>1, <1>2, <2>1, <2>2
<1>5. ASSUME NEW t \in Threads, ExpireContract(t) \/ UnmirrorContract(t)
      PROVE  s \in legacy' \/ \E u \in Threads : pc'[u] = "mirror" /\ loc'[u].sid = s
  <2>1. active[s] # NoPlan
    BY <1>0, <1>1, <1>5 DEF ExpireContract, Expire, UnmirrorContract, Unmirror, RuntimeTypeOK
  <2>2. s \in legacy => s \in legacy'
    <3>1. CASE ExpireContract(t)
      BY <3>1 DEF ExpireContract, Expire
    <3>2. CASE UnmirrorContract(t)
      <4>1. Gone(loc[t].sid) /\ legacy' = legacy \ {loc[t].sid}
        BY <3>2 DEF UnmirrorContract, Unmirror, ThreadEvicts, Evicted
      <4>. QED  BY <2>1, <4>1 DEF Gone
    <3>. QED  BY <1>5, <3>1, <3>2
  <2>3. ASSUME NEW u \in Threads, MirrorContract(u) PROVE loc[u].sid \in legacy'
    BY <2>3 DEF MirrorContract, Mirror
  <2>. QED  BY <1>2, <2>1, <2>2, <2>3
<1>6. ASSUME (\E i \in Sids : ContractFallsDue(i)) \/ UNCHANGED runtimeVars
      PROVE  s \in legacy' \/ \E u \in Threads : pc'[u] = "mirror" /\ loc'[u].sid = s
  <2>1. UNCHANGED <<active, legacy>>
    BY <1>6 DEF ContractFallsDue, DeadlinePasses, runtimeVars
  <2>2. ASSUME NEW u \in Threads, MirrorContract(u) PROVE loc[u].sid \in legacy'
    BY <2>2 DEF MirrorContract, Mirror
  <2>. QED  BY <1>1, <1>2, <2>1, <2>2
<1>7. CASE Restart
  BY <1>1, <1>7 DEF Restart, RuntimeRestart
<1>. QED  BY <1>3, <1>4, <1>5, <1>6, <1>7, TablesMoveOnlyIn

\* What is known of evictions is known at first, and every step keeps it.
LEMMA InitEvicts == ASSUME Init PROVE EvictionInv
<1>1. \A t \in Threads : pc[t] = "idle" /\ req[t] = NoRequest /\ loc[t] = EmptyFrame
  BY DEF Init
<1>2. ~EmptyFrame.late /\ EmptyFrame.ret = "done" /\ NoRequest.kind = "none"
  BY DEF EmptyFrame, NoRequest
<1>3. events = {} /\ \A s \in Sids : Gone(s)
  BY DEF Init, RuntimeInit, EmptyTables, Gone
<1>. QED
  BY <1>1, <1>2, <1>3 DEF EvictionInv, ThreadEvicts, LateIsGone, Evicted, Resuming, Revoking,
                          EventsHold, ActiveIsMirrored

LEMMA EvictionStep == ASSUME IInv, EvictionInv, [Next]_vars PROVE EvictionInv'
<1>1. CASE Next
  BY <1>1, ThreadsEvict, EventsStep, MirrorStep DEF EvictionInv
<1>2. CASE UNCHANGED vars
  <2>1. UNCHANGED <<pc, req, loc, active, legacy, minted, events, owner_of>>
    BY <1>2 DEF vars, runtimeVars, auditVars, historyVars, birthVars
  <2>. QED
    BY <2>1 DEF EvictionInv, ThreadEvicts, LateIsGone, Evicted, Resuming, Revoking,
                Entitled, Stream, EventsHold, ActiveIsMirrored, Gone, At
<1>. QED  BY <1>1, <1>2

\* What is known of evictions is known in every reachable state.
THEOREM Evictions == Spec => []EvictionInv
  BY InitEvicts, EvictionStep, Invariance, PTL DEF Spec

\* A request that comes after the eviction of its contract never walks the plan,
\* however the eviction is spread over the handlers' locked regions
\* (RevokedStaysRevoked).
THEOREM RevocationHolds == Spec => []RevokedStaysRevoked
<1>1. EvictionInv => RevokedStaysRevoked
  BY DEF EvictionInv, ThreadEvicts, LateIsGone, RevokedStaysRevoked, At
<1>. QED  BY <1>1, Evictions, PTL

\* The streams never say revoked or released of a contract the runtime still
\* honours (EventFollowsEviction).
THEOREM EventsFollow == Spec => []EventFollowsEviction
<1>1. EvictionInv => EventFollowsEviction
  BY DEF EvictionInv, EventsHold, EventFollowsEviction
<1>. QED  BY <1>1, Evictions, PTL

\* A revocation is written to the stream of the agent the contract was for, by
\* that agent or an operator (RevokedOnOwnersStream).
THEOREM OwnersHear == Spec => []RevokedOnOwnersStream
<1>1. EvictionInv => RevokedOnOwnersStream
  BY DEF EvictionInv, EventsHold, RevokedOnOwnersStream
<1>. QED  BY <1>1, Evictions, PTL

\* The legacy registry knows every active contract whose registration is over
\* (ActiveIsMirrored).
THEOREM Mirrored == Spec => []ActiveIsMirrored
<1>1. EvictionInv => ActiveIsMirrored
  BY DEF EvictionInv
<1>. QED  BY <1>1, Evictions, PTL

-----------------------------------------------------------------------------
(* The limit of the in-memory store.                                         *)

\* Who has been let in and is not counted yet.
Admitted == {"cached", "cached_plan", "compose"}
Pending(a) == {t \in Threads : pc[t] \in Admitted /\ req[t].agent = a}

\* What is counted and what will be.
Crowd(a) == negotiations[a] + Cardinality(Pending(a)) < Limit + Cardinality(Threads)

LEMMA PendingFinite ==
    ASSUME IsFiniteSet(Threads), NEW a
    PROVE  /\ IsFiniteSet(Pending(a)) /\ Cardinality(Pending(a)) \in Nat
           /\ Cardinality(Pending(a)) <= Cardinality(Threads) /\ Cardinality(Threads) \in Nat
<1>1. Pending(a) \in SUBSET Threads
  BY DEF Pending
<1>. HIDE DEF Pending
<1>. QED  BY <1>1, FS_Subset, FS_CardinalityType

\* A step that lets nobody in and counts nobody leaves room.
LEMMA NoneLetIn ==
    ASSUME IsFiniteSet(Threads), GateTypeOK, Limit \in Nat, NEW a \in Agents, Crowd(a),
           negotiations'[a] \in Nat, negotiations'[a] <= negotiations[a], Pending(a)' \subseteq Pending(a)
    PROVE  Crowd(a)'
<1>1. PICK P, Q : P = Pending(a) /\ Q = Pending(a)'
  OBVIOUS
<1>2. IsFiniteSet(P) /\ Cardinality(P) \in Nat /\ Cardinality(Threads) \in Nat
  BY <1>1, PendingFinite
<1>3. Q \in SUBSET P
  BY <1>1
<1>4. Cardinality(Q) \in Nat /\ Cardinality(Q) <= Cardinality(P)
  BY <1>2, <1>3, FS_Subset, FS_CardinalityType
<1>. QED  BY <1>1, <1>2, <1>4 DEF Crowd, GateTypeOK

\* Only RateAdmits lets a thread in.
LEMMA LetIn ==
    ASSUME IInv, EvictionInv, Next, NEW a, NEW t \in Pending(a)'
    PROVE  t \in Pending(a) \/ RateAdmits(t)
<1>. USE DEF At
<1>0. /\ pc \in [Threads -> Labels] /\ req \in [Threads -> Requests]
      /\ t \in Threads /\ pc'[t] \in Admitted /\ req'[t].agent = a
      /\ \A u \in Threads : ThreadEvicts(u)
  BY DEF IInv, TypeOK, ThreadTypeOK, Pending, EvictionInv
<1>1. ASSUME pc'[t] = pc[t], req'[t] = req[t] PROVE t \in Pending(a)
  BY <1>0, <1>1 DEF Pending
<1>2. ASSUME NEW u \in Threads \ {t}, Arrive(u) \/ Handle(u) PROVE t \in Pending(a)
  BY <1>0, <1>1, <1>2, ArriveEvicts, NegotiateEvicts, PresentEvicts DEF Handle, OthersAsBefore
<1>3. ~Finish(t)
  BY <1>0 DEF Finish, Admitted
<1>4. ~ \E l \in Labels \ Admitted : GoTo(t, l)
  BY <1>0 DEF GoTo
<1>5. CASE Arrive(t)
  <2>1. PICK r \in Negotiations \cup Proposals \cup Presentations : pc' = [pc EXCEPT ![t] = FirstLabel(r.kind)]
    BY <1>5 DEF Arrive
  <2>. QED  BY <1>0, <2>1 DEF FirstLabel, Admitted
<1>6. CASE Negotiate(t)
  <2>1. CASE ReadCache(t) \/ CachedPlanGone(t)
    <3>1. pc[t] \in Admitted /\ req' = req
      BY <2>1 DEF ReadCache, CachedPlanGone, GoTo, Admitted
    <3>. QED  BY <1>0, <3>1 DEF Pending
  <2>2. CASE ~(ReadCache(t) \/ CachedPlanGone(t) \/ RateAdmits(t))
    <3>1. Finish(t) \/ \E l \in {"register", "mirror", "remember", "announce", "deliver", "execute"} : GoTo(t, l)
      BY <1>6, <2>2 DEF Negotiate, GateRefuses, RateLimited, CachedPlanLives, Compose, RegisterNegotiated,
             RegisterProposed, MirrorContract, Remember, Announce, DeliverPreview, DeliverInline
    <3>. QED  BY <1>3, <1>4, <3>1 DEF Labels, Admitted
  <2>. QED  BY <2>1, <2>2
<1>7. CASE Present(t)
  <2>1. \/ Finish(t)
        \/ \E l \in {"owner", "execute", "snapshot", "expire", "walk", "lookup", "stamp_hash",
                     "stamp", "publish", "unmirror"} : GoTo(t, l)
    BY <1>7 DEF Present, EvictThen, LookupLive, LookupGone, LookupOverdue, ReadOwner, RefuseStranger,
                Execute, ExecuteGone, ExecuteOverdue, WalkSteps, WalkReenters, StampHash, Stamp,
                SnapshotTaken, SnapshotFails, ExpireContract, UnmirrorContract, Publish
  <2>. QED  BY <1>3, <1>4, <2>1 DEF Labels, Admitted
<1>8. CASE Environment \/ Drained
  <2>1. UNCHANGED <<pc, req>> \/ Restart
    BY <1>8 DEF Environment, Drained, vars, ContractFallsDue, WindowSlides, KeyExpires
  <2>2. ~Restart
    BY <1>0 DEF Restart, Admitted
  <2>. QED  BY <1>1, <2>1, <2>2
<1>. QED  BY <1>2, <1>5, <1>6, <1>7, <1>8 DEF Next, Handle

LEMMA CrowdStep ==
    ASSUME ~Durable, Limit > 0, IsFiniteSet(Threads), IInv, EvictionInv, Next, NEW a \in Agents, Crowd(a)
    PROVE  Crowd(a)'
<1>. USE DEF At
<1>0. GateTypeOK /\ Attributed /\ Limit \in Nat /\ negotiations[a] \in Nat /\ req \in [Threads -> Requests]
  BY ServerAssumption DEF IInv, Inv, TypeOK, GateTypeOK, ThreadTypeOK
<1>1. CASE \E t \in Threads : RateAdmits(t) /\ req[t].agent = a
  <2>1. negotiations' = negotiations /\ negotiations[a] < Limit
    BY <1>0, <1>1 DEF RateAdmits, OverLimit
  <2>2. PICK P : P = Pending(a)'
    OBVIOUS
  <2>3. P \in SUBSET Threads
    BY <2>2 DEF Pending
  <2>4. Cardinality(P) \in Nat /\ Cardinality(P) <= Cardinality(Threads) /\ Cardinality(Threads) \in Nat
    BY <2>3, FS_Subset, FS_CardinalityType
  <2>. QED  BY <1>0, <2>1, <2>2, <2>4 DEF Crowd
<1>2. ASSUME NEW t \in Threads, Compose(t), req[t].agent = a PROVE Crowd(a)'
  <2>1. negotiations'[a] = negotiations[a] + 1
    BY <1>0, <1>2 DEF Compose, CountNegotiation, GateTypeOK
  <2>2. PICK P, Q : P = Pending(a) /\ Q = Pending(a)'
    OBVIOUS
  <2>3. t \in P
    BY <1>2, <2>2 DEF Pending, Compose, Admitted
  <2>4. t \notin Q
    <3>1. Finish(t) \/ GoTo(t, "register")
      BY <1>2 DEF Compose
    <3>2. pc'[t] \in {"idle", "register"}
      BY <3>1 DEF Finish, GoTo, IInv, TypeOK, ThreadTypeOK
    <3>. QED  BY <2>2, <3>2 DEF Pending, Admitted
  <2>5. ASSUME NEW u \in Q PROVE u \in P
    <3>1. ~RateAdmits(u)
      BY <1>0, <2>1 DEF RateAdmits
    <3>. QED  BY <2>2, <2>5, <3>1, LetIn
  <2>6. Q \in SUBSET (P \ {t})
    BY <2>4, <2>5
  <2>7. IsFiniteSet(P) /\ Cardinality(P) \in Nat /\ Cardinality(Threads) \in Nat
    BY <2>2, PendingFinite
  <2>8. IsFiniteSet(P \ {t}) /\ Cardinality(P \ {t}) = Cardinality(P) - 1
    BY <2>3, <2>7, FS_RemoveElement
  <2>9. Cardinality(Q) \in Nat /\ Cardinality(Q) <= Cardinality(P) - 1
    BY <2>6, <2>8, FS_Subset, FS_CardinalityType
  <2>. QED  BY <1>0, <2>1, <2>2, <2>7, <2>9 DEF Crowd
<1>3. CASE ~ \E t \in Threads : (RateAdmits(t) \/ Compose(t)) /\ req[t].agent = a
  <2>1. Pending(a)' \subseteq Pending(a)
    <3>1. ASSUME NEW t \in Pending(a)' PROVE t \in Pending(a)
      <4>1. CASE RateAdmits(t)
        <5>1. t \in Threads /\ req' = req /\ req'[t].agent = a
          BY <3>1, <4>1 DEF RateAdmits, GoTo, Pending
        <5>. QED  BY <1>3, <4>1, <5>1
      <4>. QED  BY <3>1, <4>1, LetIn
    <3>. QED  BY <3>1
  <2>2. negotiations'[a] \in Nat /\ negotiations'[a] <= negotiations[a]
    <3>1. ASSUME NEW t \in Threads, Compose(t) PROVE negotiations'[a] = negotiations[a]
      BY <1>0, <1>3, <3>1 DEF Compose, CountNegotiation, GateTypeOK
    <3>2. ASSUME NEW b \in Agents, WindowSlides(b) PROVE negotiations'[a] \in Nat /\ negotiations'[a] <= negotiations[a]
      BY <1>0, <3>2 DEF WindowSlides, GateTypeOK
    <3>3. ASSUME Restart PROVE negotiations'[a] = 0
      BY <3>3 DEF Restart
    <3>4. ASSUME NEW t \in Threads, RateAdmits(t) PROVE UNCHANGED negotiations
      BY <3>4 DEF RateAdmits
    <3>5. \/ \E t \in Threads : Compose(t) \/ RateAdmits(t)
          \/ \E b \in Agents : WindowSlides(b)
          \/ Restart
          \/ UNCHANGED negotiations
      BY StoresMoveOnlyIn
         DEF GateRefuses, DeliverPreview, RefuseStranger, RegisterNegotiated, RegisterProposed,
             Remember, Announce, Execute, Stamp, Publish, KeyExpires, Quiet, gateVars
    <3>. QED  BY <1>0, <3>1, <3>2, <3>3, <3>4, <3>5
  <2>. QED  BY <1>0, <2>1, <2>2, NoneLetIn
<1>. QED  BY <1>1, <1>2, <1>3

\* The in-memory store does not keep the limit; what it keeps is that every
\* negotiation beyond it was let in by a thread of its own before the others
\* were counted (OverrunIsBounded).
THEOREM OverrunBounded ==
    ASSUME ~Durable, IsFiniteSet(Threads)
    PROVE  Spec => []OverrunIsBounded
<1>. DEFINE Room == Limit > 0 => \A a \in Agents : Crowd(a)
<1>1. ASSUME Init PROVE Room
  <2>1. SUFFICES ASSUME Limit > 0, NEW a \in Agents PROVE Crowd(a)
    OBVIOUS
  <2>2. negotiations[a] = 0 /\ Pending(a) = {}
    BY <1>1 DEF Init, Pending, Admitted
  <2>3. Cardinality(Threads) \in Nat /\ Cardinality(Pending(a)) = 0 /\ Limit \in Nat
    BY <2>2, FS_EmptySet, FS_CardinalityType, ServerAssumption
  <2>. QED  BY <2>1, <2>2, <2>3 DEF Crowd
<1>2. ASSUME IInv, EvictionInv, Room, [Next]_vars PROVE Room'
  <2>1. SUFFICES ASSUME Limit > 0, NEW a \in Agents PROVE Crowd(a)'
    OBVIOUS
  <2>2. Crowd(a)
    BY <1>2, <2>1
  <2>3. CASE Next
    BY <1>2, <2>1, <2>2, <2>3, CrowdStep
  <2>4. CASE UNCHANGED vars
    <3>1. UNCHANGED <<negotiations, pc, req>>
      BY <2>4 DEF vars, gateVars
    <3>. QED  BY <2>2, <3>1 DEF Crowd, Pending
  <2>. QED  BY <1>2, <2>3, <2>4
<1>3. ASSUME IInv, Room PROVE OverrunIsBounded
  <2>1. SUFFICES ASSUME Limit > 0, NEW a \in Agents PROVE negotiations[a] < Limit + Cardinality(Threads)
    BY DEF OverrunIsBounded
  <2>2. Cardinality(Pending(a)) \in Nat /\ Cardinality(Threads) \in Nat
    BY PendingFinite
  <2>3. negotiations[a] \in Nat /\ Limit \in Nat
    BY <1>3, ServerAssumption DEF IInv, TypeOK, GateTypeOK
  <2>. QED  BY <1>3, <2>1, <2>2, <2>3 DEF Crowd
<1>. QED  BY <1>1, <1>2, <1>3, Invariance, Evictions, PTL DEF Spec

-----------------------------------------------------------------------------
(* One idempotency key, one contract.                                        *)

\* Where keys are negotiated in turn, what is live under a key is what the cache
\* answers with, and what a negotiation is about to remember under it is the
\* only one.
KeyHeld ==
    \A x \in spawned :
        /\ x.sid \in minted /\ x.agent \in Agents /\ x.key \in Keys
        /\ ~Gone(x.sid) => idem[x.agent][x.key] = x.sid

KeyFree(t) ==
    \A x \in spawned :
        x.agent = req[t].agent /\ x.key = req[t].key /\ ~Gone(x.sid) =>
            /\ pc[t] \notin {"compose", "register", "mirror", "remember"}
            /\ pc[t] = "cached_plan" => x.sid = loc[t].sid

KeyInv == KeyHeld /\ \A t \in Threads : KeyFree(t)

\* Remember is the only step that ties an id to a key, and expiry unties both
\* (Remember, KeyExpires, Restart).
LEMMA KeyHeldStep ==
    ASSUME IInv, Next, KeyInv
    PROVE  KeyHeld'
<1>. USE DEF At
<1>0. /\ idem \in [Agents -> [Keys -> Sids \cup {NoSid}]]
      /\ \A x \in spawned : /\ x.sid \in minted' /\ (Gone(x.sid) => Gone(x.sid)')
                            /\ x.agent \in Agents /\ x.key \in Keys
                            /\ ~Gone(x.sid) => idem[x.agent][x.key] = x.sid
  BY GoneForGood DEF IInv, TypeOK, GateTypeOK, KeyInv, KeyHeld
<1>1. ASSUME NEW t \in Threads, Remember(t) PROVE KeyHeld'
  <2>. DEFINE a == req[t].agent
              k == req[t].key
              i == loc[t].sid
  <2>1. a \in Agents /\ i \in minted /\ UNCHANGED <<minted, active>> /\ pc[t] = "remember"
    BY <1>1 DEF Remember, IInv, Inv, Attributed, HoldsMinted, Holding, runtimeVars
  <2>2. CASE k \in Keys
    <3>1. /\ idem' = [idem EXCEPT ![a] = [idem[a] EXCEPT ![k] = i]]
          /\ spawned' = spawned \cup {[sid |-> i, agent |-> a, key |-> k]}
      BY <1>1, <2>2 DEF Remember
    <3>2. idem'[a][k] = i
      BY <1>0, <2>1, <2>2, <3>1
    <3>3. ASSUME NEW b \in Agents, NEW h \in Keys, b # a \/ h # k PROVE idem'[b][h] = idem[b][h]
      BY <1>0, <2>1, <2>2, <3>1, <3>3
    <3>4. ASSUME NEW x \in spawned, x.agent = a, x.key = k PROVE Gone(x.sid)
      BY <2>1, <3>4 DEF KeyInv, KeyFree
    <3>5. ASSUME NEW x \in spawned'
          PROVE  /\ x.sid \in minted' /\ x.agent \in Agents /\ x.key \in Keys
                 /\ active'[x.sid] # NoPlan => idem'[x.agent][x.key] = x.sid
      <4>1. CASE x \in spawned
        BY <1>0, <3>3, <3>4, <4>1 DEF Gone
      <4>2. CASE x = [sid |-> i, agent |-> a, key |-> k]
        BY <2>1, <2>2, <3>2, <4>2
      <4>. QED  BY <3>1, <4>1, <4>2
    <3>. QED  BY <3>5 DEF KeyHeld, Gone
  <2>3. CASE k \notin Keys
    BY <1>0, <1>1, <2>3 DEF Remember, KeyHeld, Gone
  <2>. QED  BY <2>2, <2>3
<1>2. ASSUME NEW b \in Agents, NEW h \in Keys, KeyExpires(b, h) PROVE KeyHeld'
  <2>1. /\ spawned' = {x \in spawned : x.agent # b \/ x.key # h}
        /\ \A a \in Agents, k \in Keys : a # b \/ k # h => idem'[a][k] = idem[a][k]
    BY <1>0, <1>2 DEF KeyExpires
  <2>. QED  BY <1>0, <2>1 DEF KeyHeld, Gone
<1>3. CASE Restart
  <2>1. UNCHANGED spawned /\ \A s \in minted' : Gone(s)'
    BY <1>3 DEF Restart, RuntimeRestart, Gone, IInv, TypeOK, RuntimeTypeOK
  <2>. QED  BY <1>0, <2>1 DEF KeyHeld
<1>4. ASSUME UNCHANGED <<idem, spawned>> PROVE KeyHeld'
  BY <1>0, <1>4 DEF KeyHeld, Gone
<1>5. \/ \E t \in Threads : Remember(t)
      \/ \E a \in Agents, k \in Keys : KeyExpires(a, k)
      \/ Restart
      \/ UNCHANGED <<idem, spawned>>
  BY StoresMoveOnlyIn
     DEF GateRefuses, DeliverPreview, RefuseStranger, RateAdmits, Compose, RegisterNegotiated,
         RegisterProposed, Announce, Execute, Stamp, Publish, WindowSlides, Quiet, gateVars,
         historyVars
<1>. QED  BY <1>1, <1>2, <1>3, <1>4, <1>5

\* From the miss in the cache to Remember nothing live is under the key.
Minting == {"compose", "register", "mirror", "remember"}

LEMMA KeyFreeStep ==
    ASSUME IInv, Next, KeyInv, KeysInTurn, NEW t \in Threads,
           \A u \in Threads : ThreadEvicts(u)
    PROVE  KeyFree(t)'
<1>. USE DEF At
<1>0. /\ loc \in [Threads -> Frames] /\ pc \in [Threads -> Labels] /\ req \in [Threads -> Requests]
      /\ \A x \in spawned : /\ Gone(x.sid) => active'[x.sid] = NoPlan
                            /\ x.sid \in Sids /\ x.agent \in Agents /\ x.key \in Keys
                            /\ ~Gone(x.sid) => idem[x.agent][x.key] = x.sid
  BY GoneForGood DEF IInv, TypeOK, ThreadTypeOK, RuntimeTypeOK, KeyInv, KeyHeld, Gone
<1>1. ASSUME pc'[t] \notin Minting \cup {"cached_plan"} PROVE KeyFree(t)'
  BY <1>1 DEF KeyFree, Minting
<1>2. ASSUME spawned' \subseteq spawned, pc'[t] = pc[t], req'[t] = req[t], loc'[t] = loc[t]
      PROVE  KeyFree(t)'
  BY <1>0, <1>2 DEF KeyInv, KeyFree, Gone
<1>3. CASE Arrive(t)
  <2>1. PICK r \in Negotiations \cup Proposals \cup Presentations :
          pc' = [pc EXCEPT ![t] = FirstLabel(r.kind)] /\ req' = [req EXCEPT ![t] = r]
    BY <1>3 DEF Arrive
  <2>2. pc'[t] = FirstLabel(r.kind) /\ req'[t] = r /\ UNCHANGED spawned
    BY <1>0, <1>3, <2>1 DEF Arrive, Quiet, historyVars
  <2>3. CASE r.kind = "propose"
    <3>1. r.key = NoKey
      BY <2>3 DEF Negotiations, Proposals, Presentations
    <3>. QED  BY <1>0, <2>2, <3>1, ServerAssumption DEF KeyFree
  <2>4. CASE r.kind # "propose"
    BY <1>1, <2>2, <2>4 DEF FirstLabel, Minting
  <2>. QED  BY <2>3, <2>4
<1>4. CASE ReadCache(t)
  <2>. DEFINE s == CachedSid(req[t].agent, req[t].key)
  <2>1. /\ loc' = [loc EXCEPT ![t] = [loc[t] EXCEPT !.sid = s]]
        /\ GoTo(t, IF s = NoSid THEN "compose" ELSE "cached_plan")
        /\ UNCHANGED <<spawned, active>>
    BY <1>4 DEF ReadCache, Quiet, historyVars, runtimeVars
  <2>2. s \in Sids \cup {NoSid}
    BY <1>4 DEF ReadCache, CachedSid, IInv, Inv, TypeOK, GateTypeOK, Attributed
  <2>3. loc'[t].sid = s /\ req'[t] = req[t] /\ pc'[t] = (IF s = NoSid THEN "compose" ELSE "cached_plan")
    <3>. HIDE DEF s
    <3>. QED  BY <1>0, <2>1, <2>2, FrameFields DEF GoTo
  <2>4. ASSUME NEW x \in spawned, x.agent = req[t].agent, x.key = req[t].key, ~Gone(x.sid)
        PROVE  x.sid = s /\ s # NoSid
    BY <1>0, <2>4, ServerAssumption DEF CachedSid
  <2>. HIDE DEF s
  <2>. QED  BY <2>1, <2>3, <2>4 DEF KeyFree, Gone
<1>5. CASE CachedPlanGone(t)
  <2>1. /\ pc[t] = "cached_plan" /\ Gone(loc[t].sid) /\ req'[t] = req[t]
        /\ UNCHANGED <<spawned, active>>
    BY <1>5 DEF CachedPlanGone, GoTo, Quiet, historyVars, runtimeVars
  <2>2. ASSUME NEW x \in spawned, x.agent = req[t].agent, x.key = req[t].key PROVE Gone(x.sid)
    BY <2>1, <2>2 DEF KeyInv, KeyFree
  <2>. QED  BY <2>1, <2>2 DEF KeyFree, Gone
<1>6. CASE Compose(t) \/ RegisterNegotiated(t) \/ RegisterProposed(t) \/ MirrorContract(t)
  <2>1. pc[t] \in Minting /\ UNCHANGED spawned
    BY <1>6 DEF Compose, RegisterNegotiated, RegisterProposed, MirrorContract, Minting, Quiet,
                historyVars
  <2>2. \A x \in spawned : x.agent = req[t].agent /\ x.key = req[t].key => Gone(x.sid)
    BY <2>1 DEF KeyInv, KeyFree, Minting
  <2>3. Finish(t) \/ req' = req
    BY <1>6 DEF Compose, RegisterNegotiated, RegisterProposed, MirrorContract, GoTo
  <2>4. CASE Finish(t)
    BY <1>0, <1>1, <2>4 DEF Finish, Minting
  <2>5. CASE req' = req
    BY <1>0, <2>1, <2>2, <2>5 DEF KeyFree, Gone
  <2>. QED  BY <2>3, <2>4, <2>5
<1>7. CASE \/ GateRefuses(t) \/ RateLimited(t) \/ RateAdmits(t) \/ CachedPlanLives(t)
           \/ Remember(t) \/ Announce(t) \/ DeliverPreview(t) \/ DeliverInline(t)
  <2>1. Finish(t) \/ \E l \in {"cached", "deliver", "announce", "execute"} : GoTo(t, l)
    BY <1>7 DEF GateRefuses, RateLimited, RateAdmits, CachedPlanLives, Remember, Announce,
                DeliverPreview, DeliverInline
  <2>. QED  BY <1>0, <1>1, <2>1 DEF Finish, GoTo, Minting
<1>8. CASE Present(t)
  <2>1. CASE Finish(t)
    BY <1>0, <1>1, <2>1 DEF Finish, Minting
  <2>2. CASE \E l \in {"owner", "execute", "snapshot", "expire", "walk", "lookup", "stamp_hash",
                       "stamp", "publish", "unmirror"} : GoTo(t, l)
    BY <1>0, <1>1, <2>2 DEF GoTo, Minting
  <2>3. \/ Finish(t)
        \/ \E l \in {"owner", "execute", "snapshot", "expire", "walk", "lookup", "stamp_hash",
                     "stamp", "publish", "unmirror"} : GoTo(t, l)
    BY <1>8 DEF Present, EvictThen, LookupLive, LookupGone, LookupOverdue, ReadOwner, RefuseStranger,
                Execute, ExecuteGone, ExecuteOverdue, WalkSteps, WalkReenters, StampHash, Stamp,
                SnapshotTaken, SnapshotFails, ExpireContract, UnmirrorContract, Publish
  <2>. QED  BY <2>1, <2>2, <2>3
<1>9. CASE Environment
  <2>1. CASE Restart
    BY <1>1, <2>1 DEF Restart, Minting
  <2>2. CASE ~Restart
    BY <1>2, <1>9, <2>2 DEF Environment, ContractFallsDue, WindowSlides, KeyExpires, Quiet, historyVars
  <2>. QED  BY <2>1, <2>2
<1>10. CASE Drained
  BY <1>2, <1>10 DEF Drained, vars, historyVars
<1>11. ASSUME NEW u \in Threads \ {t}, Arrive(u) \/ Handle(u) PROVE KeyFree(t)'
  <2>1. pc'[t] = pc[t] /\ req'[t] = req[t] /\ loc'[t] = loc[t]
    BY <1>11, ArriveEvicts, NegotiateEvicts, PresentEvicts DEF Handle, OthersAsBefore
  <2>2. CASE Remember(u)
    <3>1. spawned' \subseteq spawned \cup {[sid |-> loc[u].sid, agent |-> req[u].agent, key |-> req[u].key]}
      BY <2>2 DEF Remember
    <3>2. pc[u] = "remember"
      BY <2>2 DEF Remember
    <3>3. CASE Undecided(t)
      <4>1. req[t].key \in Keys => req[t].agent # req[u].agent \/ req[t].key # req[u].key
        BY <3>2, <3>3 DEF KeysInTurn, Undecided
      <4>2. \A x \in spawned' : x.agent = req[t].agent /\ x.key = req[t].key => x \in spawned
        BY <2>2, <3>1, <4>1 DEF Remember
      <4>. QED  BY <1>0, <2>1, <4>2 DEF KeyInv, KeyFree, Gone
    <3>4. CASE ~Undecided(t)
      BY <1>1, <2>1, <3>4 DEF Undecided, Minting
    <3>. QED  BY <3>3, <3>4
  <2>3. CASE ~Remember(u)
    <3>1. UNCHANGED spawned
      <4>1. CASE Arrive(u)
        BY <4>1 DEF Arrive, Quiet, historyVars
      <4>2. CASE Negotiate(u)
        BY <4>2, <2>3 DEF Negotiate, GateRefuses, RateLimited, RateAdmits, ReadCache, CachedPlanLives,
                   CachedPlanGone, Compose, RegisterNegotiated, RegisterProposed, MirrorContract,
                   Announce, DeliverPreview, DeliverInline, Quiet, historyVars
      <4>3. CASE Present(u)
        BY <4>3 DEF Present, LookupLive, LookupGone, LookupOverdue, ReadOwner, RefuseStranger,
                   Execute, ExecuteGone, ExecuteOverdue, WalkSteps, WalkReenters, StampHash, Stamp,
                   SnapshotTaken, SnapshotFails, ExpireContract, UnmirrorContract, Publish, Quiet,
                   historyVars
      <4>. QED  BY <1>11, <4>1, <4>2, <4>3 DEF Handle
    <3>. QED  BY <1>2, <2>1, <3>1
  <2>. QED  BY <2>2, <2>3
<1>. QED
  BY <1>3, <1>4, <1>5, <1>6, <1>7, <1>8, <1>9, <1>10, <1>11 DEF Next, Handle, Negotiate

LEMMA KeyInit == ASSUME Init PROVE IInv /\ EvictionInv /\ KeyInv /\ KeysInTurn
  BY InitIInv, InitEvicts DEF Init, KeyInv, KeyHeld, KeyFree, KeysInTurn, Undecided

LEMMA KeyStep ==
    ASSUME IInv, EvictionInv, KeyInv, KeysInTurn, [Next]_vars
    PROVE  KeyInv'
<1>1. CASE Next
  BY <1>1, KeyHeldStep, KeyFreeStep DEF KeyInv, EvictionInv
<1>2. CASE UNCHANGED vars
  BY <1>2 DEF vars, runtimeVars, gateVars, historyVars, KeyInv, KeyHeld, KeyFree, Gone
<1>. QED  BY <1>1, <1>2

\* While no agent negotiates twice at once under one key, it holds at most one
\* live contract per key and window, for any number of threads, releases,
\* restarts and keys that expire (OneContractPerKey); without that both requests
\* can miss the cache before either writes it (try_rcns).
THEOREM OneInTurn == InTurnSpec => []OneContractPerKey
<1> DEFINE All == IInv /\ EvictionInv /\ KeyInv /\ KeysInTurn
<1>1. Init => All
  BY KeyInit
<1>2. All /\ [Next /\ KeysInTurn']_vars => All'
  <2> SUFFICES ASSUME IInv, EvictionInv, KeyInv, KeysInTurn, [Next /\ KeysInTurn']_vars
               PROVE  All'
    OBVIOUS
  <2>1. [Next]_vars
    OBVIOUS
  <2>2. KeysInTurn'
    BY DEF KeysInTurn, Undecided, vars
  <2>. QED  BY <2>1, <2>2, IInvStep, EvictionStep, KeyStep
<1>3. All => OneContractPerKey
  BY DEF KeyInv, KeyHeld, OneContractPerKey
<1>. QED  BY <1>1, <1>2, <1>3, PTL DEF InTurnSpec

\* A server with one thread is one of these (OneContractPerKey).
THEOREM OneAtATime ==
    ASSUME \A t, u \in Threads : t = u
    PROVE  Spec => []OneContractPerKey
<1>1. KeysInTurn
  BY DEF KeysInTurn
<1>2. ASSUME IInv, EvictionInv, KeyInv, [Next]_vars PROVE KeyInv'
  BY <1>1, <1>2, KeyStep
<1>3. Init => KeyInv
  BY KeyInit
<1>4. KeyInv => OneContractPerKey
  BY DEF KeyInv, KeyHeld, OneContractPerKey
<1>. QED  BY <1>2, <1>3, <1>4, Invariance, Evictions, PTL DEF Spec
=================================================================================
