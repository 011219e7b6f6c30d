----------------------------- MODULE ContractServer -----------------------------
(***************************************************************************)
(* Contract negotiation and use, as the connection threads of              *)
(* server/main.py run it: the RCNS gate (server/rcns_gate.py), explicit    *)
(* PROPOSE, the Synthesis-Id path of the dispatcher, REVOKE                *)
(* target=contract and SUSPEND (server/methods.py), all over the tables of *)
(* SynthesisRuntime.  A step of a thread is one locked region, one store   *)
(* write, or one stretch of local code; threads interleave between steps.  *)
(***************************************************************************)
EXTENDS SynthesisRuntime

CONSTANTS
    Threads,         \* connection threads; each serves one request at a time
    Kinds,           \* the request kinds clients send
    Modes,           \* values of the Allow-RCNS header: "true", "optimistic"
    Headers,         \* request headers that present a contract
    Keys, NoKey,     \* idempotency keys
    NoSid,
    Operators,       \* agents that declare inspect:all
    Scoped,          \* agents that declare rcns:negotiate
    Trusted,         \* agents whose trust tier meets min_trust_tier
    Composable,      \* the plans some composition policy can produce
    Durable,         \* state_backend = "sqlite"
    Limit,           \* max_negotiations_per_minute; 0 disables the limiter
    RecursionLimit,  \* bound: nested dispatches before Python gives up
    MaxRequests,     \* bound: requests served in a behaviour
    MaxRestarts      \* bound: daemon restarts in a behaviour

ASSUME ServerAssumption ==
    /\ Kinds \subseteq {"negotiate", "propose", "invoke", "revoke", "suspend"}
    /\ Modes \subseteq {"true", "optimistic"}
    /\ Headers \subseteq {"Contract-Synthesized", "Synthesis-Id"}
    /\ NoKey \notin Keys
    /\ NoSid \notin Sids
    /\ Operators \subseteq Agents
    /\ Scoped \subseteq Agents
    /\ Trusted \subseteq Agents
    /\ Composable \subseteq Plans
    /\ Durable \in BOOLEAN
    /\ Limit \in Nat
    /\ RecursionLimit \in Nat
    /\ MaxRequests \in Nat
    /\ MaxRestarts \in Nat

VARIABLES
    pc,            \* where each thread is in its handler
    req,           \* the request it serves
    loc,           \* its local variables
    served,        \* requests accepted so far
    negotiations,  \* entries in each agent's rolling rate-limit window
    idem,          \* idempotency cache: agent, key -> synthesis_id
    events,        \* rcns_* lines of the lifecycle streams (on disk)
    stamps,        \* contract fields of the Attribution-Records written
    replies,       \* 461 and 464 responses sent
    owner_of,      \* history: whom each id was negotiated for,
    plan_of,       \*          with which contract,
    from_of,       \*          and how
    ran,           \* history: <<agent, id>> of every plan walk
    spawned,       \* history: contracts negotiated under a key still in its window
    restarts

gateVars    == <<negotiations, idem>>
auditVars   == <<events, stamps>>
birthVars   == <<owner_of, plan_of, from_of>>
historyVars == <<birthVars, ran, spawned, restarts>>
vars == <<runtimeVars, pc, req, loc, served, gateVars, auditVars, replies, historyVars>>

-----------------------------------------------------------------------------
(* Requests and thread-local state.                                          *)

Labels == {"idle", "gate", "cached", "cached_plan", "compose", "register", "mirror",
           "remember", "announce", "deliver", "lookup", "owner", "execute", "walk",
           "stamp_hash", "stamp", "snapshot", "expire", "unmirror", "publish"}

\* Where a handler goes on after an eviction.
Returns == {"done", "expire", "publish", "stamp_hash"}

Requests ==
    [kind : Kinds \cup {"none"}, agent : Agents \cup {Nobody}, sid : Sids \cup {NoSid},
     plan : Plans \cup {NoPlan}, key : Keys \cup {NoKey}, mode : Modes \cup {"none"},
     header : Headers \cup {"none"}]

Frames ==
    [sid : Sids \cup {NoSid}, seen : Agents \cup {Nobody}, hash : Plans \cup {NoPlan},
     status : {200, 404}, existed : BOOLEAN, ret : Returns,
     depth : 0..(RecursionLimit + 1), late : BOOLEAN]

NoRequest == [kind |-> "none", agent |-> Nobody, sid |-> NoSid, plan |-> NoPlan,
              key |-> NoKey, mode |-> "none", header |-> "none"]

EmptyFrame == [sid |-> NoSid, seen |-> Nobody, hash |-> NoPlan,
               status |-> 200, existed |-> FALSE, ret |-> "done", depth |-> 0,
               late |-> FALSE]

\* A negotiation names an endpoint and perhaps an idempotency key.
Negotiations ==
    [kind : {"negotiate"}, agent : Agents, sid : {NoSid}, plan : Plans,
     key : Keys \cup {NoKey}, mode : Modes, header : {"none"}]

\* A PROPOSE that no policy can fulfil is a 463 and leaves no trace here.
Proposals ==
    [kind : {"propose"}, agent : Agents, sid : {NoSid}, plan : Composable,
     key : {NoKey}, mode : {"none"}, header : {"none"}]

\* Ids reach clients in 461 and 263 replies and in DISCOVER /contracts listings.
Presentations ==
    [kind : {"invoke"}, agent : Agents, sid : minted, plan : {NoPlan},
     key : {NoKey}, mode : {"none"}, header : Headers]
    \cup
    [kind : {"revoke", "suspend"}, agent : Agents, sid : minted, plan : {NoPlan},
     key : {NoKey}, mode : {"none"}, header : {"none"}]

FirstLabel(kind) ==
    CASE kind = "negotiate" -> "gate"
      [] kind = "propose"   -> "register"
      [] OTHER              -> "lookup"

\* The two answers that carry a contract id or refuse one.
Refusal464(sid)       == [status |-> 464, sid |-> sid, plan |-> NoPlan]
Preview461(sid, plan) == [status |-> 461, sid |-> sid, plan |-> plan]

Event(type, sid, stream, actor) ==
    [type |-> type, sid |-> sid, stream |-> stream, actor |-> actor]

EventTypes == {"rcns_propose_accepted", "rcns_revoke", "rcns_release"}

Events ==
    [type : EventTypes, sid : Sids \cup {NoSid}, stream : Agents \cup {Nobody},
     actor : Agents \cup {Nobody}]

Stamps ==
    [sid : Sids \cup {NoSid}, hash : Plans \cup {NoPlan}, from : Origins, status : {200, 404}]

Replies ==
    [status : {461, 464}, sid : Sids \cup {NoSid}, plan : Plans \cup {NoPlan}]

Spawns == [sid : Sids \cup {NoSid}, agent : Agents \cup {Nobody}, key : Keys \cup {NoKey}]

ThreadTypeOK ==
    /\ pc  \in [Threads -> Labels]
    /\ req \in [Threads -> Requests]
    /\ loc \in [Threads -> Frames]
    /\ served \in 0..MaxRequests

GateTypeOK ==
    /\ negotiations \in [Agents -> Nat]
    /\ idem \in [Agents -> [Keys -> Sids \cup {NoSid}]]

AuditTypeOK == events \subseteq Events /\ stamps \subseteq Stamps /\ replies \subseteq Replies

HistoryTypeOK ==
    /\ owner_of \in [Sids -> Agents \cup {Nobody}]
    /\ plan_of  \in [Sids -> Plans \cup {NoPlan}]
    /\ from_of  \in [Sids -> Origins]
    /\ ran \subseteq (Agents \cup {Nobody}) \X (Sids \cup {NoSid})
    /\ spawned \subseteq Spawns
    /\ restarts \in 0..MaxRestarts

TypeOK == RuntimeTypeOK /\ ThreadTypeOK /\ GateTypeOK /\ AuditTypeOK /\ HistoryTypeOK

Init ==
    /\ RuntimeInit
    /\ pc  = [t \in Threads |-> "idle"]
    /\ req = [t \in Threads |-> NoRequest]
    /\ loc = [t \in Threads |-> EmptyFrame]
    /\ served = 0
    /\ negotiations = [a \in Agents |-> 0]
    /\ idem = [a \in Agents |-> [k \in Keys |-> NoSid]]
    /\ events = {} /\ stamps = {} /\ replies = {}
    /\ owner_of = [s \in Sids |-> Nobody]
    /\ plan_of  = [s \in Sids |-> NoPlan]
    /\ from_of  = [s \in Sids |-> "propose-explicit"]
    /\ ran = {} /\ spawned = {}
    /\ restarts = 0

-----------------------------------------------------------------------------
(* Control of one thread.                                                    *)

At(t, label) == pc[t] = label

GoTo(t, label) ==
    /\ pc' = [pc EXCEPT ![t] = label]
    /\ UNCHANGED <<req, served>>

\* The response is sent (or the thread dies) and the connection closes.
Finish(t) ==
    /\ pc'  = [pc EXCEPT ![t] = "idle"]
    /\ req' = [req EXCEPT ![t] = NoRequest]
    /\ loc' = [loc EXCEPT ![t] = EmptyFrame]
    /\ UNCHANGED served

Quiet == UNCHANGED <<gateVars, auditVars, replies, historyVars>>

\* Bound: Sids is finite where new_synthesis_id() is not; requests that may mint
\* an id arrive only while one is left for each of them.
IdsLeft ==
    Cardinality(minted)
      + Cardinality({u \in Threads : req[u].kind \in {"negotiate", "propose"}})
      < Cardinality(Sids)

Arrive(t) ==
    /\ At(t, "idle")
    /\ served < MaxRequests
    /\ served' = served + 1
    /\ \E r \in Negotiations \cup Proposals \cup Presentations :
        /\ r.kind \in Kinds
        /\ r.kind \in {"negotiate", "propose"} => IdsLeft
        /\ pc'  = [pc EXCEPT ![t] = FirstLabel(r.kind)]
        /\ req' = [req EXCEPT ![t] = r]
        /\ loc' = [loc EXCEPT ![t] = [EmptyFrame EXCEPT
                     !.sid = r.sid,
                     !.late = r.kind = "invoke" /\ Gone(r.sid)]]
    /\ Quiet /\ UNCHANGED runtimeVars

-----------------------------------------------------------------------------
(* try_rcns: the locks, the limiter, the idempotency cache.                  *)

MayNegotiate(a) == a \in Scoped \cap Trusted

\* Lock 3 answers 262; lock 4 answers 464.
GateRefuses(t) ==
    /\ At(t, "gate")
    /\ ~MayNegotiate(req[t].agent)
    /\ Finish(t)
    /\ replies' = IF req[t].agent \in Scoped
                  THEN replies \cup {Refusal464(NoSid)}
                  ELSE replies
    /\ UNCHANGED <<runtimeVars, gateVars, auditVars, historyVars>>

\* Mutant of OverLimit: off by one.
OverLimitLate(a) == Limit > 0 /\ negotiations[a] > Limit

OverLimit(a) == Limit > 0 /\ negotiations[a] >= Limit

\* 429; neither backend records anything.
RateLimited(t) ==
    /\ At(t, "gate")
    /\ MayNegotiate(req[t].agent)
    /\ OverLimit(req[t].agent)
    /\ Finish(t)
    /\ Quiet /\ UNCHANGED runtimeVars

CountNegotiation(a) ==
    negotiations' = [negotiations EXCEPT ![a] = @ + 1]

\* The SQLite store checks and reserves in one transaction; the in-memory
\* limiter only checks here and records after composing.
RateAdmits(t) ==
    /\ At(t, "gate")
    /\ MayNegotiate(req[t].agent)
    /\ ~OverLimit(req[t].agent)
    /\ IF Durable /\ Limit > 0
       THEN CountNegotiation(req[t].agent)
       ELSE UNCHANGED negotiations
    /\ GoTo(t, "cached")
    /\ UNCHANGED <<runtimeVars, loc, idem, auditVars, replies, historyVars>>

\* Mutant of CachedSid: the cache is never consulted.
CachedSidMissed(a, k) == NoSid

CachedSid(a, k) == IF k \in Keys THEN idem[a][k] ELSE NoSid

ReadCache(t) ==
    /\ At(t, "cached")
    /\ LET s == CachedSid(req[t].agent, req[t].key)
       IN  /\ loc' = [loc EXCEPT ![t].sid = s]
           /\ GoTo(t, IF s = NoSid THEN "compose" ELSE "cached_plan")
    /\ Quiet /\ UNCHANGED runtimeVars

\* Cached ids name RCNS contracts, which have no deadline: get() cannot evict.
CachedPlanLives(t) ==
    /\ At(t, "cached_plan")
    /\ ~Gone(loc[t].sid)
    /\ loc' = [loc EXCEPT ![t].hash = contract_hashes[loc[t].sid]]
    /\ GoTo(t, "deliver")
    /\ Quiet /\ UNCHANGED runtimeVars

CachedPlanGone(t) ==
    /\ At(t, "cached_plan")
    /\ Gone(loc[t].sid)
    /\ GoTo(t, "compose")
    /\ Quiet /\ UNCHANGED <<runtimeVars, loc>>

\* attempt_synthesis reads no shared state; the in-memory limiter records the
\* negotiation whether or not a plan came out of it.
Compose(t) ==
    /\ At(t, "compose")
    /\ IF Durable THEN UNCHANGED negotiations ELSE CountNegotiation(req[t].agent)
    /\ \/ /\ req[t].plan \in Composable
          /\ GoTo(t, "register")
          /\ UNCHANGED <<loc, replies>>
       \/ /\ req[t].plan \notin Composable
          /\ Finish(t)
          /\ replies' = replies \cup {Refusal464(NoSid)}
    /\ UNCHANGED <<runtimeVars, idem, auditVars, historyVars>>

-----------------------------------------------------------------------------
(* instantiate() and what follows it.                                        *)

\* instantiate()'s locked block, with the birth of the contract on record.
Instantiate(s, plan, owner, hash, from, due) ==
    /\ Register(s, plan, owner, hash, from, due)
    /\ owner_of' = [owner_of EXCEPT ![s] = owner]
    /\ plan_of'  = [plan_of EXCEPT ![s] = plan]
    /\ from_of'  = [from_of EXCEPT ![s] = from]

NegotiatedOrigin(mode) ==
    IF mode = "optimistic" THEN "rcns-optimistic" ELSE "rcns-confirmed"

RegisterNegotiated(t) ==
    /\ At(t, "register")
    /\ req[t].kind = "negotiate"
    /\ \E s \in Sids :
        /\ Instantiate(s, req[t].plan, req[t].agent, req[t].plan,
                       NegotiatedOrigin(req[t].mode), "none")
        /\ loc' = [loc EXCEPT ![t].sid = s, ![t].hash = req[t].plan]
    /\ GoTo(t, "mirror")
    /\ UNCHANGED <<gateVars, auditVars, replies, ran, spawned, restarts>>

\* handle_propose passes no originator and no hash; compute_expiration may or
\* may not grant a deadline, depending on the [synthesis] configuration.
RegisterProposed(t) ==
    /\ At(t, "register")
    /\ req[t].kind = "propose"
    /\ \E s \in Sids, due \in {"none", "ahead"} :
        /\ Instantiate(s, req[t].plan, Nobody, NoPlan, "propose-explicit", due)
        /\ loc' = [loc EXCEPT ![t].sid = s]
    /\ GoTo(t, "mirror")
    /\ UNCHANGED <<gateVars, auditVars, replies, ran, spawned, restarts>>

MirrorContract(t) ==
    /\ At(t, "mirror")
    /\ Mirror(loc[t].sid)
    /\ \/ req[t].kind = "negotiate" /\ GoTo(t, "remember") /\ UNCHANGED loc
       \/ req[t].kind = "propose" /\ Finish(t)
    /\ Quiet

\* Mutant of Remember: the cache is keyed by the idempotency key alone.
RememberForEveryone(t) ==
    /\ At(t, "remember")
    /\ LET k == req[t].key
           s == loc[t].sid
       IN  IF k \in Keys
           THEN /\ idem' = [a \in Agents |-> [idem[a] EXCEPT ![k] = s]]
                /\ spawned' = spawned \cup {[sid |-> s, agent |-> req[t].agent, key |-> k]}
           ELSE UNCHANGED <<idem, spawned>>
    /\ GoTo(t, "announce")
    /\ UNCHANGED <<runtimeVars, loc, negotiations, auditVars, replies, birthVars, ran, restarts>>

Remember(t) ==
    /\ At(t, "remember")
    /\ LET a == req[t].agent
           k == req[t].key
           s == loc[t].sid
       IN  IF k \in Keys
           THEN /\ idem' = [idem EXCEPT ![a][k] = s]
                /\ spawned' = spawned \cup {[sid |-> s, agent |-> a, key |-> k]}
           ELSE UNCHANGED <<idem, spawned>>
    /\ GoTo(t, "announce")
    /\ UNCHANGED <<runtimeVars, loc, negotiations, auditVars, replies, birthVars, ran, restarts>>

\* The audit write is best effort: its failure is swallowed.
Announce(t) ==
    /\ At(t, "announce")
    /\ \/ events' = events \cup {Event("rcns_propose_accepted", loc[t].sid,
                                       req[t].agent, req[t].agent)}
       \/ UNCHANGED events
    /\ GoTo(t, "deliver")
    /\ UNCHANGED <<runtimeVars, loc, gateVars, stamps, replies, historyVars>>

\* Confirm-first: the preview is built from the request's method and path.
DeliverPreview(t) ==
    /\ At(t, "deliver")
    /\ req[t].mode = "true"
    /\ Finish(t)
    /\ replies' = replies \cup {Preview461(loc[t].sid, req[t].plan)}
    /\ UNCHANGED <<runtimeVars, gateVars, auditVars, historyVars>>

DeliverInline(t) ==
    /\ At(t, "deliver")
    /\ req[t].mode = "optimistic"
    /\ GoTo(t, "execute")
    /\ Quiet /\ UNCHANGED <<runtimeVars, loc>>

-----------------------------------------------------------------------------
(* Presenting an id: the dispatcher's Synthesis-Id path, REVOKE and SUSPEND  *)
(* all begin with runtime.get().                                             *)

\* Evict a contract whose deadline get() found passed, then go on at `ret`.
EvictThen(t, ret) ==
    /\ loc' = [loc EXCEPT ![t].ret = ret]
    /\ GoTo(t, "expire")

LookupLive(t) ==
    /\ At(t, "lookup")
    /\ Live(loc[t].sid)
    /\ GoTo(t, "owner")
    /\ Quiet /\ UNCHANGED <<runtimeVars, loc>>

\* 404.  In a nested dispatch the 404 fails the outer plan's step instead.
\* SUSPEND does not stop here: it expires the id whatever get() said.
LookupGone(t) ==
    /\ At(t, "lookup")
    /\ Gone(loc[t].sid)
    /\ \/ /\ req[t].kind = "suspend"
          /\ EvictThen(t, "publish")
       \/ /\ req[t].kind = "invoke" /\ loc[t].depth > 0
          /\ loc' = [loc EXCEPT ![t].status = 404]
          /\ GoTo(t, "stamp_hash")
       \/ /\ req[t].kind # "suspend" /\ loc[t].depth = 0
          /\ Finish(t)
    /\ Quiet /\ UNCHANGED runtimeVars

LookupOverdue(t) ==
    /\ At(t, "lookup")
    /\ Overdue(loc[t].sid)
    /\ \/ /\ req[t].kind = "suspend"
          /\ EvictThen(t, "expire")
       \/ /\ req[t].kind = "invoke" /\ loc[t].depth > 0
          /\ loc' = [loc EXCEPT ![t].status = 404, ![t].ret = "stamp_hash"]
          /\ GoTo(t, "expire")
       \/ /\ req[t].kind # "suspend" /\ loc[t].depth = 0
          /\ EvictThen(t, "done")
    /\ Quiet /\ UNCHANGED runtimeVars

\* Mutant of Stranger: the operator override of REVOKE, applied to invocation.
StrangerUnlessOperator(t) ==
    /\ originating[loc[t].sid] \notin {Nobody, req[t].agent}
    /\ req[t].agent \notin Operators

\* originating_agent_id() reads None both for an unscoped contract and for one
\* evicted since the lookup.
Stranger(t) == originating[loc[t].sid] \notin {Nobody, req[t].agent}

ReadOwner(t) ==
    /\ At(t, "owner")
    /\ loc' = [loc EXCEPT ![t].seen = originating[loc[t].sid],
                          ![t].ret  = IF req[t].kind = "suspend" THEN "publish" ELSE @]
    /\ \/ req[t].kind = "invoke" /\ ~Stranger(t) /\ GoTo(t, "execute")
       \/ /\ req[t].kind = "revoke"
          /\ Stranger(t) => req[t].agent \in Operators
          /\ GoTo(t, "snapshot")
       \/ req[t].kind = "suspend" /\ GoTo(t, "expire")
    /\ Quiet /\ UNCHANGED runtimeVars

\* 464 contract-not-yours to an invoker, 403 to a revoker.
RefuseStranger(t) ==
    /\ At(t, "owner")
    /\ Stranger(t)
    /\ \/ req[t].kind = "invoke" /\ replies' = replies \cup {Refusal464(loc[t].sid)}
       \/ req[t].kind = "revoke" /\ req[t].agent \notin Operators /\ UNCHANGED replies
    /\ Finish(t)
    /\ UNCHANGED <<runtimeVars, gateVars, auditVars, historyVars>>

-----------------------------------------------------------------------------
(* runtime.execute() and the walk of the plan's steps.                       *)

\* From here on the thread holds the plan itself: eviction cannot stop it.
Execute(t) ==
    /\ At(t, "execute")
    /\ Live(loc[t].sid)
    /\ ran' = ran \cup {<<req[t].agent, loc[t].sid>>}
    /\ GoTo(t, "walk")
    /\ UNCHANGED <<runtimeVars, loc, gateVars, auditVars, replies, birthVars, spawned, restarts>>

\* execute() answers 404 itself; the response is stamped all the same.
ExecuteGone(t) ==
    /\ At(t, "execute")
    /\ Gone(loc[t].sid)
    /\ loc' = [loc EXCEPT ![t].status = 404]
    /\ GoTo(t, IF req[t].kind = "invoke" THEN "stamp_hash" ELSE "stamp")
    /\ Quiet /\ UNCHANGED runtimeVars

ExecuteOverdue(t) ==
    /\ At(t, "execute")
    /\ Overdue(loc[t].sid)
    /\ loc' = [loc EXCEPT ![t].status = 404, ![t].ret = "stamp_hash"]
    /\ GoTo(t, "expire")
    /\ Quiet /\ UNCHANGED runtimeVars

\* _build_step_request drops the Synthesis-Id header and no other, so a step
\* dispatched under Contract-Synthesized presents the contract again.
StepsReenter(t) == req[t].header = "Contract-Synthesized"

WalkSteps(t) ==
    /\ At(t, "walk")
    /\ ~StepsReenter(t)
    /\ GoTo(t, IF req[t].kind = "invoke" THEN "stamp_hash" ELSE "stamp")
    /\ Quiet /\ UNCHANGED <<runtimeVars, loc>>

\* Mutant of WalkReenters: nothing stops the recursion.
WalkReentersUnbounded(t) ==
    /\ At(t, "walk")
    /\ StepsReenter(t)
    /\ loc' = [loc EXCEPT ![t].depth = @ + 1]
    /\ GoTo(t, "lookup")
    /\ Quiet /\ UNCHANGED runtimeVars

\* The nested dispatch; RecursionError kills the thread without a response.
WalkReenters(t) ==
    /\ At(t, "walk")
    /\ StepsReenter(t)
    /\ \/ /\ loc[t].depth < RecursionLimit
          /\ loc' = [loc EXCEPT ![t].depth = @ + 1]
          /\ GoTo(t, "lookup")
       \/ /\ loc[t].depth >= RecursionLimit
          /\ Finish(t)
    /\ Quiet /\ UNCHANGED runtimeVars

-----------------------------------------------------------------------------
(* Attribution: the side tables are read after the walk.                     *)

StampHash(t) ==
    /\ At(t, "stamp_hash")
    /\ loc' = [loc EXCEPT ![t].hash = contract_hashes[loc[t].sid]]
    /\ GoTo(t, "stamp")
    /\ Quiet /\ UNCHANGED runtimeVars

\* An invocation reads the origin table; the gate writes its mode down.
Stamp(t) ==
    /\ At(t, "stamp")
    /\ stamps' = stamps \cup
         {[sid |-> loc[t].sid, hash |-> loc[t].hash, status |-> loc[t].status,
           from |-> IF req[t].kind = "invoke" THEN origin[loc[t].sid] ELSE "rcns-optimistic"]}
    /\ Finish(t)
    /\ UNCHANGED <<runtimeVars, gateVars, events, replies, historyVars>>

-----------------------------------------------------------------------------
(* Eviction and the audit event that follows it.                             *)

\* Mutant of SnapshotTaken: the event is written and the eviction forgotten.
SnapshotSkipsExpire(t) ==
    /\ At(t, "snapshot")
    /\ Live(loc[t].sid)
    /\ GoTo(t, "publish")
    /\ Quiet /\ UNCHANGED <<runtimeVars, loc>>

\* Mutant of SnapshotTaken: the plan read at the lookup is used again.
SnapshotFromLookup(t) ==
    /\ At(t, "snapshot")
    /\ EvictThen(t, "publish")
    /\ Quiet /\ UNCHANGED runtimeVars

\* REVOKE re-reads the plan for its audit snapshot.
SnapshotTaken(t) ==
    /\ At(t, "snapshot")
    /\ Live(loc[t].sid)
    /\ EvictThen(t, "publish")
    /\ Quiet /\ UNCHANGED runtimeVars

\* The plan is gone by now: an AttributeError kills the thread.
SnapshotFails(t) ==
    /\ At(t, "snapshot")
    /\ \/ Gone(loc[t].sid) /\ Finish(t)
       \/ Overdue(loc[t].sid) /\ EvictThen(t, "done")
    /\ Quiet /\ UNCHANGED runtimeVars

ExpireContract(t) ==
    /\ At(t, "expire")
    /\ Expire(loc[t].sid)
    /\ loc' = [loc EXCEPT ![t].existed = ~Gone(loc[t].sid)]
    /\ GoTo(t, "unmirror")
    /\ Quiet

\* Mutant of UnmirrorContract: the return point is not moved on.
UnmirrorAgain(t) ==
    /\ At(t, "unmirror")
    /\ Unmirror(loc[t].sid)
    /\ \/ loc[t].ret = "done" /\ Finish(t)
       \/ loc[t].ret # "done" /\ GoTo(t, loc[t].ret) /\ UNCHANGED loc
    /\ Quiet

\* expire() returns True when either table held the id.
UnmirrorContract(t) ==
    /\ At(t, "unmirror")
    /\ Unmirror(loc[t].sid)
    /\ LET known == loc[t].existed \/ loc[t].sid \in legacy
       IN  \/ loc[t].ret = "done" /\ Finish(t)
           \/ /\ loc[t].ret = "expire"
              /\ loc' = [loc EXCEPT ![t].ret = "publish"]
              /\ GoTo(t, "expire")
           \/ /\ loc[t].ret \in {"publish", "stamp_hash"}
              /\ loc' = [loc EXCEPT ![t].existed = known]
              /\ GoTo(t, loc[t].ret)
    /\ Quiet

Stream(t) == IF loc[t].seen # Nobody THEN loc[t].seen ELSE req[t].agent

\* REVOKE ignores expire()'s result, SUSPEND acts on it.  A failing store
\* raises out of the handler: no event and no response.
Publish(t) ==
    /\ At(t, "publish")
    /\ \/ /\ req[t].kind = "revoke"
          /\ events' = events \cup {Event("rcns_revoke", loc[t].sid, Stream(t), req[t].agent)}
       \/ /\ req[t].kind = "suspend" /\ loc[t].existed
          /\ events' = events \cup {Event("rcns_release", loc[t].sid, Stream(t), req[t].agent)}
       \/ UNCHANGED events
    /\ Finish(t)
    /\ UNCHANGED <<runtimeVars, gateVars, stamps, replies, historyVars>>

-----------------------------------------------------------------------------
(* The environment: clocks and restarts.                                     *)

ContractFallsDue(s) ==
    /\ DeadlinePasses(s)
    /\ Quiet /\ UNCHANGED <<pc, req, loc, served>>

\* The oldest entry leaves an agent's 60 s window.
WindowSlides(a) ==
    /\ negotiations[a] > 0
    /\ negotiations' = [negotiations EXCEPT ![a] = @ - 1]
    /\ UNCHANGED <<runtimeVars, pc, req, loc, served, idem, auditVars, replies, historyVars>>

\* idempotency_window_seconds pass.
KeyExpires(a, k) ==
    /\ idem[a][k] # NoSid
    /\ idem' = [idem EXCEPT ![a][k] = NoSid]
    /\ spawned' = {x \in spawned : x.agent # a \/ x.key # k}
    /\ UNCHANGED <<runtimeVars, pc, req, loc, served, negotiations, auditVars, replies,
                   birthVars, ran, restarts>>

\* Everything in memory is lost; the SQLite file and the audit files are not.
Restart ==
    /\ restarts < MaxRestarts
    /\ restarts' = restarts + 1
    /\ RuntimeRestart
    /\ pc'  = [t \in Threads |-> "idle"]
    /\ req' = [t \in Threads |-> NoRequest]
    /\ loc' = [t \in Threads |-> EmptyFrame]
    /\ IF Durable
       THEN UNCHANGED gateVars
       ELSE /\ negotiations' = [a \in Agents |-> 0]
            /\ idem' = [a \in Agents |-> [k \in Keys |-> NoSid]]
    /\ UNCHANGED <<served, auditVars, replies, birthVars, ran, spawned>>

\* Every request of the behaviour has been served.
Drained ==
    /\ served = MaxRequests \/ ~IdsLeft
    /\ \A t \in Threads : At(t, "idle")
    /\ UNCHANGED vars

Negotiate(t) ==
    \/ GateRefuses(t) \/ RateLimited(t) \/ RateAdmits(t)
    \/ ReadCache(t) \/ CachedPlanLives(t) \/ CachedPlanGone(t)
    \/ Compose(t)
    \/ RegisterNegotiated(t) \/ RegisterProposed(t) \/ MirrorContract(t)
    \/ Remember(t) \/ Announce(t) \/ DeliverPreview(t) \/ DeliverInline(t)

Present(t) ==
    \/ LookupLive(t) \/ LookupGone(t) \/ LookupOverdue(t)
    \/ ReadOwner(t) \/ RefuseStranger(t)
    \/ Execute(t) \/ ExecuteGone(t) \/ ExecuteOverdue(t)
    \/ WalkSteps(t) \/ WalkReenters(t) \/ StampHash(t) \/ Stamp(t)
    \/ SnapshotTaken(t) \/ SnapshotFails(t)
    \/ ExpireContract(t) \/ UnmirrorContract(t) \/ Publish(t)

Handle(t) == Negotiate(t) \/ Present(t)

Environment ==
    \/ \E s \in Sids : ContractFallsDue(s)
    \/ \E a \in Agents : WindowSlides(a)
    \/ \E a \in Agents, k \in Keys : KeyExpires(a, k)
    \/ Restart

Next ==
    \/ \E t \in Threads : Arrive(t) \/ Handle(t)
    \/ Environment
    \/ Drained

Spec == Init /\ [][Next]_vars

\* A connection thread is scheduled until its handler returns.
FairSpec == Spec /\ \A t \in Threads : WF_vars(Handle(t))
-----------------------------------------------------------------------------
(* Properties.                                                               *)

\* A plan only ever runs for the agent its contract was negotiated for, however
\* lookup, ownership check and execution interleave with evictions
\* (the contract-not-yours check of _dispatch_inner).
ContractIsolation ==
    \A use \in ran : owner_of[use[2]] \in {use[1], Nobody}

\* A request that arrives after the contract was evicted never walks its plan:
\* REVOKE and SUSPEND are final (docs/rcns.md, "revoked = gone").
RevokedStaysRevoked ==
    \A t \in Threads : At(t, "walk") => ~loc[t].late

\* An audit line that says a contract was revoked or released is never written
\* while the runtime still honours the contract (_revoke_contract, handle_suspend).
EventFollowsEviction ==
    \A e \in events : e.type # "rcns_propose_accepted" => Gone(e.sid)

\* A rcns_revoke line lands on the stream of the agent the contract belonged to,
\* although the owner was read in an earlier locked region (_revoke_contract).
RevokedOnOwnersStream ==
    \A e \in events :
        e.type = "rcns_revoke" =>
            /\ owner_of[e.sid] \in {e.stream, Nobody}
            /\ e.actor \in Operators \cup {owner_of[e.sid]} \/ owner_of[e.sid] = Nobody

\* Once its registration is over, an active contract is in the legacy registry,
\* which the soft-deny gate of main.py consults in its stead.
ActiveIsMirrored ==
    \A s \in Sids :
        ~Gone(s) => \/ s \in legacy
                    \/ \E t \in Threads : At(t, "mirror") /\ loc[t].sid = s

\* A cached id always answers with a contract of the agent that asks: the key is
\* scoped to the agent, across restarts of the daemon too (try_rcns, rcns_state.py).
CacheNamesOwnContract ==
    \A a \in Agents, k \in Keys :
        idem[a][k] # NoSid => idem[a][k] \in minted /\ owner_of[idem[a][k]] = a

\* No agent has more than the configured number of negotiations in one window.
WithinNegotiationLimit ==
    Limit > 0 => \A a \in Agents : negotiations[a] <= Limit

\* The in-memory limiter checks before composing and counts afterwards, so
\* threads that were all admitted by the last free place overrun the limit; but
\* by no more than there are others of them (RcnsGate.try_rcns).
OverrunIsBounded ==
    Limit > 0 => \A a \in Agents : negotiations[a] < Limit + Cardinality(Threads)

\* An agent holds at most one live contract per idempotency key and window.
OneContractPerKey ==
    \A x, y \in spawned :
        x.agent = y.agent /\ x.key = y.key /\ ~Gone(x.sid) /\ ~Gone(y.sid) => x.sid = y.sid

\* An agent that waits: none of its negotiations under a key reads the cache
\* before an earlier one under that key has written it or given up.
Undecided(t) == pc[t] \in {"cached_plan", "compose", "register", "mirror", "remember"}
KeysInTurn ==
    \A t, u \in Threads :
        t # u /\ Undecided(t) /\ Undecided(u) /\ req[t].key \in Keys =>
            req[t].agent # req[u].agent \/ req[t].key # req[u].key

InTurnSpec == Init /\ [][Next /\ KeysInTurn']_vars

\* The contract runtime implements the abstract ledger: ids are bound once, used
\* only by their holder while bound, and void for good.
Ledger == INSTANCE ContractLedger WITH
    ledger <- [s \in Sids |-> IF s \notin minted THEN "unused"
                              ELSE IF Gone(s) THEN "void" ELSE "bound"],
    holder <- owner_of,
    uses   <- ran

ImplementsLedger == Ledger!Spec

\* Every accepted request comes to an end: no handler waits on another one, and
\* nested dispatches stop at the latest at the recursion limit.
EveryRequestEnds ==
    \A t \in Threads : ~At(t, "idle") ~> At(t, "idle")

(* What the code, its comments or its documents say and the code does not do. *)

\* runtime.py, _build_step_request: steps do "not recurse into the runtime".
StepsDoNotReenter ==
    \A t \in Threads : loc[t].depth = 0

\* methods.py, handle_suspend: expire() clears "both the active-plans dict and the
\* legacy SYNTHESES registry ... in one atomic move", so with no handler running
\* the legacy registry, which exempts requests from soft-deny, names no dead id.
ClearedTogether ==
    (\A t \in Threads : At(t, "idle")) => \A s \in legacy : ~Gone(s)

\* docs/rcns.md: the Attribution-Record of a dispatch through a contract carries
\* the hash and the negotiation origin of that contract, read from the runtime's
\* side tables; runtime.py sets the origin by how the contract was created.
StampDescribesContract ==
    \A x \in stamps :
        x.status = 200 =>
            /\ x.from = from_of[x.sid]
            /\ owner_of[x.sid] # Nobody => x.hash = plan_of[x.sid]

\* rcns_gate.py: the 461 preview is the contract the caller inspects and then
\* executes with the proposed id.
PreviewNamesContract ==
    \A r \in replies : r.status = 461 => r.plan = plan_of[r.sid]

=============================================================================
