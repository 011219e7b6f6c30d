--------------------------- MODULE AnswerPipeline ---------------------------
(***************************************************************************)
(* What connection threads share once a request has reached an endpoint:   *)
(* the hooks around the handler (src/server/hooks.py) with the purchase    *)
(* assertions of mod_merchant, the commitments of mod_agent_cert and the   *)
(* answers of mod_cache.  The stores of mod_merchant and mod_cache each    *)
(* work under a lock of their own, so one call on them is one step; the    *)
(* steps of two threads interleave, and the daemon may die between them.   *)
(***************************************************************************)
EXTENDS Naturals, Sequences, FiniteSets

CONSTANTS
  Threads,     \* connection threads
  NoValue,      \* no value
  Keys,        \* cache keys: method, path and input of cacheable endpoints
  Assertions,  \* intent assertions: [jti, exp]
  Orders,      \* orders in which the modules may have been loaded
  Leeway,      \* how long verify_intent_assertion accepts an expired assertion
  TTL,         \* lifetime of a cached answer
  Room,        \* max_entries of the cache
  Durable,     \* SQLiteSeenJtiStore (TRUE) or InMemorySeenJtiStore
  MaxTime, MaxAnswers, MaxFaults  \* bounds on the clock, the requests, the faults

ASSUME PipelineAssumption ==
  /\ Leeway \in Nat /\ TTL \in Nat \ {0} /\ Room \in Nat \ {0}
  /\ Durable \in BOOLEAN /\ {MaxTime, MaxAnswers, MaxFaults} \subseteq Nat
  \* an issuer gives each assertion a jti of its own, and mod_merchant is loaded
  /\ \A x \in Assertions : x.exp \in Nat /\ \A y \in Assertions : x.jti = y.jti => x = y
  /\ \A o \in Orders : o \in Seq({"cert", "merchant", "cache"}) /\ \E i \in DOMAIN o : o[i] = "merchant"

VARIABLES
  pc,        \* [thread -> step it is about to take]
  req,       \* [thread -> its request: [kind, key, assertion, cert]]
  hook,      \* [thread -> next hook]
  result,    \* [thread -> what the hooks and the handler made of it]
  order,     \* the hooks, in registration order
  now,       \* the clock
  seen,      \* jti store: set of [jti, until]
  cache,     \* least recently used first: [key, born, until]
  bought,    \* purchases carried out: sequence of [jti, at]
  taken,     \* number of requests read so far
  unchecked, \* jtis let through because the store raised
  faults     \* faults so far

threadVars == <<pc, req, hook, result>>
storeVars == <<seen, cache, bought, unchecked>>
pipeVars == <<threadVars, storeVars, order, now, taken, faults>>

None == [kind |-> "none", key |-> NoValue, assertion |-> NoValue, committed |-> TRUE]
ToRead(k, c) == [None EXCEPT !.kind = "read", !.key = k, !.committed = c]
ToBuy(x) == [None EXCEPT !.kind = "buy", !.assertion = x]
AnyRequest == {ToRead(k, c) : k \in Keys, c \in BOOLEAN} \cup {ToBuy(x) : x \in Assertions}

PipeInit ==
  /\ pc = [t \in Threads |-> "idle"] /\ req = [t \in Threads |-> None]
  /\ hook = [t \in Threads |-> 1] /\ result = [t \in Threads |-> NoValue]
  /\ order \in Orders /\ now = 1
  /\ seen = {} /\ cache = <<>> /\ bought = <<>> /\ unchecked = {}
  /\ taken = 0 /\ faults = 0

Goto(t, step) == pc' = [pc EXCEPT ![t] = step]
Fault == faults < MaxFaults /\ faults' = faults + 1

Receive(t) ==
  /\ pc[t] = "idle" /\ taken < MaxAnswers /\ taken' = taken + 1
  /\ \E r \in AnyRequest : req' = [req EXCEPT ![t] = r]
  /\ Goto(t, "before") /\ hook' = [hook EXCEPT ![t] = 1]
  /\ UNCHANGED <<result, storeVars, order, now, faults>>

(* HookRegistry.run_before: the first hook with an outcome ends the round. *)
Hook(t) == order[hook[t]]
NextHook(t) == hook' = [hook EXCEPT ![t] = @ + 1]
ShortCircuit(t, r) ==
  /\ result' = [result EXCEPT ![t] = r] /\ Goto(t, "after") /\ hook' = [hook EXCEPT ![t] = 1]
PassHook(t) == NextHook(t) /\ UNCHANGED <<pc, result>>

NoMoreBefore(t) ==
  /\ pc[t] = "before" /\ hook[t] > Len(order)
  /\ Goto(t, "handler")
  /\ UNCHANGED <<req, hook, result, storeVars, order, now, taken, faults>>

(* Nothing to do in front of the handler: each of these leaves requests of
   the other kind alone, and mod_agent_cert those within the commitment. *)
BeforeIdle(t) ==
  /\ pc[t] = "before" /\ hook[t] <= Len(order)
  /\ \/ Hook(t) = "cert" /\ req[t].committed
     \/ Hook(t) = "merchant" /\ req[t].kind # "buy"
     \/ Hook(t) = "cache" /\ req[t].kind # "read"
  /\ PassHook(t)
  /\ UNCHANGED <<req, storeVars, order, now, taken, faults>>

Stop(t) == ShortCircuit(t, [by |-> "refused", born |-> now])

(* AgentCertHook: a verified certificate commits the agent to scopes and a
   zone; a request that claims others is refused. *)
CertHook(t) ==
  /\ pc[t] = "before" /\ hook[t] <= Len(order) /\ Hook(t) = "cert" /\ ~req[t].committed
  /\ Stop(t)
  /\ UNCHANGED <<req, storeVars, order, now, taken, faults>>

(***************************************************************************)
(* MerchantHook: the counterparty must be the merchant the request names   *)
(* (a match the peer decides), the assertion must verify, and its jti must *)
(* be new.  The store keeps the jti until the assertion expires, one       *)
(* second at least.                                                        *)
(***************************************************************************)
Verifies(x) == x.exp + Leeway >= now
Live == {e \in seen : e.until > now}
(* Mutant of Until: the entry is gone by the instant the assertion expires. *)
UntilTooSoon(x) == now + IF x.exp > now + 1 THEN x.exp - now - 1 ELSE 1

Until(x) == now + IF x.exp > now THEN x.exp - now ELSE 1

Merchant(t) ==
  LET x == req[t].assertion IN
  /\ pc[t] = "before" /\ hook[t] <= Len(order) /\ Hook(t) = "merchant" /\ req[t].kind = "buy"
  /\ \/ Stop(t) /\ UNCHANGED seen   \* wrong counterparty, or ~Verifies(x)
     \/ /\ Verifies(x) /\ seen' = Live
        /\ \E e \in Live : e.jti = x.jti
        /\ Stop(t)
     \/ /\ Verifies(x) /\ ~\E e \in Live : e.jti = x.jti
        /\ seen' = Live \cup {[jti |-> x.jti, until |-> Until(x)]}
        /\ PassHook(t)
  /\ UNCHANGED <<req, cache, bought, unchecked, order, now, taken, faults>>

(* A hook that raises is logged and passed over: the request goes on. *)
MerchantRaises(t) ==
  /\ pc[t] = "before" /\ hook[t] <= Len(order) /\ Hook(t) = "merchant" /\ req[t].kind = "buy"
  /\ Durable /\ Verifies(req[t].assertion) /\ Fault /\ PassHook(t)
  /\ unchecked' = unchecked \cup {req[t].assertion.jti}
  /\ UNCHANGED <<req, seen, cache, bought, order, now, taken>>

(* InMemoryCache.get: an expired entry is dropped, a live one moves to the
   fresh end. *)
Others(k) == SelectSeq(cache, LAMBDA e : e.key # k)
Found(k) == {cache[i] : i \in {j \in DOMAIN cache : cache[j].key = k}}
CacheBefore(t) ==
  LET k == req[t].key IN
  /\ pc[t] = "before" /\ hook[t] <= Len(order) /\ Hook(t) = "cache" /\ req[t].kind = "read"
  /\ \/ Found(k) = {} /\ UNCHANGED cache /\ PassHook(t)
     \/ \E e \in Found(k) :
          \/ now >= e.until /\ cache' = Others(k) /\ PassHook(t)
          \/ /\ now < e.until /\ cache' = Append(Others(k), e)
             /\ ShortCircuit(t, [by |-> "cache", born |-> e.born])
  /\ UNCHANGED <<req, seen, bought, unchecked, order, now, taken, faults>>

(* The handler answers, refuses with a declared error, or raises; only after
   an exception do the hooks not see the outcome. *)
Handler(t) ==
  /\ pc[t] = "handler"
  /\ \/ /\ result' = [result EXCEPT ![t] = [by |-> "handler", born |-> now]] /\ Goto(t, "after")
        /\ bought' = IF req[t].kind = "buy"
                     THEN Append(bought, [jti |-> req[t].assertion.jti, at |-> now]) ELSE bought
     \/ /\ result' = [result EXCEPT ![t] = [by |-> "error", born |-> now]] /\ Goto(t, "after")
        /\ UNCHANGED bought
     \/ /\ result' = [result EXCEPT ![t] = [by |-> "raised", born |-> now]] /\ Goto(t, "finish")
        /\ UNCHANGED bought
  /\ hook' = [hook EXCEPT ![t] = 1]
  /\ UNCHANGED <<req, seen, cache, unchecked, order, now, taken, faults>>

(***************************************************************************)
(* run_after: every hook sees the outcome, whoever produced it.  mod_cache *)
(* stores a success again each time, with a new lifetime, even when the    *)
(* success came out of the cache.                                          *)
(***************************************************************************)
Stored(k, born) ==
  LET entry == [key |-> k, born |-> born, until |-> now + TTL] IN
  IF Found(k) # {} THEN Append(Others(k), entry)
  ELSE Append(SubSeq(cache, 1 + Len(cache) - (IF Len(cache) < Room THEN Len(cache) ELSE Room - 1), Len(cache)), entry)

After(t) ==
  /\ pc[t] = "after" /\ hook[t] <= Len(order) /\ NextHook(t)
  /\ cache' = IF Hook(t) = "cache" /\ req[t].kind = "read" /\ result[t].by \in {"handler", "cache"}
              THEN Stored(req[t].key, result[t].born) ELSE cache
  /\ UNCHANGED <<pc, req, result, seen, bought, unchecked, order, now, taken, faults>>

NoMoreAfter(t) ==
  /\ pc[t] = "after" /\ hook[t] > Len(order) /\ Goto(t, "finish")
  /\ UNCHANGED <<req, hook, result, storeVars, order, now, taken, faults>>

(* send_response closes the connection's only request. *)
Reply(t) ==
  /\ pc[t] = "finish" /\ Goto(t, "idle")
  /\ req' = [req EXCEPT ![t] = None] /\ result' = [result EXCEPT ![t] = NoValue]
  /\ hook' = [hook EXCEPT ![t] = 1]
  /\ UNCHANGED <<storeVars, order, now, taken, faults>>

Tick == now < MaxTime /\ now' = now + 1 /\ UNCHANGED <<threadVars, storeVars, order, taken, faults>>

(* The daemon dies and is started again; only the SQLite store survives. *)
Crash ==
  /\ Fault
  /\ pc' = [t \in Threads |-> "idle"] /\ req' = [t \in Threads |-> None]
  /\ hook' = [t \in Threads |-> 1] /\ result' = [t \in Threads |-> NoValue]
  /\ cache' = <<>> /\ seen' = IF Durable THEN seen ELSE {}
  /\ UNCHANGED <<bought, unchecked, order, now, taken>>

Serving(t) ==
  \/ NoMoreBefore(t) \/ BeforeIdle(t) \/ CertHook(t) \/ Merchant(t) \/ MerchantRaises(t) \/ CacheBefore(t)
  \/ Handler(t) \/ After(t) \/ NoMoreAfter(t) \/ Reply(t)
PipeNext == Tick \/ Crash \/ \E t \in Threads : Receive(t) \/ Serving(t)
PipeSpec == PipeInit /\ [][PipeNext]_pipeVars
-----------------------------------------------------------------------------
(* operational/mod_merchant/replay_store.py:80: while an assertion is alive
   its purchase is carried out once at the most, whichever threads present
   it and however often the daemon restarts, provided that the store is the
   durable one and never raised for it. *)
BoughtOnceInLife ==
  Durable => \A x \in Assertions : x.jti \notin unchecked =>
     Cardinality({i \in DOMAIN bought : bought[i].jti = x.jti /\ bought[i].at < x.exp}) <= 1
=============================================================================
