# A verification model of AGTP

The repository is a Python implementation of AGTP, the Agent Transfer Protocol:
a daemon that hosts agents, dispatches method calls to them, negotiates
contracts for endpoints it does not have, writes signed audit records and takes
part in a discovery plane; the runtimes that serve its endpoints; the clients;
and the tools of the operator. This directory holds TLA+ modules that model
most of it, TLC configurations that check them on small instances, and proofs
that TLAPS checks.

## 1. Inventory

The daemon (`server/main.py`) accepts TCP connections and gives each one a
thread of its own that reads one request, dispatches it and writes one
response. There is no request queue and no global lock: every table that
requests share has its own lock, or none. A handler that raises anything but
an `OSError` ends its thread without a response. Three background threads may
run beside the connections (the presence sweep, presence gossip and the DHT
bootstrap).

| Component | State | Operations | What is hard | What makes it correct |
|---|---|---|---|---|
| Synthesis runtime (`server/synthesis/runtime.py`) | plan table, deadlines, originator, contract hash, origin; a second "legacy" registry with a lock of its own | instantiate, get with lazy expiry, expire, execute, operator sweeps | locked regions with unlocked gaps between them; plan and mirror updated apart; execution after lookup | an id is bound once, used only by its holder, void for good |
| Composition (`synthesis/recipes.py`, `policies.py`) | none | match a recipe, compose, run the steps | limits on depth, missing captures, a step that fails after others took effect | a plan that ran in part says so |
| RCNS gate (`rcns_gate.py`, `rcns_state.py`) | rate-limit window and idempotency cache, in memory or in SQLite | try_rcns: four locks, limiter, cache, compose, instantiate, announce, deliver | check and record apart; retries that overlap; a cache that survives a restart while contracts do not | the limit holds; one contract per key; a cached id belongs to the asker |
| Contract methods (`server/methods.py`) | none of their own | Synthesis-Id dispatch, PROPOSE, REVOKE target=contract, SUSPEND | ownership read after lookup, audit line after eviction | isolation, eviction before its audit line, the right stream |
| Connection loop and dispatcher (`main.py`, `methods.py`, `mtls.py`, `oauth_context.py`) | none shared | a fixed sequence of gates, four of which rewrite the request | identity from three sources; the order of alias, redirect and policy; a second entrance over HTTP | no handler runs for a suspended or retired agent; the sources agree |
| Agent lifecycle (`_lifecycle_transition`, `audit_lifecycle.py`, `persist`) | status in memory, agent document on disk, signed event stream, name service | ACTIVATE, DEACTIVATE, REVOKE, REINSTATE, DEPRECATE | four stores written in turn without a lock; crash between them | the stores agree; retired stays retired |
| Hooks and operational modules (`hooks.py`, `operational/`) | response cache, purchase store, audit log | before and after hooks per request | check then insert; hooks that raise; load order | a purchase is made once |
| Audit chain (`audit_chain.py`, `_finalize_response`) and its tools | per-agent chain head and records | append on every response, walk, repair | head read and written around signing; failing writes; repair from another process | chains stay linear, heads lead somewhere, a walk ends |
| Endpoints (`endpoint_loader.py`, `handler_resolution.py`, `tools/openapi_import.py`) | endpoint files, the registry, the bound handlers | import, load, validate, resolve, boot, serve | four programs share one description | a declared error is declared everywhere; a write reaches its service |
| Proposal store (`proposal_store.py`, `builtins.py`) | proposals with deadlines | create, decide, sweep, poll | a poll reads fields one by one; a sweep races a decision | a decision is final; a poll sees one state |
| Handler gateway (`gateway.py`, `core/gateway`, `runtimes/`) | one current module, its connection, calls in flight | handshake, dispatch, nested request, replace, stop | frames of two directions on one socket; a lock held across the answer | an answer goes to the request it is of, for as long as the daemon can write on the connection; a dispatch ends |
| Presence (`presence/`) | records with lifetimes, an index, peers, partitions | announce, withdraw, discover, sweep, gossip | an index beside the records, lost rounds, no tombstones, a signature that leaves the stamps out | passing a record round adds no life to it; peers converge |
| ANS, DHT, ADS (`ans/`, `dht/`, `ads/`) | name bindings; buckets; predictions | register, resolve, federate; look up; preload | tables without locks, remote calls between check and use | one owner per name; lookups end |
| Enrollment (`tools/agtp_agent.py`, `tools/registrar/`) | keys, Geneses and documents in files | register, issue, install, load | seven writes, two programs, no transaction | what is served is what was registered |
| Certificate sessions (`cert_sessions.py`) | sessions under each serial | register, end, sweep on revocation | a sweep in many locked steps | a revoked agent keeps no session |
| Command-line clients (`client/cli`, `core_client.py`) | none | resolve, send, match, check, propose | a registry gone stale; a client and a server that judge alike but apart | an answer is the asked agent's |
| Desktop client (`client/elemen`) | tabs, one pane, histories | fetch, switch, revisit, match, negotiate | every bridge call suspends a handler while the user goes on | the screen is the active tab's; the history is kept |
| Identity, genesis, signing, wire format, configuration | none | parse, encode, sign, verify | encodings | their verdicts are inputs here |

`PROJECT.json` lists every component with its sources and its status, and every
hazard at the line where it bites.

## 2. The modules

| Module | Models |
|---|---|
| `SynthesisRuntime` | the runtime's tables; one operator per locked region |
| `ContractServer` | connection threads that negotiate, propose, invoke, revoke and release contracts |
| `ContractLedger` | the abstract promise `ContractServer` implements: ids are unused, bound, then void |
| `Composition` | the choice of a plan by the policies of a server, and the run of its steps |
| `RequestPath` | every gate between the wire and the handler, over AGTP and over the HTTP gateway |
| `Clients` | `agtp` and `agtp-curl` against changing daemons and a registry, over `RequestPath` |
| `Elemen` | the desktop client: its page, the calls of its bridge, its history file |
| `AgentLifecycle` | the status of one agent: gate, the five lifecycle methods, the save, the hook, the receipt, death and restart of the daemon |
| `AnswerPipeline` | hooks, cache and purchase store around a handler |
| `AuditTrail` | the append of Attribution-Records, its failures, the repair of heads |
| `ChainInspector` | the walk over the chains of several daemons |
| `Endpoints` | importer, loader, validator, resolution, boot, module announcement, answers |
| `Proposals` | the proposal store, its deciders, sweeps and polls; the `propose` command |
| `DecisionRegister` | the abstract register of decisions `Proposals` implements |
| `Gateway` | the daemon's side of the handler gateway and the four runtimes |
| `Presence` | record stores of several servers and their gossip |
| `Overlay` | routing table and iterative lookup |
| `Partition` | the partition of a scope into leaves that split and merge |
| `ScopeMembers` | the abstract set of members `Partition` implements |
| `Names` | one authority of the name service and its federation |
| `Anticipation` | subscriptions, predictions and preloads |
| `Enrollment` | registration of a name, the registrar, the boot of the daemon |
| `CertSessions` | the session registry and the sweep of a revoked agent |
| `MC...` | constants and instances for TLC |
| `ContractProofs`, `RevocationProofs` | theorems about `ContractServer` |
| `LifecycleProofs` | about `AgentLifecycle` |
| `PathProofs` | about `RequestPath`, `Clients` and `Elemen` |
| `AnswerProofs` | about `AnswerPipeline`, `AuditTrail` and `ChainInspector` |
| `OperationsProofs` | about `Endpoints`, `Proposals`, `Composition`, `Enrollment` and `CertSessions` |
| `GatewayProofs`, `PresenceProofs` | about `Gateway`; about `Presence` and `Partition` |

`Clients` extends `RequestPath`: what a client sends takes the daemon's whole
road, with the configuration and the documents of the host it reached.
`ContractServer` extends `SynthesisRuntime`. The other modules share no state in
the code (they meet through one request or one file), and are composed in the
MC modules only by running them as the parts of one behaviour each.

### How state and actions correspond to the code

`SynthesisRuntime` has one variable per dict: `active` is `self.active`,
`originating`, `contract_hashes`, `origin` and `expires_at` are the side tables,
`legacy` is the set of ids in the legacy registry. Every operator that primes
them (`Register`, `Mirror`, `Expire`, `Unmirror`) is one `with self._lock` block
of the code; `Register` and `Mirror` together are `instantiate()`, `Expire` and
`Unmirror` together are `expire()`. A deadline is abstracted to where it lies
relative to the clock (`none`, `ahead`, `passed`); `DeadlinePasses` is the
clock. `minted` is history: ids come from `uuid4` and never repeat.

`ContractServer` adds the threads. `pc[t]` is the place in the handler, `req[t]`
the request, `loc[t]` the local variables. A step is one locked region, one
store write, or local code between two of those, so every interleaving two real
threads can show at the level of the shared tables is a behaviour. The paths:

* negotiate (`try_rcns`): `gate` (locks and limiter), `cached` (idempotency
  lookup), `cached_plan` (the plan of a cached id), `compose`, `register`,
  `mirror`, `remember` (cache write), `announce` (audit event), `deliver` (461
  preview, or on to `execute` in optimistic mode);
* propose (`handle_propose`, synchronous): `register`, `mirror`;
* invoke (the Synthesis-Id path of `_dispatch_inner`): `lookup`, `owner`,
  `execute`, `walk`, `stamp_hash`, `stamp`;
* revoke (`_revoke_contract`): `lookup`, `owner`, `snapshot`, `expire`,
  `unmirror`, `publish`;
* suspend (`handle_suspend`): `lookup`, `owner`, `expire`, `unmirror`,
  `publish`.

Wherever the code calls `runtime.get()` and the deadline has passed, the thread
takes the eviction path `expire`, `unmirror` before it goes on, because `get()`
evicts. A plan that is presented under the `Contract-Synthesized` header
re-enters the dispatcher in each of its steps, as `_build_step_request` strips
only `Synthesis-Id`; `RecursionLimit` stands for Python's.

A contract is abstracted to a plan (its endpoint and recipe lineage). Its hash
is the plan itself: sha256 over canonical JSON is taken to be injective.
Here composition is a fixed set of composable plans, since `attempt_synthesis`
reads no shared state; `Composition` models what it computes.

The history variables `owner_of`, `plan_of`, `from_of`, `ran`, `spawned` and the
output sets `events`, `stamps` and `replies` record what happened; no guard
reads them.

`AgentLifecycle` follows one agent and any number of connection threads. An
agent's status lives in four places, and a transition writes them one after the
other without a lock: `status` (memory), `document` (the `.agent.json` file),
`listed` (the name service) and `stream` (the receipts). `at[t]` is the place in
`_lifecycle_transition`: `authorize`, `set`, then `persist` as `serialize`,
`open`, `write`, `replace` and `clean`, then `hook`, `emit`, `respond`. The gate
of the dispatcher is `Passes`; a request it refuses changes nothing.

`persist` writes `{name}.agent.json.tmp` and renames it. The model keeps what
POSIX does to open handles: a handle follows its file through a rename
(`Renamed`) and outlives an unlink (`Unlinked`), opening truncates, and a text
written over a longer one leaves the tail of the longer one (`Over`). A file is
the text at its front and its size; it is readable when the two agree. Texts
of one agent differ in the status alone, so the length of the status stands for
the length of the text. `Crash` is the death of the process at any point: what
was written stays, threads and memory are gone, `_load` reads the document and
skips the agent when it cannot. A power failure that loses written but unsynced
data is not modelled (`persist` calls no `fsync`). `SaveFails` is an `OSError`,
`HookFails` and `EmitFails` are the failures the code logs and swallows.

`kept`, `crossed` and `faulty` are history: the status of the last transition
whose save is settled, whether two lifecycle methods were ever in flight at
once, and whether a side effect was ever lost. `NoServiceOnceOut` speaks of
agents suspended and retired; of a deprecated one the repository says two
things, and the run `deprecated_out_of_reach` is about that.

`Composition` takes a proposal through the policies in order: a recipe matches
by name, path and parameters, its steps resolve against what the server offers,
and the depth limit refuses a long plan. `RunStep` is one step through the
dispatcher; its inputs come from constants, from the proposal and from earlier
captures (`BadReference` when one is missing), and a step that fails ends the
plan.

`RequestPath` has one action per gate, in the order of `handle_connection` and
`dispatch`: wire, certificate, path form and handle, lifecycle, the built-in
methods, aliases, policy, redirects, OAuth, soft deny, catalog, endpoint. `Gate`
says which answers a gate may give and which gate comes next; four of them
rewrite the request. `Lifecycle` turns away `OutOfService`, the three statuses
the code names; an agent whose document says anything else (`draft`, in the
run) passes. The state is the request as it came (`asked`), what it has
become (`verb`, `path`, `target`, `key`) and what ran. The gate of an HTTP
request starts further down the road, as `HttpGateway` does. The table
`[policies.methods]` is an input as the operator wrote it; `Loaded` is what
`methods_policy_from_table` makes of it, and what it refuses starts no server.

`Clients` adds a client's steps (parse, resolve, send, hear, use) around that
road, a registry that is rewritten in place and daemons that stop and start
with other agents. A match takes the Agent Document, then the manifest, then
uses a method it reported.

`Elemen` models the page's one thread: an action of the user runs a handler up
to its first `await`, `waiting[c]` holds the locals of a handler that waits,
and each answer continues it. `page[t]` is a tab's URI, result and match,
`pane` and `badge` what was last painted. The bridge's read, truncation and
write of `history.json` are steps, as its calls run on threads of their own
(this is pywebview, outside the repository). `visited` is the back and forward
list.

`AnswerPipeline` runs a request through the hooks in the order the modules were
loaded: `mod_agent_cert` commits, `mod_merchant` verifies an assertion and
checks and records its jti, `mod_cache` answers or stores. Each store call is
one step, as each takes one lock; the SQLite store survives a `Crash`.

`AuditTrail` is `_finalize_response`: wait for the lock, read the head, build
the record, store it, move the head, send. Either write may fail, and is then
only logged. `Scan` and `Repair` are `chain_integrity_check --repair-heads`.
`ChainInspector` is the breadth-first walk, over every graph of a family that
includes diamonds, cycles and records the reader may not see.

`Endpoints` follows a file from the importer, or from an operator, through the
loader and the validator to a binding, the set announced to a module, and the
answers. A file is a record of what those programs tell apart. `Boot` fails as
`run()` does.

`Proposals` has the locked regions of the store as steps: `Take` and `Set` of a
decider, the listing of a sweep and its verdicts, and a poll that looks the
record up under the lock and then reads state, body and code one by one.
`Decision` and `Tells` are what `DecisionRegister` sees of that: the decision of
a proposal, and the answer a poll has made up its mind to give.

`Gateway` numbers connections as they are accepted. `up` and `down` are the two
directions of the socket, `phase` and `doomed` the daemon's view of a connection,
`mpc` where a module's loop stands, `dpc` a dispatching thread. The differences
between the four runtimes (nested operations in Python, a write error that is
ignored in Go) are guards on `Lang`. `Serve` may fail to write its reply to a
nested operation (`FrameTooLargeError`, `OSError`): the dispatch goes on to
`Drop`, the lock is free, and until `Close` the module still waits for the
reply, so that a dispatch which was waiting for the lock is taken for it. The
module's handler then returns or raises (`OperationResult`, `Returns`,
`Raises`), its answer is read by the wrong thread (`Read`), and what either side
makes of a frame out of turn is `ReadOther` and the error in `Read`. A handler
calls the daemon at most once (`nested`). `stranded` and `crossed` are history:
the connections such a write failed on, and the requests answered on one.

`Presence` keeps a record store and an index per server, a gossip thread per
server with the digest it sent, and `clock`; a round may be lost. What a query
shows is `reply`. A signature covers agent, capabilities, tier and visibility
(`Contents`), and neither `announced_at_epoch`, `ttl_seconds` nor
`owner_domain` (`recordsig.py:57-63`); `Foreign` therefore takes any signed
contents with any of `Stamps`, as a signed ANNOUNCE, or signed or not in a
REPLICATE where the node does not verify. `until` is the end of the longest
life any record of the agent had when it came in from outside, as it was
submitted. The configured peers (`Peers`) pass on what they hold, unaltered. `Overlay` has the buckets of one node with the two threads
that may refresh them and the lookup round by round. `Partition` has one step
for each call of the trie: the loop of `_split` ends in the shortest prefixes
that are not too large (`Parts`), and the cascade of `_maybe_merge` is a choice
of how far up it goes, with the condition of each of its steps. An identifier
is its bits. `Names` keeps the authority's two tables apart, as
the code does. `Anticipation` makes a preload the many steps it is.

`Enrollment` lets the operator's tool and the registrar die between any two
file writes; a key is a number, a Genesis is the number of the key it was minted
for, and the agents directory has a document, a Genesis and a key that should
be of one number. `CertSessions` has one step per method of the registry, with
sweeps beside one another; `taken` is history, the sessions another sweep popped
that this one was due to remove.

## 3. What each run checks

| Run | Instance | Shows |
|---|---|---|
| `contracts_lifecycle` | two ids, two agents, two threads, three overlapping requests, a deadline, a restart; either of every kind without keys, or negotiations under a key in turn beside releases | isolation, finality of eviction, eviction before its audit line, the line on the owner's stream, the mirror, no second live contract for one key, and that the server implements `ContractLedger` |
| `negotiation_durable` | SQLite backend, limit of one, one key, one agent below the trust tier, a restart, fair threads | the limit holds, a cached id is the asker's own, every request ends |
| `agent_lifecycle` | two threads, three requests, failing disk, name service and signer, one death of the daemon | a restart at any point finds a whole document with the last saved status; the four stores agree when nothing failed; an agent suspended or retired stays out of service |
| `request_path` | see below | ten properties of the road of a request, of the state around handlers and of the clients |
| `operations` | see below | six properties of what an operator does around a daemon |
| `discovery` | see below | the index of the presence store, the life of copies, convergence, the partition |
| `gateway` | two module processes, two connections, two dispatching threads, two requests, a shutdown | a handler's failure is told to its own request, unless a reply was not written on the connection before; no module in waiting is forgotten; a dispatch ends |

Two threads suffice for the races of the contract runs: each of them is between
one reader or writer that is between two locked regions and one other.
`contracts_lifecycle` draws one of two loads at the start (`MCLifetimes`), so that
the keys of one do not multiply the kinds of the other; the load with keys keeps
the negotiations of one agent under one key in turn (`KeysInTurn`).
One agent negotiates in either run; that a cached id is its asker's own, and one
contract per key, for any number of negotiating agents is proved.
`MaxRequests`, `MaxRestarts` and `RecursionLimit` bound the behaviours, and
`IdsLeft` admits a request that mints an id only while one is left; `Drained`
keeps a behaviour that reached the bounds from counting as a deadlock.

`agent_lifecycle` has requests of every kind, an agent whose document says something the gate has no rule for
(so that `ACTIVATE` is not a no-op), and callers with and without the issuer's
key. Three requests make a transition, a second one after its answer or after
the restart, and a request that tests the gate afterwards. Its properties speak
of histories in which lifecycle methods did not cross, because the code gives
no guarantee for the others.

`request_path` has one behaviour for each of some 144,000 initial states. The
road of one request: some two hundred requests that differ from an ordinary one
in a few fields, with every combination of certificate, header and handle,
against configurations and hosted agents that do the same. Two gates that
disagree about one field need no larger request. Checked are `ServedInService`
(whatever entrance, alias, redirect or rewrite, no handler but introspection
runs for a suspended or retired agent) and `IdentitySourcesAgree`. A client with two hosts: an agent
that moved is `AnswersForAsked`'s case, a document and a manifest read one
after the other `MatchedAreNotDenied`'s. Two threads through the hooks with one
assertion, a clock that passes its expiry and a crash (`BoughtOnceInLife`);
two writers of audit records, three records, two failing writes and a repair
(`SentChainsAreLinear`, `ChainsOnlyGrow`, `RepairLosesNothing`, for a repair
beside no serving daemon: `RepairLive = TRUE` breaks the last);
the walk (`WalkIsClosed`: it ends with every record reached visited once and
every parent kept); and the desktop client with two tabs, two calls under way
and five actions of the user (`ScreenIsOfActiveTab`).

`operations`: three imported documents and six directories of an operator
(`ImportedErrorsDeclared`, `WritesReachUpstream`), two registrations of one
name with every flag (`ServedIdentityIsRegistered`), one session that moves
between the certificates of two agents under two sweeps (`SweepLeavesNone`: a
sweep that has returned left none of the sessions it was due to remove, and
reported each of them terminated unless the other sweep took it),
two proposals with two deciders, a sweep and a poll (`ImplementsRegister`: each
proposal is decided once, and a poll tells of the decision that was taken and
nothing of another), three shelves of policies (`PartialPlansFail`).

`discovery`: two servers, one of which signs and the other verifies, one agent,
its announcements with and without a signature, with a lifetime or without end,
copies from outside with another epoch, lifetime and owner, gossip that loses
rounds and a clock of one lifetime (`IndexAgrees`; `CopiesKeepTheAge`: what
comes in has the life it says it has, and passing it round adds none;
`Spreads`: what one server has, and the other would take while its copy is
still alive, the other comes to have, or the copy dies). Records of different
agents do not meet in the store except in the index, so one agent does for the
run; the theorems are about any number. the partition of a three-bit id space, split at more
than three members and merged below two, with every sequence of joins and
leaves (`LeavesTile`; `ImplementsScope`: from outside it is a set). Three bits
let a leaf split twice at once and a merge cascade over two levels. The lookup, the name service and
the anticipation service, whose own properties the code does not keep (below).

Deadlock is not checked where a behaviour ends by design: a request is
answered, a walk is over, the bounds are used up.

Five runs end in a counterexample, each against a sentence of the repository:

| Run | The repository says | The code does |
|---|---|---|
| `duplicate_for_key` | `docs/rcns.md:168` a retry does not spawn a duplicate | a retry that overlaps the first attempt does |
| `revoke_undone` | `docs/wire-format.md:257` REVOKE is permanent | an ACTIVATE let through before the REVOKE was answered sets the agent active after it |
| `deprecated_out_of_reach` | `methods.py:2486` a deprecated agent "stays operational (still accepts traffic)"; `methods.py:2450` REINSTATE restores "a previously revoked, deprecated, or suspended agent" | the lifecycle gate (`methods.py:4002`) answers 410 to both; `tests/test_lifecycle.py:204`, `222` and `235` call the handlers behind it |
| `installed_key_lost` | the comment above `agtp_agent.py:556` on what is kept | a forced or repeated registration keeps the old key beside the new Genesis and deletes the new one |
| `history_lost` | `client/elemen/README.md:22` every fetch is written to the history file | two bridge threads read, change and rewrite the file without a lock |

### Divergences stated without a run

These properties are kept in the modules and named here; each fails in the
model as it fails in the code.

| Property | The repository says | The code does |
|---|---|---|
| `ContractServer!StepsDoNotReenter` | `runtime.py:844` steps do "not recurse into the runtime" | a contract presented as `Contract-Synthesized` recurses until Python stops it |
| `ContractServer!ClearedTogether` | `methods.py:2865` both registries are cleared "in one atomic move" | an eviction between `Register` and `Mirror` leaves a dead id in the legacy registry, which exempts its holder from soft-deny |
| `ContractServer!StampDescribesContract` | `docs/rcns.md:182-200` the record carries the contract's hash and origin | the optimistic path writes its own mode down; an eviction during the walk empties the fields |
| `ContractServer!PreviewNamesContract` | `rcns_gate.py:637` the caller inspects the contract and then executes it | a reused key shows the new endpoint with the old contract's id |
| `WithinNegotiationLimit` with `Durable = FALSE` | `docs/rcns.md:150` the limit is enforced per agent | the in-memory limiter checks before composing and counts after |
| `AgentLifecycle!PersistIsAtomic` | `main.py:603` the save is atomic | two saves share one temporary file and leave a document no restart can load |
| `Endpoints!MappedStatusIsUsed` | the error_map of an endpoint | is not consulted for an upstream error whose body is not JSON (`handler_resolution.py:729`) |
| `Endpoints!ModuleIsTaken` | a module offers the endpoints it implements | the daemon announces its own built-ins too (`main.py:1527`), and no module has those |
| `Clients!ExplicitListReachable` | `core/handshake.py:72` the explicit list stays reachable where wildcards are refused | the soft deny refuses it |
| `Proposals!CliReportsAcceptance` | `docs/propose.md:20-26` | the command reports acceptance only of a server that answers 200; the daemon answers 263 and 463 |
| `Anticipation!ForgetsOnOptOut` | an unsubscribed agent is forgotten | a preload under way stores its result afterwards (`ads/service.py:83`) |
| `Names!DeregisterTakesOwn` | DEREGISTER removes the agent's own name | it removes the name from whoever holds it now (`ans/store.py:102`) |
| `Overlay!BucketsHold` | a bucket has at most K entries | two threads add at once (`dht/routing.py:62`) |
| `DispatchReturns` with `Lang <- WithGo` | the runtimes answer every request | the Go runtime drops the error of a write and reads on (`client.go:309`) |
| `FailsForItsOwn` without `crossed` | `gateway.py:70` the connection lock keeps concurrent traffic from interleaving frames on the socket | a nested reply that cannot be written (`protocol.py:119`, `gateway.py:466`) frees the lock while the module waits; the next request on the connection is taken for the reply and is told that a handler failed which never ran |
| `RepairLosesNothing` with `RepairLive = TRUE` | the tool repairs heads | beside a serving daemon it moves a head back |

Others are visible in the modules without a property. A release that overlaps
another eviction is written to the caller's stream (`methods.py:2897`), and the
464 contract-not-yours refusal carries no attempt id (`docs/rcns.md:291`). The
lifecycle gate exempts introspection only, so the `ACTIVATE` that
`README.md:808` names as the way out of a suspension is refused to every agent
that needs it. `presence/methods.py:201-205` says of a signed announcement that
a relay "can neither forge nor mutate" it, and the signature leaves epoch,
lifetime and owner out (`recordsig.py:57-63`): `Foreign` stores a signed record
with other stamps, and `CopiesKeepTheAge` says no more than that the record
lives as long as it then claims. A record without end travels with the default
lifetime (`records.py:197`) from its own epoch, so its copy may be dead on
arrival; gossip then never makes the agent discoverable at the peer, which
`gossip.py:4-5` promises and `Spreads` leaves out. An endpoint file with a value
of the wrong type, or a module that raises anything but `ImportError`, ends the
boot, although `docs/external-service-handlers.md:130` lets the rest continue.
An agent with wildcards that the server refuses over AGTP is served over HTTP.
`register --with-cert` looks for a `.cert` file where the generator leaves a
`.crt` (`tools/registrar/README.md:164`). In the desktop client a negotiation
paints its answer over whatever tab is active, two fetches in one tab may land
in the wrong order, and a handshake may put the outcome for one document beside
another.

### Fairness

`FairSpec` asks weak fairness of each thread's handler and of nothing else:
clients need not send, clocks need not advance, the daemon need not restart.
The code justifies it: each connection has an operating-system thread of its
own, and no step of these handlers waits for another thread beyond a short
critical section.

`GatewayFairness` asks weak fairness of the daemon's connection and dispatching
threads and of a module's loop, for the same reason, and that a handler once
called comes to an end. Nobody has to connect, dispatch, stop or die.

`PresenceFairness` asks that gossip rounds keep being started (the thread sleeps
and starts again), and strong fairness of the two deliveries per peer: rounds
may be lost, but not all of them for ever. Without it nothing spreads; a peer
that is never reached learns nothing.

## 4. What is proved

Every invariant, action property and refinement that a run without a
counterexample checks is a theorem. A theorem holds for every value of the
constants that the named assumptions admit: any number of threads, agents,
requests, records, crashes.
The bounds of the runs do not enter. Each module of proofs is laid out the same
way: what the invariant says, a lemma per operator or action, one lemma that a
step keeps it, the theorems.

### Contracts (`ContractProofs`, `RevocationProofs`)

* `TypeCorrect`: the type invariant;
* `Isolation`: `ContractIsolation`, a plan only runs for the agent its contract
  was negotiated for;
* `CacheOwnership`: `CacheNamesOwnContract`;
* `DurableLimit`: with the durable backend, `WithinNegotiationLimit`; the
  assumption cannot be dropped, as the in-memory backend exceeds the limit;
* `OverrunBounded`: by how much. Without `Durable` and with finitely many
  threads, an agent's negotiations in a window stay below the limit plus the
  number of threads (`OverrunIsBounded`);
* `Refinement`: `Spec => ImplementsLedger`, the server implements
  `ContractLedger` under the mapping "unused until minted, bound while in the
  plan table, then void";
* `RevocationHolds`, `EventsFollow`, `OwnersHear`: `RevokedStaysRevoked`,
  `EventFollowsEviction` and `RevokedOnOwnersStream`;
* `Mirrored`: `ActiveIsMirrored`;
* `OneInTurn`: `OneContractPerKey` under `InTurnSpec`, where no agent has two
  negotiations under one key in flight (`KeysInTurn`); everything else may
  overlap. `OneAtATime` is the case of one thread. The run `duplicate_for_key`
  shows that the condition is needed.

Isolation by itself is not inductive: a thread at `execute` must still be one
that passed the ownership check, although the tables may have changed since.
The strengthening `IInv` says

* `Attributed`: a live id has an originator in the side table that equals the
  one it was minted with (`OwnersAgree`), so the check reads the truth while
  the contract lives;
* `OwnNegotiation` and `Cleared`: a thread at `execute` either negotiated the
  contract itself, or passed the check for a contract that is its own, unscoped,
  or gone by now; gone ids never come back because ids are minted once, so
  `execute` refuses those;
* `HoldsMinted`, `RanMinted`: threads and history name minted ids only, so a
  new id never meets an old claim.

`Refinement` maps `Register` to `Bind`, `Execute` to `Use`, `Expire` and
`Restart` to `Void`, and everything else to a stutter.

`EvictionInv` adds what a thread may rely on after an eviction: past the locked
region of `expire()` the contract is gone (`Evicted`), a request that came too
late never gets past its lookup (`LateIsGone`), and a revoker that still finds
the plan read its owner while it was active (`Revoking`), so the stream it
writes to is the owner's. `KeyInv` is the argument for keys that are negotiated
in turn: what lives under a key is what the cache answers (`KeyHeld`), and who
composes under a key found nothing living under it (`KeyFree`).

`OverrunBounded` rests on `Crowd(a)`: the negotiations of an agent that are
counted, and the threads in `Pending(a)` that the limiter let in and that are
not counted yet, stay together below the limit plus the number of threads. The
limiter lets a thread in only while the count is below the limit, and a thread
that is counted leaves `Pending(a)`.

### Agent lifecycle (`LifecycleProofs`)

* `TypeCorrect`: the type invariant;
* `Loadable`, `Durability`: `DocumentReadable` and `SavedSurvives`;
* `OutOfServiceHolds`, `RetirementHolds`: the action properties
  `NoServiceOnceOut` (suspended or retired) and `RetiredIsFinal`;
* `Agreement`: `StoresAgree`.

The invariant is `TypeOK` and, until methods cross, `Serial`. What the document
holds cannot be carried from one step to the next alone: one has to know that
the one thread in flight (`Alone`) has the temporary file to itself and that
file holds its text (`OwnFile`), that the text is the status it set and memory
still has it (`OwnStatus`), that the document is that of the last save
(`OnDisk`), and that an agent out of service has nobody on the way to it
(`OutIsOut`). `InFlightStep` reduces every step of a transition to what it does
to that thread and the two files; the answer and the crash have a lemma each.
`Agreement` needs the order in which the stores change hands (`OneStory`):
at each place of the handler, which of memory, document, name service and
stream already tell of the transition.

### The road of a request and the clients (`PathProofs`)

* `InService`: `ServedInService`. The property excepts servers whose alias or
  redirect table names an introspection verb, as the lifecycle gate reads the
  verb before those tables rename it. From the alias on, the invariant speaks
  of the key that the endpoint is looked up by instead of the verb;
* `OneIdentity`: `IdentitySourcesAgree`. Path, certificate, header and pin come
  in at different gates, so the invariant says which of them agree already at
  which gate, and that every gate afterwards leaves the agent alone;
* `Answers`: `AnswersForAsked`, and `MatchesHold`: `MatchedAreNotDenied`. The
  first needs what the road keeps of a request a client sent (`RoadInv`) and
  which request is on the road in which phase (`Asking`); the second, that a
  match deals with one daemon as long as none stops (`House`), and that what it
  reports is what the gate permits (`DeniedBySoftDeny`);
* `ScreenFollows`: `ScreenIsOfActiveTab`. The active tab is one of the strip
  after every close, an answer for another tab leaves the active page's result
  alone, and no assignment to a page changes the fields it has (`Shaped`).

### Answers and their audit (`AnswerProofs`)

* `ChainsDoNotFork`, `HeadsLeadHome`: `SentChainsAreLinear`, and
  `HeadsWalkable`, which holds even of repairs beside a serving daemon;
* `NoBranchIsOrphaned`: the action property `ChainsOnlyGrow`, from which and
  the empty chains of the start `HeadsWalkable` would follow where
  `~RepairLive`;
* `RepairIsSafe`: the action property `RepairLosesNothing` for a repair that
  runs while the daemon is down (`~RepairLive`), which is the tool's condition
  of use;
* `BuysOnce`: `BoughtOnceInLife`;
* `WalksClose`: `WalkIsClosed`.

In the audit trail, the holder of the lock has built the last record there is
(`Locked`), a record names an earlier one and, unless a body was lost, a stored
one (`Ordered`, `Closed`), and every append that succeeded lies on the chain
behind the head (`Serial`): what is built later hangs from it. That a walk only
grows needs two facts more: the writer inside the transaction hangs its record
from the head that it moves next (`HeadRead`), and what a walk reads is of one
agent (`OneFamily`), so that the tip a repair takes, whose walk is all that
agent has, reads what the old head read. What a walk down
a chain reads is defined by recursion on the id, and its properties are proved
for the least id that would break them (`Least`, from the well-foundedness of
the subset order on finite sets). The same lemma serves for what
`_parse_prior_actions` keeps of a list of any length (`KeptAreReferences`).

A purchase: while an assertion lives, at most one thread is past the check with
it or it has bought, and in both cases the store holds its jti for the rest of
its life (`Once`). The walk: each id visited has one step (`OnceEach`), and each
record that a fetched one names is still to be visited or knows who named it
(`Accounted`).

### Around the daemon (`OperationsProofs`)

* `DecidesAsARegister`: `ProposalSpec => ImplementsRegister`, the proposal store
  implements `DecisionRegister`. Filing, the write of a record's state by
  whoever decides it (the engine or the deadline), the last read of a poll and
  the end of its answer map to the four actions of the register, the rest to
  stutters. It rests on
* `Polls`, `FirstDecision`: `PollsDoNotMix` and the action property
  `DecisionIsFinal`. A poll's reads are of one decision because a record's
  state, once decided, is the verdict of the one thread that writes its body
  and status (`DeciderStands`);
* `NothingDueIsLeft`: `SweepLeavesNone`. At each point of a sweep, what it owes
  under a serial is gone, or the serial is still in its list (`Owed`), and what
  is gone it reports, or another sweep took it;
* `ServedIdentity`: `ServedIdentityIsRegistered`. A Genesis stays good on its
  way from the registrar through the tool and the directory to the daemon;
* `PlansRunInOrder`: `PartialPlansFail`, for plans of any length;
* `ErrorsDeclared`, `WritesAreCarriedOut`: `ImportedErrorsDeclared` and
  `WritesReachUpstream`. What the importer wrote of an endpoint is true of it
  in the file, in the loader's list and in the registry, and what the cache
  keeps is of an endpoint that only reads (`EndInv`).

### Gateway and presence (`GatewayProofs`, `PresenceProofs`)

* `NobodyElsesFailure`, `NoneForgotten`: `FailsForItsOwn` and `NoOrphan`. The
  invariant `GatewayInv` is the protocol: for each connection that is in use
  and `Orderly`, what may be on its way in each direction, given where the
  module and the dispatching thread stand (`InTurn`). A reply that could not be
  written ends that order, and of what is read on the connection afterwards the
  theorem says only that it was (`crossed`). It holds for any mixture of
  runtimes;
* `IndexIsRight`: `IndexAgrees`, one lemma per operation on a store (`Sound`);
* `CopiesAddNoLife`: `CopiesKeepTheAge`. No copy of a record, in a store or in
  a round of gossip under way, ends after the longest life that any record of
  the agent claimed when it came in, whatever stamps it came with;
* `Tiles`: `LeavesTile`, for identifiers of any length and any thresholds. The
  invariant is `Trie(leaves)`: every identifier has one leaf, a leaf holds
  members of its own and not too many, and siblings are not both small. A split
  needs that the shortest prefixes that are small enough tile the leaf, a merge
  that the leaves it joins tile the prefix it cascades to;
* `LeavesAreOneSet`: `ImplementsScope`, no split and no merge loses a member or
  adds one.

### What the proofs assume

Assumptions are on constants, are stated where the constants are declared, and
TLC evaluates each of them in the runs.

| Assumption | Says | Why the code justifies it |
|---|---|---|
| `RuntimeAssumption`, `ServerAssumption`, `LifecycleAssumption`, `TrailAssumption`, `ProposalAssumption`, `SerialsAssumption`, `EnrollmentAssumption`, `GatewayAssumption`, `ElemenAssumption`, `PresenceAssumption` | a null value is none of the values it stands beside; bounds, lifetimes and deadlines are numbers; `Lang` names one of the four runtimes; peers are nodes | these are the types |
| `PartitionAssumption` | the thresholds are numbers and a merge's is below a split's | the constructor refuses others (`presence/partition.py`) |
| `NoExitYet` | `Absent` is not the status of a client that has ended | the same |
| `RequestsAreReal` | a request through the HTTP gateway has no client certificate and no agent in its path; a certificate names an agent | the gateway builds its request from header and pin; `server/mtls.py` derives an id from the key where the certificate states none |
| `AgentsHaveNames` | the registry has no nameless agent | it is keyed by the id of a document |
| `PipelineAssumption` | a jti is of one assertion; `mod_merchant` is loaded | the issuer mints it as a fresh id; without the module nothing is a purchase |
| `WorldAssumption` | `prior_actions` is a list | `_parse_prior_actions` drops anything else |
| `CompositionAssumption` | a recipe has a list of steps | `recipes.py` builds it so |
| `EndpointAssumption` | a file an operator wrote is not the importer's; no upstream status is the word "cache" | the field `by` is the model's own, for who wrote a file |

### What is only model-checked

* `EveryRequestEnds`, `Spreads` and `DispatchReturns` are liveness under
  fairness, which TLAPS does not prove.

## 5. Not modelled, and why

* Cryptography, parsing, encodings, response bodies and logs: their outcomes are
  inputs. `core/wire.py`, `core/identity.py` and the configuration files are
  represented by what they decide.
* The operator sweeps of the runtime (`sweep_for_policy_change`,
  `invalidate_against_catalog`, REVOKE target=stale-contracts). Drift between a
  plan and the policies of a running daemon cannot arise in the code: policies
  are read at the boot and plans do not outlive it.
* The bodies of most built-in methods (DESCRIBE, INSPECT, QUERY and the like):
  they read and answer.
* A power failure that loses written but unsynced data.
* The evaluation engine behind the proposal store and what the handlers of an
  operator do: both belong to the deployment and are free choices.
* Modules that break the gateway protocol. The frames of the four runtimes of
  this repository are all there.
* The views, the try-it forms and the Compose drawer of the desktop client; the
  Go SDK, scripts and samples.
* The Genesis read beside the agent document at a boot, outside `Enrollment`,
  and the operator's edits of either.

## 6. Plan

The modules are written, and what the runs check is proved as far as it can be.
Left are:

1. Liveness by hand: the ranking behind `EveryRequestEnds` as an invariant (how
   many steps a handler has left), so that only the fairness argument stays with
   TLC.
2. What of the catalogued divergences can be stated positively, as
   `OverrunBounded` does for the limiter: what a bucket of the routing table
   holds at most with a given number of threads, and what a repair beside a
   serving daemon can lose.
3. The operator sweeps of the runtime, once policies can change while the daemon
   runs.
