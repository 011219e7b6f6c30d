---------------------------- MODULE RequestPath ----------------------------
(***************************************************************************)
(* The road of one request through the daemon (src/server/main.py          *)
(* handle_connection, src/server/methods.py dispatch): a fixed sequence of *)
(* gates.  A gate answers and ends the request, or rewrites part of it and *)
(* hands it on.  Four of them rewrite: the certificate and the path form   *)
(* name the agent, an alias renames the verb, a redirect renames the verb  *)
(* and the path.  What later code reads is the rewritten request or, where *)
(* the code keeps a copy, the earlier one; this module keeps the two apart *)
(* as the code does.  A contract header is absent here: that branch is     *)
(* ContractServer.                                                         *)
(***************************************************************************)
EXTENDS Naturals, Sequences, FiniteSets

CONSTANTS
  Absent,      \* no header, no table entry, no answer yet
  Catalog,     \* approved verbs (core.methods.APPROVED_VERBS)
  Preferred,   \* [legacy HTTP verb -> its replacement] (core.methods.get_legacy_preferred)
  All,         \* "*" in a table
  Embedded,    \* the protocol primitives among them
  Primitives,  \* verbs with a handler in methods.REGISTRY
  BadPaths,    \* paths validate_path refuses
  Endpoints,   \* the endpoint registry: set of [verb, path, scopes, bound]
  Requests,    \* requests the peer may send
  Settings,    \* server configurations, with [policies.methods] as the operator wrote it
  Hostings     \* registries: [agent -> document]

\* The HTTP gateway has no client certificates and reads no agent in a path;
\* a verified certificate names an agent, if only by its key.
RequestAssumption ==
  \A r \in Requests : IF r.http THEN r.handle = Absent /\ r.cert = Absent
                      ELSE r.cert # Absent => r.cert.agent # Absent
HostingAssumption == \A d \in Hostings : Absent \notin DOMAIN d
ASSUME RequestsAreReal == RequestAssumption
ASSUME AgentsHaveNames == HostingAssumption

(* Verbs that stay open to an agent out of service. *)
Introspection == {"DISCOVER", "DESCRIBE"}
SoftDenyExempt == Introspection \cup {"DELEGATE", "ESCALATE", "CONFIRM", "SUSPEND", "PROPOSE", "NOTIFY"}

VARIABLES
  asked,    \* the request as it came in
  setting,  \* the server's configuration
  docs,     \* the agent documents it hosts
  at,       \* the next gate
  verb,     \* request.method, which an alias overwrites
  path,     \* request.path, which the /agents/{name} form overwrites
  target,   \* the Agent-ID header, which certificate and path form fill in
  key,      \* dispatch's local [verb, path]
  answer,   \* [code, why] of the gate that answered, Absent until then
  ran       \* the handler invoked: [entry, verb, path], Absent if none was

road == <<asked, setting, docs>>
pathVars == <<road, at, verb, path, target, key, answer, ran>>

At(gate) == at = gate
Keep == UNCHANGED <<verb, path, target, key>>
Pass(gate) == at' = gate /\ UNCHANGED <<road, answer, ran>>
Answer(code, why) ==
  /\ at' = "done" /\ answer' = [code |-> code, why |-> why]
  /\ UNCHANGED road /\ Keep
Refuse(code, why) == Answer(code, why) /\ UNCHANGED ran
Gate(gate, refusals, next) ==
  /\ At(gate)
  /\ IF refusals = {} THEN Pass(next) /\ Keep
     ELSE \E r \in refusals : Refuse(r[1], r[2])

doc == docs[target]

(***************************************************************************)
(* methods_policy_from_table.  A table is [allow, disallow, legacy,        *)
(* redirects, aliases]; what it leaves out is Absent.  A value the code    *)
(* cannot use ends the boot, an entry with an unknown verb is left out.    *)
(***************************************************************************)
Recognized == Catalog \cup DOMAIN Preferred
Unnamed == ""
Refused(table) ==
  \/ table.legacy \notin {Absent, All} /\ ~(table.legacy \subseteq DOMAIN Preferred)
  \/ \E i \in DOMAIN table.redirects :
       LET r == table.redirects[i] IN
       Unnamed \in {r.verb, r.toVerb} \/ (r.path = Absent) # (r.toPath = Absent)
  \/ table.aliases # Absent /\ \E v \in DOMAIN table.aliases : Unnamed \in {v, table.aliases[v]}

\* Of two entries for one verb and path, the later.
RedirectsOf(entries) ==
  LET kept == {i \in DOMAIN entries : {entries[i].verb, entries[i].toVerb} \subseteq Recognized}
      last(i) == \A j \in kept : j > i => <<entries[j].verb, entries[j].path>> # <<entries[i].verb, entries[i].path>> IN
  {entries[i] : i \in {k \in kept : last(k)}}

\* A table of aliases, be it an empty one, replaces the seed of legacy verbs.
AliasesOf(aliases) ==
  IF aliases = Absent THEN Preferred
  ELSE [v \in {w \in DOMAIN aliases : aliases[w] \in Recognized} |-> aliases[v]]

Loaded(s) ==
  [s EXCEPT !.policy =
     [allowAll |-> s.policy.allow \in {Absent, All},
      allow |-> IF s.policy.allow \in {Absent, All} THEN {} ELSE s.policy.allow \cap Catalog,
      disallow |-> s.policy.disallow \cap Recognized,
      legacy |-> IF s.policy.legacy = Absent THEN {}
                 ELSE IF s.policy.legacy = All THEN DOMAIN Preferred ELSE s.policy.legacy,
      redirects |-> RedirectsOf(s.policy.redirects), alias |-> AliasesOf(s.policy.aliases)]]

PathInit ==
  /\ asked \in Requests /\ setting \in {Loaded(s) : s \in {r \in Settings : ~Refused(r.policy)}} /\ docs \in Hostings
  /\ at = "wire" /\ answer = Absent /\ ran = Absent
  /\ verb = asked.verb /\ path = asked.path /\ target = asked.agent
  /\ key = [verb |-> asked.verb, path |-> asked.path]

(* parse_request: malformed bytes are answered 400. *)
Wire ==
  ~asked.http /\ Gate("wire", IF asked.wellFormed THEN {} ELSE {<<400, "invalid-wire-format">>}, "cert")

(***************************************************************************)
(* The HTTP gateway (src/operational/mod_http_gateway) takes a request of  *)
(* its own, finds its agent and calls dispatch: no certificate, no         *)
(* directory, no soft deny lie on that road.                               *)
(***************************************************************************)
Caller == IF asked.agent # Absent THEN asked.agent ELSE setting.pinned
HttpEntry ==
  /\ asked.http /\ At("wire")
  /\ \/ Caller = Absent /\ Refuse(401, "missing-agent-id")
     \/ Caller \notin DOMAIN docs \cup {Absent} /\ Refuse(404, "agent-not-found")
     \/ Caller \in DOMAIN docs /\ Pass("lifecycle") /\ target' = Caller /\ UNCHANGED <<verb, path, key>>

(***************************************************************************)
(* The client certificate: verified, compared with the Agent-ID header if  *)
(* the server insists, compared with the Principal-ID header, and then the *)
(* source of the Agent-ID if the peer sent none.                           *)
(***************************************************************************)
Certified == setting.mtls /\ asked.cert # Absent
CertRefusals ==
  CASE ~asked.cert.valid -> {<<401, "cert-verification-failed">>}
    [] asked.cert.valid /\ setting.insist /\ target \notin {Absent, asked.cert.agent} ->
         {<<401, "agent-id-mismatch">>}
    [] asked.cert.valid /\ ~(setting.insist /\ target \notin {Absent, asked.cert.agent})
         /\ asked.principal # Absent /\ asked.cert.principal \notin {Absent, asked.principal} ->
         {<<401, "principal-id-mismatch">>}
    [] OTHER -> {}

CertGate ==
  /\ At("cert")
  /\ \/ ~Certified /\ Pass("delegation") /\ Keep
     \/ Certified /\ \E r \in CertRefusals : Refuse(r[1], r[2])
     \/ /\ Certified /\ CertRefusals = {} /\ Pass("delegation")
        /\ target' = IF target = Absent THEN asked.cert.agent ELSE target
        /\ UNCHANGED <<verb, path, key>>

DelegationGate ==
  Gate("delegation", IF asked.delegation THEN {<<501, "delegation-not-supported">>} ELSE {}, "address")

(***************************************************************************)
(* /agents/{name}: the agent of that name becomes the target and the path  *)
(* becomes "/"; an Agent-ID header may name no other agent.                *)
(***************************************************************************)
Named == {a \in DOMAIN docs : docs[a].name = asked.handle}

(* Mutant of AddressGate: the name in the path overrides the header. *)
AddressGateOverrides ==
  /\ At("address")
  /\ \/ asked.handle = Absent /\ Pass("directory") /\ Keep
     \/ asked.handle # Absent /\ Named = {} /\ Refuse(404, "agent-handle-not-found")
     \/ \E a \in Named : Pass("directory") /\ target' = a /\ path' = "/" /\ UNCHANGED <<verb, key>>

AddressGate ==
  /\ At("address")
  /\ \/ asked.handle = Absent /\ Pass("directory") /\ Keep
     \/ asked.handle # Absent /\ Named = {} /\ Refuse(404, "agent-handle-not-found")
     \/ \E a \in Named :
          \/ target \notin {Absent, a} /\ Refuse(400, "agent-identity-mismatch")
          \/ /\ target \in {Absent, a} /\ Pass("directory")
             /\ target' = a /\ path' = "/" /\ UNCHANGED <<verb, key>>

(* A coordinator, a name service and a DHT node take their own verbs before
   any agent is selected (maybe_handle_presence, _ans, _dht). *)
OwnedBy(role) ==
  \/ role = "presence" /\ verb \in {"ANNOUNCE", "WITHDRAW", "PROBE", "PUBLISH", "REPLICATE"}
  \/ role = "presence" /\ verb = "DISCOVER" /\ path \in {"/population", "/providers"}
  \/ role = "ans" /\ verb \in {"RESOLVE", "REGISTER", "DEREGISTER"}
  \/ role = "dht" /\ verb \in {"LOCATE", "PING"}
Directory ==
  /\ At("directory")
  /\ IF \E role \in setting.roles : OwnedBy(role)
     THEN \E role \in setting.roles : OwnedBy(role) /\ Refuse(200, role)
     ELSE Pass("manifest") /\ Keep

(* A DISCOVER without a target is for the server itself. *)
Manifest ==
  Gate("manifest",
       IF verb # "DISCOVER" \/ target # Absent THEN {}
       ELSE IF setting.anonymous \/ asked.identity THEN {<<200, "manifest">>}
       ELSE {<<262, "anonymous-discovery-disabled">>},
       "select")

(* _select_target: a lone agent needs no Agent-ID. *)
Select ==
  /\ At("select")
  /\ \/ target = Absent /\ Cardinality(DOMAIN docs) # 1 /\ Refuse(400, "missing-agent-id")
     \/ target \notin DOMAIN docs \cup {Absent} /\ Refuse(404, "agent-not-found")
     \/ /\ target = Absent /\ Cardinality(DOMAIN docs) = 1 /\ Pass("softDeny")
        /\ target' \in DOMAIN docs /\ UNCHANGED <<verb, path, key>>
     \/ target \in DOMAIN docs /\ Pass("softDeny") /\ Keep

Accepts(d, v) == d.wildcards \/ v \in d.methods
(* soft_deny_check: what an agent may use, judged on the verb as sent. *)
SoftDeny ==
  Gate("softDeny",
       IF verb \in SoftDenyExempt \/ verb \notin Primitives THEN {}
       ELSE IF doc.wildcards /\ ~setting.wildcards /\ verb \notin Embedded
       THEN {<<403, "wildcards-refused">>}
       ELSE IF ~Accepts(doc, verb) THEN {<<403, "method-not-permitted-for-agent">>}
       ELSE {},
       "lifecycle")

(* The statuses the gate turns away; whatever else a document says passes. *)
OutOfService == {"suspended", "deprecated", "retired"}

(* Mutant of Lifecycle: only what is permanent ends service. *)
LifecycleForgetsSuspension ==
  Gate("lifecycle",
       IF verb \in Introspection \/ doc.status \notin OutOfService \ {"suspended"} THEN {}
       ELSE {<<410, "agent-revoked">>},
       "alias")

Lifecycle ==
  Gate("lifecycle",
       IF verb \in Introspection \/ doc.status \notin OutOfService THEN {}
       ELSE IF doc.status = "suspended" THEN {<<503, "agent-suspended">>}
       ELSE {<<410, "agent-revoked">>},
       "alias")

(* One hop: the target of an alias is not looked up again. *)
Alias ==
  /\ At("alias") /\ Pass("scope")
  /\ verb' = IF verb \in DOMAIN setting.policy.alias THEN setting.policy.alias[verb] ELSE verb
  /\ key' = [verb |-> verb', path |-> path]
  /\ UNCHANGED <<path, target>>

ScopeClaim ==
  Gate("scope", IF asked.claim \subseteq doc.scopes THEN {} ELSE {<<262, "scope-claim-invalid">>}, "oauth")

(* _resolve_oauth_config: the agent's own block wins field by field. *)
OAuthField(f) == IF f \in DOMAIN doc.oauth THEN doc.oauth[f] ELSE setting.oauth[f]
OAuthRefusals ==
  IF asked.token = Absent
  THEN IF key.verb \in OAuthField("required") THEN {<<401, "oauth-required">>} ELSE {}
  ELSE IF OAuthField("validator") = "broken" THEN {<<500, "oauth-validator-misconfigured">>}
  ELSE IF asked.token = "good" THEN {} ELSE {<<401, "oauth-invalid">>}
OAuth == Gate("oauth", IF OAuthField("enabled") THEN OAuthRefusals ELSE {}, "catalog")

CatalogGate ==
  Gate("catalog",
       IF key.verb \in Catalog \cup Embedded \cup Primitives \cup setting.policy.legacy THEN {}
       ELSE {<<459, "method-violation">>},
       "grammar")

Grammar ==
  Gate("grammar", IF key.path \in BadPaths THEN {<<460, "endpoint-violation">>} ELSE {}, "policy")

(* MethodsPolicy.is_method_allowed; the primitives pass whatever it says. *)
Allowed(v) == v \notin setting.policy.disallow /\ (v \in setting.policy.legacy \/ setting.policy.allowAll \/ v \in setting.policy.allow)

Policy ==
  Gate("policy",
       IF key.verb \in Embedded \/ Allowed(key.verb) THEN {} ELSE {<<405, "method-not-allowed-by-policy">>},
       "redirect")

(* resolve_redirect: the entry for the verb and path before the one for the
   verb alone; an entry without a path keeps the path of the request. *)
Matches == {r \in setting.policy.redirects : r.verb = key.verb /\ r.path \in {key.path, Absent}}
Chosen == CHOOSE r \in Matches : r.path # Absent \/ \A q \in Matches : q.path = Absent

Redirect ==
  /\ At("redirect") /\ Pass("endpoint")
  /\ key' = IF Matches = {} THEN key
            ELSE [verb |-> Chosen.toVerb, path |-> IF Chosen.toPath = Absent THEN key.path ELSE Chosen.toPath]
  /\ UNCHANGED <<verb, path, target>>

Entries == {e \in Endpoints : e.verb = key.verb /\ e.path = key.path}
(* A miss below "/" ends here: the negotiation it may open is ContractServer. *)
Endpoint ==
  /\ At("endpoint")
  /\ \/ Entries # {} /\ Pass("serve") /\ Keep
     \/ /\ Entries = {} /\ Endpoints # {} /\ key.path # "/"
        /\ IF \E e \in Endpoints : e.path = key.path
           THEN Refuse(405, "method-not-allowed") ELSE Refuse(404, "not-found")
     \/ Entries = {} /\ (Endpoints = {} \/ key.path = "/") /\ Pass("primitive") /\ Keep

(* What a handler sees of the request is request.method and request.path. *)
Ran(entry) == ran' = [entry |-> entry, verb |-> verb, path |-> path]
entry == CHOOSE e \in Entries : TRUE

(***************************************************************************)
(* _serve_endpoint: body, input schema, scopes, handler, hooks, and the    *)
(* reading of what the handler returned.  A hook that raises               *)
(* DispatchHookError leaves the peer without an answer, and an HTTP peer   *)
(* with the gateway's own.                                                 *)
(***************************************************************************)
ServeRefusals ==
  CASE asked.body = "malformed" -> {<<400, "invalid-body">>}
    [] asked.body = "invalid" -> {<<422, "input-validation-failed">>}
    [] asked.body = "ok" /\ ~(entry.scopes \subseteq doc.scopes) -> {<<403, "insufficient-scope">>}
    [] asked.body = "ok" /\ entry.scopes \subseteq doc.scopes /\ ~entry.bound -> {<<500, "no-handler-resolved">>}
    [] OTHER -> {}
(* What _translate_endpoint_result makes of what the handler returned. *)
Outcomes == {<<200, "ok">>, <<500, "output-validation-failed">>, <<422, "declared-error">>,
             <<500, "undeclared-error-code">>, <<500, "bad-handler-return-type">>, <<500, "handler-exception">>}
Serve ==
  /\ At("serve")
  /\ \/ \E r \in ServeRefusals : Refuse(r[1], r[2])
     \/ ServeRefusals = {} /\ \E o \in Outcomes : Answer(o[1], o[2]) /\ Ran(entry)
     \/ ServeRefusals = {} /\ setting.hooks /\ Refuse(200, "short-circuit")
     \/ ServeRefusals = {} /\ setting.hooks /\ asked.http /\ Refuse(500, "gateway-internal-error")
     \/ /\ ServeRefusals = {} /\ setting.hooks /\ ~asked.http
        /\ at' = "closed" /\ UNCHANGED <<road, answer, ran>> /\ Keep

(* The method registry: the last word on what the agent declares. *)
Primitive ==
  /\ At("primitive")
  /\ \/ key.verb \notin Primitives /\ Refuse(405, "method-not-implemented")
     \/ key.verb \in Primitives /\ ~Accepts(doc, key.verb) /\ Refuse(405, "method-not-in-requires")
     \/ /\ key.verb \in Primitives /\ Accepts(doc, key.verb)
        /\ Answer(200, "primitive") /\ Ran([verb |-> key.verb])

PathNext ==
  \/ Wire \/ HttpEntry \/ CertGate \/ DelegationGate \/ AddressGate \/ Directory \/ Manifest \/ Select
  \/ SoftDeny \/ Lifecycle \/ Alias \/ ScopeClaim \/ OAuth \/ CatalogGate \/ Grammar \/ Policy
  \/ Redirect \/ Endpoint \/ Serve \/ Primitive

PathSpec == PathInit /\ [][PathNext]_pathVars
-----------------------------------------------------------------------------
(* Introspection is not renamed by the operator's tables. *)
TablesSpareIntrospection ==
  /\ DOMAIN setting.policy.alias \cap Introspection = {}
  /\ \A r \in setting.policy.redirects : r.verb \notin Introspection

(* Whatever the rewrites, no handler runs for an agent that is suspended or
   retired, unless the request was for introspection from the start.  (The
   lifecycle gate reads the verb before alias and redirect rename it.  It
   serves an agent whose document says draft or anything else it has no rule
   for; what it does to a deprecated one contradicts the description of
   DEPRECATE: see DeprecatedStaysInReach in AgentLifecycle.) *)
ServedInService ==
  ran # Absent /\ TablesSpareIntrospection =>
     \/ doc.status \notin {"suspended", "retired"}
     \/ ran.entry.verb \in Introspection

(* The agent a request is served for is the one named by every source that
   names one: the header, the path, the operator's pin of the HTTP gateway if
   the header is missing, and the certificate where the server insists on it
   or the header names none. *)
IdentitySourcesAgree ==
  ran # Absent =>
     /\ asked.agent \in {Absent, target}
     /\ asked.http /\ asked.agent = Absent => target = setting.pinned
     /\ asked.handle \in {Absent, doc.name}
     /\ Certified /\ (setting.insist \/ asked.agent = Absent) => asked.cert.agent = target

=============================================================================
