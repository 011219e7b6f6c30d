------------------------------ MODULE Endpoints ------------------------------
(***************************************************************************)
(* The road of an endpoint from its description to its answers: the        *)
(* importer that writes endpoint files from an OpenAPI document            *)
(* (tools/openapi_import.py), the loader and the validator                 *)
(* (server/endpoint_loader.py, endpoint_registry.py), the resolution of    *)
(* its handler (server/handler_resolution.py), the boot of the daemon      *)
(* (server/main.py run), the endpoint set a runtime module is told, and    *)
(* the answer a request to it gets.  A file is a record of what the        *)
(* program tells apart in it; paths and codes are names.                   *)
(***************************************************************************)
EXTENDS Naturals, Sequences, FiniteSets

CONSTANTS
  Absent,
  Documents,    \* OpenAPI documents: [server, override |-> url schemes or Absent, ops |-> sequence]
  Directories,  \* endpoint files as an operator may have left them: [name -> file]
  Approved,     \* verbs of the catalog
  BadPaths,     \* paths validate_path refuses
  Clean,        \* what translate_path makes of an OpenAPI path
  Slug,         \* what a path becomes in a file name
  Items,        \* paths whose last segment is a parameter
  Functions,    \* what importing a function reference comes to: callable, missing, explodes
  Recipes,      \* steps of each recipe of the synthesis runtime
  Implemented,  \* verbs with a handler in the method registry
  Statuses,     \* HTTP error statuses an upstream may answer
  HandlerCodes, \* error codes handlers of the operator may return
  Registries    \* endpoint sets a runtime module may have registered

\* What the importer wrote comes from an import; "cache" is the name of no status.
ASSUME EndpointAssumption ==
  /\ \A d \in Directories : \A n \in DOMAIN d : d[n].by # "importer"
  /\ "cache" \notin Statuses \cup {Absent}

VARIABLES
  files,    \* the endpoints directory
  stage,    \* how far the daemon has come up
  gateway,  \* it runs with --gateway-socket
  specs,    \* what loaded of the directory
  entries,  \* EndpointRegistry: [verb, path] to the file it was registered from
  routed,   \* the endpoint set the gateway tells a module
  module,   \* the registry of the module in service, or Absent
  kept,     \* endpoints mod_cache holds an answer of
  reply     \* the latest answer

endvars == <<files, stage, gateway, specs, entries, routed, module, kept, reply>>
booted  == <<files, stage, gateway, specs, entries, routed, module>>

Key(f) == <<f.verb, f.path>>

-----------------------------------------------------------------------------
(* The importer: one operation [http, path, words, says, shape,            *)
(* properties, params] becomes one file.  words: verbs whose keyword its   *)
(* path, summary or id has; says: its error responses with their           *)
(* description as a code; shape: of the request body.                      *)

\* _KEYWORD_OVERRIDES, in the order they are tried; the last four also on PATCH.
Keywords == <<"CANCEL", "CONFIRM", "PURCHASE", "ORDER", "BOOK", "RESERVE", "PAY", "SUBMIT", "REGISTER",
              "PUBLISH", "SEND", "NOTIFY", "VALIDATE", "AUDIT", "EVALUATE", "VERIFY">>
DefaultVerb == [POST |-> "CREATE", PUT |-> "REPLACE", DELETE |-> "REMOVE", PATCH |-> "MODIFY",
                HEAD |-> "DESCRIBE", OPTIONS |-> "DESCRIBE"]

VerbOf(op) ==
  LET hits == {i \in DOMAIN Keywords : /\ Keywords[i] \in op.words
                                       /\ op.http = "POST" \/ (op.http = "PATCH" /\ i > 12)}
  IN CASE hits # {} -> Keywords[CHOOSE i \in hits : \A j \in hits : i <= j]
       [] hits = {} /\ op.http = "GET" -> IF op.path \in Items THEN "FETCH" ELSE "LIST"
       [] hits = {} /\ op.http # "GET" -> DefaultVerb[op.http]

\* A response without a description is named after its status.
ErrorMap(op) == [s \in DOMAIN op.says |-> IF op.says[s] = Absent THEN s ELSE op.says[s]]
Mapped(map) == {map[s] : s \in DOMAIN map}

Transport == {"upstream_timeout", "upstream_connection_error", "upstream_malformed_response",
              "upstream_authentication_failed", "upstream_error"}

\* Mutant of Declared: the codes the handler itself produces are left out.
DeclaredOfResponses(map) == Mapped(map)

Declared(map) == Mapped(map) \cup Transport

\* A body that is no object is one field; a parameter without a name is
\* dropped, a property without one is not.
BodyFields(op) == IF op.shape = "object" THEN op.properties ELSE {"body"}
ParamFields(op) == op.params \ {""}

\* Mutant of ImpactOf: a method that may be repeated may be undone.
ImpactOfRepeatable(op) ==
  IF op.http \in {"POST", "PATCH"} THEN "irreversible"
  ELSE IF op.http \in {"PUT", "DELETE"} THEN "reversible" ELSE "informational"

ImpactOf(op) == IF op.http \in {"POST", "PATCH", "PUT", "DELETE"} THEN "irreversible" ELSE "informational"

\* Without a server in the document the url is the bare path.
BaseOf(d) == IF d.override # Absent THEN d.override ELSE IF d.server # Absent THEN d.server ELSE "path"

Convert(op, base) ==
  [by |-> "importer", text |-> "whole", verb |-> VerbOf(op), path |-> Clean[op.path],
   fields |-> BodyFields(op) \cup ParamFields(op),
   impact |-> ImpactOf(op), idempotent |-> op.http \notin {"POST", "PATCH"},
   type |-> "external_service", ref |-> base, http |-> op.http,
   errors |-> Declared(ErrorMap(op)), map |-> ErrorMap(op)]

FileName(op) == <<VerbOf(op), Slug[Clean[op.path]]>>

\* A later operation overwrites the file of an earlier one of the same name.
Written(d) ==
  [n \in {FileName(d.ops[i]) : i \in DOMAIN d.ops} |->
     LET same == {i \in DOMAIN d.ops : FileName(d.ops[i]) = n}
     IN Convert(d.ops[CHOOSE i \in same : \A j \in same : j <= i], BaseOf(d))]

Found == {files[n] : n \in DOMAIN files}
Import(d) ==
  /\ \A f \in Found : f.by # "importer"   \* bound: one import
  /\ files' = [n \in DOMAIN files \cup DOMAIN Written(d) |->
                 IF n \in DOMAIN Written(d) THEN Written(d)[n] ELSE files[n]]
  /\ UNCHANGED <<stage, gateway, specs, entries, routed, module, kept, reply>>

-----------------------------------------------------------------------------
(* Validation of one file.                                                 *)

\* It takes more schemes than the resolver will.
ExternalValid(f) ==
  /\ f.http # Absent
  /\ f.ref \in {"https://", "https:"}
  /\ Mapped(f.map) \subseteq f.errors

\* _parse_handler keeps no reference of a proxy, and _validate_handler asks
\* for one.
Reference(f) == IF f.type = "proxy" THEN Absent ELSE f.ref
HandlerValid(f) == Reference(f) # Absent /\ (f.type = "external_service" => ExternalValid(f))

ParamsValid(f) == "" \notin f.fields
SemanticValid(f) == f.impact \in {"informational", "reversible", "irreversible"}
SpecValid(f) ==
  /\ f.verb \in Approved /\ f.path \notin BadPaths
  /\ SemanticValid(f) /\ ParamsValid(f) /\ HandlerValid(f)

-----------------------------------------------------------------------------
(* The boot.                                                               *)

\* configure_endpoints, register_builtins, the gateway: in this order.
After == [start |-> "load", load |-> "register", register |-> "builtins",
          builtins |-> "announce", announce |-> "up"]

NoEntries == [k \in {} |-> Absent]
EndInit ==
  /\ files \in Directories /\ gateway \in BOOLEAN
  /\ stage = "start" /\ specs = {} /\ entries = NoEntries /\ routed = {}
  /\ module = Absent /\ kept = {} /\ reply = Absent

Boot ==
  /\ stage = "start" /\ stage' = After[stage]
  /\ UNCHANGED <<files, gateway, specs, entries, routed, module, kept, reply>>

\* A file that does not parse costs a ValueError and is left out; one with a
\* value of the wrong type raises what nobody catches.
Parses(f) == f.text = "whole"
Crashes(f) == f.text = "odd"
Load ==
  /\ stage = "load"
  /\ IF \E f \in Found : Crashes(f)
       THEN stage' = "dead" /\ UNCHANGED specs
       ELSE stage' = After[stage] /\ specs' = {f \in Found : Parses(f) /\ SpecValid(f)}
  /\ UNCHANGED <<files, gateway, entries, routed, module, kept, reply>>

\* Importing the module of a function catches ImportError only.
Explodes(f) == f.type = "registered_function" /\ ~gateway /\ Functions[f.ref] = "explodes"
ResolvesFunction(f) == gateway \/ Functions[f.ref] = "callable"
ResolvesComposition(f) ==
  /\ f.ref \in DOMAIN Recipes /\ Recipes[f.ref] \subseteq Implemented
  /\ "composition_failed" \in f.errors
ResolvesExternal(f) == f.ref = "https://"
Resolves(f) ==
  CASE f.type = "registered_function" -> ResolvesFunction(f)
    [] f.type = "composition" -> ResolvesComposition(f)
    [] f.type = "external_service" -> ResolvesExternal(f)

\* A verb and path go to the first file that claims them.
Claims(bound) ==
  LET keys == {Key(f) : f \in bound}
  IN {first \in [keys -> bound] : \A k \in keys : Key(first[k]) = k}

Register ==
  /\ stage = "register"
  /\ IF \E f \in specs : Explodes(f)
       THEN stage' = "dead" /\ UNCHANGED entries
       ELSE /\ stage' = After[stage]
            /\ \E first \in Claims({f \in specs : Resolves(f) /\ Key(f) \notin DOMAIN entries}) :
                 entries' = [k \in DOMAIN entries \cup DOMAIN first |->
                               IF k \in DOMAIN entries THEN entries[k] ELSE first[k]]
  /\ UNCHANGED <<files, gateway, specs, routed, module, kept, reply>>

\* The daemon's own endpoints: bound in the process, though their binding
\* names a function of the daemon's package.
Builtins == {<<"DISCOVER", "/methods">>, <<"QUERY", "/proposals">>}
Builtin(k) == [by |-> "daemon", text |-> "whole", verb |-> k[1], path |-> k[2], fields |-> {},
               impact |-> "informational", idempotent |-> TRUE,
               type |-> "registered_function", ref |-> "server.builtins", http |-> Absent,
               errors |-> {}, map |-> [s \in {} |-> s]]

RegisterBuiltins ==
  /\ stage = "builtins" /\ stage' = After[stage]
  /\ entries' = [k \in DOMAIN entries \cup Builtins |-> IF k \in DOMAIN entries THEN entries[k] ELSE Builtin(k)]
  /\ UNCHANGED <<files, gateway, specs, routed, module, kept, reply>>

Routed == {k \in DOMAIN entries : entries[k].type = "registered_function"}
Announce ==
  /\ stage = "announce" /\ stage' = After[stage]
  /\ routed' = IF gateway THEN Routed ELSE {}
  /\ UNCHANGED <<files, gateway, specs, entries, module, kept, reply>>

Restart ==
  /\ stage = "up" /\ stage' = "start"
  /\ specs' = {} /\ entries' = NoEntries /\ routed' = {} /\ module' = Absent /\ kept' = {} /\ reply' = Absent
  /\ UNCHANGED <<files, gateway>>

-----------------------------------------------------------------------------
(* In service.                                                             *)

\* A module acknowledges the endpoint set if it has a handler for all of it.
Connects(registry) ==
  /\ stage = "up" /\ gateway /\ module = Absent
  /\ routed \subseteq registry
  /\ module' = registry
  /\ UNCHANGED <<files, stage, gateway, specs, entries, routed, kept, reply>>

\* What came of the request to the upstream: a status with a body that is
\* JSON or not, or one of the ways to have no answer.  A connection reset
\* while the answer is awaited is none the handler catches.
Outcomes == [status : Statuses \cup {"200"}, json : BOOLEAN]
            \cup [status : {"upstream_timeout", "upstream_connection_error", "reset"}, json : {FALSE}]

ExternalCode(f, o) ==
  CASE o.status \in Transport -> o.status
    [] o.status = "reset" -> "exception"
    [] o.status \notin Transport \cup {"reset"} /\ ~o.json -> "upstream_malformed_response"
    [] o.status = "200" /\ o.json -> "ok"
    [] o.status \in Statuses /\ o.json ->
         IF o.status \in DOMAIN f.map THEN f.map[o.status]
         ELSE IF o.status \in {"401", "403"} THEN "upstream_authentication_failed" ELSE "upstream_error"

\* _translate_endpoint_result.
Translated(f, code) ==
  CASE code = "ok" -> {"ok", "output-validation-failed"}
    [] code = "exception" -> {"handler-exception"}
    [] code \notin {"ok", "exception"} -> {IF code \in f.errors THEN "declared" ELSE "undeclared-error-code"}

Reply(f, code, upstream) ==
  /\ \E seen \in Translated(f, code) :
       reply' = [file |-> f, code |-> code, seen |-> seen, upstream |-> upstream]
  /\ UNCHANGED booted

\* mod_cache decides by what the file says of the effects.
Cacheable(f) == f.impact = "informational" \/ (f.impact = "reversible" /\ f.idempotent)

ServeExternal(k) ==
  /\ entries[k].type = "external_service" /\ k \notin kept
  /\ \E o \in Outcomes :
       LET code == ExternalCode(entries[k], o)
       IN /\ Reply(entries[k], code, o.status)
          /\ kept' = IF code = "ok" /\ Cacheable(entries[k]) THEN kept \cup {k} ELSE kept

ServeKept(k) == k \in kept /\ Reply(entries[k], "ok", "cache") /\ UNCHANGED kept
Expire(k) == k \in kept /\ kept' = kept \ {k} /\ UNCHANGED <<booted, reply>>

\* Every step failure is one declared error.
ServeComposition(k) ==
  /\ entries[k].type = "composition"
  /\ \E code \in {"ok", "composition_failed"} : Reply(entries[k], code, Absent)
  /\ UNCHANGED kept

\* The daemon's own endpoints and, without a gateway, the functions it imported.
ServeFunction(k) ==
  /\ entries[k].type = "registered_function" /\ (entries[k].by = "daemon" \/ ~gateway)
  /\ \E code \in IF entries[k].by = "daemon" THEN {"ok"} ELSE HandlerCodes \cup {"ok", "exception"} :
       Reply(entries[k], code, Absent)
  /\ UNCHANGED kept

\* Without a module there is nobody to ask.
ServeModule(k) ==
  /\ entries[k].type = "registered_function" /\ entries[k].by # "daemon" /\ gateway
  /\ \E code \in IF module = Absent THEN {"gateway_unavailable"} ELSE HandlerCodes \cup {"ok"} :
       Reply(entries[k], code, Absent)
  /\ UNCHANGED kept

InService(k) == ServeExternal(k) \/ ServeKept(k) \/ Expire(k) \/ ServeComposition(k) \/ ServeFunction(k) \/ ServeModule(k)

EndNext ==
  \/ \E d \in Documents : Import(d)
  \/ Boot \/ Load \/ Register \/ RegisterBuiltins \/ Announce \/ Restart
  \/ \E registry \in Registries : Connects(registry)
  \/ stage = "up" /\ \E k \in DOMAIN entries : InService(k)
EndSpec == EndInit /\ [][EndNext]_endvars

-----------------------------------------------------------------------------
(* An endpoint the importer wrote and the daemon registered never answers
   an error it has not declared, whatever the upstream does: importer,
   validator, resolver, handler and dispatcher agree on the codes. *)
ImportedErrorsDeclared ==
  reply # Absent => (reply.file.by = "importer" => reply.seen # "undeclared-error-code")

(* What the cache answers for the upstream is a read: an imported operation
   that changes something there reaches it each time it is called. *)
WritesReachUpstream ==
  reply # Absent => (reply.upstream = "cache" /\ reply.file.by = "importer" =>
                       reply.file.http \notin {"POST", "PUT", "PATCH", "DELETE"})

OwnedByModule == {k \in DOMAIN entries : entries[k].type = "registered_function" /\ entries[k].by # "daemon"}

(* docs/external-service-handlers.md: "On HTTP error (4xx / 5xx), the handler
   consults error_map for the upstream status code. Mapped codes ride the
   structured EndpointError." *)
MappedStatusIsUsed ==
  reply # Absent => (reply.upstream \in DOMAIN reply.file.map => reply.code = reply.file.map[reply.upstream])

(* docs/architecture/gateway-protocol.md: "Daemon sends register carrying the
   endpoint set the module owns": what a module is told it must handle is
   what it would be asked for. *)
ModuleIsTaken == stage = "up" => routed \subseteq OwnedByModule
=============================================================================
