------------------------------ MODULE Clients ------------------------------
(* The command-line clients (agtp, agtp-curl) against the daemons they find:
   a URI names an agent, a host or both; the registry knows where an agent
   was last put; the daemon there takes the request down the road of
   RequestPath.  Meanwhile the registry's file is rewritten in place and
   daemons stop and start with other agents and other configurations.  The
   PROPOSE command is in Proposals. *)
EXTENDS RequestPath

CONSTANTS
  Hosts,
  Boots,      \* what a daemon may run with: set of [docs, setting]
  Commands,   \* set of [tool, agent, host, verb]; tool "agtp", "curl", "match" or "check"
  Entered     \* the registries to start from: agent -> host or Absent

ASSUME NoExitYet == Absent \notin {"0", "1", "2", "traceback"}   \* Absent is no exit status

VARIABLES
  phase,         \* the client's next step
  cmd,        \* the command line
  place,      \* host:port it resolved to
  method,     \* the method of the request in flight
  held,       \* the Agent Document a match holds while it asks for the manifest
  matched,    \* the methods a match reported
  exit,       \* exit status, Absent while it runs
  registry,   \* agent -> host or Absent
  torn,       \* the registry's file is being rewritten
  running,    \* host -> its daemon or Absent
  steady      \* no daemon has stopped since the command began

clientVars == <<phase, cmd, place, method, held, matched, exit>>
worldVars == <<registry, torn, running, steady>>
clivars == <<pathVars, clientVars, worldVars>>

Bare == [http |-> FALSE, wellFormed |-> TRUE, verb |-> "DISCOVER", path |-> "/", handle |-> Absent, agent |-> Absent,
         cert |-> Absent, principal |-> Absent, delegation |-> FALSE, identity |-> FALSE,
         claim |-> {}, token |-> Absent, body |-> "ok"]

ClientInit ==
  /\ cmd \in Commands /\ registry \in Entered /\ running \in [Hosts -> Boots \cup {Absent}]
  /\ torn = FALSE /\ steady = TRUE
  /\ phase = "parse" /\ place = Absent /\ method = Absent /\ held = Absent /\ matched = {} /\ exit = Absent
  /\ at = "idle" /\ asked = Bare /\ verb = Bare.verb /\ path = "/" /\ target = Absent
  /\ key = [verb |-> verb, path |-> path] /\ answer = Absent /\ ran = Absent
  /\ LET b == CHOOSE b \in Boots : TRUE IN setting = b.setting /\ docs = b.docs

Exit(code) == phase' = "exit" /\ exit' = code /\ UNCHANGED <<cmd, place, method, held, matched>>
Idle == UNCHANGED <<pathVars, worldVars>>

\* the method when the command line names none
Default == IF cmd.agent = Absent THEN "DISCOVER" ELSE "DESCRIBE"

Misused ==
  \/ cmd.tool = "match" /\ cmd.agent = Absent
  \/ cmd.tool = "check" /\ cmd.verb = Absent
  \/ cmd.tool = "agtp" /\ cmd.agent = Absent /\ cmd.verb = "DESCRIBE"
Uncatalogued == cmd.tool = "check" /\ cmd.verb \notin Catalog

Parse ==
  /\ phase = "parse" /\ Idle
  /\ \/ Misused /\ Exit("2")
     \/ ~Misused /\ Uncatalogued /\ Exit("1")
     \/ /\ ~Misused /\ ~Uncatalogued /\ phase' = "resolve"
        /\ method' = (IF cmd.tool = "match" \/ cmd.verb = Absent THEN Default ELSE cmd.verb)
        /\ UNCHANGED <<cmd, place, held, matched, exit>>

\* lookup_registry: an entry that is not there ends the command; the registry's thread that
\* reads a file half written dies without an answer, which is no URLError and goes uncaught
Resolve ==
  /\ phase = "resolve" /\ Idle
  /\ IF cmd.host # Absent THEN phase' = "send" /\ place' = cmd.host /\ UNCHANGED <<cmd, method, held, matched, exit>>
     ELSE IF torn THEN Exit("traceback")
     ELSE IF registry[cmd.agent] = Absent THEN Exit("1")
     ELSE phase' = "send" /\ place' = registry[cmd.agent] /\ UNCHANGED <<cmd, method, held, matched, exit>>

\* the manifest is the server's: a DISCOVER without a target
ManifestOf == phase = "manifest"

(* Mutant of Addressee: the registry has already picked the host. *)
AddresseeByHost == IF ManifestOf \/ cmd.host = Absent THEN Absent ELSE cmd.agent

Addressee == IF ManifestOf THEN Absent ELSE cmd.agent

Send ==
  /\ phase \in {"send", "manifest", "use"}
  /\ UNCHANGED worldVars
  /\ IF running[place] = Absent THEN Exit("1") /\ UNCHANGED pathVars
     ELSE /\ phase' = (CASE phase = "send" -> "await" [] phase = "manifest" -> "await manifest" [] phase = "use" -> "await use")
          /\ LET v == IF ManifestOf THEN "DISCOVER" ELSE method IN
               /\ asked' = [Bare EXCEPT !.verb = v, !.agent = Addressee]
               /\ setting' = running[place].setting /\ docs' = running[place].docs
               /\ at' = "wire" /\ verb' = v /\ path' = "/" /\ target' = Addressee
               /\ key' = [verb |-> v, path |-> "/"] /\ answer' = Absent /\ ran' = Absent
          /\ UNCHANGED <<cmd, place, method, held, matched, exit>>

Awaiting == phase \in {"await", "await manifest", "await use"}
Road == PathNext /\ Awaiting /\ UNCHANGED <<clientVars, worldVars>>

\* a daemon that stopped, a connection closed without an answer, ten seconds passed: an
\* error, whatever the daemon has done with the request
Fail == Awaiting /\ Exit("1") /\ Idle

(* Mutant of Explicit: what the server has is reported, not what is also declared. *)
ExplicitUniverse(d, universe) == IF d.methods = {} THEN {} ELSE universe

Explicit(d, universe) == d.methods \cap universe

\* the manifest lists the method registry and says whether wildcards are accepted
Reported(d) == IF d.wildcards /\ setting.wildcards THEN Primitives ELSE Explicit(d, Primitives)

\* an agent that declares nothing matches any server that has something
Actionable(d) == Reported(d) # {} \/ (d.methods = {} /\ Primitives # {})

Success == IF cmd.tool = "check" THEN answer.code \in {200, 400, 422} \/ answer.why = "method-not-implemented"
           ELSE answer.code = 200

Hear ==
  /\ at = "done" /\ Idle
  /\ \/ phase = "await" /\ cmd.tool # "match" /\ Exit(IF Success THEN "0" ELSE "1")
     \/ phase = "await" /\ cmd.tool = "match" /\ answer.code # 200 /\ Exit("1")
     \/ /\ phase = "await" /\ cmd.tool = "match" /\ answer.code = 200
        /\ phase' = "manifest" /\ held' = doc /\ UNCHANGED <<cmd, place, method, matched, exit>>
     \/ phase = "await manifest" /\ answer.code # 200 /\ Exit("1")
     \/ /\ phase = "await manifest" /\ answer.code = 200
        /\ phase' = "exit" /\ exit' = (IF Actionable(held) THEN "0" ELSE "1")
        /\ matched' = Reported(held) /\ UNCHANGED <<cmd, place, method, held>>
     \/ phase = "await use" /\ Exit("0")

\* the user takes a match at its word
Use ==
  /\ phase = "exit" /\ cmd.tool = "match" /\ matched # {} /\ Idle
  /\ phase' = "use" /\ method' \in matched /\ matched' = {} /\ UNCHANGED <<cmd, place, held, exit>>

-----------------------------------------------------------------------------
(* Around the client *)

Running == exit = Absent
Rewrite ==   \* RegistryStore.register: read, change, write in place
  /\ Running /\ UNCHANGED <<pathVars, clientVars, running, steady>>
  /\ \/ ~torn /\ torn' = TRUE /\ UNCHANGED registry
     \/ /\ torn /\ torn' = FALSE
        /\ \E a \in DOMAIN registry, h \in Hosts : registry' = [registry EXCEPT ![a] = h]

Restart ==
  /\ Running /\ ~Awaiting /\ UNCHANGED <<pathVars, clientVars, registry, torn>>
  /\ steady' = FALSE
  /\ \E h \in Hosts, b \in Boots \cup {Absent} : running' = [running EXCEPT ![h] = b]

ClientNext == Parse \/ Resolve \/ Send \/ Road \/ Fail \/ Hear \/ Use \/ Rewrite \/ Restart
CliSpec == ClientInit /\ [][ClientNext]_clivars
-----------------------------------------------------------------------------
(* An answer a client reports as the agent's is that agent's: with a registry
   entry gone stale, an agent moved to another host, and hosts where a lone
   agent needs no Agent-ID. *)
AnswersForAsked == exit = "0" /\ cmd.tool \in {"agtp", "curl"} /\ cmd.agent # Absent => target = cmd.agent

SoftDenied == answer # Absent /\ answer.why \in {"wildcards-refused", "method-not-permitted-for-agent"}
Used == cmd.tool = "match" /\ asked.agent # Absent /\ method # "DESCRIBE"

(* A method --match-check reported is not refused by the agent's declaration
   when it is then called on the same daemon: the client's reading of the
   document and the manifest and the gate that judges the request are two
   programs. *)
MatchedAreNotDenied ==
  steady /\ Used /\ SoftDenied => held.wildcards /\ ~setting.wildcards

(* core/handshake.py:72: an agent that declares wildcards where the server
   refuses them can reach its explicit list. *)
ExplicitListReachable == steady /\ Used => ~SoftDenied
=============================================================================
