--------------------------- MODULE MCRequestPath ---------------------------
(* One request through every gate, for requests, configurations and agent
   documents that differ from an ordinary one in a few fields at a time; the
   command line of one client, with two hosts where the agent it asks for
   may be, be gone, or be one of several; the desktop client; and what
   MCAnswers has.  They share no state: a behaviour is of one of them. *)
EXTENDS Clients, MCAnswers, Elemen

Plain == [http |-> FALSE, wellFormed |-> TRUE, verb |-> "QUERY", path |-> "/", handle |-> Absent, agent |-> "a1",
          cert |-> Absent, principal |-> Absent, delegation |-> FALSE, identity |-> FALSE,
          claim |-> {}, token |-> Absent, body |-> "ok"]
Verbs == {"DISCOVER", "QUERY", "FETCH", "GET", "BOOK", "RESERVE", "WORD", "ANNOUNCE", "RESOLVE", "PING"}
Certs == {[valid |-> v, agent |-> a, principal |-> p] :
            v \in BOOLEAN, a \in {"a1", "a2"}, p \in {Absent, "p1"}}

MCRequests ==
  {[Plain EXCEPT !.verb = v, !.path = p] : v \in Verbs, p \in {"/", "/room", "/book", "/desk", "/population"}}
  \cup {[Plain EXCEPT !.agent = a, !.handle = h, !.cert = c, !.principal = p] :
          a \in {Absent, "a1", "a2"}, h \in {Absent, "one", "two", "three"},
          c \in Certs \cup {Absent}, p \in {Absent, "p1", "p2"}}
  \cup {[Plain EXCEPT !.verb = v, !.agent = a, !.identity = i] :
          v \in {"DISCOVER", "QUERY"}, a \in {Absent, "a3"}, i \in BOOLEAN}
  \cup {[Plain EXCEPT !.verb = v, !.path = "/room", !.claim = c, !.token = t, !.body = b] :
          v \in {"GET", "BOOK"}, c \in {{}, {"s1"}}, t \in {Absent, "good", "bad"},
          b \in {"ok", "malformed", "invalid"}}
  \cup {[Plain EXCEPT !.http = TRUE, !.verb = v, !.path = p, !.agent = a] :
          v \in {"GET", "POST"}, p \in {"/", "/room"}, a \in {Absent, "a1", "a3"}}
  \cup {[Plain EXCEPT !.wellFormed = FALSE], [Plain EXCEPT !.delegation = TRUE]}

MCCatalog == {"DISCOVER", "DESCRIBE", "QUERY", "FETCH", "BOOK", "RESERVE", "ANNOUNCE", "RESOLVE", "PING"}
MCEmbedded == {"DISCOVER", "DESCRIBE", "QUERY"}
MCPrimitives == {"DISCOVER", "DESCRIBE", "QUERY", "FETCH"}
MCBadPaths == {"/book"}
MCEndpoints == {[verb |-> "FETCH", path |-> "/room", scopes |-> {"s1"}, bound |-> TRUE],
                [verb |-> "RESERVE", path |-> "/room", scopes |-> {}, bound |-> TRUE],
                [verb |-> "RESERVE", path |-> "/desk", scopes |-> {}, bound |-> FALSE]}

MCPreferred == [v \in {"GET", "POST"} |-> IF v = "GET" THEN "FETCH" ELSE "CREATE"]
NoTable == [allow |-> Absent, disallow |-> {}, legacy |-> Absent, redirects |-> <<>>, aliases |-> Absent]
Usual == [pinned |-> Absent, mtls |-> TRUE, insist |-> TRUE, roles |-> {}, anonymous |-> TRUE, wildcards |-> TRUE,
          policy |-> NoTable, hooks |-> FALSE,
          oauth |-> [enabled |-> FALSE, required |-> {"FETCH"}, validator |-> "ok"]]
Rewriting(v, p, w, q) == [verb |-> v, path |-> p, toVerb |-> w, toPath |-> q]
Rewrites == {<<>>, <<Rewriting("BOOK", Absent, "RESERVE", Absent)>>,
             <<Rewriting("BOOK", Absent, "RESERVE", Absent), Rewriting("RESERVE", Absent, "BOOK", Absent)>>,
             <<Rewriting("BOOK", Absent, "FETCH", Absent), Rewriting("BOOK", Absent, "WORD", Absent),
               Rewriting("BOOK", Absent, "QUERY", Absent), Rewriting("BOOK", "/room", "RESERVE", "/desk")>>}
Tables ==
  {[NoTable EXCEPT !.aliases = [v \in {} |-> v], !.legacy = {"GET"}, !.allow = {"FETCH", "WORD"}],
   [NoTable EXCEPT !.aliases = [v \in {"WORD", "GET"} |-> IF v = "WORD" THEN "FETCH" ELSE "WORD"], !.allow = All],
   [NoTable EXCEPT !.legacy = All, !.disallow = {"GET", "WORD"}],
   [NoTable EXCEPT !.legacy = {"WORD"}], [NoTable EXCEPT !.aliases = [v \in {"WORD"} |-> ""]],
   [NoTable EXCEPT !.redirects = <<Rewriting("BOOK", "/room", "RESERVE", Absent)>>]}
MCSettings ==
  {[Usual EXCEPT !.mtls = m, !.insist = i, !.anonymous = a] : m \in BOOLEAN, i \in BOOLEAN, a \in BOOLEAN}
  \cup {[Usual EXCEPT !.policy = [NoTable EXCEPT !.redirects = r, !.disallow = d], !.hooks = TRUE] :
          r \in Rewrites, d \in {{}, {"QUERY", "RESERVE"}}}
  \cup {[Usual EXCEPT !.oauth = [enabled |-> TRUE, required |-> {"FETCH"}, validator |-> v]] : v \in {"ok", "broken"}}
  \cup {[Usual EXCEPT !.roles = {"presence", "ans", "dht"}],
        [Usual EXCEPT !.wildcards = FALSE], [Usual EXCEPT !.pinned = "a2", !.hooks = TRUE]}
  \cup {[Usual EXCEPT !.policy = t] : t \in Tables}

Nothing == [f \in {} |-> {}]
Ordinary == [name |-> "one", methods |-> {"QUERY", "FETCH"}, wildcards |-> FALSE, scopes |-> {"s1"},
             status |-> "active", oauth |-> Nothing]
MCHostings ==
  {[a \in {"a1"} |-> [Ordinary EXCEPT !.status = s, !.scopes = p]] :
     s \in {"active", "draft", "suspended", "retired", "deprecated"}, p \in {{}, {"s1"}}}
  \cup {[a \in {"a1"} |-> [Ordinary EXCEPT !.wildcards = TRUE, !.methods = {}, !.oauth = o]] :
          o \in {Nothing, [enabled |-> TRUE, required |-> {"QUERY", "FETCH"}]}}
  \cup {[a \in {"a1", "a2"} |-> IF a = "a1" THEN Ordinary ELSE [Ordinary EXCEPT !.name = "two"]]}

Strict == [Ordinary EXCEPT !.methods = {"QUERY", "DESCRIBE"}]
MCBoots ==
  {[docs |-> d, setting |-> Loaded([Usual EXCEPT !.mtls = FALSE, !.wildcards = w])] : w \in BOOLEAN,
     d \in {[a \in {"a1"} |-> Strict],
            [a \in {"a2"} |-> [Strict EXCEPT !.name = "two", !.methods = {"DESCRIBE"}]],
            [a \in {"a1", "a2"} |-> IF a = "a1" THEN [Ordinary EXCEPT !.wildcards = TRUE, !.methods = {"FETCH"}]
                                    ELSE [Strict EXCEPT !.name = "two"]]}}
MCCommands ==
  {c \in [tool : {"agtp", "curl", "match", "check"}, agent : {"a1", Absent}, host : {"h1", Absent},
          verb : {"QUERY", "DESCRIBE", "GET", Absent}] : c.agent # Absent \/ c.host # Absent}
MCEntered == [{"a1"} -> {"h1", "h2", Absent}]

NoPath ==
  /\ PathInit /\ asked = Plain /\ setting = Loaded(Usual) /\ docs = [a \in {"a1"} |-> Ordinary]
NoClient ==
  /\ phase = "none" /\ cmd = Absent /\ place = Absent /\ method = Absent /\ held = Absent
  /\ matched = {} /\ exit = Absent /\ registry = [a \in {} |-> Absent] /\ torn = FALSE
  /\ running = [h \in {} |-> Absent] /\ steady = FALSE
MCInit ==
  /\ ElemenInit
  /\ \/ part = "path" /\ PathInit /\ NoClient /\ NoAnswers
     \/ part = "client" /\ ClientInit /\ NoAnswers
     \/ part = "elemen" /\ NoPath /\ NoClient /\ NoAnswers
     \/ NoPath /\ NoClient /\ AnswersInit
MCNext ==
  \/ part = "path" /\ PathNext /\ UNCHANGED <<clientVars, worldVars, answersVars, elvars>>
  \/ part = "client" /\ ClientNext /\ UNCHANGED <<answersVars, elvars>>
  \/ part = "elemen" /\ ElemenNext /\ UNCHANGED <<clivars, answersVars>>
  \/ AnswersNext /\ UNCHANGED <<clivars, elvars>>
MCSpec == MCInit /\ [][MCNext]_<<clivars, answersVars, elvars>>
=============================================================================
