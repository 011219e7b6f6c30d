---------------------------- MODULE MCOperations ----------------------------
(* What an operator does around a daemon, one part of it in a behaviour.
   Endpoints: three OpenAPI documents, directories with the files an
   operator may have left, modules that have more or less than is asked.
   Enrollment: two registrations of one name.  CertSessions: one session
   that moves between the certificates of two agents, two sweeps.
   Proposals: two of them, or one command line.  Composition: three shelves
   of policies and what they make of a few proposals. *)
EXTENDS Endpoints, Enrollment, CertSessions, Proposals, Composition

VARIABLE part   \* what the behaviour is about

MCApproved == {"FETCH", "LIST", "CREATE", "REPLACE", "REMOVE", "MODIFY", "DESCRIBE", "BOOK", "ORDER",
               "VALIDATE", "DISCOVER", "QUERY"}
MCPaths == {"/rooms", "/rooms/{id}", "/rooms/id", "/list", "/methods", "/proposals", "/desk"}
MCClean == [p \in MCPaths \cup {"/rooms/"} |-> IF p = "/rooms/" THEN "/rooms" ELSE p]
MCSlug == [p \in MCPaths |-> IF p \in {"/rooms/{id}", "/rooms/id"} THEN "rooms_id" ELSE p]

Operation == [http |-> "GET", path |-> "/rooms", words |-> {}, says |-> [s \in {} |-> s],
              shape |-> "object", properties |-> {"guest"}, params |-> {"", "id"}]
MCDocuments ==
  {[server |-> b, override |-> Absent,
    ops |-> <<[Operation EXCEPT !.says = [s \in {"404"} |-> "no_such_room"]],
              [Operation EXCEPT !.http = "POST", !.words = {"ORDER", "BOOK"}, !.says = [s \in {"401", "409"} |-> Absent]],
              [Operation EXCEPT !.http = "DELETE", !.path = "/rooms/{id}"],
              [Operation EXCEPT !.http = "GET", !.path = "/rooms/{id}"]>>] : b \in {"http://", Absent}}
  \cup
  {[server |-> b, override |-> "https://",
    ops |-> <<[Operation EXCEPT !.http = "POST", !.path = "/rooms/{id}", !.properties = {""}],
              [Operation EXCEPT !.http = "POST", !.path = "/rooms/id"],
              [Operation EXCEPT !.http = "HEAD", !.path = "/list"],
              [Operation EXCEPT !.http = "PATCH", !.words = {"BOOK", "VALIDATE"}, !.shape = "array"],
              [Operation EXCEPT !.http = "PUT", !.path = "/rooms/"],
              [Operation EXCEPT !.says = [s \in {"404"} |-> "no_such_room"]],
              [Operation EXCEPT !.http = "DELETE", !.path = "/rooms/{id}"]>>] : b \in {"http://"}}

HandFile == [by |-> "operator", text |-> "whole", verb |-> "FETCH", path |-> "/desk", fields |-> {"guest"},
         impact |-> "reversible", idempotent |-> TRUE,
         type |-> "registered_function", ref |-> "shop.fetch", http |-> Absent,
         errors |-> {"no_desk"}, map |-> [s \in {} |-> s]]
Outside == [HandFile EXCEPT !.type = "external_service", !.ref = "https://", !.http = "GET"]
Name(x) == <<"hand", x>>
MCDirectories ==
  {[n \in {} |-> HandFile],
   [n \in {Name("a"), Name("b"), Name("c")} |->
      CASE n = Name("a") -> HandFile
        [] n = Name("b") -> [HandFile EXCEPT !.ref = "shop.other"]
        [] n = Name("c") -> [HandFile EXCEPT !.verb = "DISCOVER", !.path = "/methods", !.ref = "shop.inventory"]],
   [n \in {Name("a"), Name("b"), Name("c")} |->
      CASE n = Name("a") -> [HandFile EXCEPT !.type = "composition", !.ref = "recipe", !.errors = @ \cup {"composition_failed"}]
        [] n = Name("b") -> [HandFile EXCEPT !.type = "composition", !.ref = "recipe", !.verb = "CREATE"]
        [] n = Name("c") -> [HandFile EXCEPT !.verb = "CREATE", !.type = "proxy"]],
   [n \in {Name("a"), Name("b"), <<"LIST", "/rooms">>} |->
      CASE n = Name("a") -> [Outside EXCEPT !.map = [s \in {"404"} |-> "no_desk"]]
        [] n = Name("b") -> [Outside EXCEPT !.verb = "CREATE", !.ref = "https:"]
        [] n = <<"LIST", "/rooms">> -> [Outside EXCEPT !.verb = "LIST", !.path = "/rooms"]],
   [n \in {Name("a"), Name("b")} |-> IF n = Name("a") THEN [HandFile EXCEPT !.ref = "shop.broken"] ELSE [HandFile EXCEPT !.text = "malformed"]],
   [n \in {Name("a"), Name("b")} |-> IF n = Name("a") THEN [HandFile EXCEPT !.text = "odd"] ELSE HandFile]}

MCFunctions == [r \in {"shop.fetch", "shop.other", "shop.inventory", "shop.broken"} |->
                  CASE r = "shop.broken" -> "explodes" [] r = "shop.other" -> "missing" [] OTHER -> "callable"]
MCRecipes == [r \in {"recipe"} |-> {"QUERY"}]
MCRegistries == {{}, {<<"FETCH", "/desk">>}, {<<"FETCH", "/desk">>, <<"DISCOVER", "/methods">>, <<"QUERY", "/proposals">>}}

MCAgent == [s \in Serials |-> IF s = "c3" THEN "b" ELSE "a"]

MCBodies == {[name |-> n, approved |-> n # "WRONG", wellFormed |-> w, duration |-> d] :
               n \in {"BOOK", "BOOKS", "SELL", "WRONG"}, w \in BOOLEAN, d \in {"none", "malformed"}}
MCPolicy == [enabled |-> TRUE, async |-> FALSE, composable |-> {"BOOK"},
             near |-> [n \in {"BOOKS"} |-> "BOOK"]]

From(kind, value) == [kind |-> kind, value |-> value]
DoStep(m, src, cap) == [method |-> m, source |-> src, capture |-> cap]
AnyProposal == [names |-> NoPlan, paths |-> NoPlan, has |-> {}]
Long == [name |-> "long", pattern |-> AnyProposal, mode |-> "merge",
         steps |-> <<DoStep("FIND", {From("proposal", "p")}, "found"),
                     DoStep("TAKE", {From("previous_step", "found"), From("constant", "one")}, NoPlan)>>]
Broken == [name |-> "broken", pattern |-> [AnyProposal EXCEPT !.has = {"q"}], mode |-> "last",
           steps |-> <<DoStep("FIND", {}, NoPlan), DoStep("TAKE", {From("previous_step", "lost")}, NoPlan)>>]
Short == [name |-> "short", pattern |-> [AnyProposal EXCEPT !.names = {"BOOK"}, !.paths = {"/room"}], mode |-> "list",
          steps |-> <<DoStep("TAKE", {From("proposal", "q")}, NoPlan)>>]
ByRecipe(r) == [kind |-> "recipes", recipes |-> r]
MCShelves == {<<ByRecipe(<<Long, Short>>), [kind |-> "passthrough"]>>,
              <<ByRecipe(<<Short, Broken>>), ByRecipe(<<Long>>)>>, <<[kind |-> "passthrough"]>>}
MCProposed == {[name |-> n, path |-> p, params |-> v] :
                 n \in {"BOOK", "FIND"}, p \in {"/", "/room"}, v \in {{"p"}, {"p", "q"}}}
MCAvailable == {{"FIND", "TAKE"}, {"TAKE"}, {"FIND"}, {}}

Opened == CHOOSE x \in MCProposed : TRUE
Unproposed == proposal = Opened /\ shelf = <<>> /\ available = {} /\ depth = 0
           /\ chosen = NoPlan /\ given = {} /\ next = 1 /\ context = {} /\ captured = <<>> /\ outcome = NoPlan
Parts == {"endpoints", "enrollment", "sessions", "store", "cli", "plans"}
MCInit ==
  /\ EndInit /\ EnInit /\ CeInit /\ ProposalInit
  /\ part \in Parts
  /\ part # "endpoints" => ~gateway /\ files = [n \in {} |-> HandFile]
  /\ IF part = "plans" THEN ComposeInit ELSE Unproposed
MCNext ==
  /\ UNCHANGED part
  /\ \/ part = "endpoints" /\ EndNext /\ UNCHANGED <<envars, cevars, proposalVars, composeVars>>
     \/ part = "enrollment" /\ EnNext /\ UNCHANGED <<endvars, cevars, proposalVars, composeVars>>
     \/ part = "sessions" /\ CeNext /\ UNCHANGED <<endvars, envars, proposalVars, composeVars>>
     \/ part = "store" /\ StoreNext /\ UNCHANGED <<endvars, envars, cevars, composeVars>>
     \/ part = "cli" /\ CliNext /\ UNCHANGED <<endvars, envars, cevars, composeVars>>
     \/ part = "plans" /\ ComposeNext /\ UNCHANGED <<endvars, envars, cevars, proposalVars>>
MCSpec == MCInit /\ [][MCNext]_<<endvars, envars, cevars, proposalVars, composeVars, part>>
=============================================================================
