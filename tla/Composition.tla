---------------------------- MODULE Composition ----------------------------
(***************************************************************************)
(* How a proposal becomes a plan and a plan is run                         *)
(* (src/server/synthesis/recipes.py, policies.py, runtime.py).  A plan is  *)
(* composed once, by the first policy that returns one; it is run later,   *)
(* step by step, each step through the dispatcher of the daemon, and a     *)
(* step may use what earlier steps returned.                               *)
(***************************************************************************)
EXTENDS Naturals, Sequences, FiniteSets, SequencesExt

CONSTANTS
  NoPlan,      \* no plan, no capture name, no pattern field
  Open,        \* nothing composed yet
  Proposed,    \* proposals: [name, path, params]
  Shelves,     \* policies of a server: sequences of [kind, recipes]
  Available,   \* sets of methods the server may offer
  Depths       \* values of max_synthesis_depth; 0 is no limit

\* Loading a recipe leaves it with a list of steps; NoPlan is no outcome.
ASSUME CompositionAssumption ==
  /\ \A s \in Shelves : \A i \in DOMAIN s : s[i].kind # "passthrough" =>
       \A j \in DOMAIN s[i].recipes : Len(s[i].recipes[j].steps) \in Nat
  /\ NoPlan # [code |-> 404, why |-> "synthesis-step-failed"]

VARIABLES
  proposal, shelf, available, depth,  \* what attempt_synthesis is called with
  chosen,      \* Open, or what it returned: a plan or NoPlan
  given,       \* names of the parameters sent with the invocation
  next,        \* step of the plan about to run
  context,     \* captured outputs, by name
  captured,    \* outcomes of the steps so far: [method, params, code]
  outcome      \* [code, why] of the invocation, NoPlan until then

offer == <<proposal, shelf, available, depth>>
composeVars == <<offer, chosen, given, next, context, captured, outcome>>

ComposeInit ==
  /\ proposal \in Proposed /\ shelf \in Shelves /\ available \in Available /\ depth \in Depths
  /\ chosen = Open /\ given = {} /\ next = 1 /\ context = {} /\ captured = <<>> /\ outcome = NoPlan

(* RecipePattern.matches: every field a pattern has must agree; a regex is
   the set of the names or paths it matches. *)
MatchesPattern(p, prop) ==
  /\ p.names = NoPlan \/ prop.name \in p.names
  /\ p.paths = NoPlan \/ prop.path \in p.paths
  /\ p.has \subseteq prop.params

MethodsOf(steps) == {s.method : s \in Range(steps)}

(* PassthroughPolicy.compose: the method of that name, with the proposal's
   own parameters. *)
Passthrough(prop) ==
  [policy |-> "passthrough", recipe |-> NoPlan, mode |-> "last",
   steps |-> <<[method |-> prop.name, source |-> {[kind |-> "proposal", value |-> v] : v \in prop.params},
                capture |-> NoPlan]>>]

(* RecipeBasedPolicy.compose: the first recipe that matches and whose methods
   the server has.  A policy gives one plan, or none. *)
Composable(r, prop) == MatchesPattern(r.pattern, prop) /\ MethodsOf(r.steps) \subseteq available

FromPolicy(pol, prop) ==
  IF pol.kind = "passthrough"
  THEN {Passthrough(prop) : n \in {prop.name} \cap available}
  ELSE LET fits(i) == Composable(pol.recipes[i], prop)
           first == {i \in DOMAIN pol.recipes : fits(i) /\ \A j \in 1..i - 1 : ~fits(j)} IN
       {[policy |-> "recipes", recipe |-> pol.recipes[i].name, mode |-> pol.recipes[i].mode,
         steps |-> pol.recipes[i].steps] : i \in first}

Fitting(i) == {plan \in FromPolicy(shelf[i], proposal) : depth > 0 => Len(plan.steps) <= depth}

(* attempt_synthesis: one plan per policy; a plan that is too long costs the
   policy its turn, however many shorter recipes it has. *)
Attempt ==
  /\ chosen = Open
  /\ \/ \E i \in DOMAIN shelf : chosen' \in Fitting(i) /\ \A j \in 1..i - 1 : Fitting(j) = {}
     \/ (\A i \in DOMAIN shelf : Fitting(i) = {}) /\ chosen' = NoPlan
  /\ UNCHANGED <<offer, given, next, context, captured, outcome>>

(***************************************************************************)
(* execute_plan: parameters are resolved from the invocation, constants    *)
(* and earlier captures; the first step that is not answered 200 ends it.  *)
(***************************************************************************)
Running == chosen \notin {Open, NoPlan} /\ outcome = NoPlan
Invoke ==
  /\ Running /\ next = 1 /\ captured = <<>> /\ given = {}
  /\ given' \in {proposal.params, {CHOOSE v \in proposal.params : TRUE}} /\ given' # {}
  /\ UNCHANGED <<offer, chosen, next, context, captured, outcome>>

Dangling(s) == \E x \in s.source : x.kind = "previous_step" /\ x.value \notin context
Resolved(s) == {x \in s.source : x.kind = "proposal" => x.value \in given}

BadReference ==
  /\ Running /\ given # {} /\ next <= Len(chosen.steps) /\ Dangling(chosen.steps[next])
  /\ outcome' = [code |-> 500, why |-> "synthesis-bad-reference"]
  /\ UNCHANGED <<offer, chosen, given, next, context, captured>>

Dispatched(s, code) == captured' = Append(captured, [method |-> s.method, params |-> Resolved(s), code |-> code])

(* Mutant of RunStep: a failed step is recorded and the plan goes on. *)
RunStepCarriesOn ==
  LET s == chosen.steps[next] IN
  /\ Running /\ given # {} /\ next <= Len(chosen.steps) /\ ~Dangling(s)
  /\ \E code \in {200, 404} : Dispatched(s, code)
  /\ next' = next + 1 /\ context' = context \cup ({s.capture} \ {NoPlan})
  /\ UNCHANGED <<offer, chosen, given, outcome>>

RunStep ==
  LET s == chosen.steps[next] IN
  /\ Running /\ given # {} /\ next <= Len(chosen.steps) /\ ~Dangling(s)
  /\ \/ /\ Dispatched(s, 200) /\ next' = next + 1 /\ context' = context \cup ({s.capture} \ {NoPlan})
        /\ UNCHANGED outcome
     \/ \E code \in {200, 404} \ {200} :
          /\ Dispatched(s, code) /\ outcome' = [code |-> code, why |-> "synthesis-step-failed"]
          /\ UNCHANGED <<next, context>>
  /\ UNCHANGED <<offer, chosen, given>>

(* _aggregate: last, merge or list of what the steps returned. *)
Aggregate ==
  /\ Running /\ given # {} /\ next > Len(chosen.steps)
  /\ outcome' = [code |-> 200, why |-> chosen.mode]
  /\ UNCHANGED <<offer, chosen, given, next, context, captured>>

ComposeNext == Attempt \/ Invoke \/ BadReference \/ RunStep \/ Aggregate
ComposeSpec == ComposeInit /\ [][ComposeNext]_composeVars
-----------------------------------------------------------------------------
(* server/synthesis/runtime.py:703: steps run in the plan's order, each one
   only after all before it were answered 200, and a success is reported
   only when every step of the plan ran and succeeded. *)
PartialPlansFail ==
  /\ \A i \in DOMAIN captured : i < Len(captured) => captured[i].code = 200
  /\ outcome # NoPlan /\ outcome.code = 200 =>
       /\ Len(captured) = Len(chosen.steps)
       /\ \A i \in DOMAIN captured : captured[i].code = 200 /\ captured[i].method = chosen.steps[i].method
=============================================================================
