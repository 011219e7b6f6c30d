--------------------------- MODULE ChainInspector ---------------------------
(***************************************************************************)
(* The chain walker (src/tools/chain_inspector/walker.py): a breadth-first *)
(* walk backwards over Attribution-Records that several daemons keep, each *)
(* fetched with INSPECT target=audit, whose answer depends on the daemon's *)
(* read ACL.  Records do not change once written, so a walk sees one graph.*)
(***************************************************************************)
EXTENDS Naturals, Sequences, FiniteSets, SequencesExt

CONSTANTS
  Nowhere,   \* no URI
  Worlds,    \* [records, acl, known, operator, signed, start, startUri]: records
             \* is [id -> [owner, home, prev, refs]], refs a sequence of
             \* [id, agent, uri]; known is [agent -> uri]; acl is [home -> mode]
  MaxSteps   \* the walk's own limit

\* Prior-Actions is a list.
ASSUME WorldAssumption ==
  \A w \in Worlds : \A i \in DOMAIN w.records : w.records[i].refs \in Seq(Range(w.records[i].refs))

VARIABLES
  world,     \* the records and the walker's arguments
  frontier,  \* sequence of [uri, id, parent]
  steps,     \* the steps so far: [id, uri, error, parents]
  over       \* the walk has returned

walkVars == <<world, frontier, steps, over>>

WalkInit ==
  /\ world \in Worlds
  /\ frontier = <<[uri |-> world.startUri, id |-> world.start, parent |-> 0]>>
  /\ steps = <<>> /\ over = FALSE

(* _inspect_acl_check: the caller is the agent the URI names. *)
MayRead(uri, owner) ==
  LET mode == world.acl[uri.home] IN
  \/ mode = "public"
  \/ mode = "agent_only" /\ uri.agent = owner
  \/ mode = "operator_only" /\ world.operator

(* handle_inspect target=audit as _fetch_one reads its answer. *)
Fetch(uri, id) ==
  IF id \notin DOMAIN world.records \/ world.records[id].home # uri.home THEN "audit-record-not-found"
  ELSE IF ~MayRead(uri, world.records[id].owner) THEN "inspect-acl"
  ELSE "fetched"

(* _parse_prior_actions drops entries without an id. *)
WithId(refs) ==
  LET kept[n \in 0..Len(refs)] ==
        IF n = 0 THEN <<>> ELSE IF refs[n].id = 0 THEN kept[n - 1] ELSE Append(kept[n - 1], refs[n])
  IN kept[Len(refs)]
PriorActions(id) == WithId(world.records[id].refs)

Locate(r) ==
  IF r.uri # Nowhere THEN r.uri
  ELSE IF r.agent \in DOMAIN world.known THEN world.known[r.agent] ELSE Nowhere

Predecessors(uri, id, n) ==
  (IF world.records[id].prev = 0 THEN <<>>
   ELSE <<[uri |-> uri, id |-> world.records[id].prev, parent |-> n]>>)
  \o [i \in DOMAIN PriorActions(id) |->
        [uri |-> Locate(PriorActions(id)[i]), id |-> PriorActions(id)[i].id, parent |-> n]]

StepsOf(id) == {n \in DOMAIN steps : steps[n].id = id}
Parents(n) == IF n = 0 THEN {} ELSE {n}

(* Mutant of Again: a step keeps its first parent only. *)
AgainForgets ==
  /\ frontier # <<>> /\ Len(steps) < MaxSteps /\ StepsOf(Head(frontier).id) # {}
  /\ frontier' = Tail(frontier) /\ UNCHANGED <<world, steps, over>>

(* The id has a step already: that step gets one more parent. *)
Again ==
  /\ frontier # <<>> /\ Len(steps) < MaxSteps /\ StepsOf(Head(frontier).id) # {}
  /\ frontier' = Tail(frontier)
  /\ steps' = [n \in DOMAIN steps |->
       IF n \in StepsOf(Head(frontier).id)
       THEN [steps[n] EXCEPT !.parents = @ \cup Parents(Head(frontier).parent)] ELSE steps[n]]
  /\ UNCHANGED <<world, over>>

First ==
  LET e == Head(frontier)
      verdict == IF e.uri = Nowhere THEN "no-agent-uri" ELSE Fetch(e.uri, e.id) IN
  /\ frontier # <<>> /\ Len(steps) < MaxSteps /\ StepsOf(e.id) = {}
  /\ steps' = Append(steps, [id |-> e.id, uri |-> e.uri, verdict |-> verdict, parents |-> Parents(e.parent)])
  /\ frontier' = Tail(frontier) \o
       (IF verdict = "fetched" THEN Predecessors(e.uri, e.id, Len(steps) + 1) ELSE <<>>)
  /\ UNCHANGED <<world, over>>

Return ==
  /\ ~over /\ (frontier = <<>> \/ Len(steps) = MaxSteps) /\ over' = TRUE
  /\ UNCHANGED <<world, frontier, steps>>

WalkNext == Again \/ First \/ Return
WalkSpec == WalkInit /\ [][WalkNext]_walkVars
-----------------------------------------------------------------------------
(* walker.py:9: every predecessor of a fetched record has a step of its own,
   and that step knows the record as a parent, however many ways lead to it
   (diamonds, and cycles across agents). *)
WalkIsClosed ==
  over /\ Len(steps) < MaxSteps =>
    \A n \in DOMAIN steps : steps[n].verdict = "fetched" =>
      \A p \in Range(Predecessors(steps[n].uri, steps[n].id, n)) :
        \E k \in DOMAIN steps : steps[k].id = p.id /\ n \in steps[k].parents
          /\ \A j \in DOMAIN steps : steps[j].id = p.id => j = k
=============================================================================
