----------------------------- MODULE MCAnswers -----------------------------
(***************************************************************************)
(* Instances of the three modules about answers and their audit.  They     *)
(* share no state, so a behaviour is of one of them: its part.             *)
(***************************************************************************)
EXTENDS AnswerPipeline, AuditTrail, ChainInspector

VARIABLE part
answersVars == <<part, pipeVars, trailVars, walkVars>>

(* One assertion that dies while the clock runs, two orders of loading. *)
MCAssertions == {[jti |-> "j1", exp |-> 3]}
MCOrders == {<<"cert", "merchant", "cache">>, <<"cache", "merchant", "cert">>}

(* Two daemons, two agents: chains, a diamond, a cycle across the agents and
   references with and without a place to look them up. *)
U(a, h) == [agent |-> a, home |-> h]
Rec(o, h, p, refs) == [owner |-> o, home |-> h, prev |-> p, refs |-> refs]
Refs == {<<>>, <<[id |-> 4, agent |-> "b", uri |-> Nowhere]>>,
         <<[id |-> 4, agent |-> "b", uri |-> U("b", "y")], [id |-> 0, agent |-> "b", uri |-> Nowhere]>>,
         <<[id |-> 5, agent |-> "b", uri |-> U("b", "x")], [id |-> 1, agent |-> "a", uri |-> U("a", "x")]>>}
MCWorlds ==
  {[records |-> <<Rec("a", "x", 0, r1), Rec("a", "x", 1, r2), Rec("a", "x", 2, r3),
                  Rec("b", "y", 0, r4), Rec("b", "y", 4, <<>>)>>,
    acl |-> [h \in {"x", "y"} |-> IF h = "x" THEN m ELSE "public"], known |-> k, operator |-> o,
    start |-> 3, startUri |-> U("a", "x")] :
     r1 \in Refs, r2 \in Refs, r3 \in Refs, r4 \in Refs,
     m \in {"public", "agent_only", "operator_only"}, o \in BOOLEAN,
     k \in {[a \in {} |-> Nowhere], [a \in {"b"} |-> U("b", "y")]}}

NoWalk == world = 0 /\ frontier = <<>> /\ steps = <<>> /\ over = TRUE

NoAnswers == TrailInit /\ PipeInit /\ order = <<"cert", "merchant", "cache">> /\ NoWalk
AnswersInit ==
  /\ TrailInit
  /\ \/ part = "pipe" /\ PipeInit /\ NoWalk
     \/ part = "trail" /\ PipeInit /\ order = <<"cert", "merchant", "cache">> /\ NoWalk
     \/ part = "walk" /\ PipeInit /\ order = <<"cert", "merchant", "cache">> /\ WalkInit
AnswersNext ==
  \/ part = "pipe" /\ PipeNext /\ UNCHANGED <<part, trailVars, walkVars>>
  \/ part = "trail" /\ TrailNext /\ UNCHANGED <<part, pipeVars, walkVars>>
  \/ part = "walk" /\ WalkNext /\ UNCHANGED <<part, pipeVars, trailVars>>
=============================================================================
