------------------------------- MODULE Names --------------------------------
(***************************************************************************)
(* A naming authority (src/ans): its store of name bindings, the lifecycle  *)
(* hook that registers and deregisters the agents of servers, and the      *)
(* resolution of a name through federated peers.                           *)
(***************************************************************************)
CONSTANTS
  Labels, Known,   \* names, agents
  Others,          \* naming authorities it may federate with; they run the same code
  Nobody

VARIABLES
  names,     \* the authority's store: [of : [name -> agent or Nobody], at : [agent -> name or Nobody]]
  announced, \* agents its coordinator shows because of it
  trusted,   \* peers it federates with
  ask,       \* the resolution it is answering: [at, name, left, result]
  freed      \* what the last DEREGISTER was for and what it removed: [agent, of]

nameVars == <<names, announced, trusted, ask, freed>>

Quiescent == [at |-> "idle", name |-> Nobody, left |-> {}, result |-> Nobody]
Free == [agent |-> Nobody, of |-> Nobody]
NamesInit ==
  /\ names = [of |-> [n \in Labels |-> Nobody], at |-> [a \in Known |-> Nobody]]
  /\ announced = {} /\ trusted = {} /\ ask = Quiescent /\ freed = Free

(* NameStore.register: a name goes to whoever registers it last; the agent
   that had it keeps its entry in the other map. *)
Rebound(s, a, n) == [of |-> [s.of EXCEPT ![n] = a], at |-> [s.at EXCEPT ![a] = n]]
(* NameStore.deregister, by name or by agent. *)
KeyFor(s, a, n) == IF n # Nobody THEN n ELSE IF a # Nobody THEN s.at[a] ELSE Nobody
Unbound(s, key) ==
  IF key = Nobody \/ s.of[key] = Nobody THEN s
  ELSE [of |-> [s.of EXCEPT ![key] = Nobody], at |-> [s.at EXCEPT ![s.of[key]] = Nobody]]

Register(a, n) ==
  /\ names' = Rebound(names, a, n) /\ announced' = announced \cup {a} /\ freed' = Free
  /\ UNCHANGED <<trusted, ask>>
(* The presence of the agent goes with it when the agent is named. *)
Deregister(a, n) ==
  LET key == KeyFor(names, a, n) IN
  /\ a # Nobody \/ n # Nobody     \* 400
  /\ names' = Unbound(names, key) /\ announced' = announced \ {a}
  /\ freed' = [agent |-> IF n = Nobody THEN a ELSE Nobody,
               of |-> IF key = Nobody THEN Nobody ELSE names.of[key]]
  /\ UNCHANGED <<trusted, ask>>

(* The lifecycle hook of a server: REGISTER on activation, DEREGISTER on the
   other statuses; a call that does not get through is only logged. *)
Notify(a, n, active) == IF active THEN Register(a, n) ELSE Deregister(a, Nobody)

(* _handle_resolve: here, else through the peers of the moment, one by one;
   a peer is asked not to pass the question on. *)
Resolve(n, federated) ==
  /\ ask.at = "idle" /\ UNCHANGED <<names, announced, trusted, freed>>
  /\ ask' = IF names.of[n] # Nobody \/ federated \/ trusted = {}
            THEN [at |-> "done", name |-> n, left |-> {}, result |-> names.of[n]]
            ELSE [at |-> "peers", name |-> n, left |-> trusted, result |-> Nobody]
(* A peer that is down, that has no such name, or whose answer does not
   verify under the key on record is passed over. *)
AskPeer ==
  /\ ask.at = "peers" /\ UNCHANGED <<names, announced, trusted, freed>>
  /\ \E p \in ask.left, found \in Known \cup {Nobody} :
       ask' = [ask EXCEPT !.left = @ \ {p}, !.result = found, !.at = IF found # Nobody THEN "done" ELSE "peers"]
NoPeer ==
  /\ ask.at = "peers" /\ ask.left = {} /\ ask' = [ask EXCEPT !.at = "done"]
  /\ UNCHANGED <<names, announced, trusted, freed>>
Resolved == ask.at = "done" /\ ask' = Quiescent /\ UNCHANGED <<names, announced, trusted, freed>>
(* add_peer, revoke_peer *)
Federate(p, on) ==
  /\ trusted' = IF on THEN trusted \cup {p} ELSE trusted \ {p}
  /\ UNCHANGED <<names, announced, ask, freed>>

NamesNext ==
  \/ \E a \in Known, n \in Labels, active \in BOOLEAN : Notify(a, n, active)
  \/ \E a \in Known \cup {Nobody}, n \in Labels \cup {Nobody} : Deregister(a, n)
  \/ \E n \in Labels, federated \in BOOLEAN : Resolve(n, federated)
  \/ AskPeer \/ NoPeer \/ Resolved
  \/ \E p \in Others, on \in BOOLEAN : Federate(p, on)
-----------------------------------------------------------------------------
(* ans/store.py:91: deregistering an agent, as its suspension does, removes a
   binding of that agent. *)
DeregisterTakesOwn == freed.agent # Nobody => freed.of \in {Nobody, freed.agent}
=============================================================================
