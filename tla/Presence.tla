------------------------------ MODULE Presence ------------------------------
(***************************************************************************)
(* Presence coordinators (src/presence): each node keeps the records of    *)
(* the agents announced to it, answers PROBE and DISCOVER /population from *)
(* them, and reconciles with its peers by gossip.  The store's lock makes  *)
(* each call on it one step; a round of gossip is several, at two nodes,   *)
(* with the network in between.                                            *)
(***************************************************************************)
EXTENDS Integers, FiniteSets

CONSTANTS
  Nodes, Agents, Caps, Nil,
  Doc,          \* [agent -> [tier, owner, caps]], its agent document
  Hosted,       \* [node -> agents whose documents it holds]
  Peers,        \* [node -> presence_peers]
  Pinned,       \* [node -> agents whose Genesis it can resolve]
  Ttls,         \* ttl_seconds an announcement may carry; 0 or less never ages
  Stamps,       \* what a copy from outside may carry beside what is signed: [epoch, ttl, owner]
  DefaultTtl,   \* DEFAULT_TTL_SECONDS
  Postures,     \* visibilities: [mode, disclosure, names, allowed]
  Envelopes,    \* visibilities a certificate may declare, Nil among them
  Askers,       \* who asks: [id, tier, owner] as its certificate says
  Signing,      \* nodes with a signing service
  Verifying,    \* nodes run with presence_verify_signatures
  OwnKey,       \* agents whose records are signed with the key of their Genesis
  ScopeNeeded,  \* presence_require_discovery_scope
  MaxClock

VARIABLES
  store,   \* [node -> [rec : [agent -> Nil or record], index : [cap -> agents]]]
  gossip,  \* [node -> its gossip thread: [at, peer, sent, digest]]
  signed,  \* contents that have been signed
  reply,   \* agents the answer just given shows
  until,   \* [agent -> end of the longest life of a record taken in from outside]
  clock

presenceVars == <<store, gossip, signed, reply, until, clock>>

Resting == [at |-> "rest", peer |-> Nil, sent |-> {}, digest |-> Nil]
Empty == [rec |-> [a \in Agents |-> Nil], index |-> [c \in Caps |-> {}]]
Forever == MaxClock + DefaultTtl + 1
-----------------------------------------------------------------------------
(* PresenceStore: what each call leaves, given what it finds. *)
Expired(r, now) == r.ttl > 0 /\ now >= r.epoch + r.ttl
(* Mutant of Without: the index is left to be rebuilt. *)
WithoutIndex(s, gone) == [s EXCEPT !.rec = [a \in Agents |-> IF a \in gone THEN Nil ELSE s.rec[a]]]

Without(s, gone) ==
  [rec |-> [a \in Agents |-> IF a \in gone THEN Nil ELSE s.rec[a]],
   index |-> [c \in Caps |-> s.index[c] \ gone]]
PutAll(s, new) ==
  LET named == {r.agent : r \in new}
      of(a) == CHOOSE r \in new : r.agent = a IN
  [rec |-> [a \in Agents |-> IF a \in named THEN of(a) ELSE s.rec[a]],
   index |-> [c \in Caps |-> (s.index[c] \ named) \cup {a \in named : c \in of(a).caps}]]
Held(s) == {s.rec[a] : a \in Agents} \ {Nil}
Swept(s, now) == Without(s, {r.agent : r \in {x \in Held(s) : Expired(x, now)}})
(* merge_record: the newest announcement wins. *)
Fresher(s, new) == {r \in new : s.rec[r.agent] = Nil \/ s.rec[r.agent].epoch < r.epoch}
Merged(s, new) == PutAll(s, Fresher(s, new))
(* Mutant of Needed: only newer versions of what the peer has. *)
NeededNewer(s, digest) == {r \in Held(s) : digest[r.agent] # Nil /\ r.epoch > digest[r.agent]}

(* records_peer_needs *)
Needed(s, digest) == {r \in Held(s) : digest[r.agent] = Nil \/ r.epoch > digest[r.agent]}
Digest(s) == [a \in Agents |-> IF s.rec[a] = Nil THEN Nil ELSE s.rec[a].epoch]
(* Mutant of OnWire: a record is stamped when it is passed on. *)
OnWireRestamped(r) == [r EXCEPT !.epoch = clock, !.ttl = IF r.ttl = 0 THEN DefaultTtl ELSE r.ttl]

(* to_gossip_dict then from_gossip_dict: a record with ttl 0 never ages, its
   copies do. *)
OnWire(r) == [r EXCEPT !.ttl = IF r.ttl = 0 THEN DefaultTtl ELSE r.ttl]
-----------------------------------------------------------------------------
(* visibility.py *)
PresenceRank == [public |-> 0, tier |-> 1, owner |-> 2, explicit |-> 3, invisible |-> 4]
DisclosureRank == [full |-> 0, capabilities |-> 1, identity |-> 2, existence |-> 3]
Bound(envelope, asked) ==
  IF envelope = Nil THEN asked
  ELSE [mode |-> IF PresenceRank[asked.mode] >= PresenceRank[envelope.mode] THEN asked.mode ELSE envelope.mode,
        disclosure |-> IF DisclosureRank[asked.disclosure] >= DisclosureRank[envelope.disclosure]
                       THEN asked.disclosure ELSE envelope.disclosure,
        names |-> asked.names \cup envelope.names, allowed |-> asked.allowed \cap envelope.allowed]

(* Every record there can be: AgentRecord as announced, or as passed on. *)
Announcements ==
  LET of(f) == {Doc[a][f] : a \in Agents} IN
  [agent : Agents, epoch : 0..MaxClock, ttl : Ttls \cup {s.ttl : s \in Stamps} \cup {DefaultTtl},
   caps : SUBSET Caps, tier : of("tier"), owner : of("owner") \cup {s.owner : s \in Stamps},
   seen : Postures \cup {Bound(e, p) : e \in Envelopes, p \in Postures}, sig : BOOLEAN]
(* signing_payload: of a record, what its signature covers. *)
Contents(r) == [agent |-> r.agent, caps |-> r.caps, tier |-> r.tier, seen |-> r.seen]
Stamped(x, s, sig) == [agent |-> x.agent, epoch |-> s.epoch, ttl |-> s.ttl, caps |-> x.caps, tier |-> x.tier,
                       owner |-> s.owner, seen |-> x.seen, sig |-> sig]
ASSUME PresenceAssumption ==
  /\ Ttls \subseteq Int /\ DefaultTtl \in Nat /\ MaxClock \in Nat
  /\ \A s \in Stamps : s.epoch \in 0..MaxClock /\ s.ttl \in Int
  /\ \A n \in Nodes : Peers[n] \subseteq Nodes
  /\ \A a \in Agents : Doc[a].caps \subseteq Caps
  /\ Nil \notin Announcements

(* _requester_context: a document held here counts before the certificate. *)
Asking(n, q) ==
  IF q.id \in Hosted[n] THEN [id |-> q.id, tier |-> Doc[q.id].tier, owner |-> Doc[q.id].owner] ELSE q

Passes(r, q) ==
  CASE r.seen.mode = "public" -> TRUE
    [] r.seen.mode = "tier" -> q.tier # Nil /\ r.tier # Nil /\ q.tier <= r.tier
    [] r.seen.mode = "owner" -> r.owner # Nil /\ q.owner = r.owner
    [] r.seen.mode = "explicit" -> q.id \in r.seen.names
    [] OTHER -> FALSE
Visible(n, r, q) == LET asker == Asking(n, q) IN Passes(r, asker) /\ asker.id \in r.seen.allowed
(* shape_entry: what of the entry a permitted requester is told. *)
Shape(r) ==
  CASE r.seen.disclosure \in {"full", "capabilities"} -> {"agent_id", "identity", "entry"}
    [] r.seen.disclosure = "identity" -> {"agent_id", "identity"}
    [] OTHER -> {"agent_id"}
-----------------------------------------------------------------------------
Quiet == reply' = {}   \* no query is being answered
Keep(n, s) == store' = [store EXCEPT ![n] = s]
Entry(a, ttl, seen, sig) ==
  [agent |-> a, epoch |-> clock, ttl |-> ttl, caps |-> Doc[a].caps, tier |-> Doc[a].tier,
   owner |-> Doc[a].owner, seen |-> seen, sig |-> sig]
(* A record comes in that no other coordinator passed on. *)
Lasts(r) == until' = [until EXCEPT ![r.agent] =
  LET end == IF r.ttl <= 0 THEN Forever ELSE r.epoch + r.ttl IN IF end > @ THEN end ELSE @]

(* _handle_announce, and the announcement of every hosted agent at boot; an
   announcement does not fail because signing does. *)
Announce(n, a) ==
  /\ a \in Hosted[n]                      \* 422
  /\ \E ttl \in Ttls, p \in Postures, e \in Envelopes, sig \in BOOLEAN :
       LET r == Entry(a, ttl, Bound(e, p), sig) IN
       /\ sig => n \in Signing
       /\ Keep(n, Swept(PutAll(store[n], {r}), clock)) /\ Lasts(r)
       /\ signed' = IF sig THEN signed \cup {Contents(r)} ELSE signed
  /\ Quiet /\ UNCHANGED <<gossip, clock>>

(* sign_record, by the agent itself. *)
Sign(a) ==
  /\ UNCHANGED <<store, gossip, until, clock>> /\ Quiet
  /\ \E p \in Postures, caps \in SUBSET Caps :
       signed' = signed \cup {[agent |-> a, caps |-> caps, tier |-> Doc[a].tier, seen |-> p]}

Trusted(n, new) == {r \in new : n \in Verifying => r.sig}
(* A record from outside, whoever sends it and whenever it was signed, as a
   signed ANNOUNCE (_announce_foreign_record) or in a REPLICATE, which asks
   for a signature only where Verifying says so. *)
Foreign(n) ==
  /\ \E x \in signed, s \in Stamps, sig \in BOOLEAN :
       LET r == OnWire(Stamped(x, s, sig)) IN
       /\ \/ /\ sig /\ (r.agent \in Pinned[n] => r.agent \in OwnKey)     \* 403
             /\ Keep(n, Swept(PutAll(store[n], {r}), clock))
          \/ /\ r \in Fresher(store[n], Trusted(n, {r}))
             /\ Keep(n, Swept(Merged(store[n], {r}), clock))
       /\ Lasts(r)
  /\ Quiet /\ UNCHANGED <<gossip, signed, clock>>

Withdraw(n, a) ==
  /\ Keep(n, Swept(Without(store[n], {a}), clock))
  /\ Quiet /\ UNCHANGED <<gossip, signed, until, clock>>

(* _handle_probe: one 404 for absent and for hidden. *)
Probe(n, a, q) ==
  LET kept == IF store[n].rec[a] # Nil /\ Expired(store[n].rec[a], clock) THEN Without(store[n], {a}) ELSE store[n]
      r == kept.rec[a] IN
  /\ Keep(n, kept) /\ UNCHANGED <<gossip, signed, until, clock>>
  /\ IF r = Nil \/ ~Visible(n, r, q) THEN Quiet ELSE reply' = {a}

(* _handle_population: expired records go first, then the index narrows. *)
Population(n, q, c, scoped) ==
  /\ UNCHANGED <<gossip, signed, until, clock>>
  /\ IF ScopeNeeded /\ ~scoped THEN Quiet /\ UNCHANGED store     \* 262
     ELSE LET live == Swept(store[n], clock)
              found == IF c = Nil THEN {r.agent : r \in Held(live)}
                       ELSE {a \in live.index[c] : live.rec[a] # Nil} IN
          /\ Keep(n, live)
          /\ reply' = {a \in found : Visible(n, live.rec[a], q)}
-----------------------------------------------------------------------------
(* gossip_round: the request is read from the store in two calls. *)
GossipAt(n, at) == gossip[n].at = at /\ UNCHANGED <<signed, until, clock>> /\ Quiet
Send(n, m) ==
  /\ GossipAt(n, "rest") /\ Keep(n, Swept(store[n], clock))
  /\ gossip' = [gossip EXCEPT ![n] = [at |-> "digest", peer |-> m, digest |-> Nil,
                                      sent |-> {OnWire(r) : r \in Held(Swept(store[n], clock))}]]
Summarize(n) ==
  /\ GossipAt(n, "digest") /\ Keep(n, Swept(store[n], clock))
  /\ gossip' = [gossip EXCEPT ![n].at = "arrive", ![n].digest = Digest(Swept(store[n], clock))]
(* apply_replicate at the peer, then what the peer has and the sender has not. *)
Arrive(n) ==
  /\ GossipAt(n, "arrive") /\ Keep(gossip[n].peer, Merged(store[gossip[n].peer], Trusted(gossip[n].peer, gossip[n].sent)))
  /\ gossip' = [gossip EXCEPT ![n].at = "delta", ![n].sent = {}]
Delta(n) ==
  LET peer == gossip[n].peer
      live == Swept(store[peer], clock) IN
  /\ GossipAt(n, "delta") /\ Keep(peer, live)
  /\ gossip' = [gossip EXCEPT ![n].at = "pull", ![n].sent = {OnWire(r) : r \in Needed(live, gossip[n].digest)},
                              ![n].digest = Nil]
Pull(n) ==
  /\ GossipAt(n, "pull") /\ Keep(n, Merged(store[n], Trusted(n, gossip[n].sent)))
  /\ gossip' = [gossip EXCEPT ![n] = Resting]
(* The request or the answer is lost: the round is over. *)
Drop(n) ==
  /\ gossip[n].at \in {"arrive", "pull"} /\ gossip' = [gossip EXCEPT ![n] = Resting]
  /\ UNCHANGED <<store, signed, until, clock>> /\ Quiet

Sweep(n) ==
  /\ Swept(store[n], clock) # store[n] /\ Keep(n, Swept(store[n], clock))
  /\ UNCHANGED <<gossip, signed, until, clock>> /\ Quiet
Tick == clock < MaxClock /\ clock' = clock + 1 /\ UNCHANGED <<store, gossip, signed, until>> /\ Quiet
-----------------------------------------------------------------------------
PresenceInit ==
  /\ store = [n \in Nodes |-> Empty] /\ gossip = [n \in Nodes |-> Resting] /\ signed = {}
  /\ reply = {} /\ until = [a \in Agents |-> 0] /\ clock = 0
Requests(n) ==
  \/ \E a \in Agents : Announce(n, a) \/ Withdraw(n, a) \/ \E q \in Askers : Probe(n, a, q)
  \/ \E q \in Askers, c \in Caps \cup {Nil}, scoped \in BOOLEAN : Population(n, q, c, scoped)
  \/ Foreign(n)
GossipRound(n) == (\E m \in Peers[n] : Send(n, m)) \/ Summarize(n) \/ Arrive(n) \/ Delta(n) \/ Pull(n)
PresenceNext ==
  \/ \E n \in Nodes : Requests(n) \/ GossipRound(n) \/ Drop(n) \/ Sweep(n)
  \/ (\E a \in Agents : Sign(a)) \/ Tick
(* The gossip thread runs for ever and retries at its next round; a network
   that lets a peer be reached again and again delivers, both ways. *)
PresenceFairness ==
  \A n \in Nodes :
    /\ WF_presenceVars(GossipRound(n))
    /\ \A m \in Peers[n] : /\ SF_presenceVars(gossip[n].peer = m /\ Arrive(n))
                           /\ SF_presenceVars(gossip[n].peer = m /\ Pull(n))
PresenceSpec == PresenceInit /\ [][PresenceNext]_presenceVars /\ PresenceFairness
-----------------------------------------------------------------------------
(* presence/store.py:42 keeps two maps; a search by capability finds what a
   search of everything would: the index never names an agent that has gone
   or lost the capability, nor misses one that is here. *)
IndexAgrees ==
  \A n \in Nodes, c \in Caps :
    store[n].index[c] = {r.agent : r \in {x \in Held(store[n]) : c \in x.caps}}

(* presence/records.py:130 with presence/gossip.py: copies keep the age of
   the record they are copies of.  An agent that has withdrawn, or died, is
   shown to nobody, anywhere, once the life of every record of it is over
   that was announced to a coordinator or came from outside: passing them
   round adds nothing, nor does a peer that sends back what was withdrawn. *)
CopiesKeepTheAge == \A a \in reply : clock < until[a]

(* presence/gossip.py:4: an agent announced at one becomes discoverable at
   the other.  As long as n has a record of a, of which m would accept a copy
   that has not expired, m does not go on with nothing live to show for a. *)
Missing(m, n, a) ==
  LET copy == OnWire(store[n].rec[a]) IN
  /\ store[n].rec[a] # Nil /\ ~Expired(copy, clock) /\ Trusted(m, {copy}) # {}
  /\ store[m].rec[a] = Nil \/ Expired(store[m].rec[a], clock)
Spreads == \A n \in Nodes : \A m \in Nodes \ {n} : \A a \in Agents : Missing(m, n, a) ~> ~Missing(m, n, a)
=============================================================================
