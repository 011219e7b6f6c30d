--------------------------- MODULE PresenceProofs ---------------------------
(***************************************************************************)
(* Proofs about presence.  Presence: however many coordinators, agents and *)
(* rounds of gossip, a store's index answers as a search of its records    *)
(* would, and no copy of a record outlives the records taken in.  What     *)
(* a store is to be is a predicate of one store and of the agents'         *)
(* announced lives; each call on a store keeps it (the lemmas of the first *)
(* part), so every action does, whatever other nodes are in the middle of. *)
(* Partition, in the second part: the leaves tile the identifiers and hold *)
(* together what one set of members would.                                 *)
(***************************************************************************)
EXTENDS Presence, Partition, TLAPS, WellFoundedInduction, FiniteSetTheorems, SequenceTheorems

(* A record within the longest life taken in for its agent; u gives the end of it. *)
Ends(r) == IF r.ttl <= 0 THEN Forever ELSE r.epoch + r.ttl
Alive(r, u) == r \in Announcements /\ Ends(r) <= u[r.agent]
Stores == [rec : [Agents -> Announcements \cup {Nil}], index : [Caps -> SUBSET Agents]]
Lives == [Agents -> Nat]

Sound(s, u) ==
  /\ s \in Stores
  /\ \A a \in Agents : s.rec[a] # Nil => s.rec[a].agent = a /\ Alive(s.rec[a], u)
  /\ \A c \in Caps : s.index[c] = {a \in Agents : s.rec[a] # Nil /\ c \in s.rec[a].caps}

LEMMA Fields ==
  ASSUME NEW r \in Announcements
  PROVE  /\ r # Nil /\ r.agent \in Agents /\ r.epoch \in 0..MaxClock /\ r.ttl \in Int
         /\ OnWire(r) \in Announcements
         /\ OnWire(r).agent = r.agent /\ OnWire(r).epoch = r.epoch
         /\ OnWire(r).ttl = IF r.ttl = 0 THEN DefaultTtl ELSE r.ttl
BY PresenceAssumption DEF Announcements, OnWire

LEMMA HeldSound ==
  ASSUME NEW s, NEW u, Sound(s, u), NEW r \in Held(s)
  PROVE  Alive(r, u) /\ s.rec[r.agent] = r /\ r.agent \in Agents
BY Fields DEF Sound, Held, Alive

LEMMA WithoutSound ==
  ASSUME NEW s, NEW u, Sound(s, u), NEW gone
  PROVE  Sound(Without(s, gone), u)
<1> DEFINE t == Without(s, gone)
<1>1. t \in Stores
      BY DEF Sound, Without, Stores
<1>2. \A a \in Agents : t.rec[a] = IF a \in gone THEN Nil ELSE s.rec[a]
      BY DEF Without
<1>3. \A c \in Caps : t.index[c] = s.index[c] \ gone
      BY DEF Without
<1> HIDE DEF t
<1>4. \A a \in Agents : t.rec[a] # Nil => t.rec[a].agent = a /\ Alive(t.rec[a], u)
      BY <1>2 DEF Sound
<1>5. ASSUME NEW c \in Caps
      PROVE  t.index[c] = {a \in Agents : t.rec[a] # Nil /\ c \in t.rec[a].caps}
      BY <1>2, <1>3 DEF Sound
<1> QED BY <1>1, <1>4, <1>5 DEF Sound, t

LEMMA PutAllSound ==
  ASSUME NEW s, NEW u, Sound(s, u), NEW new, \A r \in new : Alive(r, u)
  PROVE  Sound(PutAll(s, new), u)
<1> DEFINE named == {r.agent : r \in new}
           of(a) == CHOOSE r \in new : r.agent = a
           t == PutAll(s, new)
<1>1. \A a \in named : of(a) \in new /\ of(a).agent = a
      OBVIOUS
<1>2. \A a \in named : a \in Agents /\ of(a) \in Announcements /\ of(a) # Nil /\ Alive(of(a), u)
      BY <1>1, Fields DEF Alive
<1>3. /\ t = [rec |-> t.rec, index |-> t.index]
      /\ t.rec = [a \in Agents |-> IF a \in named THEN of(a) ELSE s.rec[a]]
      /\ t.index = [c \in Caps |-> (s.index[c] \ named) \cup {a \in named : c \in of(a).caps}]
      BY DEF PutAll
<1> HIDE DEF t, of
<1>4. t \in Stores
  <2>1. t.rec \in [Agents -> Announcements \cup {Nil}]
        BY <1>2, <1>3 DEF Sound, Stores
  <2>2. t.index \in [Caps -> SUBSET Agents]
        BY <1>2, <1>3 DEF Sound, Stores
  <2> QED BY <1>3, <2>1, <2>2 DEF Stores
<1>5. \A a \in Agents : t.rec[a] # Nil => t.rec[a].agent = a /\ Alive(t.rec[a], u)
      BY <1>1, <1>2, <1>3 DEF Sound
<1>6. ASSUME NEW c \in Caps
      PROVE  t.index[c] = {a \in Agents : t.rec[a] # Nil /\ c \in t.rec[a].caps}
  <2>1. t.index[c] = (s.index[c] \ named) \cup {a \in named : c \in of(a).caps}
        BY <1>3
  <2>2. \A a \in Agents : t.rec[a] = IF a \in named THEN of(a) ELSE s.rec[a]
        BY <1>3
  <2> HIDE DEF named
  <2> QED BY <1>2, <2>1, <2>2 DEF Sound
<1> QED BY <1>4, <1>5, <1>6 DEF Sound, t

LEMMA SweptSound ==
  ASSUME NEW s, NEW u, Sound(s, u), NEW now
  PROVE  Sound(Swept(s, now), u)
BY WithoutSound DEF Swept

(* What is left after a sweep has not expired. *)
LEMMA SweptIsLive ==
  ASSUME NEW s, NEW u, Sound(s, u), NEW now, NEW a \in Agents, Swept(s, now).rec[a] # Nil
  PROVE  Swept(s, now).rec[a] = s.rec[a] /\ ~Expired(s.rec[a], now)
<1>1. s.rec[a] # Nil /\ s.rec[a] \in Held(s) /\ s.rec[a].agent = a
      BY DEF Swept, Without, Sound, Held
<1> QED BY <1>1 DEF Swept, Without

LEMMA MergedSound ==
  ASSUME NEW s, NEW u, Sound(s, u), NEW new, \A r \in new : Alive(r, u)
  PROVE  Sound(Merged(s, new), u)
BY PutAllSound DEF Merged, Fresher

LEMMA OnWireAlive ==
  ASSUME NEW u, NEW r, Alive(r, u), u \in Lives
  PROVE  Alive(OnWire(r), u)
<1>1. /\ r \in Announcements /\ r.agent \in Agents /\ r.epoch \in 0..MaxClock /\ r.ttl \in Int
      /\ Ends(r) <= u[r.agent] /\ u[r.agent] \in Nat
      BY Fields DEF Alive, Lives
<1>2. Ends(OnWire(r)) <= Ends(r) /\ Ends(OnWire(r)) \in Nat /\ Ends(r) \in Nat
  <2> DEFINE w == OnWire(r)
  <2>1. w.epoch = r.epoch /\ w.ttl = IF r.ttl = 0 THEN DefaultTtl ELSE r.ttl
        BY <1>1, Fields
  <2> HIDE DEF w
  <2>2. Ends(w) <= Ends(r) /\ Ends(w) \in Nat /\ Ends(r) \in Nat
        BY <1>1, <2>1, PresenceAssumption DEF Ends, Forever
  <2> QED BY <2>2 DEF w
<1>3. Ends(OnWire(r)) <= u[r.agent]
      BY <1>1, <1>2
<1> QED BY <1>1, <1>3, Fields DEF Alive

(* A life may be prolonged. *)
Longer(u, v) == \A a \in Agents : u[a] <= v[a]
LEMMA LongerAlive ==
  ASSUME NEW u \in Lives, NEW v \in Lives, Longer(u, v), NEW r, Alive(r, u)
  PROVE  Alive(r, v)
<1>1. r.agent \in Agents /\ Ends(r) \in Nat
      BY Fields, PresenceAssumption DEF Alive, Ends, Forever
<1>2. u[r.agent] \in Nat /\ v[r.agent] \in Nat /\ u[r.agent] <= v[r.agent]
      BY <1>1 DEF Lives, Longer
<1> QED BY <1>1, <1>2 DEF Alive
LEMMA LongerSound ==
  ASSUME NEW u \in Lives, NEW v \in Lives, Longer(u, v), NEW s, Sound(s, u)
  PROVE  Sound(s, v)
BY LongerAlive DEF Sound

(* A record that has not expired is of an agent whose announced life lasts. *)
LEMMA LiveLasts ==
  ASSUME NEW u \in Lives, NEW r, Alive(r, u), NEW now \in 0..MaxClock, ~Expired(r, now)
  PROVE  now < u[r.agent]
<1>1. r.agent \in Agents /\ r.epoch \in 0..MaxClock /\ r.ttl \in Int
      BY Fields DEF Alive
<1>2. u[r.agent] \in Nat /\ Ends(r) <= u[r.agent]
      BY <1>1 DEF Lives, Alive
<1>3. now < Ends(r) /\ Ends(r) \in Nat
      BY <1>1, PresenceAssumption DEF Expired, Ends, Forever
<1> QED BY <1>2, <1>3
-----------------------------------------------------------------------------
(* The whole: stores, rounds of gossip under way, and what has been signed. *)
AllAlive(R, u) == \A r \in R : Alive(r, u)
StoresSound(st, u) == st = [n \in Nodes |-> st[n]] /\ \A n \in Nodes : Sound(st[n], u)
Stages == {"rest", "digest", "arrive", "delta", "pull"}
Rounds == [at : Stages, peer : Nodes \cup {Nil}, sent : SUBSET Announcements, digest : [Agents -> Nat \cup {Nil}] \cup {Nil}]
RoundsSound(g, u) ==
  /\ g \in [Nodes -> Rounds]
  /\ \A n \in Nodes : (g[n].at # "rest" => g[n].peer \in Nodes) /\ AllAlive(g[n].sent, u)

Signable == [agent : Agents, caps : SUBSET Caps, tier : {Doc[a].tier : a \in Agents},
             seen : Postures \cup {Bound(e, p) : e \in Envelopes, p \in Postures}]

PresenceInv ==
  /\ clock \in 0..MaxClock /\ until \in Lives
  /\ StoresSound(store, until) /\ RoundsSound(gossip, until) /\ signed \subseteq Signable
  /\ CopiesKeepTheAge

LEMMA StillLonger == ASSUME NEW u \in Lives PROVE Longer(u, u)
BY DEF Longer, Lives

LEMMA KeepSound ==
  ASSUME PresenceInv, until' \in Lives, Longer(until, until'), NEW n \in Nodes, NEW s, Sound(s, until'), Keep(n, s)
  PROVE  StoresSound(store', until')
<1>1. store' = [m \in Nodes |-> IF m = n THEN s ELSE store[m]]
      BY DEF Keep, PresenceInv, StoresSound
<1>2. \A m \in Nodes : Sound(store[m], until')
      BY LongerSound DEF PresenceInv, StoresSound
<1> QED BY <1>1, <1>2 DEF StoresSound

LEMMA RoundsLonger ==
  ASSUME NEW u \in Lives, NEW v \in Lives, Longer(u, v), NEW g, RoundsSound(g, u)
  PROVE  RoundsSound(g, v)
BY LongerAlive DEF RoundsSound, AllAlive

LEMMA LastsLonger ==
  ASSUME until \in Lives, NEW r \in Announcements, Lasts(r)
  PROVE  until' \in Lives /\ Longer(until, until') /\ Alive(r, until')
<1>1. r.agent \in Agents /\ r.epoch \in 0..MaxClock /\ r.ttl \in Int
      BY Fields
<1>2. Ends(r) \in Nat
      BY <1>1, PresenceAssumption DEF Ends, Forever
<1>3. until' = [until EXCEPT ![r.agent] = IF Ends(r) > until[r.agent] THEN Ends(r) ELSE until[r.agent]]
      BY DEF Lasts, Ends
<1>4. until' \in Lives
      BY <1>1, <1>2, <1>3 DEF Lives
<1>5. Longer(until, until') /\ Ends(r) <= until'[r.agent]
      BY <1>1, <1>2, <1>3 DEF Lives, Longer
<1> QED BY <1>4, <1>5 DEF Alive

(* A step at which nobody is answered and no life changes. *)
LEMMA QuietLives == ASSUME Quiet PROVE CopiesKeepTheAge'
BY DEF Quiet, CopiesKeepTheAge

(* What an announcement says, hosted or signed elsewhere, and what is signed of it. *)
LEMMA EntryFields ==
  ASSUME clock \in 0..MaxClock, NEW a \in Agents, NEW ttl \in Ttls \cup {DefaultTtl},
         NEW seen \in Postures \cup {Bound(e, p) : e \in Envelopes, p \in Postures}
  PROVE  \A sig \in BOOLEAN : Entry(a, ttl, seen, sig) \in Announcements /\ Contents(Entry(a, ttl, seen, sig)) \in Signable
BY PresenceAssumption DEF Entry, Announcements, Contents, Signable

LEMMA StampedFields ==
  ASSUME NEW x \in Signable, NEW s \in Stamps, NEW sig \in BOOLEAN
  PROVE  Stamped(x, s, sig) \in Announcements
BY PresenceAssumption DEF Stamped, Announcements, Signable

LEMMA PresenceStarts == PresenceInit => PresenceInv
<1> SUFFICES ASSUME PresenceInit PROVE PresenceInv
    OBVIOUS
<1>1. clock \in 0..MaxClock /\ until \in Lives
      BY PresenceAssumption DEF PresenceInit, Lives
<1>2. Sound(Empty, until)
      BY DEF Sound, Empty, Stores
<1>3. Resting \in Rounds /\ Resting.sent = {} /\ Resting.at = "rest"
      BY DEF Resting, Rounds, Stages
<1>4. StoresSound(store, until)
      BY <1>2 DEF PresenceInit, StoresSound
<1>5. RoundsSound(gossip, until)
      BY <1>3 DEF PresenceInit, RoundsSound, AllAlive
<1> QED BY <1>1, <1>4, <1>5 DEF PresenceInit, PresenceInv, CopiesKeepTheAge

(* A record comes in from outside, and is kept at n. *)
LEMMA TakenIn ==
  ASSUME PresenceInv, NEW n \in Nodes, NEW q \in Announcements, Lasts(q),
         \/ Keep(n, Swept(PutAll(store[n], {q}), clock))
         \/ Keep(n, Swept(Merged(store[n], {q}), clock)),
         signed' \subseteq Signable, Quiet, UNCHANGED <<gossip, clock>>
  PROVE  PresenceInv'
<1>1. until' \in Lives /\ Longer(until, until') /\ Alive(q, until')
      BY LastsLonger, PresenceAssumption DEF PresenceInv
<1>2. Sound(store[n], until')
      BY <1>1, LongerSound DEF PresenceInv, StoresSound
<1>3. Sound(Swept(PutAll(store[n], {q}), clock), until') /\ Sound(Swept(Merged(store[n], {q}), clock), until')
      BY <1>1, <1>2, PutAllSound, MergedSound, SweptSound
<1>4. StoresSound(store', until')
      BY <1>1, <1>3, KeepSound
<1>5. RoundsSound(gossip', until')
      BY <1>1, RoundsLonger DEF PresenceInv
<1> QED BY <1>1, <1>4, <1>5, QuietLives DEF PresenceInv

LEMMA AnnounceKeeps ==
  ASSUME PresenceInv, NEW n \in Nodes, NEW a \in Agents, Announce(n, a)
  PROVE  PresenceInv'
<1>1. PICK ttl \in Ttls, p \in Postures, e \in Envelopes, sig \in BOOLEAN :
        LET r == Entry(a, ttl, Bound(e, p), sig) IN
        /\ Keep(n, Swept(PutAll(store[n], {r}), clock)) /\ Lasts(r)
        /\ signed' = IF sig THEN signed \cup {Contents(r)} ELSE signed
      BY DEF Announce
<1>2. /\ Entry(a, ttl, Bound(e, p), sig) \in Announcements
      /\ Contents(Entry(a, ttl, Bound(e, p), sig)) \in Signable
      BY EntryFields DEF PresenceInv
<1>3. signed' \subseteq Signable
      BY <1>1, <1>2 DEF PresenceInv
<1> QED BY <1>1, <1>2, <1>3, TakenIn DEF Announce

LEMMA SignKeeps ==
  ASSUME PresenceInv, NEW a \in Agents, Sign(a)
  PROVE  PresenceInv'
<1>1. PICK p \in Postures, caps \in SUBSET Caps :
        signed' = signed \cup {[agent |-> a, caps |-> caps, tier |-> Doc[a].tier, seen |-> p]}
      BY DEF Sign
<1>2. signed' \subseteq Signable
      BY <1>1 DEF Signable, PresenceInv
<1> QED BY <1>2, QuietLives DEF Sign, PresenceInv

(* A call that leaves one store sound and starts, signs or prolongs nothing. *)
LEMMA CallKeeps ==
  ASSUME PresenceInv, NEW n \in Nodes, NEW s, Sound(s, until), Keep(n, s),
         UNCHANGED <<signed, until, clock>>, RoundsSound(gossip', until), CopiesKeepTheAge'
  PROVE  PresenceInv'
<1>1. until' \in Lives /\ Longer(until, until')
      BY StillLonger DEF PresenceInv
<1>2. StoresSound(store', until')
      BY <1>1, KeepSound
<1> QED BY <1>1, <1>2 DEF PresenceInv

LEMMA ForeignKeeps ==
  ASSUME PresenceInv, NEW n \in Nodes, Foreign(n)
  PROVE  PresenceInv'
<1>1. PICK x \in signed, s \in Stamps, sig \in BOOLEAN :
        LET r == OnWire(Stamped(x, s, sig)) IN
        /\ Lasts(r)
        /\ \/ Keep(n, Swept(PutAll(store[n], {r}), clock))
           \/ Keep(n, Swept(Merged(store[n], {r}), clock))
      BY DEF Foreign
<1>2. Stamped(x, s, sig) \in Announcements
      BY StampedFields DEF PresenceInv
<1>3. OnWire(Stamped(x, s, sig)) \in Announcements
      BY <1>2, Fields
<1>4. signed' \subseteq Signable
      BY DEF Foreign, PresenceInv
<1> QED BY <1>1, <1>3, <1>4, TakenIn DEF Foreign

LEMMA WithdrawKeeps ==
  ASSUME PresenceInv, NEW n \in Nodes, NEW a \in Agents, Withdraw(n, a)
  PROVE  PresenceInv'
<1>1. Sound(Swept(Without(store[n], {a}), clock), until)
      BY WithoutSound, SweptSound DEF PresenceInv, StoresSound
<1> QED BY <1>1, CallKeeps, QuietLives DEF Withdraw, PresenceInv

LEMMA ProbeKeeps ==
  ASSUME PresenceInv, NEW n \in Nodes, NEW a \in Agents, NEW q \in Askers, Probe(n, a, q)
  PROVE  PresenceInv'
<1> DEFINE kept == IF store[n].rec[a] # Nil /\ Expired(store[n].rec[a], clock) THEN Without(store[n], {a}) ELSE store[n]
<1>1. Sound(store[n], until)
      BY DEF PresenceInv, StoresSound
<1>2. Sound(kept, until)
      BY <1>1, WithoutSound
<1>3. Keep(n, kept) /\ UNCHANGED <<gossip, signed, until, clock>>
      BY DEF Probe
<1>4. CopiesKeepTheAge'
  <2>1. CASE Quiet
    BY <2>1, QuietLives
  <2>2. CASE kept.rec[a] # Nil /\ reply' = {a}
    <3>1. kept.rec[a] = store[n].rec[a] /\ ~Expired(store[n].rec[a], clock)
          BY <2>2 DEF Without
    <3>2. Alive(store[n].rec[a], until) /\ store[n].rec[a].agent = a
          BY <1>1, <2>2, <3>1 DEF Sound
    <3>3. clock < until[a]
          BY <3>1, <3>2, LiveLasts DEF PresenceInv
    <3> QED BY <1>3, <2>2, <3>3 DEF CopiesKeepTheAge
  <2> QED BY <2>1, <2>2 DEF Probe
<1> HIDE DEF kept
<1> QED BY <1>2, <1>3, <1>4, CallKeeps DEF PresenceInv

LEMMA PopulationKeeps ==
  ASSUME PresenceInv, NEW n \in Nodes, NEW q \in Askers, NEW c \in Caps \cup {Nil}, NEW scoped \in BOOLEAN,
         Population(n, q, c, scoped)
  PROVE  PresenceInv'
<1> DEFINE live == Swept(store[n], clock)
<1>1. Sound(store[n], until) /\ Sound(live, until)
      BY SweptSound DEF PresenceInv, StoresSound
<1>2. UNCHANGED <<gossip, signed, until, clock>>
      BY DEF Population
<1>3. CASE ScopeNeeded /\ ~scoped
  <2>1. UNCHANGED store /\ Quiet
        BY <1>3 DEF Population
  <2> QED BY <1>2, <2>1, QuietLives DEF PresenceInv
<1>4. CASE ~(ScopeNeeded /\ ~scoped)
  <2>1. Keep(n, live)
        BY <1>4 DEF Population
  <2>2. ASSUME NEW a \in reply'
        PROVE  a \in Agents /\ live.rec[a] # Nil
    <3>1. CASE c = Nil
      <4>1. a \in {r.agent : r \in Held(live)}
            BY <1>4, <3>1 DEF Population
      <4>2. PICK r \in Held(live) : a = r.agent
            BY <4>1
      <4> QED BY <1>1, <4>2, HeldSound, Fields DEF Alive
    <3>2. CASE c # Nil
      <4>1. a \in live.index[c] /\ live.rec[a] # Nil
            BY <1>4, <3>2 DEF Population
      <4> QED BY <1>1, <3>2, <4>1 DEF Sound, Stores
    <3> QED BY <3>1, <3>2
  <2>3. ASSUME NEW a \in reply'
        PROVE  clock < until[a]
    <3>1. a \in Agents /\ live.rec[a] # Nil
          BY <2>2
    <3>2. live.rec[a] = store[n].rec[a] /\ ~Expired(store[n].rec[a], clock)
          BY <1>1, <3>1, SweptIsLive
    <3>3. Alive(store[n].rec[a], until) /\ store[n].rec[a].agent = a
          BY <1>1, <3>1, <3>2 DEF Sound
    <3> QED BY <3>2, <3>3, LiveLasts DEF PresenceInv
  <2>4. CopiesKeepTheAge'
        BY <1>2, <2>3 DEF CopiesKeepTheAge
  <2> HIDE DEF live
  <2> QED BY <1>1, <1>2, <2>1, <2>4, CallKeeps DEF PresenceInv
<1> QED BY <1>3, <1>4

(* Gossip.  A round that goes on keeps its shape; what it carries is alive. *)
LEMMA RoundKeeps ==
  ASSUME NEW u, NEW g, RoundsSound(g, u), NEW n \in Nodes, NEW next \in Rounds,
         next.at # "rest" => next.peer \in Nodes, AllAlive(next.sent, u),
         NEW h, h = [g EXCEPT ![n] = next]
  PROVE  RoundsSound(h, u)
BY DEF RoundsSound

LEMMA CarriedAlive ==
  ASSUME NEW s, NEW u \in Lives, Sound(s, u), NEW R, R \subseteq Held(s)
  PROVE  /\ AllAlive({OnWire(r) : r \in R}, u)
         /\ {OnWire(r) : r \in R} \subseteq Announcements
<1>1. \A r \in R : Alive(OnWire(r), u)
      BY HeldSound, OnWireAlive
<1> QED BY <1>1 DEF AllAlive, Alive

LEMMA SendKeeps ==
  ASSUME PresenceInv, NEW n \in Nodes, NEW m \in Peers[n], Send(n, m)
  PROVE  PresenceInv'
<1> DEFINE live == Swept(store[n], clock)
           next == [at |-> "digest", peer |-> m, digest |-> Nil, sent |-> {OnWire(r) : r \in Held(live)}]
<1>1. Sound(live, until)
      BY SweptSound DEF PresenceInv, StoresSound
<1>2. AllAlive(next.sent, until) /\ next.sent \subseteq Announcements
      BY <1>1, CarriedAlive DEF PresenceInv
<1>3. next \in Rounds /\ next.peer \in Nodes
      BY <1>2, PresenceAssumption DEF Rounds, Stages
<1>4. Keep(n, live) /\ gossip' = [gossip EXCEPT ![n] = next]
      BY DEF Send
<1> HIDE DEF next, live
<1>5. RoundsSound(gossip', until)
      BY <1>2, <1>3, <1>4, RoundKeeps DEF PresenceInv
<1> QED BY <1>1, <1>4, <1>5, CallKeeps, QuietLives DEF Send, GossipAt

LEMMA SummarizeKeeps ==
  ASSUME PresenceInv, NEW n \in Nodes, Summarize(n)
  PROVE  PresenceInv'
<1> DEFINE live == Swept(store[n], clock)
           next == [gossip[n] EXCEPT !.at = "arrive", !.digest = Digest(live)]
<1>1. Sound(live, until)
      BY SweptSound DEF PresenceInv, StoresSound
<1>2. Digest(live) \in [Agents -> Nat \cup {Nil}]
      BY <1>1, Fields DEF Digest, Sound, Alive
<1>3. gossip[n] \in Rounds /\ gossip[n].peer \in Nodes /\ AllAlive(gossip[n].sent, until)
      BY DEF PresenceInv, RoundsSound, Summarize, GossipAt
<1> HIDE DEF live
<1>4. next \in Rounds /\ next.peer \in Nodes /\ AllAlive(next.sent, until)
      BY <1>2, <1>3 DEF Rounds, Stages
<1>5. Keep(n, live) /\ gossip' = [gossip EXCEPT ![n] = next]
      BY DEF Summarize, PresenceInv, RoundsSound, live
<1> HIDE DEF next
<1>6. RoundsSound(gossip', until)
      BY <1>4, <1>5, RoundKeeps DEF PresenceInv
<1> QED BY <1>1, <1>5, <1>6, CallKeeps, QuietLives DEF Summarize, GossipAt

LEMMA ArriveKeeps ==
  ASSUME PresenceInv, NEW n \in Nodes, Arrive(n)
  PROVE  PresenceInv'
<1> DEFINE peer == gossip[n].peer
           next == [gossip[n] EXCEPT !.at = "delta", !.sent = {}]
<1>1. gossip[n] \in Rounds /\ peer \in Nodes /\ AllAlive(gossip[n].sent, until)
      BY DEF PresenceInv, RoundsSound, Arrive, GossipAt
<1>2. Sound(Merged(store[peer], Trusted(peer, gossip[n].sent)), until)
      BY <1>1, MergedSound DEF PresenceInv, StoresSound, Trusted, AllAlive
<1>3. next \in Rounds /\ next.peer \in Nodes /\ AllAlive(next.sent, until)
      BY <1>1 DEF Rounds, Stages, AllAlive
<1>4. gossip' = [gossip EXCEPT ![n] = next]
      BY DEF Arrive, PresenceInv, RoundsSound
<1> HIDE DEF next
<1>5. RoundsSound(gossip', until)
      BY <1>3, <1>4, RoundKeeps DEF PresenceInv
<1> QED BY <1>1, <1>2, <1>5, CallKeeps, QuietLives DEF Arrive, GossipAt

LEMMA DeltaKeeps ==
  ASSUME PresenceInv, NEW n \in Nodes, Delta(n)
  PROVE  PresenceInv'
<1> DEFINE peer == gossip[n].peer
           live == Swept(store[peer], clock)
           found == {OnWire(r) : r \in Needed(live, gossip[n].digest)}
           next == [gossip[n] EXCEPT !.at = "pull", !.sent = found, !.digest = Nil]
<1>1. gossip[n] \in Rounds /\ peer \in Nodes
      BY DEF PresenceInv, RoundsSound, Delta, GossipAt
<1>2. Sound(live, until)
      BY <1>1, SweptSound DEF PresenceInv, StoresSound
<1>3. AllAlive(found, until) /\ found \subseteq Announcements
  <2>1. Needed(live, gossip[n].digest) \subseteq Held(live)
        BY DEF Needed
  <2> HIDE DEF live
  <2> QED BY <1>2, <2>1, CarriedAlive DEF PresenceInv
<1>4. Keep(peer, live) /\ gossip' = [gossip EXCEPT ![n] = next]
      BY DEF Delta, PresenceInv, RoundsSound
<1> HIDE DEF found, live
<1>5. next \in Rounds /\ next.peer \in Nodes /\ AllAlive(next.sent, until)
      BY <1>1, <1>3 DEF Rounds, Stages
<1> HIDE DEF next
<1>6. RoundsSound(gossip', until)
      BY <1>4, <1>5, RoundKeeps DEF PresenceInv
<1> QED BY <1>1, <1>2, <1>4, <1>6, CallKeeps, QuietLives DEF Delta, GossipAt

LEMMA RestKeeps ==
  ASSUME PresenceInv, NEW n \in Nodes, gossip' = [gossip EXCEPT ![n] = Resting]
  PROVE  RoundsSound(gossip', until)
<1>1. Resting \in Rounds /\ Resting.at = "rest" /\ AllAlive(Resting.sent, until)
      BY DEF Resting, Rounds, Stages, AllAlive
<1> QED BY <1>1, RoundKeeps DEF PresenceInv

LEMMA PullKeeps ==
  ASSUME PresenceInv, NEW n \in Nodes, Pull(n)
  PROVE  PresenceInv'
<1>1. AllAlive(gossip[n].sent, until)
      BY DEF PresenceInv, RoundsSound
<1>2. Sound(Merged(store[n], Trusted(n, gossip[n].sent)), until)
      BY <1>1, MergedSound DEF PresenceInv, StoresSound, Trusted, AllAlive
<1>3. RoundsSound(gossip', until)
      BY RestKeeps DEF Pull
<1> QED BY <1>2, <1>3, CallKeeps, QuietLives DEF Pull, GossipAt

LEMMA DropKeeps ==
  ASSUME PresenceInv, NEW n \in Nodes, Drop(n)
  PROVE  PresenceInv'
BY RestKeeps, QuietLives DEF Drop, PresenceInv

LEMMA SweepKeeps ==
  ASSUME PresenceInv, NEW n \in Nodes, Sweep(n)
  PROVE  PresenceInv'
<1>1. Sound(Swept(store[n], clock), until)
      BY SweptSound DEF PresenceInv, StoresSound
<1> QED BY <1>1, CallKeeps, QuietLives DEF Sweep, PresenceInv

LEMMA TickKeeps == ASSUME PresenceInv, Tick PROVE PresenceInv'
BY QuietLives, PresenceAssumption DEF Tick, PresenceInv

LEMMA PresenceStep == PresenceInv /\ [PresenceNext]_presenceVars => PresenceInv'
<1> SUFFICES ASSUME PresenceInv, [PresenceNext]_presenceVars
             PROVE  PresenceInv'
    OBVIOUS
<1>1. ASSUME NEW n \in Nodes, Requests(n)
      PROVE  PresenceInv'
      BY <1>1, AnnounceKeeps, WithdrawKeeps, ProbeKeeps, PopulationKeeps, ForeignKeeps DEF Requests
<1>2. ASSUME NEW n \in Nodes, GossipRound(n)
      PROVE  PresenceInv'
      BY <1>2, SendKeeps, SummarizeKeeps, ArriveKeeps, DeltaKeeps, PullKeeps DEF GossipRound
<1>3. ASSUME NEW n \in Nodes, Drop(n) \/ Sweep(n)
      PROVE  PresenceInv'
      BY <1>3, DropKeeps, SweepKeeps
<1>4. ASSUME (\E a \in Agents : Sign(a)) \/ Tick
      PROVE  PresenceInv'
      BY <1>4, SignKeeps, TickKeeps
<1>5. CASE UNCHANGED presenceVars
      BY <1>5 DEF presenceVars, PresenceInv, CopiesKeepTheAge
<1> QED BY <1>1, <1>2, <1>3, <1>4, <1>5 DEF PresenceNext

LEMMA Presences == PresenceSpec => []PresenceInv
BY PresenceStarts, PresenceStep, PTL DEF PresenceSpec

(* A search by capability (presence/store.py:58, the index the store keeps
   beside its records) finds what a search of all the records would, at
   every coordinator, through announcements, gossip and sweeps. *)
THEOREM IndexIsRight == PresenceSpec => []IndexAgrees
<1>1. PresenceInv => IndexAgrees
  <2> SUFFICES ASSUME PresenceInv, NEW n \in Nodes, NEW c \in Caps
               PROVE  store[n].index[c] = {r.agent : r \in {x \in Held(store[n]) : c \in x.caps}}
      BY DEF IndexAgrees
  <2>1. Sound(store[n], until)
        BY DEF PresenceInv, StoresSound
  <2>2. \A r \in Held(store[n]) : store[n].rec[r.agent] = r /\ r.agent \in Agents /\ r # Nil
        BY <2>1, HeldSound DEF Held
  <2>3. \A a \in Agents : store[n].rec[a] # Nil => store[n].rec[a] \in Held(store[n]) /\ store[n].rec[a].agent = a
        BY <2>1 DEF Held, Sound
  <2>4. store[n].index[c] = {a \in Agents : store[n].rec[a] # Nil /\ c \in store[n].rec[a].caps}
        BY <2>1 DEF Sound
  <2> QED BY <2>2, <2>3, <2>4
<1> QED BY Presences, <1>1, PTL

(* However often copies of a record are passed on (gossip.py, merge_record in
   store.py), nobody is shown an agent when the life (records.py, expires_at)
   of every record of it that a coordinator took in from outside is over. *)
THEOREM CopiesAddNoLife == PresenceSpec => []CopiesKeepTheAge
<1>1. PresenceInv => CopiesKeepTheAge
      BY DEF PresenceInv
<1> QED BY Presences, <1>1, PTL
-----------------------------------------------------------------------------
(***************************************************************************)
(* Partition.  That the leaves tile the identifiers is not kept by itself: *)
(* Trie says it with prefixes that cover the identifiers and of which none *)
(* lies within another, and adds that what a leaf holds is finite.  A      *)
(* split keeps it because the first prefix of an identifier that is small  *)
(* enough exists (one of full length holds one member at most), a merge    *)
(* because the leaves that join are all that lie within their new prefix.  *)
(***************************************************************************)
(* Lengths have a least one. *)
LEMMA LeastLength ==
  ASSUME NEW S \in SUBSET Nat, S # {}
  PROVE  \E m \in S : \A n \in S : m <= n
<1>1. PICK m \in S : \A n \in S : ~(<<n, m>> \in OpToRel(<, Nat))
      BY NatLessThanWellFounded, WFMin
<1>2. \A n \in S : ~(n < m)
      BY <1>1 DEF OpToRel
<1> QED BY <1>2

(* Prefixes and identifiers are sequences of at most Width bits. *)
LEMMA CutFacts ==
  ASSUME NEW p \in Cuts
  PROVE  /\ p \in Seq({0, 1}) /\ Len(p) \in 0..Width /\ DOMAIN p = 1..Len(p)
         /\ p \in [1..Len(p) -> {0, 1}]
<1>1. PICK n \in 0..Width : p \in [1..n -> {0, 1}]
      BY DEF Cuts
<1>2. n \in Nat
      BY PartitionAssumption
<1>3. p \in Seq({0, 1}) /\ Len(p) = n
      BY <1>1, <1>2
<1> QED BY <1>1, <1>3

LEMMA IsCut ==
  ASSUME NEW p \in Seq({0, 1}), Len(p) <= Width
  PROVE  p \in Cuts
<1>1. Len(p) \in 0..Width /\ p \in [1..Len(p) -> {0, 1}]
      BY PartitionAssumption, LenProperties
<1> QED BY <1>1 DEF Cuts

LEMMA IdFacts ==
  ASSUME NEW x \in Ids
  PROVE  x \in Cuts /\ Len(x) = Width
<1>1. x \in Seq({0, 1}) /\ Len(x) = Width
      BY PartitionAssumption DEF Ids
<1> QED BY <1>1, PartitionAssumption, IsCut

(* Lying within a prefix is a partial order. *)
LEMMA SameCut ==
  ASSUME NEW p \in Cuts, NEW q \in Cuts, Within(p, q), Within(q, p)
  PROVE  p = q
BY CutFacts, SeqEqual DEF Within

LEMMA WithinReflexive ==
  ASSUME NEW p \in Cuts
  PROVE  Within(p, p)
BY CutFacts DEF Within

LEMMA WithinTransitive ==
  ASSUME NEW p \in Cuts, NEW q \in Cuts, NEW r \in Cuts, Within(p, q), Within(q, r)
  PROVE  Within(p, r)
BY CutFacts DEF Within

(* Prefixes of one cut are prefixes one of the other. *)
LEMMA WithinComparable ==
  ASSUME NEW p \in Cuts, NEW q \in Cuts, NEW r \in Cuts, Within(p, q), Within(p, r)
  PROVE  (Len(r) <= Len(q) => Within(q, r)) /\ (Len(q) <= Len(r) => Within(r, q))
BY CutFacts DEF Within

LEMMA UpperFacts ==
  ASSUME NEW p \in Cuts, NEW n \in 0..Len(p)
  PROVE  /\ Upper(p, n) \in Cuts /\ Len(Upper(p, n)) = n
         /\ \A d \in 1..n : Upper(p, n)[d] = p[d]
         /\ Within(p, Upper(p, n))
<1>1. \A d \in 1..n : p[d] \in {0, 1}
      BY CutFacts
<1>2. n \in Int /\ n >= 0 /\ p \in Seq({0, 1}) /\ n <= Len(p) /\ Len(p) <= Width
      BY CutFacts
<1>3. Upper(p, n) \in Seq({0, 1}) /\ Len(Upper(p, n)) = n /\ \A d \in 1..n : Upper(p, n)[d] = p[d]
  <2>1. SubSeq(p, 1, n) \in Seq({0, 1})
        BY <1>1, <1>2, SubSeqProperties
  <2>2. Len(SubSeq(p, 1, n)) = n
        BY <1>2
  <2>3. \A d \in 1..n : SubSeq(p, 1, n)[d] = p[d]
        BY <1>2
  <2> QED BY <2>1, <2>2, <2>3 DEF Upper
<1>4. Upper(p, n) \in Cuts
      BY <1>2, <1>3, PartitionAssumption, IsCut
<1> QED BY <1>2, <1>3, <1>4 DEF Within

LEMMA UpperWhole ==
  ASSUME NEW p \in Cuts
  PROVE  Upper(p, Len(p)) = p
BY CutFacts, SubSeqFull DEF Upper

LEMMA SiblingFacts ==
  ASSUME NEW p \in Cuts, Len(p) > 0
  PROVE  /\ Sibling(p) \in Cuts /\ Len(Sibling(p)) = Len(p)
         /\ \A d \in 1..Len(p) : Sibling(p)[d] = IF d = Len(p) THEN 1 - p[d] ELSE p[d]
         /\ Sibling(Sibling(p)) = p
<1> DEFINE l == Len(p)
           s == Sibling(p)
<1>1. l \in 1..l /\ 1 - p[l] \in {0, 1} /\ p \in Seq({0, 1}) /\ l <= Width /\ l \in Nat
      BY CutFacts
<1>2. s = [p EXCEPT ![l] = 1 - p[l]]
      BY DEF Sibling
<1>3. s \in Seq({0, 1}) /\ Len(s) = l /\ \A d \in 1..l : s[d] = IF d = l THEN 1 - p[d] ELSE p[d]
      BY <1>1, <1>2, ExceptSeq
<1> HIDE DEF s
<1>4. s \in Cuts
      BY <1>1, <1>3, IsCut
<1>5. Sibling(s) = p
  <2>1. Sibling(s) = [s EXCEPT ![l] = 1 - s[l]] /\ 1 - s[l] = p[l]
        BY <1>1, <1>3 DEF Sibling
  <2>2. Sibling(s) \in Seq({0, 1}) /\ Len(Sibling(s)) = l /\ \A d \in 1..l : Sibling(s)[d] = p[d]
        BY <1>1, <1>3, <2>1, ExceptSeq
  <2> QED BY <1>1, <2>2, SeqEqual
<1> QED BY <1>3, <1>4, <1>5 DEF s
-----------------------------------------------------------------------------
(* What the leaves are to be: prefixes none of which lies within another,
   under one of which every identifier lies. *)
Covers(f) == \A x \in Ids : \E p \in DOMAIN f : Within(x, p)
Apart(f) == \A p, q \in DOMAIN f : Within(p, q) => p = q
Fits(f) == \A p \in DOMAIN f :
  IsFiniteSet(f[p]) /\ Cardinality(f[p]) <= Grow /\ \A x \in f[p] : Within(x, p)
Dense(f) == \A p \in DOMAIN f :
  p # <<>> /\ Sibling(p) \in DOMAIN f => Cardinality(f[p]) + Cardinality(f[Sibling(p)]) >= Shrink
Trie(f) ==
  /\ f \in [DOMAIN f -> SUBSET Ids] /\ DOMAIN f \subseteq Cuts
  /\ Covers(f) /\ Apart(f) /\ Fits(f) /\ Dense(f)

LEMMA InsideFinite ==
  ASSUME NEW members, IsFiniteSet(members), NEW q
  PROVE  /\ IsFiniteSet(Inside(members, q)) /\ Cardinality(Inside(members, q)) \in Nat
         /\ Inside(members, q) \subseteq members
<1>1. Inside(members, q) \in SUBSET members
      BY DEF Inside
<1> QED BY <1>1, FS_Subset, FS_CardinalityType

LEMMA UnionSize ==
  ASSUME NEW a, NEW b, IsFiniteSet(a), IsFiniteSet(b)
  PROVE  /\ IsFiniteSet(a \cup b) /\ Cardinality(a \cup b) \in Nat
         /\ Cardinality(a \cup b) <= Cardinality(a) + Cardinality(b)
<1>1. IsFiniteSet(a \cup b) /\ Cardinality(a \cup b) = Cardinality(a) + Cardinality(b) - Cardinality(a \cap b)
      BY FS_Union
<1>2. Cardinality(a \cap b) \in Nat
      BY FS_Intersection, FS_CardinalityType
<1>3. Cardinality(a) \in Nat /\ Cardinality(b) \in Nat /\ Cardinality(a \cup b) \in Nat
      BY <1>1, FS_CardinalityType
<1> QED BY <1>1, <1>2, <1>3

(* Every identifier of a leaf that splits is in one of the parts. *)
LEMMA SomePart ==
  ASSUME NEW p \in Cuts, NEW members \in SUBSET Ids, IsFiniteSet(members),
         NEW x \in Ids, Within(x, p)
  PROVE  \E q \in Parts(p, members) : Within(x, q)
<1> DEFINE size(q) == Cardinality(Inside(members, q))
           S == {n \in Len(p)..Width : size(Upper(x, n)) <= Grow}
<1>1. x \in Cuts /\ Len(x) = Width /\ Len(p) \in 0..Width /\ Width \in Nat /\ Grow \in Nat /\ Grow >= 1
      BY IdFacts, CutFacts, PartitionAssumption
<1>2. \A q : size(q) \in Nat
      BY InsideFinite
<1>3. Width \in S
  <2>1. Upper(x, Width) = x
        BY <1>1, UpperWhole
  <2>2. ASSUME NEW y \in Inside(members, x)
        PROVE  y = x
    <3>1. y \in Ids /\ Within(y, x)
          BY DEF Inside
    <3>2. y \in Cuts /\ Len(y) = Width
          BY <3>1, IdFacts
    <3>3. Within(x, y)
          BY <1>1, <3>1, <3>2 DEF Within
    <3> QED BY <1>1, <3>1, <3>2, <3>3, SameCut
  <2>3. Inside(members, x) \in SUBSET {x}
        BY <2>2
  <2>4. size(x) <= 1
    <3>1. IsFiniteSet({x}) /\ Cardinality({x}) = 1
          BY FS_Singleton
    <3>2. Cardinality(Inside(members, x)) <= Cardinality({x})
          BY <2>3, <3>1, FS_Subset
    <3> QED BY <3>1, <3>2
  <2>5. size(x) <= Grow
        BY <1>1, <1>2, <2>4
  <2> HIDE DEF size
  <2> QED BY <1>1, <2>1, <2>5
<1> HIDE DEF size
<1>4. S \in SUBSET Nat
      BY <1>1
<1>5. PICK n \in S : \A k \in S : n <= k
      BY <1>3, <1>4, LeastLength
<1> DEFINE q == Upper(x, n)
<1>6. n \in Nat /\ n \in 0..Len(x) /\ Len(p) <= n /\ n <= Width /\ size(q) <= Grow
      BY <1>1, <1>5
<1>7. q \in Cuts /\ Len(q) = n /\ Within(x, q)
      BY <1>1, <1>6, UpperFacts
<1>8. Within(q, p)
      BY <1>1, <1>6, <1>7, WithinComparable
<1>9. ASSUME NEW r \in Cuts, Within(r, p), Within(q, r), r # q
      PROVE  size(r) > Grow
  <2>1. Len(r) \in Nat /\ Len(p) <= Len(r) /\ Len(r) <= n /\ Len(r) \in 0..Len(x)
        BY <1>1, <1>6, <1>7, <1>9, CutFacts DEF Within
  <2>2. Within(x, r)
        BY <1>1, <1>7, <1>9, WithinTransitive
  <2> DEFINE u == Upper(x, Len(r))
  <2>3. u \in Cuts /\ Len(u) = Len(r) /\ Within(x, u)
        BY <1>1, <2>1, UpperFacts
  <2>4. r = u
        BY <1>1, <2>1, <2>2, <2>3, WithinComparable, SameCut
  <2>5. Len(r) # n
        BY <1>9, <2>4
  <2>6. Len(r) \notin S
        BY <1>5, <1>6, <2>1, <2>5
  <2>7. Len(r) \in Len(p)..Width
        BY <1>1, <1>6, <2>1
  <2>8. ~(size(u) <= Grow)
        BY <2>6, <2>7
  <2> QED BY <1>1, <1>2, <2>4, <2>8
<1>10. q \in Parts(p, members)
      BY <1>6, <1>7, <1>8, <1>9 DEF Parts, size
<1> QED BY <1>7, <1>10

LEMMA PartsApart ==
  ASSUME NEW p \in Cuts, NEW members, IsFiniteSet(members),
         NEW q \in Parts(p, members), NEW r \in Parts(p, members), Within(q, r)
  PROVE  q = r
<1>1. q \in Cuts /\ r \in Cuts /\ Within(r, p) /\ Cardinality(Inside(members, r)) <= Grow
      BY DEF Parts
<1>2. r # q => Cardinality(Inside(members, r)) > Grow
      BY <1>1 DEF Parts
<1> QED BY <1>1, <1>2, InsideFinite, PartitionAssumption

(* A split leaves a trie. *)
LEMMA SplitTrie ==
  ASSUME Trie(leaves), NEW p \in DOMAIN leaves, NEW x \in Ids, Within(x, p),
         Cardinality(leaves[p] \cup {x}) > Grow
  PROVE  /\ Trie(Split(p, leaves[p] \cup {x}))
         /\ DOMAIN Split(p, leaves[p] \cup {x}) = (DOMAIN leaves \ {p}) \cup Parts(p, leaves[p] \cup {x})
<1> DEFINE members == leaves[p] \cup {x}
           parts == Parts(p, members)
           old == DOMAIN leaves \ {p}
           f == Split(p, members)
<1>1. /\ leaves \in [DOMAIN leaves -> SUBSET Ids] /\ DOMAIN leaves \subseteq Cuts
      /\ Covers(leaves) /\ Apart(leaves) /\ Fits(leaves) /\ Dense(leaves)
      BY DEF Trie
<1>2. /\ p \in Cuts /\ members \in SUBSET Ids /\ IsFiniteSet(members)
      /\ \A y \in members : Within(y, p)
      BY <1>1, FS_AddElement DEF Fits
<1>3. /\ DOMAIN f = old \cup parts /\ f = [q \in DOMAIN f |-> f[q]]
      /\ \A q \in parts : f[q] = Inside(members, q)
      /\ \A q \in old \ parts : f[q] = leaves[q]
      BY DEF Split
<1>4. /\ parts \subseteq Cuts
      /\ \A q \in parts : Within(q, p) /\ Cardinality(Inside(members, q)) <= Grow
      /\ p \notin parts
  <2>1. Inside(members, p) = members
        BY <1>2 DEF Inside
  <2>2. Cardinality(members) \in Nat /\ ~(Cardinality(members) <= Grow)
        BY <1>2, FS_CardinalityType, PartitionAssumption
  <2> QED BY <2>1, <2>2 DEF Parts
<1>5. \A q \in parts : \A r \in old : ~Within(q, r) /\ ~Within(r, q)
  <2> SUFFICES ASSUME NEW q \in parts, NEW r \in old, Within(q, r) \/ Within(r, q)
               PROVE  FALSE
      OBVIOUS
  <2>1. q \in Cuts /\ r \in Cuts /\ Within(q, p) /\ r # p /\ r \in DOMAIN leaves
        BY <1>1, <1>4
  <2>2. Len(r) \in Nat /\ Len(p) \in Nat
        BY <1>2, <2>1, CutFacts
  <2>3. Within(p, r) \/ Within(r, p)
        BY <1>2, <2>1, <2>2, WithinComparable, WithinTransitive
  <2> QED BY <1>1, <2>1, <2>3 DEF Apart
<1>6. \A q \in old : f[q] = leaves[q]
      BY <1>1, <1>3, <1>4, <1>5, WithinReflexive
<1> HIDE DEF members, parts, f
<1>7. f \in [DOMAIN f -> SUBSET Ids] /\ DOMAIN f \subseteq Cuts
  <2>1. \A q \in parts : f[q] \subseteq Ids
        BY <1>2, <1>3 DEF Inside
  <2>2. \A q \in old : f[q] \subseteq Ids
        BY <1>1, <1>6
  <2>3. \A q \in DOMAIN f : f[q] \in SUBSET Ids
        BY <1>3, <2>1, <2>2
  <2> QED BY <1>1, <1>3, <1>4, <2>3
<1>8. Covers(f)
  <2> SUFFICES ASSUME NEW y \in Ids
               PROVE  \E q \in DOMAIN f : Within(y, q)
      BY DEF Covers
  <2>1. PICK r \in DOMAIN leaves : Within(y, r)
        BY <1>1 DEF Covers
  <2>2. r = p => \E q \in parts : Within(y, q)
        BY <1>2, <2>1, SomePart DEF parts
  <2> QED BY <1>3, <2>1, <2>2
<1>9. Apart(f)
  <2>1. \A q, r \in parts : Within(q, r) => q = r
        BY <1>2, PartsApart DEF parts
  <2>2. \A q, r \in old : Within(q, r) => q = r
        BY <1>1 DEF Apart
  <2> QED BY <1>3, <1>5, <2>1, <2>2 DEF Apart
<1>10. Fits(f)
  <2>1. \A q \in parts : IsFiniteSet(f[q]) /\ Cardinality(f[q]) <= Grow
        BY <1>2, <1>3, <1>4, InsideFinite
  <2>2. \A q \in parts : \A y \in f[q] : Within(y, q)
        BY <1>3 DEF Inside
  <2>3. \A q \in old : IsFiniteSet(f[q]) /\ Cardinality(f[q]) <= Grow /\ \A y \in f[q] : Within(y, q)
        BY <1>1, <1>6 DEF Fits
  <2> QED BY <1>3, <2>1, <2>2, <2>3 DEF Fits
<1>11. Dense(f)
  <2> SUFFICES ASSUME NEW q \in DOMAIN f, q # <<>>, Sibling(q) \in DOMAIN f
               PROVE  Cardinality(f[q]) + Cardinality(f[Sibling(q)]) >= Shrink
      BY DEF Dense
  <2> DEFINE s == Sibling(q)
             r == Upper(q, Len(q) - 1)
  <2>1. q \in Cuts /\ Len(q) \in Nat /\ Len(q) > 0
        BY <1>7, CutFacts, EmptySeq
  <2>2. s \in Cuts /\ Len(s) = Len(q) /\ Sibling(s) = q /\ s # q
    <3>1. q[Len(q)] \in {0, 1} /\ s[Len(q)] = 1 - q[Len(q)]
          BY <2>1, CutFacts, SiblingFacts
    <3> QED BY <2>1, <3>1, SiblingFacts
  <2>3. /\ r \in Cuts /\ Len(r) = Len(q) - 1 /\ Within(q, r) /\ Within(s, r) /\ r # q
    <3>1. r \in Cuts /\ Len(r) = Len(q) - 1 /\ Within(q, r) /\ \A d \in 1..(Len(q) - 1) : r[d] = q[d]
          BY <2>1, UpperFacts
    <3>2. \A d \in 1..(Len(q) - 1) : s[d] = q[d]
          BY <2>1, SiblingFacts
    <3>3. Within(s, r)
          BY <2>1, <2>2, <3>1, <3>2 DEF Within
    <3> QED BY <2>1, <3>1, <3>3
  <2> HIDE DEF s, r
  <2>4. CASE q \in old /\ s \in old
        BY <1>1, <1>6, <2>4 DEF Dense, s
  <2>5. ASSUME NEW a \in Cuts, NEW b \in Cuts, a \in parts, b \in old, Len(a) = Len(b),
               Within(a, r), Within(b, r), Len(r) = Len(a) - 1
        PROVE  FALSE
    <3>1. Within(a, p) /\ a # p /\ Len(p) \in Nat /\ Len(a) \in Nat /\ b \in DOMAIN leaves /\ b # p
          BY <1>2, <1>4, <2>5, CutFacts
    <3>2. Len(p) # Len(a)
          BY <1>2, <3>1, CutFacts, SameCut DEF Within
    <3>3. Len(p) <= Len(r)
          BY <2>5, <3>1, <3>2 DEF Within
    <3>4. Within(r, p)
          BY <1>2, <2>3, <2>5, <3>1, <3>3, WithinComparable
    <3>5. Within(b, p)
          BY <1>2, <2>3, <2>5, <3>4, WithinTransitive
    <3> QED BY <1>1, <3>1, <3>5 DEF Apart
  <2>6. CASE q \in parts /\ s \in parts
    <3>1. Within(q, p) /\ q # p /\ Len(p) \in Nat /\ Len(p) <= Len(q)
          BY <1>2, <1>4, <2>6, CutFacts DEF Within
    <3>2. Len(p) # Len(q)
          BY <1>2, <2>1, <3>1, CutFacts, SameCut DEF Within
    <3>3. Within(r, p)
          BY <1>2, <2>1, <2>3, <3>1, <3>2, WithinComparable
    <3>4. Cardinality(Inside(members, r)) > Grow
          BY <2>3, <2>6, <3>3 DEF parts, Parts
    <3>5. Inside(members, r) \subseteq Inside(members, q) \cup Inside(members, s)
      <4> SUFFICES ASSUME NEW y \in members, Within(y, r)
                   PROVE  Within(y, q) \/ Within(y, s)
          BY DEF Inside
      <4>1. y \in Cuts /\ Len(y) = Width /\ y \in [1..Len(y) -> {0, 1}]
            BY <1>2, IdFacts, CutFacts
      <4>2. Len(q) <= Width /\ q[Len(q)] \in {0, 1} /\ s[Len(q)] = 1 - q[Len(q)]
            BY <2>1, CutFacts, SiblingFacts DEF s
      <4>3. \A d \in 1..(Len(q) - 1) : y[d] = q[d] /\ y[d] = s[d]
            BY <2>1, <2>2, <2>3 DEF Within
      <4>4. y[Len(q)] \in {0, 1}
            BY <2>1, <4>1, <4>2
      <4>5. y[Len(q)] = q[Len(q)] \/ y[Len(q)] = s[Len(q)]
            BY <4>2, <4>4
      <4> QED BY <2>1, <2>2, <4>1, <4>2, <4>3, <4>5 DEF Within
    <3> DEFINE m == Inside(members, q)
               n == Inside(members, s)
    <3>6. IsFiniteSet(m) /\ IsFiniteSet(n) /\ Cardinality(m) \in Nat /\ Cardinality(n) \in Nat
          BY <1>2, InsideFinite
    <3> HIDE DEF m, n
    <3>7. /\ IsFiniteSet(m \cup n) /\ Cardinality(m \cup n) \in Nat
          /\ Cardinality(m \cup n) <= Cardinality(m) + Cardinality(n)
          BY <3>6, UnionSize
    <3>8. Inside(members, r) \in SUBSET (m \cup n)
          BY <3>5 DEF m, n
    <3>9. Cardinality(Inside(members, r)) <= Cardinality(m \cup n) /\ Cardinality(Inside(members, r)) \in Nat
          BY <1>2, <3>7, <3>8, FS_Subset, InsideFinite
    <3>10. f[q] = m /\ f[s] = n
          BY <1>3, <2>6 DEF m, n
    <3> QED BY <3>4, <3>6, <3>7, <3>9, <3>10, PartitionAssumption DEF s
  <2> QED BY <1>3, <2>1, <2>2, <2>3, <2>4, <2>5, <2>6 DEF s
<1>12. Trie(f)
      BY <1>7, <1>8, <1>9, <1>10, <1>11 DEF Trie
<1> QED BY <1>3, <1>12 DEF members, parts, f

(* The leaves that join on the way up. *)
Sib(p, k) == Sibling(Upper(p, k))

LEMMA SibFacts ==
  ASSUME NEW p \in Cuts, NEW k \in 1..Len(p)
  PROVE  /\ Sib(p, k) \in Cuts /\ Len(Sib(p, k)) = k
         /\ \A d \in 1..k : Sib(p, k)[d] = IF d = k THEN 1 - p[d] ELSE p[d]
<1>1. k \in 0..Len(p) /\ k \in Nat /\ k > 0
      BY CutFacts
<1>2. Upper(p, k) \in Cuts /\ Len(Upper(p, k)) = k /\ \A d \in 1..k : Upper(p, k)[d] = p[d]
      BY <1>1, UpperFacts
<1> QED BY <1>1, <1>2, SiblingFacts DEF Sib

LEMMA GatheredFinite ==
  ASSUME NEW tree, NEW p \in Cuts, NEW n \in 0..Len(p), p \in DOMAIN tree,
         \A k \in (n + 1)..Len(p) : Sib(p, k) \in DOMAIN tree,
         \A q \in DOMAIN tree : IsFiniteSet(tree[q])
  PROVE  IsFiniteSet(Gathered(tree, p, n))
<1> DEFINE steps == (n + 1)..Len(p)
           f == [k \in steps |-> tree[Sib(p, k)]]
           held == {tree[Sib(p, k)] : k \in steps}
<1>1. n \in Int /\ Len(p) \in Int /\ n + 1 \in Int
      BY CutFacts
<1>2. IsFiniteSet(steps)
      BY <1>1, FS_Interval
<1>3. f \in Surjection(steps, held)
      BY DEF Surjection
<1>4. IsFiniteSet(held)
      BY <1>2, <1>3, FS_Surjection
<1>5. IsFiniteSet(UNION held)
      BY <1>4, FS_UNION
<1>6. Gathered(tree, p, n) = tree[p] \cup UNION held
      BY DEF Gathered, Joined, Sib
<1> HIDE DEF held
<1> QED BY <1>5, <1>6, UnionSize

(* So does a merge, as far up as it goes; where it stops the siblings are
   too many to join, and elsewhere nothing has changed. *)
LEMMA MergeTrie ==
  ASSUME NEW tree, tree \in [DOMAIN tree -> SUBSET Ids], DOMAIN tree \subseteq Cuts,
         Covers(tree), Apart(tree), Fits(tree), NEW p \in DOMAIN tree,
         \A q \in DOMAIN tree : q # <<>> /\ q # p /\ Sibling(q) # p /\ Sibling(q) \in DOMAIN tree =>
           Cardinality(tree[q]) + Cardinality(tree[Sibling(q)]) >= Shrink,
         NEW n \in 0..Len(p), \A k \in (n + 1)..Len(p) : Sparse(tree, p, k),
         n > 0 => ~Sparse(tree, p, n)
  PROVE  /\ Trie(Merge(tree, p, n))
         /\ Joined(p, n) \subseteq DOMAIN tree
         /\ \A q \in DOMAIN tree \ Joined(p, n) : q # Upper(p, n)
<1> DEFINE joined == Joined(p, n)
           u == Upper(p, n)
           kept == DOMAIN tree \ joined
           g == Gathered(tree, p, n)
           t == Merge(tree, p, n)
<1>1. p \in Cuts /\ n \in Nat /\ Len(p) \in Nat /\ n <= Len(p) /\ Len(p) <= Width
      BY CutFacts
<1>2. u \in Cuts /\ Len(u) = n /\ Within(p, u) /\ \A d \in 1..n : u[d] = p[d]
      BY <1>1, UpperFacts
<1>3. ASSUME NEW k \in (n + 1)..Len(p)
      PROVE  /\ k \in 1..Len(p) /\ Sib(p, k) \in DOMAIN tree /\ Sib(p, k) \in Cuts /\ Len(Sib(p, k)) = k
             /\ \A d \in 1..k : Sib(p, k)[d] = IF d = k THEN 1 - p[d] ELSE p[d]
             /\ Within(Sib(p, k), u)
  <2>1. k \in 1..Len(p) /\ n < k
        BY <1>1
  <2>2. Sib(p, k) \in DOMAIN tree
        BY DEF Sparse, Sib
  <2> QED BY <1>1, <1>2, <2>1, <2>2, SibFacts DEF Within
<1>4. joined = {p} \cup {Sib(p, k) : k \in (n + 1)..Len(p)}
      BY DEF Joined, Sib
<1>5. joined \subseteq DOMAIN tree /\ \A q \in joined : Within(q, u)
      BY <1>2, <1>3, <1>4
<1>6. ASSUME NEW r \in DOMAIN tree, Within(r, u)
      PROVE  r \in joined
  <2> SUFFICES ASSUME r # p
               PROVE  r \in joined
      BY <1>4
  <2> DEFINE D == {d \in 1..Len(p) : d <= Len(r) /\ r[d] # p[d]}
  <2>1. r \in Cuts /\ Len(r) \in Nat /\ ~Within(p, r) /\ ~Within(r, p)
        BY CutFacts DEF Apart
  <2>2. D # {}
        BY <1>1, <2>1 DEF Within
  <2>3. D \in SUBSET Nat
        BY <1>1
  <2>4. PICK d \in D : \A e \in D : d <= e
        BY <2>2, <2>3, LeastLength
  <2>5. d \in 1..Len(p) /\ d \in Nat /\ d <= Len(r) /\ r[d] # p[d] /\ \A e \in 1..(d - 1) : r[e] = p[e]
        BY <1>1, <2>1, <2>4
  <2>6. r[d] \in {0, 1} /\ p[d] \in {0, 1}
        BY <1>1, <2>1, <2>5, CutFacts
  <2>7. d \in (n + 1)..Len(p)
        BY <1>1, <1>2, <1>6, <2>5 DEF Within
  <2>8. Within(r, Sib(p, d))
        BY <1>3, <2>5, <2>6, <2>7 DEF Within
  <2>9. r = Sib(p, d)
        BY <1>3, <2>7, <2>8 DEF Apart
  <2> QED BY <1>4, <2>7, <2>9
<1>7. \A r \in kept : ~Within(u, r) /\ ~Within(r, u) /\ r # u
  <2> SUFFICES ASSUME NEW r \in kept, Within(u, r)
               PROVE  FALSE
      BY <1>2, <1>6, WithinReflexive
  <2>1. Within(p, r)
        BY <1>1, <1>2, WithinTransitive
  <2> QED BY <1>4, <2>1 DEF Apart
<1>8. /\ DOMAIN t = kept \cup {u} /\ t = [q \in DOMAIN t |-> t[q]]
      /\ t[u] = g /\ \A q \in kept : t[q] = tree[q]
      BY <1>7 DEF Merge
<1>9. g \subseteq Ids /\ \A y \in g : y \in Ids /\ Within(y, u)
  <2> SUFFICES ASSUME NEW q \in joined, NEW y \in tree[q]
               PROVE  y \in Ids /\ Within(y, u)
      BY DEF Gathered
  <2>1. q \in DOMAIN tree /\ q \in Cuts /\ Within(q, u)
        BY <1>5
  <2>2. y \in Ids /\ Within(y, q)
        BY <2>1 DEF Fits
  <2> QED BY <1>2, <2>1, <2>2, IdFacts, WithinTransitive
<1>10. IsFiniteSet(g) /\ Cardinality(g) \in Nat /\ Cardinality(g) <= Grow
  <2>1. \A m \in n..Len(p) : IsFiniteSet(Gathered(tree, p, m)) /\ Cardinality(Gathered(tree, p, m)) \in Nat
    <3> SUFFICES ASSUME NEW m \in n..Len(p)
                 PROVE  IsFiniteSet(Gathered(tree, p, m))
        BY FS_CardinalityType
    <3>1. m \in 0..Len(p) /\ \A k \in (m + 1)..Len(p) : k \in (n + 1)..Len(p)
          BY <1>1
    <3>2. \A q \in DOMAIN tree : IsFiniteSet(tree[q])
          BY DEF Fits
    <3> QED BY <1>1, <1>3, <3>1, <3>2, GatheredFinite
  <2>2. CASE n = Len(p)
    <3>1. g = tree[p]
          BY <1>1, <2>2 DEF Gathered, Joined
    <3> QED BY <1>1, <2>1, <3>1 DEF Fits
  <2>3. CASE n < Len(p)
    <3> DEFINE a == Gathered(tree, p, n + 1)
               b == tree[Sib(p, n + 1)]
    <3>1. n + 1 \in (n + 1)..Len(p) /\ n \in n..Len(p) /\ n + 1 \in n..Len(p)
          BY <1>1, <2>3
    <3>2. Cardinality(a) + Cardinality(b) < Shrink
          BY <3>1 DEF Sparse, Sib
    <3>3. IsFiniteSet(a) /\ IsFiniteSet(b)
          BY <1>3, <2>1, <3>1 DEF Fits
    <3>4. joined \subseteq Joined(p, n + 1) \cup {Sib(p, n + 1)}
      <4>1. \A k \in (n + 1)..Len(p) : k = n + 1 \/ k \in (n + 1 + 1)..Len(p)
            BY <1>1
      <4> QED BY <4>1 DEF Joined, Sib
    <3>5. g \in SUBSET (a \cup b)
          BY <3>4 DEF Gathered
    <3>6. /\ IsFiniteSet(a \cup b) /\ Cardinality(a \cup b) <= Cardinality(a) + Cardinality(b)
          /\ Cardinality(a \cup b) \in Nat
          BY <3>3, UnionSize
    <3>7. Cardinality(g) <= Cardinality(a \cup b) /\ Cardinality(a) \in Nat /\ Cardinality(b) \in Nat
          BY <3>3, <3>5, <3>6, FS_Subset, FS_CardinalityType
    <3>8. IsFiniteSet(g) /\ Cardinality(g) \in Nat
          BY <2>1, <3>1
    <3> HIDE DEF a, b, g
    <3> QED BY <3>2, <3>6, <3>7, <3>8, PartitionAssumption
  <2> QED BY <1>1, <2>2, <2>3
<1>11. \A q \in DOMAIN tree : IsFiniteSet(tree[q]) /\ Cardinality(tree[q]) \in Nat
      BY FS_CardinalityType DEF Fits
<1>12. Dense(t)
  <2> SUFFICES ASSUME NEW q \in DOMAIN t, q # <<>>, Sibling(q) \in DOMAIN t
               PROVE  Cardinality(t[q]) + Cardinality(t[Sibling(q)]) >= Shrink
      BY DEF Dense
  <2>1. q \in Cuts /\ Len(q) > 0
        BY <1>2, <1>8, CutFacts, EmptySeq
  <2>2. Sibling(q) # q /\ Sibling(Sibling(q)) = q
    <3>1. Len(q) \in 1..Len(q) /\ q[Len(q)] \in {0, 1} /\ Sibling(q)[Len(q)] = 1 - q[Len(q)]
          BY <2>1, CutFacts, SiblingFacts
    <3> QED BY <2>1, <3>1, SiblingFacts
  <2>3. ASSUME NEW s \in kept, s = Sibling(u), n > 0
        PROVE  Cardinality(g) + Cardinality(tree[s]) >= Shrink
    <3>1. ~(Cardinality(g) + Cardinality(tree[s]) < Shrink)
          BY <2>3 DEF Sparse
    <3> QED BY <1>10, <1>11, <3>1, PartitionAssumption
  <2>4. CASE q = u
    <3>1. n > 0 /\ Sibling(u) \in kept
          BY <1>2, <1>8, <2>1, <2>2, <2>4
    <3> QED BY <1>8, <2>3, <2>4, <3>1
  <2>5. CASE q # u /\ Sibling(q) = u
    <3>1. n > 0
          BY <1>2, <2>1, <2>5, SiblingFacts
    <3>2. q \in kept /\ q = Sibling(u)
          BY <1>8, <2>2, <2>5
    <3>3. Cardinality(g) \in Nat /\ Cardinality(tree[q]) \in Nat
          BY <1>10, <1>11, <3>2
    <3> QED BY <1>8, <2>3, <2>5, <3>1, <3>2, <3>3
  <2>6. CASE q # u /\ Sibling(q) # u
    <3>1. q \in kept /\ Sibling(q) \in kept /\ p \in joined
          BY <1>4, <1>8, <2>6
    <3> QED BY <1>8, <3>1
  <2> QED BY <2>4, <2>5, <2>6
<1> HIDE DEF t, g, joined, u
<1>13. t \in [DOMAIN t -> SUBSET Ids] /\ DOMAIN t \subseteq Cuts
  <2>1. \A q \in DOMAIN t : t[q] \in SUBSET Ids
        BY <1>8, <1>9
  <2> QED BY <1>2, <1>8, <2>1
<1>14. Covers(t)
  <2> SUFFICES ASSUME NEW y \in Ids
               PROVE  \E q \in DOMAIN t : Within(y, q)
      BY DEF Covers
  <2>1. PICK r \in DOMAIN tree : Within(y, r)
        BY DEF Covers
  <2>2. r \in joined => Within(y, u)
        BY <1>2, <1>5, <2>1, IdFacts, WithinTransitive
  <2> QED BY <1>8, <2>1, <2>2
<1>15. Apart(t)
      BY <1>7, <1>8 DEF Apart
<1>16. Fits(t)
      BY <1>8, <1>9, <1>10 DEF Fits
<1>17. Trie(t)
      BY <1>12, <1>13, <1>14, <1>15, <1>16 DEF Trie
<1> QED BY <1>5, <1>7, <1>17 DEF t, joined, u
-----------------------------------------------------------------------------
(* Everything the leaves hold. *)
All(f) == UNION {f[p] : p \in DOMAIN f}

LEMMA TrieTiles ==
  ASSUME Trie(leaves)
  PROVE  LeavesTile
<1>1. ASSUME NEW x \in Ids
      PROVE  \E p \in DOMAIN leaves : {q \in DOMAIN leaves : Within(x, q)} = {p}
  <2>1. PICK p \in DOMAIN leaves : Within(x, p)
        BY DEF Trie, Covers
  <2>2. ASSUME NEW q \in DOMAIN leaves, Within(x, q)
        PROVE  q = p
    <3>1. x \in Cuts /\ p \in Cuts /\ q \in Cuts /\ Len(p) \in Nat /\ Len(q) \in Nat
          BY IdFacts, CutFacts DEF Trie
    <3>2. Within(p, q) \/ Within(q, p)
          BY <2>1, <2>2, <3>1, WithinComparable
    <3> QED BY <3>2 DEF Trie, Apart
  <2> QED BY <2>1, <2>2
<1> QED BY <1>1 DEF Trie, Fits, Dense, LeavesTile

LEMMA LeafFacts ==
  ASSUME Trie(leaves), NEW x \in Ids
  PROVE  /\ LeafOf(x) \in DOMAIN leaves /\ Within(x, LeafOf(x))
         /\ \A q \in DOMAIN leaves : Within(x, q) => q = LeafOf(x)
<1>1. LeafOf(x) \in DOMAIN leaves /\ Within(x, LeafOf(x))
      BY DEF Trie, Covers, LeafOf
<1>2. PICK p : {q \in DOMAIN leaves : Within(x, q)} = {p}
      BY TrieTiles DEF LeavesTile
<1> QED BY <1>1, <1>2

(* Members that come and go, at the leaves and in all. *)
LEMMA AddKeeps ==
  ASSUME Trie(leaves), NEW x \in Ids, AddMember(x)
  PROVE  Trie(leaves') /\ All(leaves') = All(leaves) \cup {x}
<1> DEFINE p == LeafOf(x)
           members == leaves[p] \cup {x}
<1>1. p \in DOMAIN leaves /\ Within(x, p)
      BY LeafFacts
<1> HIDE DEF p
<1>2. leaves' = IF Cardinality(members) > Grow THEN Split(p, members) ELSE [leaves EXCEPT ![p] = members]
      BY DEF AddMember, p
<1>3. /\ IsFiniteSet(members) /\ Cardinality(members) \in Nat /\ members \subseteq Ids /\ p \in Cuts
      /\ leaves \in [DOMAIN leaves -> SUBSET Ids]
      BY <1>1, FS_AddElement, FS_CardinalityType DEF Trie, Fits
<1>4. CASE Cardinality(members) > Grow
  <2> DEFINE f == Split(p, members)
             parts == Parts(p, members)
  <2>1. leaves' = f
        BY <1>2, <1>4
  <2>2. Trie(f) /\ DOMAIN f = (DOMAIN leaves \ {p}) \cup parts
        BY <1>1, <1>4, SplitTrie
  <2>3. /\ \A q \in parts : f[q] = Inside(members, q)
        /\ \A q \in DOMAIN leaves \ {p} : q \notin parts => f[q] = leaves[q]
        BY DEF Split
  <2>4. \A q \in DOMAIN leaves \ {p} : q \notin parts
    <3> SUFFICES ASSUME NEW q \in DOMAIN leaves \ {p}, q \in parts
                 PROVE  FALSE
        OBVIOUS
    <3>1. Within(q, p)
          BY DEF Parts
    <3> QED BY <1>1, <3>1 DEF Trie, Apart
  <2>5. \A y \in members : \E q \in parts : y \in Inside(members, q)
    <3> SUFFICES ASSUME NEW y \in members
                 PROVE  \E q \in parts : Within(y, q)
        BY DEF Inside
    <3>1. y \in Ids /\ Within(y, p)
          BY <1>1, <1>3 DEF Trie, Fits
    <3> QED BY <1>3, <3>1, SomePart
  <2>6. \A q \in parts : Inside(members, q) \subseteq members
        BY DEF Inside
  <2> HIDE DEF f, parts, members
  <2>7. All(f) \subseteq All(leaves) \cup members
        BY <2>2, <2>3, <2>4, <2>6 DEF All
  <2>8. \A y \in members : y \in All(f)
        BY <2>2, <2>3, <2>5 DEF All
  <2>9. \A q \in DOMAIN leaves \ {p} : leaves[q] \subseteq All(f)
        BY <2>2, <2>3, <2>4 DEF All
  <2>10. members = leaves[p] \cup {x}
        BY DEF members
  <2>11. All(f) = All(leaves) \cup {x}
        BY <1>1, <2>7, <2>8, <2>9, <2>10 DEF All
  <2> QED BY <2>1, <2>2, <2>11
<1>5. CASE ~(Cardinality(members) > Grow)
  <2> DEFINE f == [leaves EXCEPT ![p] = members]
  <2>1. leaves' = f
        BY <1>2, <1>5
  <2>2. /\ DOMAIN f = DOMAIN leaves /\ f \in [DOMAIN leaves -> SUBSET Ids]
        /\ \A q \in DOMAIN leaves : f[q] = IF q = p THEN members ELSE leaves[q]
        BY <1>1, <1>3
  <2>3. \A q \in DOMAIN leaves :
          /\ IsFiniteSet(leaves[q]) /\ Cardinality(leaves[q]) \in Nat
          /\ IsFiniteSet(f[q]) /\ Cardinality(f[q]) \in Nat /\ Cardinality(leaves[q]) <= Cardinality(f[q])
    <3>1. \A q \in DOMAIN leaves : IsFiniteSet(leaves[q]) /\ Cardinality(leaves[q]) \in Nat
          BY FS_CardinalityType DEF Trie, Fits
    <3>2. Cardinality(leaves[p]) <= Cardinality(members)
          BY <1>3, FS_Subset
    <3> QED BY <1>3, <2>2, <3>1, <3>2
  <2>4. Covers(f) /\ Apart(f)
        BY <2>2 DEF Trie, Covers, Apart
  <2>5. Fits(f)
    <3>1. Cardinality(members) <= Grow
          BY <1>3, <1>5, PartitionAssumption
    <3> QED BY <1>1, <1>3, <2>2, <3>1 DEF Trie, Fits
  <2>6. Dense(f)
    <3> SUFFICES ASSUME NEW q \in DOMAIN f, q # <<>>, Sibling(q) \in DOMAIN f
                 PROVE  Cardinality(f[q]) + Cardinality(f[Sibling(q)]) >= Shrink
        BY DEF Dense
    <3>1. q \in DOMAIN leaves /\ Sibling(q) \in DOMAIN leaves
          BY <2>2
    <3>2. Cardinality(leaves[q]) + Cardinality(leaves[Sibling(q)]) >= Shrink
          BY <3>1 DEF Trie, Dense
    <3> HIDE DEF f
    <3> QED BY <2>3, <3>1, <3>2, PartitionAssumption
  <2>7. Trie(f)
        BY <2>2, <2>4, <2>5, <2>6 DEF Trie
  <2>8. All(f) = All(leaves) \cup {x}
        BY <1>1, <2>2 DEF All
  <2> QED BY <2>1, <2>7, <2>8
<1> QED BY <1>4, <1>5

LEMMA RemoveKeeps ==
  ASSUME Trie(leaves), NEW x \in Ids, RemoveMember(x)
  PROVE  Trie(leaves') /\ All(leaves') = All(leaves) \ {x}
<1> DEFINE p == LeafOf(x)
           tree == [leaves EXCEPT ![p] = leaves[p] \ {x}]
<1>1. /\ p \in DOMAIN leaves /\ Within(x, p) /\ p \in Cuts
      /\ \A q \in DOMAIN leaves : Within(x, q) => q = p
      BY LeafFacts DEF Trie
<1> HIDE DEF p
<1>2. PICK n \in 0..Len(p) :
        /\ \A k \in (n + 1)..Len(p) : Sparse(tree, p, k)
        /\ n > 0 => ~Sparse(tree, p, n)
        /\ leaves' = Merge(tree, p, n)
      BY DEF RemoveMember, p
<1>3. /\ leaves \in [DOMAIN leaves -> SUBSET Ids] /\ DOMAIN leaves \subseteq Cuts
      /\ DOMAIN tree = DOMAIN leaves /\ tree \in [DOMAIN leaves -> SUBSET Ids]
      /\ \A q \in DOMAIN leaves : tree[q] = IF q = p THEN leaves[p] \ {x} ELSE leaves[q]
      BY <1>1 DEF Trie
<1> HIDE DEF tree
<1>4. Covers(tree) /\ Apart(tree)
      BY <1>3 DEF Trie, Covers, Apart
<1>5. Fits(tree)
  <2>1. IsFiniteSet(leaves[p]) /\ Cardinality(leaves[p]) <= Grow /\ \A y \in leaves[p] : Within(y, p)
        BY <1>1 DEF Trie, Fits
  <2> DEFINE rest == leaves[p] \ {x}
  <2>2. rest \in SUBSET leaves[p]
        OBVIOUS
  <2>3. IsFiniteSet(rest) /\ Cardinality(rest) <= Cardinality(leaves[p])
        BY <2>1, <2>2, FS_Subset
  <2>4. Cardinality(rest) \in Nat /\ Cardinality(leaves[p]) \in Nat
        BY <2>1, <2>3, FS_CardinalityType
  <2>5. Cardinality(rest) <= Grow
        BY <2>1, <2>3, <2>4, PartitionAssumption
  <2> QED BY <1>3, <2>1, <2>3, <2>5 DEF Trie, Fits
<1>6. \A q \in DOMAIN tree : q # <<>> /\ q # p /\ Sibling(q) # p /\ Sibling(q) \in DOMAIN tree =>
        Cardinality(tree[q]) + Cardinality(tree[Sibling(q)]) >= Shrink
      BY <1>3 DEF Trie, Dense
<1>7. /\ Trie(Merge(tree, p, n)) /\ Joined(p, n) \subseteq DOMAIN tree
      /\ \A q \in DOMAIN tree \ Joined(p, n) : q # Upper(p, n)
      BY <1>1, <1>2, <1>3, <1>4, <1>5, <1>6, MergeTrie
<1>8. All(Merge(tree, p, n)) = All(tree)
  <2> DEFINE t == Merge(tree, p, n)
             u == Upper(p, n)
  <2>1. /\ DOMAIN t = (DOMAIN tree \ Joined(p, n)) \cup {u} /\ t[u] = Gathered(tree, p, n)
        /\ \A q \in DOMAIN tree \ Joined(p, n) : t[q] = tree[q]
        BY <1>7 DEF Merge
  <2> HIDE DEF t, u
  <2>2. All(t) \subseteq All(tree)
        BY <1>7, <2>1 DEF All, Gathered
  <2>3. \A q \in DOMAIN tree : tree[q] \subseteq All(t)
        BY <2>1 DEF All, Gathered
  <2> QED BY <2>2, <2>3 DEF All, t
<1>9. All(tree) = All(leaves) \ {x}
  <2>1. \A q \in DOMAIN leaves : x \in leaves[q] => q = p
        BY <1>1 DEF Trie, Fits
  <2> QED BY <1>1, <1>3, <2>1 DEF All
<1> QED BY <1>2, <1>7, <1>8, <1>9

LEMMA TrieAtFirst == PartitionInit => Trie(leaves) /\ All(leaves) = {}
<1> SUFFICES ASSUME PartitionInit
             PROVE  Trie(leaves) /\ All(leaves) = {}
    OBVIOUS
<1>1. DOMAIN leaves = {<<>>} /\ leaves = [p \in DOMAIN leaves |-> leaves[p]] /\ leaves[<<>>] = {}
      BY DEF PartitionInit
<1>2. <<>> \in Cuts /\ Len(<<>>) = 0
  <2>1. <<>> \in Seq({0, 1}) /\ Len(<<>>) = 0
        OBVIOUS
  <2> DEFINE e == <<>>
  <2>2. e \in Seq({0, 1}) /\ Len(e) <= Width
        BY <2>1, PartitionAssumption
  <2> HIDE DEF e
  <2>3. e \in Cuts
        BY <2>2, IsCut
  <2> QED BY <2>1, <2>3 DEF e
<1>3. \A x \in Ids : Within(x, <<>>)
      BY <1>2, IdFacts, PartitionAssumption DEF Within
<1>4. IsFiniteSet({}) /\ Cardinality({}) = 0
      BY FS_EmptySet
<1>5. Covers(leaves) /\ Apart(leaves) /\ Dense(leaves)
      BY <1>1, <1>3 DEF Covers, Apart, Dense
<1>6. Fits(leaves)
  <2>1. \A p \in DOMAIN leaves : leaves[p] = {}
        BY <1>1
  <2> QED BY <1>4, <2>1, PartitionAssumption DEF Fits
<1> QED BY <1>1, <1>2, <1>5, <1>6 DEF Trie, All

(* The leaves are sound after any joins and departures. *)
LEMMA LeavesAreSound == PartitionSpec => [](Trie(leaves))
<1>1. ASSUME Trie(leaves), [PartitionNext]_leaves
      PROVE  Trie(leaves)'
  <2>1. ASSUME NEW x \in Ids, AddMember(x) \/ RemoveMember(x)
        PROVE  Trie(leaves')
        BY <1>1, <2>1, AddKeeps, RemoveKeeps
  <2>2. CASE UNCHANGED leaves
        BY <1>1, <2>2
  <2> QED BY <1>1, <2>1, <2>2 DEF PartitionNext
<1> QED BY <1>1, TrieAtFirst, PTL DEF PartitionSpec

(* presence/partition.py:44, for identifiers of any width, any thresholds the
   constructor accepts and any sequence of joins and departures. *)
THEOREM Tiles == PartitionSpec => []LeavesTile
BY LeavesAreSound, TrieTiles, PTL

(* presence/partition.py:138: leaves come and go, the set of members is that
   of a scope that never splits nor merges. *)
THEOREM LeavesAreOneSet == PartitionSpec => ImplementsScope
<1>1. PartitionInit => Scope!Init
      BY TrieAtFirst DEF Scope!Init, All
<1>2. Trie(leaves) /\ [PartitionNext]_leaves => [Scope!Next]_(All(leaves))
  <2>1. ASSUME Trie(leaves), NEW x \in Ids, AddMember(x)
        PROVE  Scope!Next
        BY <2>1, AddKeeps DEF Scope!Next, Scope!Join, All
  <2>2. ASSUME Trie(leaves), NEW x \in Ids, RemoveMember(x)
        PROVE  Scope!Next
        BY <2>2, RemoveKeeps DEF Scope!Next, Scope!Leave, All
  <2>3. leaves' = leaves => All(leaves)' = All(leaves)
        BY DEF All
  <2> QED BY <2>1, <2>2, <2>3 DEF PartitionNext
<1> QED BY <1>1, <1>2, LeavesAreSound, PTL DEF PartitionSpec, ImplementsScope, Scope!Spec, All
=============================================================================
