---------------------------- MODULE Anticipation ----------------------------
(***************************************************************************)
(* The anticipatory discovery service (src/ads) over cross-scope discovery *)
(* (src/presence/crossscope.py) and the rendezvous index                   *)
(* (src/presence/rendezvous.py): it watches the agents that subscribed,    *)
(* predicts what they will look for, and looks it up before they ask.      *)
(* Each call on its stores is one step; a preload is many, over the network.*)
(***************************************************************************)
EXTENDS Naturals, Sequences, FiniteSets, SequencesExt

CONSTANTS
  Users, Wanted,     \* agents, capabilities
  Sites,             \* provider endpoints
  Findable,          \* [user -> [capability -> [site -> agents it may see there]]]
  Nought,
  History, Top, ProviderTtl, MaxCount, MaxTime

VARIABLES
  subscribed,
  signals,    \* [user -> Nought or [recent, freq, after]]
  preloaded,  \* [user -> [capability -> Nought or set of agents found]]
  leaving,    \* users whose unsubscribe has not yet dropped the preloads
  load,       \* the preload under way: [at, user, last, freq, after, todo, sites, found]
  providers,  \* [capability -> [site -> Nought or time it was last published]]
  hour

adsVars == <<subscribed, signals, preloaded, leaving, load, providers, hour>>

NoCount == [c \in Wanted |-> 0]
NoSignals == [recent |-> <<>>, freq |-> NoCount, after |-> [c \in Wanted |-> NoCount]]
NoLoad == [at |-> "idle", user |-> Nought, last |-> Nought, freq |-> NoCount, todo |-> <<>>, sites |-> {}, found |-> {}]
AdsInit ==
  /\ subscribed = {} /\ signals = [u \in Users |-> Nought] /\ leaving = {}
  /\ preloaded = [u \in Users |-> [c \in Wanted |-> Nought]] /\ load = NoLoad
  /\ providers = [c \in Wanted |-> [s \in Sites |-> Nought]] /\ hour = 0

Subscribe(u) ==
  /\ subscribed' = subscribed \cup {u}
  /\ signals' = [signals EXCEPT ![u] = IF @ = Nought THEN NoSignals ELSE @]
  /\ UNCHANGED <<preloaded, leaving, load, providers, hour>>
(* unsubscribe forgets the signals, then the preloads. *)
Unsubscribe(u) ==
  /\ u \in subscribed /\ subscribed' = subscribed \ {u} /\ signals' = [signals EXCEPT ![u] = Nought]
  /\ leaving' = leaving \cup {u} /\ UNCHANGED <<preloaded, load, providers, hour>>
Purge(u) ==
  /\ u \in leaving /\ leaving' = leaving \ {u}
  /\ preloaded' = [preloaded EXCEPT ![u] = [c \in Wanted |-> Nought]]
  /\ UNCHANGED <<subscribed, signals, load, providers, hour>>

(* observe_capability, also from an audit record. *)
Observe(u, c) ==
  /\ u \in subscribed /\ signals[u].freq[c] < MaxCount
  /\ signals' = [signals EXCEPT ![u] =
       [recent |-> IF Len(@.recent) = History THEN Append(Tail(@.recent), c) ELSE Append(@.recent, c),
        freq |-> [@.freq EXCEPT ![c] = @ + 1],
        after |-> IF @.recent = <<>> THEN @.after ELSE [@.after EXCEPT ![Last(signals[u].recent)][c] = @ + 1]]]
  /\ UNCHANGED <<subscribed, preloaded, leaving, load, providers, hour>>

(***************************************************************************)
(* preload: the subscription is checked once; the signals are read in      *)
(* three calls; each predicted capability is looked up and stored.         *)
(***************************************************************************)
Loading(at) == load.at = at /\ UNCHANGED <<subscribed, signals, leaving, providers, hour>>
Read(u, field, otherwise) == IF signals[u] = Nought THEN otherwise ELSE signals[u][field]
Preload(u) ==
  /\ Loading("idle") /\ u \in subscribed /\ load' = [load EXCEPT !.at = "last", !.user = u]
  /\ UNCHANGED preloaded
ReadLast ==
  LET recent == Read(load.user, "recent", <<>>) IN
  /\ Loading("last") /\ UNCHANGED preloaded
  /\ load' = [load EXCEPT !.at = "freq", !.last = IF recent = <<>> THEN Nought ELSE Last(recent)]
ReadFreq ==
  /\ Loading("freq") /\ load' = [load EXCEPT !.at = "rank", !.freq = Read(load.user, "freq", NoCount)]
  /\ UNCHANGED preloaded
(* predict_capabilities: what followed counts double; the current one is out;
   ties go by name. *)
Rank ==
  LET follows == IF load.last = Nought THEN NoCount
                 ELSE Read(load.user, "after", [c \in Wanted |-> NoCount])[load.last]
      score(c) == 2 * follows[c] + load.freq[c]
      likely == {c \in Wanted \ {load.last} : score(c) > 0}
      ranked == CHOOSE s \in SetToSeqs(likely) : \A i, j \in DOMAIN s : i < j => score(s[i]) >= score(s[j]) IN
  /\ Loading("rank") /\ UNCHANGED preloaded
  /\ load' = [load EXCEPT !.at = "locate", !.freq = NoCount, !.last = Nought,
                          !.todo = SubSeq(ranked, 1, IF Len(ranked) < Top THEN Len(ranked) ELSE Top)]
Fresh(c) == {s \in Sites : providers[c][s] # Nought /\ hour < providers[c][s] + ProviderTtl}
(* cross_scope_discover: the rendezvous nodes name providers, if they answer;
   reading them drops the stale ones. *)
LocateSites ==
  /\ load.at = "locate" /\ load.todo # <<>>
  /\ LET c == Head(load.todo) IN
     \/ /\ load' = [load EXCEPT !.at = "gather", !.sites = Fresh(c)]
        /\ providers' = [providers EXCEPT ![c] = [s \in Sites |-> IF s \in Fresh(c) THEN @[s] ELSE Nought]]
     \/ load' = [load EXCEPT !.at = "gather"] /\ UNCHANGED providers
  /\ UNCHANGED <<subscribed, signals, preloaded, leaving, hour>>
Gather ==
  /\ Loading("gather") /\ UNCHANGED preloaded
  /\ \E s \in load.sites :
       load' = [load EXCEPT !.sites = @ \ {s}, !.found = @ \cup Findable[load.user][Head(load.todo)][s]]
Save ==
  /\ Loading("gather") /\ load.sites = {}
  /\ preloaded' = [preloaded EXCEPT ![load.user][Head(load.todo)] = load.found]
  /\ load' = [load EXCEPT !.at = "locate", !.todo = Tail(@), !.found = {}]
Preloaded == Loading("locate") /\ load.todo = <<>> /\ load' = NoLoad /\ UNCHANGED preloaded

(* publish_scopes: PUBLISH reaches the rendezvous index, or does not. *)
Publish(s, c) ==
  /\ providers' = [providers EXCEPT ![c][s] = hour]
  /\ UNCHANGED <<subscribed, signals, preloaded, leaving, load, hour>>
Hour == hour < MaxTime /\ hour' = hour + 1 /\ UNCHANGED <<subscribed, signals, preloaded, leaving, load, providers>>

AdsNext ==
  \/ \E u \in Users : Subscribe(u) \/ Unsubscribe(u) \/ Purge(u) \/ Preload(u) \/ \E c \in Wanted : Observe(u, c)
  \/ ReadLast \/ ReadFreq \/ Rank \/ LocateSites \/ Gather \/ Save \/ Preloaded \/ Hour
  \/ \E s \in Sites, c \in Wanted : Publish(s, c)
-----------------------------------------------------------------------------
(* ads/signals.py:53: an agent that has opted out is forgotten. *)
ForgetsOnOptOut ==
  \A u \in Users \ (subscribed \cup leaving) : signals[u] = Nought /\ \A c \in Wanted : preloaded[u][c] = Nought
=============================================================================
