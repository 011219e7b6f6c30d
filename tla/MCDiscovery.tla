---------------------------- MODULE MCDiscovery ----------------------------
(* The discovery plane.  Its parts meet only through requests on the wire: a
   behaviour is of one of them, the others stay as they start. *)
EXTENDS Presence, Overlay, Partition, Names, Anticipation

VARIABLE plane
planes == <<plane, presenceVars, overlayVars, leaves, nameVars, adsVars>>

MCDoc == [x \in Agents |-> [tier |-> 2, owner |-> "o", caps |-> IF x = "a" THEN {"c"} ELSE {}]]
Posture(m, d) == [mode |-> m, disclosure |-> d, names |-> {}, allowed |-> {"a", "f", "nobody"}]
MCHosted == [n \in Nodes |-> IF n = "n1" THEN {"a"} ELSE {}]
MCPinned == [n \in Nodes |-> IF n = "n1" THEN {"f"} ELSE {}]
MCPeers == [n \in Nodes |-> IF n = "n1" THEN {"n2"} ELSE {}]
MCPostures == {Posture("tier", "identity")}
MCEnvelopes == {Nil}
MCStamps == {[epoch |-> 1, ttl |-> 0, owner |-> Nil]}
MCAskers == {[id |-> "nobody", tier |-> Nil, owner |-> Nil], [id |-> "a", tier |-> 1, owner |-> Nil]}

MCFar == [x \in 1..7 |-> CASE x = 1 -> {0, 2, 7} [] x = 4 -> {1, 5, 7} [] x = 6 -> {4, 5} [] OTHER -> {3, 6}]
MCFindable == [u \in Users |-> [c \in Wanted |-> [s \in Sites |-> {s}]]]

PlanesInit ==
  /\ plane \in {"presence", "lookup", "leaves", "names", "ads"}
  /\ PresenceInit /\ TableInit({1, 4, 6}) /\ LookInit /\ PartitionInit /\ NamesInit /\ AdsInit
PlanesNext ==
  \/ /\ plane = "presence" /\ PresenceNext /\ UNCHANGED <<plane, overlayVars, leaves, nameVars, adsVars>>
  \/ /\ plane = "lookup" /\ LookNext /\ UNCHANGED <<plane, presenceVars, leaves, nameVars, adsVars>>
  \/ /\ plane = "leaves" /\ PartitionNext /\ UNCHANGED <<plane, presenceVars, overlayVars, nameVars, adsVars>>
  \/ /\ plane = "names" /\ NamesNext /\ UNCHANGED <<plane, presenceVars, overlayVars, leaves, adsVars>>
  \/ /\ plane = "ads" /\ AdsNext /\ UNCHANGED <<plane, presenceVars, overlayVars, leaves, nameVars>>
DiscoverySpec == PlanesInit /\ [][PlanesNext]_planes /\ PresenceFairness
=============================================================================
