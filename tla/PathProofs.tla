----------------------------- MODULE PathProofs -----------------------------
(***************************************************************************)
(* Proofs about RequestPath and Clients: whatever the requests, the        *)
(* configurations, the agents and the endpoints, what a gate has checked   *)
(* still holds of the request the handler gets, although gates after it    *)
(* rename its verb, its path and its agent.  The invariants say what each  *)
(* gate may count on from those before it.  The last part is about Elemen, *)
(* the client with a screen.                                               *)
(***************************************************************************)
EXTENDS Clients, Elemen, TLAPS, SequenceTheorems

(* The gates up to the alias. *)
Ahead == {"wire", "cert", "delegation", "address", "directory", "manifest", "select", "softDeny", "lifecycle"}
(* The gates past the alias. *)
Renamed == {"scope", "oauth", "catalog", "grammar", "policy", "redirect", "endpoint", "serve", "primitive"}

(* Not out of service, or asked for introspection under the verb v. *)
MayEnter(v) == doc.status \notin OutOfService \/ v \in Introspection
ServiceInv ==
  /\ at # "done" => ran = Absent
  /\ at = "serve" => Entries # {}
  /\ at = "alias" /\ TablesSpareIntrospection => MayEnter(verb)
  /\ at \in Renamed /\ TablesSpareIntrospection => MayEnter(key.verb)
  /\ ran # Absent /\ TablesSpareIntrospection => MayEnter(ran.entry.verb)

LEMMA ServiceStarts == PathInit => ServiceInv
BY DEF PathInit, ServiceInv, Renamed

LEMMA ServiceStep == ServiceInv /\ [PathNext]_pathVars => ServiceInv'
<1> SUFFICES ASSUME ServiceInv, [PathNext]_pathVars PROVE ServiceInv'
    OBVIOUS
<1>1. CASE Wire
  BY <1>1 DEF Wire, Gate, At, Pass, Refuse, Answer, ServiceInv, Renamed
<1>2. CASE HttpEntry
  BY <1>2 DEF HttpEntry, At, Pass, Refuse, Answer, ServiceInv, Renamed
<1>3. CASE CertGate
  BY <1>3 DEF CertGate, At, Pass, Refuse, Answer, ServiceInv, Renamed
<1>4. CASE DelegationGate
  BY <1>4 DEF DelegationGate, Gate, At, Pass, Refuse, Answer, ServiceInv, Renamed
<1>5. CASE AddressGate
  BY <1>5 DEF AddressGate, At, Pass, Refuse, Answer, ServiceInv, Renamed
<1>6. CASE Directory
  BY <1>6 DEF Directory, At, Pass, Refuse, Answer, ServiceInv, Renamed
<1>7. CASE Manifest
  BY <1>7 DEF Manifest, Gate, At, Pass, Refuse, Answer, ServiceInv, Renamed
<1>8. CASE Select
  BY <1>8 DEF Select, At, Pass, Refuse, Answer, ServiceInv, Renamed
<1>9. CASE SoftDeny
  BY <1>9 DEF SoftDeny, Gate, At, Pass, Refuse, Answer, ServiceInv, Renamed
<1>10. CASE Lifecycle
  <2>1. UNCHANGED <<asked, setting, docs, verb, path, target, key, ran>> /\ ran = Absent
    <3>1. CASE MayEnter(verb)
      BY <1>10, <3>1 DEF Lifecycle, Gate, At, Pass, Keep, road, ServiceInv, MayEnter
    <3>2. CASE ~MayEnter(verb)
      BY <1>10, <3>2 DEF Lifecycle, Gate, At, Pass, Keep, Refuse, Answer, road, ServiceInv
    <3> QED BY <3>1, <3>2
  <2>2. at' = "done" \/ (at' = "alias" /\ MayEnter(verb))
    <3>1. CASE MayEnter(verb)
      BY <1>10, <3>1 DEF Lifecycle, Gate, Pass, MayEnter
    <3>2. CASE ~MayEnter(verb)
      BY ZenonT(60), <1>10, <3>2 DEF Lifecycle, Gate, Pass, Refuse, Answer, MayEnter
    <3> QED BY <3>1, <3>2
  <2> QED BY <2>1, <2>2 DEF ServiceInv, Renamed, MayEnter, doc
<1>11. CASE Alias
  BY <1>11 DEF Alias, At, Pass, road, ServiceInv, TablesSpareIntrospection, MayEnter, doc
<1>12. CASE ScopeClaim
  BY <1>12
     DEF ScopeClaim, Gate, At, Pass, Keep, Refuse, Answer, road, ServiceInv, Renamed,
         TablesSpareIntrospection, MayEnter, doc
<1>13. CASE OAuth
  BY <1>13
     DEF OAuth, Gate, At, Pass, Keep, Refuse, Answer, road, ServiceInv, Renamed,
         TablesSpareIntrospection, MayEnter, doc
<1>14. CASE CatalogGate
  BY <1>14
     DEF CatalogGate, Gate, At, Pass, Keep, Refuse, Answer, road, ServiceInv, Renamed,
         TablesSpareIntrospection, MayEnter, doc
<1>15. CASE Grammar
  BY <1>15
     DEF Grammar, Gate, At, Pass, Keep, Refuse, Answer, road, ServiceInv, Renamed,
         TablesSpareIntrospection, MayEnter, doc
<1>16. CASE Policy
  BY <1>16
     DEF Policy, Gate, At, Pass, Keep, Refuse, Answer, road, ServiceInv, Renamed,
         TablesSpareIntrospection, MayEnter, doc
<1>17. CASE Redirect
  BY <1>17
     DEF Redirect, At, Pass, road, ServiceInv, Renamed, TablesSpareIntrospection, MayEnter, doc,
         Matches
<1>18. CASE Endpoint
  BY <1>18
     DEF Endpoint, At, Pass, Keep, Refuse, Answer, road, ServiceInv, Renamed,
         TablesSpareIntrospection, MayEnter, doc, Entries
<1>19. CASE Serve
  BY <1>19
     DEF Serve, Gate, At, Pass, Keep, Refuse, Answer, road, ServiceInv, Renamed,
         TablesSpareIntrospection, MayEnter, doc, Entries, Ran, entry
<1>20. CASE Primitive
  BY <1>20
     DEF Primitive, At, Keep, Refuse, Answer, road, ServiceInv, Renamed, TablesSpareIntrospection,
         MayEnter, doc, Ran
<1>21. CASE UNCHANGED pathVars
  BY <1>21 DEF pathVars, road, ServiceInv, TablesSpareIntrospection, MayEnter, doc, Entries
<1> QED BY <1>1, <1>2, <1>3, <1>4, <1>5, <1>6, <1>7, <1>8, <1>9, <1>10, <1>11, <1>12, <1>13, <1>14,
           <1>15, <1>16, <1>17, <1>18, <1>19, <1>20, <1>21 DEF PathNext

(* ServedInService (server/main.py and methods.py, dispatch): no handler runs
   for an agent that is suspended or retired but for introspection, whatever
   renamed the verb. *)
THEOREM InService == PathSpec => []ServedInService
<1>1. ServiceInv => ServedInService
      BY DEF ServiceInv, ServedInService, MayEnter, OutOfService
<1> QED BY ServiceStarts, ServiceStep, <1>1, PTL DEF PathSpec
-----------------------------------------------------------------------------
(* What the sources of the agent's name say of the target. *)
HeaderAgrees == asked.agent \in {Absent, target}
PathAgrees == asked.handle # Absent => target \in DOMAIN docs /\ doc.name = asked.handle
CertAgrees == Certified /\ (setting.insist \/ asked.agent = Absent) => asked.cert.agent = target
PinAgrees == asked.http /\ asked.agent = Absent => target = setting.pinned
Agreed == HeaderAgrees /\ PathAgrees /\ CertAgrees /\ PinAgrees

IdentityInv ==
  /\ asked \in Requests /\ docs \in Hostings
  /\ at # "done" => ran = Absent
  /\ at \in {"wire", "cert"} => target = asked.agent
  /\ at \in {"cert", "delegation", "address", "directory", "manifest", "select"} => ~asked.http
  /\ at \in {"delegation", "address"} => HeaderAgrees /\ CertAgrees
  /\ at \notin {"wire", "cert", "delegation", "address", "done"} => Agreed
  /\ ran # Absent => Agreed

LEMMA IdentityStarts == PathInit => IdentityInv
BY DEF PathInit, IdentityInv

(* A gate that leaves the target alone and does not turn back. *)
LEMMA IdentityKept ==
  ASSUME IdentityInv, UNCHANGED <<asked, setting, docs, target, ran>>,
         \/ at' \in {at, "done"}
         \/ /\ at \notin {"wire", "cert", "delegation", "address", "done"}
            /\ at' \notin {"wire", "cert", "delegation", "address"}
            /\ at' \in {"directory", "manifest", "select"} => at \in {"directory", "manifest"}
  PROVE  IdentityInv'
<1>1. UNCHANGED <<HeaderAgrees, PathAgrees, CertAgrees, PinAgrees, Agreed>>
      BY DEF HeaderAgrees, PathAgrees, CertAgrees, PinAgrees, Agreed, doc, Certified
<1> QED BY <1>1 DEF IdentityInv
LEMMA IdentityStep == IdentityInv /\ [PathNext]_pathVars => IdentityInv'
<1> SUFFICES ASSUME IdentityInv, [PathNext]_pathVars PROVE IdentityInv'
    OBVIOUS
<1> USE RequestsAreReal, AgentsHaveNames DEF RequestAssumption, HostingAssumption
<1>1. CASE Wire
  BY <1>1 DEF Wire, Gate, At, Pass, Keep, Refuse, Answer, road, IdentityInv
<1>2. CASE HttpEntry
  BY <1>2
     DEF HttpEntry, Caller, At, Pass, Refuse, Answer, road, IdentityInv, HeaderAgrees, PathAgrees,
         CertAgrees, PinAgrees, Agreed, Certified
<1>3. CASE CertGate
  <2>1. CASE Pass("delegation") /\ ~Certified /\ Keep
    BY <1>3, <2>1
       DEF CertGate, At, Pass, Keep, road, IdentityInv, HeaderAgrees, CertAgrees, Certified
  <2>2. CASE \E r \in CertRefusals : Refuse(r[1], r[2])
    BY <1>3, <2>2, IdentityKept DEF Keep, Refuse, Answer, road
  <2>3. CASE /\ Certified /\ CertRefusals = {} /\ Pass("delegation")
             /\ target' = IF target = Absent THEN asked.cert.agent ELSE target
    <3>1. setting.insist => target \in {Absent, asked.cert.agent}
          BY <2>3 DEF CertRefusals
    <3> QED BY <1>3, <2>3, <3>1 DEF CertGate, At, Pass, road, IdentityInv, HeaderAgrees, CertAgrees
  <2> QED BY <1>3, <2>1, <2>2, <2>3 DEF CertGate
<1>4. CASE DelegationGate
  BY <1>4
     DEF DelegationGate, Gate, At, Pass, Keep, Refuse, Answer, road, IdentityInv, HeaderAgrees,
         CertAgrees, Certified
<1>5. CASE AddressGate
  BY <1>5
     DEF AddressGate, Named, At, Pass, Keep, Refuse, Answer, road, IdentityInv, HeaderAgrees,
         PathAgrees, CertAgrees, PinAgrees, Agreed, doc, Certified
<1>6. CASE Directory
  BY <1>6, IdentityKept DEF Directory, At, Pass, Keep, Refuse, Answer, road
<1>7. CASE Select
  BY <1>7
     DEF Select, At, Pass, Keep, Refuse, Answer, road, IdentityInv, HeaderAgrees, PathAgrees,
         CertAgrees, PinAgrees, Agreed, doc, Certified
<1>8. CASE Manifest
  BY <1>8, IdentityKept DEF Manifest, Gate, At, Pass, Keep, Refuse, Answer, road
<1>9. CASE SoftDeny
  BY <1>9, IdentityKept DEF SoftDeny, Gate, At, Pass, Keep, Refuse, Answer, road
<1>10. CASE Lifecycle
  BY <1>10, IdentityKept DEF Lifecycle, Gate, At, Pass, Keep, Refuse, Answer, road
<1>11. CASE Alias
  BY <1>11, IdentityKept DEF Alias, At, Pass, road
<1>12. CASE ScopeClaim
  BY <1>12, IdentityKept DEF ScopeClaim, Gate, At, Pass, Keep, Refuse, Answer, road
<1>13. CASE OAuth
  BY <1>13, IdentityKept DEF OAuth, Gate, At, Pass, Keep, Refuse, Answer, road
<1>14. CASE CatalogGate
  BY <1>14, IdentityKept DEF CatalogGate, Gate, At, Pass, Keep, Refuse, Answer, road
<1>15. CASE Grammar
  BY <1>15, IdentityKept DEF Grammar, Gate, At, Pass, Keep, Refuse, Answer, road
<1>16. CASE Policy
  BY <1>16, IdentityKept DEF Policy, Gate, At, Pass, Keep, Refuse, Answer, road
<1>17. CASE Redirect
  BY <1>17, IdentityKept DEF Redirect, At, Pass, road
<1>18. CASE Endpoint
  BY <1>18, IdentityKept DEF Endpoint, At, Pass, Keep, Refuse, Answer, road
<1>19. CASE Serve
  BY <1>19
     DEF Serve, At, Keep, Refuse, Answer, road, IdentityInv, HeaderAgrees, PathAgrees, CertAgrees,
         PinAgrees, Agreed, doc, Certified
<1>20. CASE Primitive
  BY <1>20
     DEF Primitive, At, Keep, Refuse, Answer, road, IdentityInv, HeaderAgrees, PathAgrees,
         CertAgrees, PinAgrees, Agreed, doc, Certified
<1>21. CASE UNCHANGED pathVars
  BY <1>21, IdentityKept DEF pathVars, road
<1> QED BY <1>1, <1>2, <1>3, <1>4, <1>5, <1>6, <1>7, <1>8, <1>9, <1>10, <1>11, <1>12, <1>13, <1>14,
           <1>15, <1>16, <1>17, <1>18, <1>19, <1>20, <1>21 DEF PathNext

(* IdentitySourcesAgree (server/main.py, handle_connection; mtls.py; the HTTP
   gateway): every source that names an agent names the one the request is
   served for. *)
THEOREM OneIdentity == PathSpec => []IdentitySourcesAgree
<1>1. IdentityInv => IdentitySourcesAgree
      BY
         DEF IdentityInv, IdentitySourcesAgree, Agreed, HeaderAgrees, PathAgrees, CertAgrees,
             PinAgrees
<1> QED BY IdentityStarts, IdentityStep, <1>1, PTL DEF PathSpec
-----------------------------------------------------------------------------
(* What the road does to a request a client has sent. *)
RoadInv ==
  /\ asked.agent # Absent => target = asked.agent
  /\ at \in Ahead => verb = asked.verb

LEMMA RoadKeepsRoad == ASSUME PathNext PROVE UNCHANGED <<asked, setting, docs>>
<1>1. CASE Wire
  BY <1>1 DEF Wire, Gate, Pass, Refuse, Answer, road
<1>2. CASE HttpEntry
  BY <1>2 DEF HttpEntry, Pass, Refuse, Answer, road
<1>3. CASE CertGate
  BY <1>3 DEF CertGate, Pass, Refuse, Answer, road
<1>4. CASE DelegationGate
  BY <1>4 DEF DelegationGate, Gate, Pass, Refuse, Answer, road
<1>5. CASE AddressGate
  BY <1>5 DEF AddressGate, Pass, Refuse, Answer, road
<1>6. CASE Directory
  BY <1>6 DEF Directory, Pass, Refuse, Answer, road
<1>7. CASE Manifest
  BY <1>7 DEF Manifest, Gate, Pass, Refuse, Answer, road
<1>8. CASE Select
  BY <1>8 DEF Select, Pass, Refuse, Answer, road
<1>9. CASE SoftDeny
  BY <1>9 DEF SoftDeny, Gate, Pass, Refuse, Answer, road
<1>10. CASE Lifecycle
  BY <1>10 DEF Lifecycle, Gate, Pass, Refuse, Answer, road
<1>11. CASE Alias
  BY <1>11 DEF Alias, Pass, road
<1>12. CASE ScopeClaim
  BY <1>12 DEF ScopeClaim, Gate, Pass, Refuse, Answer, road
<1>13. CASE OAuth
  BY <1>13 DEF OAuth, Gate, Pass, Refuse, Answer, road
<1>14. CASE CatalogGate
  BY <1>14 DEF CatalogGate, Gate, Pass, Refuse, Answer, road
<1>15. CASE Grammar
  BY <1>15 DEF Grammar, Gate, Pass, Refuse, Answer, road
<1>16. CASE Policy
  BY <1>16 DEF Policy, Gate, Pass, Refuse, Answer, road
<1>17. CASE Redirect
  BY <1>17 DEF Redirect, Pass, road
<1>18. CASE Endpoint
  BY <1>18 DEF Endpoint, Pass, Refuse, Answer, road
<1>19. CASE Serve
  BY <1>19 DEF Serve, Refuse, Answer, road
<1>20. CASE Primitive
  BY <1>20 DEF Primitive, Refuse, Answer, road
<1> QED BY <1>1, <1>2, <1>3, <1>4, <1>5, <1>6, <1>7, <1>8, <1>9, <1>10, <1>11, <1>12, <1>13, <1>14,
           <1>15, <1>16, <1>17, <1>18, <1>19, <1>20 DEF PathNext

LEMMA RoadStep == ASSUME RoadInv, PathNext PROVE RoadInv'
<1>1. CASE Wire
  BY <1>1 DEF Wire, Gate, At, Pass, Keep, Refuse, Answer, road, RoadInv, Ahead
<1>2. CASE HttpEntry
  BY <1>2 DEF HttpEntry, Caller, At, Pass, Keep, Refuse, Answer, road, RoadInv, Ahead
<1>3. CASE CertGate
  BY <1>3 DEF CertGate, At, Pass, Keep, Refuse, Answer, road, RoadInv, Ahead
<1>4. CASE DelegationGate
  BY <1>4 DEF DelegationGate, Gate, At, Pass, Keep, Refuse, Answer, road, RoadInv, Ahead
<1>5. CASE AddressGate
  BY <1>5 DEF AddressGate, At, Pass, Keep, Refuse, Answer, road, RoadInv, Ahead
<1>6. CASE Directory
  BY <1>6 DEF Directory, At, Pass, Keep, Refuse, Answer, road, RoadInv, Ahead
<1>7. CASE Manifest
  BY <1>7 DEF Manifest, Gate, At, Pass, Keep, Refuse, Answer, road, RoadInv, Ahead
<1>8. CASE Select
  BY <1>8 DEF Select, At, Pass, Keep, Refuse, Answer, road, RoadInv, Ahead
<1>9. CASE SoftDeny
  BY <1>9 DEF SoftDeny, Gate, At, Pass, Keep, Refuse, Answer, road, RoadInv, Ahead
<1>10. CASE Lifecycle
  BY <1>10 DEF Lifecycle, Gate, Pass, Keep, Refuse, Answer, road, RoadInv, Ahead
<1>11. CASE Alias
  BY <1>11 DEF Alias, Pass, road, RoadInv, Ahead
<1>12. CASE ScopeClaim
  BY <1>12 DEF ScopeClaim, Gate, Pass, Keep, Refuse, Answer, road, RoadInv, Ahead
<1>13. CASE OAuth
  BY <1>13 DEF OAuth, Gate, Pass, Keep, Refuse, Answer, road, RoadInv, Ahead
<1>14. CASE CatalogGate
  BY <1>14 DEF CatalogGate, Gate, Pass, Keep, Refuse, Answer, road, RoadInv, Ahead
<1>15. CASE Grammar
  BY <1>15 DEF Grammar, Gate, Pass, Keep, Refuse, Answer, road, RoadInv, Ahead
<1>16. CASE Policy
  BY <1>16 DEF Policy, Gate, Pass, Keep, Refuse, Answer, road, RoadInv, Ahead
<1>17. CASE Redirect
  BY <1>17 DEF Redirect, Pass, road, RoadInv, Ahead
<1>18. CASE Endpoint
  BY <1>18 DEF Endpoint, Pass, Keep, Refuse, Answer, road, RoadInv, Ahead
<1>19. CASE Serve
  BY <1>19 DEF Serve, Keep, Refuse, Answer, road, RoadInv, Ahead
<1>20. CASE Primitive
  BY <1>20 DEF Primitive, Keep, Refuse, Answer, road, RoadInv, Ahead
<1> QED BY <1>1, <1>2, <1>3, <1>4, <1>5, <1>6, <1>7, <1>8, <1>9, <1>10, <1>11, <1>12, <1>13, <1>14,
           <1>15, <1>16, <1>17, <1>18, <1>19, <1>20 DEF PathNext

(* The refusals the client can be told of an agent's declaration are the soft
   deny gate's. *)
LEMMA DeniedBySoftDeny ==
  ASSUME PathNext, SoftDenied' PROVE SoftDeny \/ UNCHANGED answer
<1>1. CASE Wire
  BY <1>1 DEF Wire, Gate, Pass, Refuse, Answer, SoftDenied
<1>2. CASE HttpEntry
  BY <1>2 DEF HttpEntry, Pass, Refuse, Answer, SoftDenied
<1>3. CASE CertGate
  BY <1>3 DEF CertGate, CertRefusals, Pass, Refuse, Answer, SoftDenied
<1>4. CASE DelegationGate
  BY <1>4 DEF DelegationGate, Gate, Pass, Refuse, Answer, SoftDenied
<1>5. CASE AddressGate
  BY <1>5 DEF AddressGate, Pass, Refuse, Answer, SoftDenied
<1>6. CASE Directory
  BY <1>6 DEF Directory, OwnedBy, Pass, Refuse, Answer, SoftDenied
<1>7. CASE Manifest
  BY <1>7 DEF Manifest, Gate, Pass, Refuse, Answer, SoftDenied
<1>8. CASE Select
  BY <1>8 DEF Select, Pass, Refuse, Answer, SoftDenied
<1>9. CASE SoftDeny
  BY <1>9 DEF SoftDenied
<1>10. CASE Lifecycle
  BY <1>10 DEF Lifecycle, Gate, Pass, Refuse, Answer, SoftDenied
<1>11. CASE Alias
  BY <1>11 DEF Alias, Pass
<1>12. CASE ScopeClaim
  BY <1>12 DEF ScopeClaim, Gate, Pass, Refuse, Answer, SoftDenied
<1>13. CASE OAuth
  BY <1>13 DEF OAuth, OAuthRefusals, Gate, Pass, Refuse, Answer, SoftDenied
<1>14. CASE CatalogGate
  BY <1>14 DEF CatalogGate, Gate, Pass, Refuse, Answer, SoftDenied
<1>15. CASE Grammar
  BY <1>15 DEF Grammar, Gate, Pass, Refuse, Answer, SoftDenied
<1>16. CASE Policy
  BY <1>16 DEF Policy, Gate, Pass, Refuse, Answer, SoftDenied
<1>17. CASE Redirect
  BY <1>17 DEF Redirect, Pass
<1>18. CASE Endpoint
  BY <1>18 DEF Endpoint, Pass, Refuse, Answer, SoftDenied
<1>19. CASE Serve
  BY <1>19 DEF Serve, ServeRefusals, Outcomes, Refuse, Answer, SoftDenied
<1>20. CASE Primitive
  BY <1>20 DEF Primitive, Refuse, Answer, SoftDenied
<1> QED BY <1>1, <1>2, <1>3, <1>4, <1>5, <1>6, <1>7, <1>8, <1>9, <1>10, <1>11, <1>12, <1>13, <1>14,
           <1>15, <1>16, <1>17, <1>18, <1>19, <1>20 DEF PathNext
-----------------------------------------------------------------------------
(* The client: which request is on the road in which phase of the command,
   and what it was sent for. *)
Lookup == {"resolve", "send", "await", "manifest", "await manifest"}
Matching == cmd.tool = "match"

Asking ==
  /\ phase \in {"await", "await use"} => asked.agent = cmd.agent
  /\ phase \in {"parse", "await manifest", "use"} => asked.agent = Absent
  /\ phase = "await use" => asked.verb = method
  /\ matched # {} => phase = "exit" /\ asked.agent = Absent
  /\ Matching /\ phase \in Lookup => method = "DESCRIBE"
  /\ Matching /\ (phase \in Lookup \cup {"use", "await use"} \/ matched # {}) => cmd.agent # Absent

Reporting ==
  /\ ~Matching => phase \in {"parse", "resolve", "send", "await", "exit"}
  /\ ~Matching /\ phase # "exit" => exit = Absent
  /\ ~Matching /\ exit = "0" => asked.agent = cmd.agent

(* A match, as long as no daemon stops, deals with one daemon. *)
Within == phase \in {"manifest", "await manifest", "use", "await use"} \/ matched # {}
House ==
  steady /\ Matching =>
    /\ phase = "await" \/ Within => setting = running[place].setting /\ docs = running[place].docs
    /\ Within => held = docs[cmd.agent] /\ matched \subseteq Reported(held)
    /\ phase \in {"use", "await use"} => method \in Reported(held)

ClientInv == RoadInv /\ Asking /\ Reporting /\ House /\ MatchedAreNotDenied

LEMMA ClientStarts == ClientInit => ClientInv
<1> SUFFICES ASSUME ClientInit PROVE ClientInv
    OBVIOUS
<1>1. /\ phase = "parse" /\ at = "idle" /\ matched = {} /\ exit = Absent
      /\ asked.agent = Absent /\ target = Absent
      BY DEF ClientInit, Bare
<1>2. RoadInv
      BY <1>1 DEF RoadInv, Ahead
<1>3. Asking /\ Reporting
      BY <1>1, NoExitYet DEF Asking, Lookup, Reporting
<1>4. House /\ MatchedAreNotDenied
      BY <1>1 DEF House, Within, MatchedAreNotDenied, Used
<1> QED BY <1>2, <1>3, <1>4 DEF ClientInv

(* What a step that leaves the road, the client or the daemons alone keeps. *)
LEMMA RoadStill == ASSUME RoadInv, UNCHANGED pathVars PROVE RoadInv'
BY DEF RoadInv, pathVars, road

LEMMA ClientStill ==
  ASSUME Asking, Reporting, UNCHANGED <<pathVars, clientVars>> PROVE Asking' /\ Reporting'
BY DEF Asking, Reporting, Matching, pathVars, road, clientVars

LEMMA HouseStill ==
  ASSUME House, UNCHANGED <<pathVars, clientVars, running, steady>> PROVE House'
BY DEF House, Within, Matching, Reported, pathVars, road, clientVars

LEMMA MatchStill ==
  ASSUME MatchedAreNotDenied, UNCHANGED <<pathVars, clientVars>>, steady' => steady
  PROVE  MatchedAreNotDenied'
BY DEF MatchedAreNotDenied, Used, SoftDenied, pathVars, road, clientVars

LEMMA ClientStep == ClientInv /\ [ClientNext]_clivars => ClientInv'
<1> SUFFICES ASSUME RoadInv, Asking, Reporting, House, MatchedAreNotDenied, [ClientNext]_clivars
             PROVE  ClientInv'
    BY DEF ClientInv
<1> USE NoExitYet
<1>1. CASE Parse
  <2>1. RoadInv'
    BY <1>1, RoadStill DEF Parse, Idle
  <2>2. Asking'
    BY <1>1 DEF Parse, Misused, Default, Exit, Asking, Matching, Lookup
  <2>3. Reporting'
    BY <1>1 DEF Parse, Exit, Reporting, Matching
  <2>4. House'
    BY <1>1 DEF Parse, Exit, House, Within, Asking
  <2>5. MatchedAreNotDenied'
    BY <1>1 DEF Parse, Idle, road, pathVars, MatchedAreNotDenied, Used, Asking
  <2> QED BY <2>1, <2>2, <2>3, <2>4, <2>5 DEF ClientInv
<1>2. CASE Resolve
  <2>1. RoadInv'
    BY <1>2, RoadStill DEF Resolve, Idle
  <2>2. Asking'
    BY <1>2 DEF Resolve, Exit, Asking, Matching, Lookup
  <2>3. Reporting'
    BY <1>2 DEF Resolve, Exit, Reporting, Matching
  <2>4. House'
    BY <1>2 DEF Resolve, Exit, House, Within, Asking
  <2>5. MatchedAreNotDenied'
    BY <1>2 DEF Resolve, Exit, MatchedAreNotDenied, Used, Asking, Matching, Lookup
  <2> QED BY <2>1, <2>2, <2>3, <2>4, <2>5 DEF ClientInv
<1>3. CASE Send
  <2>1. RoadInv'
    <3>1. CASE running[place] = Absent
      BY <1>3, <3>1 DEF Send, pathVars, road, RoadInv
    <3>2. CASE running[place] # Absent
      <4>1. asked'.agent = Addressee /\ target' = Addressee
            BY <1>3, <3>2 DEF Send, Bare
      <4>2. verb' = asked'.verb
            BY ZenonT(60), <1>3, <3>2 DEF Send, Bare
      <4> QED BY <4>1, <4>2 DEF RoadInv
    <3> QED BY <3>1, <3>2
  <2>2. Asking'
    BY ZenonT(60), <1>3
       DEF Send, Bare, Addressee, ManifestOf, Ahead, Idle, Exit, road, pathVars, worldVars, Asking,
           Matching, Lookup
  <2>3. Reporting'
    BY <1>3 DEF Send, Exit, Reporting, Matching
  <2>4. House'
    BY ZenonT(60), <1>3
       DEF Send, Bare, Addressee, ManifestOf, Ahead, Idle, Exit, road, pathVars, worldVars, House,
           Within, Matching, Asking, Lookup, Reported, Explicit
  <2>5. MatchedAreNotDenied'
    BY <1>3
       DEF Send, Exit, road, pathVars, MatchedAreNotDenied, Used, SoftDenied, Asking, Matching,
           Lookup
  <2> QED BY <2>1, <2>2, <2>3, <2>4, <2>5 DEF ClientInv
<1>4. CASE Road
  <2>1. RoadInv'
    BY <1>4, RoadStep DEF Road
  <2>2. Asking'
    BY <1>4, RoadKeepsRoad DEF Road, clientVars, Asking, Matching
  <2>3. Reporting'
    BY <1>4, RoadKeepsRoad DEF Road, clientVars, Reporting, Matching
  <2>4. House'
    BY <1>4, RoadKeepsRoad DEF Road, clientVars, worldVars, House, Within, Matching, Reported
  <2>5. MatchedAreNotDenied'
    <3>1. UNCHANGED <<steady, cmd, asked, method, held, setting, docs, phase>>
          BY <1>4, RoadKeepsRoad DEF Road, clientVars, worldVars
    <3>2. CASE UNCHANGED answer
      BY <3>1, <3>2 DEF MatchedAreNotDenied, Used, SoftDenied
    <3> SUFFICES ASSUME SoftDeny, steady, Used, SoftDenied'
                 PROVE  held.wildcards /\ ~setting.wildcards
        BY <1>4, <3>1, <3>2, DeniedBySoftDeny DEF Road, MatchedAreNotDenied, Used
    <3>3. phase = "await use" /\ Matching
          BY <1>4 DEF Road, Awaiting, Used, Asking, Matching, Lookup
    <3>4. /\ asked.agent = cmd.agent /\ target = cmd.agent
          /\ asked.verb = method /\ held = docs[cmd.agent] /\ method \in Reported(held)
          BY <3>3 DEF Asking, RoadInv, House, Within
    <3>5. verb = method /\ doc = held
          BY <3>4 DEF SoftDeny, Gate, At, RoadInv, Ahead, doc
    <3> SUFFICES ASSUME ~(held.wildcards /\ ~setting.wildcards) PROVE FALSE
        OBVIOUS
    <3>6. Accepts(doc, verb)
          BY <3>4, <3>5 DEF Accepts, Reported, Explicit
    <3>7. UNCHANGED answer
          BY <3>5, <3>6 DEF SoftDeny, Gate, Pass
    <3> QED BY <3>1, <3>2, <3>7 DEF MatchedAreNotDenied, Used
  <2> QED BY <2>1, <2>2, <2>3, <2>4, <2>5 DEF ClientInv
<1>5. CASE Fail
  <2>1. RoadInv'
    BY <1>5, RoadStill DEF Fail, Idle
  <2>2. Asking'
    BY <1>5 DEF Fail, Idle, Exit, road, pathVars, Asking, Matching, Lookup
  <2>3. Reporting'
    BY <1>5 DEF Fail, Exit, Reporting
  <2>4. House'
    BY <1>5 DEF Fail, Idle, Exit, road, pathVars, worldVars, House, Within, Matching, Reported
  <2>5. MatchedAreNotDenied'
    BY <1>5 DEF Fail, Idle, Exit, road, pathVars, worldVars, MatchedAreNotDenied, Used, SoftDenied
  <2> QED BY <2>1, <2>2, <2>3, <2>4, <2>5 DEF ClientInv
<1>6. CASE Hear
  <2>1. RoadInv'
    BY <1>6, RoadStill DEF Hear, Idle
  <2>2. Asking'
    BY <1>6 DEF Hear, Idle, Exit, road, pathVars, Asking, Matching, Lookup
  <2>3. Reporting'
    BY ZenonT(60), <1>6 DEF Hear, Idle, Exit, road, pathVars, Reporting, Matching, Asking
  <2>4. House'
    BY ZenonT(60), <1>6
       DEF Hear, doc, Idle, Exit, road, pathVars, worldVars, House, Within, Matching, Asking,
           Lookup, Reported, Explicit, RoadInv
  <2>5. MatchedAreNotDenied'
    BY <1>6
       DEF Hear, Idle, Exit, road, pathVars, worldVars, MatchedAreNotDenied, Used, SoftDenied,
           Asking, Matching, Lookup
  <2> QED BY <2>1, <2>2, <2>3, <2>4, <2>5 DEF ClientInv
<1>7. CASE Use
  <2>1. RoadInv'
    BY <1>7, RoadStill DEF Use, Idle
  <2>2. Asking'
    BY <1>7 DEF Use, Idle, road, pathVars, Asking, Matching, Lookup
  <2>3. Reporting'
    BY <1>7 DEF Use, Reporting, Matching
  <2>4. House'
    BY <1>7 DEF Use, Idle, road, pathVars, worldVars, House, Within, Matching, Reported
  <2>5. MatchedAreNotDenied'
    BY <1>7 DEF Use, Idle, road, pathVars, MatchedAreNotDenied, Used, Asking
  <2> QED BY <2>1, <2>2, <2>3, <2>4, <2>5 DEF ClientInv
<1>8. CASE Rewrite
  BY <1>8, RoadStill, ClientStill, HouseStill, MatchStill DEF Rewrite, ClientInv
<1>9. CASE Restart
  BY <1>9, RoadStill, ClientStill, MatchStill DEF Restart, ClientInv, House
<1>10. CASE UNCHANGED clivars
  BY <1>10, RoadStill, ClientStill, HouseStill, MatchStill DEF clivars, worldVars, ClientInv
<1> QED BY <1>1, <1>2, <1>3, <1>4, <1>5, <1>6, <1>7, <1>8, <1>9, <1>10 DEF ClientNext

(* AnswersForAsked (client/core_client.py): an answer reported as the agent's
   is that agent's. *)
THEOREM Answers == CliSpec => []AnswersForAsked
<1>1. ClientInv => AnswersForAsked
      BY DEF ClientInv, RoadInv, Reporting, Matching, AnswersForAsked
<1> QED BY ClientStarts, ClientStep, <1>1, PTL DEF CliSpec

(* MatchedAreNotDenied (core/handshake.py with the soft deny of the server):
   what a match has reported may be called on the same daemon. *)
THEOREM MatchesHold == CliSpec => []MatchedAreNotDenied
<1>1. ClientInv => MatchedAreNotDenied
      BY DEF ClientInv
<1> QED BY ClientStarts, ClientStep, <1>1, PTL DEF CliSpec

-----------------------------------------------------------------------------
(***************************************************************************)
(* The desktop client.  A tab's page keeps its shape, whatever is written  *)
(* into it; the active tab is one of the strip; the pane is its result.    *)
(***************************************************************************)
TabNumbers == 1..TabLimit
Shaped(p) == DOMAIN p = TabNumbers /\ \A t \in TabNumbers : DOMAIN p[t] = {"uri", "result", "match"}
StripInv(strip, a) == strip \in Seq(TabNumbers) /\ \E i \in 1..Len(strip) : strip[i] = a
PaneInv == strayed \/ pane = page[active].result
BadgeInv == badge # Blank => badge.tab = active
ElemenInv == opened \in TabNumbers /\ Shaped(page) /\ StripInv(tabs, active) /\ PaneInv /\ BadgeInv

LEMMA ActiveIsTab ==
  ASSUME NEW strip, NEW a, StripInv(strip, a)
  PROVE  a \in TabNumbers /\ a \in ToSet(strip)
BY ElemenAssumption DEF StripInv, ToSet, TabNumbers

\* What one assignment to a field of a tab's page does.
WithUri(p, t, v) == [p EXCEPT ![t].uri = v]
WithMatch(p, t, v) == [p EXCEPT ![t].match = v]
WithResult(p, t, v) == [p EXCEPT ![t].result = v]

LEMMA SetUri ==
  ASSUME NEW p, Shaped(p), NEW t, NEW v
  PROVE  Shaped(WithUri(p, t, v)) /\ \A s \in TabNumbers : WithUri(p, t, v)[s].result = p[s].result
BY DEF Shaped, WithUri

LEMMA SetMatch ==
  ASSUME NEW p, Shaped(p), NEW t, NEW v
  PROVE  Shaped(WithMatch(p, t, v)) /\ \A s \in TabNumbers : WithMatch(p, t, v)[s].result = p[s].result
BY DEF Shaped, WithMatch

LEMMA SetResult ==
  ASSUME NEW p, Shaped(p), NEW t, NEW v
  PROVE  /\ Shaped(WithResult(p, t, v))
         /\ \A s \in TabNumbers : WithResult(p, t, v)[s].result = IF s = t THEN v ELSE p[s].result
BY DEF Shaped, WithResult

\* A strip with one more tab, and with one tab less.
LEMMA TabAdded ==
  ASSUME NEW strip \in Seq(TabNumbers), NEW n \in TabNumbers
  PROVE  StripInv(Append(strip, n), n)
BY DEF StripInv

LEMMA TabRemoved ==
  ASSUME NEW strip \in Seq(TabNumbers), NEW i \in DOMAIN strip
  PROVE  LET rest == RemoveAt(strip, i) IN
         /\ rest \in Seq(TabNumbers) /\ Len(rest) = Len(strip) - 1
         /\ \A j \in DOMAIN strip : j # i => \E k \in 1..Len(rest) : rest[k] = strip[j]
<1> DEFINE left == SubSeq(strip, 1, i - 1)
           right == SubSeq(strip, i + 1, Len(strip))
<1>1. i \in 1..Len(strip) /\ Len(strip) \in Nat
  BY LenProperties
<1>2. left \in Seq(TabNumbers) /\ Len(left) = i - 1 /\ \A k \in 1..(i - 1) : left[k] = strip[k]
  BY <1>1, SubSeqProperties
<1>3. /\ right \in Seq(TabNumbers) /\ Len(right) = Len(strip) - i
      /\ \A k \in 1..(Len(strip) - i) : right[k] = strip[i + k]
  BY <1>1, SubSeqProperties
<1> HIDE DEF left, right
<1>4. left \o right \in Seq(TabNumbers) /\ Len(left \o right) = Len(strip) - 1
  BY <1>1, <1>2, <1>3, ConcatProperties
<1>5. ASSUME NEW j \in DOMAIN strip, j # i
      PROVE  \E k \in 1..Len(left \o right) : (left \o right)[k] = strip[j]
  <2>1. j \in 1..Len(strip)
    BY LenProperties
  <2>2. CASE j < i
    <3>1. j \in 1..(i - 1) /\ j \in 1..Len(left \o right)
      BY <1>1, <1>4, <2>1, <2>2
    <3>2. (left \o right)[j] = left[j]
      BY <1>2, <1>3, <2>2, <3>1, ConcatProperties
    <3> QED BY <1>2, <3>1, <3>2
  <2>3. CASE j > i
    <3>1. j - i \in 1..(Len(strip) - i) /\ j - 1 \in 1..Len(left \o right) /\ j - 1 > Len(left)
      BY <1>1, <1>2, <1>4, <2>1, <2>3
    <3>2. (left \o right)[j - 1] = right[(j - 1) - Len(left)]
      <4>1. \A k \in 1..(Len(left) + Len(right)) :
              (left \o right)[k] = IF k <= Len(left) THEN left[k] ELSE right[k - Len(left)]
        BY <1>2, <1>3, ConcatProperties
      <4>2. Len(left) = i - 1 /\ Len(right) = Len(strip) - i
        BY <1>2, <1>3
      <4>3. j - 1 \in 1..(Len(left) + Len(right)) /\ ~(j - 1 <= Len(left))
        BY <1>1, <2>1, <2>3, <4>2
      <4> QED BY <4>1, <4>3
    <3>3. (j - 1) - Len(left) = j - i /\ i + (j - i) = j
      BY <1>1, <1>2, <2>1
    <3>4. right[j - i] = strip[j]
      BY <1>3, <3>1, <3>3
    <3> QED BY <3>1, <3>2, <3>3, <3>4
  <2> QED BY <1>1, <1>5, <2>1, <2>2, <2>3
<1> QED BY <1>4, <1>5 DEF RemoveAt, left, right

\* A step that leaves the strip and the screen alone, and of every page all
\* but the URI and the match.
LEMMA ScreenKept ==
  ASSUME ElemenInv, Shaped(page'), UNCHANGED <<tabs, opened, active, pane, badge, strayed>>,
         \A s \in TabNumbers : page'[s].result = page[s].result
  PROVE  ElemenInv'
<1>1. active \in TabNumbers
  BY ActiveIsTab DEF ElemenInv
<1> QED BY <1>1 DEF ElemenInv, StripInv, PaneInv, BadgeInv

\* The screen is painted for another tab.
LEMMA ScreenSwitched ==
  ASSUME opened' \in TabNumbers, Shaped(page'), StripInv(tabs', active'),
         pane' = page'[active'].result, badge' = Blank
  PROVE  ElemenInv'
BY DEF ElemenInv, PaneInv, BadgeInv

LEMMA LoadShows ==
  ASSUME ElemenInv, NEW c, NEW u, NEW silent, Load(c, u, silent)
  PROVE  Shaped(page') /\ \A s \in TabNumbers : page'[s].result = page[s].result
<1>1. page' = WithMatch(WithUri(page, active, u), active, Blank)
  BY DEF Load, WithUri, WithMatch
<1>2. /\ Shaped(WithUri(page, active, u))
      /\ \A s \in TabNumbers : WithUri(page, active, u)[s].result = page[s].result
  BY SetUri DEF ElemenInv
<1> QED BY <1>1, <1>2, SetMatch

LEMMA OpenShows ==
  ASSUME ElemenInv, NEW strip \in Seq(TabNumbers), Open(strip), UNCHANGED page
  PROVE  ElemenInv'
<1>1. opened + 1 \in TabNumbers
  BY ElemenAssumption DEF ElemenInv, Open, TabNumbers
<1>2. StripInv(tabs', active')
  BY <1>1, TabAdded DEF Open
<1> QED BY <1>1, <1>2, ScreenSwitched DEF Open, LoadIntoForm, Paint, ElemenInv

\* A tab is closed (closeTab): the one beside it, or another, is active.
LEMMA CloseShows ==
  ASSUME ElemenInv, NEW i, CloseTab(i)
  PROVE  ElemenInv'
<1> DEFINE strip == RemoveAt(tabs, i)
<1>1. /\ i \in DOMAIN tabs /\ UNCHANGED page /\ tabs \in Seq(TabNumbers)
      /\ \/ strip = <<>> /\ Open(strip)
         \/ /\ strip # <<>> /\ tabs' = strip /\ UNCHANGED opened
            /\ IF tabs[i] = active
                 THEN LET next == strip[IF i <= Len(strip) THEN i ELSE Len(strip)] IN
                      active' = next /\ LoadIntoForm(page, next)
                 ELSE UNCHANGED <<active, screen>>
  BY DEF CloseTab, ElemenInv, StripInv
<1>2. /\ strip \in Seq(TabNumbers) /\ Len(strip) = Len(tabs) - 1
      /\ \A j \in DOMAIN tabs : j # i => \E k \in 1..Len(strip) : strip[k] = tabs[j]
  BY <1>1, TabRemoved
<1>3. i \in 1..Len(tabs) /\ DOMAIN tabs = 1..Len(tabs) /\ Len(strip) \in Nat
  BY <1>1, <1>2, LenProperties
<1> HIDE DEF strip
<1>4. CASE strip = <<>> /\ Open(strip)
  BY <1>1, <1>2, <1>4, OpenShows
<1>5. CASE strip # <<>> /\ tabs[i] = active
  <2>1. Len(strip) >= 1
    BY <1>2, <1>3, <1>5, EmptySeq
  <2> DEFINE beside == IF i <= Len(strip) THEN i ELSE Len(strip)
  <2>2. beside \in 1..Len(strip)
    BY <1>3, <2>1
  <2>3. tabs' = strip /\ UNCHANGED opened /\ active' = strip[beside] /\ LoadIntoForm(page, strip[beside])
    BY <1>1, <1>5
  <2> HIDE DEF beside
  <2>4. StripInv(tabs', active')
    BY <1>2, <2>2, <2>3 DEF StripInv
  <2> QED BY <1>1, <2>3, <2>4, ScreenSwitched DEF LoadIntoForm, Paint, ElemenInv
<1>6. CASE strip # <<>> /\ tabs[i] # active
  <2>1. tabs' = strip /\ UNCHANGED <<opened, active, screen, page>>
    BY <1>1, <1>6
  <2>2. PICK j \in 1..Len(tabs) : tabs[j] = active
    BY DEF ElemenInv, StripInv
  <2>3. StripInv(tabs', active')
    BY <1>2, <1>3, <1>6, <2>1, <2>2 DEF StripInv
  <2> QED BY <2>1, <2>3 DEF ElemenInv, PaneInv, BadgeInv, screen
<1> QED BY <1>1, <1>4, <1>5, <1>6

\* The outcome of a handshake is shown where its tab is active.
LEMMA MatchShows ==
  ASSUME ElemenInv, NEW t, NEW d, NEW host, Match(t, d, host),
         UNCHANGED <<tabs, opened, active, pane, strayed>>
  PROVE  ElemenInv'
<1>1. Shaped(page') /\ \A s \in TabNumbers : page'[s].result = page[s].result
  <2>1. page' = WithMatch(page, t, Outcome(t, d, host))
    BY DEF Match, WithMatch
  <2> QED BY <2>1, SetMatch DEF ElemenInv
<1>2. active \in TabNumbers
  BY ActiveIsTab DEF ElemenInv
<1>3. BadgeInv'
  BY DEF Match, OnScreen, Outcome, ElemenInv, BadgeInv
<1> QED BY <1>1, <1>2, <1>3 DEF ElemenInv, StripInv, PaneInv

\* The answer of a fetch (doFetch): to the tab that asked, and on the screen
\* if it is the active one.
LEMMA AnswerShows ==
  ASSUME ElemenInv, NEW c, NEW kind, Answered(c, kind)
  PROVE  ElemenInv'
<1> DEFINE t == waiting[c].tab
           u == waiting[c].uri
           result == Result(u, kind)
           p == WithUri(page, t, u)
<1>1. /\ page' = WithResult(p, t, result) /\ UNCHANGED <<tabs, opened, active>>
      /\ IF active = t THEN Paint(result) /\ strayed' = FALSE ELSE UNCHANGED <<pane, badge, strayed>>
  BY DEF Answered, OnScreen, WithUri, WithResult
<1>2. Shaped(p) /\ \A s \in TabNumbers : p[s].result = page[s].result
  BY SetUri DEF ElemenInv
<1> HIDE DEF p, t, u, result
<1>3. Shaped(page') /\ \A s \in TabNumbers : page'[s].result = IF s = t THEN result ELSE page[s].result
  BY <1>1, <1>2, SetResult
<1>4. active \in TabNumbers
  BY ActiveIsTab DEF ElemenInv
<1>5. CASE active = t
  BY <1>1, <1>3, <1>4, <1>5 DEF Paint, ElemenInv, StripInv, PaneInv, BadgeInv
<1>6. CASE active # t
  BY <1>1, <1>3, <1>4, <1>6 DEF ElemenInv, StripInv, PaneInv, BadgeInv
<1> QED BY <1>5, <1>6

\* The answer to a PROPOSE (promptNegotiationForMissing), painted anywhere.
LEMMA NegotiatedShows ==
  ASSUME ElemenInv, NEW c, Negotiated(c)
  PROVE  ElemenInv'
<1> DEFINE t == waiting[c].tab
           result == Result(waiting[c].uri, "reply")
<1>1. /\ UNCHANGED <<tabs, opened, active>>
      /\ \/ page' = WithResult(page, t, result) /\ Paint(result) /\ strayed' = (active # t)
         \/ UNCHANGED <<page, pane, badge, strayed>>
  BY DEF Negotiated, WithResult
<1>2. active \in TabNumbers
  BY ActiveIsTab DEF ElemenInv
<1> HIDE DEF t, result
<1>3. CASE page' = WithResult(page, t, result) /\ Paint(result) /\ strayed' = (active # t)
  <2>1. Shaped(page') /\ \A s \in TabNumbers : page'[s].result = IF s = t THEN result ELSE page[s].result
    BY <1>3, SetResult DEF ElemenInv
  <2> QED BY <1>1, <1>2, <1>3, <2>1 DEF Paint, ElemenInv, StripInv, PaneInv, BadgeInv
<1>4. CASE UNCHANGED <<page, pane, badge, strayed>>
  BY <1>1, <1>4, ScreenKept DEF ElemenInv
<1> QED BY <1>1, <1>3, <1>4

LEMMA ElemenStep ==
  ASSUME ElemenInv, [ElemenNext]_elvars
  PROVE  ElemenInv'
<1> DEFINE Quiet == UNCHANGED <<tabs, opened, active, page, screen>>
<1>1. ASSUME Quiet PROVE ElemenInv'
  BY <1>1, ScreenKept DEF ElemenInv, screen
<1>2. ASSUME NEW u \in Uris, TypeUri(u) PROVE ElemenInv'
  BY <1>2, ScreenKept DEF ElemenInv, TypeUri
<1>3. ASSUME NewTab PROVE ElemenInv'
  BY <1>3, OpenShows DEF NewTab, ElemenInv, StripInv
<1>4. ASSUME NEW t, SwitchTab(t) PROVE ElemenInv'
  <2>1. Shaped(Snapshot)
    BY SetUri DEF ElemenInv, Snapshot, WithUri
  <2>2. StripInv(tabs', active') /\ opened' \in TabNumbers
    BY <1>4 DEF SwitchTab, ElemenInv, StripInv, ToSet
  <2>3. page' = Snapshot /\ active' = t /\ pane' = Snapshot[t].result /\ badge' = Blank
    BY <1>4 DEF SwitchTab, LoadIntoForm, Paint
  <2> QED BY <2>1, <2>2, <2>3, ScreenSwitched
<1>5. ASSUME NEW t, CloseTab(t) PROVE ElemenInv'
  BY <1>5, CloseShows
<1>6. ASSUME NEW c, UserActs(c) PROVE ElemenInv'
  <2>1. active \in TabNumbers
    BY ActiveIsTab DEF ElemenInv
  <2>2. CASE PressGo(c)
    BY <2>2, LoadShows, ScreenKept DEF PressGo, screen
  <2>3. CASE ClearHistory(c)
    BY <2>3, <1>1 DEF ClearHistory
  <2>4. CASE RefreshMatch(c)
    BY <2>4, <1>1 DEF RefreshMatch
  <2>5. CASE Negotiate(c)
    BY <2>5, <1>1 DEF Negotiate
  <2>6. ASSUME NEW u, Revisit(c, u) PROVE ElemenInv'
    <3>1. Shaped(page') /\ \A s \in TabNumbers : page'[s].result = page[s].result
      BY <2>6, LoadShows DEF Revisit
    <3>2. UNCHANGED <<tabs, opened, active>> /\ pane' = page[active].result /\ badge' = Blank
      BY <2>6 DEF Revisit, Paint
    <3> QED BY <2>1, <3>1, <3>2, ScreenSwitched DEF ElemenInv, StripInv
  <2>7. ASSUME NEW i, Navigate(c, i) PROVE ElemenInv'
    <3>1. Shaped(page') /\ \A s \in TabNumbers : page'[s].result = page[s].result
      BY <2>7, LoadShows DEF Navigate
    <3>2. UNCHANGED <<tabs, opened, active>> /\ pane' = page[active].result /\ badge' = Blank
      BY <2>7 DEF Navigate, Paint
    <3> QED BY <2>1, <3>1, <3>2, ScreenSwitched DEF ElemenInv, StripInv
  <2> QED BY <1>6, <2>2, <2>3, <2>4, <2>5, <2>6, <2>7 DEF UserActs
<1>7. ASSUME NEW c, CallReturns(c) PROVE ElemenInv'
  <2>1. CASE Rejected(c) \/ ReadHistory(c) \/ OpenHistory(c) \/ WriteHistory(c)
    BY <2>1, <1>1 DEF Rejected, ReadHistory, OpenHistory, WriteHistory
  <2>2. CASE Written(c)
    <3>1. UNCHANGED <<tabs, opened, active, form, pane, strayed>>
      BY <2>2 DEF Written
    <3>2. UNCHANGED <<page, badge>> \/ \E t, d, host : Match(t, d, host)
      BY <2>2 DEF Written
    <3> QED BY <1>1, <3>1, <3>2, MatchShows DEF screen
  <2>3. ASSUME NEW ok, ManifestArrives(c, ok) PROVE ElemenInv'
    <3>1. UNCHANGED <<tabs, opened, active, form, pane, strayed>>
      BY <2>3 DEF ManifestArrives
    <3>2. UNCHANGED <<page, badge>> \/ \E t, d, host : Match(t, d, host)
      BY <2>3 DEF ManifestArrives
    <3> QED BY <1>1, <3>1, <3>2, MatchShows DEF screen
  <2> QED BY <1>7, <2>1, <2>2, <2>3, AnswerShows, NegotiatedShows DEF CallReturns
<1>8. CASE UNCHANGED elvars
  BY <1>8, <1>1 DEF elvars
<1> QED BY <1>2, <1>3, <1>4, <1>5, <1>6, <1>7, <1>8 DEF ElemenNext

\* ScreenIsOfActiveTab (ui/app.js): doFetch, switchTab, closeTab and
\* refreshManifestAndMatch paint for the tab the user is in, whatever was
\* switched, closed and fetched while the calls of the bridge were under way.
THEOREM ScreenFollows == ElemenSpec => []ScreenIsOfActiveTab
<1>1. ElemenInit => ElemenInv
  <2> SUFFICES ASSUME ElemenInit PROVE ElemenInv
    OBVIOUS
  <2>1. 1 \in TabNumbers /\ tabs = <<1>> /\ active = 1 /\ opened = 1
    BY ElemenAssumption DEF ElemenInit, TabNumbers
  <2>2. StripInv(tabs, active)
    <3>1. tabs \in Seq(TabNumbers) /\ Len(tabs) = 1 /\ tabs[1] = 1
      BY <2>1
    <3> QED BY <2>1, <3>1 DEF StripInv
  <2>3. Shaped(page) /\ page[active].result = Blank
    BY <2>1 DEF ElemenInit, Shaped, NewPage, TabNumbers
  <2> QED BY <2>1, <2>2, <2>3 DEF ElemenInit, ElemenInv, PaneInv, BadgeInv
<1>2. ElemenInv /\ [ElemenNext]_elvars => ElemenInv'
  BY ElemenStep
<1>3. ElemenInv => ScreenIsOfActiveTab
  BY ActiveIsTab DEF ElemenInv, PaneInv, BadgeInv, ScreenIsOfActiveTab
<1> QED BY <1>1, <1>2, <1>3, PTL DEF ElemenSpec
=============================================================================
