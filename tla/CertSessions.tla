---------------------------- MODULE CertSessions ----------------------------
(* The registry of sessions under each certificate, and the sweep a
   certificate_revoked NOTIFY starts in it.  Every method takes the lock for
   itself: requests register and sessions end between the methods of a sweep,
   and sweeps run beside one another.  The module is a library of src/: its
   callers are its tests and whatever receives the NOTIFY. *)
EXTENDS FiniteSets

CONSTANTS Serials, Sessions, Sweeps,
          NoSerial,    \* a NOTIFY that names the agent alone
          Agent        \* serial -> the subject_agent_id of its certificate

ASSUME SerialsAssumption == NoSerial \notin Serials

VARIABLES
  sessions,   \* serial -> the sessions registered under it
  agentOf,    \* the serials with an entry in _serial_to_agent
  sweep,      \* sweep -> where it stands
  named,      \* sweep -> the serial of its NOTIFY
  subject,    \* sweep -> the agent of its NOTIFY
  left,       \* sweep -> the serials read and not yet visited
  terminated, \* sweep -> the sessions it removed so far
  due,        \* sweep -> the sessions of its agent when it began that have neither ended nor registered again
  taken       \* history: sweep -> those of its due sessions that another sweep has removed under some serial

cevars == <<sessions, agentOf, sweep, named, subject, left, terminated, due, taken>>
Agents == {Agent[s] : s \in Serials}

CeInit ==
  /\ sessions = [s \in Serials |-> {}] /\ agentOf = {}
  /\ sweep = [w \in Sweeps |-> "idle"] /\ named = [w \in Sweeps |-> NoSerial]
  /\ subject = [w \in Sweeps |-> CHOOSE a \in Agents : TRUE]
  /\ left = [w \in Sweeps |-> {}] /\ terminated = [w \in Sweeps |-> {}] /\ due = [w \in Sweeps |-> {}]
  /\ taken = [w \in Sweeps |-> {}]

ThisAgents(a) == {s \in agentOf : Agent[s] = a}   \* serials_for_agent

Enrol(s, x) ==   \* register
  /\ sessions' = [sessions EXCEPT ![s] = @ \cup {x}] /\ agentOf' = agentOf \cup {s}
  /\ due' = [w \in Sweeps |-> due[w] \ {x}]
  /\ UNCHANGED <<sweep, named, subject, left, terminated, taken>>

Deregister(x) ==   \* deregister_session
  /\ \E s \in Serials : x \in sessions[s]
  /\ sessions' = [s \in Serials |-> sessions[s] \ {x}]
  /\ due' = [w \in Sweeps |-> due[w] \ {x}]
  /\ UNCHANGED <<agentOf, sweep, named, subject, left, terminated, taken>>

\* revoke_serial: the serial's sessions are popped, and its agent with them
Pop(w, s) ==
  /\ sessions' = [sessions EXCEPT ![s] = {}] /\ agentOf' = agentOf \ {s}
  /\ taken' = [o \in Sweeps |-> IF o = w THEN taken[o] ELSE taken[o] \cup (due[o] \cap sessions[s])]

RevokeSerial(w, s) ==
  /\ Pop(w, s) /\ terminated' = [terminated EXCEPT ![w] = @ \cup sessions[s]]

\* apply_revocation_notify: the named serial first
Notify(w, a, s) ==
  /\ sweep[w] = "idle"
  /\ sweep' = [sweep EXCEPT ![w] = "named"]
  /\ named' = [named EXCEPT ![w] = s] /\ subject' = [subject EXCEPT ![w] = a]
  /\ due' = [due EXCEPT ![w] = UNION {sessions[r] : r \in ThisAgents(a)}]
  /\ IF s = NoSerial
     THEN terminated' = [terminated EXCEPT ![w] = {}] /\ UNCHANGED <<sessions, agentOf, taken>>
     ELSE /\ Pop(w, s)
          /\ terminated' = [terminated EXCEPT ![w] = sessions[s]]
  /\ UNCHANGED left

\* Mutant of Remaining: an agent whose named serial had sessions is not looked at further.
FirstOnly(w) == IF terminated[w] = {} THEN ThisAgents(subject[w]) \ {named[w]} ELSE {}

Remaining(w) == ThisAgents(subject[w]) \ {named[w]}

ReadSerials(w) ==
  /\ sweep[w] = "named"
  /\ sweep' = [sweep EXCEPT ![w] = "sweeping"] /\ left' = [left EXCEPT ![w] = Remaining(w)]
  /\ UNCHANGED <<sessions, agentOf, named, subject, terminated, due, taken>>

RevokeNext(w) ==   \* serials_for_agent returned them sorted; no order is assumed here
  /\ sweep[w] = "sweeping"
  /\ \E s \in left[w] : RevokeSerial(w, s) /\ left' = [left EXCEPT ![w] = @ \ {s}]
  /\ UNCHANGED <<sweep, named, subject, due>>

Return(w) ==
  /\ sweep[w] = "sweeping" /\ left[w] = {}
  /\ sweep' = [sweep EXCEPT ![w] = "returned"]
  /\ UNCHANGED <<sessions, agentOf, named, subject, left, terminated, due, taken>>

Again(w) ==   \* the caller has read the summary; the next NOTIFY may come
  /\ sweep[w] = "returned"
  /\ sweep' = [sweep EXCEPT ![w] = "idle"] /\ named' = [named EXCEPT ![w] = NoSerial]
  /\ terminated' = [terminated EXCEPT ![w] = {}] /\ due' = [due EXCEPT ![w] = {}]
  /\ taken' = [taken EXCEPT ![w] = {}]
  /\ subject' = [subject EXCEPT ![w] = CHOOSE a \in Agents : TRUE]
  /\ UNCHANGED <<sessions, agentOf, left>>

CeNext ==
  \/ \E s \in Serials, x \in Sessions : Enrol(s, x)
  \/ \E x \in Sessions : Deregister(x)
  \/ \E w \in Sweeps : \/ \E a \in Agents, s \in Serials \cup {NoSerial} : Notify(w, a, s)
                       \/ ReadSerials(w) \/ RevokeNext(w) \/ Return(w) \/ Again(w)
CeSpec == CeInit /\ [][CeNext]_cevars

(* A session of the revoked agent that was there when the NOTIFY arrived,
   and has neither ended nor registered again since, is gone from the registry
   when the sweep returns, under every certificate of the agent; and the
   summary lists it as terminated, unless another sweep removed it meanwhile.
   (The agent's serials are read once and revoked one by one, with requests
   and other sweeps between.) *)
SweepLeavesNone ==
  \A w \in Sweeps : sweep[w] = "returned" =>
    /\ \A s \in Serials : Agent[s] = subject[w] => due[w] \cap sessions[s] = {}
    /\ due[w] \ taken[w] \subseteq terminated[w]
=============================================================================
