----------------------------- MODULE Enrollment -----------------------------
(* How one agent name gets into a daemon: `agtp-agent register` mints a key,
   has the registrar sign a Genesis for it (or signs it itself), and leaves
   the document, the Genesis and the key in the agents directory, from which
   the daemon loads them when it starts and into which it writes its own
   copy of the document back.  A Genesis is the number of the key it was
   minted for (the Agent-ID is the hash of a Genesis that holds a fresh key
   and the time).  The tool and the registrar may be killed between any two
   of their steps; no file is written in one. *)
EXTENDS Naturals, FiniteSets

CONSTANTS
  None, Torn,   \* no file; a file opened for writing and not closed
  MaxKeys,      \* bound: registrations attempted
  Forced,       \* the values of --force, --with-cert and --registrar the
  Certified,    \* operator uses
  Registrars

ASSUME EnrollmentAssumption == MaxKeys \in Nat /\ None # Torn

VARIABLES
  desk,     \* key -> the registrar's thread on the request for it
  holder,   \* the key whose thread holds the store's lock
  issued,   \* key -> issued/{agent_id}.json
  logged,   \* the keys in issued.jsonl
  open,     \* the registrar runs
  minted,   \* keys minted so far
  tool,     \* the registration under way: its step, flags and work directory
  leftover, \* keys in work directories a killed tool left behind
  agents,   \* the agents directory: doc, genesis, key
  daemon    \* the daemon's memory

registrarvars == <<desk, holder, issued, logged, open>>
envars == <<desk, holder, issued, logged, open, minted, tool, leftover, agents, daemon>>

Keys == 1..MaxKeys
Genesis(k, by) == [agent |-> k, by |-> by]
Idle == [at |-> "idle", force |-> FALSE, cert |-> FALSE, key |-> None, genesis |-> None]
Off == [up |-> FALSE, doc |-> None, genesis |-> None]

EnInit ==
  /\ desk = [k \in Keys |-> "none"] /\ holder = None
  /\ issued = [k \in Keys |-> None] /\ logged = {} /\ open = TRUE
  /\ minted = 0 /\ tool = Idle /\ leftover = {}
  /\ agents = [doc |-> None, genesis |-> None, key |-> None] /\ daemon = Off

-----------------------------------------------------------------------------
(* The registrar, a thread for every request *)

Accept(k) ==   \* _handle_issue: a body that lacks a field or has a value out of range is a 400
  /\ open /\ desk[k] = "sent"
  /\ \E d \in {"queued", "refused"} : desk' = [desk EXCEPT ![k] = d]
  /\ UNCHANGED <<holder, issued, logged, open, minted, tool, leftover, agents, daemon>>

Issue(k) ==   \* the lock taken, out_path.write_text begun
  /\ desk[k] = "queued" /\ holder = None
  /\ holder' = k /\ issued' = [issued EXCEPT ![k] = Torn]
  /\ desk' = [desk EXCEPT ![k] = "writing"]
  /\ UNCHANGED <<logged, open, minted, tool, leftover, agents, daemon>>

IssueWritten(k) ==
  /\ desk[k] = "writing"
  /\ issued' = [issued EXCEPT ![k] = k]
  /\ desk' = [desk EXCEPT ![k] = "written"]
  /\ UNCHANGED <<holder, logged, open, minted, tool, leftover, agents, daemon>>

AppendAudit(k) ==   \* and the lock let go, the 201 sent
  /\ desk[k] = "written"
  /\ logged' = logged \cup {k} /\ holder' = None
  /\ desk' = [desk EXCEPT ![k] = "answered"]
  /\ UNCHANGED <<issued, open, minted, tool, leftover, agents, daemon>>

RegistrarKilled ==
  /\ open
  /\ open' = FALSE /\ holder' = None
  /\ desk' = [k \in Keys |-> IF desk[k] \in {"none", "answered"} THEN desk[k] ELSE "lost"]
  /\ UNCHANGED <<issued, logged, minted, tool, leftover, agents, daemon>>

RegistrarStarted ==
  /\ ~open /\ open' = TRUE
  /\ UNCHANGED <<desk, holder, issued, logged, minted, tool, leftover, agents, daemon>>

-----------------------------------------------------------------------------
(* agtp-agent register, one at a time *)

toolframe == UNCHANGED <<holder, issued, logged, open, daemon>>

Mint(force, cert, registrar) ==   \* _cmd_new up to the Genesis, in a fresh work directory
  /\ tool.at = "idle" /\ minted < MaxKeys
  /\ minted' = minted + 1
  /\ LET k == minted + 1 IN
       IF registrar
       THEN /\ tool' = [Idle EXCEPT !.at = IF open THEN "asking" ELSE "finally",   \* URLError
                                    !.force = force, !.cert = cert, !.key = <<"agent", k>>]
            /\ desk' = IF open THEN [desk EXCEPT ![k] = "sent"] ELSE desk
       ELSE /\ tool' = [at |-> "minted", force |-> force, cert |-> cert,
                        key |-> <<"agent", k>>, genesis |-> Genesis(k, "self")]
            /\ UNCHANGED desk
  /\ UNCHANGED <<leftover, agents>> /\ toolframe

Receive ==   \* _issue_via_registrar: a refusal, a lost connection and the timeout end the command
  /\ tool.at = "asking"
  /\ LET k == tool.key[2] IN
       \/ /\ desk[k] = "answered"
          /\ tool' = [tool EXCEPT !.at = "minted", !.genesis = Genesis(k, "registrar")]
       \/ tool' = [tool EXCEPT !.at = "finally"]
  /\ UNCHANGED <<desk, minted, leftover, agents>> /\ toolframe

Certify ==   \* the certificate's key goes to work/{name}.key, where the agent's own is;
             \* a scope list with a comma is refused, and the return code is not looked at
  /\ tool.at = "minted"
  /\ \E key \in IF tool.cert THEN {tool.key, <<"cert", tool.key[2]>>} ELSE {tool.key} :
       tool' = [tool EXCEPT !.at = "document", !.key = key]
  /\ UNCHANGED <<desk, minted, leftover, agents>> /\ toolframe

\* _write_text: refuses a file that is there, unless forced, and is not atomic
WriteText(file, content, at, begun, done) ==
  \/ /\ tool.at = at
     /\ IF agents[file] = None \/ tool.force
        THEN agents' = [agents EXCEPT ![file] = Torn] /\ tool' = [tool EXCEPT !.at = begun]
        ELSE tool' = [tool EXCEPT !.at = "finally"] /\ UNCHANGED agents
  \/ /\ tool.at = begun
     /\ agents' = [agents EXCEPT ![file] = content] /\ tool' = [tool EXCEPT !.at = done]

Install ==   \* the certificate was written as {name}.crt and is looked for as {name}.cert:
             \* with --with-cert the command ends here, the document and the Genesis in place
  /\ \/ WriteText("doc", tool.genesis.agent, "document", "document begun", "genesis")
     \/ WriteText("genesis", tool.genesis, "genesis", "genesis begun", "finally")
  /\ UNCHANGED <<desk, minted, leftover>> /\ toolframe

Finally ==   \* the key is copied where there is none, and the work directory removed
  /\ tool.at = "finally"
  /\ agents' = IF ~tool.cert /\ agents.key = None THEN [agents EXCEPT !.key = tool.key] ELSE agents
  /\ tool' = Idle
  /\ UNCHANGED <<desk, minted, leftover>> /\ toolframe

ToolKilled ==
  /\ tool.at # "idle"
  /\ leftover' = leftover \cup {tool.key} /\ tool' = Idle
  /\ UNCHANGED <<desk, minted, agents>> /\ toolframe

-----------------------------------------------------------------------------
(* The daemon *)

daemonframe == UNCHANGED <<desk, holder, issued, logged, open, minted, tool, leftover>>

(* Mutant of Attached: a Genesis beside a document is taken for its own. *)
UncheckedAttached(doc, genesis) == IF genesis \notin {None, Torn} THEN genesis ELSE None

\* the Genesis beside a document is taken when it is whole and is that document's
Attached(doc, genesis) == IF genesis \notin {None, Torn} /\ genesis.agent = doc THEN genesis ELSE None

LoadAgents ==   \* a document that does not parse is skipped, its Genesis with it
  /\ ~daemon.up
  /\ daemon' = IF agents.doc \in {None, Torn} THEN [Off EXCEPT !.up = TRUE]
               ELSE [up |-> TRUE, doc |-> agents.doc, genesis |-> Attached(agents.doc, agents.genesis)]
  /\ UNCHANGED agents /\ daemonframe

Stop == daemon.up /\ daemon' = Off /\ UNCHANGED agents /\ daemonframe

Persist ==   \* after a lifecycle method: the memory's document replaces the file in one step
  /\ daemon.up /\ daemon.doc # None
  /\ agents' = [agents EXCEPT !.doc = daemon.doc]
  /\ UNCHANGED daemon /\ daemonframe

EnNext ==
  \/ \E k \in Keys : Accept(k) \/ Issue(k) \/ IssueWritten(k) \/ AppendAudit(k)
  \/ RegistrarKilled \/ RegistrarStarted
  \/ \E force \in Forced, cert \in Certified, registrar \in Registrars : Mint(force, cert, registrar)
  \/ Receive \/ Certify \/ Install \/ Finally \/ ToolKilled
  \/ LoadAgents \/ Stop \/ Persist
EnSpec == EnInit /\ [][EnNext]_envars

-----------------------------------------------------------------------------
(* The identity a running daemon answers DISCOVER /genesis and the lifecycle
   gate with is the served agent's own, and one a registrar signed is in the
   registrar's files and its audit log: across re-registrations and kills
   between the two files of the agents directory, a document the daemon
   writes back over a new one, and a registrar killed before it logged. *)
ServedIdentityIsRegistered ==
  daemon.genesis # None =>
    LET k == daemon.genesis.agent IN
      /\ k = daemon.doc
      /\ daemon.genesis.by = "registrar" => k \in logged /\ issued[k] = k

(* What the comment in `register` says of its cleanup: the operator does not
   lose the private key of the agent that was installed. *)
InstalledKeyKept ==
  tool.at = "idle" /\ agents.genesis \notin {None, Torn} =>
    <<"agent", agents.genesis.agent>> \in leftover \cup {agents.key}
=============================================================================
