----------------------------- MODULE AgentLifecycle -----------------------------
(***************************************************************************)
(* The lifecycle of one hosted agent: the gate of the dispatcher, the five *)
(* methods that move its status (server/methods.py), the document they     *)
(* rewrite (server/main.py), the lifecycle stream they append to           *)
(* (server/audit_lifecycle.py), the name-service hook they run             *)
(* (ans/registration.py), and the death and restart of the daemon between  *)
(* any two of these.  Connection threads interleave between steps.         *)
(*                                                                         *)
(* A file is its front and its size: a text written over a longer one      *)
(* leaves the tail of the longer one behind, and a document is readable    *)
(* when its size is that of the text at its front.                         *)
(***************************************************************************)
EXTENDS Naturals, Sequences

CONSTANTS
    Threads,      \* connection threads; each serves one request at a time
    Callers,      \* who may call: the holder of the Genesis issuer key, or not
    Operations,   \* the requests clients send
    IssuerOnly,   \* [audit].lifecycle_auth = "genesis_issuer", Genesis loaded
    DiskFails,    \* whether opening, writing or renaming a file can fail
    Written,      \* the status the operator wrote in the document
    MaxRequests,  \* bound: requests admitted in a behaviour
    MaxCrashes    \* bound: deaths of the daemon in a behaviour

\* Where a lifecycle method leaves the agent.
Target == [ACTIVATE   |-> "active",  DEACTIVATE |-> "suspended",
           REVOKE     |-> "retired", REINSTATE  |-> "active",
           DEPRECATE  |-> "deprecated"]

Lifecycle == DOMAIN Target

\* What the dispatcher turns away, and what it lets through regardless.
OutOfService == {"retired", "deprecated", "suspended"}
Introspection == {"DISCOVER", "DESCRIBE"}

\* The size of a document: its texts differ in the status alone.  "draft" is
\* any status the gate has no rule for.
Size == [draft |-> 5, active |-> 6, retired |-> 7, suspended |-> 9,
         deprecated |-> 10]

Statuses == DOMAIN Size

ASSUME LifecycleAssumption ==
    /\ Callers \subseteq {"issuer", "stranger"}
    /\ Operations \subseteq Lifecycle \cup Introspection \cup {"QUERY"}
    /\ IssuerOnly \in BOOLEAN
    /\ DiskFails \in BOOLEAN
    /\ Written \in Statuses
    /\ MaxRequests \in Nat
    /\ MaxCrashes \in Nat

Texts == Statuses \cup {"nothing"}
Files == [front : Texts, size : Nat]
Empty == [front |-> "nothing", size |-> 0]
Holding(s) == [front |-> s, size |-> Size[s]]
Readable(f) == \E s \in Statuses : f = Holding(s)

\* What a file holds after a text is written from its first byte on.
Over(f, s) == [front |-> s, size |-> IF f.size > Size[s] THEN f.size ELSE Size[s]]

VARIABLES
    status,    \* AgentDocument.status in memory
    hosted,    \* the daemon loaded the document
    document,  \* the .agent.json file
    spare,     \* the .agent.json.tmp file every save shares
    spared,    \* whether that file exists
    stream,    \* the agent's lifecycle stream
    listed,    \* the name service answers for the agent
    at,        \* where each thread is in its handler
    op,        \* the request it serves
    caller,    \* who sent it
    previous,  \* previous_status, its local variable
    text,      \* the document text it serialized
    handle,    \* the file its open handle leads to
    saved,     \* its save raised nothing
    admitted,  \* bound: requests admitted
    crashes,   \* bound: deaths of the daemon
    kept,      \* history: the status of the last transition that was saved,
               \*          and answered or cut short of its answer
    crossed,   \* history: two lifecycle methods were once in flight at a time
    faulty     \* history: a side effect failed, or died with the daemon

memory == <<status, hosted>>
disk == <<document, spare, spared, handle>>
effects == <<stream, listed>>
request == <<op, caller, previous>>
saving == <<text, saved>>
bounds == <<admitted, crashes>>
history == <<kept, crossed, faulty>>
vars == <<memory, disk, effects, at, request, saving, bounds, history>>

Labels == {"idle", "serving", "authorize", "set", "serialize", "open", "write",
           "replace", "clean", "hook", "emit", "respond"}

\* _load at the start of the daemon.
Init ==
    /\ status = Written /\ hosted = TRUE
    /\ document = Holding(Written)
    /\ spare = Empty /\ spared = FALSE
    /\ stream = <<>> /\ listed = FALSE
    /\ at = [t \in Threads |-> "idle"]
    /\ op = [t \in Threads |-> "QUERY"]
    /\ caller = [t \in Threads |-> "stranger"]
    /\ previous = [t \in Threads |-> Written]
    /\ text = [t \in Threads |-> Written]
    /\ handle = [t \in Threads |-> "closed"]
    /\ saved = [t \in Threads |-> FALSE]
    /\ admitted = 0 /\ crashes = 0
    /\ kept = Written /\ crossed = FALSE /\ faulty = FALSE

Goto(t, label) == at' = [at EXCEPT ![t] = label]

\* The handler returns; what it knew of the request is gone.
Return(t) ==
    /\ Goto(t, "idle")
    /\ op' = [op EXCEPT ![t] = "QUERY"]
    /\ caller' = [caller EXCEPT ![t] = "stranger"]
    /\ previous' = [previous EXCEPT ![t] = Written]

\* A thread between the gate and the answer of a lifecycle method.
InFlight(t) == at[t] \notin {"idle", "serving"}

\* Its save is done and its answer is not.
Saved(t) == at[t] \in {"clean", "hook", "emit", "respond"} /\ saved[t]

---------------------------------------------------------------------------
\* The gate.

\* Mutant of Passes: the gate knows only what is gone for good.
PassesSuspended(o) ==
    hosted /\ (o \in Introspection \/ status \notin OutOfService \ {"suspended"})

\* Mutant of Passes: lifecycle methods are exempt, so that REINSTATE can work.
PassesLifecycle(o) ==
    hosted /\ (o \in Introspection \cup Lifecycle \/ status \notin OutOfService)

\* The dispatcher's verdict on a request for the agent.
Passes(o) == hosted /\ (o \in Introspection \/ status \notin OutOfService)

\* An operational or introspective request is let through ...
Serve(t, o) ==
    /\ at[t] = "idle" /\ admitted < MaxRequests
    /\ o \notin Lifecycle /\ Passes(o)
    /\ Goto(t, "serving")
    /\ op' = [op EXCEPT ![t] = o]
    /\ admitted' = admitted + 1
    /\ UNCHANGED <<memory, disk, effects, caller, previous, saving, crashes, history>>

\* ... and answered.
Served(t) ==
    /\ at[t] = "serving"
    /\ Return(t)
    /\ UNCHANGED <<memory, disk, effects, saving, bounds, history>>

\* A lifecycle method is let through to its handler.
Admit(t, o, c) ==
    /\ at[t] = "idle" /\ admitted < MaxRequests
    /\ o \in Lifecycle /\ Passes(o)
    /\ Goto(t, "authorize")
    /\ op' = [op EXCEPT ![t] = o]
    /\ caller' = [caller EXCEPT ![t] = c]
    /\ admitted' = admitted + 1
    /\ crossed' = (crossed \/ \E u \in Threads : InFlight(u))
    /\ UNCHANGED <<memory, disk, effects, previous, saving, crashes, kept, faulty>>

---------------------------------------------------------------------------
\* The transition.

Authorized(t) == IssuerOnly => caller[t] = "issuer"

\* 401 or 403.
Denied(t) ==
    /\ at[t] = "authorize" /\ ~Authorized(t)
    /\ Return(t)
    /\ UNCHANGED <<memory, disk, effects, saving, bounds, history>>

\* 200 with noop: the agent is where the method would leave it.
NoOp(t) ==
    /\ at[t] = "authorize" /\ Authorized(t)
    /\ status = Target[op[t]]
    /\ Return(t)
    /\ UNCHANGED <<memory, disk, effects, saving, bounds, history>>

ReadStatus(t) ==
    /\ at[t] = "authorize" /\ Authorized(t)
    /\ status # Target[op[t]]
    /\ previous' = [previous EXCEPT ![t] = status]
    /\ Goto(t, "set")
    /\ UNCHANGED <<memory, disk, effects, op, caller, saving, bounds, history>>

\* Mutant of SetStatus: previous_status is taken after the assignment.
SetThenRead(t) ==
    /\ at[t] = "set"
    /\ status' = Target[op[t]]
    /\ previous' = [previous EXCEPT ![t] = Target[op[t]]]
    /\ Goto(t, "serialize")
    /\ UNCHANGED <<hosted, disk, effects, op, caller, saving, bounds, history>>

SetStatus(t) ==
    /\ at[t] = "set"
    /\ status' = Target[op[t]]
    /\ Goto(t, "serialize")
    /\ UNCHANGED <<hosted, disk, effects, request, saving, bounds, history>>

\* Mutant of Serialize: the document is written before the status is assigned.
SerializeEarlier(t) ==
    /\ at[t] = "serialize"
    /\ text' = [text EXCEPT ![t] = previous[t]]
    /\ saved' = [saved EXCEPT ![t] = FALSE]
    /\ Goto(t, "open")
    /\ UNCHANGED <<memory, disk, effects, request, bounds, history>>

\* persist: the text is of the shared document, not of this transition.
Serialize(t) ==
    /\ at[t] = "serialize"
    /\ text' = [text EXCEPT ![t] = status]
    /\ saved' = [saved EXCEPT ![t] = FALSE]
    /\ Goto(t, "open")
    /\ UNCHANGED <<memory, disk, effects, request, bounds, history>>

\* Mutant of Open: the document is rewritten in place.
OpenInPlace(t) ==
    /\ at[t] = "open"
    /\ document' = Empty
    /\ handle' = [handle EXCEPT ![t] = "document"]
    /\ Goto(t, "write")
    /\ UNCHANGED <<memory, spare, spared, effects, request, saving, bounds, history>>

\* Opening truncates the file another save may be writing.
Open(t) ==
    /\ at[t] = "open"
    /\ spare' = Empty /\ spared' = TRUE
    /\ handle' = [handle EXCEPT ![t] = "spare"]
    /\ Goto(t, "write")
    /\ UNCHANGED <<memory, document, effects, request, saving, bounds, history>>

\* The text lands in whatever file the handle now leads to.
Write(t) ==
    /\ at[t] = "write"
    /\ document' = IF handle[t] = "document" THEN Over(document, text[t]) ELSE document
    /\ spare' = IF handle[t] = "spare" THEN Over(spare, text[t]) ELSE spare
    /\ handle' = [handle EXCEPT ![t] = "closed"]
    /\ Goto(t, "replace")
    /\ UNCHANGED <<memory, spared, effects, request, saving, bounds, history>>

\* os.replace: open handles follow their files.
Renamed(h) == CASE h = "spare" -> "document"
                [] h = "document" -> "unlinked"
                [] OTHER -> h

Replace(t) ==
    /\ at[t] = "replace" /\ spared
    /\ document' = spare
    /\ spared' = FALSE
    /\ handle' = [u \in Threads |-> Renamed(handle[u])]
    /\ saved' = [saved EXCEPT ![t] = TRUE]
    /\ Goto(t, "clean")
    /\ UNCHANGED <<memory, spare, effects, request, text, bounds, history>>

\* An OSError: another save moved the temporary file away, or the disk fails
\* (when it is full, nothing of the text lands).
SaveFails(t) ==
    /\ \/ at[t] = "replace" /\ ~spared
       \/ at[t] \in {"open", "write", "replace"} /\ DiskFails
    /\ handle' = [handle EXCEPT ![t] = "closed"]
    /\ faulty' = TRUE
    /\ Goto(t, "clean")
    /\ UNCHANGED <<memory, document, spare, spared, effects, request, saving,
                   bounds, kept, crossed>>

\* The finally block: unlink the temporary file, whoever made it.
Unlinked(h) == IF h = "spare" THEN "unlinked" ELSE h

Clean(t) ==
    /\ at[t] = "clean"
    /\ spared' = FALSE
    /\ handle' = [u \in Threads |-> Unlinked(handle[u])]
    /\ Goto(t, "hook")
    /\ UNCHANGED <<memory, document, spare, effects, request, saving, bounds, history>>

\* The name service hears REGISTER or DEREGISTER ...
Hook(t) ==
    /\ at[t] = "hook"
    /\ listed' = (Target[op[t]] = "active")
    /\ Goto(t, "emit")
    /\ UNCHANGED <<memory, disk, stream, request, saving, bounds, history>>

\* ... or is out of reach; nothing tries again.
HookFails(t) ==
    /\ at[t] = "hook"
    /\ faulty' = TRUE
    /\ Goto(t, "emit")
    /\ UNCHANGED <<memory, disk, effects, request, saving, bounds, kept, crossed>>

Emit(t) ==
    /\ at[t] = "emit"
    /\ stream' = Append(stream, [from |-> previous[t], to |-> Target[op[t]]])
    /\ Goto(t, "respond")
    /\ UNCHANGED <<memory, disk, listed, request, saving, bounds, history>>

\* Signing or appending fails; the transition stands without a receipt.
EmitFails(t) ==
    /\ at[t] = "emit"
    /\ faulty' = TRUE
    /\ Goto(t, "respond")
    /\ UNCHANGED <<memory, disk, effects, request, saving, bounds, kept, crossed>>

Respond(t) ==
    /\ at[t] = "respond"
    /\ kept' = IF saved[t] THEN Target[op[t]] ELSE kept
    /\ Return(t)
    /\ text' = [text EXCEPT ![t] = Written]
    /\ saved' = [saved EXCEPT ![t] = FALSE]
    /\ UNCHANGED <<memory, disk, effects, bounds, crossed, faulty>>

---------------------------------------------------------------------------
\* The daemon dies, every thread with it, and loads the documents it finds; one
\* it cannot parse is skipped.  A temporary file stays where it was.
Crash ==
    /\ crashes < MaxCrashes
    /\ crashes' = crashes + 1
    /\ hosted' = Readable(document)
    /\ status' = IF Readable(document) THEN document.front ELSE status
    /\ at' = [t \in Threads |-> "idle"]
    /\ op' = [t \in Threads |-> "QUERY"]
    /\ caller' = [t \in Threads |-> "stranger"]
    /\ previous' = [t \in Threads |-> Written]
    /\ text' = [t \in Threads |-> Written]
    /\ saved' = [t \in Threads |-> FALSE]
    /\ handle' = [t \in Threads |-> "closed"]
    /\ faulty' = (faulty \/ \E t \in Threads : InFlight(t))
    /\ kept' \in IF \E t \in Threads : Saved(t)
                THEN {Target[op[t]] : t \in {u \in Threads : Saved(u)}}
                ELSE {kept}
    /\ UNCHANGED <<document, spare, spared, effects, admitted, crossed>>

Step(t) ==
    \/ \E o \in Operations : Serve(t, o)
    \/ \E o \in Operations, c \in Callers : Admit(t, o, c)
    \/ Served(t) \/ Denied(t) \/ NoOp(t) \/ ReadStatus(t) \/ SetStatus(t)
    \/ Serialize(t) \/ Open(t) \/ Write(t) \/ Replace(t) \/ SaveFails(t) \/ Clean(t)
    \/ Hook(t) \/ HookFails(t) \/ Emit(t) \/ EmitFails(t) \/ Respond(t)

Next == Crash \/ \E t \in Threads : Step(t)

Spec == Init /\ [][Next]_vars

---------------------------------------------------------------------------
\* Types of the state of a hosted agent and of its threads.
TypeOK ==
    /\ status \in Statuses /\ hosted \in BOOLEAN
    /\ document \in Files /\ spare \in Files /\ spared \in BOOLEAN
    /\ stream \in Seq([from : Statuses, to : Statuses]) /\ listed \in BOOLEAN
    /\ at \in [Threads -> Labels]
    /\ op \in [Threads -> Lifecycle \cup Introspection \cup {"QUERY"}]
    /\ \A t \in Threads : InFlight(t) => op[t] \in Lifecycle
    /\ caller \in [Threads -> {"issuer", "stranger"}]
    /\ previous \in [Threads -> Statuses]
    /\ text \in [Threads -> Statuses]
    /\ handle \in [Threads -> {"closed", "spare", "document", "unlinked"}]
    /\ saved \in [Threads -> BOOLEAN]
    /\ admitted \in Nat /\ crashes \in Nat
    /\ kept \in Statuses /\ crossed \in BOOLEAN /\ faulty \in BOOLEAN

\* persist never leaves the document in pieces, wherever the daemon dies, as
\* long as lifecycle methods come one at a time (AgentRegistry.persist): a
\* restart then always finds the agent again.
DocumentReadable == ~crossed => Readable(document) /\ hosted

\* A restart brings back the status of the last transition that was saved,
\* answered or not: never an older one, and never one that reached only memory
\* (AgentRegistry.persist and _load).
SavedSurvives ==
    ~crossed =>
        /\ \A t \in Threads : Saved(t) => document = Holding(Target[op[t]])
        /\ (\A t \in Threads : ~Saved(t)) => document = Holding(kept)

\* Memory, document, name service and stream tell one story whenever no
\* lifecycle method is in flight, unless methods crossed or a side effect was
\* lost: the receipts lead from the operator's status to the present one
\* without a gap (_lifecycle_transition).
StoresAgree ==
    (~crossed /\ ~faulty /\ \A t \in Threads : ~InFlight(t)) =>
        /\ document = Holding(status) /\ kept = status
        /\ stream = <<>> => status = Written
        /\ stream # <<>> => /\ stream[1].from = Written
                            /\ stream[Len(stream)].to = status
                            /\ listed = (status = "active")
        /\ \A i \in 2..Len(stream) : stream[i].from = stream[i - 1].to

\* An agent whose suspension or retirement was saved and answered serves no
\* further operational request, not even after restarts (_dispatch_inner over
\* what _load restored).  Of a deprecated agent the source says two things:
\* see DeprecatedStaysInReach.
NoServiceOnceOut ==
    [][\A t \in Threads :
          (at[t] = "idle" /\ at'[t] # "idle" /\ kept \in {"suspended", "retired"} /\ ~crossed)
            => op'[t] \in Introspection]_vars

\* An answered and saved retirement is permanent, in memory and on disk,
\* through restarts and whatever is asked of the agent, REINSTATE included, as
\* long as lifecycle methods come one at a time (handle_revoke: "Permanently
\* retire the targeted agent"; the gate refuses what handle_reinstate promises:
\* "Restore a previously revoked, deprecated, or suspended agent").
RetiredIsFinal ==
    [][(kept = "retired" /\ ~crossed') =>
          status' = "retired" /\ kept' = "retired" /\ document' = document]_vars

\* handle_deprecate: "The agent stays operational (still accepts traffic)";
\* handle_reinstate: "Restore a previously revoked, deprecated, or suspended
\* agent to active status".  If either holds of a deprecated agent, the
\* dispatcher lets its traffic through, or at least its reinstatement.
DeprecatedStaysInReach ==
    hosted /\ status = "deprecated" => Passes("QUERY") \/ Passes("REINSTATE")

\* docs/wire-format.md on REVOKE: "Permanent", of every caller and interleaving.
RevokeIsPermanent == [][kept = "retired" => status' = "retired"]_vars

\* AgentRegistry.persist of itself: "Atomic: writes to .agent.json.tmp then
\* os.replace".  With no lifecycle method under way the document is whole.
PersistIsAtomic == (\A t \in Threads : ~InFlight(t)) => Readable(document)
=================================================================================
