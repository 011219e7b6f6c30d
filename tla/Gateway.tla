------------------------------- MODULE Gateway -------------------------------
(***************************************************************************)
(* The handler gateway: the daemon side (server/gateway.py) and the        *)
(* runtime modules that connect to it (runtimes/mod_python, mod_go,        *)
(* mod_node, mod_rust).  A module process runs one connection at a time;   *)
(* the daemon keeps one current module, and dispatching threads take turns *)
(* on it under the lock of the connection.  Frames are records             *)
(* [type, id]; what they carry beyond that is left out.  Everything the    *)
(* daemon sends and every frame of the runtimes of this repository is in   *)
(* the model; a module that breaks the protocol is not.                    *)
(***************************************************************************)
EXTENDS Naturals, Sequences, FiniteSets

CONSTANTS MaxConns,     \* bound on connections, numbered as they are accepted
          Modules,      \* module processes
          Lang,         \* the runtime each of them is: [Modules -> {"python", "go", "node", "rust"}]
          Threads,      \* connection threads of the daemon that dispatch
          MaxRequests,  \* bound on dispatches
          None          \* no connection, no thread

Conns == 1..MaxConns

ASSUME GatewayAssumption == /\ MaxRequests \in Nat /\ MaxConns \in Nat
                            /\ Lang \in [Modules -> {"python", "go", "node", "rust"}]
                            /\ None \notin Conns \cup Threads

VARIABLES
  current, \* the module dispatches go to, or None
  doomed,  \* connections somebody has taken out of service and is about to close
  stopped, \* GatewayServer.stop has run
  phase,   \* how far the handshake of a connection has come
  up,      \* frames on their way to the daemon
  down,    \* frames on their way to the module
  shutD,   \* connections the daemon has closed
  shutM,   \* connections the module has closed
  holder,  \* the thread that holds the lock of a connection
  dpc, dconn, dreq, verdict, \* a dispatching thread, its connection, its request, what it got
  mpc, mconn, mreq,          \* a module process, its connection, the request in its handler
  offers, bound,             \* the manifest hash it would offer, the bindings it has kept
  nested,                    \* whether its handler may still call the daemon
  raised,                    \* history: requests whose handler raised
  stranded,                  \* history: connections a reply to an operation was not written on
  crossed,                   \* history: requests that were answered on such a connection
  nextId

gwvars == <<current, doomed, stopped, phase, up, down, shutD, shutM, holder,
            dpc, dconn, dreq, verdict, mpc, mconn, mreq, offers, bound, nested, raised,
            stranded, crossed, nextId>>
wire    == <<up, down>>
daemon  == <<current, doomed, stopped, phase, shutD, holder, stranded>>
caller  == <<dpc, dconn, dreq, verdict, crossed, nextId>>
process == <<shutM, mpc, mconn, mreq, offers, bound, nested, raised>>

Frame(type, id) == [type |-> type, id |-> id]
Send(queue, c, f) == [queue EXCEPT ![c] = Append(@, f)]
\* What is written to a peer that has closed is lost.
ToModule(c, f) == IF c \in shutM THEN down ELSE Send(down, c, f)
ToDaemon(c, f) == IF c \in shutD THEN up ELSE Send(up, c, f)
Took(queue, c) == [queue EXCEPT ![c] = Tail(@)]

GatewayInit ==
  /\ current = None /\ doomed = {} /\ stopped = FALSE
  /\ phase = [c \in Conns |-> "free"]
  /\ up = [c \in Conns |-> <<>>] /\ down = [c \in Conns |-> <<>>]
  /\ shutD = {} /\ shutM = {} /\ holder = [c \in Conns |-> None]
  /\ dpc = [t \in Threads |-> "idle"] /\ dconn = [t \in Threads |-> None]
  /\ dreq = [t \in Threads |-> 0] /\ verdict = [t \in Threads |-> "none"]
  /\ mpc = [m \in Modules |-> "out"] /\ mconn = [m \in Modules |-> None]
  /\ mreq = [m \in Modules |-> 0]
  /\ offers \in [Modules -> BOOLEAN]   \* an embedding may hand a persisted hash to the constructor
  /\ bound = [m \in Modules |-> FALSE] /\ nested = [m \in Modules |-> FALSE]
  /\ raised = {} /\ stranded = {} /\ crossed = {} /\ nextId = 1

-----------------------------------------------------------------------------
(* The handshake.                                                          *)

\* GatewayClient.run: connect and say hello, with the hash it has kept.
\* fits: the module speaks the gateway version of the daemon.
Connect(m, c, fits) ==
  /\ mpc[m] = "out" /\ ~stopped
  /\ phase[c] = "free" /\ \A d \in 1..(c - 1) : phase[d] # "free"
  /\ phase' = [phase EXCEPT ![c] = "hello"]
  /\ up' = ToDaemon(c, Frame(IF fits THEN "hello" ELSE "old hello", IF offers[m] THEN 1 ELSE 0))
  /\ mpc' = [mpc EXCEPT ![m] = "hello"] /\ mconn' = [mconn EXCEPT ![m] = c]
  /\ UNCHANGED <<current, doomed, stopped, shutD, holder, stranded, caller, down, shutM, mreq,
                 offers, bound, nested, raised>>

\* _do_handshake, first half: welcome, then the endpoint set, in full or by
\* reference to what the module says it has.
Hello(c) ==
  /\ phase[c] = "hello" /\ up[c] # <<>>
  /\ up' = Took(up, c)
  /\ IF Head(up[c]).type = "hello"
       THEN /\ down' = ToModule(c, Frame(IF Head(up[c]).id = 1 THEN "register_resume" ELSE "register", 0))
            /\ phase' = [phase EXCEPT ![c] = "ack"] /\ UNCHANGED shutD
       ELSE /\ down' = ToModule(c, Frame("error", 0))
            /\ phase' = [phase EXCEPT ![c] = "refused"] /\ shutD' = shutD \cup {c}
  /\ UNCHANGED <<current, doomed, stopped, holder, stranded, caller, process>>

\* The module's answer to the endpoint set.  resolves: its registry has a
\* handler for every endpoint.  A refused module leaves.
Acknowledge(m, ok, keeps) ==
  LET c == mconn[m] IN
  /\ up' = ToDaemon(c, Frame("register_ack", IF ok THEN 1 ELSE 0)) /\ down' = Took(down, c)
  /\ mpc' = [mpc EXCEPT ![m] = IF ok THEN "serve" ELSE "out"]
  /\ shutM' = IF ok THEN shutM ELSE shutM \cup {c}
  /\ mconn' = IF ok THEN mconn ELSE [mconn EXCEPT ![m] = None]
  /\ offers' = [offers EXCEPT ![m] = @ \/ keeps] /\ bound' = [bound EXCEPT ![m] = @ \/ keeps]
  /\ UNCHANGED <<daemon, caller, mreq, nested, raised>>

Told(m, type) == mpc[m] = "hello" /\ down[mconn[m]] # <<>> /\ Head(down[mconn[m]]).type = type

HandleRegister(m) == \E resolves \in BOOLEAN : Told(m, "register") /\ Acknowledge(m, resolves, resolves)
HandleRegisterResume(m) == Told(m, "register_resume") /\ Acknowledge(m, bound[m], FALSE)

\* Any end of GatewayClient.run: the socket is closed.
Leave(m) ==
  /\ mpc' = [mpc EXCEPT ![m] = "out"] /\ mconn' = [mconn EXCEPT ![m] = None]
  /\ shutM' = shutM \cup {mconn[m]} /\ mreq' = [mreq EXCEPT ![m] = 0]
  /\ nested' = [nested EXCEPT ![m] = FALSE] /\ down' = [down EXCEPT ![mconn[m]] = <<>>]

RefusedByDaemon(m) ==
  /\ Told(m, "error") /\ Leave(m)
  /\ UNCHANGED <<daemon, caller, up, offers, bound, raised>>

\* _handle_connection: the acknowledged module replaces the current one,
\* which is closed afterwards.
Install(c) ==
  /\ phase[c] = "ack" /\ up[c] # <<>>
  /\ up' = Took(up, c)
  /\ IF Head(up[c]).id = 1
       THEN /\ phase' = [phase EXCEPT ![c] = "ready"] /\ current' = c
            /\ doomed' = (doomed \cup {current}) \ {None} /\ UNCHANGED shutD
       ELSE /\ phase' = [phase EXCEPT ![c] = "refused"] /\ shutD' = shutD \cup {c}
            /\ UNCHANGED <<current, doomed>>
  /\ UNCHANGED <<stopped, holder, stranded, caller, process, down>>

\* A module that goes away in the handshake.
Aborted(c) ==
  /\ phase[c] \in {"hello", "ack"} /\ up[c] = <<>> /\ c \in shutM
  /\ phase' = [phase EXCEPT ![c] = "refused"] /\ shutD' = shutD \cup {c}
  /\ UNCHANGED <<current, doomed, stopped, holder, stranded, caller, process, wire>>

\* _ModuleConnection.close, called by whoever took the connection out.
Close(c) ==
  /\ c \in doomed /\ doomed' = doomed \ {c} /\ shutD' = shutD \cup {c}
  /\ UNCHANGED <<current, stopped, phase, holder, stranded, caller, process, wire>>

\* GatewayServer.stop.
StopGateway ==
  /\ ~stopped /\ stopped' = TRUE
  /\ doomed' = (doomed \cup {current}) \ {None} /\ current' = None
  /\ UNCHANGED <<phase, shutD, holder, stranded, caller, process, wire>>

-----------------------------------------------------------------------------
(* Dispatch.                                                               *)

\* The current module is read under the gateway's lock and used after it.
Dispatch(t) ==
  /\ dpc[t] = "idle" /\ nextId <= MaxRequests
  /\ IF current = None \/ current \in shutD
       THEN verdict' = [verdict EXCEPT ![t] = "unavailable"] /\ UNCHANGED <<dpc, dconn, dreq, nextId>>
       ELSE /\ dpc' = [dpc EXCEPT ![t] = "lock"] /\ dconn' = [dconn EXCEPT ![t] = current]
            /\ dreq' = [dreq EXCEPT ![t] = nextId] /\ nextId' = nextId + 1
            /\ verdict' = [verdict EXCEPT ![t] = "none"]
  /\ UNCHANGED <<daemon, crossed, process, wire>>

\* Mutant of MayEnter: dispatches do not wait for one another.
MayEnterAtOnce(t) == TRUE

\* The lock of the connection is free.
MayEnter(t) == holder[dconn[t]] = None

\* The request is written, unless it is too large for a frame or the
\* connection has been closed, which both end in _drop_module.
Enter(t) ==
  LET c == dconn[t] IN
  /\ dpc[t] = "lock" /\ MayEnter(t)
  /\ \/ /\ c \notin shutD
        /\ down' = ToModule(c, Frame("request", dreq[t]))
        /\ holder' = [holder EXCEPT ![c] = t] /\ dpc' = [dpc EXCEPT ![t] = "wait"]
     \/ /\ dpc' = [dpc EXCEPT ![t] = "drop"] /\ UNCHANGED <<down, holder>>
  /\ UNCHANGED <<current, doomed, stopped, phase, shutD, stranded, crossed, dconn, dreq, verdict, nextId,
                 process, up>>

\* _decode_response_frame.
Decoded(t, f) == IF f = Frame("response", dreq[t]) THEN "answered" ELSE "exception"

Release(t) == [holder EXCEPT ![dconn[t]] = IF @ = t THEN None ELSE @]

\* _read_until_response, last frame: a response, whosever it is, or an error.
\* An error that does not name this request is out of turn, and the module is
\* told so.
Read(t) ==
  LET c == dconn[t]
      last == Head(up[c]) IN
  /\ dpc[t] = "wait" /\ up[c] # <<>> /\ last.type \in {"response", "error"}
  /\ up' = Took(up, c) /\ holder' = Release(t)
  /\ down' = IF last.type = "response" \/ last.id = dreq[t] THEN down ELSE ToModule(c, Frame("error", 0))
  /\ verdict' = [verdict EXCEPT ![t] = Decoded(t, last)]
  /\ crossed' = IF c \in stranded THEN crossed \cup {dreq[t]} ELSE crossed
  /\ dpc' = [dpc EXCEPT ![t] = "idle"] /\ dconn' = [dconn EXCEPT ![t] = None]
  /\ UNCHANGED <<current, doomed, stopped, phase, shutD, stranded, dreq, nextId, process>>

\* _handle_sign_request and _handle_outbound_request: an operation of the
\* handler, served in the middle of the dispatch.  A reply that is too large
\* for a frame, or cannot be written, ends the dispatch in _drop_module: the
\* lock is free again while the module still waits for the reply.
Serve(t) ==
  LET c == dconn[t] IN
  /\ dpc[t] = "wait" /\ up[c] # <<>> /\ Head(up[c]).type = "operation"
  /\ up' = Took(up, c)
  /\ \/ down' = ToModule(c, Frame("operation_result", 0)) /\ UNCHANGED <<dpc, holder, stranded>>
     \/ /\ dpc' = [dpc EXCEPT ![t] = "drop"] /\ holder' = Release(t)
        /\ stranded' = stranded \cup {c} /\ UNCHANGED down
  /\ UNCHANGED <<current, doomed, stopped, phase, shutD, crossed, dconn, dreq, verdict, nextId, process>>

\* The connection has ended under the reading thread.
Broken(t) ==
  LET c == dconn[t] IN
  /\ dpc[t] = "wait" /\ up[c] = <<>> /\ c \in shutD \cup shutM
  /\ dpc' = [dpc EXCEPT ![t] = "drop"] /\ holder' = Release(t)
  /\ UNCHANGED <<current, doomed, stopped, phase, shutD, stranded, crossed, dconn, dreq, verdict, nextId,
                 process, wire>>

\* Mutant of AfterDrop: whichever module is in service by now is dropped.
AfterDropAny(c) == None

\* _drop_module: a thread whose connection failed takes it out of service if
\* it is still the one in service.
AfterDrop(c) == IF current = c THEN None ELSE current

Drop(t) ==
  /\ dpc[t] = "drop"
  /\ current' = AfterDrop(dconn[t]) /\ doomed' = doomed \cup {dconn[t]}
  /\ verdict' = [verdict EXCEPT ![t] = "unavailable"] /\ dreq' = [dreq EXCEPT ![t] = 0]
  /\ dpc' = [dpc EXCEPT ![t] = "idle"] /\ dconn' = [dconn EXCEPT ![t] = None]
  /\ UNCHANGED <<stopped, phase, shutD, holder, stranded, crossed, nextId, process, wire>>

-----------------------------------------------------------------------------
(* The module's serve loop.                                                *)

ReadRequest(m) ==
  LET c == mconn[m] IN
  /\ mpc[m] = "serve" /\ down[c] # <<>> /\ Head(down[c]).type = "request"
  /\ down' = Took(down, c) /\ mreq' = [mreq EXCEPT ![m] = Head(down[c]).id]
  /\ mpc' = [mpc EXCEPT ![m] = "handler"] /\ nested' = [nested EXCEPT ![m] = TRUE]
  /\ UNCHANGED <<daemon, caller, up, shutM, mconn, offers, bound, raised>>

\* A frame that is no request: the daemon is told, and the loop goes on.
ReadOther(m) ==
  LET c == mconn[m] IN
  /\ mpc[m] = "serve" /\ down[c] # <<>> /\ Head(down[c]).type # "request"
  /\ down' = Took(down, c) /\ up' = ToDaemon(c, Frame("error", 0))
  /\ UNCHANGED <<daemon, caller, process>>

Answer(m, f) ==
  /\ up' = ToDaemon(mconn[m], f)
  /\ mpc' = [mpc EXCEPT ![m] = "serve"] /\ mreq' = [mreq EXCEPT ![m] = 0]
  /\ nested' = [nested EXCEPT ![m] = FALSE]
  /\ UNCHANGED <<daemon, caller, down, shutM, mconn, offers, bound>>

\* An EndpointResponse or an EndpointError.
Returns(m) == mpc[m] = "handler" /\ Answer(m, Frame("response", mreq[m])) /\ UNCHANGED raised

\* An exception, or a result of another type.
Raises(m) == mpc[m] = "handler" /\ Answer(m, Frame("error", mreq[m])) /\ raised' = raised \cup {mreq[m]}

\* Mutant of Unsendable: every runtime ignores the error of the write.
UnsendableIgnored(m) ==
  /\ mpc[m] = "handler" /\ mpc' = [mpc EXCEPT ![m] = "serve"] /\ mreq' = [mreq EXCEPT ![m] = 0]
  /\ nested' = [nested EXCEPT ![m] = FALSE]
  /\ UNCHANGED <<daemon, caller, wire, shutM, mconn, offers, bound, raised>>

\* The result does not fit a frame or cannot be encoded.  mod_go ignores the
\* error of WriteFrame and goes on reading; in the other runtimes it ends the
\* serve loop, and the daemon sees the connection close.
Unsendable(m) ==
  /\ mpc[m] = "handler"
  /\ IF Lang[m] = "go"
       THEN /\ mpc' = [mpc EXCEPT ![m] = "serve"] /\ mreq' = [mreq EXCEPT ![m] = 0]
            /\ nested' = [nested EXCEPT ![m] = FALSE] /\ UNCHANGED <<mconn, shutM, down>>
       ELSE Leave(m)
  /\ UNCHANGED <<daemon, caller, up, offers, bound, raised>>

\* PythonDaemonClient.sign and fetch: write a frame, read the next one.
Operation(m) ==
  /\ mpc[m] = "handler" /\ Lang[m] = "python" /\ nested[m]
  /\ up' = ToDaemon(mconn[m], Frame("operation", mreq[m]))
  /\ mpc' = [mpc EXCEPT ![m] = "operation"] /\ nested' = [nested EXCEPT ![m] = FALSE]
  /\ UNCHANGED <<daemon, caller, down, shutM, mconn, mreq, offers, bound, raised>>

\* The handler goes on with the reply, or with the exception that an error, or
\* any other frame, is turned into: it may return or raise either way.
OperationResult(m) ==
  LET c == mconn[m] IN
  /\ mpc[m] = "operation" /\ down[c] # <<>>
  /\ down' = Took(down, c) /\ mpc' = [mpc EXCEPT ![m] = "handler"]
  /\ UNCHANGED <<daemon, caller, up, shutM, mconn, mreq, offers, bound, nested, raised>>

\* The daemon has closed the connection and the module has read what was left.
EndOfStream(m) ==
  /\ mpc[m] \in {"hello", "serve", "operation"} /\ down[mconn[m]] = <<>> /\ mconn[m] \in shutD
  /\ Leave(m)
  /\ UNCHANGED <<daemon, caller, up, offers, bound, raised>>

\* The module process dies and with it what it had cached.
ModuleDies(m) ==
  /\ mpc[m] # "out" /\ Leave(m)
  /\ offers' = [offers EXCEPT ![m] = FALSE] /\ bound' = [bound EXCEPT ![m] = FALSE]
  /\ UNCHANGED <<daemon, caller, up, raised>>

-----------------------------------------------------------------------------
DaemonConn(c) == Hello(c) \/ Install(c) \/ Aborted(c) \/ Close(c)
DaemonThread(t) == Enter(t) \/ Read(t) \/ Serve(t) \/ Broken(t) \/ Drop(t)
Handler(m) == Returns(m) \/ Raises(m) \/ Unsendable(m) \/ Operation(m)
ModuleStep(m) == HandleRegister(m) \/ HandleRegisterResume(m) \/ RefusedByDaemon(m) \/ ReadRequest(m)
                 \/ ReadOther(m) \/ Handler(m) \/ OperationResult(m) \/ EndOfStream(m)

GatewayNext ==
  \/ \E c \in Conns : DaemonConn(c)
  \/ \E t \in Threads : Dispatch(t) \/ DaemonThread(t)
  \/ \E m \in Modules : ModuleStep(m) \/ ModuleDies(m)
  \/ \E m \in Modules, c \in Conns, fits \in BOOLEAN : Connect(m, c, fits)
  \/ StopGateway

\* Threads of the daemon run, and a handler that was called comes to an end;
\* nobody has to connect, dispatch, stop or die.
GatewayFairness ==
  /\ \A c \in Conns : WF_gwvars(DaemonConn(c))
  /\ \A t \in Threads : WF_gwvars(DaemonThread(t))
  /\ \A m \in Modules : WF_gwvars(ModuleStep(m))

-----------------------------------------------------------------------------
\* A dispatch is told that the handler failed only if the handler of this very
\* request raised (gateway.dispatch, _decode_response_frame), or if another
\* thread has before, on the same connection, failed to write the reply to an
\* operation: until _drop_module has closed it, a dispatch that was waiting for
\* the lock is answered with what the handler of the other request makes of
\* this one's frame.
FailsForItsOwn == \A t \in Threads : verdict[t] = "exception" => dreq[t] \in raised \cup crossed

\* A module that has registered and whose connection is open is the one in
\* service, or about to be closed: none is left waiting for requests that
\* nobody will send it (_handle_connection, _drop_module, stop).
NoOrphan == \A c \in Conns : phase[c] = "ready" /\ c \notin shutD \cup doomed => c = current

\* Every dispatch ends, although there is no timeout on the read: a module
\* answers, or its connection closes (_read_until_response).
DispatchReturns == \A t \in Threads : dpc[t] # "idle" ~> dpc[t] = "idle"
=============================================================================
