---------------------------- MODULE GatewayProofs ----------------------------
(***************************************************************************)
(* Proofs about the handler gateway, for any number of connections,        *)
(* module processes of any of the four runtimes, dispatching threads and   *)
(* requests: an answer never reaches another request than its own, and no  *)
(* registered module is forgotten.  The argument is that a connection      *)
(* carries at most one thing at a time, a request, an operation of its     *)
(* handler, its result or an answer, and that it belongs to the thread     *)
(* that holds the lock of the connection; when that thread lets go, the    *)
(* connection is empty or dead, or it is stranded: a reply to an operation *)
(* was not written on it, and nothing is promised of it any more.          *)
(***************************************************************************)
EXTENDS Gateway, TLAPS

IsMap(f, S) == f = [x \in S |-> f[x]]

GwShape ==
  /\ IsMap(phase, Conns) /\ IsMap(up, Conns) /\ IsMap(down, Conns) /\ IsMap(holder, Conns)
  /\ IsMap(dpc, Threads) /\ IsMap(dconn, Threads) /\ IsMap(dreq, Threads) /\ IsMap(verdict, Threads)
  /\ IsMap(mpc, Modules) /\ IsMap(mconn, Modules) /\ IsMap(mreq, Modules)
  /\ current \in Conns \cup {None}

\* The request a connection is busy with, and what may answer it.
Asked(c) == dreq[holder[c]]
IsAnswer(c, s) ==
  /\ holder[c] # None
  /\ \/ s = <<Frame("response", Asked(c))>>
     \/ s = <<Frame("error", Asked(c))>> /\ Asked(c) \in raised
IsOperation(c, s) == holder[c] # None /\ s = <<Frame("operation", Asked(c))>>

\* What is on its way to the daemon, by the phase of the connection.
UpOK(c) ==
  /\ phase[c] = "free" => up[c] = <<>> /\ down[c] = <<>>
  /\ phase[c] = "hello" => \E f : up[c] = <<f>>
  /\ phase[c] = "ack" => (up[c] = <<>> \/ \E f : up[c] = <<f>>)
  /\ phase[c] = "ready" /\ c \notin stranded =>
       (up[c] = <<>> \/ IsOperation(c, up[c]) \/ IsAnswer(c, up[c]))

Stage(c) ==
  /\ c \in shutD => phase[c] \in {"refused", "ready"}
  /\ c \in shutM => phase[c] # "free"
  /\ c \in doomed \cup {current} => phase[c] = "ready"
  /\ c \in stranded => phase[c] = "ready"

Lock(c) == holder[c] # None => holder[c] \in Threads /\ dpc[holder[c]] = "wait" /\ dconn[holder[c]] = c

ThreadOK(t) ==
  /\ dpc[t] # "idle" => dconn[t] \in Conns /\ phase[dconn[t]] = "ready"
  /\ dpc[t] = "wait" => holder[dconn[t]] = t
  /\ verdict[t] = "exception" => dreq[t] \in raised \cup crossed

Place(m) == mpc[m] # "out" => mconn[m] \in Conns /\ mconn[m] \notin shutM /\ phase[mconn[m]] # "free"
Unique == \A m, o \in Modules : m # o /\ mpc[m] # "out" /\ mpc[o] # "out" => mconn[m] # mconn[o]

\* A module and its connection c, while the daemon has neither closed it nor
\* left it stranded.
Orderly(c) == c \notin shutD /\ c \notin stranded
Greeting(m, c) ==
  /\ mpc[m] = "hello"
  /\ \/ phase[c] = "hello" /\ down[c] = <<>>
     \/ phase[c] = "ack" /\ up[c] = <<>> /\ \E f : down[c] = <<f>>
Idling(m, c) ==
  /\ mpc[m] = "serve" /\ down[c] = <<>>
  /\ \/ phase[c] = "ack" /\ up[c] # <<>>
     \/ phase[c] = "ready" /\ (up[c] = <<>> \/ IsAnswer(c, up[c]))
Called(m, c) ==
  /\ mpc[m] = "serve" /\ phase[c] = "ready" /\ holder[c] # None
  /\ down[c] = <<Frame("request", Asked(c))>> /\ up[c] = <<>>
Handling(m, c) ==
  /\ phase[c] = "ready" /\ holder[c] # None /\ mreq[m] = Asked(c)
  /\ \/ mpc[m] = "handler" /\ up[c] = <<>> /\ down[c] = <<>>
     \/ mpc[m] = "operation" /\ IsOperation(c, up[c]) /\ down[c] = <<>>
     \/ mpc[m] = "operation" /\ up[c] = <<>> /\ \E f : down[c] = <<f>>
InTurn(m, c) == Greeting(m, c) \/ Idling(m, c) \/ Called(m, c) \/ Handling(m, c)
Exchange(m) == mpc[m] # "out" /\ Orderly(mconn[m]) => InTurn(m, mconn[m])

GatewayInv ==
  /\ GwShape /\ Unique /\ NoOrphan
  /\ \A c \in Conns : UpOK(c) /\ Stage(c) /\ Lock(c)
  /\ \A t \in Threads : ThreadOK(t)
  /\ \A m \in Modules : Place(m) /\ Exchange(m)

-----------------------------------------------------------------------------
(* Lemmas about sequences of at most one frame, and about maps.              *)

LEMMA OneFrame ==
    ASSUME NEW f
    PROVE  Append(<<>>, f) = <<f>> /\ Tail(<<f>>) = <<>> /\ Head(<<f>>) = f /\ <<f>> # <<>>
OBVIOUS

LEMMA SameFrame ==
    ASSUME NEW a, NEW b
    PROVE  Frame(a, b).type = a /\ Frame(a, b).id = b
BY DEF Frame

LEMMA NobodyIsNone == None \notin Conns /\ None \notin Threads
BY GatewayAssumption

\* A connection about which nothing changes.
Same(d) ==
  /\ phase'[d] = phase[d] /\ up'[d] = up[d] /\ down'[d] = down[d] /\ holder'[d] = holder[d]
  /\ d \in shutD' <=> d \in shutD
  /\ d \in shutM' <=> d \in shutM
  /\ d \in stranded' <=> d \in stranded
  /\ holder[d] # None => dreq'[holder[d]] = dreq[holder[d]]

LEMMA SameConn ==
    ASSUME raised \subseteq raised', NEW d, Same(d), UpOK(d)
    PROVE  UpOK(d)'
<1>1. \A s : (IsAnswer(d, s) => IsAnswer(d, s)') /\ (IsOperation(d, s) => IsOperation(d, s)')
  BY DEF IsAnswer, IsOperation, Asked, Same
<1> QED
  BY <1>1 DEF UpOK, Same

LEMMA SameModule ==
    ASSUME raised \subseteq raised', NEW m, Same(mconn[m]), Place(m), Exchange(m),
           mpc'[m] = mpc[m], mconn'[m] = mconn[m], mreq'[m] = mreq[m]
    PROVE  Place(m)' /\ Exchange(m)'
<1> DEFINE d == mconn[m]
<1>1. \A s : (IsAnswer(d, s) => IsAnswer(d, s)') /\ (IsOperation(d, s) => IsOperation(d, s)')
  BY DEF IsAnswer, IsOperation, Asked, Same
<1>2. Place(m)'
  BY DEF Place, Same
<1>3. ASSUME mpc[m] # "out", Orderly(d)
      PROVE  InTurn(m, mconn[m])'
  <2>1. CASE Greeting(m, d)
    BY <2>1 DEF Greeting, InTurn, Same
  <2>2. CASE Idling(m, d)
    BY <2>2, <1>1 DEF Idling, InTurn, Same
  <2>3. CASE Called(m, d)
    BY <2>3 DEF Called, Asked, InTurn, Same
  <2>4. CASE Handling(m, d)
    BY <2>4, <1>1 DEF Handling, Asked, InTurn, Same
  <2> QED
    BY <1>3, <2>1, <2>2, <2>3, <2>4 DEF Exchange, InTurn
<1> QED
  BY <1>2, <1>3 DEF Exchange, Orderly, Same

\* A step at connection c leaves every other one, and whoever is on it, alone.
LEMMA AtOneConn ==
    ASSUME GatewayInv, NEW c, raised \subseteq raised', \A d \in Conns : d # c => Same(d),
           c \in Conns => UpOK(c)',
           \A m \in Modules : mpc'[m] # "out" /\ mconn'[m] # c =>
             mpc'[m] = mpc[m] /\ mconn'[m] = mconn[m] /\ mreq'[m] = mreq[m],
           \A m \in Modules : mpc'[m] # "out" /\ mconn'[m] = c => Place(m)' /\ Exchange(m)'
    PROVE  /\ \A d \in Conns : UpOK(d)'
           /\ \A m \in Modules : Place(m)' /\ Exchange(m)'
<1>1. \A d \in Conns : UpOK(d)'
  BY SameConn DEF GatewayInv
<1>2. ASSUME NEW m \in Modules
      PROVE  Place(m)' /\ Exchange(m)'
  <2>1. CASE mpc'[m] = "out"
    BY <2>1 DEF Place, Exchange
  <2>2. CASE mpc'[m] # "out" /\ mconn'[m] = c
    BY <2>2
  <2>3. CASE mpc'[m] # "out" /\ mconn'[m] # c
    <3>1. mpc'[m] = mpc[m] /\ mconn'[m] = mconn[m] /\ mreq'[m] = mreq[m] /\ mconn[m] \in Conns
      BY <2>3 DEF GatewayInv, Place
    <3>2. Same(mconn[m])
      BY <2>3, <3>1
    <3> QED
      BY <3>1, <3>2, SameModule DEF GatewayInv
  <2> QED
    BY <2>1, <2>2, <2>3
<1> QED
  BY <1>1, <1>2

\* The dispatching threads go on as they were while no connection leaves
\* service and no lock changes hands.
LEMMA ThreadsStay ==
    ASSUME GatewayInv, UNCHANGED <<dpc, dconn, dreq, verdict, crossed, holder>>, raised \subseteq raised',
           \A c \in Conns : phase[c] = "ready" => phase'[c] = "ready"
    PROVE  (\A t \in Threads : ThreadOK(t)') /\ (\A c \in Conns : Lock(c)')
BY DEF GatewayInv, ThreadOK, Lock

\* The connections stay in service, or out of it.
LEMMA StagesStay ==
    ASSUME GatewayInv, UNCHANGED <<phase, current, doomed, shutD>>,
           \A c \in Conns : c \in shutM' => c \in shutM \/ phase[c] # "free",
           \A c \in Conns : c \in stranded' => c \in stranded \/ phase[c] = "ready"
    PROVE  (\A c \in Conns : Stage(c)') /\ NoOrphan'
BY DEF GatewayInv, Stage, NoOrphan

LEMMA InitGateway == GatewayInit => GatewayInv
<1> SUFFICES ASSUME GatewayInit
             PROVE  GatewayInv
  OBVIOUS
<1>1. GwShape
  BY DEF GatewayInit, GwShape, IsMap
<1>2. Unique /\ NoOrphan /\ \A m \in Modules : Place(m) /\ Exchange(m)
  BY DEF GatewayInit, Unique, NoOrphan, Place, Exchange
<1>3. \A t \in Threads : ThreadOK(t)
  BY DEF GatewayInit, ThreadOK
<1>4. \A c \in Conns : UpOK(c) /\ Stage(c) /\ Lock(c)
  BY NobodyIsNone DEF GatewayInit, UpOK, Stage, Lock
<1> QED
  BY <1>1, <1>2, <1>3, <1>4 DEF GatewayInv

-----------------------------------------------------------------------------
(* The handshake.                                                            *)

LEMMA ConnectStep ==
    ASSUME GatewayInv, NEW m \in Modules, NEW c \in Conns, NEW fits, Connect(m, c, fits)
    PROVE  GatewayInv'
<1> DEFINE f == Frame(IF fits THEN "hello" ELSE "old hello", IF offers[m] THEN 1 ELSE 0)
<1>1. GwShape /\ Unique /\ UpOK(c) /\ Stage(c) /\ \A o \in Modules : Place(o)
  BY DEF GatewayInv
<1>2. /\ phase[c] = "free" /\ mpc[m] = "out"
      /\ phase' = [phase EXCEPT ![c] = "hello"] /\ up' = ToDaemon(c, f)
      /\ mpc' = [mpc EXCEPT ![m] = "hello"] /\ mconn' = [mconn EXCEPT ![m] = c]
      /\ UNCHANGED <<current, doomed, shutD, holder, stranded, dpc, dconn, dreq, verdict, crossed>>
      /\ UNCHANGED <<down, shutM, mreq, raised>>
  BY DEF Connect, caller
<1> HIDE DEF f
<1>3. /\ c \notin shutD /\ c \notin shutM /\ c # current /\ c \notin doomed /\ c \notin stranded
      /\ up[c] = <<>> /\ down[c] = <<>>
  BY <1>1, <1>2 DEF Stage, UpOK
<1>4. up' = [up EXCEPT ![c] = <<f>>]
  BY <1>2, <1>3, OneFrame DEF ToDaemon, Send
<1>5. IsMap(phase', Conns) /\ phase'[c] = "hello" /\ \A d \in Conns : d # c => phase'[d] = phase[d]
  BY <1>1, <1>2 DEF GwShape, IsMap
<1>6. IsMap(up', Conns) /\ up'[c] = <<f>> /\ \A d \in Conns : d # c => up'[d] = up[d]
  BY <1>1, <1>4 DEF GwShape, IsMap
<1>7. IsMap(mpc', Modules) /\ mpc'[m] = "hello" /\ \A o \in Modules : o # m => mpc'[o] = mpc[o]
  BY <1>1, <1>2 DEF GwShape, IsMap
<1>8. IsMap(mconn', Modules) /\ mconn'[m] = c /\ \A o \in Modules : o # m => mconn'[o] = mconn[o]
  BY <1>1, <1>2 DEF GwShape, IsMap
<1>9. \A o \in Modules : o # m /\ mpc'[o] # "out" => mconn'[o] # c
  BY <1>1, <1>2, <1>7, <1>8 DEF Place
<1>10. GwShape' /\ Unique'
  BY <1>1, <1>2, <1>5, <1>6, <1>7, <1>8, <1>9 DEF GwShape, Unique
<1>11. UpOK(c)' /\ Place(m)' /\ Exchange(m)'
  BY <1>2, <1>3, <1>5, <1>6, <1>7, <1>8 DEF UpOK, Place, Exchange, InTurn, Greeting
<1>12. \A d \in Conns : d # c => Same(d)
  BY <1>2, <1>5, <1>6 DEF Same
<1>13. (\A d \in Conns : UpOK(d)') /\ (\A o \in Modules : Place(o)' /\ Exchange(o)')
  <2>1. \A o \in Modules : mpc'[o] # "out" /\ mconn'[o] # c =>
          mpc'[o] = mpc[o] /\ mconn'[o] = mconn[o] /\ mreq'[o] = mreq[o]
    BY <1>2, <1>7, <1>8
  <2>2. \A o \in Modules : mpc'[o] # "out" /\ mconn'[o] = c => Place(o)' /\ Exchange(o)'
    BY <1>9, <1>11
  <2> QED
    BY <1>2, <1>11, <1>12, <2>1, <2>2, AtOneConn
<1>14. (\A t \in Threads : ThreadOK(t)') /\ (\A d \in Conns : Lock(d)')
  BY <1>2, <1>5, ThreadsStay
<1>15. (\A d \in Conns : Stage(d)') /\ NoOrphan'
  BY <1>2, <1>3, <1>5 DEF GatewayInv, Stage, NoOrphan
<1> QED
  BY <1>10, <1>13, <1>14, <1>15 DEF GatewayInv

\* The daemon answers a hello, or refuses it and closes the connection.
LEMMA HelloStep == ASSUME GatewayInv, NEW c \in Conns, Hello(c) PROVE GatewayInv'
<1>1. GwShape /\ Unique /\ UpOK(c) /\ Stage(c) /\ \A o \in Modules : Place(o) /\ Exchange(o)
  BY DEF GatewayInv
<1>2. /\ phase[c] = "hello" /\ up' = Took(up, c)
      /\ UNCHANGED <<current, doomed, holder, stranded, dpc, dconn, dreq, verdict, crossed>>
      /\ UNCHANGED <<shutM, mpc, mconn, mreq, raised>>
  BY DEF Hello, caller, process
<1>3. PICK g : up[c] = <<g>>
  BY <1>1, <1>2 DEF UpOK
<1>4. up' = [up EXCEPT ![c] = <<>>]
  BY <1>2, <1>3, OneFrame DEF Took
<1>5. IsMap(up', Conns) /\ up'[c] = <<>> /\ \A d \in Conns : d # c => up'[d] = up[d]
  BY <1>1, <1>4 DEF GwShape, IsMap
<1>6. c \notin shutD /\ c # current /\ c \notin doomed /\ c \notin stranded
  BY <1>1, <1>2 DEF Stage
<1>7. PICK f : down' = ToModule(c, f)
  BY DEF Hello
<1>8. PICK x \in {"ack", "refused"} :
        /\ phase' = [phase EXCEPT ![c] = x]
        /\ x = "ack" => shutD' = shutD
        /\ x = "refused" => shutD' = shutD \cup {c}
  BY DEF Hello
<1>9. IsMap(phase', Conns) /\ phase'[c] = x /\ \A d \in Conns : d # c => phase'[d] = phase[d]
  BY <1>1, <1>8 DEF GwShape, IsMap
<1>10. /\ IsMap(down', Conns)
       /\ \A d \in Conns : d # c => down'[d] = down[d]
       /\ c \notin shutM => down'[c] = Append(down[c], f)
  <2>1. CASE c \in shutM
    BY <1>1, <1>7, <2>1 DEF ToModule, GwShape
  <2>2. CASE c \notin shutM
    BY <1>1, <1>7, <2>2 DEF ToModule, Send, GwShape, IsMap
  <2> QED
    BY <2>1, <2>2
<1>11. GwShape' /\ Unique'
  BY <1>1, <1>2, <1>5, <1>9, <1>10 DEF GwShape, Unique
<1>12. UpOK(c)'
  BY <1>5, <1>9 DEF UpOK
<1>13. ASSUME NEW m \in Modules, mpc'[m] # "out", mconn'[m] = c
       PROVE  Place(m)' /\ Exchange(m)'
  <2>1. mpc[m] # "out" /\ mconn[m] = c /\ c \notin shutM
    BY <1>1, <1>2, <1>13 DEF Place
  <2>2. InTurn(m, c)
    BY <1>1, <1>6, <2>1 DEF Exchange, Orderly
  <2>3. mpc[m] = "hello" /\ down[c] = <<>>
    BY <1>2, <2>2 DEF InTurn, Greeting, Idling, Called, Handling
  <2>4. down'[c] = <<f>>
    BY <1>10, <2>1, <2>3, OneFrame
  <2>5. Place(m)'
    BY <1>2, <1>9, <2>1 DEF Place
  <2>6. x = "ack" => InTurn(m, c)'
    BY <1>2, <1>5, <1>9, <2>3, <2>4 DEF InTurn, Greeting
  <2> QED
    BY <1>2, <1>8, <2>1, <2>5, <2>6 DEF Exchange, Orderly
<1>14. \A d \in Conns : d # c => Same(d)
  BY <1>2, <1>5, <1>8, <1>9, <1>10 DEF Same
<1>15. (\A d \in Conns : UpOK(d)') /\ (\A o \in Modules : Place(o)' /\ Exchange(o)')
  BY <1>2, <1>12, <1>13, <1>14, AtOneConn
<1>16. (\A t \in Threads : ThreadOK(t)') /\ (\A d \in Conns : Lock(d)')
  BY <1>2, <1>9, ThreadsStay
<1>17. (\A d \in Conns : Stage(d)') /\ NoOrphan'
  BY <1>2, <1>6, <1>8, <1>9 DEF GatewayInv, Stage, NoOrphan
<1> QED
  BY <1>11, <1>15, <1>16, <1>17 DEF GatewayInv

\* The connection and the phase are the daemon's: a module is taken into
\* service or refused, or has gone away in the handshake.
LEMMA SettleStep == ASSUME GatewayInv, NEW c \in Conns, Install(c) \/ Aborted(c) PROVE GatewayInv'
<1>1. GwShape /\ Unique /\ UpOK(c) /\ Stage(c) /\ \A o \in Modules : Place(o) /\ Exchange(o)
  BY DEF GatewayInv
<1>2. /\ phase[c] \in {"hello", "ack"}
      /\ UNCHANGED <<holder, stranded, dpc, dconn, dreq, verdict, crossed, down>>
      /\ UNCHANGED <<shutM, mpc, mconn, mreq, raised>>
  BY DEF Install, Aborted, caller, process, wire
<1>3. c \notin shutD /\ c # current /\ c \notin doomed /\ c \notin stranded
  BY <1>1, <1>2 DEF Stage
<1>4. PICK x \in {"ready", "refused"} :
        /\ phase' = [phase EXCEPT ![c] = x]
        /\ x = "ready" => /\ phase[c] = "ack" /\ up[c] # <<>> /\ up' = Took(up, c) /\ current' = c
                          /\ doomed' = (doomed \cup {current}) \ {None} /\ shutD' = shutD
        /\ x = "refused" => shutD' = shutD \cup {c} /\ UNCHANGED <<current, doomed>>
        /\ up' = up \/ up' = Took(up, c)
  BY DEF Install, Aborted, wire
<1>5. IsMap(phase', Conns) /\ phase'[c] = x /\ \A d \in Conns : d # c => phase'[d] = phase[d]
  BY <1>1, <1>4 DEF GwShape, IsMap
<1>6. IsMap(up', Conns) /\ \A d \in Conns : d # c => up'[d] = up[d]
  BY <1>1, <1>4 DEF GwShape, Took, IsMap
<1>7. x = "ready" => up'[c] = <<>>
  <2>1. ASSUME x = "ready"
        PROVE  up'[c] = <<>>
    <3>1. PICK g : up[c] = <<g>>
      BY <1>1, <1>4, <2>1 DEF UpOK
    <3>2. up' = [up EXCEPT ![c] = <<>>]
      BY <1>4, <2>1, <3>1, OneFrame DEF Took
    <3> QED
      BY <1>1, <3>2 DEF GwShape, IsMap
  <2> QED
    BY <2>1
<1>8. GwShape' /\ Unique'
  BY <1>1, <1>2, <1>4, <1>5, <1>6 DEF GwShape, Unique
<1>9. UpOK(c)'
  BY <1>5, <1>7 DEF UpOK
<1>10. ASSUME NEW m \in Modules, mpc'[m] # "out", mconn'[m] = c
       PROVE  Place(m)' /\ Exchange(m)'
  <2>1. mpc[m] # "out" /\ mconn[m] = c /\ c \notin shutM
    BY <1>1, <1>2, <1>10 DEF Place
  <2>2. Place(m)'
    BY <1>2, <1>5, <2>1 DEF Place
  <2>3. InTurn(m, c)
    BY <1>1, <1>3, <2>1 DEF Exchange, Orderly
  <2>4. x = "ready" => InTurn(m, c)'
    BY <1>2, <1>4, <1>5, <1>7, <2>3 DEF InTurn, Greeting, Idling, Called, Handling
  <2> QED
    BY <1>2, <1>4, <2>1, <2>2, <2>4 DEF Exchange, Orderly
<1>11. \A d \in Conns : d # c => Same(d)
  BY <1>2, <1>4, <1>5, <1>6 DEF Same
<1>12. (\A d \in Conns : UpOK(d)') /\ (\A o \in Modules : Place(o)' /\ Exchange(o)')
  BY <1>2, <1>9, <1>10, <1>11, AtOneConn
<1>13. (\A t \in Threads : ThreadOK(t)') /\ (\A d \in Conns : Lock(d)')
  BY <1>2, <1>5, ThreadsStay
<1>14. (\A d \in Conns : Stage(d)') /\ NoOrphan'
  BY <1>2, <1>3, <1>4, <1>5, NobodyIsNone DEF GatewayInv, Stage, NoOrphan
<1> QED
  BY <1>8, <1>12, <1>13, <1>14 DEF GatewayInv

\* A connection is closed, the gateway stops: the queues stay.
LEMMA CloseStep == ASSUME GatewayInv, (\E c \in Conns : Close(c)) \/ StopGateway PROVE GatewayInv'
<1>1. /\ UNCHANGED <<phase, up, down, holder, stranded, dpc, dconn, dreq, verdict, crossed>>
      /\ UNCHANGED <<shutM, mpc, mconn, mreq, raised>>
  BY DEF Close, StopGateway, caller, process, wire
<1>2. shutD \subseteq shutD' /\ current' \in {current, None}
  BY DEF Close, StopGateway
<1>3. GwShape' /\ Unique'
  BY <1>1, <1>2 DEF GatewayInv, GwShape, Unique
<1>4. \A d \in Conns : UpOK(d)'
  BY <1>1 DEF GatewayInv, UpOK, IsAnswer, IsOperation, Asked
<1>5. \A m \in Modules : Place(m)' /\ Exchange(m)'
  <2>1. ASSUME NEW m \in Modules
        PROVE  Place(m)' /\ (InTurn(m, mconn[m]) => InTurn(m, mconn[m])')
    BY <1>1 DEF GatewayInv, Place, InTurn, Greeting, Idling, Called, Handling, IsAnswer, IsOperation, Asked
  <2> QED
    BY <1>1, <1>2, <2>1 DEF GatewayInv, Exchange, Orderly
<1>6. (\A t \in Threads : ThreadOK(t)') /\ (\A d \in Conns : Lock(d)')
  BY <1>1, ThreadsStay
<1>7. (\A d \in Conns : Stage(d)') /\ NoOrphan'
  BY <1>1, NobodyIsNone DEF GatewayInv, GwShape, Stage, NoOrphan, Close, StopGateway
<1> QED
  BY <1>3, <1>4, <1>5, <1>6, <1>7 DEF GatewayInv

-----------------------------------------------------------------------------
(* The module's side.                                                        *)

LEMMA Upwards ==
    ASSUME GwShape, NEW c \in Conns, NEW f, up' = ToDaemon(c, f)
    PROVE  /\ IsMap(up', Conns)
           /\ \A d \in Conns : d # c => up'[d] = up[d]
           /\ c \in shutD => up'[c] = up[c]
           /\ c \notin shutD /\ up[c] = <<>> => up'[c] = <<f>>
<1>1. CASE c \in shutD
  BY <1>1 DEF ToDaemon, GwShape
<1>2. CASE c \notin shutD
  <2>1. up' = [up EXCEPT ![c] = Append(up[c], f)]
    BY <1>2 DEF ToDaemon, Send
  <2>2. /\ IsMap(up', Conns) /\ up'[c] = Append(up[c], f)
        /\ \A d \in Conns : d # c => up'[d] = up[d]
    BY <2>1 DEF GwShape, IsMap
  <2> QED
    BY <1>2, <2>2, OneFrame
<1> QED
  BY <1>1, <1>2

LEMMA Downwards ==
    ASSUME GwShape, NEW c \in Conns, NEW f, down' = ToModule(c, f)
    PROVE  /\ IsMap(down', Conns)
           /\ \A d \in Conns : d # c => down'[d] = down[d]
           /\ c \notin shutM /\ down[c] = <<>> => down'[c] = <<f>>
<1>1. CASE c \in shutM
  BY <1>1 DEF ToModule, GwShape
<1>2. CASE c \notin shutM
  <2>1. down' = [down EXCEPT ![c] = Append(down[c], f)]
    BY <1>2 DEF ToModule, Send
  <2>2. /\ IsMap(down', Conns) /\ down'[c] = Append(down[c], f)
        /\ \A d \in Conns : d # c => down'[d] = down[d]
    BY <2>1 DEF GwShape, IsMap
  <2> QED
    BY <1>2, <2>2, OneFrame
<1> QED
  BY <1>1, <1>2

LEMMA TakesDown ==
    ASSUME GwShape, NEW c \in Conns, down' = Took(down, c)
    PROVE  /\ IsMap(down', Conns)
           /\ \A d \in Conns : d # c => down'[d] = down[d]
           /\ \A f : down[c] = <<f>> => down'[c] = <<>>
<1>1. /\ IsMap(down', Conns) /\ down'[c] = Tail(down[c])
      /\ \A d \in Conns : d # c => down'[d] = down[d]
  BY DEF Took, GwShape, IsMap
<1> QED
  BY <1>1, OneFrame

LEMMA TakesUp ==
    ASSUME GwShape, NEW c \in Conns, up' = Took(up, c)
    PROVE  /\ IsMap(up', Conns)
           /\ \A d \in Conns : d # c => up'[d] = up[d]
           /\ \A f : up[c] = <<f>> => up'[c] = <<>>
<1>1. /\ IsMap(up', Conns) /\ up'[c] = Tail(up[c])
      /\ \A d \in Conns : d # c => up'[d] = up[d]
  BY DEF Took, GwShape, IsMap
<1> QED
  BY <1>1, OneFrame

\* A module goes: its connection is dead, and nobody else is on it.
LEMMA GoesOut ==
    ASSUME GatewayInv, NEW m \in Modules, NEW c \in Conns, c = mconn[m], mpc[m] # "out",
           UNCHANGED <<current, doomed, phase, shutD, holder, stranded, dpc, dconn, dreq, verdict, crossed>>,
           mpc' = [mpc EXCEPT ![m] = "out"], mconn' = [mconn EXCEPT ![m] = None], shutM' = shutM \cup {c},
           raised \subseteq raised', IsMap(up', Conns), IsMap(down', Conns), IsMap(mreq', Modules),
           \A d \in Conns : d # c => up'[d] = up[d] /\ down'[d] = down[d],
           \A o \in Modules : o # m => mreq'[o] = mreq[o],
           UpOK(c)'
    PROVE  GatewayInv'
<1>1. GwShape /\ Unique /\ phase[c] # "free"
  BY DEF GatewayInv, Place
<1>2. /\ IsMap(mpc', Modules) /\ IsMap(mconn', Modules) /\ mpc'[m] = "out"
      /\ \A o \in Modules : o # m => mpc'[o] = mpc[o] /\ mconn'[o] = mconn[o]
  BY <1>1 DEF GwShape, IsMap
<1>3. GwShape' /\ Unique'
  BY <1>1, <1>2 DEF GwShape, Unique
<1>4. \A d \in Conns : d # c => Same(d)
  BY DEF Same
<1>5. \A o \in Modules : mpc'[o] # "out" => o # m /\ mconn'[o] # c
  BY <1>1, <1>2 DEF Unique
<1>6. (\A d \in Conns : UpOK(d)') /\ (\A o \in Modules : Place(o)' /\ Exchange(o)')
  BY <1>2, <1>4, <1>5, AtOneConn
<1>7. (\A t \in Threads : ThreadOK(t)') /\ (\A d \in Conns : Lock(d)')
  BY ThreadsStay
<1>8. (\A d \in Conns : Stage(d)') /\ NoOrphan'
  BY <1>1, StagesStay
<1> QED
  BY <1>3, <1>6, <1>7, <1>8 DEF GatewayInv

LEMMA LeaveStep ==
    ASSUME GatewayInv, NEW m \in Modules, mpc[m] # "out", Leave(m),
           UNCHANGED <<current, doomed, phase, shutD, holder, stranded, dpc, dconn, dreq, verdict, crossed, up>>,
           raised \subseteq raised'
    PROVE  GatewayInv'
<1>1. PICK c \in Conns : c = mconn[m]
  BY DEF GatewayInv, Place
<1>2. GwShape /\ UpOK(c) /\ phase[c] # "free"
  BY <1>1 DEF GatewayInv, Place
<1>3. /\ mpc' = [mpc EXCEPT ![m] = "out"] /\ mconn' = [mconn EXCEPT ![m] = None]
      /\ shutM' = shutM \cup {c} /\ mreq' = [mreq EXCEPT ![m] = 0] /\ down' = [down EXCEPT ![c] = <<>>]
  BY <1>1 DEF Leave
<1>4. /\ IsMap(down', Conns) /\ IsMap(mreq', Modules) /\ IsMap(up', Conns)
      /\ \A d \in Conns : d # c => down'[d] = down[d]
      /\ \A o \in Modules : o # m => mreq'[o] = mreq[o]
  BY <1>2, <1>3 DEF GwShape, IsMap
<1>5. UpOK(c)'
  BY <1>2 DEF UpOK, IsAnswer, IsOperation, Asked
<1> QED
  BY <1>1, <1>3, <1>4, <1>5, GoesOut

\* A module goes on, on its connection.
LEMMA GoesOn ==
    ASSUME GatewayInv, NEW m \in Modules, NEW c \in Conns, c = mconn[m], mpc[m] # "out",
           UNCHANGED <<current, doomed, phase, shutD, shutM, holder, stranded>>,
           UNCHANGED <<dpc, dconn, dreq, verdict, crossed, mconn>>,
           raised \subseteq raised', IsMap(up', Conns), IsMap(down', Conns),
           \A d \in Conns : d # c => up'[d] = up[d] /\ down'[d] = down[d],
           IsMap(mpc', Modules), IsMap(mreq', Modules), mpc'[m] # "out",
           \A o \in Modules : o # m => mpc'[o] = mpc[o] /\ mreq'[o] = mreq[o],
           UpOK(c)', Orderly(c) => InTurn(m, c)'
    PROVE  GatewayInv'
<1>1. GwShape /\ Unique /\ Place(m)
  BY DEF GatewayInv
<1>2. GwShape' /\ Unique'
  BY <1>1 DEF GwShape, Unique
<1>3. \A d \in Conns : d # c => Same(d)
  BY DEF Same
<1>4. Place(m)' /\ Exchange(m)'
  BY <1>1 DEF Place, Exchange, Orderly
<1>5. \A o \in Modules : mpc'[o] # "out" /\ mconn'[o] = c => o = m
  BY <1>1 DEF Unique
<1>6. (\A d \in Conns : UpOK(d)') /\ (\A o \in Modules : Place(o)' /\ Exchange(o)')
  BY <1>3, <1>4, <1>5, AtOneConn
<1>7. (\A t \in Threads : ThreadOK(t)') /\ (\A d \in Conns : Lock(d)')
  BY ThreadsStay
<1>8. (\A d \in Conns : Stage(d)') /\ NoOrphan'
  BY StagesStay
<1> QED
  BY <1>2, <1>6, <1>7, <1>8 DEF GatewayInv

\* What a module knows of its connection.
LEMMA OnConn ==
    ASSUME GatewayInv, NEW m \in Modules, mpc[m] # "out"
    PROVE  /\ mconn[m] \in Conns /\ mconn[m] \notin shutM /\ phase[mconn[m]] # "free"
           /\ UpOK(mconn[m]) /\ Stage(mconn[m]) /\ GwShape
           /\ Orderly(mconn[m]) => InTurn(m, mconn[m])
BY DEF GatewayInv, Place, Exchange

\* Once the daemon has closed a connection nothing more comes up on it; of a
\* stranded one nothing is said.
LEMMA ClosedUp ==
    ASSUME NEW c, UpOK(c), Stage(c), ~Orderly(c), raised \subseteq raised', c \in shutD => up'[c] = up[c],
           UNCHANGED <<phase, holder, stranded, dreq>>
    PROVE  UpOK(c)'
BY DEF UpOK, Stage, Orderly, IsAnswer, IsOperation, Asked

\* The answer to the endpoint set: the module serves, or goes.
LEMMA AcknowledgeStep ==
    ASSUME GatewayInv, NEW m \in Modules, NEW ok, NEW keeps, mpc[m] = "hello", down[mconn[m]] # <<>>,
           Acknowledge(m, ok, keeps)
    PROVE  GatewayInv'
<1>1. PICK c \in Conns : c = mconn[m]
  BY OnConn
<1>2. GwShape /\ UpOK(c) /\ Stage(c) /\ (Orderly(c) => InTurn(m, c))
  BY <1>1, OnConn
<1>3. PICK f : up' = ToDaemon(c, f)
  BY <1>1 DEF Acknowledge
<1>4. /\ down' = Took(down, c) /\ mpc' = [mpc EXCEPT ![m] = IF ok THEN "serve" ELSE "out"]
      /\ UNCHANGED <<current, doomed, phase, shutD, holder, stranded, dpc, dconn, dreq, verdict, crossed>>
      /\ UNCHANGED <<mreq, raised>>
  BY <1>1 DEF Acknowledge, daemon, caller
<1>5. /\ IsMap(up', Conns) /\ \A d \in Conns : d # c => up'[d] = up[d]
      /\ c \in shutD => up'[c] = up[c]
      /\ c \notin shutD /\ up[c] = <<>> => up'[c] = <<f>>
  BY <1>2, <1>3, Upwards
<1>6. /\ IsMap(down', Conns) /\ \A d \in Conns : d # c => down'[d] = down[d]
      /\ \A g : down[c] = <<g>> => down'[c] = <<>>
  BY <1>2, <1>4, TakesDown
<1>7. Orderly(c) => phase[c] = "ack" /\ up'[c] = <<f>> /\ down'[c] = <<>>
  BY <1>1, <1>2, <1>5, <1>6 DEF Orderly, InTurn, Greeting, Idling, Called, Handling
<1>8. UpOK(c)'
  <2>1. CASE ~Orderly(c)
    BY <1>2, <1>4, <1>5, <2>1, ClosedUp
  <2>2. CASE Orderly(c)
    BY <1>4, <1>7, <2>2 DEF UpOK
  <2> QED
    BY <2>1, <2>2
<1>9. CASE ok
  <2>1. UNCHANGED <<mconn, shutM>>
    BY <1>9 DEF Acknowledge
  <2>2. /\ IsMap(mpc', Modules) /\ mpc'[m] = "serve" /\ IsMap(mreq', Modules)
        /\ \A o \in Modules : o # m => mpc'[o] = mpc[o] /\ mreq'[o] = mreq[o]
    BY <1>2, <1>4, <1>9 DEF GwShape, IsMap
  <2>3. Orderly(c) => InTurn(m, c)'
    BY <1>4, <1>7, <2>2, OneFrame DEF InTurn, Idling
  <2> QED
    BY <1>1, <1>4, <1>5, <1>6, <1>8, <2>1, <2>2, <2>3, GoesOn
<1>10. CASE ~ok
  <2>1. mconn' = [mconn EXCEPT ![m] = None] /\ shutM' = shutM \cup {c} /\ mpc' = [mpc EXCEPT ![m] = "out"]
    BY <1>1, <1>4, <1>10 DEF Acknowledge
  <2>2. IsMap(mreq', Modules) /\ \A o \in Modules : o # m => mreq'[o] = mreq[o]
    BY <1>2, <1>4 DEF GwShape
  <2> QED
    BY <1>1, <1>4, <1>5, <1>6, <1>8, <2>1, <2>2, GoesOut
<1> QED
  BY <1>9, <1>10

\* The serve loop: a request in, an answer or an operation out.
LEMMA HandlerStep ==
    ASSUME GatewayInv, NEW m \in Modules,
           \/ ReadRequest(m) \/ ReadOther(m) \/ Returns(m) \/ Raises(m) \/ Operation(m) \/ OperationResult(m)
           \/ Unsendable(m) /\ Lang[m] = "go"
    PROVE  GatewayInv'
<1>0. mpc[m] \in {"serve", "handler", "operation"}
  BY DEF ReadRequest, ReadOther, Returns, Raises, Operation, OperationResult, Unsendable
<1>1. PICK c \in Conns : c = mconn[m]
  BY <1>0, OnConn
<1>2. GwShape /\ UpOK(c) /\ Stage(c) /\ (Orderly(c) => InTurn(m, c))
  BY <1>0, <1>1, OnConn
<1>3. /\ UNCHANGED <<current, doomed, phase, shutD, shutM, holder, stranded>>
      /\ UNCHANGED <<dpc, dconn, dreq, verdict, crossed, mconn>>
      /\ raised \subseteq raised'
  BY DEF ReadRequest, ReadOther, Returns, Raises, Operation, OperationResult, Unsendable, Answer,
         daemon, caller, process
<1>4. PICK x \in {"serve", "handler", "operation"} :
        mpc' = [mpc EXCEPT ![m] = x] \/ (x = mpc[m] /\ mpc' = mpc)
  BY <1>0 DEF ReadRequest, ReadOther, Returns, Raises, Operation, OperationResult, Unsendable, Answer, process
<1>5. IsMap(mpc', Modules) /\ mpc'[m] = x /\ \A o \in Modules : o # m => mpc'[o] = mpc[o]
  BY <1>2, <1>4 DEF GwShape, IsMap
<1>6. IsMap(mreq', Modules) /\ \A o \in Modules : o # m => mreq'[o] = mreq[o]
  BY <1>2 DEF ReadRequest, ReadOther, process, Returns, Raises, Operation, OperationResult, Unsendable, Answer, GwShape, IsMap
<1>7. ASSUME IsMap(up', Conns), IsMap(down', Conns),
             \A d \in Conns : d # c => up'[d] = up[d] /\ down'[d] = down[d],
             c \in shutD => up'[c] = up[c],
             Orderly(c) => UpOK(c)' /\ InTurn(m, c)'
      PROVE  GatewayInv'
  <2>1. UpOK(c)'
    BY <1>2, <1>3, <1>7, ClosedUp
  <2> QED
    BY <1>0, <1>1, <1>3, <1>5, <1>6, <1>7, <2>1, GoesOn
<1>8. CASE ReadRequest(m)
  <2>1. /\ down' = Took(down, c) /\ up' = up /\ mpc[m] = "serve" /\ down[c] # <<>>
        /\ mpc'[m] = "handler" /\ mreq'[m] = Head(down[c]).id
    BY <1>1, <1>2, <1>8 DEF ReadRequest, GwShape, IsMap
  <2>2. /\ IsMap(down', Conns) /\ \A d \in Conns : d # c => down'[d] = down[d]
        /\ \A g : down[c] = <<g>> => down'[c] = <<>>
    BY <1>2, <2>1, TakesDown
  <2>3. ASSUME Orderly(c)
        PROVE  UpOK(c)' /\ InTurn(m, c)'
    <3>1. Called(m, c)
      BY <1>2, <2>1, <2>3 DEF InTurn, Greeting, Idling, Handling
    <3>2. mreq'[m] = Asked(c) /\ down'[c] = <<>>
      BY <2>1, <2>2, <3>1, OneFrame, SameFrame DEF Called
    <3> QED
      BY <1>3, <2>1, <3>1, <3>2 DEF Called, Handling, InTurn, Asked, UpOK
  <2> QED
    BY <1>2, <1>7, <2>1, <2>2, <2>3 DEF GwShape
<1>9. ASSUME NEW f, up' = ToDaemon(c, f), down' = down,
             \/ mpc'[m] = "serve" /\ f = Frame("response", mreq[m])
             \/ mpc'[m] = "serve" /\ f = Frame("error", mreq[m]) /\ mreq[m] \in raised'
             \/ mpc'[m] = "operation" /\ f = Frame("operation", mreq[m]) /\ mreq'[m] = mreq[m],
             mpc[m] = "handler"
      PROVE  GatewayInv'
  <2>1. /\ IsMap(up', Conns) /\ \A d \in Conns : d # c => up'[d] = up[d]
        /\ c \in shutD => up'[c] = up[c]
        /\ c \notin shutD /\ up[c] = <<>> => up'[c] = <<f>>
    BY <1>2, <1>9, Upwards
  <2>2. ASSUME Orderly(c)
        PROVE  UpOK(c)' /\ InTurn(m, c)'
    <3>1. Handling(m, c) /\ up[c] = <<>> /\ down[c] = <<>> /\ up'[c] = <<f>>
      BY <1>2, <1>9, <2>1, <2>2 DEF Orderly, InTurn, Greeting, Idling, Called, Handling
    <3>2. Asked(c)' = mreq[m] /\ holder'[c] # None /\ phase'[c] = "ready"
      BY <1>3, <3>1 DEF Handling, Asked
    <3>3. /\ mpc'[m] = "serve" => IsAnswer(c, up[c])'
          /\ mpc'[m] = "operation" => IsOperation(c, up[c])'
      BY <1>9, <3>1, <3>2 DEF IsAnswer, IsOperation
    <3>4. UpOK(c)'
      BY <1>9, <3>2, <3>3 DEF UpOK
    <3>5. InTurn(m, c)'
      BY <1>9, <3>1, <3>2, <3>3 DEF InTurn, Idling, Handling
    <3> QED
      BY <3>4, <3>5
  <2> QED
    BY <1>2, <1>7, <1>9, <2>1, <2>2 DEF GwShape
<1>10. CASE Returns(m)
  <2>1. /\ up' = ToDaemon(c, Frame("response", mreq[m])) /\ down' = down
        /\ mpc[m] = "handler" /\ mpc'[m] = "serve"
    BY <1>1, <1>2, <1>10 DEF Returns, Answer, GwShape, IsMap
  <2> QED
    BY <1>9, <2>1
<1>11. CASE Raises(m)
  <2>1. /\ up' = ToDaemon(c, Frame("error", mreq[m])) /\ down' = down
        /\ mpc[m] = "handler" /\ mpc'[m] = "serve" /\ mreq[m] \in raised'
    BY <1>1, <1>2, <1>11 DEF Raises, Answer, GwShape, IsMap
  <2> QED
    BY <1>9, <2>1
<1>12. CASE Operation(m)
  <2>1. /\ up' = ToDaemon(c, Frame("operation", mreq[m])) /\ down' = down
        /\ mpc[m] = "handler" /\ mpc'[m] = "operation" /\ mreq'[m] = mreq[m]
    BY <1>1, <1>2, <1>12 DEF Operation, GwShape, IsMap
  <2> QED
    BY <1>9, <2>1
<1>13. CASE Unsendable(m) /\ Lang[m] = "go"
  <2>1. up' = up /\ down' = down /\ mpc[m] = "handler" /\ mpc'[m] = "serve"
    BY <1>2, <1>13 DEF Unsendable, GwShape, IsMap
  <2>2. ASSUME Orderly(c)
        PROVE  UpOK(c)' /\ InTurn(m, c)'
    <3>1. Handling(m, c) /\ up[c] = <<>> /\ down[c] = <<>>
      BY <1>2, <2>1, <2>2 DEF InTurn, Greeting, Idling, Called, Handling
    <3> QED
      BY <1>3, <2>1, <3>1 DEF Handling, Idling, InTurn, UpOK
  <2> QED
    BY <1>2, <1>7, <2>1, <2>2 DEF GwShape
<1>14. CASE OperationResult(m)
  <2>1. /\ down' = Took(down, c) /\ up' = up /\ mpc[m] = "operation" /\ down[c] # <<>>
        /\ mpc'[m] = "handler" /\ mreq'[m] = mreq[m]
    BY <1>1, <1>2, <1>14 DEF OperationResult, GwShape, IsMap
  <2>2. /\ IsMap(down', Conns) /\ \A d \in Conns : d # c => down'[d] = down[d]
        /\ \A g : down[c] = <<g>> => down'[c] = <<>>
    BY <1>2, <2>1, TakesDown
  <2>3. ASSUME Orderly(c)
        PROVE  UpOK(c)' /\ InTurn(m, c)'
    <3>1. Handling(m, c) /\ up[c] = <<>> /\ down'[c] = <<>>
      BY <1>2, <2>1, <2>2, <2>3 DEF InTurn, Greeting, Idling, Called, Handling
    <3> QED
      BY <1>3, <2>1, <3>1 DEF Handling, InTurn, Asked, UpOK
  <2> QED
    BY <1>2, <1>7, <2>1, <2>2, <2>3 DEF GwShape
\* On an orderly connection a module in its loop is sent nothing but requests.
<1>15. CASE ReadOther(m)
  <2>1. /\ down' = Took(down, c) /\ mpc[m] = "serve" /\ down[c] # <<>> /\ Head(down[c]).type # "request"
    BY <1>1, <1>15 DEF ReadOther
  <2>2. PICK f : up' = ToDaemon(c, f)
    BY <1>1, <1>15 DEF ReadOther
  <2>3. /\ IsMap(up', Conns) /\ \A d \in Conns : d # c => up'[d] = up[d]
        /\ c \in shutD => up'[c] = up[c]
    BY <1>2, <2>2, Upwards
  <2>4. IsMap(down', Conns) /\ \A d \in Conns : d # c => down'[d] = down[d]
    BY <1>2, <2>1, TakesDown
  <2>5. ~Orderly(c)
    <3>1. ASSUME Orderly(c)
          PROVE  Called(m, c)
      BY <1>2, <2>1, <3>1 DEF InTurn, Greeting, Idling, Handling
    <3> QED
      BY <2>1, <3>1, OneFrame, SameFrame DEF Called
  <2> QED
    BY <1>7, <2>3, <2>4, <2>5
<1> QED
  BY <1>8, <1>10, <1>11, <1>12, <1>13, <1>14, <1>15

-----------------------------------------------------------------------------
(* The daemon's dispatching threads.                                         *)

\* A thread that holds no lock changes its mind: no connection takes notice.
LEMMA ThreadAlone ==
    ASSUME GatewayInv, NEW t \in Threads, dpc[t] # "wait", dpc'[t] # "wait",
           UNCHANGED <<phase, up, down, holder, shutD, shutM, stranded, crossed, mpc, mconn, mreq, raised>>,
           IsMap(dpc', Threads), IsMap(dconn', Threads), IsMap(dreq', Threads), IsMap(verdict', Threads),
           \A o \in Threads : o # t =>
             dpc'[o] = dpc[o] /\ dconn'[o] = dconn[o] /\ dreq'[o] = dreq[o] /\ verdict'[o] = verdict[o],
           dpc'[t] # "idle" => dconn'[t] \in Conns /\ phase[dconn'[t]] = "ready",
           verdict'[t] # "exception" \/ (verdict'[t] = verdict[t] /\ dreq'[t] = dreq[t]),
           current' \in Conns \cup {None}, (\A c \in Conns : Stage(c)') /\ NoOrphan'
    PROVE  GatewayInv'
<1>1. GwShape' /\ Unique'
  BY DEF GatewayInv, GwShape, Unique
<1>2. \A d \in Conns : Same(d)
  BY DEF GatewayInv, Lock, Same
<1>3. PICK c : c \notin Conns
  BY NobodyIsNone
<1>4. (\A d \in Conns : UpOK(d)') /\ (\A m \in Modules : Place(m)' /\ Exchange(m)')
  <2>1. \A m \in Modules : mpc'[m] # "out" => mconn'[m] # c
    BY <1>3 DEF GatewayInv, Place
  <2> QED
    BY <1>2, <1>3, <2>1, AtOneConn
<1>5. \A o \in Threads : ThreadOK(o)'
  BY DEF GatewayInv, ThreadOK
<1>6. \A d \in Conns : Lock(d)'
  BY DEF GatewayInv, Lock
<1> QED
  BY <1>1, <1>4, <1>5, <1>6 DEF GatewayInv

LEMMA ReadyToDispatch ==
    ASSUME GatewayInv, current # None
    PROVE  current \in Conns /\ phase[current] = "ready"
BY DEF GatewayInv, GwShape, Stage

LEMMA DispatchStep == ASSUME GatewayInv, NEW t \in Threads, Dispatch(t) PROVE GatewayInv'
<1>1. GwShape /\ dpc[t] = "idle" /\ current \in Conns \cup {None}
  BY DEF GatewayInv, GwShape, Dispatch
<1>2. /\ UNCHANGED <<phase, up, down, holder, shutD, shutM, stranded, crossed>>
      /\ UNCHANGED <<mpc, mconn, mreq, raised, current, doomed>>
  BY DEF Dispatch, daemon, process, wire
<1>3. (\A c \in Conns : Stage(c)') /\ NoOrphan'
  BY <1>2, StagesStay
<1>4. CASE current = None \/ current \in shutD
  <2>1. verdict' = [verdict EXCEPT ![t] = "unavailable"] /\ UNCHANGED <<dpc, dconn, dreq>>
    BY <1>4 DEF Dispatch
  <2>2. /\ IsMap(verdict', Threads) /\ verdict'[t] = "unavailable"
        /\ \A o \in Threads : o # t => verdict'[o] = verdict[o]
    BY <1>1, <2>1 DEF GwShape, IsMap
  <2>3. IsMap(dpc', Threads) /\ IsMap(dconn', Threads) /\ IsMap(dreq', Threads)
    BY <1>1, <2>1 DEF GwShape
  <2> QED
    BY <1>1, <1>2, <1>3, <2>1, <2>2, <2>3, ThreadAlone
<1>5. CASE ~(current = None \/ current \in shutD)
  <2>1. /\ dpc' = [dpc EXCEPT ![t] = "lock"] /\ dconn' = [dconn EXCEPT ![t] = current]
        /\ dreq' = [dreq EXCEPT ![t] = nextId] /\ verdict' = [verdict EXCEPT ![t] = "none"]
    BY <1>5 DEF Dispatch
  <2>2. /\ IsMap(dpc', Threads) /\ IsMap(dconn', Threads) /\ IsMap(dreq', Threads) /\ IsMap(verdict', Threads)
        /\ dpc'[t] = "lock" /\ dconn'[t] = current /\ verdict'[t] = "none"
        /\ \A o \in Threads : o # t =>
             dpc'[o] = dpc[o] /\ dconn'[o] = dconn[o] /\ dreq'[o] = dreq[o] /\ verdict'[o] = verdict[o]
    BY <1>1, <2>1 DEF GwShape, IsMap
  <2>3. current \in Conns /\ phase[current] = "ready"
    BY <1>5, ReadyToDispatch
  <2> QED
    BY <1>1, <1>2, <1>3, <2>2, <2>3, ThreadAlone
<1> QED
  BY <1>4, <1>5

LEMMA DropStep == ASSUME GatewayInv, NEW t \in Threads, Drop(t) PROVE GatewayInv'
<1>1. GwShape /\ dpc[t] = "drop" /\ current \in Conns \cup {None} /\ phase[dconn[t]] = "ready"
  BY DEF GatewayInv, GwShape, Drop, ThreadOK
<1>2. UNCHANGED <<phase, up, down, holder, shutD, shutM, stranded, crossed, mpc, mconn, mreq, raised>>
  BY DEF Drop, process, wire
<1>3. /\ dpc' = [dpc EXCEPT ![t] = "idle"] /\ dconn' = [dconn EXCEPT ![t] = None]
      /\ dreq' = [dreq EXCEPT ![t] = 0] /\ verdict' = [verdict EXCEPT ![t] = "unavailable"]
      /\ current' = AfterDrop(dconn[t]) /\ doomed' = doomed \cup {dconn[t]}
  BY DEF Drop
<1>4. /\ IsMap(dpc', Threads) /\ IsMap(dconn', Threads) /\ IsMap(dreq', Threads) /\ IsMap(verdict', Threads)
      /\ dpc'[t] = "idle" /\ verdict'[t] = "unavailable"
      /\ \A o \in Threads : o # t =>
           dpc'[o] = dpc[o] /\ dconn'[o] = dconn[o] /\ dreq'[o] = dreq[o] /\ verdict'[o] = verdict[o]
  BY <1>1, <1>3 DEF GwShape, IsMap
<1>5. (\A c \in Conns : Stage(c)') /\ NoOrphan' /\ current' \in Conns \cup {None}
  BY <1>1, <1>2, <1>3, NobodyIsNone DEF GatewayInv, Stage, NoOrphan, AfterDrop
<1> QED
  BY <1>1, <1>2, <1>4, <1>5, ThreadAlone

\* A thread takes or lets go the lock of its connection, or serves an
\* operation under it.
LEMMA AtItsConn ==
    ASSUME GatewayInv, NEW t \in Threads, NEW c \in Conns, c = dconn[t], phase[c] = "ready",
           dpc[t] # "idle", holder[c] \in {None, t},
           UNCHANGED <<current, doomed, phase, shutD, shutM, dreq, mpc, mconn, mreq, raised>>,
           stranded' \in {stranded, stranded \cup {c}}, crossed \subseteq crossed',
           IsMap(up', Conns), IsMap(down', Conns), IsMap(holder', Conns),
           \A d \in Conns : d # c => up'[d] = up[d] /\ down'[d] = down[d] /\ holder'[d] = holder[d],
           IsMap(dpc', Threads), IsMap(dconn', Threads), IsMap(verdict', Threads),
           \A o \in Threads : o # t => dpc'[o] = dpc[o] /\ dconn'[o] = dconn[o] /\ verdict'[o] = verdict[o],
           \/ holder'[c] = t /\ dpc'[t] = "wait" /\ dconn'[t] = c
           \/ holder'[c] = None /\ dpc'[t] = "drop" /\ dconn'[t] = c
           \/ holder'[c] = None /\ dpc'[t] = "idle",
           verdict'[t] = "exception" => verdict'[t] = verdict[t] \/ dreq[t] \in raised \cup crossed',
           UpOK(c)',
           \A m \in Modules : mpc[m] # "out" /\ mconn[m] = c /\ Orderly(c)' => InTurn(m, c)'
    PROVE  GatewayInv'
<1>1. GwShape' /\ Unique'
  BY DEF GatewayInv, GwShape, Unique
<1>2. \A d \in Conns : d # c => Same(d)
  BY DEF Same
<1>3. \A m \in Modules : mpc'[m] # "out" /\ mconn'[m] = c => Place(m)' /\ Exchange(m)'
  BY DEF GatewayInv, Place, Exchange
<1>4. (\A d \in Conns : UpOK(d)') /\ (\A m \in Modules : Place(m)' /\ Exchange(m)')
  BY <1>2, <1>3, AtOneConn
<1>5. \A o \in Threads : ThreadOK(o)'
  <2>1. ThreadOK(t)'
    BY DEF GatewayInv, ThreadOK
  <2>2. ASSUME NEW o \in Threads, o # t
        PROVE  ThreadOK(o)'
    <3>1. dpc[o] = "wait" => holder[dconn[o]] = o /\ dconn[o] \in Conns /\ o # None
      BY <2>2, NobodyIsNone DEF GatewayInv, ThreadOK
    <3> QED
      BY <2>2, <3>1 DEF GatewayInv, ThreadOK
  <2> QED
    BY <2>1, <2>2
<1>6. \A d \in Conns : Lock(d)'
  BY DEF GatewayInv, Lock
<1>7. (\A d \in Conns : Stage(d)') /\ NoOrphan'
  BY StagesStay
<1> QED
  BY <1>1, <1>4, <1>5, <1>6, <1>7 DEF GatewayInv

LEMMA EnterStep == ASSUME GatewayInv, NEW t \in Threads, Enter(t) PROVE GatewayInv'
<1>1. PICK c \in Conns : c = dconn[t]
  BY DEF GatewayInv, ThreadOK, Enter
<1>2. GwShape /\ UpOK(c) /\ phase[c] = "ready" /\ holder[c] = None /\ dpc[t] = "lock"
  BY <1>1 DEF GatewayInv, ThreadOK, Enter, MayEnter
<1>3. /\ UNCHANGED <<current, doomed, phase, shutD, shutM, stranded, crossed, dconn, dreq, verdict>>
      /\ UNCHANGED <<mpc, mconn, mreq, raised, up>>
  BY DEF Enter, process
<1>4. (c \notin stranded => up[c] = <<>>) /\ UpOK(c)'
  BY <1>2, <1>3 DEF UpOK, IsAnswer, IsOperation
<1>5. /\ IsMap(up', Conns) /\ IsMap(dconn', Threads) /\ IsMap(verdict', Threads)
      /\ IsMap(down, Conns) /\ IsMap(holder, Conns)
  BY <1>2, <1>3 DEF GwShape
<1>6. CASE c \notin shutD /\ down' = ToModule(c, Frame("request", dreq[t]))
           /\ holder' = [holder EXCEPT ![c] = t] /\ dpc' = [dpc EXCEPT ![t] = "wait"]
  <2>1. PICK f : f = Frame("request", dreq[t])
    OBVIOUS
  <2>2. /\ IsMap(down', Conns) /\ \A d \in Conns : d # c => down'[d] = down[d]
        /\ c \notin shutM /\ down[c] = <<>> => down'[c] = <<f>>
    BY <1>2, <1>6, <2>1, Downwards
  <2>3. IsMap(holder', Conns) /\ holder'[c] = t /\ \A d \in Conns : d # c => holder'[d] = holder[d]
    BY <1>2, <1>6 DEF GwShape, IsMap
  <2>4. IsMap(dpc', Threads) /\ dpc'[t] = "wait" /\ \A o \in Threads : o # t => dpc'[o] = dpc[o]
    BY <1>2, <1>6 DEF GwShape, IsMap
  <2>5. ASSUME NEW m \in Modules, mpc[m] # "out", mconn[m] = c, Orderly(c)'
        PROVE  InTurn(m, c)'
    <3>1. InTurn(m, c) /\ c \notin shutM /\ up[c] = <<>>
      BY <1>3, <1>4, <2>5, OnConn DEF Orderly
    <3>2. mpc[m] = "serve" /\ down[c] = <<>>
      BY <1>2, <3>1 DEF InTurn, Greeting, Idling, Called, Handling
    <3> QED
      BY <1>2, <1>3, <2>1, <2>2, <2>3, <3>1, <3>2, NobodyIsNone DEF InTurn, Called, Asked
  <2> QED
    BY <1>1, <1>2, <1>3, <1>4, <1>5, <2>2, <2>3, <2>4, <2>5, AtItsConn
<1>7. CASE dpc' = [dpc EXCEPT ![t] = "drop"] /\ UNCHANGED <<down, holder>>
  <2>1. IsMap(dpc', Threads) /\ dpc'[t] = "drop" /\ \A o \in Threads : o # t => dpc'[o] = dpc[o]
    BY <1>2, <1>7 DEF GwShape, IsMap
  <2>2. (\A d \in Conns : Stage(d)') /\ NoOrphan' /\ current' \in Conns \cup {None}
    BY <1>2, <1>3, StagesStay DEF GwShape
  <2>3. IsMap(dreq', Threads)
    BY <1>2, <1>3 DEF GwShape
  <2> QED
    BY <1>1, <1>2, <1>3, <1>5, <1>7, <2>1, <2>2, <2>3, ThreadAlone
<1> QED
  BY <1>1, <1>6, <1>7 DEF Enter

LEMMA ServeStep == ASSUME GatewayInv, NEW t \in Threads, Serve(t) PROVE GatewayInv'
<1>1. PICK c \in Conns : c = dconn[t]
  BY DEF GatewayInv, ThreadOK, Serve
<1>2. GwShape /\ UpOK(c) /\ phase[c] = "ready" /\ holder[c] = t /\ dpc[t] = "wait"
  BY <1>1 DEF GatewayInv, ThreadOK, Serve
<1>3. /\ UNCHANGED <<current, doomed, phase, shutD, shutM, crossed, dconn, dreq, verdict, mpc, mconn, mreq, raised>>
      /\ up' = Took(up, c) /\ up[c] # <<>> /\ Head(up[c]).type = "operation"
  BY <1>1 DEF Serve, process
<1>4. /\ IsMap(up', Conns) /\ \A d \in Conns : d # c => up'[d] = up[d]
      /\ \A g : up[c] = <<g>> => up'[c] = <<>>
  BY <1>2, <1>3, TakesUp
<1>5. IsMap(dconn', Threads) /\ IsMap(verdict', Threads)
  BY <1>2, <1>3 DEF GwShape
<1>6. CASE UNCHANGED <<dpc, holder, stranded>> /\ \E f : down' = ToModule(c, f)
  <2>1. PICK f : down' = ToModule(c, f)
    BY <1>6
  <2>2. /\ IsMap(down', Conns) /\ \A d \in Conns : d # c => down'[d] = down[d]
        /\ c \notin shutM /\ down[c] = <<>> => down'[c] = <<f>>
    BY <1>2, <2>1, Downwards
  <2>3. ~IsAnswer(c, up[c])
    BY <1>3, OneFrame, SameFrame DEF IsAnswer
  <2>4. c \notin stranded => IsOperation(c, up[c]) /\ up'[c] = <<>>
    BY <1>2, <1>3, <1>4, <2>3 DEF UpOK, IsOperation
  <2>5. ASSUME NEW m \in Modules, mpc[m] # "out", mconn[m] = c, Orderly(c)'
        PROVE  InTurn(m, c)'
    <3>1. InTurn(m, c) /\ c \notin shutM /\ IsOperation(c, up[c]) /\ up'[c] = <<>>
      BY <1>3, <1>6, <2>4, <2>5, OnConn DEF Orderly
    <3>2. Handling(m, c) /\ mpc[m] = "operation" /\ down[c] = <<>>
      BY <1>2, <1>3, <2>3, <3>1 DEF InTurn, Greeting, Idling, Called, Handling
    <3> QED
      BY <1>3, <1>6, <2>2, <3>1, <3>2 DEF InTurn, Handling, Asked
  <2>6. UpOK(c)' /\ IsMap(holder', Conns) /\ IsMap(dpc', Threads)
    BY <1>2, <1>3, <1>6, <2>4 DEF UpOK, GwShape
  <2> QED
    BY <1>1, <1>2, <1>3, <1>4, <1>5, <1>6, <2>2, <2>5, <2>6, AtItsConn
\* The reply is not written: the connection is stranded.
<1>7. CASE /\ dpc' = [dpc EXCEPT ![t] = "drop"] /\ holder' = Release(t)
           /\ stranded' = stranded \cup {c} /\ UNCHANGED down
  <2>1. IsMap(dpc', Threads) /\ dpc'[t] = "drop" /\ \A o \in Threads : o # t => dpc'[o] = dpc[o]
    BY <1>2, <1>7 DEF GwShape, IsMap
  <2>2. holder' = [holder EXCEPT ![c] = None]
    BY <1>1, <1>2, <1>7 DEF Release
  <2>3. IsMap(holder', Conns) /\ holder'[c] = None /\ \A d \in Conns : d # c => holder'[d] = holder[d]
    BY <1>2, <2>2 DEF GwShape, IsMap
  <2>4. IsMap(down', Conns) /\ \A d \in Conns : down'[d] = down[d]
    BY <1>2, <1>7 DEF GwShape
  <2>5. UpOK(c)' /\ ~Orderly(c)'
    BY <1>2, <1>3, <1>7 DEF UpOK, Orderly
  <2> QED
    BY <1>1, <1>2, <1>3, <1>4, <1>5, <1>7, <2>1, <2>3, <2>4, <2>5, AtItsConn
<1> QED
  BY <1>1, <1>6, <1>7 DEF Serve

\* The thread reads its answer, or finds the connection ended.
LEMMA LetGoStep == ASSUME GatewayInv, NEW t \in Threads, Read(t) \/ Broken(t) PROVE GatewayInv'
<1>1. PICK c \in Conns : c = dconn[t]
  BY DEF GatewayInv, ThreadOK, Read, Broken
<1>2. GwShape /\ UpOK(c) /\ phase[c] = "ready" /\ holder[c] = t /\ dpc[t] = "wait"
  BY <1>1 DEF GatewayInv, ThreadOK, Read, Broken
<1>3. /\ UNCHANGED <<current, doomed, phase, shutD, shutM, stranded, dreq, mpc, mconn, mreq, raised>>
      /\ holder' = [holder EXCEPT ![c] = None]
  BY <1>1, <1>2 DEF Read, Broken, Release, process, wire
<1>4. IsMap(holder', Conns) /\ holder'[c] = None /\ \A d \in Conns : d # c => holder'[d] = holder[d]
  BY <1>2, <1>3 DEF GwShape, IsMap
<1>5. CASE Read(t)
  <2>1. /\ up' = Took(up, c) /\ up[c] # <<>> /\ Head(up[c]).type \in {"response", "error"}
        /\ verdict' = [verdict EXCEPT ![t] = Decoded(t, Head(up[c]))]
        /\ dpc' = [dpc EXCEPT ![t] = "idle"] /\ dconn' = [dconn EXCEPT ![t] = None]
        /\ crossed' = IF c \in stranded THEN crossed \cup {dreq[t]} ELSE crossed
    BY <1>1, <1>5 DEF Read
  <2>2. /\ IsMap(verdict', Threads) /\ IsMap(dpc', Threads) /\ IsMap(dconn', Threads)
        /\ verdict'[t] = Decoded(t, Head(up[c])) /\ dpc'[t] = "idle"
        /\ \A o \in Threads : o # t => dpc'[o] = dpc[o] /\ dconn'[o] = dconn[o] /\ verdict'[o] = verdict[o]
    BY <1>2, <2>1 DEF GwShape, IsMap
  <2>3. ~IsOperation(c, up[c])
    BY <2>1, OneFrame, SameFrame DEF IsOperation
  <2>4. c \notin stranded => IsAnswer(c, up[c]) /\ Asked(c) = dreq[t]
    BY <1>2, <2>1, <2>3 DEF UpOK, Asked
  <2>5. /\ IsMap(up', Conns) /\ \A d \in Conns : d # c => up'[d] = up[d]
        /\ \A g : up[c] = <<g>> => up'[c] = <<>>
    BY <1>2, <2>1, TakesUp
  <2>6. UpOK(c)' /\ (c \notin stranded => up'[c] = <<>>)
    BY <1>2, <1>3, <2>4, <2>5 DEF IsAnswer, UpOK
  <2>7. verdict'[t] = "exception" => dreq[t] \in raised \cup crossed'
    <3>1. CASE c \in stranded
      BY <2>1, <3>1
    <3>2. CASE c \notin stranded
      BY <2>2, <2>4, <3>2, OneFrame DEF IsAnswer, Decoded
    <3> QED
      BY <3>1, <3>2
  <2>8. /\ IsMap(down', Conns) /\ \A d \in Conns : d # c => down'[d] = down[d]
        /\ c \notin stranded => down' = down
    <3>1. /\ c \notin stranded => down' = down
          /\ down' = down \/ down' = ToModule(c, Frame("error", 0))
      BY <1>1, <1>5, <2>4, OneFrame, SameFrame DEF Read, IsAnswer
    <3>2. CASE down' = down
      BY <1>2, <3>2 DEF GwShape
    <3>3. CASE down' = ToModule(c, Frame("error", 0))
      BY <1>2, <3>1, <3>3, Downwards
    <3> QED
      BY <3>1, <3>2, <3>3
  <2>9. ASSUME NEW m \in Modules, mpc[m] # "out", mconn[m] = c, Orderly(c)'
        PROVE  InTurn(m, c)'
    <3>1. InTurn(m, c) /\ c \notin stranded
      BY <1>3, <2>9, OnConn DEF Orderly
    <3>2. mpc[m] = "serve" /\ down[c] = <<>>
      BY <1>2, <2>1, <2>3, <3>1 DEF InTurn, Greeting, Idling, Called, Handling
    <3> QED
      BY <1>2, <1>3, <2>6, <2>8, <3>1, <3>2 DEF InTurn, Idling
  <2>10. crossed \subseteq crossed'
    BY <2>1
  <2> QED
    BY <1>1, <1>2, <1>3, <1>4, <2>2, <2>5, <2>6, <2>7, <2>8, <2>9, <2>10, AtItsConn
<1>6. CASE Broken(t)
  <2>1. /\ UNCHANGED <<up, down, crossed, dconn, verdict>> /\ dpc' = [dpc EXCEPT ![t] = "drop"]
        /\ up[c] = <<>> /\ c \in shutD \cup shutM
    BY <1>1, <1>6 DEF Broken, wire
  <2>2. IsMap(dpc', Threads) /\ dpc'[t] = "drop" /\ \A o \in Threads : o # t => dpc'[o] = dpc[o]
    BY <1>2, <2>1 DEF GwShape, IsMap
  <2>3. UpOK(c)' /\ IsMap(up', Conns) /\ IsMap(down', Conns) /\ IsMap(dconn', Threads) /\ IsMap(verdict', Threads)
    BY <1>2, <1>3, <2>1 DEF UpOK, GwShape
  <2>4. ASSUME NEW m \in Modules, mpc[m] # "out", mconn[m] = c, Orderly(c)'
        PROVE  InTurn(m, c)'
    BY <1>3, <2>1, <2>4, OnConn DEF Orderly
  <2> QED
    BY <1>1, <1>2, <1>3, <1>4, <2>1, <2>2, <2>3, <2>4, AtItsConn
<1> QED
  BY <1>5, <1>6

-----------------------------------------------------------------------------
LEMMA GatewayStep == GatewayInv /\ [GatewayNext]_gwvars => GatewayInv'
<1> SUFFICES ASSUME GatewayInv, [GatewayNext]_gwvars
             PROVE  GatewayInv'
  OBVIOUS
<1>1. ASSUME NEW c \in Conns, DaemonConn(c)
      PROVE  GatewayInv'
  BY <1>1, HelloStep, SettleStep, CloseStep DEF DaemonConn
<1>2. ASSUME NEW t \in Threads, Dispatch(t) \/ DaemonThread(t)
      PROVE  GatewayInv'
  BY <1>2, DispatchStep, EnterStep, LetGoStep, ServeStep, DropStep DEF DaemonThread
<1>3. ASSUME NEW m \in Modules, HandleRegister(m) \/ HandleRegisterResume(m)
      PROVE  GatewayInv'
  BY <1>3, AcknowledgeStep DEF HandleRegister, HandleRegisterResume, Told
<1>4. ASSUME NEW m \in Modules,
             RefusedByDaemon(m) \/ EndOfStream(m) \/ ModuleDies(m) \/ (Unsendable(m) /\ Lang[m] # "go")
      PROVE  GatewayInv'
  <2>1. mpc[m] # "out" /\ Leave(m) /\ raised \subseteq raised'
    BY <1>4 DEF RefusedByDaemon, Told, EndOfStream, ModuleDies, Unsendable
  <2>2. /\ UNCHANGED <<current, doomed, phase, shutD, holder, stranded>>
        /\ UNCHANGED <<dpc, dconn, dreq, verdict, crossed, up>>
    BY <1>4 DEF RefusedByDaemon, EndOfStream, ModuleDies, Unsendable, daemon, caller
  <2> QED
    BY <2>1, <2>2, LeaveStep
<1>5. ASSUME NEW m \in Modules, ModuleStep(m)
      PROVE  GatewayInv'
  BY <1>3, <1>4, <1>5, HandlerStep DEF ModuleStep, Handler
<1>6. ASSUME NEW m \in Modules, NEW c \in Conns, NEW fits \in BOOLEAN, Connect(m, c, fits)
      PROVE  GatewayInv'
  BY <1>6, ConnectStep
<1>7. CASE StopGateway
  BY <1>7, CloseStep
<1>8. CASE UNCHANGED gwvars
  <2>1. /\ UNCHANGED <<current, doomed, phase, up, down, shutD, shutM, holder, stranded, crossed>>
        /\ UNCHANGED <<dpc, dconn, dreq, verdict, mpc, mconn, mreq, raised>>
    BY <1>8 DEF gwvars
  <2>2. (\A t \in Threads : ThreadOK(t)') /\ (\A c \in Conns : Lock(c)')
    BY <2>1, ThreadsStay
  <2>3. (\A c \in Conns : Stage(c)') /\ NoOrphan'
    BY <2>1, StagesStay
  <2>4. GwShape' /\ Unique'
    BY <2>1 DEF GatewayInv, GwShape, Unique
  <2>5. (\A c \in Conns : UpOK(c)') /\ (\A m \in Modules : Place(m)' /\ Exchange(m)')
    <3>1. \A d : Same(d)
      BY <2>1 DEF Same
    <3> QED
      BY <2>1, <3>1, SameConn, SameModule DEF GatewayInv
  <2> QED
    BY <2>2, <2>3, <2>4, <2>5 DEF GatewayInv
<1> QED
  BY <1>1, <1>2, <1>4, <1>5, <1>6, <1>7, <1>8 DEF GatewayNext

(* server/gateway.py, dispatch and _decode_response_frame: a dispatch that
   is told its handler failed asked for the request whose handler raised, or
   was answered on a connection on which an earlier dispatch could not write
   the reply to an operation, under any interleaving of threads, failing
   writes, closures, deaths and replacements of modules, whatever runtime
   they are. *)
THEOREM NobodyElsesFailure == GatewayInit /\ [][GatewayNext]_gwvars => []FailsForItsOwn
<1>1. GatewayInv => FailsForItsOwn
  BY DEF GatewayInv, ThreadOK, FailsForItsOwn
<1> QED
  BY <1>1, InitGateway, GatewayStep, PTL

(* _handle_connection, _drop_module and stop: a registered module is in
   service, closed, or about to be. *)
THEOREM NoneForgotten == GatewayInit /\ [][GatewayNext]_gwvars => []NoOrphan
<1>1. GatewayInv => NoOrphan
  BY DEF GatewayInv
<1> QED
  BY <1>1, InitGateway, GatewayStep, PTL
=============================================================================
