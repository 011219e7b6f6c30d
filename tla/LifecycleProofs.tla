---------------------------- MODULE LifecycleProofs ----------------------------
(***************************************************************************)
(* Theorems about AgentLifecycle for any set of connection threads, any    *)
(* number of requests and any number of deaths of the daemon.              *)
(*                                                                         *)
(* What the properties say of methods that come one at a time is inductive *)
(* only together with where the one thread in flight stands: what its      *)
(* handle leads to, what the temporary file holds, and that memory already *)
(* has the status it is saving.                                            *)
(***************************************************************************)
EXTENDS AgentLifecycle, TLAPS

AfterSet == {"serialize", "open", "write", "replace", "clean", "hook", "emit", "respond"}

\* At most one lifecycle method is in flight.
Alone == \A t, u \in Threads : InFlight(t) /\ InFlight(u) => t = u

\* A save in progress has the temporary file to itself.
OwnFile ==
    \A t \in Threads :
        /\ handle[t] = (IF at[t] = "write" THEN "spare" ELSE "closed")
        /\ at[t] = "write" => spare = Empty
        /\ at[t] = "replace" /\ spared => spare = Holding(text[t])
        /\ at[t] \in {"open", "write", "replace"} => ~saved[t]

\* ... and writes the status the method set.
OwnStatus ==
    \A t \in Threads :
        /\ at[t] \in AfterSet => status = Target[op[t]]
        /\ at[t] \in {"open", "write", "replace"} => text[t] = Target[op[t]]

\* The document is that of the last transition saved.
OnDisk ==
    /\ \A t \in Threads : Saved(t) => document = Holding(Target[op[t]])
    /\ (\A t \in Threads : ~Saved(t)) => document = Holding(kept)

\* An agent out of service is so in memory, and nothing is on its way to it.
OutIsOut ==
    kept \in OutOfService => status = kept /\ \A t \in Threads : ~InFlight(t)

Serial == hosted /\ Alone /\ OwnFile /\ OwnStatus /\ OnDisk /\ OutIsOut

IInv == TypeOK /\ (~crossed => Serial)

\* Every method leaves the agent in a known status.
LEMMA TargetType == \A o \in Lifecycle : Target[o] \in Statuses
  BY DEF Target, Lifecycle, Statuses, Size

\* Every status has a size, and a document that holds it is a file.
LEMMA SizeType == \A s \in Statuses : Size[s] \in Nat /\ s \in Texts /\ Holding(s) \in Files
<1>1. \A s \in Statuses : Size[s] \in Nat
  BY DEF Statuses, Size
<1>. QED  BY <1>1 DEF Texts, Files, Holding

\* Writing a text over a file makes a file, and over an empty one a document.
LEMMA OverType ==
  ASSUME NEW f \in Files, NEW s \in Statuses
  PROVE  /\ Over(f, s) \in Files
         /\ f = Empty => Over(f, s) = Holding(s)
<1>1. Size[s] \in Nat /\ s \in Texts
  BY SizeType
<1>2. f.size \in Nat
  BY DEF Files
<1>3. Over(f, s) \in Files
  BY <1>1, <1>2 DEF Over, Files
<1>4. f = Empty => Over(f, s) = Holding(s)
  BY <1>1 DEF Over, Empty, Holding
<1>. QED  BY <1>3, <1>4

\* Each readable text is readable as exactly one status.
LEMMA HoldingInjective ==
  \A s \in Statuses : Readable(Holding(s)) /\ Holding(s).front = s
  BY DEF Readable, Holding

LEMMA FilesNonempty == Empty \in Files
  BY DEF Empty, Files, Texts

---------------------------------------------------------------------------
\* Every step of a thread, and every death of the daemon, keeps the types
\* (all of the handler's assignments).
LEMMA TypeStep ==
  ASSUME TypeOK, [Next]_vars
  PROVE  TypeOK'
<1>. USE LifecycleAssumption
<1>1. CASE UNCHANGED vars
  BY <1>1 DEF TypeOK, vars, memory, disk, effects, request, saving, bounds, history, InFlight
<1>2. CASE Crash
  <2>1. status' \in Statuses
    <3>1. ASSUME Readable(document) PROVE document.front \in Statuses
      <4>1. PICK s \in Statuses : document = Holding(s)
        BY <3>1 DEF Readable
      <4>. QED  BY <4>1, HoldingInjective
    <3>. QED  BY <1>2, <3>1 DEF Crash, TypeOK
  <2>2. kept' \in Statuses
    <3>1. \A t \in Threads : Saved(t) => op[t] \in Lifecycle
      BY DEF TypeOK, Saved, InFlight
    <3>. QED  BY <1>2, <3>1, TargetType DEF Crash, TypeOK
  <2>3. hosted' \in BOOLEAN /\ faulty' \in BOOLEAN
    BY <1>2 DEF Crash, Readable, TypeOK
  <2>4. at' \in [Threads -> Labels] /\ \A t \in Threads : ~InFlight(t)'
    BY <1>2 DEF Crash, InFlight, Labels
  <2>5. handle' \in [Threads -> {"closed", "spare", "document", "unlinked"}]
    BY <1>2 DEF Crash
  <2>. QED
    BY <1>2, <2>1, <2>2, <2>3, <2>4, <2>5 DEF Crash, TypeOK, effects
<1>3. ASSUME NEW t \in Threads, Step(t) PROVE TypeOK'
  <2>. USE DEF TypeOK
  <2>1. ASSUME NEW o \in Operations, Serve(t, o) PROVE TypeOK'
    BY <2>1 DEF Serve, Goto, Labels, InFlight, memory, disk, effects, saving, history
  <2>2. ASSUME NEW o \in Operations, NEW c \in Callers, Admit(t, o, c) PROVE TypeOK'
    BY <2>2 DEF Admit, Goto, Labels, InFlight, memory, disk, effects, saving
  <2>3. CASE Served(t) \/ Denied(t) \/ NoOp(t)
    <3>1. /\ op' = [op EXCEPT ![t] = "QUERY"]
          /\ caller' = [caller EXCEPT ![t] = "stranger"]
          /\ previous' = [previous EXCEPT ![t] = Written]
          /\ at' = [at EXCEPT ![t] = "idle"]
          /\ UNCHANGED <<memory, disk, effects, saving, bounds, history>>
      BY <2>3 DEF Served, Denied, NoOp, Return, Goto
    <3>2. /\ op' \in [Threads -> Lifecycle \cup Introspection \cup {"QUERY"}]
          /\ caller' \in [Threads -> {"issuer", "stranger"}]
          /\ previous' \in [Threads -> Statuses]
          /\ at' \in [Threads -> Labels]
      BY <3>1 DEF Labels
    <3>3. ASSUME NEW u \in Threads, InFlight(u)' PROVE op'[u] \in Lifecycle
      <4>1. u # t
        BY <3>1, <3>3 DEF InFlight
      <4>. QED  BY <3>1, <3>3, <4>1 DEF InFlight
    <3>. QED  BY <3>1, <3>2, <3>3 DEF memory, disk, effects, saving, bounds, history
  <2>4. CASE ReadStatus(t)
    BY <2>4 DEF ReadStatus, Goto, Labels, InFlight, memory, disk, effects, saving,
                bounds, history
  <2>5. CASE SetStatus(t)
    <3>1. op[t] \in Lifecycle
      BY <2>5 DEF SetStatus, InFlight
    <3>. QED  BY <2>5, <3>1, TargetType
         DEF SetStatus, Goto, Labels, InFlight, disk, effects, request, saving, bounds, history
  <2>6. CASE Serialize(t)
    BY <2>6 DEF Serialize, Goto, Labels, InFlight, memory, disk, effects, request,
                bounds, history
  <2>7. CASE Open(t)
    BY <2>7, FilesNonempty
    DEF Open, Goto, Labels, InFlight, memory, effects, request, saving, bounds, history
  <2>8. CASE Write(t)
    <3>1. Over(document, text[t]) \in Files /\ Over(spare, text[t]) \in Files
      BY OverType
    <3>. QED  BY <2>8, <3>1
         DEF Write, Goto, Labels, InFlight, memory, effects, request, saving, bounds, history
  <2>9. CASE Replace(t)
    <3>1. \A u \in Threads : Renamed(handle[u]) \in {"closed", "spare", "document", "unlinked"}
      BY DEF Renamed
    <3>. QED  BY <2>9, <3>1
         DEF Replace, Goto, Labels, InFlight, memory, effects, request, bounds, history
  <2>10. CASE SaveFails(t)
    BY <2>10 DEF SaveFails, Goto, Labels, InFlight, memory, effects, request, saving, bounds
  <2>11. CASE Clean(t)
    <3>1. \A u \in Threads : Unlinked(handle[u]) \in {"closed", "spare", "document", "unlinked"}
      BY DEF Unlinked
    <3>. QED  BY <2>11, <3>1
         DEF Clean, Goto, Labels, InFlight, memory, effects, request, saving, bounds, history
  <2>12. CASE Hook(t) \/ HookFails(t) \/ EmitFails(t)
    BY ZenonT(60), <2>12 DEF Hook, HookFails, EmitFails, Goto, Labels, InFlight, memory, disk, effects,
                 request, saving, bounds, history
  <2>13. CASE Emit(t)
    <3>1. op[t] \in Lifecycle
      BY <2>13 DEF Emit, InFlight
    <3>2. [from |-> previous[t], to |-> Target[op[t]]] \in [from : Statuses, to : Statuses]
      BY <3>1, TargetType
    <3>. QED  BY <2>13, <3>2
         DEF Emit, Goto, Labels, InFlight, memory, disk, request, saving, bounds, history
  <2>14. CASE Respond(t)
    <3>1. op[t] \in Lifecycle
      BY <2>14 DEF Respond, InFlight
    <3>. QED  BY <2>14, <3>1, TargetType
         DEF Respond, Return, Goto, Labels, InFlight, memory, disk, effects, bounds
  <2>. QED
    BY <1>3, <2>1, <2>2, <2>3, <2>4, <2>5, <2>6, <2>7, <2>8, <2>9, <2>10, <2>11, <2>12,
       <2>13, <2>14 DEF Step
<1>. QED  BY <1>1, <1>2, <1>3 DEF Next

LEMMA TypeInit == Init => TypeOK
<1>. SUFFICES ASSUME Init PROVE TypeOK
  OBVIOUS
<1>1. Holding(Written) \in Files
  BY LifecycleAssumption, SizeType
<1>2. Written \in Statuses
  BY LifecycleAssumption
<1>3. stream \in Seq([from : Statuses, to : Statuses])
  BY DEF Init
<1>4. at \in [Threads -> Labels] /\ \A t \in Threads : ~InFlight(t)
  BY DEF Init, InFlight, Labels
<1>5. /\ op \in [Threads -> Lifecycle \cup Introspection \cup {"QUERY"}]
      /\ caller \in [Threads -> {"issuer", "stranger"}]
      /\ handle \in [Threads -> {"closed", "spare", "document", "unlinked"}]
  BY DEF Init
<1>6. /\ previous \in [Threads -> Statuses]
      /\ text \in [Threads -> Statuses]
      /\ saved \in [Threads -> BOOLEAN]
  BY <1>2 DEF Init
<1>7. /\ status \in Statuses /\ kept \in Statuses
      /\ document \in Files /\ spare \in Files
      /\ admitted \in Nat /\ crashes \in Nat
  BY <1>1, <1>2, FilesNonempty DEF Init
<1>8. /\ hosted \in BOOLEAN /\ spared \in BOOLEAN /\ listed \in BOOLEAN
      /\ crossed \in BOOLEAN /\ faulty \in BOOLEAN
  BY DEF Init
<1>. QED  BY <1>3, <1>4, <1>5, <1>6, <1>7, <1>8 DEF TypeOK

\* Every reachable state of the lifecycle is well typed (TypeOK).
THEOREM TypeCorrect == Spec => []TypeOK
  BY TypeInit, TypeStep, PTL DEF Spec

---------------------------------------------------------------------------
\* A thread before its save, or after an answer, has saved nothing.
LEMMA SavedInFlight == \A t \in Threads : Saved(t) => InFlight(t)
  BY DEF Saved, InFlight

\* When the one thread in flight takes a step and stays in flight, every other
\* is still outside of a lifecycle method.
LEMMA OthersOutside ==
  ASSUME Alone, NEW t \in Threads, InFlight(t)
  PROVE  \A u \in Threads : u # t => at[u] \in {"idle", "serving"} /\ ~Saved(u)
  BY DEF Alone, InFlight, Saved

\* A request that passes the gate without being a lifecycle method, and its
\* answer, touch nothing a transition relies on (Serve, Served).
LEMMA QuietStep ==
  ASSUME TypeOK, Serial, NEW t \in Threads,
         (\E o \in Operations : Serve(t, o)) \/ Served(t) \/ Denied(t) \/ NoOp(t)
  PROVE  Serial'
<1>. DEFINE l == IF \E o \in Operations : Serve(t, o) THEN "serving" ELSE "idle"
<1>1. /\ at' = [at EXCEPT ![t] = l]
      /\ at[t] \in {"idle", "serving", "authorize"}
      /\ UNCHANGED <<memory, disk, text, saved, kept>>
  BY DEF Serve, Served, Denied, NoOp, Return, Goto, saving, history
<1>2. \A u \in Threads : u # t => op'[u] = op[u]
  BY DEF Serve, Served, Denied, NoOp, Return, TypeOK
<1>3. /\ at'[t] \in {"idle", "serving"}
      /\ \A u \in Threads : u # t => at'[u] = at[u]
  BY <1>1 DEF TypeOK
<1>4. ~Saved(t) /\ ~Saved(t)' /\ ~InFlight(t)'
  BY <1>1, <1>3 DEF Saved, InFlight
<1>5. \A u \in Threads : u # t => (Saved(u)' <=> Saved(u)) /\ (InFlight(u)' <=> InFlight(u))
  BY <1>1, <1>3 DEF Saved, InFlight
<1>6. hosted' /\ Alone'
  BY <1>1, <1>4, <1>5 DEF Serial, Alone, memory
<1>7. OwnFile'
  BY <1>1, <1>3 DEF Serial, OwnFile, disk
<1>8. OwnStatus'
  BY <1>1, <1>2, <1>3 DEF Serial, OwnStatus, AfterSet, memory
<1>9. OnDisk'
  BY <1>1, <1>2, <1>4, <1>5 DEF Serial, OnDisk, disk
<1>10. OutIsOut'
  BY <1>1, <1>4, <1>5 DEF Serial, OutIsOut, memory
<1>. QED  BY <1>6, <1>7, <1>8, <1>9, <1>10 DEF Serial

\* A lifecycle method is admitted only while none is in flight, and only to an
\* agent in service (Admit).
LEMMA AdmitStep ==
  ASSUME TypeOK, Serial, NEW t \in Threads, NEW o, NEW c, Admit(t, o, c), ~crossed'
  PROVE  Serial'
<1>1. /\ at' = [at EXCEPT ![t] = "authorize"]
      /\ at[t] = "idle"
      /\ op' = [op EXCEPT ![t] = o]
      /\ UNCHANGED <<memory, disk, text, saved, kept>>
      /\ status \notin OutOfService
      /\ \A u \in Threads : ~InFlight(u)
  BY DEF Admit, Goto, saving, Passes, Lifecycle, Target, Introspection
<1>2. /\ at'[t] = "authorize"
      /\ \A u \in Threads : u # t => at'[u] = at[u] /\ op'[u] = op[u]
  BY <1>1 DEF TypeOK
<1>3. \A u \in Threads : ~Saved(u) /\ ~Saved(u)'
  BY <1>1, <1>2, SavedInFlight DEF Saved, InFlight
<1>4. hosted' /\ Alone'
  BY <1>1, <1>2 DEF Serial, Alone, InFlight, memory
<1>5. OwnFile'
  BY <1>1, <1>2 DEF Serial, OwnFile, disk
<1>6. OwnStatus'
  BY <1>1, <1>2 DEF Serial, OwnStatus, AfterSet, memory
<1>7. OnDisk'
  BY <1>1, <1>3 DEF Serial, OnDisk, disk
<1>8. OutIsOut'
  BY <1>1 DEF Serial, OutIsOut, memory
<1>. QED  BY <1>4, <1>5, <1>6, <1>7, <1>8 DEF Serial

---------------------------------------------------------------------------
\* A step of the one thread in flight that stays in flight.  What it has to
\* show is what concerns that thread and the two files (every action of
\* _lifecycle_transition but the first and the last).
LEMMA InFlightStep ==
  ASSUME TypeOK, Serial, NEW t \in Threads, NEW l \in AfterSet \cup {"set"},
         InFlight(t), at' = [at EXCEPT ![t] = l],
         UNCHANGED <<hosted, op, kept>>,
         \A u \in Threads : u # t => handle'[u] = handle[u],
         \A u \in Threads : u # t => saved'[u] = saved[u],
         handle'[t] = (IF l = "write" THEN "spare" ELSE "closed"),
         l = "write" => spare' = Empty,
         l = "replace" /\ spared' => spare' = Holding(text'[t]),
         l \in {"open", "write", "replace"} => ~saved'[t],
         l \in AfterSet => status' = Target[op[t]],
         l \in {"open", "write", "replace"} => text'[t] = Target[op[t]],
         document' = (IF Saved(t)' THEN Holding(Target[op[t]]) ELSE Holding(kept))
  PROVE  Serial'
<1>1. /\ at'[t] = l
      /\ \A u \in Threads : u # t => at'[u] = at[u]
  BY DEF TypeOK
<1>2. \A u \in Threads : u # t => at[u] \in {"idle", "serving"} /\ ~Saved(u)
  BY OthersOutside DEF Serial
<1>3. \A u \in Threads : u # t => at'[u] \in {"idle", "serving"} /\ ~Saved(u)' /\ ~InFlight(u)'
  BY <1>1, <1>2 DEF Saved, InFlight
<1>4. hosted' /\ Alone'
  BY <1>3 DEF Serial, Alone
<1>5. OwnFile'
  BY <1>1, <1>2, <1>3 DEF Serial, OwnFile
<1>6. OwnStatus'
  BY <1>1, <1>3 DEF OwnStatus, AfterSet
<1>7. OnDisk'
  BY <1>3 DEF OnDisk
<1>8. kept \notin OutOfService
  BY DEF Serial, OutIsOut
<1>9. OutIsOut'
  BY <1>8 DEF OutIsOut
<1>. QED  BY <1>4, <1>5, <1>6, <1>7, <1>9 DEF Serial

\* The steps of a transition up to its answer keep the document, the file and
\* the status in line.
LEMMA TransitionStep ==
  ASSUME TypeOK, Serial, NEW t \in Threads,
         \/ ReadStatus(t) \/ SetStatus(t) \/ Serialize(t) \/ Open(t) \/ Write(t)
         \/ Replace(t) \/ SaveFails(t) \/ Clean(t)
         \/ Hook(t) \/ HookFails(t) \/ Emit(t) \/ EmitFails(t)
  PROVE  Serial'
<1>. DEFINE Disk == IF Saved(t) THEN Holding(Target[op[t]]) ELSE Holding(kept)
<1>1. InFlight(t)
  BY DEF ReadStatus, SetStatus, Serialize, Open, Write, Replace, SaveFails, Clean, Hook,
         HookFails, Emit, EmitFails, InFlight
<1>2. \A u \in Threads : u # t => at[u] \in {"idle", "serving"} /\ ~Saved(u)
  BY <1>1, OthersOutside DEF Serial
<1>3. document = Disk
  BY <1>2 DEF Serial, OnDisk
<1>4. \A u \in Threads : u # t => handle[u] = "closed"
  BY <1>2 DEF Serial, OwnFile
<1>5. /\ handle[t] = (IF at[t] = "write" THEN "spare" ELSE "closed")
      /\ at[t] = "write" => spare = Empty
      /\ at[t] = "replace" /\ spared => spare = Holding(text[t])
      /\ at[t] \in {"open", "write", "replace"} => ~saved[t]
      /\ at[t] \in AfterSet => status = Target[op[t]]
      /\ at[t] \in {"open", "write", "replace"} => text[t] = Target[op[t]]
  BY DEF Serial, OwnFile, OwnStatus
<1>6. op[t] \in Lifecycle /\ text[t] \in Statuses
  BY <1>1 DEF TypeOK
<1>7. at \in [Threads -> Labels] /\ saved \in [Threads -> BOOLEAN]
      /\ handle \in [Threads -> {"closed", "spare", "document", "unlinked"}]
      /\ text \in [Threads -> Statuses]
  BY DEF TypeOK
<1>8. CASE ReadStatus(t)
  <2>1. ~Saved(t) /\ ~Saved(t)'
    BY <1>8, <1>7 DEF ReadStatus, Goto, Saved
  <2>. QED  BY <1>8, <1>1, <1>3, <1>5, <2>1, InFlightStep
       DEF ReadStatus, Goto, memory, disk, saving, history, AfterSet
<1>9. CASE SetStatus(t)
  <2>1. ~Saved(t) /\ ~Saved(t)'
    BY <1>9, <1>7 DEF SetStatus, Goto, Saved
  <2>. QED  BY <1>9, <1>1, <1>3, <1>5, <2>1, InFlightStep
       DEF SetStatus, Goto, disk, request, saving, history, AfterSet
<1>10. CASE Serialize(t)
  <2>1. ~Saved(t) /\ ~Saved(t)'
    BY <1>10, <1>7 DEF Serialize, Goto, Saved
  <2>2. /\ text'[t] = status
        /\ ~saved'[t]
        /\ \A u \in Threads : u # t => saved'[u] = saved[u]
    BY <1>10, <1>7 DEF Serialize
  <2>. QED  BY <1>10, <1>1, <1>3, <1>5, <2>1, <2>2, InFlightStep
       DEF Serialize, Goto, memory, disk, request, history, AfterSet
<1>11. CASE Open(t)
  <2>1. ~Saved(t) /\ ~Saved(t)'
    BY <1>11, <1>7 DEF Open, Goto, Saved
  <2>2. /\ handle'[t] = "spare"
        /\ \A u \in Threads : u # t => handle'[u] = handle[u]
    BY <1>11, <1>7 DEF Open
  <2>. QED  BY <1>11, <1>1, <1>3, <1>5, <2>1, <2>2, InFlightStep
       DEF Open, Goto, memory, request, saving, history, AfterSet
<1>12. CASE Write(t)
  <2>1. ~Saved(t) /\ ~Saved(t)'
    BY <1>12, <1>7 DEF Write, Goto, Saved
  <2>2. /\ handle'[t] = "closed"
        /\ \A u \in Threads : u # t => handle'[u] = handle[u]
    BY <1>12, <1>7 DEF Write
  <2>3. document' = document /\ spare' = Holding(text[t])
    BY <1>12, <1>5, <1>6, FilesNonempty, OverType DEF Write
  <2>. QED  BY <1>12, <1>1, <1>3, <1>5, <2>1, <2>2, <2>3, InFlightStep
       DEF Write, Goto, memory, request, saving, history, AfterSet
<1>13. CASE Replace(t)
  <2>1. Saved(t)'
    BY <1>13, <1>7 DEF Replace, Goto, Saved
  <2>2. \A u \in Threads : handle'[u] = "closed"
    BY <1>13, <1>4, <1>5 DEF Replace, Renamed
  <2>3. document' = Holding(Target[op[t]])
    BY <1>13, <1>5 DEF Replace
  <2>4. \A u \in Threads : u # t => saved'[u] = saved[u]
    BY <1>13, <1>7 DEF Replace
  <2>. QED  BY <1>13, <1>1, <1>4, <1>5, <2>1, <2>2, <2>3, <2>4, InFlightStep
       DEF Replace, Goto, memory, request, history, AfterSet
<1>14. CASE SaveFails(t)
  <2>1. ~Saved(t) /\ ~Saved(t)'
    BY <1>14, <1>5, <1>7 DEF SaveFails, Goto, Saved, saving
  <2>2. /\ handle'[t] = "closed"
        /\ \A u \in Threads : u # t => handle'[u] = handle[u]
    BY <1>14, <1>7 DEF SaveFails
  <2>. QED  BY <1>14, <1>1, <1>3, <1>5, <2>1, <2>2, InFlightStep
       DEF SaveFails, Goto, memory, request, saving, AfterSet
<1>15. CASE Clean(t)
  <2>1. Saved(t)' <=> Saved(t)
    BY <1>15, <1>7 DEF Clean, Goto, Saved, saving
  <2>2. \A u \in Threads : handle'[u] = "closed"
    BY <1>15, <1>4, <1>5 DEF Clean, Unlinked
  <2>. QED  BY <1>15, <1>1, <1>3, <1>4, <1>5, <2>1, <2>2, InFlightStep
       DEF Clean, Goto, memory, request, saving, history, AfterSet
<1>16. CASE Hook(t) \/ HookFails(t)
  <2>1. Saved(t)' <=> Saved(t)
    BY <1>16, <1>7 DEF Hook, HookFails, Goto, Saved, saving
  <2>. QED  BY <1>16, <1>1, <1>3, <1>5, <2>1, InFlightStep
       DEF Hook, HookFails, Goto, memory, disk, request, saving, history, AfterSet
<1>17. CASE Emit(t) \/ EmitFails(t)
  <2>1. Saved(t)' <=> Saved(t)
    BY <1>17, <1>7 DEF Emit, EmitFails, Goto, Saved, saving
  <2>. QED  BY <1>17, <1>1, <1>3, <1>5, <2>1, InFlightStep
       DEF Emit, EmitFails, Goto, memory, disk, request, saving, history, AfterSet
<1>. QED
  BY <1>8, <1>9, <1>10, <1>11, <1>12, <1>13, <1>14, <1>15, <1>16, <1>17

\* An answer makes a saved transition the one to keep, and leaves nobody in
\* flight (Respond).
LEMMA RespondStep ==
  ASSUME TypeOK, Serial, NEW t \in Threads, Respond(t)
  PROVE  Serial'
<1>1. /\ at[t] = "respond" /\ InFlight(t)
      /\ at' = [at EXCEPT ![t] = "idle"]
      /\ kept' = (IF saved[t] THEN Target[op[t]] ELSE kept)
      /\ UNCHANGED <<status, hosted, document, spare, spared, handle>>
  BY DEF Respond, Return, InFlight, Goto, memory, disk
<1>2. \A u \in Threads : u # t => at[u] \in {"idle", "serving"} /\ ~Saved(u)
  BY <1>1, OthersOutside DEF Serial
<1>3. /\ at'[t] = "idle"
      /\ \A u \in Threads : u # t => at'[u] = at[u]
  BY <1>1 DEF TypeOK
<1>4. \A u \in Threads : ~InFlight(u)' /\ ~Saved(u)'
  BY <1>2, <1>3 DEF InFlight, Saved
<1>5. hosted' /\ Alone'
  BY <1>1, <1>4 DEF Serial, Alone
<1>6. OwnFile'
  BY <1>1, <1>2, <1>3 DEF Serial, OwnFile
<1>7. OwnStatus'
  BY <1>1, <1>2, <1>3 DEF OwnStatus, AfterSet
<1>8. document = (IF saved[t] THEN Holding(Target[op[t]]) ELSE Holding(kept))
  BY <1>1, <1>2 DEF Serial, OnDisk, Saved
<1>9. OnDisk'
  BY <1>1, <1>4, <1>8 DEF OnDisk
<1>10. status = Target[op[t]] /\ kept \notin OutOfService
  BY <1>1 DEF Serial, OwnStatus, OutIsOut, AfterSet
<1>11. OutIsOut'
  BY <1>1, <1>4, <1>10 DEF OutIsOut
<1>. QED  BY <1>5, <1>6, <1>7, <1>9, <1>11 DEF Serial

\* The daemon that comes back has the document of the last transition saved
\* (Crash).
LEMMA CrashStep ==
  ASSUME TypeOK, Serial, Crash
  PROVE  Serial'
<1>1. /\ \A u \in Threads : at'[u] = "idle" /\ handle'[u] = "closed"
      /\ document' = document
  BY DEF Crash
<1>2. \A u \in Threads : ~InFlight(u)' /\ ~Saved(u)'
  BY <1>1 DEF InFlight, Saved
<1>3. kept' \in Statuses /\ document = Holding(kept')
  <2>1. CASE \E t \in Threads : Saved(t)
    <3>1. PICK t \in Threads : Saved(t) /\ kept' = Target[op[t]]
      BY <2>1 DEF Crash
    <3>2. op[t] \in Lifecycle
      BY <3>1, SavedInFlight DEF TypeOK
    <3>. QED  BY <3>1, <3>2, TargetType DEF Serial, OnDisk
  <2>2. CASE \A t \in Threads : ~Saved(t)
    BY <2>2 DEF Crash, Serial, OnDisk, TypeOK
  <2>. QED  BY <2>1, <2>2
<1>4. hosted' /\ status' = kept'
  BY <1>3, HoldingInjective DEF Crash
<1>5. Alone' /\ OwnFile' /\ OwnStatus'
  BY <1>1, <1>2 DEF Alone, OwnFile, OwnStatus, AfterSet
<1>6. OnDisk' /\ OutIsOut'
  BY <1>1, <1>2, <1>3, <1>4 DEF OnDisk, OutIsOut
<1>. QED  BY <1>4, <1>5, <1>6 DEF Serial

---------------------------------------------------------------------------
\* The invariant holds at the start and is kept by every step.
LEMMA InvInit == Init => IInv
<1>. SUFFICES ASSUME Init PROVE IInv
  OBVIOUS
<1>1. TypeOK
  BY TypeInit
<1>2. \A t \in Threads : at[t] = "idle" /\ handle[t] = "closed"
  BY DEF Init
<1>3. \A t \in Threads : ~InFlight(t) /\ ~Saved(t)
  BY <1>2 DEF InFlight, Saved
<1>4. Alone /\ OwnFile /\ OwnStatus
  BY <1>2, <1>3 DEF Alone, OwnFile, OwnStatus, AfterSet
<1>5. hosted /\ OnDisk /\ OutIsOut
  BY <1>3 DEF Init, OnDisk, OutIsOut
<1>. QED  BY <1>1, <1>4, <1>5 DEF IInv, Serial

\* Once two methods have crossed, they have crossed for good (history).
LEMMA CrossedStays ==
  ASSUME TypeOK, [Next]_vars, ~crossed'
  PROVE  ~crossed
<1>1. CASE UNCHANGED vars
  BY <1>1 DEF vars, history
<1>2. CASE Crash
  BY <1>2 DEF Crash
<1>3. ASSUME NEW t \in Threads, Step(t) PROVE ~crossed
  BY <1>3 DEF Step, Serve, Admit, Served, Denied, NoOp, ReadStatus, SetStatus, Serialize,
     Open, Write, Replace, SaveFails, Clean, Hook, HookFails, Emit, EmitFails, Respond, history
<1>. QED  BY <1>1, <1>2, <1>3 DEF Next

LEMMA InvStep ==
  ASSUME IInv, [Next]_vars
  PROVE  IInv'
<1>1. TypeOK'
  BY TypeStep DEF IInv
<1>2. ASSUME ~crossed' PROVE Serial'
  <2>1. TypeOK /\ Serial
    BY <1>2, CrossedStays DEF IInv
  <2>2. CASE UNCHANGED vars
    BY <2>1, <2>2 DEF vars, memory, disk, request, saving, history, Serial, Alone, OwnFile,
                      OwnStatus, OnDisk, OutIsOut, InFlight, Saved
  <2>3. CASE Crash
    BY <2>1, <2>3, CrashStep
  <2>4. ASSUME NEW t \in Threads, Step(t) PROVE Serial'
    <3>1. CASE (\E o \in Operations : Serve(t, o)) \/ Served(t) \/ Denied(t) \/ NoOp(t)
      BY <2>1, <3>1, QuietStep
    <3>2. CASE \E o \in Operations, c \in Callers : Admit(t, o, c)
      BY <1>2, <2>1, <3>2, AdmitStep
    <3>3. CASE \/ ReadStatus(t) \/ SetStatus(t) \/ Serialize(t) \/ Open(t) \/ Write(t)
               \/ Replace(t) \/ SaveFails(t) \/ Clean(t)
               \/ Hook(t) \/ HookFails(t) \/ Emit(t) \/ EmitFails(t)
      BY <2>1, <3>3, TransitionStep
    <3>4. CASE Respond(t)
      BY <2>1, <3>4, RespondStep
    <3>. QED  BY <2>4, <3>1, <3>2, <3>3, <3>4 DEF Step
  <2>. QED  BY <2>2, <2>3, <2>4 DEF Next
<1>. QED  BY <1>1, <1>2 DEF IInv

THEOREM Invariant == Spec => []IInv
  BY InvInit, InvStep, PTL DEF Spec

\* Methods that come one at a time leave a document that can be loaded, at
\* every moment the daemon may die (DocumentReadable).
THEOREM Loadable == Spec => []DocumentReadable
<1>1. IInv => DocumentReadable
  <2>. SUFFICES ASSUME IInv, ~crossed PROVE Readable(document) /\ hosted
    BY DEF DocumentReadable
  <2>1. CASE \E t \in Threads : Saved(t)
    <3>1. PICK t \in Threads : Saved(t)
      BY <2>1
    <3>2. document = Holding(Target[op[t]]) /\ Target[op[t]] \in Statuses
      BY <3>1, SavedInFlight, TargetType DEF IInv, TypeOK, Serial, OnDisk
    <3>. QED  BY <3>2, HoldingInjective DEF IInv, Serial
  <2>2. CASE \A t \in Threads : ~Saved(t)
    BY <2>2, HoldingInjective DEF IInv, TypeOK, Serial, OnDisk
  <2>. QED  BY <2>1, <2>2
<1>. QED  BY <1>1, Invariant, PTL

\* ... and that holds the last transition saved, answered or not
\* (SavedSurvives).
THEOREM Durability == Spec => []SavedSurvives
<1>1. IInv => SavedSurvives
  BY DEF IInv, Serial, OnDisk, SavedSurvives
<1>. QED  BY <1>1, Invariant, PTL

\* An agent whose suspension or retirement was saved answers nothing but
\* introspection, through restarts (NoServiceOnceOut).
THEOREM OutOfServiceHolds == Spec => NoServiceOnceOut
<1>1. ASSUME IInv, [Next]_vars, NEW t \in Threads,
             at[t] = "idle", at'[t] # "idle", kept \in {"suspended", "retired"}, ~crossed
      PROVE  op'[t] \in Introspection
  <2>1. status \in OutOfService /\ \A u \in Threads : ~InFlight(u)
    BY <1>1 DEF IInv, Serial, OutIsOut, OutOfService
  <2>2. ~UNCHANGED vars /\ ~Crash
    BY <1>1 DEF vars, Crash
  <2>3. PICK u \in Threads : Step(u)
    BY <1>1, <2>2 DEF Next
  <2>4. \A o, c : ~Admit(u, o, c)
    BY <2>1 DEF Admit, Passes, Lifecycle, Target, Introspection
  <2>5. (\E o \in Operations : Serve(u, o)) \/ Served(u)
    BY <2>1, <2>3, <2>4 DEF Step, InFlight, Denied, NoOp, ReadStatus, SetStatus, Serialize,
       Open, Write, Replace, SaveFails, Clean, Hook, HookFails, Emit, EmitFails, Respond
  <2>6. u = t
    BY <1>1, <2>5 DEF Serve, Served, Return, Goto, IInv, TypeOK
  <2>7. PICK o \in Operations : Serve(t, o)
    BY <1>1, <2>5, <2>6 DEF Served, Return, Goto, IInv, TypeOK
  <2>8. o \in Introspection
    BY <2>1, <2>7 DEF Serve, Passes
  <2>. QED  BY <1>1, <2>7, <2>8 DEF Serve, IInv, TypeOK
<1>2. IInv /\ [Next]_vars =>
        [\A t \in Threads :
            (at[t] = "idle" /\ at'[t] # "idle" /\ kept \in {"suspended", "retired"} /\ ~crossed)
              => op'[t] \in Introspection]_vars
  BY <1>1
<1>. QED  BY <1>2, Invariant, PTL DEF Spec, NoServiceOnceOut

\* A retirement that was saved is final, in memory and on disk, through
\* restarts (RetiredIsFinal).
THEOREM RetirementHolds == Spec => RetiredIsFinal
<1>1. ASSUME IInv, [Next]_vars, kept = "retired", ~crossed'
      PROVE  status' = "retired" /\ kept' = "retired" /\ document' = document
  <2>1. TypeOK /\ Serial
    BY <1>1, CrossedStays DEF IInv
  <2>2. status = "retired" /\ \A u \in Threads : ~InFlight(u)
    BY <1>1, <2>1 DEF Serial, OutIsOut, OutOfService
  <2>3. CASE UNCHANGED vars
    BY <1>1, <2>2, <2>3 DEF vars, memory, disk, history
  <2>4. CASE Crash
    <3>1. document = Holding("retired") /\ kept' = "retired"
      BY <1>1, <2>1, <2>2, <2>4, SavedInFlight DEF Crash, Serial, OnDisk
    <3>2. "retired" \in Statuses
      BY DEF Statuses, Size
    <3>. QED  BY <2>4, <3>1, <3>2, HoldingInjective DEF Crash
  <2>5. ASSUME NEW u \in Threads, Step(u)
        PROVE  status' = "retired" /\ kept' = "retired" /\ document' = document
    <3>1. \A o, c : ~Admit(u, o, c)
      BY <2>2 DEF Admit, Passes, Lifecycle, Target, Introspection, OutOfService
    <3>2. (\E o \in Operations : Serve(u, o)) \/ Served(u)
      BY <2>2, <2>5, <3>1 DEF Step, InFlight, Denied, NoOp, ReadStatus, SetStatus, Serialize,
         Open, Write, Replace, SaveFails, Clean, Hook, HookFails, Emit, EmitFails, Respond
    <3>. QED  BY <1>1, <2>2, <3>2 DEF Serve, Served, memory, disk, history
  <2>. QED  BY <1>1, <2>3, <2>4, <2>5 DEF Next
<1>2. IInv /\ [Next]_vars =>
        [(kept = "retired" /\ ~crossed') =>
            status' = "retired" /\ kept' = "retired" /\ document' = document]_vars
  BY <1>1
<1>. QED  BY <1>2, Invariant, PTL DEF Spec, RetiredIsFinal

---------------------------------------------------------------------------
\* The status the receipts lead to, starting from the operator's.
Told == IF stream = <<>> THEN Written ELSE stream[Len(stream)].to

\* The receipts follow on one another ...
Linked ==
    /\ stream # <<>> => stream[1].from = Written
    /\ \A i \in 2..Len(stream) : stream[i].from = stream[i - 1].to

\* ... the name service answers for an active agent, once it was told ...
Announced(s) == stream # <<>> => listed = (s = "active")

\* ... and the stores change hands in the order of the handler: memory, the
\* document, the name service, the stream.
OneStory ==
    /\ Linked
    /\ (\A t \in Threads : ~InFlight(t)) => Told = status /\ kept = status /\ Announced(status)
    /\ \A t \in Threads :
        /\ at[t] \in {"authorize", "set"} => Told = status /\ kept = status /\ Announced(status)
        /\ at[t] = "set" => previous[t] = status
        /\ at[t] \in AfterSet \ {"respond"} => Told = previous[t]
        /\ at[t] \in {"clean", "hook", "emit", "respond"} => saved[t]
        /\ at[t] \in {"emit", "respond"} => listed = (Target[op[t]] = "active")
        /\ at[t] = "respond" => Told = Target[op[t]]

SInv == IInv /\ (~crossed /\ ~faulty => OneStory)

\* A lost side effect stays lost (history).
LEMMA FaultyStays ==
  ASSUME [Next]_vars, ~faulty'
  PROVE  ~faulty
<1>1. CASE UNCHANGED vars
  BY <1>1 DEF vars, history
<1>2. CASE Crash
  BY <1>2 DEF Crash
<1>3. ASSUME NEW t \in Threads, Step(t) PROVE ~faulty
  BY <1>3 DEF Step, Serve, Admit, Served, Denied, NoOp, ReadStatus, SetStatus, Serialize,
     Open, Write, Replace, SaveFails, Clean, Hook, HookFails, Emit, EmitFails, Respond, history
<1>. QED  BY <1>1, <1>2, <1>3 DEF Next

\* A receipt that starts where the stream ends continues it.
LEMMA Continued ==
  ASSUME TypeOK, Linked, NEW r \in [from : Statuses, to : Statuses],
         r.from = Told, stream' = Append(stream, r)
  PROVE  Linked' /\ Told' = r.to
<1>. DEFINE n == Len(stream)
<1>1. /\ n \in Nat
      /\ Len(stream') = n + 1 /\ stream' # <<>>
      /\ stream'[n + 1] = r
      /\ \A i \in 1..n : stream'[i] = stream[i]
  BY DEF TypeOK
<1>2. stream = <<>> <=> n = 0
  BY DEF TypeOK
<1>3. Told' = r.to
  BY <1>1 DEF Told
<1>4. stream'[1].from = Written
  <2>1. CASE n = 0
    BY <1>1, <1>2, <2>1 DEF Told
  <2>2. CASE n # 0
    BY <1>1, <1>2, <2>2 DEF Linked
  <2>. QED  BY <2>1, <2>2
<1>5. ASSUME NEW i \in 2..(n + 1) PROVE stream'[i].from = stream'[i - 1].to
  <2>1. CASE i = n + 1
    <3>1. stream # <<>> /\ i - 1 = n /\ stream'[n] = stream[n]
      BY <1>1, <1>2, <1>5, <2>1
    <3>. QED  BY <1>1, <2>1, <3>1 DEF Told
  <2>2. CASE i # n + 1
    <3>1. i \in 2..n /\ stream'[i] = stream[i] /\ stream'[i - 1] = stream[i - 1]
      BY <1>1, <1>5, <2>2
    <3>. QED  BY <3>1 DEF Linked
  <2>. QED  BY <2>1, <2>2
<1>. QED  BY <1>1, <1>3, <1>4, <1>5 DEF Linked

\* What the one thread in flight has to show when it stays in flight (every
\* action of _lifecycle_transition but the last).
LEMMA StoryOfOne ==
  ASSUME TypeOK, Serial, NEW t \in Threads, NEW l \in AfterSet \cup {"set"},
         InFlight(t), at' = [at EXCEPT ![t] = l],
         Linked',
         l = "set" => /\ Told' = status' /\ kept' = status' /\ Announced(status)'
                      /\ previous'[t] = status',
         l \in AfterSet \ {"respond"} => Told' = previous'[t],
         l \in {"clean", "hook", "emit", "respond"} => saved'[t],
         l \in {"emit", "respond"} => listed' = (Target[op'[t]] = "active"),
         l = "respond" => Told' = Target[op'[t]]
  PROVE  OneStory'
<1>1. /\ at'[t] = l
      /\ \A u \in Threads : u # t => at'[u] = at[u]
  BY DEF TypeOK
<1>2. \A u \in Threads : u # t => at'[u] \in {"idle", "serving"}
  BY <1>1, OthersOutside DEF Serial
<1>3. InFlight(t)'
  BY <1>1 DEF InFlight, AfterSet
<1>. QED  BY <1>1, <1>2, <1>3 DEF OneStory, AfterSet

\* The story goes on through the steps of a transition: what a step changes is
\* what the next store is told of.
LEMMA StoryTransition ==
  ASSUME TypeOK, Serial, OneStory, ~faulty', NEW t \in Threads,
         \/ ReadStatus(t) \/ SetStatus(t) \/ Serialize(t) \/ Open(t) \/ Write(t)
         \/ Replace(t) \/ SaveFails(t) \/ Clean(t)
         \/ Hook(t) \/ HookFails(t) \/ Emit(t) \/ EmitFails(t)
  PROVE  OneStory'
<1>1. InFlight(t)
  BY DEF ReadStatus, SetStatus, Serialize, Open, Write, Replace, SaveFails, Clean, Hook,
         HookFails, Emit, EmitFails, InFlight
<1>2. /\ Linked
      /\ at[t] \in {"authorize", "set"} => Told = status /\ kept = status /\ Announced(status)
      /\ at[t] = "set" => previous[t] = status
      /\ at[t] \in AfterSet \ {"respond"} => Told = previous[t]
      /\ at[t] \in {"clean", "hook", "emit", "respond"} => saved[t]
      /\ at[t] \in {"emit", "respond"} => listed = (Target[op[t]] = "active")
  BY DEF OneStory
<1>3. op[t] \in Lifecycle /\ previous \in [Threads -> Statuses] /\ saved \in [Threads -> BOOLEAN]
  BY <1>1 DEF TypeOK
<1>4. stream' = stream => Told' = Told /\ (Linked' <=> Linked)
  BY DEF Told, Linked
<1>5. CASE ReadStatus(t)
  <2>1. Announced(status)'
    BY <1>2, <1>5 DEF ReadStatus, Announced, memory, effects
  <2>. QED  BY <1>1, <1>2, <1>3, <1>4, <1>5, <2>1, StoryOfOne
       DEF ReadStatus, Goto, memory, effects, history, AfterSet
<1>6. CASE SetStatus(t)
  BY <1>1, <1>2, <1>4, <1>6, StoryOfOne DEF SetStatus, Goto, effects, request, AfterSet
<1>7. CASE Serialize(t)
  BY <1>1, <1>2, <1>4, <1>7, StoryOfOne DEF Serialize, Goto, effects, request, AfterSet
<1>8. CASE Open(t) \/ Write(t)
  BY <1>1, <1>2, <1>4, <1>8, StoryOfOne DEF Open, Write, Goto, effects, request, AfterSet
<1>9. CASE Replace(t)
  BY <1>1, <1>2, <1>3, <1>4, <1>9, StoryOfOne DEF Replace, Goto, effects, request, AfterSet
<1>10. CASE Clean(t)
  BY <1>1, <1>2, <1>4, <1>10, StoryOfOne DEF Clean, Goto, effects, request, saving, AfterSet
<1>11. CASE Hook(t)
  BY <1>1, <1>2, <1>4, <1>11, StoryOfOne DEF Hook, Goto, request, saving, AfterSet
<1>12. CASE Emit(t)
  <2>. DEFINE r == [from |-> previous[t], to |-> Target[op[t]]]
  <2>1. r \in [from : Statuses, to : Statuses]
    BY <1>3, TargetType
  <2>2. r.from = Told /\ stream' = Append(stream, r)
    BY <1>2, <1>12 DEF Emit, AfterSet
  <2>3. Linked' /\ Told' = Target[op[t]]
    BY <1>2, <2>1, <2>2, Continued
  <2>. QED  BY <1>1, <1>2, <1>12, <2>3, StoryOfOne DEF Emit, Goto, request, saving, AfterSet
<1>13. CASE SaveFails(t) \/ HookFails(t) \/ EmitFails(t)
  BY <1>13 DEF SaveFails, HookFails, EmitFails
<1>. QED
  BY <1>5, <1>6, <1>7, <1>8, <1>9, <1>10, <1>11, <1>12, <1>13

\* Every step keeps the story straight while methods come one at a time and no
\* side effect is lost.
LEMMA StoryStep ==
  ASSUME TypeOK, Serial, OneStory, [Next]_vars, ~crossed', ~faulty'
  PROVE  OneStory'
<1>1. stream' = stream => Told' = Told /\ (Linked' <=> Linked)
  BY DEF Told, Linked
<1>2. CASE UNCHANGED vars
  BY <1>1, <1>2 DEF vars, memory, disk, effects, request, saving, history, OneStory, Announced,
                    InFlight
<1>3. CASE Crash
  <2>1. \A t \in Threads : ~InFlight(t) /\ ~Saved(t) /\ at'[t] = "idle"
    BY <1>3, SavedInFlight DEF Crash
  <2>2. status = kept /\ document = Holding(kept) /\ kept \in Statuses
    BY <2>1 DEF OneStory, Serial, OnDisk, TypeOK
  <2>3. status' = status /\ kept' = kept
    BY <1>3, <2>1, <2>2, HoldingInjective DEF Crash
  <2>. QED  BY <1>1, <1>3, <2>1, <2>3 DEF Crash, OneStory, Announced, AfterSet, effects
<1>4. ASSUME NEW t \in Threads, Step(t) PROVE OneStory'
  <2>1. CASE (\E o \in Operations : Serve(t, o)) \/ Served(t) \/ Denied(t) \/ NoOp(t)
    <3>. DEFINE l == IF \E o \in Operations : Serve(t, o) THEN "serving" ELSE "idle"
    <3>1. /\ at' = [at EXCEPT ![t] = l]
          /\ at[t] \in {"idle", "serving", "authorize"}
          /\ UNCHANGED <<memory, effects, saved, kept>>
          /\ \A u \in Threads : u # t => op'[u] = op[u] /\ previous'[u] = previous[u]
      BY <2>1 DEF Serve, Served, Denied, NoOp, Return, Goto, saving, history, TypeOK
    <3>2. /\ at'[t] \in {"idle", "serving"}
          /\ \A u \in Threads : u # t => at'[u] = at[u]
      BY <3>1 DEF TypeOK
    <3>3. ASSUME \A u \in Threads : ~InFlight(u)'
          PROVE  Told = status /\ kept = status /\ Announced(status)
      <4>1. \A u \in Threads : u # t => ~InFlight(u)
        BY <3>2, <3>3 DEF InFlight
      <4>. QED  BY <3>1, <4>1 DEF OneStory, InFlight
    <3>. QED  BY <1>1, <3>1, <3>2, <3>3 DEF OneStory, Announced, memory, effects, AfterSet
  <2>2. CASE \E o \in Operations, c \in Callers : Admit(t, o, c)
    <3>1. /\ \A u \in Threads : ~InFlight(u)
          /\ UNCHANGED <<memory, effects, kept>>
          /\ at' = [at EXCEPT ![t] = "authorize"]
      BY <1>4, <2>2 DEF Admit, Goto
    <3>2. \A u \in Threads : at'[u] \in {"idle", "serving", "authorize"}
      BY <3>1 DEF InFlight, TypeOK
    <3>. QED  BY <1>1, <3>1, <3>2 DEF OneStory, Announced, memory, effects, AfterSet
  <2>3. CASE \/ ReadStatus(t) \/ SetStatus(t) \/ Serialize(t) \/ Open(t) \/ Write(t)
             \/ Replace(t) \/ SaveFails(t) \/ Clean(t)
             \/ Hook(t) \/ HookFails(t) \/ Emit(t) \/ EmitFails(t)
    BY <2>3, StoryTransition
  <2>4. CASE Respond(t)
    <3>1. /\ at[t] = "respond" /\ at' = [at EXCEPT ![t] = "idle"]
          /\ kept' = (IF saved[t] THEN Target[op[t]] ELSE kept)
          /\ UNCHANGED <<memory, effects>>
      BY <2>4 DEF Respond, Return, Goto
    <3>2. \A u \in Threads : at'[u] \in {"idle", "serving"}
      BY <3>1, OthersOutside DEF Serial, InFlight, TypeOK
    <3>3. /\ saved[t] /\ status = Target[op[t]] /\ Told = status
          /\ listed = (status = "active") /\ Linked
      BY <3>1 DEF OneStory, Serial, OwnStatus, AfterSet
    <3>. QED  BY <1>1, <3>1, <3>2, <3>3 DEF OneStory, Announced, memory, effects, AfterSet
  <2>. QED  BY <1>4, <2>1, <2>2, <2>3, <2>4 DEF Step
<1>. QED  BY <1>2, <1>3, <1>4 DEF Next

\* Memory, document, name service and lifecycle stream agree whenever no
\* lifecycle method is in flight, unless methods crossed or a side effect was
\* lost (StoresAgree).
THEOREM Agreement == Spec => []StoresAgree
<1>1. Init => SInv
  <2>. SUFFICES ASSUME Init PROVE OneStory
    BY InvInit DEF SInv
  <2>1. stream = <<>> /\ Len(stream) = 0
    BY DEF Init
  <2>2. \A t \in Threads : at[t] = "idle"
    BY DEF Init
  <2>. QED  BY <2>1, <2>2 DEF Init, OneStory, Linked, Told, Announced, InFlight, AfterSet
<1>2. SInv /\ [Next]_vars => SInv'
  BY InvStep, StoryStep, CrossedStays, FaultyStays DEF SInv, IInv
<1>3. SInv => StoresAgree
  <2>. SUFFICES ASSUME SInv, ~crossed, ~faulty, \A t \in Threads : ~InFlight(t)
                PROVE  /\ document = Holding(status) /\ kept = status
                       /\ stream = <<>> => status = Written
                       /\ stream # <<>> => /\ stream[1].from = Written
                                           /\ stream[Len(stream)].to = status
                                           /\ listed = (status = "active")
                       /\ \A i \in 2..Len(stream) : stream[i].from = stream[i - 1].to
    BY DEF StoresAgree
  <2>1. OneStory /\ Serial
    BY DEF SInv, IInv
  <2>2. document = Holding(kept) /\ kept = status
    BY <2>1, SavedInFlight DEF OneStory, Serial, OnDisk
  <2>. QED  BY <2>1, <2>2 DEF OneStory, Linked, Told, Announced
<1>. QED  BY <1>1, <1>2, <1>3, PTL DEF Spec
=================================================================================
