------------------------------ MODULE Overlay -------------------------------
(***************************************************************************)
(* How a coordinator finds others: the iterative lookup of                 *)
(* src/dht/kademlia.py over the routing table of src/dht/routing.py.       *)
(* Identifiers are numbers of Bits bits (256 in the code).  The routing    *)
(* table has no lock: LOCATE handlers refresh it while lookups read and    *)
(* refresh it, so a refresh is a search, a removal and an append.          *)
(***************************************************************************)
EXTENDS Naturals, Sequences, FiniteSets, SequencesExt, Bitwise

CONSTANTS
  Me,         \* the identifier of the node that looks up
  Far,        \* [other node -> identifiers its table holds]
  Keys,       \* what is looked up
  K, Alpha, Paths,   \* k, alpha, disjoint
  Callers,    \* nodes whose LOCATE reaches Me meanwhile
  None,
  Bits

VARIABLES
  bucket,   \* [bucket index -> sequence of identifiers], the table of Me
  writer,   \* [thread -> [at, id, i]]: a refresh under way
  look,     \* the lookup: [at, key, path, used, found]
  short,    \* shortlist of the path
  asked,    \* nodes queried on each path so far: a sequence of sets
  batch,    \* nodes of the round still to query
  heard     \* answers of the node just queried, still to be observed

tableVars == <<bucket, writer>>
lookVars == <<look, short, asked, batch, heard>>
overlayVars == <<tableVars, lookVars>>

Distance(x, y) == x ^^ y
Index(x, y) == CHOOSE i \in 0..(Bits - 1) : 2^i <= Distance(x, y) /\ Distance(x, y) < 2^(i + 1)
Threads == {Me} \cup Callers   \* the lookup is the thread named Me
Idle == [at |-> "idle", id |-> None, i |-> 0]

(* The n identifiers of a set that are nearest to a key, nearest first; one
   that a race has put in the table twice counts once. *)
Nearest(ids, key, n) ==
  LET ranked == SetToSortSeq(ids, LAMBDA x, y : Distance(x, key) < Distance(y, key))
  IN SubSeq(ranked, 1, IF Len(ranked) < n THEN Len(ranked) ELSE n)
Table == UNION {ToSet(bucket[i]) : i \in DOMAIN bucket}
-----------------------------------------------------------------------------
(* RoutingTable.add_node and KBucket.add, thread by thread. *)
Begin(t, id) == writer' = [writer EXCEPT ![t] = [at |-> "seek", id |-> id, i |-> 0]]
Observed(t) == writer' = [writer EXCEPT ![t] = Idle]
Seek(t) ==
  LET b == bucket[Index(Me, writer[t].id)]
      places == {j \in DOMAIN b : b[j] = writer[t].id} IN
  /\ writer[t].at = "seek" /\ UNCHANGED <<bucket, lookVars>>
  /\ IF places # {}
     THEN writer' = [writer EXCEPT ![t].at = "pop", ![t].i = CHOOSE j \in places : \A l \in places : j <= l]
     ELSE IF Len(b) < K THEN writer' = [writer EXCEPT ![t].at = "append"] ELSE Observed(t)
(* The place may hold another node by now, or nothing: the call then fails. *)
Pop(t) ==
  LET n == Index(Me, writer[t].id) IN
  /\ writer[t].at = "pop" /\ UNCHANGED lookVars
  /\ IF writer[t].i > Len(bucket[n]) THEN Observed(t) /\ UNCHANGED bucket
     ELSE /\ bucket' = [bucket EXCEPT ![n] = RemoveAt(@, writer[t].i)]
          /\ writer' = [writer EXCEPT ![t].at = "append"]
AppendNode(t) ==
  LET n == Index(Me, writer[t].id) IN
  /\ writer[t].at = "append" /\ Observed(t) /\ UNCHANGED lookVars
  /\ bucket' = [bucket EXCEPT ![n] = Append(@, writer[t].id)]

(* handle_locate at Me: the caller is observed, the answer read off the table. *)
Called(c) == writer[c] = Idle /\ Begin(c, c) /\ UNCHANGED <<bucket, lookVars>>
-----------------------------------------------------------------------------
(* iterative_locate_disjoint: Paths lookups in turn, a peer used on one kept
   out of the others. *)
Look(at) == look.at = at /\ UNCHANGED tableVars
Start ==
  /\ Look("idle") /\ \E key \in Keys : look' = [look EXCEPT !.at = "path", !.key = key]
  /\ UNCHANGED <<short, asked, batch, heard>>
NextPath ==
  /\ Look("path") /\ Len(asked) < Paths /\ look' = [look EXCEPT !.at = "round"]
  /\ short' = ToSet(Nearest(Table, look.key, K)) \ look.used
  /\ asked' = Append(asked, {}) /\ UNCHANGED <<batch, heard>>
Round ==
  LET fresh == SelectSeq(Nearest(short, look.key, K), LAMBDA x : x \notin Last(asked)) IN
  /\ Look("round") /\ UNCHANGED <<short, asked, heard>>
  /\ IF fresh = <<>>
     THEN /\ look' = [look EXCEPT !.at = "path", !.used = @ \cup short, !.found = @ \cup short]
          /\ UNCHANGED batch
     ELSE /\ look' = [look EXCEPT !.at = "query"]
          /\ batch' = SubSeq(fresh, 1, IF Len(fresh) < Alpha THEN Len(fresh) ELSE Alpha)

(* One LOCATE to a peer: it answers, or it is dead and counts as an empty answer. *)
Query ==
  /\ Look("query") /\ batch # <<>> /\ batch' = Tail(batch)
  /\ asked' = [asked EXCEPT ![Len(asked)] = @ \cup {Head(batch)}]
  /\ look' = [look EXCEPT !.at = "hear", !.used = @ \cup {Head(batch)}]
  /\ heard' \in {{}, ToSet(Nearest(Far[Head(batch)], look.key, K))} /\ UNCHANGED short
RoundOver ==
  /\ Look("query") /\ batch = <<>> /\ look' = [look EXCEPT !.at = "round"]
  /\ UNCHANGED <<short, asked, batch, heard>>
(* Each answer is observed, then joins the shortlist unless it is used. *)
Hear ==
  /\ look.at = "hear" /\ heard # {} /\ writer[Me] = Idle
  /\ \E x \in heard :
       /\ heard' = heard \ {x} /\ short' = short \cup ({x} \ (look.used \cup {Me}))
       /\ IF x = Me THEN UNCHANGED writer ELSE Begin(Me, x)
  /\ UNCHANGED <<bucket, look, asked, batch>>
Heard ==
  /\ Look("hear") /\ heard = {} /\ writer[Me] = Idle /\ look' = [look EXCEPT !.at = "query"]
  /\ UNCHANGED <<short, asked, batch, heard>>
Done ==
  /\ Look("path") /\ Len(asked) = Paths
  /\ look' = [look EXCEPT !.at = "done", !.found = ToSet(Nearest(look.found, look.key, K))]
  /\ UNCHANGED <<short, asked, batch, heard>>

TableInit(known) ==
  /\ bucket = [i \in 0..(Bits - 1) |-> SetToSeq({x \in known : Index(Me, x) = i})]
  /\ writer = [t \in Threads |-> Idle]
LookInit ==
  /\ look = [at |-> "idle", key |-> None, path |-> 0, used |-> {}, found |-> {}]
  /\ short = {} /\ asked = <<>> /\ batch = <<>> /\ heard = {}
LookNext ==
  \/ Start \/ NextPath \/ Round \/ Query \/ RoundOver \/ Hear \/ Heard \/ Done
  \/ \E t \in Threads : Seek(t) \/ Pop(t) \/ AppendNode(t)
  \/ \E c \in Callers : Called(c)
-----------------------------------------------------------------------------
(* dht/routing.py:46: a bucket holds up to k peers, each of them once. *)
BucketsHold == \A i \in DOMAIN bucket : Len(bucket[i]) <= K /\ IsInjective(bucket[i])
=============================================================================
