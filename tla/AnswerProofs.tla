---------------------------- MODULE AnswerProofs ----------------------------
(***************************************************************************)
(* Proofs about answers and their audit.  AuditTrail, for any number of    *)
(* writers, agents, records, faults and repairs: what a walk of a chain    *)
(* reads, that the chains of answered responses do not fork, that a head   *)
(* leads to its chain after any crash, that rebuilding the heads loses     *)
(* nothing and that no branch is orphaned.  AnswerPipeline, for any number *)
(* of threads, assertions and loading orders: that an assertion buys once. *)
(* ChainInspector, for any graph of records: that the walk over it is      *)
(* closed.                                                                 *)
(***************************************************************************)
EXTENDS AnswerPipeline, AuditTrail, ChainInspector,
        TLAPS, WellFoundedInduction, FiniteSetTheorems, SequenceTheorems

\* A set of naturals that is not empty has a least element: the library's
\* ordering of finite sets is applied to the intervals up to its members.
LEMMA Least ==
    ASSUME NEW S \in SUBSET Nat, S # {}
    PROVE  \E x \in S : \A y \in S : x <= y
<1> DEFINE F == {0..x : x \in S}
<1>1. F \subseteq FiniteSubsetsOf(Nat) /\ F # {}
  <2>1. \A x \in S : 0..x \in SUBSET Nat
    OBVIOUS
  <2>2. \A x \in S : IsFiniteSet(0..x)
    BY FS_Interval
  <2>3. \A x \in S : 0..x \in FiniteSubsetsOf(Nat)
    BY <2>1, <2>2 DEF FiniteSubsetsOf
  <2> QED
    BY <2>3
<1>2. PICK m \in F : \A f \in F : ~(<<f, m>> \in StrictSubsetOrdering(Nat))
  <2> HIDE DEF F
  <2> QED
    BY <1>1, FS_StrictSubsetOrderingWellFounded, WFMin
<1>3. PICK x \in S : m = 0..x
  OBVIOUS
<1>4. ASSUME NEW y \in S
      PROVE  x <= y
  <2> SUFFICES ASSUME y < x
               PROVE  FALSE
    OBVIOUS
  <2>1. 0..y \in F /\ 0..y \in SUBSET Nat /\ 0..x \in SUBSET Nat
    OBVIOUS
  <2>2. 0..y \subseteq 0..x /\ 0..y # 0..x
    OBVIOUS
  <2>3. <<0..y, 0..x>> \in StrictSubsetOrdering(Nat)
    BY <2>1, <2>2 DEF StrictSubsetOrdering
  <2> QED
    BY <2>1, <2>3, <1>2, <1>3
<1> QED
  BY <1>4

-----------------------------------------------------------------------------
(* What a walk reads, where every record names an earlier one.               *)

Descends ==
  \A i \in onDisk : i \in Ids /\ record[i].prev \in 0..MaxRecords /\ record[i].prev < i

\* The records a walk reads from i, given what it reads from below.
Reads(f, i) == IF i = 0 THEN {0} ELSE IF i \notin onDisk THEN {} ELSE {i} \cup f[record[i].prev]

\* WalkFrom is defined by its own recursion.
LEMMA Walks ==
    ASSUME MaxRecords \in Nat, Descends
    PROVE  \A i \in 0..MaxRecords : WalkFrom[i] = Reads(WalkFrom, i)
<1> DEFINE Good(n) == \E f : f = [i \in 0..n |-> Reads(f, i)]
           Bad == {n \in 0..MaxRecords : ~Good(n)}
<1>1. Good(0)
  <2>1. LET f == [i \in 0..0 |-> {0}] IN f = [i \in 0..0 |-> Reads(f, i)]
    BY DEF Reads
  <2> QED
    BY <2>1
<1>2. ASSUME NEW n \in 1..MaxRecords, Good(n - 1)
      PROVE  Good(n)
  <2>1. PICK g : g = [i \in 0..(n - 1) |-> Reads(g, i)]
    BY <1>2
  <2> DEFINE f == [i \in 0..n |-> IF i < n THEN g[i] ELSE Reads(g, n)]
  <2>2. ASSUME NEW i \in 0..n
        PROVE  f[i] = Reads(f, i)
    <3>1. i \in onDisk => record[i].prev \in 0..(n - 1) /\ f[record[i].prev] = g[record[i].prev]
      BY <1>2 DEF Descends
    <3>2. Reads(f, i) = Reads(g, i)
      BY <3>1 DEF Reads
    <3>3. i < n => i \in 0..(n - 1) /\ f[i] = g[i]
      BY <1>2
    <3>4. i < n => g[i] = Reads(g, i)
      BY <3>3, <2>1
    <3> QED
      BY <3>2, <3>3, <3>4, <1>2
  <2>3. f = [i \in 0..n |-> f[i]]
    OBVIOUS
  <2>4. f = [i \in 0..n |-> Reads(f, i)]
    <3> HIDE DEF f
    <3> QED
      BY <2>2, <2>3
  <2> QED
    BY <2>4
<1>3. Good(MaxRecords)
  <2> SUFFICES ASSUME Bad # {}
               PROVE  FALSE
    OBVIOUS
  <2> HIDE DEF Good
  <2>1. PICK n \in Bad : \A m \in Bad : n <= m
    <3>1. Bad \in SUBSET Nat
      OBVIOUS
    <3> HIDE DEF Bad
    <3> QED
      BY <3>1, Least
  <2>2. n # 0 /\ n \in 1..MaxRecords
    BY <1>1
  <2>3. Good(n - 1)
    BY <2>1, <2>2
  <2> QED
    BY <1>2, <2>2, <2>3
<1>4. PICK f : f = [i \in 0..MaxRecords |-> Reads(f, i)]
  BY <1>3
<1>5. WalkFrom = CHOOSE g : g = [i \in 0..MaxRecords |-> Reads(g, i)]
  BY DEF WalkFrom, Reads
<1>6. WalkFrom = [i \in 0..MaxRecords |-> Reads(WalkFrom, i)]
  BY <1>4, <1>5, Zenon
<1> QED
  BY <1>6

\* A walk only goes to earlier records.
LEMMA WalkGoesDown ==
    ASSUME MaxRecords \in Nat, Descends, NEW i \in 0..MaxRecords, NEW j \in WalkFrom[i]
    PROVE  j \in 0..i
<1> DEFINE Bad == {n \in 0..MaxRecords : ~(WalkFrom[n] \subseteq 0..n)}
<1>1. Bad = {}
  <2> SUFFICES ASSUME Bad # {}
               PROVE  FALSE
    OBVIOUS
  <2>1. PICK n \in Bad : \A m \in Bad : n <= m
    <3>1. Bad \in SUBSET Nat
      OBVIOUS
    <3> HIDE DEF Bad
    <3> QED
      BY <3>1, Least
  <2>2. WalkFrom[n] = Reads(WalkFrom, n)
    BY Walks
  <2>3. n # 0 /\ n \in onDisk
    BY <2>2 DEF Reads
  <2>4. record[n].prev \in 0..MaxRecords /\ record[n].prev < n
    BY <2>3 DEF Descends
  <2>5. WalkFrom[record[n].prev] \subseteq 0..record[n].prev
    BY <2>1, <2>4
  <2> QED
    BY <2>2, <2>3, <2>4, <2>5 DEF Reads
<1> QED
  BY <1>1

\* Where no stored record names one that is not stored, every walk from a
\* stored record ends at genesis.
LEMMA WalkEnds ==
    ASSUME MaxRecords \in Nat, Descends, NEW i \in onDisk \cup {0},
           \A j \in onDisk : record[j].prev \in onDisk \cup {0}
    PROVE  0 \in WalkFrom[i]
<1> DEFINE Bad == {n \in 0..MaxRecords : n \in onDisk \cup {0} /\ 0 \notin WalkFrom[n]}
<1>1. Bad = {}
  <2> SUFFICES ASSUME Bad # {}
               PROVE  FALSE
    OBVIOUS
  <2>1. PICK n \in Bad : \A m \in Bad : n <= m
    <3>1. Bad \in SUBSET Nat
      OBVIOUS
    <3> HIDE DEF Bad
    <3> QED
      BY <3>1, Least
  <2>2. WalkFrom[n] = Reads(WalkFrom, n)
    BY Walks
  <2>3. n # 0 /\ n \in onDisk
    BY <2>2 DEF Reads
  <2>4. record[n].prev \in 0..MaxRecords /\ record[n].prev < n /\ record[n].prev \in onDisk \cup {0}
    BY <2>3 DEF Descends
  <2>5. 0 \in WalkFrom[record[n].prev]
    BY <2>1, <2>4
  <2> QED
    BY <2>2, <2>3, <2>5 DEF Reads
<1>2. i \in 0..MaxRecords
  BY DEF Descends, Ids
<1> QED
  BY <1>1, <1>2

-----------------------------------------------------------------------------
(* The inductive invariant.                                                  *)

Records == [agent : Owners \cup {Nobody}, prev : 0..MaxRecords]

TrailTypeOK ==
  /\ stage \in [Writers -> {"idle", "waiting", "record", "head", "send"}]
  /\ whose \in [Writers -> Owners \cup {Nobody}]
  /\ building \in [Writers -> 0..MaxRecords]
  /\ holder \in Writers \cup {Nobody}
  /\ record \in [Ids -> Records \cup {Nobody}]
  /\ onDisk \subseteq Ids /\ sentIds \subseteq Ids
  /\ headLost \subseteq Ids /\ bodyLost \subseteq Ids
  /\ headOf \in [Owners -> 0..MaxRecords] /\ plan \in [Owners -> 0..MaxRecords]

Inside(w) == stage[w] \in {"record", "head"}   \* within the transaction

\* Ids are given in order, a record names an earlier one, and the files hold
\* only what was built.
Ordered ==
  /\ onDisk \cup sentIds \cup headLost \cup bodyLost \subseteq Built
  /\ \A i \in Built : record[i].prev < i /\ \A j \in Ids : j < i => j \in Built
  /\ \A a \in Owners : headOf[a] \in Built \cup {0} /\ plan[a] \in onDisk \cup {0}

\* Whoever is inside the transaction holds the lock, and its record is the
\* last one built.
Locked ==
  \A w \in Writers :
    /\ Inside(w) <=> holder = w
    /\ Inside(w) \/ stage[w] = "send" =>
         building[w] \in Built /\ record[building[w]].agent = whose[w]
    /\ Inside(w) => \A j \in Built : j <= building[w]
    /\ stage[w] \in {"head", "send"} => building[w] \in onDisk \cup bodyLost

\* What no lost body means: the stored records lead to one another.
Closed ==
  bodyLost = {} =>
    /\ \A a \in Owners : headOf[a] \in onDisk \cup {0}
    /\ \A i \in onDisk : record[i].prev \in onDisk \cup {0}
    /\ \A w \in Writers : stage[w] = "record" => record[building[w]].prev \in onDisk \cup {0}

Past == sentIds \cup {building[w] : w \in {v \in Writers : stage[v] = "send"}}   \* appends that are over

\* The head is at or behind no append that succeeded, and whatever was built
\* later for the agent hangs from it or from something later.
Behind(a, i) ==
  i <= headOf[a] /\ \A j \in Built : i < j /\ record[j].agent = a => i <= record[j].prev

Serial ==
  ~RepairLive =>
    /\ Past \subseteq onDisk \cup bodyLost
    /\ \A i \in Past \ (headLost \cup bodyLost) :
         record[i].agent \in Owners => Behind(record[i].agent, i)
    /\ \A a \in Owners : plan[a] # 0 => DaemonDown /\ Recoverable(a, plan[a])

TrailInv == TrailTypeOK /\ Ordered /\ Locked /\ Closed /\ Serial

\* What is built is told by the records alone.
LEMMA Assumed ==
    /\ MaxRecords \in Nat /\ RepairLive \in BOOLEAN
    /\ Nobody \notin Writers /\ Nobody \notin Owners /\ Nobody \notin Records
BY TrailAssumption DEF Records

LEMMA StoredDescends == TrailTypeOK /\ Ordered => Descends
BY DEF TrailTypeOK, Ordered, Descends, Built, Records

LEMMA InitTrail == TrailInit => TrailInv
<1> SUFFICES ASSUME TrailInit
             PROVE  TrailInv
  OBVIOUS
<1> USE Assumed
<1>1. TrailTypeOK
  BY DEF TrailInit, TrailTypeOK
<1>2. Ordered /\ Locked /\ Closed
  BY DEF TrailInit, Ordered, Locked, Closed, Built, Inside
<1>3. Serial
  BY DEF TrailInit, Serial, Past, Behind
<1> QED
  BY <1>1, <1>2, <1>3 DEF TrailInv

\* A thread takes up the append of a response.
LEMMA FinalizeStep ==
    ASSUME TrailInv, NEW w \in Writers, Finalize(w), ~RepairLive => \A a \in Owners : plan[a] = 0
    PROVE  TrailInv'
<1> USE Assumed DEF Finalize, Step
<1>1. TrailTypeOK'
  BY DEF TrailInv, TrailTypeOK
<1>2. Ordered' /\ Closed'
  BY DEF TrailInv, TrailTypeOK, Ordered, Closed, Built
<1>3. Locked'
  BY DEF TrailInv, TrailTypeOK, Locked, Built, Inside
<1>4. Past' = Past
  BY DEF TrailInv, TrailTypeOK, Past
<1>5. Serial'
  BY <1>4 DEF TrailInv, TrailTypeOK, Serial, Behind, Built
<1> QED
  BY <1>1, <1>2, <1>3, <1>5 DEF TrailInv

\* The record of the response is built on the head, under the lock.
LEMMA BuildStep ==
    ASSUME TrailInv, NEW w \in Writers, Build(w), ~RepairLive => \A a \in Owners : plan[a] = 0
    PROVE  TrailInv'
<1> USE Assumed
<1>1. PICK i \in Ids \ Built :
        /\ \A j \in Ids \ Built : i <= j
        /\ record' = [record EXCEPT ![i] =
             [agent |-> whose[w], prev |-> IF whose[w] = Nobody THEN 0 ELSE headOf[whose[w]]]]
        /\ building' = [building EXCEPT ![w] = i]
  BY DEF Build
<1>2. /\ stage[w] = "waiting" /\ stage' = [stage EXCEPT ![w] = "record"]
      /\ holder = Nobody /\ holder' = w
      /\ UNCHANGED <<whose, onDisk, headOf, sentIds, headLost, bodyLost, plan>>
  BY DEF Build, Step
<1>3. TrailTypeOK /\ Ordered /\ Locked /\ Closed /\ Serial
  BY DEF TrailInv
<1> DEFINE new == [agent |-> whose[w], prev |-> IF whose[w] = Nobody THEN 0 ELSE headOf[whose[w]]]
<1>4. new \in Records /\ new.agent = whose[w] /\ new.prev \in Built \cup {0}
  BY <1>3 DEF TrailTypeOK, Ordered, Records
<1>5. whose[w] # Nobody => whose[w] \in Owners /\ new.prev = headOf[whose[w]]
  BY <1>3 DEF TrailTypeOK
<1> HIDE DEF new
<1>6. record' = [record EXCEPT ![i] = new]
  BY <1>1 DEF new
<1>7. TrailTypeOK'
  BY <1>1, <1>2, <1>3, <1>4, <1>6 DEF TrailTypeOK, Ids
<1>8. /\ Built' = Built \cup {i} /\ i \notin Built /\ i \in Ids
      /\ \A j \in Built : record'[j] = record[j]
      /\ record'[i] = new
  BY <1>1, <1>3, <1>4, <1>6 DEF TrailTypeOK, Built
<1>9. \A j \in Built : j < i
  <2> SUFFICES ASSUME NEW j \in Built, i < j
               PROVE  FALSE
    BY <1>8 DEF Built, Ids
  <2> QED
    BY <1>3, <1>8 DEF Ordered, Built
<1>10. \A j \in Ids : j < i => j \in Built
  BY <1>1 DEF Ids, Built
<1>11. new.prev < i
  BY <1>4, <1>8, <1>9 DEF Ids
<1>12. Ordered'
  BY <1>2, <1>3, <1>8, <1>9, <1>10, <1>11 DEF Ordered
<1>13. \A v \in Writers : ~Inside(v)
  BY <1>2, <1>3 DEF Locked
<1>14. Locked'
  <2> SUFFICES ASSUME NEW v \in Writers
               PROVE  /\ Inside(v)' <=> holder' = v
                      /\ Inside(v)' \/ stage'[v] = "send" =>
                           building'[v] \in Built' /\ record'[building'[v]].agent = whose'[v]
                      /\ Inside(v)' => \A j \in Built' : j <= building'[v]
                      /\ stage'[v] \in {"head", "send"} => building'[v] \in onDisk' \cup bodyLost'
    BY DEF Locked
  <2>1. CASE v = w
    <3>1. stage'[v] = "record" /\ building'[v] = i
      BY <2>1, <1>1, <1>2, <1>3 DEF TrailTypeOK
    <3>2. \A j \in Built' : j <= i
      BY <1>8, <1>9 DEF Ids, Built
    <3> QED
      BY <2>1, <3>1, <3>2, <1>2, <1>4, <1>8 DEF Inside
  <2>2. CASE v # w
    <3>1. stage'[v] = stage[v] /\ building'[v] = building[v] /\ whose'[v] = whose[v]
      BY <2>2, <1>1, <1>2, <1>3 DEF TrailTypeOK
    <3> QED
      BY <2>2, <3>1, <1>2, <1>3, <1>8, <1>13 DEF Inside, Locked
  <2> QED
    BY <2>1, <2>2
<1>15. Closed'
  <2>1. \A j \in onDisk : j \in Built /\ record'[j] = record[j]
    BY <1>3, <1>8 DEF Ordered
  <2>2. \A v \in Writers : stage'[v] = "record" => v = w
    <3>1. \A v \in Writers : v # w => stage'[v] = stage[v]
      BY <1>2, <1>3 DEF TrailTypeOK
    <3> QED
      BY <3>1, <1>13 DEF Inside
  <2>3. building'[w] = i
    BY <1>1, <1>3 DEF TrailTypeOK
  <2>4. bodyLost = {} => new.prev \in onDisk \cup {0}
    <3>1. whose[w] # Nobody /\ bodyLost = {} => headOf[whose[w]] \in onDisk \cup {0}
      BY <1>3, <1>5 DEF Closed
    <3> QED
      BY <3>1, <1>5 DEF new
  <2> QED
    <3> SUFFICES ASSUME bodyLost = {}
                 PROVE  /\ \A a \in Owners : headOf'[a] \in onDisk' \cup {0}
                        /\ \A j \in onDisk' : record'[j].prev \in onDisk' \cup {0}
                        /\ \A v \in Writers : stage'[v] = "record" =>
                             record'[building'[v]].prev \in onDisk' \cup {0}
      BY <1>2 DEF Closed
    <3>1. /\ \A a \in Owners : headOf[a] \in onDisk \cup {0}
          /\ \A j \in onDisk : record[j].prev \in onDisk \cup {0}
      BY <1>3 DEF Closed
    <3> QED
      BY <2>1, <2>2, <2>3, <2>4, <3>1, <1>2, <1>8
<1>16. Past' = Past
  <2>1. \A v \in Writers : stage[v] = "send" <=> stage'[v] = "send"
    <3>1. stage'[w] = "record"
      BY <1>2, <1>3 DEF TrailTypeOK
    <3>2. \A v \in Writers : v # w => stage'[v] = stage[v]
      BY <1>2, <1>3 DEF TrailTypeOK
    <3> QED
      BY <3>1, <3>2, <1>2
  <2>2. \A v \in Writers : stage[v] = "send" => building'[v] = building[v]
    BY <1>1, <1>2, <1>3 DEF TrailTypeOK
  <2> QED
    BY <2>1, <2>2, <1>2 DEF Past
<1>17. Serial'
  <2> SUFFICES ASSUME ~RepairLive
               PROVE  /\ Past' \subseteq onDisk' \cup bodyLost'
                      /\ \A j \in Past' \ (headLost' \cup bodyLost') :
                           (record[j].agent \in Owners)' => Behind(record[j].agent, j)'
                      /\ \A a \in Owners : plan'[a] = 0
    BY DEF Serial
  <2>1. \A j \in Past : j \in Built /\ record'[j] = record[j]
    BY <1>3, <1>8 DEF Serial, Ordered
  <2>2. ASSUME NEW j \in Past \ (headLost \cup bodyLost), record[j].agent \in Owners
        PROVE  Behind(record[j].agent, j)'
    <3> DEFINE a == record[j].agent
    <3>1. j <= headOf[a] /\ \A k \in Built : j < k /\ record[k].agent = a => j <= record[k].prev
      BY <2>2, <1>3 DEF Serial, Behind
    <3>2. new.agent = a => new.prev = headOf[a]
      BY <2>2, <1>4, <1>5
    <3>3. record'[j].agent = a
      BY <2>1
    <3> HIDE DEF a
    <3>4. \A k \in Built' : j < k /\ record'[k].agent = a => j <= record'[k].prev
      BY <3>1, <3>2, <1>8
    <3> QED
      BY <3>1, <3>3, <3>4, <1>2 DEF Behind
  <2>3. \A j \in Past' \ (headLost' \cup bodyLost') : j \in Past \ (headLost \cup bodyLost) /\ record'[j] = record[j]
    BY <2>1, <1>2, <1>16
  <2>4. Past' \subseteq onDisk' \cup bodyLost'
    BY <1>2, <1>3, <1>16 DEF Serial
  <2> QED
    BY <2>2, <2>3, <2>4, <1>2
<1> QED
  BY <1>7, <1>12, <1>14, <1>15, <1>17 DEF TrailInv

\* The record is stored, or the loss of it is noted.
LEMMA RecordStep ==
    ASSUME TrailInv, NEW w \in Writers, WriteRecord(w), ~RepairLive => \A a \in Owners : plan[a] = 0
    PROVE  TrailInv'
<1> USE Assumed
<1>1. TrailTypeOK /\ Ordered /\ Locked /\ Closed /\ Serial
  BY DEF TrailInv
<1>2. /\ stage[w] = "record" /\ stage' = [stage EXCEPT ![w] = "head"]
      /\ UNCHANGED <<whose, building, holder, record, headOf, sentIds, headLost, plan>>
  BY DEF WriteRecord, Step
<1>3. \/ onDisk' = onDisk \cup {building[w]} /\ bodyLost' = bodyLost
      \/ onDisk' = onDisk /\ bodyLost' = bodyLost \cup {building[w]}
  BY DEF WriteRecord
<1>4. building[w] \in Built /\ building[w] \in Ids /\ Built' = Built
  BY <1>1, <1>2 DEF Locked, Inside, Built
<1>5. \A v \in Writers : v # w => stage'[v] = stage[v] /\ ~Inside(v)
  BY <1>1, <1>2 DEF TrailTypeOK, Locked, Inside
<1>6. stage'[w] = "head"
  BY <1>1, <1>2 DEF TrailTypeOK
<1>7. TrailTypeOK'
  BY <1>1, <1>2, <1>3, <1>4 DEF TrailTypeOK
<1>8. Ordered'
  BY <1>1, <1>2, <1>3, <1>4 DEF Ordered
<1>9. Locked'
  BY <1>1, <1>2, <1>3, <1>4, <1>5, <1>6 DEF Locked, Inside
<1>10. Closed'
  <2> SUFFICES ASSUME bodyLost' = {}
               PROVE  /\ \A a \in Owners : headOf'[a] \in onDisk' \cup {0}
                      /\ \A i \in onDisk' : record'[i].prev \in onDisk' \cup {0}
                      /\ \A v \in Writers : stage'[v] = "record" =>
                           record'[building'[v]].prev \in onDisk' \cup {0}
    BY DEF Closed
  <2>1. bodyLost = {} /\ onDisk' = onDisk \cup {building[w]}
    BY <1>3
  <2>2. record[building[w]].prev \in onDisk \cup {0}
    BY <2>1, <1>1, <1>2 DEF Closed
  <2>3. \A v \in Writers : stage'[v] # "record"
    BY <1>5, <1>6 DEF Inside
  <2> QED
    BY <2>1, <2>2, <2>3, <1>1, <1>2 DEF Closed
<1>11. Past' = Past
  BY <1>2, <1>5, <1>6 DEF Past
<1>12. Serial'
  BY <1>1, <1>2, <1>3, <1>4, <1>11 DEF Serial, Behind
<1> QED
  BY <1>7, <1>8, <1>9, <1>10, <1>12 DEF TrailInv

\* The head is moved to the record, or left, and the lock released.
LEMMA HeadStep ==
    ASSUME TrailInv, NEW w \in Writers, WriteHead(w), ~RepairLive => \A a \in Owners : plan[a] = 0
    PROVE  TrailInv'
<1> USE Assumed
<1>1. TrailTypeOK /\ Ordered /\ Locked /\ Closed /\ Serial
  BY DEF TrailInv
<1>2. /\ stage[w] = "head" /\ stage' = [stage EXCEPT ![w] = "send"] /\ holder' = Nobody
      /\ UNCHANGED <<whose, building, record, onDisk, sentIds, bodyLost, plan>>
  BY DEF WriteHead, Step
<1>3. \/ whose[w] = Nobody /\ headOf' = headOf /\ headLost' = headLost
      \/ /\ whose[w] # Nobody /\ headOf' = [headOf EXCEPT ![whose[w]] = building[w]]
         /\ headLost' = headLost
      \/ whose[w] # Nobody /\ headOf' = headOf /\ headLost' = headLost \cup {building[w]}
  BY DEF WriteHead
<1>4. /\ building[w] \in Built /\ building[w] \in Ids /\ Built' = Built
      /\ record[building[w]].agent = whose[w] /\ building[w] \in onDisk \cup bodyLost
      /\ \A j \in Built : j <= building[w]
  BY <1>1, <1>2 DEF Locked, Inside, Built
<1>5. \A v \in Writers : v # w => stage'[v] = stage[v] /\ ~Inside(v)
  BY <1>1, <1>2 DEF TrailTypeOK, Locked, Inside
<1>6. stage'[w] = "send" /\ whose[w] \in Owners \cup {Nobody}
  BY <1>1, <1>2 DEF TrailTypeOK
<1>7. \A a \in Owners : headOf'[a] \in {headOf[a], building[w]} /\ headOf[a] <= headOf'[a]
  <2>1. \A a \in Owners : headOf[a] \in 0..MaxRecords /\ headOf[a] <= building[w]
    BY <1>1, <1>4 DEF TrailTypeOK, Ordered, Ids
  <2> QED
    BY <2>1, <1>1, <1>3, <1>6 DEF TrailTypeOK
<1>8. TrailTypeOK'
  BY <1>1, <1>2, <1>3, <1>4, <1>6 DEF TrailTypeOK, Ids
<1>9. Ordered'
  BY <1>1, <1>2, <1>3, <1>4, <1>7 DEF Ordered
<1>10. Locked'
  BY <1>1, <1>2, <1>4, <1>5, <1>6 DEF Locked, Inside
<1>11. Closed'
  <2>1. \A v \in Writers : stage'[v] # "record"
    BY <1>5, <1>6 DEF Inside
  <2> QED
    BY <2>1, <1>1, <1>2, <1>4, <1>7 DEF Closed
<1>12. Past' = Past \cup {building[w]}
  <2>1. {v \in Writers : stage'[v] = "send"} = {v \in Writers : stage[v] = "send"} \cup {w}
    BY <1>5, <1>6
  <2> QED
    BY <2>1, <1>2 DEF Past
<1>13. Serial'
  <2> SUFFICES ASSUME ~RepairLive
               PROVE  /\ Past' \subseteq onDisk' \cup bodyLost'
                      /\ \A j \in Past' \ (headLost' \cup bodyLost') :
                           (record[j].agent \in Owners)' => Behind(record[j].agent, j)'
                      /\ \A a \in Owners : plan'[a] = 0
    BY DEF Serial
  <2>1. Past' \subseteq onDisk' \cup bodyLost'
    BY <1>1, <1>2, <1>4, <1>12 DEF Serial
  <2>2. ASSUME NEW j \in Past' \ (headLost' \cup bodyLost'), (record[j].agent \in Owners)'
        PROVE  Behind(record[j].agent, j)'
    <3>1. CASE j = building[w]
      <4>1. headOf'[record[j].agent] = j
        <5>1. whose[w] # Nobody /\ headOf' = [headOf EXCEPT ![whose[w]] = building[w]]
          BY <3>1, <2>2, <1>2, <1>3, <1>4
        <5> QED
          BY <5>1, <3>1, <1>1, <1>4, <1>6 DEF TrailTypeOK
      <4>2. \A k \in Built : ~(j < k)
        BY <3>1, <1>4 DEF Built, Ids
      <4> QED
        BY <3>1, <4>1, <4>2, <1>2, <1>4 DEF Behind, Ids
    <3>2. CASE j # building[w]
      <4>1. j \in Past \ (headLost \cup bodyLost) /\ record[j].agent \in Owners
        BY <3>2, <2>2, <1>2, <1>3, <1>12
      <4>2. Behind(record[j].agent, j)
        BY <4>1, <1>1 DEF Serial
      <4>3. j \in Nat /\ headOf[record[j].agent] \in Nat /\ headOf'[record[j].agent] \in Nat
        BY <4>1, <1>1, <1>8 DEF TrailTypeOK, Serial, Ids
      <4>4. j <= headOf'[record[j].agent]
        BY <4>1, <4>2, <4>3, <1>7 DEF Behind
      <4> QED
        BY <4>2, <4>4, <1>2, <1>4 DEF Behind
    <3> QED
      BY <3>1, <3>2
  <2> QED
    BY <2>1, <2>2, <1>2
<1> QED
  BY <1>8, <1>9, <1>10, <1>11, <1>13 DEF TrailInv

\* The response goes out.
LEMMA SendStep ==
    ASSUME TrailInv, NEW w \in Writers, SendResponse(w), ~RepairLive => \A a \in Owners : plan[a] = 0
    PROVE  TrailInv'
<1> USE Assumed
<1>1. TrailTypeOK /\ Ordered /\ Locked /\ Closed /\ Serial
  BY DEF TrailInv
<1>2. /\ stage[w] = "send" /\ stage' = [stage EXCEPT ![w] = "idle"]
      /\ sentIds' = sentIds \cup {building[w]}
      /\ whose' = [whose EXCEPT ![w] = Nobody] /\ building' = [building EXCEPT ![w] = 0]
      /\ UNCHANGED <<holder, record, onDisk, headOf, headLost, bodyLost, plan>>
  BY DEF SendResponse, Step
<1>3. building[w] \in Built /\ building[w] \in Ids /\ Built' = Built
  BY <1>1, <1>2 DEF Locked, Built
<1>4. \A v \in Writers : v # w => /\ stage'[v] = stage[v] /\ building'[v] = building[v]
                                  /\ whose'[v] = whose[v]
  BY <1>1, <1>2 DEF TrailTypeOK
<1>5. stage'[w] = "idle" /\ ~Inside(w)
  BY <1>1, <1>2 DEF TrailTypeOK, Inside
<1>6. TrailTypeOK'
  BY <1>1, <1>2, <1>3 DEF TrailTypeOK
<1>7. Ordered'
  BY <1>1, <1>2, <1>3 DEF Ordered
<1>8. Locked'
  BY <1>1, <1>2, <1>3, <1>4, <1>5 DEF Locked, Inside
<1>9. Closed'
  BY <1>1, <1>2, <1>4, <1>5 DEF Closed
<1>10. Past' = Past
  BY <1>2, <1>4, <1>5 DEF Past
<1>11. Serial'
  BY <1>1, <1>2, <1>3, <1>10 DEF Serial, Behind
<1> QED
  BY <1>6, <1>7, <1>8, <1>9, <1>11 DEF TrailInv

\* What the repair tool finds depends on the stored records alone.
LEMMA FoundSame ==
    ASSUME UNCHANGED <<record, onDisk>>
    PROVE  \A a, i : Recoverable(a, i)' <=> Recoverable(a, i)
<1>1. WalkFrom' = WalkFrom
  BY DEF WalkFrom
<1> QED
  BY <1>1 DEF Recoverable, Tips, Chain, Referenced

\* The daemon dies: the threads are gone, the files and the tool's plan stay.
LEMMA DieStep ==
    ASSUME TrailInv, Die
    PROVE  TrailInv'
<1> USE Assumed
<1>1. TrailTypeOK /\ Ordered /\ Locked /\ Closed /\ Serial
  BY DEF TrailInv
<1>2. /\ stage' = [w \in Writers |-> "idle"] /\ whose' = [w \in Writers |-> Nobody]
      /\ building' = [w \in Writers |-> 0] /\ holder' = Nobody
      /\ UNCHANGED <<record, onDisk, headOf, sentIds, headLost, bodyLost, plan>>
  BY DEF Die
<1>3. TrailTypeOK'
  BY <1>1, <1>2 DEF TrailTypeOK
<1>4. Built' = Built
  BY <1>2 DEF Built
<1>5. Ordered' /\ Closed'
  BY <1>1, <1>2, <1>4 DEF Ordered, Closed
<1>6. Locked'
  BY <1>2, <1>4 DEF Locked, Inside
<1>7. Past' \subseteq Past
  BY <1>2 DEF Past
<1>8. DaemonDown'
  BY <1>2 DEF DaemonDown
<1>9. \A a, i : Recoverable(a, i)' <=> Recoverable(a, i)
  BY <1>2, FoundSame
<1>10. Serial'
  BY <1>1, <1>2, <1>4, <1>7, <1>8, <1>9 DEF Serial, Behind
<1> QED
  BY <1>3, <1>5, <1>6, <1>10 DEF TrailInv

\* The tool notes, for every agent, the one tip its records lead to.
LEMMA ScanStep ==
    ASSUME TrailInv, Scan
    PROVE  TrailInv'
<1> USE Assumed
<1>1. TrailTypeOK /\ Ordered /\ Locked /\ Closed /\ Serial
  BY DEF TrailInv
<1>2. UNCHANGED <<stage, whose, building, holder, record, onDisk, headOf, sentIds, headLost, bodyLost>>
  BY DEF Scan
<1>3. ASSUME NEW a \in Owners
      PROVE  /\ plan'[a] \in onDisk \cup {0}
             /\ plan'[a] # 0 => Recoverable(a, plan'[a])
  <2>1. plan'[a] = IF \E i \in Ids : Recoverable(a, i) THEN CHOOSE i \in Ids : Recoverable(a, i) ELSE 0
    BY DEF Scan
  <2>2. plan'[a] = 0 \/ Recoverable(a, plan'[a])
    BY <2>1
  <2>3. Recoverable(a, plan'[a]) => plan'[a] \in onDisk
    BY DEF Recoverable, Tips, Chain
  <2> QED
    BY <2>2, <2>3
<1>4. TrailTypeOK'
  <2>1. plan' = [a \in Owners |-> plan'[a]]
    <3> DEFINE tip(a) == IF \E i \in Ids : Recoverable(a, i) THEN CHOOSE i \in Ids : Recoverable(a, i) ELSE 0
    <3>1. plan' = [a \in Owners |-> tip(a)]
      BY DEF Scan
    <3> HIDE DEF tip
    <3> QED
      BY <3>1
  <2>2. \A a \in Owners : plan'[a] \in 0..MaxRecords
    <3>1. onDisk \cup {0} \subseteq 0..MaxRecords
      BY <1>1 DEF TrailTypeOK, Ids
    <3> QED
      BY <3>1, <1>3
  <2> QED
    BY <2>1, <2>2, <1>1, <1>2 DEF TrailTypeOK
<1>5. Built' = Built /\ Past' = Past
  BY <1>2 DEF Built, Past
<1>6. Ordered' /\ Locked' /\ Closed'
  BY <1>1, <1>2, <1>3, <1>5 DEF Ordered, Locked, Closed, Inside
<1>7. \A a, i : Recoverable(a, i)' <=> Recoverable(a, i)
  BY <1>2, FoundSame
<1>8. ~RepairLive => DaemonDown'
  BY <1>2 DEF Scan, DaemonDown
<1>9. Serial'
  BY <1>1, <1>2, <1>3, <1>5, <1>7, <1>8 DEF Serial, Behind
<1> QED
  BY <1>4, <1>6, <1>9 DEF TrailInv

\* The tool sets a head.  With the daemon down, every append that succeeded is
\* on the chain of the tip, so the head only moves forward.
LEMMA RepairStep ==
    ASSUME TrailInv, NEW a \in Owners, Repair(a)
    PROVE  TrailInv'
<1> USE Assumed
<1>1. TrailTypeOK /\ Ordered /\ Locked /\ Closed /\ Serial
  BY DEF TrailInv
<1>2. /\ plan[a] # 0 /\ plan' = [plan EXCEPT ![a] = 0] /\ headOf' = [headOf EXCEPT ![a] = plan[a]]
      /\ UNCHANGED <<stage, whose, building, holder, record, onDisk, sentIds, headLost, bodyLost>>
  BY DEF Repair
<1>3. Built' = Built /\ Past' = Past
  BY <1>2 DEF Built, Past
<1>4. plan[a] \in onDisk /\ plan[a] \in Built
  BY <1>1, <1>2 DEF Ordered
<1>5. TrailTypeOK'
  BY <1>1, <1>2 DEF TrailTypeOK
<1>6. \A b \in Owners : headOf'[b] = (IF b = a THEN plan[a] ELSE headOf[b])
                        /\ plan'[b] = (IF b = a THEN 0 ELSE plan[b])
  BY <1>1, <1>2 DEF TrailTypeOK
<1>7. Ordered' /\ Locked' /\ Closed'
  BY <1>1, <1>2, <1>3, <1>4, <1>6 DEF Ordered, Locked, Closed, Inside
<1>8. \A b, i : Recoverable(b, i)' <=> Recoverable(b, i)
  BY <1>2, FoundSame
<1>9. ~RepairLive => DaemonDown' /\ Recoverable(a, plan[a])
  BY <1>1, <1>2 DEF Serial, DaemonDown
<1>10. ASSUME ~RepairLive, NEW i \in Past \ (headLost \cup bodyLost), record[i].agent = a
       PROVE  i <= plan[a]
  <2>1. i \in onDisk
    BY <1>1, <1>10 DEF Serial
  <2>2. i \in Chain(a)
    BY <2>1, <1>10 DEF Chain
  <2>3. i \in WalkFrom[plan[a]]
    BY <2>2, <1>9, <1>10 DEF Recoverable
  <2>4. Descends /\ plan[a] \in 0..MaxRecords
    BY <1>1, StoredDescends DEF TrailTypeOK
  <2>5. i \in 0..plan[a]
    BY <2>3, <2>4, WalkGoesDown
  <2> QED
    BY <2>4, <2>5
<1>11. Serial'
  <2> SUFFICES ASSUME ~RepairLive
               PROVE  /\ Past' \subseteq onDisk' \cup bodyLost'
                      /\ \A j \in Past' \ (headLost' \cup bodyLost') :
                           (record[j].agent \in Owners)' => Behind(record[j].agent, j)'
                      /\ \A b \in Owners : (plan[b] # 0 => DaemonDown /\ Recoverable(b, plan[b]))'
    BY DEF Serial
  <2>1. ASSUME NEW j \in Past \ (headLost \cup bodyLost), record[j].agent \in Owners
        PROVE  Behind(record[j].agent, j)'
    <3>1. Behind(record[j].agent, j)
      BY <2>1, <1>1 DEF Serial
    <3>2. j <= headOf'[record[j].agent]
      BY <3>1, <2>1, <1>6, <1>10 DEF Behind
    <3> QED
      BY <3>1, <3>2, <1>2, <1>3 DEF Behind
  <2>2. ASSUME NEW b \in Owners, plan'[b] # 0
        PROVE  DaemonDown' /\ Recoverable(b, plan[b])'
    <3>1. plan'[b] = plan[b] /\ Recoverable(b, plan[b])
      BY <2>2, <1>1, <1>6 DEF Serial
    <3> QED
      BY <3>1, <1>8, <1>9
  <2> QED
    BY <2>1, <2>2, <1>1, <1>2, <1>3 DEF Serial
<1> QED
  BY <1>5, <1>7, <1>11 DEF TrailInv

\* Every step of the daemon, of its death or of the tool keeps the invariant.
LEMMA TrailStep == TrailInv /\ [TrailNext]_trailVars => TrailInv'
<1> SUFFICES ASSUME TrailInv, [TrailNext]_trailVars
             PROVE  TrailInv'
  OBVIOUS
<1>1. ASSUME NEW w \in Writers, Writing(w)
      PROVE  TrailInv'
  <2>1. ~RepairLive => \A a \in Owners : plan[a] = 0
    BY <1>1 DEF Writing
  <2> QED
    BY <1>1, <2>1, FinalizeStep, BuildStep, RecordStep, HeadStep, SendStep DEF Writing
<1>2. CASE UNCHANGED trailVars
  <2>1. UNCHANGED <<record, onDisk>>
    BY <1>2 DEF trailVars
  <2>2. \A a, i : Recoverable(a, i)' <=> Recoverable(a, i)
    BY <2>1, FoundSame
  <2>3. Built' = Built /\ Past' = Past
    BY <1>2 DEF trailVars, Built, Past
  <2>4. (TrailTypeOK /\ Ordered /\ Locked /\ Closed)'
    BY <1>2, <2>3 DEF TrailInv, trailVars, TrailTypeOK, Ordered, Locked, Closed, Inside
  <2>5. Serial'
    BY <1>2, <2>2, <2>3 DEF TrailInv, trailVars, Serial, Behind, DaemonDown
  <2> QED
    BY <2>4, <2>5 DEF TrailInv
<1> QED
  BY <1>1, <1>2, DieStep, ScanStep, RepairStep DEF TrailNext

-----------------------------------------------------------------------------
(* The theorems.                                                             *)

\* The invariant holds in every reachable state.
THEOREM Trails == TrailSpec => []TrailInv
BY InitTrail, TrailStep, PTL DEF TrailSpec

\* Two responses an agent received never name the same predecessor, unless a
\* write for one of them failed (SentChainsAreLinear; audit_chain.py:50).
THEOREM ChainsDoNotFork == TrailSpec => []SentChainsAreLinear
<1>1. TrailInv => SentChainsAreLinear
  <2> SUFFICES ASSUME TrailInv, ~RepairLive, NEW i \in sentIds, NEW j \in sentIds,
                      i # j, record[i].agent = record[j].agent, record[i].agent # Nobody,
                      record[i].prev = record[j].prev, {i, j} \cap (headLost \cup bodyLost) = {}
               PROVE  FALSE
    BY DEF SentChainsAreLinear
  <2>1. TrailTypeOK /\ Ordered /\ Serial
    BY DEF TrailInv
  <2>2. \A k \in sentIds : k \in Past /\ k \in Built /\ k \in Nat /\ record[k] \in Records
    BY <2>1, Assumed DEF Past, Ordered, Built, TrailTypeOK, Ids
  <2>3. \A k \in sentIds : record[k].prev \in Nat /\ record[k].prev < k
    BY <2>1, <2>2 DEF Ordered, Records
  <2>4. record[i].agent \in Owners
    BY <2>2 DEF Records
  <2>5. Behind(record[i].agent, i) /\ Behind(record[j].agent, j)
    BY <2>1, <2>2, <2>4 DEF Serial
  <2>6. CASE i < j
    <3>1. i <= record[j].prev
      BY <2>2, <2>5, <2>6 DEF Behind
    <3> QED
      BY <3>1, <2>2, <2>3
  <2>7. CASE j < i
    <3>1. j <= record[i].prev
      BY <2>2, <2>5, <2>7 DEF Behind
    <3> QED
      BY <3>1, <2>2, <2>3
  <2> QED
    BY <2>2, <2>6, <2>7
<1> QED
  BY <1>1, Trails, PTL

\* A crash alone, however timed, leaves no head that points at a record the
\* store does not hold, repairs beside the daemon included (HeadsWalkable).
THEOREM HeadsLeadHome == TrailSpec => []HeadsWalkable
<1>1. TrailInv => HeadsWalkable
  <2> SUFFICES ASSUME TrailInv, bodyLost = {}, NEW a \in Owners
               PROVE  0 \in WalkFrom[headOf[a]]
    BY DEF HeadsWalkable, WalkOK
  <2>1. Descends
    BY StoredDescends DEF TrailInv
  <2>2. headOf[a] \in onDisk \cup {0} /\ \A j \in onDisk : record[j].prev \in onDisk \cup {0}
    BY DEF TrailInv, Closed
  <2> QED
    BY <2>1, <2>2, WalkEnds, Assumed
<1> QED
  BY <1>1, Trails, PTL

\* A head is rebuilt only where all the records of the agent hang from it
\* (RepairLosesNothing).  The assumption is the tool's condition of use: nothing
\* in its code keeps it from running beside a daemon.
THEOREM RepairIsSafe ==
    ASSUME ~RepairLive
    PROVE  TrailSpec => RepairLosesNothing
<1>1. TrailInv /\ [TrailNext]_trailVars =>
        [\A a \in Owners : plan[a] # 0 /\ plan'[a] = 0
           => Chain(a) \subseteq WalkFrom[headOf'[a]]]_trailVars
  <2> SUFFICES ASSUME TrailInv, TrailNext, NEW a \in Owners, plan[a] # 0, plan'[a] = 0
               PROVE  Chain(a) \subseteq WalkFrom[headOf'[a]]
    OBVIOUS
  <2>1. Repair(a)
    <3>1. ~Scan /\ \A w \in Writers : ~Writing(w)
      BY DEF Scan, Writing
    <3>2. ~Die
      BY DEF Die
    <3>3. PICK b \in Owners : Repair(b)
      BY <3>1, <3>2 DEF TrailNext
    <3>4. b # a => plan'[a] = plan[a]
      BY <3>3 DEF Repair, TrailInv, TrailTypeOK
    <3> QED
      BY <3>3, <3>4
  <2>2. headOf'[a] = plan[a]
    BY <2>1 DEF Repair, TrailInv, TrailTypeOK
  <2>3. Recoverable(a, plan[a])
    BY DEF TrailInv, Serial
  <2> QED
    BY <2>2, <2>3 DEF Recoverable
<1> QED
  BY <1>1, Trails, PTL DEF TrailSpec, RepairLosesNothing

-----------------------------------------------------------------------------
(* Chains only grow.  The writer in the transaction hangs its record from    *)
(* the head that is still there when it moves it, and a record, a head or a  *)
(* plan of an agent leads to records of that agent.                          *)

HeadRead ==
  ~RepairLive => \A w \in Writers : Inside(w) /\ whose[w] # Nobody => record[building[w]].prev = headOf[whose[w]]

Of(i, a) == i = 0 \/ record[i].agent = a
OneFamily ==
  /\ \A i \in Built : Of(record[i].prev, record[i].agent)
  /\ \A a \in Owners : Of(headOf[a], a) /\ Of(plan[a], a)

GrowInv == TrailInv /\ HeadRead /\ OneFamily

\* A walk reads what is stored, of one agent.
LEMMA WalkStays ==
    ASSUME TrailTypeOK, Ordered, OneFamily, NEW a \in Owners, NEW i \in Built \cup {0}, Of(i, a)
    PROVE  WalkFrom[i] \subseteq Chain(a) \cup {0}
<1> USE Assumed
<1> DEFINE Bad == {n \in Built \cup {0} : Of(n, a) /\ ~(WalkFrom[n] \subseteq Chain(a) \cup {0})}
<1>1. Bad = {}
  <2> SUFFICES ASSUME Bad # {}
               PROVE  FALSE
    OBVIOUS
  <2>1. PICK n \in Bad : \A m \in Bad : n <= m
    <3>1. Bad \in SUBSET Nat
      BY DEF Built, Ids
    <3> HIDE DEF Bad
    <3> QED
      BY <3>1, Least
  <2>2. n \in 0..MaxRecords /\ Of(n, a) /\ ~(WalkFrom[n] \subseteq Chain(a) \cup {0})
    BY DEF Built, Ids
  <2>3. WalkFrom[n] = Reads(WalkFrom, n)
    BY <2>2, Walks, StoredDescends
  <2>4. n # 0 /\ n \in onDisk
    BY <2>2, <2>3 DEF Reads
  <2>5. n \in Built /\ record[n].agent = a /\ n \in Chain(a)
    BY <2>2, <2>4 DEF Of, Ordered, Chain
  <2>6. record[n].prev \in Built \cup {0} /\ record[n].prev < n /\ Of(record[n].prev, a)
    <3>1. record[n] \in Records /\ record[n].prev \in 0..MaxRecords /\ record[n].prev < n
      BY <2>5 DEF Ordered, TrailTypeOK, Records, Built
    <3>2. record[n].prev # 0 => record[n].prev \in Ids
      BY <3>1 DEF Ids
    <3>3. record[n].prev \in Built \cup {0}
      BY <2>5, <3>1, <3>2 DEF Ordered
    <3> QED
      BY <2>5, <3>1, <3>3 DEF OneFamily
  <2>7. record[n].prev \notin Bad
    <3>1. n \in Nat /\ record[n].prev \in Nat
      BY <2>2, <2>6 DEF Built, Ids
    <3> QED
      BY <2>1, <2>6, <3>1
  <2>8. WalkFrom[record[n].prev] \subseteq Chain(a) \cup {0}
    BY <2>6, <2>7
  <2> QED
    BY <2>2, <2>3, <2>4, <2>5, <2>8 DEF Reads
<1> QED
  BY <1>1

\* What WalkFrom is in the next state.
LEMMA WalksNow ==
    MaxRecords \in Nat /\ Descends => \A i \in 0..MaxRecords : WalkFrom[i] = Reads(WalkFrom, i)
BY Walks

LEMMA WalksNext ==
    ASSUME MaxRecords \in Nat, Descends'
    PROVE  \A i \in 0..MaxRecords : WalkFrom'[i] = Reads(WalkFrom, i)'
<1>1. (MaxRecords \in Nat /\ Descends => \A i \in 0..MaxRecords : WalkFrom[i] = Reads(WalkFrom, i))'
  BY WalksNow, PTL
<1> QED
  BY <1>1 DEF Reads

\* Storing another record leaves every walk that does not end early as it is.
LEMMA WalkSame ==
    ASSUME MaxRecords \in Nat, Descends, Descends',
           \A j \in onDisk : record[j].prev \in onDisk \cup {0},
           onDisk \subseteq onDisk', \A j \in onDisk : record'[j] = record[j],
           NEW i \in onDisk \cup {0}
    PROVE  WalkFrom'[i] = WalkFrom[i]
<1> DEFINE Bad == {n \in 0..MaxRecords : n \in onDisk \cup {0} /\ WalkFrom'[n] # WalkFrom[n]}
<1>1. Bad = {}
  <2> SUFFICES ASSUME Bad # {}
               PROVE  FALSE
    OBVIOUS
  <2>1. PICK n \in Bad : \A m \in Bad : n <= m
    <3>1. Bad \in SUBSET Nat
      OBVIOUS
    <3> HIDE DEF Bad
    <3> QED
      BY <3>1, Least
  <2>2. WalkFrom[n] = Reads(WalkFrom, n) /\ WalkFrom'[n] = Reads(WalkFrom, n)'
    BY Walks, WalksNext
  <2>3. n # 0 /\ n \in onDisk
    BY <2>2 DEF Reads
  <2>4. /\ record[n].prev \in 0..MaxRecords /\ record[n].prev < n /\ record[n].prev \in onDisk \cup {0}
        /\ record'[n] = record[n] /\ n \in onDisk'
    BY <2>3 DEF Descends
  <2>5. WalkFrom'[record[n].prev] = WalkFrom[record[n].prev]
    BY <2>1, <2>4
  <2> QED
    BY <2>2, <2>3, <2>4, <2>5 DEF Reads
<1>2. i \in 0..MaxRecords
  BY DEF Descends, Ids
<1> QED
  BY <1>1, <1>2

LEMMA InitGrows == TrailInit => GrowInv
<1> SUFFICES ASSUME TrailInit
             PROVE  GrowInv
  OBVIOUS
<1>1. HeadRead /\ OneFamily
  BY Assumed DEF TrailInit, HeadRead, OneFamily, Of, Inside, Built
<1> QED
  BY <1>1, InitTrail DEF GrowInv

\* A record hangs from the head its writer read, under the lock.
LEMMA HangsFromHead ==
    ASSUME TrailInv, HeadRead, TrailInv', [TrailNext]_trailVars
    PROVE  HeadRead'
<1> USE Assumed
<1>1. TrailTypeOK /\ Ordered /\ Locked /\ TrailTypeOK' /\ Locked'
  BY DEF TrailInv
<1> SUFFICES ASSUME ~RepairLive, NEW v \in Writers, Inside(v)', whose'[v] # Nobody
             PROVE  record'[building'[v]].prev = headOf'[whose'[v]]
  BY DEF HeadRead
<1>2. ASSUME UNCHANGED <<stage, whose, building, record, headOf>>
      PROVE  record'[building'[v]].prev = headOf'[whose'[v]]
  BY <1>2 DEF HeadRead, Inside
<1>3. CASE Die
  BY <1>3 DEF Die, Inside
<1>4. CASE Scan
  BY <1>4, <1>2 DEF Scan
<1>5. ASSUME NEW a \in Owners, Repair(a)
      PROVE  record'[building'[v]].prev = headOf'[whose'[v]]
  BY <1>5 DEF Repair, DaemonDown, Inside
<1>6. ASSUME NEW w \in Writers, Finalize(w)
      PROVE  record'[building'[v]].prev = headOf'[whose'[v]]
  <2>1. v # w
    BY <1>1, <1>6 DEF Finalize, Step, Inside, TrailTypeOK
  <2> QED
    BY <2>1, <1>1, <1>6 DEF Finalize, Step, Inside, TrailTypeOK, HeadRead
<1>7. ASSUME NEW w \in Writers, Build(w)
      PROVE  record'[building'[v]].prev = headOf'[whose'[v]]
  <2>1. v = w
    <3>1. holder' = v
      BY <1>1 DEF Locked
    <3> QED
      BY <3>1, <1>7 DEF Build
  <2>2. PICK i \in Ids \ Built :
          /\ record' = [record EXCEPT ![i] = [agent |-> whose[w], prev |-> IF whose[w] = Nobody THEN 0 ELSE headOf[whose[w]]]]
          /\ building' = [building EXCEPT ![w] = i]
    BY <1>7 DEF Build
  <2>3. building'[w] = i /\ record'[i].prev = IF whose[w] = Nobody THEN 0 ELSE headOf[whose[w]]
    BY <2>2, <1>1 DEF TrailTypeOK
  <2> QED
    BY <2>1, <2>3, <1>7 DEF Build
<1>8. ASSUME NEW w \in Writers, WriteRecord(w)
      PROVE  record'[building'[v]].prev = headOf'[whose'[v]]
  BY <1>1, <1>8 DEF WriteRecord, Step, Inside, TrailTypeOK, HeadRead
<1>9. ASSUME NEW w \in Writers, WriteHead(w) \/ SendResponse(w)
      PROVE  record'[building'[v]].prev = headOf'[whose'[v]]
  <2>1. v # w
    BY <1>1, <1>9 DEF WriteHead, SendResponse, Step, Inside, TrailTypeOK
  <2>2. Inside(v)
    BY <2>1, <1>1, <1>9 DEF WriteHead, SendResponse, Step, Inside, TrailTypeOK
  <2>3. CASE WriteHead(w)
    BY <2>1, <2>2, <2>3, <1>1 DEF WriteHead, Step, Inside, Locked
  <2>4. CASE SendResponse(w)
    BY <2>1, <2>2, <2>4, <1>1 DEF SendResponse, TrailTypeOK, HeadRead
  <2> QED
    BY <1>9, <2>3, <2>4
<1>10. CASE UNCHANGED trailVars
  BY <1>10, <1>2 DEF trailVars
<1> QED
  BY <1>3, <1>4, <1>5, <1>6, <1>7, <1>8, <1>9, <1>10 DEF TrailNext, Writing

\* Records, heads and plans stay within the family of one agent.
LEMMA FamilyStep ==
    ASSUME TrailInv, OneFamily, [TrailNext]_trailVars
    PROVE  OneFamily'
<1> USE Assumed
<1>1. TrailTypeOK /\ Ordered /\ Locked
  BY DEF TrailInv
<1>2. ASSUME record' = record,
             \A a \in Owners : headOf'[a] = headOf[a] \/ Of(headOf'[a], a),
             \A a \in Owners : plan'[a] \in {plan[a], 0} \/ Of(plan'[a], a)
      PROVE  OneFamily'
  <2>1. Built' = Built
    BY <1>2 DEF Built
  <2> QED
    BY <2>1, <1>2 DEF OneFamily, Of
<1>3. ASSUME UNCHANGED <<record, headOf, plan>>
      PROVE  OneFamily'
  BY <1>2, <1>3
<1>4. CASE Die
  BY <1>3, <1>4 DEF Die
<1>5. CASE Scan
  <2>1. ASSUME NEW a \in Owners
        PROVE  Of(plan'[a], a)
    <3>1. plan'[a] = IF \E i \in Ids : Recoverable(a, i) THEN CHOOSE i \in Ids : Recoverable(a, i) ELSE 0
      BY <1>5 DEF Scan
    <3>2. plan'[a] = 0 \/ Recoverable(a, plan'[a])
      BY <3>1
    <3> QED
      BY <3>2 DEF Recoverable, Tips, Chain, Of
  <2> QED
    BY <2>1, <1>2, <1>5 DEF Scan
<1>6. ASSUME NEW a \in Owners, Repair(a)
      PROVE  OneFamily'
  BY <1>1, <1>2, <1>6 DEF Repair, TrailTypeOK, OneFamily
<1>7. ASSUME NEW w \in Writers, Build(w)
      PROVE  OneFamily'
  <2>1. PICK i \in Ids \ Built :
          record' = [record EXCEPT ![i] = [agent |-> whose[w], prev |-> IF whose[w] = Nobody THEN 0 ELSE headOf[whose[w]]]]
    BY <1>7 DEF Build
  <2>2. /\ record'[i].agent = whose[w] /\ record'[i].prev = IF whose[w] = Nobody THEN 0 ELSE headOf[whose[w]]
        /\ \A j \in Ids \ {i} : record'[j] = record[j]
    BY <2>1, <1>1 DEF TrailTypeOK
  <2>3. Built' \subseteq Built \cup {i}
    BY <2>2 DEF Built
  <2>4. \A a : \A j \in Built \cup {0} : Of(j, a) => Of(j, a)'
    BY <2>2 DEF Of, Built
  <2>5. \A a \in Owners : headOf[a] \in Built \cup {0} /\ plan[a] \in Built \cup {0}
    BY <1>1 DEF Ordered
  <2>6. \A a \in Owners : Of(headOf[a], a)' /\ Of(plan[a], a)'
    <3>1. headOf' = headOf /\ plan' = plan
      BY <1>7 DEF Build
    <3>2. \A a \in Owners : Of(headOf[a], a) /\ Of(plan[a], a)
      BY DEF OneFamily
    <3> QED
      BY <3>1, <3>2, <2>2, <2>5 DEF Of, Built
  <2>7. ASSUME NEW j \in Built'
        PROVE  Of(record[j].prev, record[j].agent)'
    <3>1. CASE j = i
      <4>1. whose[w] \in Owners \cup {Nobody}
        BY <1>1 DEF TrailTypeOK
      <4>2. whose[w] # Nobody => record'[i].prev = headOf'[whose[w]] /\ whose[w] \in Owners
        BY <4>1, <2>2, <1>7 DEF Build
      <4>3. whose[w] # Nobody => Of(headOf[whose[w]], whose[w])'
        BY <4>2, <2>6, <1>7 DEF Build
      <4> QED
        BY <3>1, <4>2, <4>3, <2>2, <1>7 DEF Of, Build
    <3>2. CASE j # i
      <4>1. j \in Built /\ record'[j] = record[j]
        BY <3>2, <2>2, <2>3 DEF Built
      <4>2. record[j].prev \in Built \cup {0}
        BY <4>1, <1>1 DEF TrailTypeOK, Ordered, Records, Built, Ids
      <4> QED
        BY <4>1, <4>2, <2>2 DEF Of, OneFamily, Built
    <3> QED
      BY <3>1, <3>2
  <2> QED
    BY <2>6, <2>7 DEF OneFamily
<1>8. ASSUME NEW w \in Writers, WriteHead(w)
      PROVE  OneFamily'
  <2>1. record[building[w]].agent = whose[w] /\ record' = record /\ plan' = plan
    BY <1>1, <1>8 DEF WriteHead, Step, Locked, Inside
  <2>2. headOf' = headOf \/ headOf' = [headOf EXCEPT ![whose[w]] = building[w]]
    BY <1>8 DEF WriteHead
  <2>3. \A a \in Owners : headOf'[a] = headOf[a] \/ Of(headOf'[a], a)
    BY <2>1, <2>2, <1>1 DEF TrailTypeOK, Of
  <2> QED
    BY <2>1, <2>3, <1>2
<1>9. ASSUME NEW w \in Writers, Finalize(w) \/ WriteRecord(w) \/ SendResponse(w)
      PROVE  OneFamily'
  BY <1>3, <1>9 DEF Finalize, WriteRecord, SendResponse
<1>10. CASE UNCHANGED trailVars
  BY <1>3, <1>10 DEF trailVars
<1> QED
  BY <1>4, <1>5, <1>6, <1>7, <1>8, <1>9, <1>10 DEF TrailNext, Writing

LEMMA GrowStep == GrowInv /\ [TrailNext]_trailVars => GrowInv'
BY TrailStep, HangsFromHead, FamilyStep DEF GrowInv

\* A step takes no record from a walk that starts at a head.
LEMMA WalkGrows ==
    ASSUME GrowInv, TrailInv', [TrailNext]_trailVars, ~RepairLive, bodyLost = {}, NEW a \in Owners
    PROVE  WalkFrom[headOf[a]] \subseteq (WalkFrom[headOf[a]])'
<1> USE Assumed
<1>1. /\ TrailTypeOK /\ Ordered /\ Locked /\ Closed /\ Serial /\ HeadRead /\ OneFamily
      /\ TrailTypeOK' /\ Ordered'
  BY DEF GrowInv, TrailInv
<1>2. /\ Descends /\ Descends' /\ headOf[a] \in onDisk \cup {0}
      /\ \A j \in onDisk : record[j].prev \in onDisk \cup {0}
  <2>1. TrailTypeOK /\ Ordered => Descends
    BY StoredDescends
  <2>2. (TrailTypeOK /\ Ordered => Descends)'
    BY StoredDescends, PTL
  <2> QED
    BY <2>1, <2>2, <1>1 DEF Closed
<1>3. ASSUME headOf'[a] = headOf[a], onDisk \subseteq onDisk', \A j \in onDisk : record'[j] = record[j]
      PROVE  WalkFrom[headOf[a]] \subseteq (WalkFrom[headOf[a]])'
  BY <1>2, <1>3, WalkSame
<1>4. ASSUME UNCHANGED <<headOf, onDisk, record>>
      PROVE  WalkFrom[headOf[a]] \subseteq (WalkFrom[headOf[a]])'
  BY <1>3, <1>4
<1>5. CASE Die \/ Scan
  BY <1>4, <1>5 DEF Die, Scan
<1>6. ASSUME NEW b \in Owners, Repair(b)
      PROVE  WalkFrom[headOf[a]] \subseteq (WalkFrom[headOf[a]])'
  <2>1. /\ plan[b] # 0 /\ headOf' = [headOf EXCEPT ![b] = plan[b]] /\ UNCHANGED <<record, onDisk>>
    BY <1>6 DEF Repair
  <2>2. CASE a # b
    BY <2>1, <2>2, <1>1, <1>3 DEF TrailTypeOK
  <2>3. CASE a = b
    <3>1. headOf'[a] = plan[a]
      BY <2>1, <2>3, <1>1 DEF TrailTypeOK
    <3>2. WalkFrom[plan[a]] = Chain(a) \cup {0}
      BY <2>1, <2>3, <1>1 DEF Serial, Recoverable
    <3>3. headOf[a] \in Built \cup {0} /\ Of(headOf[a], a)
      BY <1>1 DEF Ordered, OneFamily
    <3>4. WalkFrom[headOf[a]] \subseteq Chain(a) \cup {0}
      BY <3>3, <1>1, WalkStays
    <3>5. WalkFrom' = WalkFrom
      BY <2>1 DEF WalkFrom
    <3> QED
      BY <3>1, <3>2, <3>4, <3>5
  <2> QED
    BY <2>2, <2>3
<1>7. ASSUME NEW w \in Writers, Build(w)
      PROVE  WalkFrom[headOf[a]] \subseteq (WalkFrom[headOf[a]])'
  <2>1. \A j \in Built : record'[j] = record[j]
    BY <1>1, <1>7 DEF Build, TrailTypeOK, Built
  <2> QED
    BY <2>1, <1>1, <1>3, <1>7 DEF Build, Ordered
<1>8. ASSUME NEW w \in Writers, WriteHead(w)
      PROVE  WalkFrom[headOf[a]] \subseteq (WalkFrom[headOf[a]])'
  <2>1. /\ stage[w] = "head" /\ UNCHANGED <<record, onDisk>>
        /\ headOf' = headOf \/ (whose[w] # Nobody /\ headOf' = [headOf EXCEPT ![whose[w]] = building[w]])
    BY <1>8 DEF WriteHead, Step
  <2>2. CASE headOf'[a] = headOf[a]
    BY <2>1, <2>2, <1>3
  <2>3. CASE headOf'[a] # headOf[a]
    <3>1. a = whose[w] /\ headOf'[a] = building[w]
      BY <2>1, <2>3, <1>1 DEF TrailTypeOK
    <3>2. building[w] \in onDisk /\ building[w] \in 0..MaxRecords /\ building[w] # 0
      BY <2>1, <1>1 DEF Locked, TrailTypeOK, Ids
    <3>3. record[building[w]].prev = headOf[a]
      BY <2>1, <3>1, <1>1 DEF HeadRead, Inside
    <3>4. WalkFrom[building[w]] = {building[w]} \cup WalkFrom[headOf[a]]
      BY <3>2, <3>3, <1>2, Walks DEF Reads
    <3>5. WalkFrom' = WalkFrom
      BY <2>1 DEF WalkFrom
    <3> QED
      BY <3>1, <3>4, <3>5
  <2> QED
    BY <2>2, <2>3
<1>9. ASSUME NEW w \in Writers, Finalize(w) \/ SendResponse(w)
      PROVE  WalkFrom[headOf[a]] \subseteq (WalkFrom[headOf[a]])'
  BY <1>4, <1>9 DEF Finalize, SendResponse
<1>10. ASSUME NEW w \in Writers, WriteRecord(w)
       PROVE  WalkFrom[headOf[a]] \subseteq (WalkFrom[headOf[a]])'
  BY <1>3, <1>10 DEF WriteRecord
<1>11. CASE UNCHANGED trailVars
  BY <1>4, <1>11 DEF trailVars
<1> QED
  BY <1>5, <1>6, <1>7, <1>8, <1>9, <1>10, <1>11 DEF TrailNext, Writing

\* A record that a walk from its agent's head reads is read by every later
\* walk, whatever dies or fails meanwhile, while no body is lost and the tool
\* runs with the daemon down (ChainsOnlyGrow; audit_chain.py:50).
THEOREM NoBranchIsOrphaned == TrailSpec => ChainsOnlyGrow
<1>1. GrowInv /\ [TrailNext]_trailVars =>
        [~RepairLive /\ bodyLost = {}
           => \A a \in Owners : WalkFrom[headOf[a]] \subseteq (WalkFrom[headOf[a]])']_trailVars
  BY TrailStep, WalkGrows DEF GrowInv
<1>2. TrailSpec => []GrowInv
  BY InitGrows, GrowStep, PTL DEF TrailSpec
<1> QED
  BY <1>1, <1>2, PTL DEF TrailSpec, ChainsOnlyGrow

-----------------------------------------------------------------------------
(* The purchase assertions.  A thread holds an assertion once mod_merchant   *)
(* has let its request by and until the handler has run.                     *)

PastMerchant(t) == \E i \in DOMAIN order : order[i] = "merchant" /\ i < hook[t]
Holds(t, x) ==
  /\ pc[t] = "handler" \/ (pc[t] = "before" /\ PastMerchant(t))
  /\ req[t].kind = "buy" /\ req[t].assertion = x

Steps == {"idle", "before", "handler", "after", "finish"}
Purchases == [jti : {x.jti : x \in Assertions}, at : Nat]
PipeTypes ==
  /\ order \in Orders /\ now \in Nat
  /\ pc \in [Threads -> Steps] /\ hook \in [Threads -> Nat] /\ req \in [Threads -> AnyRequest \cup {None}]
  /\ bought \in Seq(Purchases)

\* While an assertion lives, it is with one thread at the most or has bought,
\* and in both cases the store has it down for the rest of its life.
Spent(x) == \E i \in DOMAIN bought : bought[i].jti = x.jti
Alone(x) ==
  /\ \A t, u \in Threads : Holds(t, x) /\ Holds(u, x) => t = u
  /\ \A t \in Threads : ~(Holds(t, x) /\ Spent(x))
Recorded(x) == \E e \in seen : e.jti = x.jti /\ e.until = x.exp
Once(x) ==
  /\ \A i, k \in DOMAIN bought :
       bought[i].jti = x.jti /\ bought[k].jti = x.jti /\ bought[i].at < x.exp /\ bought[k].at < x.exp => i = k
  /\ now < x.exp => Alone(x) /\ (Spent(x) \/ (\E t \in Threads : Holds(t, x)) => Recorded(x))

PipeInv == PipeTypes /\ (Durable => \A x \in Assertions : x.jti \notin unchecked => Once(x))

\* What a request to buy carries.
LEMMA Buying ==
    ASSUME NEW r \in AnyRequest \cup {None}, r.kind = "buy"
    PROVE  r.assertion \in Assertions
<1>1. \A k \in Keys, c \in BOOLEAN : ToRead(k, c).kind # "buy"
  BY DEF ToRead, None
<1>2. \A x \in Assertions : ToBuy(x).assertion = x
  BY DEF ToBuy, None
<1>3. r # None
  BY DEF None
<1> QED
  BY <1>1, <1>2, <1>3 DEF AnyRequest

\* A step at which nobody buys, and nobody comes to hold what is accounted for.
LEMMA OnceStill ==
    ASSUME NEW x \in Assertions, Once(x), now \in Nat, now' \in Nat, now <= now', UNCHANGED bought,
           \A t \in Threads : Holds(t, x)' => Holds(t, x),
           now < x.exp /\ Recorded(x) => Recorded(x)'
    PROVE  Once(x)'
<1>1. Spent(x)' <=> Spent(x)
  BY DEF Spent
<1>2. now' < x.exp => now < x.exp
  BY PipelineAssumption
<1>3. Alone(x) => Alone(x)'
  BY <1>1 DEF Alone
<1> QED
  BY <1>1, <1>2, <1>3 DEF Once

\* A step of thread t moves nobody else.
Moves(t) ==
  /\ \A u \in Threads \ {t} : pc'[u] = pc[u] /\ hook'[u] = hook[u] /\ req'[u] = req[u]
  /\ UNCHANGED order
LEMMA OthersHold ==
    ASSUME NEW t \in Threads, Moves(t), NEW u \in Threads \ {t}, NEW x
    PROVE  Holds(u, x)' <=> Holds(u, x)
BY DEF Moves, Holds, PastMerchant

LEMMA ServingMoves ==
    ASSUME PipeTypes, NEW t \in Threads, Receive(t) \/ Serving(t)
    PROVE  Moves(t)
<1> USE DEF Goto, NextHook, PassHook, ShortCircuit, Stop, storeVars
<1>1. CASE Receive(t)
  BY <1>1 DEF Receive, Moves, PipeTypes
<1>2. CASE NoMoreBefore(t)
  BY <1>2 DEF NoMoreBefore, Moves, PipeTypes
<1>3. CASE BeforeIdle(t)
  BY <1>3 DEF BeforeIdle, Moves, PipeTypes
<1>4. CASE CertHook(t)
  BY <1>4 DEF CertHook, Moves, PipeTypes
<1>5. CASE Merchant(t)
  BY <1>5 DEF Merchant, Moves, PipeTypes
<1>6. CASE MerchantRaises(t)
  BY <1>6 DEF MerchantRaises, Moves, PipeTypes
<1>7. CASE CacheBefore(t)
  BY <1>7 DEF CacheBefore, Moves, PipeTypes
<1>8. CASE Handler(t)
  BY <1>8 DEF Handler, Moves, PipeTypes
<1>9. CASE After(t)
  BY <1>9 DEF After, Moves, PipeTypes
<1>10. CASE NoMoreAfter(t)
  BY <1>10 DEF NoMoreAfter, Moves, PipeTypes
<1>11. CASE Reply(t)
  BY <1>11 DEF Reply, Moves, PipeTypes
<1> QED
  BY <1>1, <1>2, <1>3, <1>4, <1>5, <1>6, <1>7, <1>8, <1>9, <1>10, <1>11 DEF Serving

LEMMA TypesKept ==
    ASSUME PipeTypes, [PipeNext]_pipeVars
    PROVE  PipeTypes'
<1> USE DEF PipeTypes, Steps
<1>2. ASSUME NEW t \in Threads, Receive(t) \/ Serving(t)
      PROVE  PipeTypes'
  <2> USE DEF Goto, NextHook, PassHook, ShortCircuit, Stop, storeVars
  <2>1. CASE Receive(t)
    BY <2>1 DEF Receive
  <2>2. CASE NoMoreBefore(t)
    BY <2>2 DEF NoMoreBefore
  <2>3. CASE BeforeIdle(t)
    BY <2>3 DEF BeforeIdle
  <2>4. CASE CertHook(t)
    BY <2>4 DEF CertHook
  <2>5. CASE Merchant(t)
    <3>1. CASE PassHook(t)
      BY <2>5, <3>1 DEF Merchant
    <3>2. CASE Stop(t)
      BY <2>5, <3>2 DEF Merchant
    <3> QED
      BY <2>5, <3>1, <3>2, Zenon DEF Merchant
  <2>6. CASE MerchantRaises(t)
    BY <2>6 DEF MerchantRaises
  <2>7. CASE CacheBefore(t)
    <3>1. CASE PassHook(t)
      BY <2>7, <3>1 DEF CacheBefore
    <3>2. CASE \E e \in Found(req[t].key) : ShortCircuit(t, [by |-> "cache", born |-> e.born])
      BY <2>7, <3>2 DEF CacheBefore
    <3> QED
      BY <2>7, <3>1, <3>2, Zenon DEF CacheBefore
  <2>8. CASE Handler(t)
    <3>1. req[t].kind = "buy" => [jti |-> req[t].assertion.jti, at |-> now] \in Purchases
      BY Buying DEF Purchases
    <3>2. bought' \in Seq(Purchases)
      <4>1. CASE UNCHANGED bought
        BY <4>1
      <4>2. CASE req[t].kind = "buy" /\ bought' = Append(bought, [jti |-> req[t].assertion.jti, at |-> now])
        BY <3>1, <4>2
      <4> QED
        BY <2>8, <4>1, <4>2, Zenon DEF Handler
    <3> QED
      BY <2>8, <3>2 DEF Handler
  <2>9. CASE After(t)
    BY <2>9 DEF After
  <2>10. CASE NoMoreAfter(t)
    BY <2>10 DEF NoMoreAfter
  <2>11. CASE Reply(t)
    BY <2>11 DEF Reply
  <2> QED
    BY <1>2, <2>1, <2>2, <2>3, <2>4, <2>5, <2>6, <2>7, <2>8, <2>9, <2>10, <2>11 DEF Serving
<1>3. CASE Tick
  BY <1>3 DEF Tick, threadVars, storeVars
<1>4. CASE Crash
  BY <1>4 DEF Crash
<1>5. CASE UNCHANGED pipeVars
  BY <1>5 DEF pipeVars, threadVars, storeVars
<1> QED
  BY <1>2, <1>3, <1>4, <1>5 DEF PipeNext

\* The merchant's step: what it lets by was nowhere, and is written down.
LEMMA MerchantOnce ==
    ASSUME PipeTypes, NEW t \in Threads, Merchant(t), NEW x \in Assertions, Once(x)
    PROVE  Once(x)'
<1> DEFINE y == req[t].assertion
<1>1. Moves(t) /\ UNCHANGED <<bought, now>> /\ req'[t] = req[t] /\ y \in Assertions
  BY ServingMoves, Buying DEF Serving, Merchant, PipeTypes
<1>2. seen' = seen \/ Live \subseteq seen'
  BY DEF Merchant
<1>3. now < x.exp /\ Recorded(x) => Recorded(x)'
  BY <1>1, <1>2, PipelineAssumption DEF Recorded, Live, PipeTypes
<1>4. Holds(t, x)' => x = y
  BY <1>1 DEF Holds
<1>5. CASE Holds(t, x)' => Holds(t, x)
  <2>1. \A u \in Threads : Holds(u, x)' => Holds(u, x)
    BY <1>1, <1>5, OthersHold
  <2> QED
    BY <1>1, <1>3, <2>1, OnceStill DEF PipeTypes
<1>6. CASE Holds(t, x)' /\ ~Holds(t, x)
  <2>1. /\ seen' = Live \cup {[jti |-> x.jti, until |-> Until(x)]}
        /\ ~\E e \in Live : e.jti = x.jti
    BY <1>4, <1>6 DEF Merchant, Stop, ShortCircuit, Goto, Holds, PipeTypes
  <2>2. now < x.exp => ~Recorded(x)
    BY <2>1, PipelineAssumption DEF Live, Recorded, PipeTypes
  <2>3. now < x.exp => ~Spent(x) /\ \A u \in Threads : ~Holds(u, x)
    BY <2>2 DEF Once
  <2>4. now < x.exp => Recorded(x)'
    <3>1. now < x.exp => Until(x) = x.exp
      BY PipelineAssumption DEF Until, PipeTypes
    <3> QED
      <4>1. now < x.exp => [jti |-> x.jti, until |-> x.exp] \in seen'
        BY <2>1, <3>1
      <4>2. [jti |-> x.jti, until |-> x.exp] \in seen' => Recorded(x)'
        BY DEF Recorded
      <4> QED
        BY <4>1, <4>2
  <2>5. Spent(x)' <=> Spent(x)
    BY <1>1 DEF Spent
  <2>6. now < x.exp => Alone(x)'
    BY <1>1, <2>3, <2>5, OthersHold DEF Alone
  <2> QED
    BY <1>1, <2>4, <2>6 DEF Once
<1> QED
  BY <1>5, <1>6

\* The handler's step: the assertion is with this thread alone, and is gone.
LEMMA HandlerOnce ==
    ASSUME PipeTypes, NEW t \in Threads, Handler(t), NEW x \in Assertions, Once(x)
    PROVE  Once(x)'
<1>1. Moves(t) /\ UNCHANGED <<seen, now>> /\ ~Holds(t, x)'
  BY ServingMoves DEF Serving, Handler, Goto, Holds, PipeTypes
<1>2. \A u \in Threads : Holds(u, x)' => Holds(u, x) /\ u # t
  BY <1>1, OthersHold
<1>3. CASE UNCHANGED bought
  BY <1>1, <1>2, <1>3, OnceStill DEF Recorded, PipeTypes
<1>4. CASE bought' # bought
  <2> DEFINE y == req[t].assertion
             n == Len(bought) + 1
  <2>1. req[t].kind = "buy" /\ Holds(t, y) /\ y \in Assertions
    BY <1>4, Buying DEF Handler, Holds, PipeTypes
  <2>2. bought' = Append(bought, [jti |-> y.jti, at |-> now])
    BY <1>4 DEF Handler
  <2>3. /\ DOMAIN bought' = DOMAIN bought \cup {n} /\ n \notin DOMAIN bought
        /\ bought'[n].jti = y.jti /\ bought'[n].at = now
        /\ \A i \in DOMAIN bought : bought'[i] = bought[i]
    BY <2>2 DEF PipeTypes
  <2>4. CASE x = y
    <3>1. now < x.exp => ~Spent(x) /\ \A u \in Threads : Holds(u, x) => u = t
      BY <2>1, <2>4 DEF Once, Alone
    <3>2. now < x.exp => Alone(x)' /\ Recorded(x)'
      BY <1>1, <1>2, <2>1, <2>4, <3>1 DEF Once, Alone, Recorded
    <3>3. ASSUME NEW i \in DOMAIN bought', NEW k \in DOMAIN bought',
                 bought'[i].jti = x.jti, bought'[k].jti = x.jti, bought'[i].at < x.exp, bought'[k].at < x.exp
          PROVE  i = k
      <4>1. CASE now < x.exp
        BY <2>3, <3>1, <3>3, <4>1 DEF Spent
      <4>2. CASE ~(now < x.exp)
        BY <2>3, <3>3, <4>2 DEF Once
      <4> QED
        BY <4>1, <4>2
    <3> QED
      BY <1>1, <3>2, <3>3 DEF Once
  <2>5. CASE x # y
    <3>1. x.jti # y.jti
      BY <2>1, <2>5, PipelineAssumption
    <3>2. Spent(x)' <=> Spent(x)
      BY <2>3, <3>1 DEF Spent
    <3>3. now < x.exp => Alone(x)' /\ (Spent(x)' \/ (\E u \in Threads : Holds(u, x)') => Recorded(x)')
      BY <1>1, <1>2, <3>2 DEF Once, Alone, Recorded
    <3>4. ASSUME NEW i \in DOMAIN bought', NEW k \in DOMAIN bought',
                 bought'[i].jti = x.jti, bought'[k].jti = x.jti, bought'[i].at < x.exp, bought'[k].at < x.exp
          PROVE  i = k
      BY <2>3, <3>1, <3>4 DEF Once
    <3> QED
      BY <1>1, <3>3, <3>4 DEF Once
  <2> QED
    BY <2>4, <2>5
<1> QED
  BY <1>3, <1>4

\* The steps of thread t at which nothing comes to be held.
LEMMA ServingOnce ==
    ASSUME PipeTypes, NEW t \in Threads, Receive(t) \/ Serving(t), NEW x \in Assertions, x.jti \notin unchecked', Once(x)
    PROVE  Once(x)'
<1> USE DEF Goto, NextHook, PassHook, ShortCircuit, Stop, storeVars
<1>1. Moves(t)
  BY ServingMoves
<1>2. ASSUME UNCHANGED <<seen, bought, now>>, Holds(t, x)' => Holds(t, x)
      PROVE  Once(x)'
  <2>1. \A u \in Threads : Holds(u, x)' => Holds(u, x)
    BY <1>1, <1>2, OthersHold
  <2>2. Recorded(x)' <=> Recorded(x)
    BY <1>2 DEF Recorded
  <2> QED
    BY <1>2, <2>1, <2>2, OnceStill DEF PipeTypes
<1>3. order \in Seq({"cert", "merchant", "cache"}) /\ \E i \in DOMAIN order : order[i] = "merchant"
  BY PipelineAssumption DEF PipeTypes
<1>4. CASE Receive(t)
  <2>1. pc'[t] = "before" /\ hook'[t] = 1 /\ UNCHANGED <<seen, bought, now>>
    BY <1>4 DEF Receive, PipeTypes
  <2>2. ~PastMerchant(t)'
    BY <2>1, <1>1, <1>3 DEF PastMerchant, Moves
  <2> QED
    BY <2>1, <2>2, <1>2 DEF Holds
<1>5. CASE NoMoreBefore(t)
  <2>1. PastMerchant(t)
    BY <1>3, <1>5 DEF NoMoreBefore, PastMerchant, PipeTypes
  <2> QED
    BY <2>1, <1>2, <1>5 DEF NoMoreBefore, Holds, PipeTypes
<1>6. CASE BeforeIdle(t)
  <2>1. /\ pc'[t] = "before" /\ pc[t] = "before" /\ hook'[t] = hook[t] + 1 /\ req'[t] = req[t]
        /\ UNCHANGED <<seen, bought, now>>
    BY <1>6 DEF BeforeIdle, PipeTypes
  <2>2. PastMerchant(t)' => PastMerchant(t) \/ Hook(t) = "merchant"
    BY <2>1, <1>1, <1>3 DEF PastMerchant, Moves, Hook, PipeTypes
  <2>3. Hook(t) = "merchant" => req[t].kind # "buy"
    BY <1>6 DEF BeforeIdle
  <2> QED
    BY <2>1, <2>2, <2>3, <1>2 DEF Holds
<1>7. CASE CertHook(t)
  BY <1>7, <1>2 DEF CertHook, Holds, PipeTypes
<1>8. CASE Merchant(t)
  BY <1>8, MerchantOnce
<1>9. CASE MerchantRaises(t)
  <2>1. req'[t] = req[t] /\ UNCHANGED <<seen, bought, now>> /\ req[t].assertion # x
    BY <1>9 DEF MerchantRaises
  <2> QED
    BY <2>1, <1>2 DEF Holds
<1>10. CASE CacheBefore(t)
  <2>1. req'[t] = req[t] /\ UNCHANGED <<seen, bought, now>> /\ req[t].kind # "buy"
    BY <1>10 DEF CacheBefore
  <2> QED
    BY <2>1, <1>2 DEF Holds
<1>11. CASE Handler(t)
  BY <1>11, HandlerOnce
<1>12. CASE After(t)
  BY <1>12, <1>2 DEF After, Holds, PipeTypes
<1>13. CASE NoMoreAfter(t)
  BY <1>13, <1>2 DEF NoMoreAfter, Holds, PipeTypes
<1>14. CASE Reply(t)
  BY <1>14, <1>2 DEF Reply, Holds, PipeTypes
<1> QED
  BY <1>4, <1>5, <1>6, <1>7, <1>8, <1>9, <1>10, <1>11, <1>12, <1>13, <1>14 DEF Serving

\* Every step of the threads, of the clock or of a crash keeps the invariant.
LEMMA PipeStep == PipeInv /\ [PipeNext]_pipeVars => PipeInv'
<1> SUFFICES ASSUME PipeInv, [PipeNext]_pipeVars
             PROVE  PipeInv'
  OBVIOUS
<1>1. PipeTypes /\ PipeTypes'
  BY TypesKept DEF PipeInv
<1> SUFFICES ASSUME Durable, NEW x \in Assertions, x.jti \notin unchecked'
             PROVE  Once(x)'
  BY <1>1 DEF PipeInv
<1>2. unchecked \subseteq unchecked'
  BY DEF PipeNext, pipeVars, storeVars, Tick, Crash, Receive, Serving, NoMoreBefore, BeforeIdle, CertHook, Merchant,
         MerchantRaises, CacheBefore, Handler, After, NoMoreAfter, Reply
<1>3. Once(x)
  BY <1>2 DEF PipeInv
<1>4. ASSUME NEW t \in Threads, Receive(t) \/ Serving(t)
      PROVE  Once(x)'
  BY <1>1, <1>3, <1>4, ServingOnce
<1>5. ASSUME UNCHANGED <<seen, bought>>, now <= now', \A u \in Threads : Holds(u, x)' => Holds(u, x)
      PROVE  Once(x)'
  <2>1. Recorded(x)' <=> Recorded(x)
    BY <1>5 DEF Recorded
  <2> QED
    BY <1>1, <1>3, <1>5, <2>1, OnceStill DEF PipeTypes
<1>6. CASE Tick
  BY <1>1, <1>5, <1>6 DEF Tick, threadVars, storeVars, Holds, PastMerchant, PipeTypes
<1>7. CASE Crash
  BY <1>1, <1>5, <1>7 DEF Crash, Holds, PipeTypes
<1>8. CASE UNCHANGED pipeVars
  BY <1>1, <1>5, <1>8 DEF pipeVars, threadVars, storeVars, Holds, PastMerchant, PipeTypes
<1> QED
  BY <1>4, <1>6, <1>7, <1>8 DEF PipeNext

\* A daemon that starts serves nobody and has sold nothing.
LEMMA InitPipe == PipeInit => PipeInv
<1> SUFFICES ASSUME PipeInit
             PROVE  PipeInv
  OBVIOUS
<1>1. PipeTypes
  BY DEF PipeInit, PipeTypes, Steps
<1>2. ASSUME NEW x \in Assertions
      PROVE  Once(x)
  BY DEF PipeInit, Once, Alone, Spent, Holds
<1> QED
  BY <1>1, <1>2 DEF PipeInv

\* While an assertion is alive it buys once at the most, whichever threads
\* present it, in whatever order the hooks were loaded and however often the
\* daemon restarts (BoughtOnceInLife; replay_store.py:80).
THEOREM BuysOnce == PipeSpec => []BoughtOnceInLife
<1>1. PipeSpec => []PipeInv
  BY InitPipe, PipeStep, PTL DEF PipeSpec
<1>2. PipeInv => BoughtOnceInLife
  <2> SUFFICES ASSUME PipeInv, Durable, NEW x \in Assertions, x.jti \notin unchecked
               PROVE  Cardinality({i \in DOMAIN bought : bought[i].jti = x.jti /\ bought[i].at < x.exp}) <= 1
    BY DEF BoughtOnceInLife
  <2> DEFINE S == {i \in DOMAIN bought : bought[i].jti = x.jti /\ bought[i].at < x.exp}
  <2>1. \A i, k \in S : i = k
    BY DEF PipeInv, Once
  <2>2. CASE S = {}
    BY <2>2, FS_EmptySet
  <2>3. ASSUME NEW i \in S
        PROVE  Cardinality(S) = 1
    <3>1. S = {i}
      BY <2>1
    <3> QED
      BY <3>1, FS_Singleton
  <2> QED
    BY <2>2, <2>3
<1> QED
  BY <1>1, <1>2, PTL

-----------------------------------------------------------------------------
(* The walk of the inspector over the records of several daemons.            *)

\* The references kept of the first n, given those kept of fewer.
Keeps(f, n, refs) ==
  IF n = 0 THEN <<>> ELSE IF refs[n].id = 0 THEN f[n - 1] ELSE Append(f[n - 1], refs[n])

\* The recursion that drops references is a function, of any list.
LEMMA Keepable ==
    ASSUME NEW refs, NEW N \in Nat
    PROVE  \E f : f = [n \in 0..N |-> Keeps(f, n, refs)]
<1> DEFINE Good(n) == \E f : f = [i \in 0..n |-> Keeps(f, i, refs)]
           Bad == {n \in 0..N : ~Good(n)}
<1>1. Good(0)
  <2>1. LET f == [i \in 0..0 |-> <<>>] IN f = [i \in 0..0 |-> Keeps(f, i, refs)]
    BY DEF Keeps
  <2> QED
    BY <2>1
<1>2. ASSUME NEW n \in 1..N, Good(n - 1)
      PROVE  Good(n)
  <2>1. PICK g : g = [i \in 0..(n - 1) |-> Keeps(g, i, refs)]
    BY <1>2
  <2> DEFINE f == [i \in 0..n |-> IF i < n THEN g[i] ELSE Keeps(g, n, refs)]
  <2>2. ASSUME NEW i \in 0..n
        PROVE  f[i] = Keeps(f, i, refs)
    <3>1. i # 0 => i - 1 \in 0..(n - 1) /\ f[i - 1] = g[i - 1]
      OBVIOUS
    <3>2. Keeps(f, i, refs) = Keeps(g, i, refs)
      BY <3>1 DEF Keeps
    <3>3. i < n => i \in 0..(n - 1) /\ f[i] = g[i]
      OBVIOUS
    <3>4. i < n => g[i] = Keeps(g, i, refs)
      BY <3>3, <2>1
    <3> QED
      BY <3>2, <3>3, <3>4
  <2>3. f = [i \in 0..n |-> f[i]]
    OBVIOUS
  <2>4. f = [i \in 0..n |-> Keeps(f, i, refs)]
    <3> HIDE DEF f
    <3> QED
      BY <2>2, <2>3
  <2> QED
    BY <2>4
<1>3. Bad = {}
  <2> SUFFICES ASSUME Bad # {}
               PROVE  FALSE
    OBVIOUS
  <2> HIDE DEF Good
  <2>1. PICK n \in Bad : \A m \in Bad : n <= m
    <3>1. Bad \in SUBSET Nat
      OBVIOUS
    <3> HIDE DEF Bad
    <3> QED
      BY <3>1, Least
  <2>2. n # 0 /\ n \in 1..N
    BY <1>1
  <2>3. Good(n - 1)
    BY <2>1, <2>2
  <2> QED
    BY <1>2, <2>2, <2>3
<1> QED
  BY <1>3

\* What is kept is a list of references.
LEMMA KeptAreReferences ==
    ASSUME NEW R, NEW refs \in Seq(R), NEW f, f = [n \in 0..Len(refs) |-> Keeps(f, n, refs)]
    PROVE  f[Len(refs)] \in Seq(R)
<1> DEFINE Bad == {n \in 0..Len(refs) : f[n] \notin Seq(R)}
<1>1. Bad = {}
  <2> SUFFICES ASSUME Bad # {}
               PROVE  FALSE
    OBVIOUS
  <2>1. PICK n \in Bad : \A m \in Bad : n <= m
    <3>1. Bad \in SUBSET Nat
      OBVIOUS
    <3> HIDE DEF Bad
    <3> QED
      BY <3>1, Least
  <2>2. f[n] = Keeps(f, n, refs)
    OBVIOUS
  <2>3. ASSUME n # 0
        PROVE  f[n - 1] \in Seq(R) /\ refs[n] \in R
    <3>1. n - 1 \in 0..Len(refs) /\ n - 1 < n /\ n \in 1..Len(refs)
      BY <2>3
    <3> QED
      BY <2>1, <3>1
  <2>4. f[n] \in {<<>>, f[n - 1], Append(f[n - 1], refs[n])} /\ (n = 0 => f[n] = <<>>)
    BY <2>2, Zenon DEF Keeps
  <2>5. f[n] \in Seq(R)
    <3>1. n # 0 => Append(f[n - 1], refs[n]) \in Seq(R)
      BY <2>3, AppendProperties
    <3> QED
      BY <2>3, <2>4, <3>1, EmptySeq
  <2> QED
    BY <2>5
<1> QED
  BY <1>1

RefsOf(w) == UNION {Range(w.records[i].refs) : i \in DOMAIN w.records}
IdsOf(w) == {w.start} \cup {w.records[i].prev : i \in DOMAIN w.records} \cup {r.id : r \in RefsOf(w)}
UrisOf(w) == {w.startUri, Nowhere} \cup {r.uri : r \in RefsOf(w)} \cup Range(w.known)
WalkVerdicts == {"no-agent-uri", "audit-record-not-found", "inspect-acl", "fetched"}
ToVisit == [uri : UrisOf(world), id : IdsOf(world), parent : Nat]
Visits == [id : IdsOf(world), uri : UrisOf(world), verdict : WalkVerdicts, parents : SUBSET Nat]

LEMMA Listed ==
    ASSUME world \in Worlds, NEW id \in DOMAIN world.records
    PROVE  PriorActions(id) \in Seq(RefsOf(world))
<1> DEFINE refs == world.records[id].refs
           kept == CHOOSE f : f = [n \in 0..Len(refs) |-> Keeps(f, n, refs)]
<1>1. refs \in Seq(RefsOf(world))
  <2>1. refs \in Seq(Range(refs)) /\ Range(refs) \subseteq RefsOf(world)
    BY WorldAssumption DEF RefsOf
  <2> QED
    BY <2>1
<1>2. PriorActions(id) = kept[Len(refs)]
  BY DEF PriorActions, WithId, Keeps
<1>3. kept = [n \in 0..Len(refs) |-> Keeps(kept, n, refs)]
  <2>1. Len(refs) \in Nat
    BY <1>1
  <2>2. \E f : f = [n \in 0..Len(refs) |-> Keeps(f, n, refs)]
    BY <2>1, Keepable
  <2> QED
    BY <2>2, Zenon
<1> QED
  <2> HIDE DEF kept
  <2> QED
    BY <1>1, <1>2, <1>3, KeptAreReferences

\* A record is visited once; what a fetched one names is still to be visited,
\* or its visit knows where it was named; a walk that is over was finished or
\* reached its limit.
OnceEach == \A j, k \in DOMAIN steps : steps[j].id = steps[k].id => j = k
Known(p, n) == \E k \in DOMAIN steps : steps[k].id = p.id /\ n \in steps[k].parents
Accounted ==
  \A n \in DOMAIN steps : steps[n].verdict = "fetched" =>
    /\ steps[n].id \in DOMAIN world.records
    /\ \A p \in Range(Predecessors(steps[n].uri, steps[n].id, n)) : p \in Range(frontier) \/ Known(p, n)
WalkInv ==
  /\ world \in Worlds /\ frontier \in Seq(ToVisit) /\ steps \in Seq(Visits)
  /\ OnceEach /\ Accounted
  /\ over => frontier = <<>> \/ Len(steps) = MaxSteps

\* What a record names.
LEMMA Named ==
    ASSUME world \in Worlds, NEW id \in DOMAIN world.records, NEW uri \in UrisOf(world), NEW n \in Nat
    PROVE  /\ Predecessors(uri, id, n) \in Seq(ToVisit)
           /\ \A p \in Range(Predecessors(uri, id, n)) : p.parent = n
<1> DEFINE prior == PriorActions(id)
           back == IF world.records[id].prev = 0 THEN <<>>
                   ELSE <<[uri |-> uri, id |-> world.records[id].prev, parent |-> n]>>
           across == [i \in DOMAIN prior |-> [uri |-> Locate(prior[i]), id |-> prior[i].id, parent |-> n]]
           Here == {p \in ToVisit : p.parent = n}
<1>1. Predecessors(uri, id, n) = back \o across
  BY DEF Predecessors
<1>2. back \in Seq(Here)
  <2>1. world.records[id].prev \in IdsOf(world)
    BY DEF IdsOf
  <2>2. PICK e : e = [uri |-> uri, id |-> world.records[id].prev, parent |-> n]
    OBVIOUS
  <2>3. e \in Here
    BY <2>1, <2>2 DEF ToVisit
  <2>4. back = <<>> \/ back = <<e>>
    BY <2>2
  <2> HIDE DEF Here, back
  <2>5. <<>> \in Seq(Here) /\ <<e>> \in Seq(Here)
    BY <2>3, EmptySeq
  <2> QED
    BY <2>4, <2>5
<1>3. across \in Seq(Here)
  <2>1. prior \in Seq(RefsOf(world))
    BY Listed
  <2>2. ASSUME NEW r \in RefsOf(world)
        PROVE  [uri |-> Locate(r), id |-> r.id, parent |-> n] \in Here
    <3>1. r.id \in IdsOf(world)
      BY DEF IdsOf
    <3>2. Locate(r) \in UrisOf(world)
      BY DEF Locate, UrisOf, Range
    <3> QED
      BY <3>1, <3>2 DEF ToVisit
  <2>3. \A i \in DOMAIN prior : across[i] \in Here
    BY <2>1, <2>2
  <2>4. DOMAIN prior = 1..Len(prior) /\ Len(prior) \in Nat
    BY <2>1
  <2> HIDE DEF prior, Here
  <2> QED
    BY <2>3, <2>4
<1>4. back \o across \in Seq(Here)
  <2> HIDE DEF back, across, Here
  <2> QED
    BY <1>2, <1>3
<1>5. Range(back \o across) \subseteq Here
  <2> HIDE DEF back, across, Here
  <2> QED
    BY <1>4, RangeOfSeq
<1>6. Here \subseteq ToVisit /\ \A p \in Here : p.parent = n
  OBVIOUS
<1> QED
  <2> HIDE DEF back, across, Here
  <2> QED
    BY <1>1, <1>4, <1>5, <1>6, SeqMonotonic

\* The first entry and the others.
LEMMA FirstAndRest ==
    ASSUME NEW S, NEW s \in Seq(S), s # <<>>
    PROVE  Head(s) \in S /\ Tail(s) \in Seq(S) /\ \A p \in Range(s) : p = Head(s) \/ p \in Range(Tail(s))
<1>1. /\ Head(s) \in S /\ Tail(s) \in Seq(S) /\ Len(Tail(s)) = Len(s) - 1
      /\ \A i \in 1..Len(Tail(s)) : Tail(s)[i] = s[i + 1]
  BY HeadTailProperties
<1>2. ASSUME NEW i \in 1..Len(s), i # 1
      PROVE  s[i] \in Range(Tail(s))
  <2>1. i - 1 \in 1..Len(Tail(s)) /\ s[i] = Tail(s)[i - 1]
    BY <1>1, <1>2
  <2> QED
    BY <1>1, <2>1, RangeEquality
<1>3. s[1] = Head(s)
  OBVIOUS
<1> QED
  BY <1>1, <1>2, <1>3, RangeEquality

LEMMA AgainKeeps == WalkInv /\ Again => WalkInv'
<1> SUFFICES ASSUME WalkInv, Again
             PROVE  WalkInv'
  OBVIOUS
<1> DEFINE e == Head(frontier)
           more(n) == IF n \in StepsOf(e.id) THEN [steps[n] EXCEPT !.parents = @ \cup Parents(e.parent)] ELSE steps[n]
<1>1. /\ frontier # <<>> /\ frontier' = Tail(frontier) /\ frontier \in Seq(ToVisit) /\ UNCHANGED <<world, over>>
      /\ StepsOf(e.id) # {} /\ steps' = [n \in DOMAIN steps |-> more(n)]
  BY DEF Again, WalkInv
<1>2. /\ e \in ToVisit /\ frontier' \in Seq(ToVisit)
      /\ \A p \in Range(frontier) : p = e \/ p \in Range(frontier')
  BY <1>1, FirstAndRest
<1>3. steps \in Seq(Visits) /\ Len(steps) \in Nat /\ DOMAIN steps = 1..Len(steps) /\ \A n \in DOMAIN steps : steps[n] \in Visits
  BY DEF WalkInv
<1>4. ASSUME NEW n \in DOMAIN steps
      PROVE  /\ more(n) \in Visits /\ more(n).id = steps[n].id /\ more(n).uri = steps[n].uri
             /\ more(n).verdict = steps[n].verdict /\ steps[n].parents \subseteq more(n).parents
             /\ steps[n].id = e.id => more(n).parents = steps[n].parents \cup Parents(e.parent)
  BY <1>2, <1>3 DEF Visits, ToVisit, StepsOf, Parents
<1>5. /\ DOMAIN steps' = DOMAIN steps /\ steps' \in Seq(Visits') /\ Len(steps') = Len(steps)
      /\ \A n \in DOMAIN steps : steps'[n] = more(n)
  <2> HIDE DEF more
  <2>1. Visits' = Visits
    BY <1>1 DEF Visits, IdsOf, UrisOf, RefsOf
  <2> QED
    BY <1>1, <1>3, <1>4, <2>1
<1> HIDE DEF more
<1>6. OnceEach'
  BY <1>4, <1>5 DEF WalkInv, OnceEach
<1>7. Accounted'
  <2> SUFFICES ASSUME NEW n \in DOMAIN steps, steps[n].verdict = "fetched"
               PROVE  /\ steps[n].id \in DOMAIN world.records
                      /\ \A p \in Range(Predecessors(steps[n].uri, steps[n].id, n)) : p \in Range(frontier') \/ Known(p, n)'
    <3>1. \A uri, id, n : Predecessors(uri, id, n)' = Predecessors(uri, id, n)
      BY <1>1 DEF Predecessors, PriorActions, Locate
    <3> QED
      BY <3>1, <1>1, <1>4, <1>5 DEF Accounted
  <2>1. steps[n].id \in DOMAIN world.records
    BY DEF WalkInv, Accounted
  <2>2. ASSUME NEW p \in Range(Predecessors(steps[n].uri, steps[n].id, n))
        PROVE  p \in Range(frontier') \/ Known(p, n)'
    <3>1. p \in Range(frontier) \/ Known(p, n)
      BY DEF WalkInv, Accounted
    <3>2. CASE Known(p, n)
      BY <3>2, <1>4, <1>5 DEF Known
    <3>3. CASE p = e
      <4>1. p.parent = n
        <5>1. n \in Nat /\ steps[n].uri \in UrisOf(world) /\ world \in Worlds
          BY <1>3 DEF WalkInv, Visits
        <5> QED
          BY <5>1, <2>1, <2>2, Named
      <4>2. PICK k \in DOMAIN steps : steps[k].id = e.id
        BY <1>1 DEF StepsOf
      <4>3. n \in Parents(e.parent)
        BY <4>1, <3>3, <1>3 DEF Parents
      <4>4. steps'[k].id = p.id /\ n \in steps'[k].parents
        BY <4>2, <4>3, <3>3, <1>4, <1>5
      <4> QED
        BY <4>4, <4>2, <1>5 DEF Known
    <3> QED
      BY <3>1, <3>2, <3>3, <1>2
  <2> QED
    BY <2>1, <2>2
<1>8. over' => frontier' = <<>> \/ Len(steps') = MaxSteps
  BY <1>1, <1>5 DEF Again, WalkInv
<1>9. world' \in Worlds /\ frontier' \in Seq(ToVisit')
  BY <1>1, <1>2 DEF WalkInv, ToVisit, IdsOf, UrisOf, RefsOf
<1> QED
  BY <1>5, <1>6, <1>7, <1>8, <1>9 DEF WalkInv

LEMMA FirstKeeps == WalkInv /\ First => WalkInv'
<1> SUFFICES ASSUME WalkInv, First
             PROVE  WalkInv'
  OBVIOUS
<1> DEFINE e == Head(frontier)
           m == Len(steps) + 1
           verdict == IF e.uri = Nowhere THEN "no-agent-uri" ELSE Fetch(e.uri, e.id)
           visit == [id |-> e.id, uri |-> e.uri, verdict |-> verdict, parents |-> Parents(e.parent)]
           next == IF verdict = "fetched" THEN Predecessors(e.uri, e.id, m) ELSE <<>>
<1>1. /\ frontier # <<>> /\ frontier \in Seq(ToVisit) /\ StepsOf(e.id) = {} /\ UNCHANGED <<world, over>>
      /\ steps' = Append(steps, visit) /\ frontier' = Tail(frontier) \o next
  BY DEF First, WalkInv
<1>2. /\ e \in ToVisit /\ Tail(frontier) \in Seq(ToVisit)
      /\ \A p \in Range(frontier) : p = e \/ p \in Range(Tail(frontier))
  BY <1>1, FirstAndRest
<1>3. /\ steps \in Seq(Visits) /\ Len(steps) \in Nat /\ DOMAIN steps = 1..Len(steps) /\ m \in Nat
      /\ \A n \in DOMAIN steps : steps[n] \in Visits
  BY DEF WalkInv
<1>4. e.id \in IdsOf(world) /\ e.uri \in UrisOf(world) /\ e.parent \in Nat
  BY <1>2 DEF ToVisit
<1>5. visit \in Visits /\ visit.id = e.id /\ visit.uri = e.uri /\ visit.verdict = verdict /\ visit.parents = Parents(e.parent)
  <2>1. verdict \in WalkVerdicts
    <3>1. \A uri, id : Fetch(uri, id) \in {"audit-record-not-found", "inspect-acl", "fetched"}
      BY DEF Fetch, MayRead
    <3>2. CASE e.uri = Nowhere
      BY <3>2 DEF WalkVerdicts
    <3>3. CASE e.uri # Nowhere
      BY <3>1, <3>3 DEF WalkVerdicts
    <3> QED
      BY <3>2, <3>3
  <2>2. Parents(e.parent) \in SUBSET Nat
    BY <1>4 DEF Parents
  <2> HIDE DEF verdict, e
  <2> QED
    BY <1>4, <2>1, <2>2 DEF Visits
<1>6. verdict = "fetched" => e.id \in DOMAIN world.records
  BY DEF Fetch
<1>7. next \in Seq(ToVisit) /\ (verdict = "fetched" => next = Predecessors(e.uri, e.id, m))
  <2> HIDE DEF verdict
  <2>1. CASE verdict = "fetched"
    BY <2>1, <1>3, <1>4, <1>6, Named DEF WalkInv
  <2>2. CASE verdict # "fetched"
    BY <2>2, EmptySeq
  <2> QED
    BY <2>1, <2>2
<1> HIDE DEF verdict, next, visit, m
<1>8. frontier' \in Seq(ToVisit) /\ Range(frontier') = Range(Tail(frontier)) \cup Range(next)
  <2> DEFINE rest == Tail(frontier)
  <2>1. frontier' = rest \o next /\ rest \in Seq(ToVisit) /\ next \in Seq(ToVisit)
    BY <1>1, <1>2, <1>7
  <2> HIDE DEF rest
  <2>2. frontier' \in Seq(ToVisit) /\ Range(frontier') = Range(rest) \cup Range(next)
    BY <2>1, ConcatProperties, RangeConcatenation
  <2> QED
    BY <2>2 DEF rest
<1>9. /\ steps' \in Seq(Visits) /\ DOMAIN steps' = DOMAIN steps \cup {m} /\ m \notin DOMAIN steps
      /\ steps'[m] = visit /\ \A n \in DOMAIN steps : steps'[n] = steps[n]
  <2>1. /\ steps' \in Seq(Visits) /\ Len(steps') = Len(steps) + 1
        /\ \A i \in 1..Len(steps) : steps'[i] = steps[i]
        /\ steps'[Len(steps) + 1] = visit
    BY <1>1, <1>3, <1>5, AppendProperties
  <2> QED
    BY <2>1, <1>3 DEF m
<1>10. OnceEach'
  <2>1. \A n \in DOMAIN steps : steps[n].id # e.id
    BY <1>1 DEF StepsOf
  <2> QED
    BY <1>5, <1>9, <2>1 DEF WalkInv, OnceEach
<1>11. Accounted'
  <2>1. ASSUME NEW n \in DOMAIN steps', steps'[n].verdict = "fetched"
        PROVE  steps'[n].id \in DOMAIN world.records
    BY <1>5, <1>6, <1>9, <2>1 DEF WalkInv, Accounted
  <2>2. ASSUME NEW n \in DOMAIN steps, steps[n].verdict = "fetched",
               NEW p \in Range(Predecessors(steps[n].uri, steps[n].id, n))
        PROVE  p \in Range(frontier') \/ Known(p, n)'
    <3>1. p \in Range(frontier) \/ Known(p, n)
      BY <2>2 DEF WalkInv, Accounted
    <3>2. CASE Known(p, n)
      BY <3>2, <1>9 DEF Known
    <3>3. CASE p = e
      <4>1. n \in Nat /\ n # 0 /\ steps[n].uri \in UrisOf(world) /\ world \in Worlds /\ steps[n].id \in DOMAIN world.records
        BY <1>3, <2>2 DEF WalkInv, Visits, Accounted
      <4>2. p.parent = n
        BY <4>1, <2>2, Named
      <4>3. steps'[m].id = p.id /\ n \in steps'[m].parents
        BY <4>1, <4>2, <3>3, <1>5, <1>9 DEF Parents
      <4> QED
        BY <4>3, <1>9 DEF Known
    <3> QED
      BY <3>1, <3>2, <3>3, <1>2, <1>8
  <2>3. ASSUME verdict = "fetched", NEW p \in Range(Predecessors(e.uri, e.id, m))
        PROVE  p \in Range(frontier')
    BY <2>3, <1>7, <1>8
  <2>4. \A uri, id, n : Predecessors(uri, id, n)' = Predecessors(uri, id, n)
    BY <1>1 DEF Predecessors, PriorActions, Locate
  <2>5. ASSUME NEW n \in DOMAIN steps', steps'[n].verdict = "fetched",
               NEW p \in Range(Predecessors(steps'[n].uri, steps'[n].id, n))
        PROVE  p \in Range(frontier') \/ Known(p, n)'
    <3>1. CASE n \in DOMAIN steps
      BY <3>1, <2>2, <2>5, <1>9
    <3>2. CASE n = m
      BY <3>2, <2>3, <2>5, <1>5, <1>9
    <3> QED
      BY <3>1, <3>2, <1>9
  <2> QED
    BY <1>1, <2>1, <2>4, <2>5 DEF Accounted
<1>12. over' => frontier' = <<>> \/ Len(steps') = MaxSteps
  BY <1>1 DEF First, WalkInv
<1>13. UNCHANGED <<ToVisit, Visits>> /\ world' \in Worlds
  BY <1>1 DEF WalkInv, ToVisit, Visits, IdsOf, UrisOf, RefsOf
<1> QED
  BY <1>8, <1>9, <1>10, <1>11, <1>12, <1>13 DEF WalkInv

(* tools/chain_inspector/walker.py: when a walk returns short of its limit,
   every record a fetched one names has one step, and that step knows it as a
   parent, whatever graph the records of the daemons form. *)
THEOREM WalksClose == WalkSpec => []WalkIsClosed
<1>1. WalkInit => WalkInv
  <2> SUFFICES ASSUME WalkInit
               PROVE  WalkInv
    OBVIOUS
  <2>1. PICK e : e = [uri |-> world.startUri, id |-> world.start, parent |-> 0]
    OBVIOUS
  <2>2. e \in ToVisit
    BY <2>1 DEF ToVisit, IdsOf, UrisOf
  <2>3. frontier = <<e>> /\ steps = <<>> /\ over = FALSE /\ world \in Worlds
    BY <2>1 DEF WalkInit
  <2> QED
    BY <2>2, <2>3 DEF WalkInv, OnceEach, Accounted
<1>2. WalkInv /\ [WalkNext]_walkVars => WalkInv'
  <2> SUFFICES ASSUME WalkInv, [WalkNext]_walkVars
               PROVE  WalkInv'
    OBVIOUS
  <2>1. ASSUME UNCHANGED <<world, frontier, steps>>, over' => over \/ frontier = <<>> \/ Len(steps) = MaxSteps
        PROVE  WalkInv'
    <3>1. UNCHANGED <<ToVisit, Visits>>
      BY <2>1 DEF ToVisit, Visits, IdsOf, UrisOf, RefsOf
    <3>2. \A uri, id, n : Predecessors(uri, id, n)' = Predecessors(uri, id, n)
      BY <2>1 DEF Predecessors, PriorActions, Locate
    <3>3. Accounted'
      BY <2>1, <3>2 DEF WalkInv, Accounted, Known
    <3> QED
      BY <2>1, <3>1, <3>3 DEF WalkInv, OnceEach
  <2>2. CASE Return
    BY <2>1, <2>2 DEF Return
  <2>3. CASE UNCHANGED walkVars
    BY <2>1, <2>3 DEF walkVars
  <2> QED
    BY <2>2, <2>3, AgainKeeps, FirstKeeps DEF WalkNext
<1>3. WalkInv => WalkIsClosed
  <2> SUFFICES ASSUME WalkInv, over, Len(steps) < MaxSteps, NEW n \in DOMAIN steps, steps[n].verdict = "fetched",
                      NEW p \in Range(Predecessors(steps[n].uri, steps[n].id, n))
               PROVE  \E k \in DOMAIN steps : steps[k].id = p.id /\ n \in steps[k].parents
                        /\ \A j \in DOMAIN steps : steps[j].id = p.id => j = k
    BY DEF WalkIsClosed
  <2>1. Range(frontier) = {}
    BY DEF WalkInv, Range
  <2>2. Known(p, n)
    BY <2>1 DEF WalkInv, Accounted
  <2> QED
    BY <2>2 DEF WalkInv, OnceEach, Known
<1> QED
  BY <1>1, <1>2, <1>3, PTL DEF WalkSpec
=============================================================================
