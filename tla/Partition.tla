----------------------------- MODULE Partition ------------------------------
(***************************************************************************)
(* The partition of a scope into leaves (src/presence/partition.py): a     *)
(* trie over the bits of identifiers, whose leaves split when they hold    *)
(* too many members and merge with their sibling when both hold few.  An   *)
(* identifier is its Width bits, most significant first, as _bit reads     *)
(* them off the number a 64-digit name stands for; a leaf is the prefix    *)
(* its identifiers share.                                                  *)
(***************************************************************************)
EXTENDS Naturals, Sequences, FiniteSets

CONSTANTS
  Width,        \* bits of an identifier, 256 in the code
  Grow, Shrink  \* split_threshold, merge_threshold

(* What the constructor insists on. *)
ASSUME PartitionAssumption == Width \in Nat /\ Grow \in Nat /\ Shrink \in Nat /\ Shrink < Grow

VARIABLE leaves   \* [prefix -> members]

Ids == [1..Width -> {0, 1}]
Cuts == UNION {[1..n -> {0, 1}] : n \in 0..Width}

(* An identifier, or a longer prefix, lies within a prefix. *)
Within(q, p) == Len(p) <= Len(q) /\ \A d \in 1..Len(p) : q[d] = p[d]
Inside(members, p) == {x \in members : Within(x, p)}
LeafOf(x) == CHOOSE p \in DOMAIN leaves : Within(x, p)
-----------------------------------------------------------------------------
(* _split: a leaf gives way to the shortest prefixes below it that are not
   too large, as every part that still is is split again. *)
Parts(p, members) ==
  {q \in Cuts :
     /\ Within(q, p) /\ Cardinality(Inside(members, q)) <= Grow
     /\ \A r \in Cuts : Within(r, p) /\ Within(q, r) /\ r # q => Cardinality(Inside(members, r)) > Grow}

(* Mutant of Split: only once. *)
SplitOnce(p, members) ==
  [q \in (DOMAIN leaves \ {p}) \cup {Append(p, 0), Append(p, 1)} |->
     IF q \in DOMAIN leaves THEN leaves[q] ELSE Inside(members, q)]

Split(p, members) ==
  [q \in (DOMAIN leaves \ {p}) \cup Parts(p, members) |->
     IF q \in Parts(p, members) THEN Inside(members, q) ELSE leaves[q]]

(***************************************************************************)
(* _maybe_merge, cascading from the leaf p up to its prefix of length n:   *)
(* on the way p and the sibling of each of its prefixes are joined, and    *)
(* each of these steps is taken only while the two that join are few.      *)
(***************************************************************************)
Upper(p, n) == SubSeq(p, 1, n)
Sibling(p) == [p EXCEPT ![Len(p)] = 1 - @]
Joined(p, n) == {p} \cup {Sibling(Upper(p, k)) : k \in (n + 1)..Len(p)}
(* Mutant of Gathered: what the sibling held is lost. *)
GatheredOwn(tree, p, n) == tree[p]

Gathered(tree, p, n) == UNION {tree[q] : q \in Joined(p, n)}
Sparse(tree, p, n) ==
  LET other == Sibling(Upper(p, n)) IN
  other \in DOMAIN tree /\ Cardinality(Gathered(tree, p, n)) + Cardinality(tree[other]) < Shrink
Merge(tree, p, n) ==
  [q \in (DOMAIN tree \ Joined(p, n)) \cup {Upper(p, n)} |->
     IF q = Upper(p, n) THEN Gathered(tree, p, n) ELSE tree[q]]

AddMember(x) ==
  LET p == LeafOf(x)
      members == leaves[p] \cup {x} IN
  leaves' = IF Cardinality(members) > Grow THEN Split(p, members) ELSE [leaves EXCEPT ![p] = members]
RemoveMember(x) ==
  LET p == LeafOf(x)
      tree == [leaves EXCEPT ![p] = @ \ {x}] IN
  \E n \in 0..Len(p) :
    /\ \A k \in (n + 1)..Len(p) : Sparse(tree, p, k)
    /\ n > 0 => ~Sparse(tree, p, n)
    /\ leaves' = Merge(tree, p, n)

PartitionInit == leaves = [p \in {<<>>} |-> {}]
PartitionNext == \E x \in Ids : AddMember(x) \/ RemoveMember(x)
PartitionSpec == PartitionInit /\ [][PartitionNext]_leaves
-----------------------------------------------------------------------------
(* presence/partition.py:44: whatever comes and goes, every identifier has
   exactly one leaf, a leaf holds members of its own and at most Grow of
   them, and no two sibling leaves are small enough to be one. *)
LeavesTile ==
  /\ \A x \in Ids : \E p \in DOMAIN leaves : {q \in DOMAIN leaves : Within(x, q)} = {p}
  /\ \A p \in DOMAIN leaves :
       /\ Cardinality(leaves[p]) <= Grow /\ \A x \in leaves[p] : Within(x, p)
       /\ (p # <<>> /\ Sibling(p) \in DOMAIN leaves) =>
            Cardinality(leaves[p]) + Cardinality(leaves[Sibling(p)]) >= Shrink

(* presence/partition.py:138: seen from outside, the leaves are one set of
   members; no split and no merge, however far it cascades, loses a member,
   brings one back or moves one that neither joined nor left. *)
Scope == INSTANCE ScopeMembers WITH members <- UNION {leaves[p] : p \in DOMAIN leaves}
ImplementsScope == Scope!Spec
=============================================================================
