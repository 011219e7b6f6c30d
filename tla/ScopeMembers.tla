---------------------------- MODULE ScopeMembers ----------------------------
(***************************************************************************)
(* What a partitioned scope promises to those who use it: a set of         *)
(* members, in which leaves and their thresholds do not show.              *)
(***************************************************************************)
CONSTANT Ids
VARIABLE members

Init == members = {}
Join(x) == members' = members \cup {x}
Leave(x) == members' = members \ {x}
Next == \E x \in Ids : Join(x) \/ Leave(x)
Spec == Init /\ [][Next]_members
=============================================================================
