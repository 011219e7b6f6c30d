------------------------------ MODULE MCContracts ------------------------------
(* Small instances of ContractServer for TLC. *)
EXTENDS ContractServer
CONSTANTS a1, a2, s1, s2, s3, p1, p2, k1, t1, t2
=============================================================================
