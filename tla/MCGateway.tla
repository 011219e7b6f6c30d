------------------------------ MODULE MCGateway ------------------------------
(* Instance of Gateway: two module processes, two connections; only the    *)
(* first process may start with a manifest hash it kept from before.       *)
EXTENDS Gateway, TLC
CONSTANTS m1, m2, t1, t2
AllClosing == m1 :> "python" @@ m2 :> "rust"
WithGo == m1 :> "python" @@ m2 :> "go"
MCInit == GatewayInit /\ ~offers[m2]
GatewaySpec == MCInit /\ [][GatewayNext]_gwvars /\ GatewayFairness
=============================================================================
