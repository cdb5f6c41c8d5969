------------------------------ MODULE MCPeers ------------------------------
(***************************************************************************)
(* Model checking of PeerNetwork with two nodes.                           *)
(***************************************************************************)
EXTENDS PeerNetwork, TLC

CONSTANTS n1, n2, d1, d2, d3

TwoNodes == {n1, n2}
OneWay == {<<n1, n2>>}
First == {n1}
Second == {n2}
OneThread == {d1}
ThreeThreads == {d1, d2, d3}
=============================================================================
