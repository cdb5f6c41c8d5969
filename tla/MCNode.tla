------------------------------ MODULE MCNode ------------------------------
(***************************************************************************)
(* Model checking of Node on small networks.                               *)
(***************************************************************************)
EXTENDS Node, TLC

CONSTANTS n1, n2, d1, d2

TwoNodes == {n1, n2}
OneWay == {<<n1, n2>>}
OneMiner == {n1}
TwoThreads == {d1, d2}
OneThread == {d1}
FastClock == [n \in Nodes |-> IF n = n1 THEN 1 ELSE 0]
NoSkew == [n \in Nodes |-> 0]
ThreadSymmetry == Permutations(Detached)

-----------------------------------------------------------------------------
\* A chain written by POST /blocks/persist can be read again with --blockchain
\* by a node with the same configuration.
PersistedChainLoads ==
  \A n \in Nodes : FromJson(chain[n].blocks, Now(n)).ok
=============================================================================
