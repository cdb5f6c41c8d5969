------------------------------ MODULE MCLedger ------------------------------
(***************************************************************************)
(* Model checking of Ledger: two nodes that both mine, and two wallets.    *)
(* The owner of alice transfers through both nodes, so that the same coins *)
(* can be spent at both.                                                   *)
(***************************************************************************)
EXTENDS Ledger

CONSTANTS n1, n2, alice, bob

TwoNodes == {n1, n2}
TwoWallets == {alice, bob}
OnlyBob == {bob}
OneOrThree == {1, 3}
OwnNodes == {<<alice, n1>>, <<bob, n2>>}
Shared == {<<alice, n1>>, <<alice, n2>>, <<bob, n2>>}
=============================================================================
