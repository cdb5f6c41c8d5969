-------------------------- MODULE MCLedgerThreads --------------------------
(***************************************************************************)
(* Model checking of LedgerThreads with the nodes and wallets of MCLedger. *)
(***************************************************************************)
EXTENDS LedgerThreads

CONSTANTS n1, n2, alice, bob

TwoNodes == {n1, n2}
TwoWallets == {alice, bob}
OnlyBob == {bob}
OneCoin == {1}
OwnNodes == {<<alice, n1>>, <<bob, n2>>}
Shared == {<<alice, n1>>, <<alice, n2>>, <<bob, n2>>}
=============================================================================
