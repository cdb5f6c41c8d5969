----------------------------- MODULE BlockTree -----------------------------
(***************************************************************************)
(* What a network of nodes promises, whatever its threads and locks: there *)
(* is one tree of blocks, rooted in the genesis blocks; a node's           *)
(* blockchain is the path to its tip; a node extends the tree at its own   *)
(* tip only, and otherwise moves its tip to a block that exists.           *)
(***************************************************************************)
EXTENDS Naturals, Sequences

CONSTANT Nodes

VARIABLES parent,  \* parent[h]: the block that block h follows, 0 for none
          tip      \* tip[n]: the latest block of node n, 0 for none

Init == /\ parent = <<>>
        /\ tip = [n \in Nodes |-> 0]

\* construct_next_block
Mine(n) == /\ parent' = Append(parent, tip[n])
           /\ tip' = [tip EXCEPT ![n] = Len(parent) + 1]

\* append_next_block and operator=
Adopt(n, h) == /\ tip' = [tip EXCEPT ![n] = h]
               /\ UNCHANGED parent

Next == \E n \in Nodes : Mine(n) \/ \E h \in DOMAIN parent : Adopt(n, h)

Spec == Init /\ [][Next]_<<parent, tip>>
=============================================================================
