------------------------------- MODULE Ledger -------------------------------
(***************************************************************************)
(* A network of nodes built with TRANSACTIONS (bnode_trans) and the        *)
(* wallets that use it (bwallet): how blockchain, unspent outputs and pool *)
(* of each node (src/node.cc) develop together.                            *)
(*                                                                         *)
(* Here a handler is one step: the races between the threads of one node   *)
(* are the subject of Node and LedgerThreads.  Handlers of different nodes *)
(* interleave freely, and so do the calls that are under way between       *)
(* nodes, because detached threads make them in no particular order.  All  *)
(* nodes have been made peers of each other while their blockchains were   *)
(* empty, and their clocks agree.                                          *)
(***************************************************************************)
EXTENDS Blockchain, Transaction, FiniteSets, Bags

CONSTANTS
  Nodes,        \* the bnode processes
  Mines,        \* <<a, n>>: users send POST /blocks to n with a reward for a
  Uses,         \* <<a, n>>: the owner of a transfers through n (BUENZLI_NODE)
  Payees,       \* addresses that users transfer to
  Amounts,      \* amounts that users transfer
  MaxBlocks,    \* bound on the number of blocks mined
  MaxTransfers, \* bound on the number of transfers
  MaxRequests   \* bound on POST /blocks requests that fail

ASSUME LedgerAssumption ==
  /\ ~ProofOfWork /\ TimeMaxDelta > 0
  /\ Mines \subseteq Addresses \X Nodes /\ Uses \subseteq Addresses \X Nodes
  /\ Amounts \subseteq Nat \ {0}
  /\ MaxBlocks \in Nat /\ MaxTransfers \in Nat /\ MaxRequests \in Nat

VARIABLES
  content,  \* content[h]: the transactions of the block with hash h
  chain,    \* chain[n]: m_blockchain of n
  utxos,    \* utxos[n]: m_transaction_unspent_outputs of n
  pool,     \* pool[n]: m_transaction_unconfirmed_pool of n
  calls,    \* calls under way: detached threads and messages, a bag
  wallet,   \* wallet[a]: how far a run of bwallet transfer for a has come
  spent,    \* budgets used up: transfers posted, blocks refused
  ahead,    \* ahead[n]: n has updated its lists by a block that is not in its
            \* chain and has not rebuilt them since (follows the code, does
            \* not influence it)
  skipped   \* skipped[n]: prune of n has left a transaction without its inputs
            \* in the pool, and n has not loaded a chain since (likewise)

vars == <<content, chain, utxos, pool, calls, wallet, spent, ahead, skipped>>

\* The time, which does not matter here.
Clock == 0

Call(op, at, from, arg) == [op |-> op, at |-> at, from |-> from, arg |-> arg]

Calling(set) == calls' = calls (+) SetToBag(set)

\* A call c that is served, and the calls it leads to.
Serving(c, set) == calls' = (calls (-) SetToBag({c})) (+) SetToBag(set)

Others(n) == Nodes \ {n}

\* The HTTP server of n waits while n broadcasts a transaction.
HttpFree(n) == \A c \in DOMAIN calls : ~(c.op = "transaction" /\ c.from = n)

NoTransfer == [step |-> "idle"]

-----------------------------------------------------------------------------
(* The three HTTP requests of bwallet transfer.                             *)

\* The outputs of a among the unspent ones, in the order of the list.
WalletUnspentOutputs(unspent, a) ==
  FoldLeft(LAMBDA own, o : IF o.output.address = a THEN Append(own, o) ELSE own,
           <<>>, unspent)

\* GET /transactions/unspent: takes as many of the outputs of a, in the order
\* of the list, as it needs.  Without sufficient funds nothing is posted.
TransferUnspent(a, n, to, amount) ==
  /\ <<a, n>> \in Uses
  /\ wallet[a].step = "idle"
  /\ spent.transfers < MaxTransfers
  /\ HttpFree(n)
  /\ LET own == WalletUnspentOutputs(utxos[n], a)
         Total(k) == TotalAmount([i \in 1..k |-> own[i].output])
     IN  \E k \in DOMAIN own :
           /\ Total(k - 1) < amount /\ amount <= Total(k)
           /\ wallet' = [wallet EXCEPT ![a] =
                [step    |-> "latest",
                 node    |-> n,
                 inputs  |-> [i \in 1..k |-> [hash  |-> own[i].hash,
                                              index |-> own[i].index]],
                 outputs |-> <<[amount |-> amount, address |-> to]>>
                   \o IF amount < Total(k)
                        THEN <<[amount |-> Total(k) - amount, address |-> a]>>
                        ELSE <<>>]]
  /\ UNCHANGED <<content, chain, utxos, pool, calls, spent, ahead, skipped>>

\* GET /transactions/latest: the index of the transaction.  Without a latest
\* block the answer is null and bwallet panics.
TransferLatest(a) ==
  /\ wallet[a].step = "latest"
  /\ HttpFree(wallet[a].node)
  /\ LET w == wallet[a]
         c == chain[w.node]
     IN  wallet' = [wallet EXCEPT ![a] =
           IF c.blocks = <<>> THEN NoTransfer
           ELSE [step |-> "post", node |-> w.node,
                 tx   |-> Tx("standard", content[Latest(c).hash][1].index + 1,
                             w.inputs, w.outputs, a)]]
  /\ UNCHANGED <<content, chain, utxos, pool, calls, spent, ahead, skipped>>

\* POST /transactions: handle_transactions_post, then broadcast_transaction.
TransferPost(a) ==
  /\ wallet[a].step = "post"
  /\ HttpFree(wallet[a].node)
  /\ LET n == wallet[a].node
         link == Link(wallet[a].tx, utxos[n])
     IN  IF CanAdd(pool[n], link)
           THEN /\ pool' = [pool EXCEPT ![n] = Append(@, link)]
                /\ Calling({Call("transaction", m, n, link.tx) : m \in Others(n)})
           ELSE UNCHANGED <<pool, calls>>
  /\ wallet' = [wallet EXCEPT ![a] = NoTransfer]
  /\ spent' = [spent EXCEPT !.transfers = @ + 1]
  /\ UNCHANGED <<content, chain, utxos, ahead, skipped>>

\* handle_receive_transaction.
ReceiveTransaction(c) ==
  /\ c.op = "transaction"
  /\ LET link == Link(c.arg, utxos[c.at])
     IN  pool' = [pool EXCEPT ![c.at] =
                    IF CanAdd(@, link) THEN Append(@, link) ELSE @]
  /\ Serving(c, {})
  /\ UNCHANGED <<content, chain, utxos, wallet, spent, ahead, skipped>>

-----------------------------------------------------------------------------
(* Blocks.                                                                  *)

\* The pool of n becomes what prune may make of p, the unspent outputs being u.
PruneTo(n, p, u) ==
  \E pruned \in Prune(p, u) :
    /\ pool' = [pool EXCEPT ![n] = pruned]
    /\ skipped' = [skipped EXCEPT ![n] =
         @ \/ \E link \in ToSet(pruned) : Missing(link.tx, u) # {}]

\* construct_next_block for linked transactions: it throws unless this holds.
CanConstruct(n, links) ==
  LET b == MakeBlock(chain[n], Clock)
  IN  ValidList(links, b.index) /\ BlockValid(b, Clock)

Construct(n, links) ==
  /\ content' = Append(content, [i \in DOMAIN links |-> links[i].tx])
  /\ chain' = [chain EXCEPT ![n].blocks =
       Append(@, [MakeBlock(chain[n], Clock) EXCEPT !.hash = Len(content) + 1])]

\* handle_blocks_post with a reward for a.  What is taken from the pool is
\* gone from it, also if construct_next_block then throws.
PostBlocks(n, a) ==
  /\ <<a, n>> \in Mines
  /\ HttpFree(n)
  /\ Len(content) < MaxBlocks
  /\ LET num == Min({NumPerBlock, Len(pool[n])})
         rest == SubSeq(pool[n], num + 1, Len(pool[n]))
         links == <<Link(Reward(a, Len(chain[n].blocks)), <<>>)>>
                    \o SubSeq(pool[n], 1, num)
         u == UpdateAll(utxos[n], [i \in DOMAIN links |-> links[i].tx])
     IN  \/ /\ CanConstruct(n, links)
            /\ Construct(n, links)
            /\ utxos' = [utxos EXCEPT ![n] = u]
            /\ PruneTo(n, rest, u)
            /\ Calling({Call("broadcast", n, n, 0)})
            /\ UNCHANGED spent
         \/ /\ ~CanConstruct(n, links)
            /\ spent.requests < MaxRequests
            /\ spent' = [spent EXCEPT !.requests = @ + 1]
            /\ pool' = [pool EXCEPT ![n] = rest]
            /\ UNCHANGED <<content, chain, utxos, calls, skipped>>
  /\ UNCHANGED <<wallet, ahead>>

\* broadcast_latest_block reads the latest block and sends it to each peer.
BroadcastLatestBlock(c) ==
  /\ c.op = "broadcast"
  /\ Serving(c, {Call("block", m, c.at, Latest(chain[c.at])) : m \in Others(c.at)})
  /\ UNCHANGED <<content, chain, utxos, pool, wallet, spent, ahead, skipped>>

\* Forgetting the pool.
UpdateListsButPool(n, ts) ==
  /\ utxos' = [utxos EXCEPT ![n] = UpdateAll(@, ts)]
  /\ UNCHANGED <<pool, skipped>>

\* The end of handle_receive_latest_block for a block with transactions ts.
UpdateLists(n, ts) ==
  LET u == UpdateAll(utxos[n], ts)
  IN  /\ utxos' = [utxos EXCEPT ![n] = u]
      /\ PruneTo(n, RemoveAll(pool[n], ts), u)

\* Transactions ts linked with the same unspent outputs.
LinkAll(ts, unspent) == [i \in DOMAIN ts |-> Link(ts[i], unspent)]

\* What handle_receive_latest_block does with a block b at node n.
Verdict(n, b) ==
  LET len == Len(chain[n].blocks)
      linked == LinkAll(content[b.hash], utxos[n])
      fits == IF len = 0 THEN IsGenesis(b) ELSE IsSuccessorOf(b, Latest(chain[n]))
  IN  IF ~BlockValid(b, Clock) \/ ~ValidList(linked, b.index) THEN "refuse"
      ELSE IF b.index > len THEN "request"
      ELSE IF b.index = len /\ fits THEN "append"
      ELSE "ignore"

\* A block from beyond the end of the chain makes the node request all blocks,
\* the next block is appended.
TakeBlock(c) ==
  LET n == c.at
  IN  CASE Verdict(n, c.arg) = "request" ->
             /\ Serving(c, {Call("request", n, c.from, 0)})
             /\ ahead' = [ahead EXCEPT ![n] = TRUE]
             /\ UNCHANGED chain
        [] Verdict(n, c.arg) = "append" ->
             /\ Serving(c, {})
             /\ chain' = [chain EXCEPT ![n] = AppendNextBlock(@, c.arg, Clock).chain]
             /\ UNCHANGED ahead
        [] OTHER -> Serving(c, {}) /\ UNCHANGED <<chain, ahead>>

\* handle_receive_latest_block: the lists are updated by the block in both cases.
ReceiveLatestBlock(c) ==
  /\ c.op = "block"
  /\ TakeBlock(c)
  /\ IF Verdict(c.at, c.arg) \in {"request", "append"}
       THEN UpdateLists(c.at, content[c.arg.hash])
       ELSE UNCHANGED <<utxos, pool, skipped>>
  /\ UNCHANGED <<content, wallet, spent>>

\* request_all_blocks, answered by handle_request_all_blocks of the peer.
RequestAllBlocks(c) ==
  /\ c.op = "request"
  /\ Serving(c, {Call("load", c.at, c.from, chain[c.from].blocks)})
  /\ UNCHANGED <<content, chain, utxos, pool, wallet, spent, ahead, skipped>>

\* from_json and valid: nothing links the transactions of a block that is
\* loaded with unspent outputs.
Loads(bs) ==
  /\ FromJson(bs, Clock).ok
  /\ \A i \in DOMAIN bs : ValidList(LinkAll(content[bs[i].hash], <<>>), bs[i].index)
  /\ ValidChain(bs, Clock)

\* The unspent outputs of the chain bs, as blockchain_setup computes them.
Rebuilt(bs) ==
  FoldLeft(LAMBDA u, b : UpdateAll(u, content[b.hash]), <<>>, bs)

\* handle_receive_all_blocks, blockchain_setup included.
ReceiveAllBlocks(c) ==
  /\ c.op = "load"
  /\ LET n == c.at
         loaded == FromJson(c.arg, Clock).chain
     IN  IF Loads(c.arg) /\ Greater(loaded, chain[n])
           THEN /\ chain' = [chain EXCEPT ![n] = loaded]
                /\ utxos' = [utxos EXCEPT ![n] = Rebuilt(c.arg)]
                /\ pool' = [pool EXCEPT ![n] = <<>>]
                /\ ahead' = [ahead EXCEPT ![n] = FALSE]
                /\ skipped' = [skipped EXCEPT ![n] = FALSE]
           ELSE UNCHANGED <<chain, utxos, pool, ahead, skipped>>
  /\ Serving(c, {})
  /\ UNCHANGED <<content, wallet, spent>>

-----------------------------------------------------------------------------
Init == /\ content = <<>>
        /\ chain = [n \in Nodes |-> EmptyChain]
        /\ utxos = [n \in Nodes |-> <<>>]
        /\ pool = [n \in Nodes |-> <<>>]
        /\ calls = EmptyBag
        /\ wallet = [a \in Addresses |-> NoTransfer]
        /\ spent = [transfers |-> 0, requests |-> 0]
        /\ ahead = [n \in Nodes |-> FALSE]
        /\ skipped = [n \in Nodes |-> FALSE]

Transfer(a) ==
  \/ \E n \in Nodes, to \in Payees, amount \in Amounts :
       TransferUnspent(a, n, to, amount)
  \/ TransferLatest(a)
  \/ TransferPost(a)

Serve(c) ==
  \/ ReceiveTransaction(c) \/ BroadcastLatestBlock(c) \/ ReceiveLatestBlock(c)
  \/ RequestAllBlocks(c) \/ ReceiveAllBlocks(c)

Next == \/ \E a \in Addresses : Transfer(a)
        \/ \E n \in Nodes, a \in Addresses : PostBlocks(n, a)
        \/ \E c \in DOMAIN calls : Serve(c)

Spec == Init /\ [][Next]_vars

-----------------------------------------------------------------------------
(* What the blocks of a chain say, independently of any list.               *)

\* The transactions of n's chain, each with its position in the chain.
TxAt(n) ==
  UNION {{<<i, k>> : k \in DOMAIN content[chain[n].blocks[i].hash]} :
           i \in DOMAIN chain[n].blocks}

TxOf(n, p) == content[chain[n].blocks[p[1]].hash][p[2]]

\* The outputs the chain creates and the references it spends.
Created(n) ==
  UNION {{UnspentOutput(TxOf(n, p), i) : i \in DOMAIN TxOf(n, p).outputs} :
           p \in TxAt(n)}

IsSpent(n, o) ==
  \E p \in TxAt(n) : \E k \in DOMAIN TxOf(n, p).inputs :
    Refers(TxOf(n, p).inputs[k], o)

\* Exactly the outputs that the chain of n creates and does not spend, once each.
UnspentExact(n) ==
  /\ IsInjective(utxos[n])
  /\ ToSet(utxos[n]) = {o \in Created(n) : ~IsSpent(n, o)}

\* The unspent outputs of a node, which its handlers maintain block by block, are
\* those of its chain, unless it has taken in a block from beyond its end.
UnspentMatchesChain == \A n \in Nodes : ~ahead[n] => UnspentExact(n)

\* Transactions of a chain spend outputs of earlier blocks of that chain, and
\* no two of them the same output.
SpendsOnce(n) ==
  \A p \in TxAt(n) : \A k \in DOMAIN TxOf(n, p).inputs :
    /\ \E q \in TxAt(n) : \E i \in DOMAIN TxOf(n, q).outputs :
         q[1] < p[1] /\ Refers(TxOf(n, p).inputs[k], UnspentOutput(TxOf(n, q), i))
    /\ \A q \in TxAt(n) : p # q => ~SharesInput(TxOf(n, p), TxOf(n, q))

Worth(unspent) == FoldLeft(LAMBDA sum, o : sum + o.output.amount, 0, unspent)

\* The unspent outputs are worth the rewards of the blocks.
RewardsAddUp(n) == Worth(utxos[n]) = RewardAmount * Len(chain[n].blocks)

\* No output is spent twice, and no coin is made or lost except by rewards, at a
\* node that has not taken in a block from beyond the end of its chain.  The
\* code has two ways to break this: a transaction that prune has skipped can
\* still be mined, and one that names an output twice counts it twice.
CoinsConserved ==
  \A n \in Nodes : ~ahead[n] /\ ~skipped[n] =>
    /\ SpendsOnce(n)
    /\ (\A p \in TxAt(n) : IsInjective(TxOf(n, p).inputs)) => RewardsAddUp(n)

\* The pool is unconfirmed: whichever of a transaction and the block with it
\* reaches a node first, the pool holds no transaction that the chain confirms,
\* and no two that compete for an output.
PoolUnconfirmed ==
  \A n \in Nodes : ~ahead[n] =>
    \A i \in DOMAIN pool[n] :
      /\ \A p \in TxAt(n) : TxOf(n, p) # pool[n][i].tx
      /\ \A j \in DOMAIN pool[n] :
           i # j => ~SharesInput(pool[n][i].tx, pool[n][j].tx)

\* A block holds one reward, at its own position, and transactions that were
\* made for that position, also when they waited in the pool of a node whose
\* chain was behind or ahead of the wallet's node.
BlocksWellFormed ==
  \A n \in Nodes : \A p \in TxAt(n) :
    LET t == TxOf(n, p)
    IN  /\ t.index = chain[n].blocks[p[1]].index
        /\ (t.type = "reward") <=> (p[2] = 1)

-----------------------------------------------------------------------------
(* A rule of the code that the network does not keep.                       *)

\* What a valid transaction passes on is what it takes, so that at a node that
\* has taken in no block from beyond the end of its chain all coins come from
\* rewards, whatever has happened to the lists of other nodes.
CoinsBacked == \A n \in Nodes : ~ahead[n] => RewardsAddUp(n)
=============================================================================
