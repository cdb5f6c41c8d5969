# A TLA+ development for BuenzliCoin

This directory holds specifications of BuenzliCoin's node (`bnode`) and of the
part of `bwallet` that moves coins, model-checked with TLC on small networks,
and proofs, checked by TLAPS, of the most important safety properties for
networks of any size. Paths below are relative to the repository.

`PROJECT.json` lists the components, the runs, the source lines each definition
stands for, the mutants that show each property can fail, the findings, the
hazards and the theorems.

## 1. The system

### Components, their state and their operations

| Component | State | Operations |
| --- | --- | --- |
| `DifficultyAdjuster` (`include/difficulty.h`) | difficulty, cumulative difficulty, block counter, start of the window | `adjust(timestamp)` |
| `Block`, `Blockchain` (`include/blockchain.h`) | blocks, adjuster, a recursive mutex | `construct_next_block` (mines with the mutex held), `append_next_block`, `from_json`, `operator=`, `valid`, `operator<=>`, `latest_block`, `length` |
| `WebSocketPeers`, `WebSocketClient` (`include/web/websocket_peer.h`, `src/web/websocket_client.cc`) | list of peers with a mutex; per peer a connection with a mutex and a send queue | `add` (connects with the list's mutex held), `find`, `send` (holds the peer's mutex until the answer has been handled) |
| `WebSocketServer`, `HTTPServer` (`src/web/`) | handlers | one thread each, one request at a time |
| `Node` (`src/node.cc`) | blockchain, unspent outputs, pool, peers | REST handlers; `handle_request_*` and `handle_receive_*` for peers; `broadcast_*` and `request_*` in detached threads |
| `Transaction`, `TransactionList`, `TransactionUnspentOutputs`, `TransactionUnconfirmedPool` (`src/transaction.cc`) | transactions linked with a copy of the unspent outputs; two `std::list`s without a mutex | `valid`, `update`, `add`, `next`, `remove`, `prune` |
| `bwallet` (`bwallet/bwallet.go`) | wallet files | `transfer`: three HTTP requests; `mine`, `balance`, `create`, `list` |
| cryptography, configuration, logging, UUIDs, JSON, Python bindings | none that matters here | |

### How they interact

A user's `POST /blocks` runs in the HTTP server thread: the node takes pending
transactions, mines, updates its lists and detaches `broadcast_latest_block`,
which sends the latest block to one peer after the other and waits for each
answer. At the peer, the websocket server thread runs
`handle_receive_latest_block`: it appends the block, ignores it, or, if the
block is beyond the end of the chain, finds or adds the origin as a peer and
detaches `request_all_blocks`; the answer is handled by
`handle_receive_all_blocks`, in the detached thread and with that peer's mutex
held. `POST /peers` adds a peer and detaches `request_latest_block`, whose
answer goes through `handle_receive_latest_block` too. `POST /transactions`
broadcasts in the HTTP thread itself.

### What is hard

- The mutex of the chain protects single operations. A handler looks at the
  chain two to four times before it changes it; in between anything may happen.
- `handle_receive_all_blocks` compares, gives the mutex back, and assigns.
- Threads of two nodes wait for each other's websocket server thread, which may
  itself wait: for a chain that is being mined on, for a peer that is being
  connected to, or for another peer's mutex.
- Answers on a connection carry no identification.
- The unspent outputs, the pool and the chain are three views of one history,
  updated by different handlers, and the lists are changed by loops that erase
  while they iterate.
- The difficulty is a float that is truncated in two different ways, computed
  from timestamps that may go backwards, and cast to an unsigned integer after
  a logarithm.
- Connections break and are never re-established. Connecting and closing are
  synchronous and have no timeout, in processes that may be stopping.
- A process stops with detached threads alive, and ends when a connection is
  refused to its HTTP thread.

### What makes each component correct

- Adjuster: measures whole windows; bounded steps; agrees with a closed form.
- Blockchain: linked, valid, with one history below a block; the adjuster accounts for every block;
  a chain that can be mined can be loaded.
- Node: a chain is replaced only by a greater one; answers match requests; the
  latest block exists where the code asserts it; peers catch up; nobody waits
  for ever.
- Peers and servers: a process that dies, is stopped or loses a connection keeps
  no other process waiting; a stopped process ends.
- Ledger: unspent outputs are those of the chain; coins are conserved; pools
  hold no confirmed and no competing transactions; blocks hold transactions for
  their position.

## 2. Modules

| Module | Models |
| --- | --- |
| `Difficulty` | `DifficultyAdjuster` and the conversion of a difficulty to zero bits, on exact fractions |
| `Retarget`, `MCRetarget` | an adjuster fed with timestamps; a closed form over all timestamps to compare it with |
| `Blockchain` | blocks, chains, and their operations as operators |
| `BlockTree` | abstract: one tree of blocks, each node at a tip of it |
| `Node`, `MCNode` | a network of nodes built without `TRANSACTIONS`, with their threads, locks and connections |
| `PeerNetwork`, `MCPeers` | who waits for whom: peers, connections, server threads, and how processes end; chains reduced to their length |
| `Transaction` | validation, unspent outputs and pool as operators |
| `Ledger`, `MCLedger` | a network of nodes built with `TRANSACTIONS` and wallets that transfer, one step per handler |
| `LedgerThreads`, `MCLedgerThreads` | the same with one step per call on the unspent outputs and the pool |
| `DifficultyProofs`, `BlockchainProofs` | lemmas about the operators of `Difficulty` and `Blockchain` |
| `RetargetProofs` | theorems about the adjuster |
| `NodeProofs`, `NodeSafetyProofs`, `NodeRefinementProofs` | theorems about `Node`: types and chains, and `BlockTree`; requests, adjusters and validity; `PeerNetwork` |
| `PeerNetworkProofs` | theorems about `PeerNetwork` |
| `LedgerProofs` | lemmas about the loops of `Transaction`, theorems about `Ledger` |

`Node` composes `Blockchain` (which extends `Difficulty`) with peers and
threads; `Ledger` composes `Blockchain` and `Transaction`, and `LedgerThreads`
splits the handlers of `Ledger`. `Node` is shown to implement two abstractions:
`BlockTree`, which forgets threads and peers, and (without proof of work)
`PeerNetwork`, which forgets everything about a chain but its length. What
`PeerNetwork` adds, processes that end, is stuttering for `Node`.

### Node: state and steps

`chain[n]` is `m_blockchain`, `peers[n]` is `m_websocket_peers` (the position
is the `peer_id`), `thr[n][t]` holds program counter and local variables of
thread `t`, where `"http"` and `"ws"` are the two server threads and the members
of `Detached` name detached threads. `mined` is the history of all blocks; the
hash of a block is its number there, which makes hashing injective. `dead` holds
broken connections. JSON conversion of a block loses nothing (millisecond
timestamps, hexadecimal digests), so blocks are passed by value.

A step is what a thread does between two points where another can interfere.
Locks are predicates on program counters: `ChainFree` (mining holds the chain's
mutex), `PeersFree` (connecting holds the list's), `PeerFree` (a thread between
writing a request and the end of its callback holds the peer's). All other
critical sections lie within one step. The two early returns, all `throw`s and
the callback that is never called on a broken connection are steps or
alternatives of steps. A broadcast that is being served is a pair of threads:
the caller at `"bserved"` and the peer's `"ws"` thread, which moves the caller
on when its handler returns or throws (`Returned`).

A detached thread that starts another leaves its name to it (`Detach`), so the
bound on names makes only the two server threads wait for a free name.

### PeerNetwork: state and steps

`peers`, `dead` and `thr` are those of `Node`; `len[n]` is the length of the
chain, and `life[n]` how far the process of `n` is from its end. Whether a block
is refused or ignored is left open. `Stop` is the handler of SIGTERM
(`src/main.cc`), which stops the event loops of both servers: each finishes the
handler it is running and takes nothing more, but the listening sockets stay
open until the end. `Join` is the end of `Node::run`. Then the global node is
destroyed, and with it the connections to its peers (`ClosePeer`), each of which
needs the websocket server of the peer. Detached threads are not joined: from
then on they crash (`UseAfterFree`) or make no more progress. When a process has
ended, connections to it are broken, connecting to it fails (`ConnectFails`:
this ends the process if the HTTP thread connects, and is an error answer if the
websocket server does), and threads that wait for its answer get an error
(`GiveUp`).

### Ledger: state and steps

`utxos[n]` and `pool[n]` are the two lists, `content[h]` the transactions of
block `h`, `calls` the bag of calls between nodes that are under way, in any
order. Every handler is one step. A transaction in the pool carries the copy of
the unspent outputs it was linked with. The loops that erase while iterating
are modelled by what they do on a `std::list` (`EraseWhere`): the element
behind an erased one is skipped, and after erasing the last one the loop wraps
around. `prune` goes on over the inputs of a transaction it has erased. Whether
it finds them is undefined, but not how many are left (`Dangling`), and each one
it does not find erases one more transaction (`EraseRuns`), so `Prune` is a set
of pools. Where there is none left to erase the process may end, which `Ledger`
does not follow.
Two history variables follow what the code does without influencing it:
`ahead[n]`, that `n` has applied to its lists a block that is not in its chain,
and `skipped[n]`, that `prune` has left a transaction in the pool of `n` although
an input of it is not unspent. Loading a chain resets both. A transfer of `bwallet` is three steps, for its three HTTP
requests, and takes as many inputs as it needs. `TimeMaxDelta > 0` and no proof
of work are assumed; all clocks agree.

### LedgerThreads: state and steps

`job[n][t]` is what the HTTP server, the websocket server or the detached thread
that loads a chain is in the middle of. `handle_blocks_post` is one step for the
reward (which reads the length of the chain), one for each transaction popped
from the pool, one for `construct_next_block`, one for each `update`, and one for
`prune` with the broadcast it detaches; the other handlers are split in the same
way. What a handler does with the chain, linking the transactions of a received
block included, is one step here, since `Node` splits that.

## 3. Runs

All runs switch the deadlock check off: users send a bounded number of requests,
and a network whose requests have all been served really stops.
`NetworkComesToRest` is the property that tells rest from being stuck.

Passing:

| Run | Instance | Shows |
| --- | --- | --- |
| `MCRetarget` | up to 5 blocks, timestamps 0..7 in any order, windows of 2 | the window, the bounds and the closed form, through two adjustments, with zero, negative, short and long windows |
| `MCNodeNaive` | 2 nodes that both mine (3 blocks), one adds the other, 2 detached threads each, one connection may break | `ChainsLinked`, `SharedHistory`, `LatestBlockExists`, `RequestsMatchAnswers`, and that the network implements `BlockTree` and `PeerNetwork` |
| `MCNodePow` | 2 mining nodes with proof of work, 3 blocks, one clock ahead by the admissible difference, time passing | `ChainsValid`, `AdjusterCoversChain`, `BlockTree` again, now with mining taking time |
| `MCNodeLive` | one miner, 3 blocks, unbroken connections | `BroadcastCatchesUp`, `NetworkComesToRest` |
| `MCPeers` | 2 nodes that both mine chains of up to 3 blocks, one adds the other, 1 detached thread each; one process may die, one connection may break, the node that was added is stopped | `SurvivorsComeToRest`, `StoppedNodeEnds` |
| `MCLedger` | 2 nodes that both mine, 2 wallets, one of which transfers through both nodes, 3 blocks with up to 2 transactions, 2 transfers with one or two inputs, 1 refused `POST /blocks` | the four ledger invariants, with blocks and competing transactions crossing between nodes |

Violations, each of a statement of the repository (see `findings`):

| Run | Shows |
| --- | --- |
| `MCNodeFork` | a node one block behind a chain that forked off earlier ignores the end of that chain and requests nothing; all threads are at rest and the chains differ |
| `MCNodeRace` | a block mined between the comparison and the assignment of `handle_receive_all_blocks` is dropped in favour of a chain that is not greater |
| `MCNodeReload` | a chain mined with proof of work is refused when it is loaded: mining rounds the logarithm of the difficulty down and renews the timestamp after the difficulty was computed |
| `MCPeersStop` | the node that is stopped is the one that broadcasts: its peer's websocket server connects back to it, which nobody accepts any more, and it waits for that same thread to close its own connection |
| `MCLedgerRace` | two transactions with one input in common enter a block because the pool forgets the first when it is popped and the output is still unspent |
| `MCLedgerTwice` | a peer that gets a block from beyond its chain twice lists its outputs twice, a wallet takes both entries as inputs, and every node accepts the transaction |

`StoppedNodeEnds` thus depends on who is stopped: it holds when nobody the node
is connected to has a reason to connect back to it. `SurvivorsComeToRest` is
about two nodes that know each other under the names they announce. If a node
announces itself under another name than its peers use (the comment at
`src/node.cc:596` says that this can be), or if three nodes are connected in a
ring, all websocket server threads can be connecting at the same time and wait
for ever.

Also met while modelling, and part of the models' actions, but without a run of
their own: the adjuster stays advanced when `append_next_block` refuses a block
as too easy; a difficulty of at most one half has a logarithm of at most -1,
whose cast to `std::size_t` is undefined, and mining may then never end; a `POST
/blocks` that fails loses the transactions it took from the pool; a transaction
behind a pruned one stays in the pool although its input is spent (see below);
`prune` may erase valid transactions behind one with several inputs; a block
from beyond the end of the chain changes the lists although the requested chain
may never be loaded; a chain with a standard transaction cannot be loaded at
all, because nothing links the transactions of a loaded block with unspent
outputs (`Loads`); in `LedgerThreads` the unspent outputs of a node at rest need
not be those of its chain; the timestamp check between subsequent blocks is
one-sided; chains with different lengths can tie in truncated cumulative
difficulty.

`CoinsConserved` excepts nodes with `skipped`: a transaction that `prune` has
skipped can be confirmed after all. In `MCLedger`, with two nodes, nothing is ever
skipped, and no transaction names an output twice, so that the run shows the
property without its exceptions. With three nodes it goes as follows. Alice owns
two outputs. She posts `t1`, which spends the first, at node B, and `s`, which
spends both, at node C; node A hears of `t1` first and refuses `s`. B mines a
block with `t1`. Alice then posts at B `t2`, which spends the second output in the
position of the next block, and A, which has not heard of the block, puts `t2`
behind `t1`. C mines a block with `s`, which reaches A before the one of B. A
appends it; pruning erases `t1` and skips `t2`, which then goes into the next
block of A: it is for the right position, and it is still linked with the unspent
outputs of the time when it was posted, so that it is valid. The second output is
spent twice. TLC finds this in a run of `Ledger` that is led along these steps
(five blocks and three transfers); the search without such guidance is too large
for a run. The theorem `CoinsStayConserved` says that, for any number of nodes,
there is no other way.

### Bounds

Two nodes are the fewest that disagree; two detached threads per node let a
broadcast and a request, or two requests, of one node overlap. Two blocks
suffice for forks and appends, three for a block beyond the end of a chain and
for chains of different length on both sides of a fork, four for the race. One
tick of the clock separates accepted from refused timestamps when
`TimeMaxDelta` is 1. `MaxPeers` bounds only what users add; a node that adds
the origin of a block does so beyond it. In `PeerNetwork` three
blocks make a block from beyond the chain possible in both directions; one
detached thread per node makes the server threads wait for it, which only adds
waiting. `MCPeersStop` needs three, for a broadcast, a request and what they
lead to. In `Ledger` three blocks let a wallet receive twice and spend both
outputs, two transfers compete in two pools, and a reward of 2 with amounts 1
and 3 makes transactions with change and with two inputs. Detached threads are
symmetric in the safety runs without liveness.

### Fairness

`FairSpec` assumes weak fairness of every thread of every node: the operating
system runs a thread that can run, and mining finds a nonce if there is one. In
`PeerNetwork` this includes a process that is shutting down; that a thread of a
destroyed node crashes is not assumed. Mutexes are not assumed to be fair. Users,
clocks and connections owe nothing.
`BroadcastCatchesUp` is checked without broken connections, since the code never
reconnects.

## 4. Proofs

Assumptions: `ConfigAssumption` (positive configuration values),
`BlockchainAssumption`, `TransactionAssumption` and `LedgerAssumption` (no proof
of work, a positive admissible time difference, amounts and bounds are numbers,
users mine and transfer at nodes of the network),
`NodeAssumption` and `PeerNetworkAssumption` (disjoint names, nobody is asked to
peer with itself, bounds are numbers), `RetargetAssumption`. TLC evaluates them
in the runs. Nothing is assumed about the sizes of the sets or the bounds.

Every invariant of a passing run is stated by a theorem, and so are the action
property of the adjuster and both refinements. None of the invariants is inductive; the strengthenings they need
are described here.

### Adjuster (`RetargetProofs`)

`TypeCorrect`, `WindowCorrect` and `AdjustmentBounded`: `WindowStart` speaks of
the number of blocks and the code of its counter; the inductive invariant adds
`CountsBlocks`, which relates the two. The arithmetic of windows (quotients and
remainders) is `StartStep`; the arithmetic of clamping is in `DifficultyProofs`.

`AgreesWithReference`: the closed form is a recursive function of the number of
complete windows, over the final list of timestamps. The strengthening
`Referenced` says instead that there are functions with the difficulties and
their sums for 0, 1, ... windows, a form that a step extends by one point and
that stays true when a timestamp is appended.

### Node (`NodeProofs`, `NodeSafetyProofs`, `NodeRefinementProofs`)

`NodeProofs`: `Invariance`, and from it `TypeCorrect`, `ChainsStayLinked`,
`HistoryStaysShared`, `LatestBlockAlwaysExists` and `Refinement`.
`ChainsLinked` needs that blocks in the hands of threads are mined blocks
(`Known`), that a node's chain does not change while it mines (the block being
mined names the tip), and, for `latest_block`, that chains never become empty: a
chain is replaced only by one that passed `valid`. That in turn needs `peer_id`s
in range and that a busy websocket server works for a thread that waits for it
(`ServerOK`), because the server's return writes the state of that thread. `IInv`
is the conjunction of `TypeOK` and, for every chain, thread and server,
`ChainOK`, `ThreadOK` and `ServerOK`. The proof has one lemma per action;
`LocalStep`, `ReturnStep`, `DetachStep` and `GotoStep` reduce an action to the
thread that moves, `Frame` collects what the step does to shared state.
`HistoryStaysShared` follows from `IInv` downwards along the chains: a hash
determines a mined block, and that the hash of the block below (`SharedBelow`).
`Refinement` maps a chain to the hash of its latest block: only
`construct_next_block` adds to the tree, and it does so at the node's own tip.

`NodeSafetyProofs` first classifies steps, once for all its theorems:
`ThreadsMove` says what a step does to threads (one moves and `MayBecome`
another state, returns, or returns and leaves a detached thread), `ChainsMove`
what it does to chains (kept, mining begun, block received, replaced, block
mined). Each theorem is then a case distinction over these.

- `AnswersMatch`: the mutex of a peer is held by one thread at a time
  (`PeersLocked`), and a thread whose broadcast is being served is the one that
  the peer's websocket server works for, with the same block
  (`BroadcastsServed`).
- `AdjusterKeepsUp`: `AdjustersOK` extends the bound to chains that are being
  loaded, and gives one more to a chain that is being mined on.
- `ChainsStayValid`: `Timely` says that also chains that are being loaded are in
  time by the clock of their node, and that a mined block does not precede its
  predecessor by more than the admissible difference. Validity is checked only
  when a chain is loaded; that it stays true needs that clocks do not go back.

`NodeRefinementProofs`: `NetRefinement`, that without proof of work `Node`
implements `PeerNetwork`. `AThr` and `ALen` are the refinement mapping; there is
a lemma per action that says which action of `PeerNetwork` it is, or that it is
not seen. `PlainInv` is what the mapping needs: nobody is seen mining, chains are
no longer than the number of blocks, and a chain that is compared has been
loaded completely. With proof of work mining takes time, during which the chain
is locked, and `PeerNetwork` has no such state.

### PeerNetwork (`PeerNetworkProofs`)

`TypeCorrect`: the position of a broadcast block is `len[n] - 1`, so typing needs
that only a node with a block broadcasts, that chains never become empty, and
that `peer_id`s are in range. `IInv` adds these for every thread (`ThreadOK`),
in the presence of processes that end at any time.

### Ledger (`LedgerProofs`)

The loops of `transaction.cc` are folds. A first part proves about them what a
loop invariant says: `UpdateRounds`, `SpendOK`, `RemoveAllRounds` and others give
the value after k rounds. The loops that erase while they iterate skip the
element behind an erased one; `EraseRunsOK` says that what is left is a sublist
(`Thinned`), whatever the undefined part of `prune` erases, and that nothing that
was to go is left if elements are erased one at a time and no two of them follow
each other (`OneByOne`, `Scattered`). In the unspent outputs at most one entry
refers to an input, so `update` is exact there although its loop is not.

- `BlocksStayWellFormed`: a block travels in calls and in loaded chains before
  it is in a chain; `IInv` has it for those too.
- `UnspentStaysExact`: `Exact(T, u)` says that the list `u` has what the
  transactions `T` leave unspent, each entry once. `update` preserves that for a
  transaction that is `Fresh`: nothing in `T` has its hash, nothing refers to it.
  A block on top of a chain is fresh because its transactions carry its position,
  which is that of no block below (this uses `BlocksStayWellFormed`), and because
  all inputs of confirmed and pending transactions refer to transactions of the
  chain (`Closed`). `LInv` is the conjunction of these for every node, with the
  types of what wallets and calls carry. `ahead` excepts the nodes that have
  applied a block that is not in their chain, until they load one.
- `PoolStaysUnconfirmed`: from `LInv`, too. A pending transaction is not in the
  chain because what `valid` linked it with was exact when it was added
  (`ValidClosed`), and a block that confirms it removes it. `Prune` may erase too
  little (a skipped element) and, where the code is undefined, too much; neither
  matters for this property, but the first does for the next.
- `CoinsStayConserved`: the inductive invariant `CInv` has two parts.
  *Spending.* Inputs of pending transactions are linked with what `valid` found
  for them: a copy of an output that the chain creates (`Backed`), found by hash
  and index and not altered by anything that happens to the lists later. Unless
  `prune` has skipped something, each pending input is still unspent, so what is
  mined next spends unspent outputs of earlier blocks, and what `UnspentStaysExact`
  says of the list gives `SpendsOnce`.
  *Amounts.* A list of unspent outputs is worth what it was worth before, plus the
  outputs of the transaction, less the outputs its inputs are linked with: the
  latter is what `update` removes, once per entry (`Worth` is a fold, and its
  lemmas go round by round). `valid` makes inputs and outputs balance
  (`Balanced`), if no input occurs twice. A reward adds `RewardAmount`. Chains
  that can be loaded hold only rewards (`OnlyRewards`), so the sum starts
  afresh there.

### Induction over data

The library's induction theorems have operator parameters and cannot be used.
`SetInduction` (in `DifficultyProofs`) states induction for a set of numbers
instead, from `LeastNat`. To prove P for all n, one defines the set of n with P.
The closed form of the adjuster, the folds of `Transaction` and the loop of
`from_json` (`LoadRound`, `FromJsonOK` in `BlockchainProofs`) are treated in this
way.

### Only model-checked

- Liveness (`BroadcastCatchesUp`, `NetworkComesToRest`, `SurvivorsComeToRest`,
  `StoppedNodeEnds`), which is out of the prover's reach.
- `LedgerThreads`, whose run is of a violation: with one step per call on a list
  the properties of `Ledger` fail.

## 5. Not modelled

- Memory-level races: the reference that `latest_block` returns outlives the
  lock; `WebSocketPeers::size` reads without one; two calls on an unlocked list
  that overlap (`LedgerThreads` makes each call atomic).
- A node that is its own peer; a restart, after which no peer knows the node any
  more; a connection that breaks, other than by the end of a process, while the
  peer is serving a broadcast on it.
- A websocket server thread blocked by a chain that is being mined on is a guard
  of the step that needs the chain, so in `Node` it may serve other messages
  first. This allows more interleavings than the code does.
- Proof of work together with transactions; arithmetic overflow of amounts;
  rounding of doubles.
- `bwallet create`, `list` and `balance`. `bwallet mine` is modelled as a
  `POST /blocks` (it posts the address as a bare JSON string, not as the object
  the handler reads).
- Cryptography, configuration files, logging, HTTP and WebSocket framing, JSON.

## 6. Plan

Done: adjuster, blockchain, node, peers and shutdown, ledger and its threads;
the theorems above. Left:

1. Proof that with two nodes nothing is skipped, because a pool is empty after its
   node has mined; `MCLedger` shows it on its instance.
2. Restarting a node with a persisted chain, with peers added while chains are
   not empty.
3. Three nodes in `PeerNetwork`, with a reduced set of threads.
