------------------------------- MODULE Node -------------------------------
(***************************************************************************)
(* A network of bnode processes built without TRANSACTIONS (bnode_naive,   *)
(* bnode_pow): src/node.cc on top of include/web/websocket_peer.h.  Every  *)
(* node runs                                                               *)
(*   - an HTTP server thread, which serves one user request at a time,     *)
(*   - a websocket server thread, which serves one peer request at a time, *)
(*   - detached threads that broadcast a block or request blocks from a    *)
(*     peer and run the handler of the answer.                             *)
(* All of them share the blockchain and the list of peers.  A step of a    *)
(* thread is what it does between two points at which another thread can   *)
(* interfere: it reads or writes the shared state once, under the lock the *)
(* code takes for that, or talks to another node once.                     *)
(***************************************************************************)
EXTENDS Blockchain, FiniteSets

CONSTANTS
  Nodes,       \* the bnode processes
  Detached,    \* names for a node's detached threads: bounds their number
  None,        \* no node, no thread
  Miners,      \* the nodes whose users send POST /blocks
  Links,       \* <<n, m>>: the users of n send POST /peers with m
  Skew,        \* Skew[n]: how far the clock of n is ahead
  ExtraZeros,  \* by how many zeros a hash may exceed what was asked for
  MaxBlocks,   \* bound on the number of blocks mined
  MaxPeers,    \* bound on the number of peers a user adds to a node
  MaxTime,     \* bound on the clock
  MaxLosses    \* bound on the number of connections that break

\* "http" and "ws" are the two server threads of a node.
Tid == {"http", "ws"} \union Detached

ASSUME NodeAssumption ==
  /\ None \notin Nodes \union Tid
  /\ Detached \intersect {"http", "ws"} = {}
  /\ Miners \subseteq Nodes
  /\ Links \subseteq Nodes \X Nodes /\ \A n \in Nodes : <<n, n>> \notin Links
  /\ Skew \in [Nodes -> Int]
  /\ ExtraZeros \in Nat
  /\ MaxBlocks \in Nat /\ MaxPeers \in Nat /\ MaxTime \in Nat /\ MaxLosses \in Nat

VARIABLES
  mined,  \* all blocks ever completed; mined[h] is the block with hash h
  clk,    \* time
  chain,  \* chain[n]: m_blockchain of n
  peers,  \* peers[n]: m_websocket_peers of n, peer_id 1 first
  dead,   \* <<n, i>>: the connection behind peer_id i of n is broken
  thr     \* thr[n][t]: where thread t of n is, and its local variables

vars == <<mined, clk, chain, peers, dead, thr>>

Now(n) == clk + Skew[n]

-----------------------------------------------------------------------------
(* Threads.                                                                 *)

PC == {"idle",
       "mining", "posted",                        \* POST /blocks
       "add", "connect", "added",                 \* WebSocketPeers::add
       "bcast", "bsend", "bwait", "bserved",      \* broadcast_latest_block
       "rlsend", "rlwait",                        \* request_latest_block
       "rasend", "rawait",                        \* request_all_blocks
       "recv", "eq", "succ", "append", "find",    \* handle_receive_latest_block
       "load", "cmp", "assign"}                   \* handle_receive_all_blocks

Thread == [pc     : PC,
           peer   : Nat,                   \* peer_id a detached thread talks to
           blk    : Block,                 \* block mined, sent or received
           from   : Nodes \union {None},   \* origin of blk, or peer to add
           id     : Nat,                   \* peer_id returned by find or add
           caller : Detached \union {None},\* thread of `from' that waits for us
           todo   : Seq(Block),            \* rest of the array being loaded
           cand   : Chain]                 \* blockchain being loaded

\* A thread that is not loading a blockchain.
Running(pc, peer, blk, from, id, caller) ==
  [pc |-> pc, peer |-> peer, blk |-> blk, from |-> from, id |-> id,
   caller |-> caller, todo |-> <<>>, cand |-> EmptyChain]

\* A thread that is loading one.
Loading(peer, todo, cand) ==
  [pc |-> "load", peer |-> peer, blk |-> NoBlock, from |-> None, id |-> 0,
   caller |-> None, todo |-> todo, cand |-> cand]

Start(pc, peer) == Running(pc, peer, NoBlock, None, 0, None)

Idle == Start("idle", 0)

\* broadcast_latest_block sends blk to peer i next.
Sending(i, blk) == Running("bsend", i, blk, None, 0, None)

\* A thread th that has got a peer_id from find or add.
WithPeerId(th, i) == Running("added", th.peer, th.blk, th.from, i, th.caller)

\* Mining without holding the mutex.
ChainUnlocked(n) == TRUE

\* construct_next_block holds the mutex of the blockchain while it mines.
ChainFree(n) == thr[n]["http"].pc # "mining"

\* add holds the mutex of the list of peers while it connects.
PeersFree(n) == \A t \in Tid : thr[n][t].pc # "connect"

\* WebSocketPeer::send holds the mutex of the peer until the answer has been
\* handled; these are the program counters of a thread that does not.
OutsideSend == {"idle", "bcast", "bsend", "rlsend", "rasend"}

\* Sending without the mutex.
PeerUnlocked(n, i) == TRUE

PeerFree(n, i) ==
  \A t \in Detached : thr[n][t].peer = i => thr[n][t].pc \in OutsideSend

At(n, t, pc) == thr[n][t].pc = pc

Goto(n, t, pc) == thr' = [thr EXCEPT ![n][t] = [@ EXCEPT !.pc = pc]]

\* The websocket server thread of m can take a message or accept a connection.
Listening(m) == At(m, "ws", "idle")

\* Forgetting to answer.
ReturnedSilently(n, t) == [thr EXCEPT ![n][t] = Idle]

\* A handler returns (or throws): the websocket server answers the thread that
\* waits, which moves on to its next peer; any other thread is done.
Returned(n, t) ==
  IF t = "ws"
    THEN LET m == thr[n]["ws"].from
             c == thr[n]["ws"].caller
         IN  [thr EXCEPT ![n]["ws"] = Idle,
                         ![m][c] = Sending(@.peer + 1, @.blk)]
    ELSE [thr EXCEPT ![n][t] = Idle]

\* Node::detach, by a thread whose other effects lead to f.  A detached thread
\* that returns leaves its name to the one it starts, so that it never waits
\* for a name: the code has no bound on the number of threads.
Detach(f, n, new) ==
  \E d \in Detached : /\ f[n][d].pc = "idle"
                      /\ thr' = [f EXCEPT ![n][d] = new]

-----------------------------------------------------------------------------
(* The HTTP server thread.                                                  *)

Extended(c, b) == [c EXCEPT !.blocks = Append(@, b)]

\* The end of construct_next_block: block b exists and is the latest of n.
Completed(n, b) ==
  /\ mined' = Append(mined, b)
  /\ chain' = [chain EXCEPT ![n] = Extended(@, b)]

\* handle_blocks_post up to the nonce search of construct_next_block; without
\* proof of work there is none and the block is appended at once.
PostBlocks(n) ==
  /\ n \in Miners
  /\ At(n, "http", "idle")
  /\ Len(mined) + Cardinality({m \in Nodes : ~ChainFree(m)}) < MaxBlocks
  /\ LET b == MakeBlock(chain[n], Now(n))
     IN  /\ BlockValid(b, Now(n))
         /\ IF ProofOfWork
              THEN LET da == Adjust(chain[n].da, b.ts)
                   IN  \E z \in RequiredZeros(da.difficulty) :
                         /\ chain' = [chain EXCEPT ![n] = [@ EXCEPT !.da = da]]
                         /\ thr' = [thr EXCEPT ![n]["http"] =
                              Running("mining", 0, [b EXCEPT !.zeros = z],
                                      None, 0, None)]
                         /\ UNCHANGED mined
              ELSE /\ Completed(n, [b EXCEPT !.hash = Len(mined) + 1])
                   /\ Goto(n, "http", "posted")
  /\ UNCHANGED <<clk, peers, dead>>

\* adjust_difficulty finds a nonce, having renewed the timestamp, and
\* construct_next_block appends the block and gives the mutex back.
MineBlock(n) ==
  /\ At(n, "http", "mining")
  /\ thr[n]["http"].blk.zeros <= HashBits
  /\ LET b == thr[n]["http"].blk
     IN  \E extra \in 0..ExtraZeros :
           Completed(n, [hash |-> Len(mined) + 1, prev |-> b.prev,
                         index |-> b.index, ts |-> Now(n),
                         zeros |-> b.zeros + extra])
  /\ thr' = [thr EXCEPT ![n]["http"] = Start("posted", 0)]
  /\ UNCHANGED <<clk, peers, dead>>

\* handle_blocks_post detaches broadcast_latest_block and answers.
DetachBroadcast(n) ==
  /\ At(n, "http", "posted")
  /\ Detach(Returned(n, "http"), n, Start("bcast", 0))
  /\ UNCHANGED <<mined, clk, chain, peers, dead>>

\* handle_peers_post is about to add a peer.
PostPeers(n, m) ==
  /\ <<n, m>> \in Links
  /\ At(n, "http", "idle")
  /\ Len(peers[n]) < MaxPeers
  /\ thr' = [thr EXCEPT ![n]["http"] = Running("add", 0, NoBlock, m, 0, None)]
  /\ UNCHANGED <<mined, clk, chain, peers, dead>>

-----------------------------------------------------------------------------
(* WebSocketPeers::add, called by handle_peers_post and                     *)
(* handle_receive_latest_block.                                             *)

\* The caller gets the mutex of the list and starts to connect.
AddPeer(n, t) ==
  /\ At(n, t, "add")
  /\ PeersFree(n)
  /\ Goto(n, t, "connect")
  /\ UNCHANGED <<mined, clk, chain, peers, dead>>

\* The websocket server of the peer answers the handshake: the connection and
\* the entry exist and the mutex is given back.
ConnectPeer(n, t) ==
  /\ At(n, t, "connect")
  /\ Listening(thr[n][t].from)
  /\ peers' = [peers EXCEPT ![n] = Append(@, thr[n][t].from)]
  /\ thr' = [thr EXCEPT ![n][t] = WithPeerId(@, Len(peers[n]) + 1)]
  /\ UNCHANGED <<mined, clk, chain, dead>>

\* Announcing the own latest block to a new peer instead.
DetachRequestAnnounces(n, t) ==
  /\ At(n, t, "added")
  /\ Detach(Returned(n, t), n, IF t = "http" THEN Start("bcast", 0)
                               ELSE Start("rasend", thr[n][t].id))
  /\ UNCHANGED <<mined, clk, chain, peers, dead>>

\* With the peer_id of find or add the caller detaches a request: for the
\* latest block after POST /peers, for all blocks otherwise.
DetachRequest(n, t) ==
  /\ At(n, t, "added")
  /\ Detach(Returned(n, t), n,
            Start(IF t = "http" THEN "rlsend" ELSE "rasend", thr[n][t].id))
  /\ UNCHANGED <<mined, clk, chain, peers, dead>>

-----------------------------------------------------------------------------
(* Detached threads: broadcast_latest_block.                                *)

\* The block that is sent is the latest one when the thread gets to read it.
Broadcast(n, t) ==
  /\ At(n, t, "bcast")
  /\ ChainFree(n)
  /\ thr' = [thr EXCEPT ![n][t] = Sending(1, Latest(chain[n]))]
  /\ UNCHANGED <<mined, clk, chain, peers, dead>>

\* One round of the loop over the peers: locks the peer and writes.  On a
\* broken connection nothing is written and no callback is ever called.
BroadcastSend(n, t) ==
  /\ At(n, t, "bsend")
  /\ LET i == thr[n][t].peer
     IN  IF i > Len(peers[n])
           THEN thr' = Returned(n, t)
           ELSE /\ PeersFree(n)
                /\ PeerFree(n, i)
                /\ thr' = [thr EXCEPT ![n][t] =
                     IF <<n, i>> \in dead THEN [@ EXCEPT !.peer = i + 1]
                                          ELSE [@ EXCEPT !.pc = "bwait"]]
  /\ UNCHANGED <<mined, clk, chain, peers, dead>>

\* The websocket server of the peer starts handle_receive_latest_block.
ServeBroadcast(n, t) ==
  /\ At(n, t, "bwait")
  /\ LET m == peers[n][thr[n][t].peer]
     IN  /\ <<n, thr[n][t].peer>> \notin dead
         /\ Listening(m)
         /\ thr' = [thr EXCEPT
              ![n][t] = [@ EXCEPT !.pc = "bserved"],
              ![m]["ws"] = Running("recv", 0, thr[n][t].blk, n, 0, t)]
  /\ UNCHANGED <<mined, clk, chain, peers, dead>>

-----------------------------------------------------------------------------
(* Detached threads: request_latest_block and request_all_blocks.           *)

RequestSend(n, t) ==
  /\ thr[n][t].pc \in {"rlsend", "rasend"}
  /\ PeersFree(n)
  /\ PeerFree(n, thr[n][t].peer)
  /\ IF <<n, thr[n][t].peer>> \in dead
       THEN thr' = [thr EXCEPT ![n][t] = Idle]
       ELSE Goto(n, t, IF At(n, t, "rlsend") THEN "rlwait" ELSE "rawait")
  /\ UNCHANGED <<mined, clk, chain, peers, dead>>

\* handle_request_latest_block at the peer, and the answer's way back; an
\* empty blockchain is answered with an error, which is only logged.
ServeLatest(n, t) ==
  /\ At(n, t, "rlwait")
  /\ LET m == peers[n][thr[n][t].peer]
     IN  /\ <<n, thr[n][t].peer>> \notin dead
         /\ Listening(m)
         /\ ChainFree(m)
         /\ thr' = [thr EXCEPT ![n][t] =
              IF chain[m].blocks = <<>> THEN Idle
              ELSE Running("recv", @.peer, Latest(chain[m]), m, 0, None)]
  /\ UNCHANGED <<mined, clk, chain, peers, dead>>

\* handle_request_all_blocks at the peer, and the answer's way back.
ServeAll(n, t) ==
  /\ At(n, t, "rawait")
  /\ LET m == peers[n][thr[n][t].peer]
     IN  /\ <<n, thr[n][t].peer>> \notin dead
         /\ Listening(m)
         /\ ChainFree(m)
         /\ thr' = [thr EXCEPT ![n][t] =
                      Loading(@.peer, chain[m].blocks, EmptyChain)]
  /\ UNCHANGED <<mined, clk, chain, peers, dead>>

\* The connection broke while a thread waited for an answer: the read fails,
\* which is only logged, and send returns.
GiveUp(n, t) ==
  /\ <<n, thr[n][t].peer>> \in dead
  /\ \/ /\ At(n, t, "bwait")
        /\ thr' = [thr EXCEPT ![n][t] = Sending(@.peer + 1, @.blk)]
     \/ /\ thr[n][t].pc \in {"rlwait", "rawait"}
        /\ thr' = [thr EXCEPT ![n][t] = Idle]
  /\ UNCHANGED <<mined, clk, chain, peers, dead>>

-----------------------------------------------------------------------------
(* handle_receive_latest_block, run by the websocket server for a broadcast *)
(* and by a detached thread for the answer to request_latest_block.         *)

\* Ignoring blocks from beyond the end of the chain.
RecvValidIgnoresAhead(n, t) ==
  /\ At(n, t, "recv")
  /\ ChainFree(n)
  /\ IF ~BlockValid(thr[n][t].blk, Now(n))
       THEN thr' = Returned(n, t)
       ELSE Goto(n, t, "eq")
  /\ UNCHANGED <<mined, clk, chain, peers, dead>>

\* Block::valid, and the first look at the length of the chain.
RecvValid(n, t) ==
  /\ At(n, t, "recv")
  /\ ChainFree(n)
  /\ IF ~BlockValid(thr[n][t].blk, Now(n))
       THEN thr' = Returned(n, t)
       ELSE Goto(n, t, IF thr[n][t].blk.index > Len(chain[n].blocks)
                         THEN "find" ELSE "eq")
  /\ UNCHANGED <<mined, clk, chain, peers, dead>>

\* The second look at the length of the chain.
RecvIndex(n, t) ==
  /\ At(n, t, "eq")
  /\ ChainFree(n)
  /\ IF thr[n][t].blk.index = Len(chain[n].blocks)
       THEN Goto(n, t, "succ")
       ELSE thr' = Returned(n, t)
  /\ UNCHANGED <<mined, clk, chain, peers, dead>>

\* Genesis of an empty chain or successor of the latest block; any other block
\* is ignored.
RecvSuccessor(n, t) ==
  /\ At(n, t, "succ")
  /\ ChainFree(n)
  /\ IF IF chain[n].blocks = <<>>
          THEN IsGenesis(thr[n][t].blk)
          ELSE IsSuccessorOf(thr[n][t].blk, Latest(chain[n]))
       THEN Goto(n, t, "append")
       ELSE thr' = Returned(n, t)
  /\ UNCHANGED <<mined, clk, chain, peers, dead>>

\* append_next_block; the handler turns an exception into an error answer.
RecvAppend(n, t) ==
  /\ At(n, t, "append")
  /\ ChainFree(n)
  /\ chain' = [chain EXCEPT ![n] =
                 AppendNextBlock(@, thr[n][t].blk, Now(n)).chain]
  /\ thr' = Returned(n, t)
  /\ UNCHANGED <<mined, clk, peers, dead>>

\* WebSocketPeers::find: the first entry for the block's origin.
FindPeer(n, t) ==
  /\ At(n, t, "find")
  /\ PeersFree(n)
  /\ LET known == {i \in DOMAIN peers[n] : peers[n][i] = thr[n][t].from}
     IN  \/ /\ known = {}
            /\ Goto(n, t, "add")
         \/ \E i \in known :
              /\ \A j \in known : i <= j
              /\ thr' = [thr EXCEPT ![n][t] = WithPeerId(@, i)]
  /\ UNCHANGED <<mined, clk, chain, peers, dead>>

-----------------------------------------------------------------------------
(* handle_receive_all_blocks, run by a detached thread.                     *)

\* One round of the loop of Blockchain::from_json; the exception of
\* append_next_block ends the handler.
LoadBlock(n, t) ==
  /\ At(n, t, "load")
  /\ thr[n][t].todo # <<>>
  /\ LET r == AppendNextBlock(thr[n][t].cand, Head(thr[n][t].todo), Now(n))
     IN  thr' = [thr EXCEPT ![n][t] =
           IF r.ok THEN Loading(@.peer, Tail(@.todo), r.chain)
                   ELSE Idle]
  /\ UNCHANGED <<mined, clk, chain, peers, dead>>

\* Blockchain::valid on what was loaded.
LoadValid(n, t) ==
  /\ At(n, t, "load")
  /\ thr[n][t].todo = <<>>
  /\ IF ValidChain(thr[n][t].cand.blocks, Now(n))
       THEN Goto(n, t, "cmp")
       ELSE thr' = Returned(n, t)
  /\ UNCHANGED <<mined, clk, chain, peers, dead>>

\* Without the comparison.
CompareSkipped(n, t) ==
  /\ At(n, t, "cmp")
  /\ ChainFree(n)
  /\ Goto(n, t, "assign")
  /\ UNCHANGED <<mined, clk, chain, peers, dead>>

\* if (*bc > m_blockchain): reads the own chain under its mutex ...
Compare(n, t) ==
  /\ At(n, t, "cmp")
  /\ ChainFree(n)
  /\ IF Greater(thr[n][t].cand, chain[n])
       THEN Goto(n, t, "assign")
       ELSE thr' = Returned(n, t)
  /\ UNCHANGED <<mined, clk, chain, peers, dead>>

\* ... which has been given back when operator= takes it again.
Assign(n, t) ==
  /\ At(n, t, "assign")
  /\ ChainFree(n)
  /\ chain' = [chain EXCEPT ![n] = thr[n][t].cand]
  /\ thr' = Returned(n, t)
  /\ UNCHANGED <<mined, clk, peers, dead>>

-----------------------------------------------------------------------------
(* The environment.                                                         *)

Tick == /\ clk < MaxTime
        /\ clk' = clk + 1
        /\ UNCHANGED <<mined, chain, peers, dead, thr>>

\* A connection breaks, for instance because the server's idle timeout closed
\* it; nothing ever reconnects it.
BreakConnection(n, i) ==
  /\ Cardinality(dead) < MaxLosses
  /\ <<n, i>> \notin dead
  /\ \A t \in Detached : thr[n][t].peer = i => ~At(n, t, "bserved")
  /\ dead' = dead \union {<<n, i>>}
  /\ UNCHANGED <<mined, clk, chain, peers, thr>>
-----------------------------------------------------------------------------
Init == /\ mined = <<>>
        /\ clk = 0
        /\ chain = [n \in Nodes |-> EmptyChain]
        /\ peers = [n \in Nodes |-> <<>>]
        /\ dead = {}
        /\ thr = [n \in Nodes |-> [t \in Tid |-> Idle]]

HttpStep(n) == MineBlock(n) \/ DetachBroadcast(n)

AddStep(n, t) == AddPeer(n, t) \/ ConnectPeer(n, t) \/ DetachRequest(n, t)

SendStep(n, t) ==
  \/ Broadcast(n, t) \/ BroadcastSend(n, t) \/ ServeBroadcast(n, t)
  \/ RequestSend(n, t) \/ ServeLatest(n, t) \/ ServeAll(n, t) \/ GiveUp(n, t)

RecvStep(n, t) ==
  \/ RecvValid(n, t) \/ RecvIndex(n, t) \/ RecvSuccessor(n, t)
  \/ RecvAppend(n, t) \/ FindPeer(n, t)

LoadStep(n, t) ==
  LoadBlock(n, t) \/ LoadValid(n, t) \/ Compare(n, t) \/ Assign(n, t)

ThreadStep(n, t) ==
  \/ t = "http" /\ HttpStep(n)
  \/ AddStep(n, t)
  \/ t # "http" /\ RecvStep(n, t)
  \/ t \in Detached /\ (SendStep(n, t) \/ LoadStep(n, t))

UserRequest(n) == PostBlocks(n) \/ \E m \in Nodes : PostPeers(n, m)

Next == \/ \E n \in Nodes : UserRequest(n)
        \/ \E n \in Nodes, t \in Tid : ThreadStep(n, t)
        \/ \E n \in Nodes : \E i \in DOMAIN peers[n] : BreakConnection(n, i)
        \/ Tick

Spec == Init /\ [][Next]_vars

\* The operating system runs every thread that can run, and mining finds a
\* nonce if there is one.  Nothing obliges users, clocks or connections.
Fairness == \A n \in Nodes, t \in Tid : WF_vars(ThreadStep(n, t))

FairSpec == Spec /\ Fairness

-----------------------------------------------------------------------------
(* Safety.                                                                  *)

\* Every variable of the network, and every local variable of a thread of
\* src/node.cc, has a value of its type.
TypeOK ==
  /\ mined \in Seq(Block)
  /\ clk \in Nat
  /\ chain \in [Nodes -> Chain]
  /\ peers \in [Nodes -> Seq(Nodes)]
  /\ dead \subseteq Nodes \X Nat
  /\ thr \in [Nodes -> [Tid -> Thread]]

\* Whatever the interleaving of the threads that look at the chain before they
\* append to it or replace it, the chain of a node, and any chain it is about
\* to replace it by, starts at a genesis block and goes from each block to a
\* block that names it as predecessor.
ChainsLinked ==
  \A n \in Nodes :
    /\ Linked(chain[n].blocks)
    /\ \A t \in Detached : Linked(thr[n][t].cand.blocks)

\* Blockchain::valid holds of the chain of every node at any time, although a
\* node checks it only when it loads a chain: blocks that a node mines or
\* appends never precede their predecessor by more than the admissible time,
\* however the clocks of the nodes differ.
ChainsValid ==
  \A n \in Nodes :
    chain[n].blocks # <<>> => ValidChain(chain[n].blocks, Now(n))

\* The blockchains in the hands of node n: its own, and those it is loading.
Held(n) == {chain[n].blocks} \union {thr[n][t].cand.blocks : t \in Detached}

\* Two blockchains anywhere in the network that have a block in common have all
\* blocks below it in common, although they were mined, appended block by block
\* from announcements that may be stale, or loaded as a whole.
SharedHistory ==
  \A n, m \in Nodes : \A a \in Held(n), b \in Held(m) :
    \A i \in DOMAIN a, j \in DOMAIN b :
      a[i].hash = b[j].hash => i = j /\ \A k \in 1..i : a[k] = b[k]

\* The assertion of latest_block: whenever handle_blocks_post or
\* broadcast_latest_block is about to read the latest block there is one, and
\* no replacement of the chain in between takes it away.
LatestBlockExists ==
  \A n \in Nodes, t \in Tid :
    thr[n][t].pc \in {"posted", "bcast"} => chain[n].blocks # <<>>

InFlight == {"bwait", "bserved", "rlwait", "rawait"}

\* The answer a websocket client reads is the answer to its last request: the
\* mutex of WebSocketPeer lets one request at a time onto a connection, and
\* the server works on a broadcast for exactly the thread that waits for it.
RequestsMatchAnswers ==
  \A n \in Nodes :
    /\ \A t, u \in Detached :
         /\ t # u /\ thr[n][t].pc \in InFlight /\ thr[n][u].pc \in InFlight
         => thr[n][t].peer # thr[n][u].peer
    /\ \A t \in Detached :
         At(n, t, "bserved") =>
           LET ws == thr[peers[n][thr[n][t].peer]]["ws"]
           IN  ws.pc # "idle" /\ ws.from = n /\ ws.caller = t /\ ws.blk = thr[n][t].blk

\* The block counter of the difficulty adjuster never lags behind the chain it
\* belongs to, across appends, rejected blocks and replaced chains: every
\* block has been accounted for by construct_next_block or append_next_block.
AdjusterCoversChain ==
  ProofOfWork =>
    \A n \in Nodes : chain[n].da.counter
                       >= Len(chain[n].blocks) + (IF ChainFree(n) THEN 0 ELSE 1)

-----------------------------------------------------------------------------
(* The inductive invariant behind the safety properties.                    *)

Known(b) == b.hash \in DOMAIN mined /\ mined[b.hash] = b

AllKnown(bs) == \A i \in DOMAIN bs : Known(bs[i])

\* The latest block of c by its hash, as a new block names its predecessor.
TipOf(c) == IF c.blocks = <<>> THEN NoHash ELSE Latest(c).hash

ChainOK(n) == Linked(chain[n].blocks) /\ AllKnown(chain[n].blocks)

\* Program counters at which a thread knows whom it deals with, ...
Naming == {"recv", "eq", "succ", "append", "find", "add", "connect", "added"}

\* ... uses a peer_id, ...
OnPeer == {"bwait", "bserved", "rlsend", "rlwait", "rasend", "rawait"}

\* ... and holds a block that was mined.
Carrying == {"bsend", "bwait", "bserved", "recv", "eq", "succ", "append", "find"}

ThreadOK(n, t) ==
  LET th == thr[n][t]
  IN  /\ th.pc \in Naming => th.from \in Nodes
      /\ th.pc \in OnPeer => th.peer \in DOMAIN peers[n]
      /\ th.pc = "bsend" => th.peer # 0
      /\ th.pc = "added" => th.id \in DOMAIN peers[n]
      /\ th.pc \in {"posted", "bcast"} => chain[n].blocks # <<>>
      /\ th.pc \in {"cmp", "assign"} => th.cand.blocks # <<>>
      /\ t = "http" /\ th.pc = "mining" =>
           th.blk.index = Len(chain[n].blocks) /\ th.blk.prev = TipOf(chain[n])
      /\ th.pc \in Carrying => Known(th.blk)
      /\ AllKnown(th.todo)
      /\ AllKnown(th.cand.blocks) /\ Linked(th.cand.blocks)

\* A busy websocket server works for a thread that waits for it.
ServerOK(m) ==
  LET ws == thr[m]["ws"]
  IN  ws.pc # "idle" =>
        /\ ws.from \in Nodes /\ ws.caller \in Detached
        /\ thr[ws.from][ws.caller].pc = "bserved"
        /\ peers[ws.from][thr[ws.from][ws.caller].peer] = m

IInv == /\ TypeOK
        /\ \A n \in Nodes : ChainOK(n) /\ ServerOK(n)
        /\ \A n \in Nodes, t \in Tid : ThreadOK(n, t)

-----------------------------------------------------------------------------
(* A claim of the documentation that the code does not keep.                *)

\* handle_receive_all_blocks replaces the chain only by a greater one; any
\* other step leaves the blocks of a chain or appends to them.
ReplacedByGreaterStep ==
  \A n \in Nodes :
    LET old == chain[n].blocks
        new == chain'[n].blocks
    IN  \/ Len(new) >= Len(old) /\ SubSeq(new, 1, Len(old)) = old
        \/ Greater(chain'[n], chain[n])

ReplacedByGreater == [][ReplacedByGreaterStep]_vars

-----------------------------------------------------------------------------
(* Refinement.                                                              *)

Tree == INSTANCE BlockTree WITH
          parent <- [h \in DOMAIN mined |-> mined[h].prev],
          tip    <- [n \in Nodes |-> TipOf(chain[n])]

\* The network grows one tree of blocks: in particular a block that took long
\* to mine still follows the latest block of its miner when it is appended,
\* because construct_next_block keeps the chain locked.
RefinesBlockTree == Tree!Spec

\* What PeerNetwork keeps of a thread: of a block its index, of a blockchain its
\* length, and of the handlers of a received block or blockchain only where
\* they wait or change something.
Abstracted(th) ==
  [pc     |-> CASE th.pc \in {"eq", "succ", "append"} -> "recv"
                [] th.pc = "cmp" -> "load"
                [] OTHER -> th.pc,
   peer   |-> th.peer,
   idx    |-> th.blk.index,
   from   |-> th.from,
   id     |-> th.id,
   caller |-> th.caller,
   load   |-> Len(th.todo) + Len(th.cand.blocks)]

Net == INSTANCE PeerNetwork WITH
         len        <- [n \in Nodes |-> Len(chain[n].blocks)],
         life       <- [n \in Nodes |-> "up"],
         thr        <- [n \in Nodes |-> [t \in Tid |-> Abstracted(thr[n][t])]],
         Stoppers   <- {},
         MaxLength  <- MaxBlocks,
         MaxCrashes <- 0

\* Without proof of work, who waits for whom depends on the chains only through
\* their lengths: whatever happens between a look at a chain and the change it
\* leads to, a received block that is appended was the next one, a chain that
\* replaces another one was longer than that at some time, and every exchange
\* with a peer is one of PeerNetwork.
RefinesPeerNetwork == Net!Spec

-----------------------------------------------------------------------------
(* Liveness.                                                                *)

\* A block that broadcast_latest_block has written to a peer's connection is
\* eventually in reach there: the peer has a chain at least as long, because
\* it appended the block or requested all blocks.
BroadcastCatchesUp ==
  \A m \in Nodes, k \in 0..(MaxBlocks - 1) :
    (\E n \in Nodes, t \in Detached :
       /\ At(n, t, "bwait") /\ thr[n][t].blk.index = k
       /\ peers[n][thr[n][t].peer] = m)
    ~> Len(chain[m].blocks) > k

\* Nobody waits for ever: since users send finitely many requests (MaxBlocks,
\* MaxPeers), every server thread ends its request and every detached thread
\* ends, so that the network comes to rest.
NetworkComesToRest == []<>(\A n \in Nodes, t \in Tid : At(n, t, "idle"))
=============================================================================
