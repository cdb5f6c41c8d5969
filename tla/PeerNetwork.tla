---------------------------- MODULE PeerNetwork ----------------------------
(***************************************************************************)
(* Who waits for whom in a network of bnode processes: the lists of peers  *)
(* (include/web/websocket_peer.h), the connections and the server threads  *)
(* behind them (src/web/), and how a process ends, because it is told to   *)
(* (SIGTERM, src/main.cc), because a connection is refused or at any time. *)
(* A blockchain is reduced to its length, which decides what a node does   *)
(* with a block; module Node has the rest and implements this module as    *)
(* long as no process ends.                                                *)
(***************************************************************************)
EXTENDS Integers, Sequences, FiniteSets

CONSTANTS
  Nodes,      \* the bnode processes
  Detached,   \* names for a node's detached threads: bounds their number
  None,       \* no node, no thread
  Miners,     \* the nodes whose users send POST /blocks
  Links,      \* <<n, m>>: the users of n send POST /peers with m
  Stoppers,   \* the nodes that are sent SIGTERM
  MaxLength,  \* bound on the length of a chain
  MaxPeers,   \* bound on the number of peers a user adds to a node
  MaxLosses,  \* bound on the number of connections that break
  MaxCrashes  \* bound on the number of processes that die

\* "http" and "ws" are the two server threads of a node.
Tid == {"http", "ws"} \union Detached

ASSUME PeerNetworkAssumption ==
  /\ None \notin Nodes \union Tid
  /\ Detached \intersect {"http", "ws"} = {}
  /\ Miners \subseteq Nodes /\ Stoppers \subseteq Nodes
  /\ Links \subseteq Nodes \X Nodes /\ \A n \in Nodes : <<n, n>> \notin Links
  /\ {MaxLength, MaxPeers, MaxLosses, MaxCrashes} \subseteq Nat

VARIABLES
  len,    \* len[n]: the length of m_blockchain of n
  peers,  \* peers[n]: m_websocket_peers of n, peer_id 1 first
  dead,   \* <<n, i>>: the connection behind peer_id i of n is broken
  life,   \* life[n]: how far the process of n is from its end
  thr     \* thr[n][t]: where thread t of n is, and its local variables

vars == <<len, peers, dead, life, thr>>

-----------------------------------------------------------------------------
(* Threads.                                                                 *)

PC == {"idle", "posted",                          \* POST /blocks
       "add", "connect", "added",                 \* WebSocketPeers::add
       "bcast", "bsend", "bwait", "bserved",      \* broadcast_latest_block
       "rlsend", "rlwait",                        \* request_latest_block
       "rasend", "rawait",                        \* request_all_blocks
       "recv", "find",                            \* handle_receive_latest_block
       "load", "assign",                          \* handle_receive_all_blocks
       "close"}                                   \* ~Node

Thread == [pc     : PC,
           peer   : Nat,                   \* peer_id talked to, or closed
           idx    : Nat,                   \* index of the block sent or received
           from   : Nodes \union {None},   \* origin of the block, or peer to add
           id     : Nat,                   \* peer_id returned by find or add
           caller : Detached \union {None},\* thread of `from' that waits for us
           load   : Nat]                   \* length of the blockchain loaded

Running(pc, peer, idx, from, id, caller) ==
  [pc |-> pc, peer |-> peer, idx |-> idx, from |-> from, id |-> id,
   caller |-> caller, load |-> 0]

Loading(peer, load) ==
  [pc |-> "load", peer |-> peer, idx |-> 0, from |-> None, id |-> 0,
   caller |-> None, load |-> load]

Start(pc, peer) == Running(pc, peer, 0, None, 0, None)

Idle == Start("idle", 0)

Sending(i, idx) == Running("bsend", i, idx, None, 0, None)

WithPeerId(th, i) == Running("added", th.peer, th.idx, th.from, i, th.caller)

At(n, t, pc) == thr[n][t].pc = pc

Goto(n, t, pc) == thr' = [thr EXCEPT ![n][t] = [@ EXCEPT !.pc = pc]]

\* add holds the mutex of the list of peers while it connects.
PeersFree(n) == \A t \in Tid : ~At(n, t, "connect")

\* WebSocketPeer::send holds the mutex of the peer until the answer has been
\* handled; these are the program counters of a thread that does not.
OutsideSend == {"idle", "bcast", "bsend", "rlsend", "rasend"}

PeerFree(n, i) ==
  \A t \in Detached : thr[n][t].peer = i => thr[n][t].pc \in OutsideSend

\* A stopped io_context runs no further handler: the websocket server neither
\* accepts a connection nor takes a message from one.
Listening(m) == life[m] = "up" /\ At(m, "ws", "idle")

\* The answer of a websocket server reaches the thread that waits for it,
\* unless that thread has ended with its process.
Returned(n, t) ==
  LET m == thr[n][t].from
      c == thr[n][t].caller
  IN  IF t = "ws" /\ At(m, c, "bserved")
        THEN [thr EXCEPT ![n][t] = Idle, ![m][c] = Sending(@.peer + 1, @.idx)]
        ELSE [thr EXCEPT ![n][t] = Idle]

\* Node::detach, by a thread whose other effects lead to f.
Detach(f, n, new) ==
  \E d \in Detached :
    /\ f[n][d].pc = "idle"
    /\ thr' = [m \in Nodes |-> [t \in Tid |->
                 IF m = n /\ t = d THEN new ELSE f[m][t]]]

\* The process of n is gone, its threads with it, and the connections to it
\* are broken.
Ended(n) ==
  /\ life' = [life EXCEPT ![n] = "ended"]
  /\ thr' = [thr EXCEPT ![n] = [t \in Tid |-> Idle]]
  /\ dead' = dead \union
       UNION {{<<m, i>> : i \in {j \in DOMAIN peers[m] : peers[m][j] = n}} :
                m \in Nodes}
  /\ UNCHANGED <<len, peers>>

-----------------------------------------------------------------------------
(* The HTTP server thread.                                                  *)

\* handle_blocks_post: the block is appended, then broadcast.
PostBlocks(n) ==
  /\ n \in Miners
  /\ life[n] = "up" /\ At(n, "http", "idle")
  /\ len[n] < MaxLength
  /\ len' = [len EXCEPT ![n] = @ + 1]
  /\ Goto(n, "http", "posted")
  /\ UNCHANGED <<peers, dead, life>>

DetachBroadcast(n) ==
  /\ At(n, "http", "posted")
  /\ Detach(Returned(n, "http"), n, Start("bcast", 0))
  /\ UNCHANGED <<len, peers, dead, life>>

\* handle_peers_post is about to add a peer.
PostPeers(n, m) ==
  /\ <<n, m>> \in Links
  /\ life[n] = "up" /\ At(n, "http", "idle")
  /\ Len(peers[n]) < MaxPeers
  /\ thr' = [thr EXCEPT ![n]["http"] = Running("add", 0, 0, m, 0, None)]
  /\ UNCHANGED <<len, peers, dead, life>>

-----------------------------------------------------------------------------
(* WebSocketPeers::add, called by handle_peers_post and                     *)
(* handle_receive_latest_block.                                             *)

AddPeer(n, t) ==
  /\ At(n, t, "add")
  /\ PeersFree(n)
  /\ Goto(n, t, "connect")
  /\ UNCHANGED <<len, peers, dead, life>>

\* The constructor of the connection returns when the websocket server of the
\* peer has answered the handshake, for which it waits without a timeout.
ConnectPeer(n, t) ==
  /\ At(n, t, "connect")
  /\ Listening(thr[n][t].from)
  /\ peers' = [peers EXCEPT ![n] = Append(@, thr[n][t].from)]
  /\ thr' = [thr EXCEPT ![n][t] = WithPeerId(@, Len(peers[n]) + 1)]
  /\ UNCHANGED <<len, dead, life>>

\* There is no process to connect to (any more) and the constructor throws.
\* handle_receive_latest_block turns that into an error answer; nothing
\* catches it on its way out of the HTTP server thread.
ConnectFails(n, t) ==
  /\ At(n, t, "connect")
  /\ life[thr[n][t].from] = "ended"
  /\ IF t = "http" THEN Ended(n)
     ELSE thr' = Returned(n, t) /\ UNCHANGED <<len, peers, dead, life>>

\* With the peer_id of find or add the caller detaches a request: for the
\* latest block after POST /peers, for all blocks otherwise.
DetachRequest(n, t) ==
  /\ At(n, t, "added")
  /\ Detach(Returned(n, t), n,
            Start(IF t = "http" THEN "rlsend" ELSE "rasend", thr[n][t].id))
  /\ UNCHANGED <<len, peers, dead, life>>

-----------------------------------------------------------------------------
(* Detached threads: broadcast_latest_block, request_latest_block and       *)
(* request_all_blocks.                                                      *)

\* The block before the latest one, of which a node with one block has none.
BroadcastOffByOne(n, t) ==
  /\ At(n, t, "bcast")
  /\ thr' = [thr EXCEPT ![n][t] = Sending(1, len[n] - 2)]
  /\ UNCHANGED <<len, peers, dead, life>>

Broadcast(n, t) ==
  /\ At(n, t, "bcast")
  /\ thr' = [thr EXCEPT ![n][t] = Sending(1, len[n] - 1)]
  /\ UNCHANGED <<len, peers, dead, life>>

\* One round of the loop over the peers: locks the peer and writes.  On a
\* broken connection nothing is written and no callback is ever called.
BroadcastSend(n, t) ==
  /\ At(n, t, "bsend")
  /\ LET i == thr[n][t].peer
     IN  IF i > Len(peers[n])
           THEN thr' = Returned(n, t)
           ELSE /\ PeersFree(n)
                /\ PeerFree(n, i)
                /\ thr' = [thr EXCEPT ![n][t] =
                     IF <<n, i>> \in dead THEN [@ EXCEPT !.peer = i + 1]
                                          ELSE [@ EXCEPT !.pc = "bwait"]]
  /\ UNCHANGED <<len, peers, dead, life>>

\* The peer that thread t of n has written to takes the message.
Taken(n, t) ==
  /\ <<n, thr[n][t].peer>> \notin dead
  /\ Listening(peers[n][thr[n][t].peer])

\* The websocket server of the peer starts handle_receive_latest_block.
ServeBroadcast(n, t) ==
  /\ At(n, t, "bwait")
  /\ Taken(n, t)
  /\ thr' = [thr EXCEPT
       ![n][t] = [@ EXCEPT !.pc = "bserved"],
       ![peers[n][thr[n][t].peer]]["ws"] =
           Running("recv", 0, thr[n][t].idx, n, 0, t)]
  /\ UNCHANGED <<len, peers, dead, life>>

RequestSend(n, t) ==
  /\ thr[n][t].pc \in {"rlsend", "rasend"}
  /\ PeersFree(n)
  /\ PeerFree(n, thr[n][t].peer)
  /\ IF <<n, thr[n][t].peer>> \in dead
       THEN thr' = Returned(n, t)
       ELSE Goto(n, t, IF At(n, t, "rlsend") THEN "rlwait" ELSE "rawait")
  /\ UNCHANGED <<len, peers, dead, life>>

\* The peer answers with its latest block, or with an error if it has none.
ServeLatest(n, t) ==
  /\ At(n, t, "rlwait")
  /\ Taken(n, t)
  /\ LET m == peers[n][thr[n][t].peer]
     IN  thr' = [thr EXCEPT ![n][t] =
           IF len[m] = 0 THEN Idle
                         ELSE Running("recv", @.peer, len[m] - 1, m, 0, None)]
  /\ UNCHANGED <<len, peers, dead, life>>

\* The peer answers with its blockchain.
ServeAll(n, t) ==
  /\ At(n, t, "rawait")
  /\ Taken(n, t)
  /\ thr' = [thr EXCEPT ![n][t] =
               Loading(@.peer, len[peers[n][thr[n][t].peer]])]
  /\ UNCHANGED <<len, peers, dead, life>>

\* Waiting for ever for an answer that cannot come any more.
GiveUpNever(n, t) == FALSE /\ UNCHANGED vars

\* The connection broke while a thread waited for an answer: the read fails,
\* which is only logged, and send returns.
GiveUp(n, t) ==
  /\ <<n, thr[n][t].peer>> \in dead
  /\ \/ /\ thr[n][t].pc \in {"bwait", "bserved"}
        /\ thr' = [thr EXCEPT ![n][t] = Sending(@.peer + 1, @.idx)]
     \/ /\ thr[n][t].pc \in {"rlwait", "rawait"}
        /\ thr' = Returned(n, t)
  /\ UNCHANGED <<len, peers, dead, life>>

-----------------------------------------------------------------------------
(* The handlers of what is received.                                        *)

\* handle_receive_latest_block: a block from beyond the end of the chain makes
\* the node look for its sender, the next block may be appended, and any block
\* may be ignored or refused.
Receive(n, t) ==
  /\ At(n, t, "recv")
  /\ \/ thr[n][t].idx > len[n] /\ Goto(n, t, "find") /\ UNCHANGED len
     \/ /\ thr[n][t].idx = len[n]
        /\ len' = [len EXCEPT ![n] = @ + 1]
        /\ thr' = Returned(n, t)
     \/ thr' = Returned(n, t) /\ UNCHANGED len
  /\ UNCHANGED <<peers, dead, life>>

\* WebSocketPeers::find: the first entry for the sender.
FindPeer(n, t) ==
  /\ At(n, t, "find")
  /\ PeersFree(n)
  /\ LET known == {i \in DOMAIN peers[n] : peers[n][i] = thr[n][t].from}
     IN  \/ known = {} /\ Goto(n, t, "add")
         \/ \E i \in known :
              /\ \A j \in known : i <= j
              /\ thr' = [thr EXCEPT ![n][t] = WithPeerId(@, i)]
  /\ UNCHANGED <<len, peers, dead, life>>

\* handle_receive_all_blocks up to the comparison; a blockchain that is not
\* valid or not longer is dropped.
Compare(n, t) ==
  /\ At(n, t, "load")
  /\ \/ thr[n][t].load > len[n] /\ Goto(n, t, "assign")
     \/ thr' = Returned(n, t)
  /\ UNCHANGED <<len, peers, dead, life>>

Assign(n, t) ==
  /\ At(n, t, "assign")
  /\ len' = [len EXCEPT ![n] = thr[n][t].load]
  /\ thr' = Returned(n, t)
  /\ UNCHANGED <<peers, dead, life>>

-----------------------------------------------------------------------------
(* How a process ends.                                                      *)

\* SIGTERM: Node::stop stops the event loops of both servers, which finish the
\* handler they are running, if any.
Stop(n) ==
  /\ n \in Stoppers
  /\ life[n] = "up"
  /\ life' = [life EXCEPT ![n] = "stopping"]
  /\ UNCHANGED <<len, peers, dead, thr>>

\* Node::run has joined both server threads and main returns: the node is
\* destroyed, its peers first to last, by what was the HTTP server's thread.
Join(n) ==
  /\ life[n] = "stopping"
  /\ At(n, "http", "idle") /\ At(n, "ws", "idle")
  /\ life' = [life EXCEPT ![n] = "closing"]
  /\ thr' = [thr EXCEPT ![n]["http"] = Start("close", 1)]
  /\ UNCHANGED <<len, peers, dead>>

\* Waiting for a peer that is gone as well.
ClosePeerForever(n) ==
  /\ At(n, "http", "close")
  /\ LET i == thr[n]["http"].peer
     IN  IF i > Len(peers[n])
           THEN Ended(n)
           ELSE /\ Listening(peers[n][i])
                /\ thr' = [thr EXCEPT ![n]["http"] = Start("close", i + 1)]
                /\ UNCHANGED <<len, peers, dead, life>>

\* The destructor of a connection closes it and waits, without a timeout, for
\* the peer's websocket server to do the same.  On a broken connection it
\* throws, which ends the process.
ClosePeer(n) ==
  /\ At(n, "http", "close")
  /\ LET i == thr[n]["http"].peer
     IN  IF i > Len(peers[n]) \/ <<n, i>> \in dead
           THEN Ended(n)
           ELSE /\ Listening(peers[n][i])
                /\ thr' = [thr EXCEPT ![n]["http"] = Start("close", i + 1)]
                /\ UNCHANGED <<len, peers, dead, life>>

\* Detached threads are not joined: one that is still there when the node is
\* destroyed uses memory that has been given back.  It may block for ever,
\* as any thread of a node that is being destroyed does here, or crash.
UseAfterFree(n) ==
  /\ life[n] = "closing"
  /\ \E t \in Detached : ~At(n, t, "idle")
  /\ Ended(n)

-----------------------------------------------------------------------------
(* The environment.                                                         *)

\* A process dies.
Crash(n) ==
  /\ life[n] # "ended"
  /\ Cardinality({m \in Nodes : life[m] = "ended"}) < MaxCrashes
  /\ Ended(n)

\* A connection breaks; nothing ever reconnects it.
BreakConnection(n, i) ==
  /\ Cardinality(dead) < MaxLosses
  /\ <<n, i>> \notin dead
  /\ \A t \in Detached : thr[n][t].peer = i => ~At(n, t, "bserved")
  /\ dead' = dead \union {<<n, i>>}
  /\ UNCHANGED <<len, peers, life, thr>>
-----------------------------------------------------------------------------
Init == /\ len = [n \in Nodes |-> 0]
        /\ peers = [n \in Nodes |-> <<>>]
        /\ dead = {}
        /\ life = [n \in Nodes |-> "up"]
        /\ thr = [n \in Nodes |-> [t \in Tid |-> Idle]]

AddStep(n, t) ==
  AddPeer(n, t) \/ ConnectPeer(n, t) \/ ConnectFails(n, t) \/ DetachRequest(n, t)

SendStep(n, t) ==
  \/ Broadcast(n, t) \/ BroadcastSend(n, t) \/ ServeBroadcast(n, t)
  \/ RequestSend(n, t) \/ ServeLatest(n, t) \/ ServeAll(n, t) \/ GiveUp(n, t)

\* The threads of a node run until the node is destroyed.
ThreadStep(n, t) ==
  /\ life[n] \in {"up", "stopping"}
  /\ \/ t = "http" /\ DetachBroadcast(n)
     \/ AddStep(n, t)
     \/ t # "http" /\ (Receive(n, t) \/ FindPeer(n, t))
     \/ t \in Detached /\ (SendStep(n, t) \/ Compare(n, t) \/ Assign(n, t))

ShutdownStep(n) == Join(n) \/ ClosePeer(n)

UserRequest(n) == PostBlocks(n) \/ (\E m \in Nodes : PostPeers(n, m)) \/ Stop(n)

Next == \/ \E n \in Nodes : UserRequest(n) \/ ShutdownStep(n)
        \/ \E n \in Nodes, t \in Tid : ThreadStep(n, t)
        \/ \E n \in Nodes : UseAfterFree(n) \/ Crash(n)
        \/ \E n \in Nodes : \E i \in DOMAIN peers[n] : BreakConnection(n, i)

Spec == Init /\ [][Next]_vars

\* The operating system runs every thread that can run.  Nothing obliges users,
\* connections to break or processes to die.
Fairness ==
  \A n \in Nodes : WF_vars(ShutdownStep(n)) /\ \A t \in Tid : WF_vars(ThreadStep(n, t))

FairSpec == Spec /\ Fairness

-----------------------------------------------------------------------------
\* Every variable of the network, and every local variable of a thread, has a
\* value of its type.
TypeOK ==
  /\ len \in [Nodes -> Nat]
  /\ peers \in [Nodes -> Seq(Nodes)]
  /\ dead \subseteq Nodes \X Nat
  /\ life \in [Nodes -> {"up", "stopping", "closing", "ended"}]
  /\ thr \in [Nodes -> [Tid -> Thread]]

\* Nobody waits for ever: every thread of a node that goes on running ends its
\* request, although peers may die, be stopped or lose their connections while
\* it waits for them.
SurvivorsComeToRest ==
  \A n \in Nodes :
    []<>(life[n] = "up" => \A t \in Tid : At(n, t, "idle"))

\* A node that is sent SIGTERM ends.
StoppedNodeEnds ==
  \A n \in Nodes : life[n] = "stopping" ~> life[n] = "ended"
=============================================================================
