------------------------- MODULE PeerNetworkProofs -------------------------
(***************************************************************************)
(* PeerNetwork keeps its types, for every number of nodes, threads, losses *)
(* and crashes: a thread never talks to a peer that is not in the list,    *)
(* never broadcasts a block its node does not have and never connects to   *)
(* nobody, also when processes end while others wait for them.             *)
(***************************************************************************)
EXTENDS PeerNetwork, TLAPS

\* What a thread of n knows, by where it is: the peer it is to connect to, the
\* peer_id it was given or talks to, that its node has a block to broadcast.
ThreadOK(n, th) ==
  /\ th \in Thread
  /\ th.pc \in {"add", "connect", "recv", "find"} => th.from \in Nodes
  /\ th.pc = "added" => th.id \in DOMAIN peers[n]
  /\ th.pc \in {"rlsend", "rlwait", "rasend", "rawait", "bwait", "bserved"} =>
       th.peer \in DOMAIN peers[n]
  /\ th.pc = "bsend" => th.peer >= 1
  /\ th.pc \in {"posted", "bcast"} => len[n] >= 1
  /\ th.pc = "assign" => th.load >= 1

\* The inductive invariant.
IInv ==
  /\ TypeOK
  /\ \A n \in Nodes, t \in Tid : ThreadOK(n, thr[n][t])

-----------------------------------------------------------------------------
(* What a step may do to the shared variables: lists of peers only grow, and *)
(* a chain that has a block keeps one.                                       *)

Frame ==
  /\ len' \in [Nodes -> Nat]
  /\ peers' \in [Nodes -> Seq(Nodes)]
  /\ dead' \subseteq Nodes \X Nat
  /\ life' \in [Nodes -> {"up", "stopping", "closing", "ended"}]
  /\ \A n \in Nodes :
       /\ DOMAIN peers[n] \subseteq DOMAIN peers'[n]
       /\ len[n] >= 1 => len'[n] >= 1

\* A step that leaves the shared variables alone.
LEMMA StillFrame ==
  ASSUME IInv, UNCHANGED <<len, peers, dead, life>>
  PROVE  Frame
BY DEF IInv, TypeOK, Frame

\* A thread that does not move keeps what it knows.
LEMMA ThreadStable ==
  ASSUME Frame, NEW n \in Nodes, NEW th, ThreadOK(n, th)
  PROVE  ThreadOK(n, th)'
BY DEF Frame, ThreadOK

\* The facts a step of thread t of n starts from.
LEMMA ThreadFacts ==
  ASSUME IInv, NEW n \in Nodes, NEW t \in Tid
  PROVE  /\ ThreadOK(n, thr[n][t]) /\ thr[n][t] \in Thread
         /\ thr \in [Nodes -> [Tid -> Thread]]
         /\ len[n] \in Nat /\ peers[n] \in Seq(Nodes)
BY DEF IInv, TypeOK, ThreadOK

\* The states a thread is started in are well-typed.
LEMMA RunningTyped ==
  ASSUME NEW pc \in PC, NEW peer \in Nat, NEW idx \in Nat,
         NEW from \in Nodes \union {None}, NEW id \in Nat,
         NEW caller \in Detached \union {None}, NEW load \in Nat
  PROVE  /\ Running(pc, peer, idx, from, id, caller) \in Thread
         /\ Start(pc, peer) \in Thread
         /\ Loading(peer, load) \in Thread
BY DEF Running, Start, Loading, Thread, PC

\* An idle thread knows nothing.
LEMMA IdleOK ==
  ASSUME NEW n \in Nodes
  PROVE  ThreadOK(n, Idle) /\ ThreadOK(n, Idle)'
<1>1. Idle \in Thread
  BY DEF Idle, Start, Running, Thread, PC
<1>2. Idle.pc = "idle"
  BY DEF Idle, Start, Running
<1> QED
  BY <1>1, <1>2 DEF ThreadOK

\* A broadcast may go on with the next peer of any list.
LEMMA SendingOK ==
  ASSUME NEW n \in Nodes, NEW i \in Nat \ {0}, NEW idx \in Nat
  PROVE  ThreadOK(n, Sending(i, idx)) /\ ThreadOK(n, Sending(i, idx))'
<1>1. Sending(i, idx) \in Thread
  BY DEF Sending, Running, Thread, PC
<1>2. Sending(i, idx).pc = "bsend" /\ Sending(i, idx).peer = i
  BY DEF Sending, Running
<1> QED
  BY <1>1, <1>2 DEF ThreadOK

-----------------------------------------------------------------------------
(* Steps that move threads.                                                 *)

\* The invariant, from what the threads that have moved know.
LEMMA Move ==
  ASSUME IInv, Frame, NEW f, thr' = f, f \in [Nodes -> [Tid -> Thread]],
         \A m \in Nodes, u \in Tid : f[m][u] = thr[m][u] \/ ThreadOK(m, f[m][u])'
  PROVE  IInv'
<1>1. ASSUME NEW m \in Nodes, NEW u \in Tid PROVE ThreadOK(m, f[m][u])'
  <2>1. PICK old : old = thr[m][u]
    OBVIOUS
  <2>2. ThreadOK(m, old)
    BY <2>1 DEF IInv
  <2>3. ThreadOK(m, old)'
    BY <2>2, ThreadStable
  <2>4. CASE f[m][u] = old
    BY <2>3, <2>4
  <2> QED
    BY <2>1, <2>4
<1>2. ASSUME NEW m \in Nodes, NEW u \in Tid PROVE ThreadOK(m, thr[m][u])'
  BY <1>1
<1>3. TypeOK'
  BY DEF TypeOK, Frame
<1> QED
  BY <1>2, <1>3 DEF IInv

\* One thread moves.
LEMMA LocalStep ==
  ASSUME IInv, Frame, NEW n \in Nodes, NEW t \in Tid, NEW new,
         thr' = [thr EXCEPT ![n][t] = new], ThreadOK(n, new)'
  PROVE  IInv'
<1>1. new \in Thread
  BY DEF ThreadOK
<1>2. PICK f : f = thr'
  OBVIOUS
<1>3. /\ f \in [Nodes -> [Tid -> Thread]] /\ f[n][t] = new
      /\ \A m \in Nodes, u \in Tid : f[m][u] = thr[m][u] \/ (m = n /\ f[m][u] = new)
  BY <1>1, <1>2 DEF IInv, TypeOK
<1>4. ASSUME NEW m \in Nodes, NEW u \in Tid
      PROVE  f[m][u] = thr[m][u] \/ ThreadOK(m, f[m][u])'
  BY <1>3
<1> QED
  BY <1>2, <1>3, <1>4, Move

\* One thread goes on where it is.
LEMMA GotoStep ==
  ASSUME IInv, Frame, NEW n \in Nodes, NEW t \in Tid, NEW pc, Goto(n, t, pc),
         \A new \in Thread :
           /\ new.pc = pc /\ new.peer = thr[n][t].peer /\ new.from = thr[n][t].from
           /\ new.id = thr[n][t].id /\ new.load = thr[n][t].load
           => ThreadOK(n, new)',
         pc \in PC
  PROVE  IInv'
<1>1. PICK new : new = [thr[n][t] EXCEPT !.pc = pc]
  OBVIOUS
<1>2. thr' = [thr EXCEPT ![n][t] = new] /\ thr[n][t] \in Thread
  BY <1>1, ThreadFacts DEF Goto
<1>3. /\ new \in Thread
      /\ new.pc = pc /\ new.peer = thr[n][t].peer /\ new.from = thr[n][t].from
      /\ new.id = thr[n][t].id /\ new.load = thr[n][t].load
  BY <1>1, <1>2 DEF Thread
<1>4. ThreadOK(n, new)'
  BY <1>3
<1> QED
  BY <1>2, <1>4, LocalStep

\* The threads when thread t of n has returned: it is idle, and the thread that
\* waited for it, if there is one, goes on with its next peer.
LEMMA ReturnedOK ==
  ASSUME IInv, NEW n \in Nodes, NEW t \in Tid
  PROVE  /\ Returned(n, t) \in [Nodes -> [Tid -> Thread]]
         /\ \A m \in Nodes, u \in Tid :
              \/ Returned(n, t)[m][u] = thr[m][u]
              \/ ThreadOK(m, Returned(n, t)[m][u])
<1> DEFINE m == thr[n][t].from
           c == thr[n][t].caller
<1>1. thr \in [Nodes -> [Tid -> Thread]] /\ Idle \in Thread
  BY IdleOK, ThreadFacts DEF ThreadOK
<1>2. PICK f : f = [thr EXCEPT ![n][t] = Idle]
  OBVIOUS
<1>3. /\ f \in [Nodes -> [Tid -> Thread]] /\ f[n][t] = Idle
      /\ \A k \in Nodes, u \in Tid : f[k][u] = thr[k][u] \/ f[k][u] = Idle
  BY <1>1, <1>2
<1>4. CASE Returned(n, t) = f
  BY <1>3, <1>4, IdleOK
<1>5. PICK new : new = Sending(thr[m][c].peer + 1, thr[m][c].idx)
  OBVIOUS
<1>6. PICK g : g = [f EXCEPT ![m][c] = new]
  OBVIOUS
<1>7. CASE Returned(n, t) = g
  <2>1. CASE m \in Nodes /\ c \in Tid
    <3>1. PICK k \in Nodes : k = m
      BY <2>1
    <3>2. thr[m][c].peer + 1 \in Nat \ {0} /\ thr[m][c].idx \in Nat
      BY <1>1, <2>1 DEF Thread
    <3>3. ThreadOK(k, new)
      BY <1>5, <3>2, SendingOK
    <3>4. new \in Thread
      BY <3>3 DEF ThreadOK
    <3>5. /\ g \in [Nodes -> [Tid -> Thread]]
          /\ \A j \in Nodes, u \in Tid : g[j][u] = f[j][u] \/ (j = k /\ g[j][u] = new)
      BY <1>3, <1>6, <2>1, <3>1, <3>4
    <3> QED
      BY <1>3, <1>7, <3>3, <3>5, IdleOK
  <2>2. CASE ~(m \in Nodes /\ c \in Tid)
    <3>1. g = f
      BY <1>3, <1>6, <2>2
    <3> QED
      BY <1>4, <1>7, <3>1
  <2> QED
    BY <2>1, <2>2
<1>8. Returned(n, t) = f \/ Returned(n, t) = g
  <2>1. Returned(n, t) = f \/ Returned(n, t) = [thr EXCEPT ![n][t] = Idle, ![m][c] = new]
    BY <1>2, <1>5 DEF Returned
  <2> QED
    BY <1>2, <1>6, <2>1
<1> QED
  BY <1>4, <1>7, <1>8

\* A handler returns.
LEMMA ReturnStep ==
  ASSUME IInv, Frame, NEW n \in Nodes, NEW t \in Tid, thr' = Returned(n, t)
  PROVE  IInv'
<1>1. PICK f : f = Returned(n, t)
  OBVIOUS
<1>2. /\ f \in [Nodes -> [Tid -> Thread]]
      /\ \A m \in Nodes, u \in Tid : f[m][u] = thr[m][u] \/ ThreadOK(m, f[m][u])
  BY <1>1, ReturnedOK
<1>3. ASSUME NEW m \in Nodes, NEW u \in Tid
      PROVE  f[m][u] = thr[m][u] \/ ThreadOK(m, f[m][u])'
  BY <1>2, ThreadStable
<1> QED
  BY <1>1, <1>2, <1>3, Move

\* A handler returns and leaves a detached thread behind.
LEMMA DetachStep ==
  ASSUME IInv, Frame, NEW n \in Nodes, NEW t \in Tid, NEW new,
         Detach(Returned(n, t), n, new), ThreadOK(n, new)
  PROVE  IInv'
<1>1. PICK f : f = Returned(n, t)
  OBVIOUS
<1>2. /\ f \in [Nodes -> [Tid -> Thread]]
      /\ \A m \in Nodes, u \in Tid : f[m][u] = thr[m][u] \/ ThreadOK(m, f[m][u])
  BY <1>1, ReturnedOK
<1>3. PICK d \in Detached :
        thr' = [m \in Nodes |-> [u \in Tid |-> IF m = n /\ u = d THEN new ELSE f[m][u]]]
  BY <1>1 DEF Detach
<1>4. PICK g : g = thr'
  OBVIOUS
<1>5. new \in Thread
  BY DEF ThreadOK
<1>6. /\ g \in [Nodes -> [Tid -> Thread]]
      /\ \A m \in Nodes, u \in Tid : g[m][u] = f[m][u] \/ (m = n /\ g[m][u] = new)
  BY <1>2, <1>3, <1>4, <1>5
<1>7. ASSUME NEW m \in Nodes, NEW u \in Tid
      PROVE  g[m][u] = thr[m][u] \/ ThreadOK(m, g[m][u])'
  BY <1>2, <1>6, ThreadStable
<1> QED
  BY <1>4, <1>6, <1>7, Move

-----------------------------------------------------------------------------
(* The HTTP server thread, and WebSocketPeers::add.                         *)

\* handle_blocks_post leaves a node with a block.
LEMMA PostBlocksOK ==
  ASSUME IInv, NEW n \in Nodes, PostBlocks(n)
  PROVE  IInv'
<1>1. /\ len' = [len EXCEPT ![n] = len[n] + 1] /\ UNCHANGED <<peers, dead, life>>
      /\ Goto(n, "http", "posted") /\ "http" \in Tid
  BY DEF PostBlocks, Tid
<1>2. Frame /\ len'[n] >= 1
  BY <1>1 DEF Frame, IInv, TypeOK
<1>3. ASSUME NEW new \in Thread, new.pc = "posted" PROVE ThreadOK(n, new)'
  BY <1>2, <1>3 DEF ThreadOK
<1> QED
  BY <1>1, <1>2, <1>3, GotoStep DEF PC

\* handle_peers_post names the peer to be added.
LEMMA PostPeersOK ==
  ASSUME IInv, NEW n \in Nodes, NEW m \in Nodes, PostPeers(n, m)
  PROVE  IInv'
<1>1. PICK new : new = Running("add", 0, 0, m, 0, None)
  OBVIOUS
<1>2. /\ thr' = [thr EXCEPT ![n]["http"] = new] /\ "http" \in Tid
      /\ UNCHANGED <<len, peers, dead, life>>
  BY <1>1 DEF PostPeers, Tid
<1>3. new \in Thread /\ new.pc = "add" /\ new.from = m
  BY <1>1 DEF Running, Thread, PC
<1>4. ThreadOK(n, new)'
  BY <1>3 DEF ThreadOK
<1> QED
  BY <1>2, <1>4, StillFrame, LocalStep

\* The handler of POST /blocks returns and the block is to be broadcast.
LEMMA DetachBroadcastOK ==
  ASSUME IInv, NEW n \in Nodes, DetachBroadcast(n)
  PROVE  IInv'
<1>1. PICK new : new = Start("bcast", 0)
  OBVIOUS
<1>2. /\ Detach(Returned(n, "http"), n, new) /\ "http" \in Tid
      /\ thr[n]["http"].pc = "posted" /\ Frame
  BY <1>1, StillFrame DEF DetachBroadcast, Tid, At
<1>3. len[n] >= 1
  BY <1>2, ThreadFacts DEF ThreadOK
<1>4. new \in Thread /\ new.pc = "bcast"
  BY <1>1 DEF Start, Running, Thread, PC
<1>5. ThreadOK(n, new)
  BY <1>3, <1>4 DEF ThreadOK
<1> QED
  BY <1>2, <1>5, DetachStep

\* A process that ends breaks the connections to it.
LEMMA EndedOK ==
  ASSUME IInv, NEW n \in Nodes, Ended(n)
  PROVE  IInv'
<1>1. dead' \subseteq Nodes \X Nat
  <2>1. ASSUME NEW m \in Nodes, NEW j \in DOMAIN peers[m] PROVE j \in Nat
    BY DEF IInv, TypeOK
  <2> QED
    BY <2>1 DEF Ended, IInv, TypeOK
<1>2. Frame
  BY <1>1 DEF Ended, Frame, IInv, TypeOK
<1>3. PICK f : f = thr'
  OBVIOUS
<1>4. Idle \in Thread
  BY IdleOK DEF ThreadOK
<1>5. /\ f \in [Nodes -> [Tid -> Thread]]
      /\ \A m \in Nodes, u \in Tid : f[m][u] = thr[m][u] \/ f[m][u] = Idle
  BY <1>3, <1>4 DEF Ended, IInv, TypeOK
<1>6. ASSUME NEW m \in Nodes, NEW u \in Tid
      PROVE  f[m][u] = thr[m][u] \/ ThreadOK(m, f[m][u])'
  BY <1>5, IdleOK
<1> QED
  BY <1>2, <1>3, <1>5, <1>6, Move

\* The peer_id that find or add returns, as the caller's detached request uses it.
LEMMA WithPeerIdOK ==
  ASSUME NEW n \in Nodes, NEW th \in Thread, NEW i \in Nat, i \in DOMAIN peers'[n]
  PROVE  ThreadOK(n, WithPeerId(th, i))'
<1>1. PICK new : new = WithPeerId(th, i)
  OBVIOUS
<1>2. new \in Thread /\ new.pc = "added" /\ new.id = i
  BY <1>1 DEF WithPeerId, Running, Thread, PC
<1>3. ThreadOK(n, new)'
  BY <1>2 DEF ThreadOK
<1> QED
  BY <1>1, <1>3

\* WebSocketPeers::add, and what follows it.
LEMMA AddStepOK ==
  ASSUME IInv, NEW n \in Nodes, NEW t \in Tid, AddStep(n, t)
  PROVE  IInv'
<1>1. CASE AddPeer(n, t)
  <2>1. Goto(n, t, "connect") /\ Frame /\ thr[n][t].from \in Nodes
    BY <1>1, StillFrame, ThreadFacts DEF AddPeer, At, ThreadOK
  <2>2. ASSUME NEW new \in Thread, new.pc = "connect", new.from = thr[n][t].from
        PROVE  ThreadOK(n, new)'
    BY <2>1, <2>2 DEF ThreadOK
  <2> QED
    BY <2>1, <2>2, GotoStep DEF PC
<1>2. CASE ConnectPeer(n, t)
  <2>1. PICK th \in Thread : th = thr[n][t]
    BY ThreadFacts
  <2>2. th.from \in Nodes /\ peers[n] \in Seq(Nodes)
    BY <1>2, <2>1, ThreadFacts DEF ConnectPeer, At, ThreadOK
  <2>3. PICK i : i = Len(peers[n]) + 1
    OBVIOUS
  <2>4. /\ peers' = [peers EXCEPT ![n] = Append(peers[n], th.from)]
        /\ thr' = [thr EXCEPT ![n][t] = WithPeerId(th, i)]
        /\ UNCHANGED <<len, dead, life>>
    BY <1>2, <2>1, <2>3 DEF ConnectPeer
  <2>5. /\ Append(peers[n], th.from) \in Seq(Nodes)
        /\ i \in Nat /\ i \in DOMAIN Append(peers[n], th.from)
        /\ DOMAIN peers[n] \subseteq DOMAIN Append(peers[n], th.from)
    BY <2>2, <2>3
  <2>6. Frame /\ i \in DOMAIN peers'[n]
    BY <2>4, <2>5 DEF Frame, IInv, TypeOK
  <2>7. PICK new : new = WithPeerId(th, i)
    OBVIOUS
  <2>8. ThreadOK(n, new)'
    BY <2>5, <2>6, <2>7, WithPeerIdOK
  <2> QED
    BY <2>4, <2>6, <2>7, <2>8, LocalStep
<1>3. CASE ConnectFails(n, t)
  BY <1>3, EndedOK, ReturnStep, StillFrame DEF ConnectFails
<1>4. CASE DetachRequest(n, t)
  <2>1. PICK pc \in {"rlsend", "rasend"} : pc = IF t = "http" THEN "rlsend" ELSE "rasend"
    OBVIOUS
  <2>2. PICK new : new = Start(pc, thr[n][t].id)
    OBVIOUS
  <2>3. Detach(Returned(n, t), n, new) /\ Frame
    BY <1>4, <2>1, <2>2, StillFrame DEF DetachRequest
  <2>4. thr[n][t].id \in DOMAIN peers[n] /\ thr[n][t].id \in Nat
    BY <1>4, ThreadFacts DEF DetachRequest, At, ThreadOK, Thread
  <2>5. new \in Thread /\ new.pc = pc /\ new.peer = thr[n][t].id
    BY <2>2, <2>4 DEF Start, Running, Thread, PC
  <2>6. ThreadOK(n, new)
    BY <2>4, <2>5 DEF ThreadOK
  <2> QED
    BY <2>3, <2>6, DetachStep
<1> QED
  BY <1>1, <1>2, <1>3, <1>4 DEF AddStep

-----------------------------------------------------------------------------
(* The detached threads and the handlers of what is received.               *)

\* broadcast_latest_block starts with the first peer, and has a block to send.
LEMMA BroadcastOK ==
  ASSUME IInv, NEW n \in Nodes, NEW t \in Tid, Broadcast(n, t)
  PROVE  IInv'
<1>1. len[n] >= 1 /\ len[n] \in Nat
  BY ThreadFacts DEF Broadcast, At, ThreadOK
<1>2. PICK new : new = Sending(1, len[n] - 1)
  OBVIOUS
<1>3. thr' = [thr EXCEPT ![n][t] = new] /\ Frame
  BY <1>2, StillFrame DEF Broadcast
<1>4. PICK idx \in Nat : idx = len[n] - 1
  BY <1>1
<1>5. new = Sending(1, idx)
  BY <1>2, <1>4
<1>6. ThreadOK(n, new)'
  BY <1>5, SendingOK
<1> QED
  BY <1>3, <1>6, LocalStep

\* A thread that writes to a peer has a peer_id of the list.
LEMMA BroadcastSendOK ==
  ASSUME IInv, NEW n \in Nodes, NEW t \in Tid, BroadcastSend(n, t)
  PROVE  IInv'
<1>1. PICK th \in Thread : th = thr[n][t]
  BY ThreadFacts
<1>2. th.pc = "bsend" /\ th.peer >= 1 /\ peers[n] \in Seq(Nodes) /\ Frame
  BY <1>1, ThreadFacts, StillFrame DEF BroadcastSend, At, ThreadOK
<1>3. CASE thr' = Returned(n, t)
  BY <1>2, <1>3, ReturnStep
<1>4. CASE /\ th.peer <= Len(peers[n])
           /\ thr' = [thr EXCEPT ![n][t] =
                IF <<n, th.peer>> \in dead THEN [th EXCEPT !.peer = th.peer + 1]
                                           ELSE [th EXCEPT !.pc = "bwait"]]
  <2>1. PICK new : new = IF <<n, th.peer>> \in dead THEN [th EXCEPT !.peer = th.peer + 1]
                                                    ELSE [th EXCEPT !.pc = "bwait"]
    OBVIOUS
  <2>2. new \in Thread
    BY <2>1 DEF Thread, PC
  <2>3. \/ new.pc = "bsend" /\ new.peer = th.peer + 1
        \/ new.pc = "bwait" /\ new.peer = th.peer
    BY <1>2, <2>1 DEF Thread
  <2>4. th.peer \in DOMAIN peers[n] /\ th.peer \in Nat
    BY <1>2, <1>4 DEF Thread
  <2>5. new.pc = "bwait" => new.peer \in DOMAIN peers'[n]
    BY <1>2, <2>3, <2>4 DEF Frame
  <2>6. ThreadOK(n, new)'
    BY <1>2, <2>2, <2>3, <2>4, <2>5 DEF ThreadOK
  <2> QED
    BY <1>2, <1>4, <2>1, <2>6, LocalStep
<1>5. th.peer \in Nat /\ Len(peers[n]) \in Nat
  BY <1>2 DEF Thread
<1> QED
  BY <1>1, <1>3, <1>4, <1>5 DEF BroadcastSend

\* The websocket server of the peer starts to work for the thread that waits.
LEMMA ServeBroadcastOK ==
  ASSUME IInv, NEW n \in Nodes, NEW t \in Detached, ServeBroadcast(n, t)
  PROVE  IInv'
<1>1. t \in Tid /\ "ws" \in Tid
  BY DEF Tid
<1>2. PICK th \in Thread : th = thr[n][t]
  BY <1>1, ThreadFacts
<1>3. th.peer \in DOMAIN peers[n] /\ peers[n] \in Seq(Nodes) /\ Frame
  BY <1>1, <1>2, ThreadFacts, StillFrame DEF ServeBroadcast, At, ThreadOK
<1>4. PICK m \in Nodes : m = peers[n][th.peer]
  BY <1>3
<1>5. PICK new : new = [th EXCEPT !.pc = "bserved"]
  OBVIOUS
<1>6. PICK srv : srv = Running("recv", 0, th.idx, n, 0, t)
  OBVIOUS
<1>7. /\ new \in Thread /\ new.pc = "bserved" /\ new.peer = th.peer
      /\ srv \in Thread /\ srv.pc = "recv" /\ srv.from = n
  BY <1>5, <1>6 DEF Thread, PC, Running
<1>8. ThreadOK(n, new)' /\ ThreadOK(m, srv)'
  BY <1>3, <1>7 DEF ThreadOK, Frame
<1>9. PICK f : f = [thr EXCEPT ![n][t] = new]
  OBVIOUS
<1>10. PICK g : g = [f EXCEPT ![m]["ws"] = srv]
  OBVIOUS
<1>11. thr' = g
  <2>1. thr' = [thr EXCEPT ![n][t] = new, ![m]["ws"] = srv]
    BY <1>2, <1>4, <1>5, <1>6 DEF ServeBroadcast
  <2> QED
    BY <1>9, <1>10, <2>1
<1>12. /\ f \in [Nodes -> [Tid -> Thread]]
       /\ \A k \in Nodes, u \in Tid : f[k][u] = thr[k][u] \/ (k = n /\ f[k][u] = new)
  BY <1>1, <1>7, <1>9, ThreadFacts
<1>13. /\ g \in [Nodes -> [Tid -> Thread]]
       /\ \A k \in Nodes, u \in Tid : g[k][u] = f[k][u] \/ (k = m /\ g[k][u] = srv)
  BY <1>1, <1>7, <1>10, <1>12
<1>14. ASSUME NEW k \in Nodes, NEW u \in Tid
       PROVE  g[k][u] = thr[k][u] \/ ThreadOK(k, g[k][u])'
  BY <1>8, <1>12, <1>13
<1> QED
  BY <1>3, <1>11, <1>13, <1>14, Move

\* request_latest_block and request_all_blocks write to their peer.
LEMMA RequestSendOK ==
  ASSUME IInv, NEW n \in Nodes, NEW t \in Tid, RequestSend(n, t)
  PROVE  IInv'
<1>1. Frame
  BY StillFrame DEF RequestSend
<1>2. CASE thr' = Returned(n, t)
  BY <1>1, <1>2, ReturnStep
<1>3. ASSUME NEW pc \in {"rlwait", "rawait"}, Goto(n, t, pc) PROVE IInv'
  <2>1. thr[n][t].peer \in DOMAIN peers'[n]
    BY <1>1, ThreadFacts DEF RequestSend, ThreadOK, Frame
  <2>2. ASSUME NEW new \in Thread, new.pc = pc, new.peer = thr[n][t].peer
        PROVE  ThreadOK(n, new)'
    BY <2>1, <2>2 DEF ThreadOK
  <2> QED
    BY <1>1, <1>3, <2>2, GotoStep DEF PC
<1> QED
  BY <1>2, <1>3 DEF RequestSend

\* The answers to both requests come from a peer of the list.
LEMMA ServeRequestOK ==
  ASSUME IInv, NEW n \in Nodes, NEW t \in Tid, ServeLatest(n, t) \/ ServeAll(n, t)
  PROVE  IInv'
<1>1. PICK th \in Thread : th = thr[n][t]
  BY ThreadFacts
<1>2. th.peer \in DOMAIN peers[n] /\ peers[n] \in Seq(Nodes) /\ Frame
  BY <1>1, ThreadFacts, StillFrame DEF ServeLatest, ServeAll, At, ThreadOK
<1>3. PICK m \in Nodes : m = peers[n][th.peer]
  BY <1>2
<1>4. len[m] \in Nat /\ th.peer \in Nat
  BY DEF IInv, TypeOK, Thread
<1>5. CASE ServeLatest(n, t)
  <2>1. CASE len[m] = 0
    <3>1. thr' = [thr EXCEPT ![n][t] = Idle]
      BY <1>1, <1>3, <1>5, <2>1 DEF ServeLatest
    <3>2. PICK new : new = Idle
      OBVIOUS
    <3>3. ThreadOK(n, new)'
      BY <3>2, IdleOK
    <3> QED
      BY <1>2, <3>1, <3>2, <3>3, LocalStep
  <2>2. CASE len[m] # 0
    <3>1. PICK idx \in Nat : idx = len[m] - 1
      BY <1>4, <2>2
    <3>2. PICK new : new = Running("recv", th.peer, idx, m, 0, None)
      OBVIOUS
    <3>3. thr' = [thr EXCEPT ![n][t] = new]
      BY <1>1, <1>3, <1>5, <2>2, <3>1, <3>2 DEF ServeLatest
    <3>4. new \in Thread /\ new.pc = "recv" /\ new.from = m
      BY <1>4, <3>2 DEF Running, Thread, PC
    <3>5. ThreadOK(n, new)'
      BY <3>4 DEF ThreadOK
    <3> QED
      BY <1>2, <3>3, <3>5, LocalStep
  <2> QED
    BY <2>1, <2>2
<1>6. CASE ServeAll(n, t)
  <2>1. PICK new : new = Loading(th.peer, len[m])
    OBVIOUS
  <2>2. thr' = [thr EXCEPT ![n][t] = new]
    BY <1>1, <1>3, <1>6, <2>1 DEF ServeAll
  <2>3. new \in Thread /\ new.pc = "load"
    BY <1>4, <2>1 DEF Loading, Thread, PC
  <2>4. ThreadOK(n, new)'
    BY <2>3 DEF ThreadOK
  <2> QED
    BY <1>2, <2>2, <2>4, LocalStep
<1> QED
  BY <1>5, <1>6

\* The connection broke while a thread waited.
LEMMA GiveUpOK ==
  ASSUME IInv, NEW n \in Nodes, NEW t \in Tid, GiveUp(n, t)
  PROVE  IInv'
<1>1. Frame
  BY StillFrame DEF GiveUp
<1>2. CASE thr' = Returned(n, t)
  BY <1>1, <1>2, ReturnStep
<1>3. CASE thr' = [thr EXCEPT ![n][t] = Sending(thr[n][t].peer + 1, thr[n][t].idx)]
  <2>1. PICK new : new = Sending(thr[n][t].peer + 1, thr[n][t].idx)
    OBVIOUS
  <2>2. PICK i \in Nat \ {0} : i = thr[n][t].peer + 1
    BY ThreadFacts DEF Thread
  <2>3. PICK idx \in Nat : idx = thr[n][t].idx
    BY ThreadFacts DEF Thread
  <2>4. new = Sending(i, idx)
    BY <2>1, <2>2, <2>3
  <2>5. ThreadOK(n, new)'
    BY <2>4, SendingOK
  <2> QED
    BY <1>1, <1>3, <2>1, <2>5, LocalStep
<1> QED
  BY <1>2, <1>3 DEF GiveUp

\* handle_receive_latest_block.
LEMMA ReceiveOK ==
  ASSUME IInv, NEW n \in Nodes, NEW t \in Tid, Receive(n, t)
  PROVE  IInv'
<1>1. UNCHANGED <<peers, dead, life>> /\ thr[n][t].from \in Nodes
  BY ThreadFacts DEF Receive, At, ThreadOK
<1>2. Frame
  <2>1. CASE len' = len
    BY <1>1, <2>1, StillFrame
  <2>2. CASE len' = [len EXCEPT ![n] = len[n] + 1]
    BY <1>1, <2>2 DEF Frame, IInv, TypeOK
  <2> QED
    BY <2>1, <2>2 DEF Receive
<1>3. CASE thr' = Returned(n, t)
  BY <1>2, <1>3, ReturnStep
<1>4. CASE Goto(n, t, "find")
  <2>1. ASSUME NEW new \in Thread, new.pc = "find", new.from = thr[n][t].from
        PROVE  ThreadOK(n, new)'
    BY <1>1, <2>1 DEF ThreadOK
  <2> QED
    BY <1>2, <1>4, <2>1, GotoStep DEF PC
<1> QED
  BY <1>3, <1>4 DEF Receive

\* WebSocketPeers::find.
LEMMA FindPeerOK ==
  ASSUME IInv, NEW n \in Nodes, NEW t \in Tid, FindPeer(n, t)
  PROVE  IInv'
<1>1. Frame /\ thr[n][t].from \in Nodes /\ peers' = peers
  BY StillFrame, ThreadFacts DEF FindPeer, At, ThreadOK
<1>2. CASE Goto(n, t, "add")
  <2>1. ASSUME NEW new \in Thread, new.pc = "add", new.from = thr[n][t].from
        PROVE  ThreadOK(n, new)'
    BY <1>1, <2>1 DEF ThreadOK
  <2> QED
    BY <1>1, <1>2, <2>1, GotoStep DEF PC
<1>3. ASSUME NEW i \in DOMAIN peers[n], thr' = [thr EXCEPT ![n][t] = WithPeerId(thr[n][t], i)]
      PROVE  IInv'
  <2>1. i \in Nat /\ i \in DOMAIN peers'[n]
    BY <1>1, <1>3, ThreadFacts
  <2>2. PICK th \in Thread : th = thr[n][t]
    BY ThreadFacts
  <2>3. PICK new : new = WithPeerId(th, i)
    OBVIOUS
  <2>4. ThreadOK(n, new)'
    BY <2>1, <2>3, WithPeerIdOK
  <2> QED
    BY <1>1, <1>3, <2>2, <2>3, <2>4, LocalStep
<1> QED
  BY <1>2, <1>3 DEF FindPeer

\* handle_receive_all_blocks: a chain that replaces another one has a block.
LEMMA LoadOK ==
  ASSUME IInv, NEW n \in Nodes, NEW t \in Tid, Compare(n, t) \/ Assign(n, t)
  PROVE  IInv'
<1>1. thr[n][t] \in Thread /\ thr[n][t].load \in Nat /\ len[n] \in Nat
  BY ThreadFacts DEF Thread
<1>2. CASE Compare(n, t)
  <2>1. Frame
    BY <1>2, StillFrame DEF Compare
  <2>2. ASSUME thr[n][t].load > len[n], NEW new \in Thread, new.pc = "assign",
               new.load = thr[n][t].load
        PROVE  ThreadOK(n, new)'
    BY <1>1, <2>2 DEF ThreadOK
  <2> QED
    BY <1>2, <2>1, <2>2, GotoStep, ReturnStep DEF Compare, PC
<1>3. CASE Assign(n, t)
  <2>1. thr[n][t].load >= 1
    BY <1>3, ThreadFacts DEF Assign, At, ThreadOK
  <2>2. Frame
    BY <1>1, <1>3, <2>1 DEF Assign, Frame, IInv, TypeOK
  <2> QED
    BY <1>3, <2>2, ReturnStep DEF Assign
<1> QED
  BY <1>2, <1>3

\* A step of a thread.
LEMMA ThreadStepOK ==
  ASSUME IInv, NEW n \in Nodes, NEW t \in Tid, ThreadStep(n, t)
  PROVE  IInv'
<1>1. CASE SendStep(n, t) /\ t \in Detached
  BY <1>1, BroadcastOK, BroadcastSendOK, ServeBroadcastOK, RequestSendOK,
     ServeRequestOK, GiveUpOK DEF SendStep
<1> QED
  BY <1>1, DetachBroadcastOK, AddStepOK, ReceiveOK, FindPeerOK, LoadOK DEF ThreadStep

-----------------------------------------------------------------------------
(* How a process ends, and the environment.                                 *)

\* Node::stop, the join of the server threads and ~Node.
LEMMA ShutdownOK ==
  ASSUME IInv, NEW n \in Nodes, Stop(n) \/ ShutdownStep(n)
  PROVE  IInv'
<1>1. "http" \in Tid
  BY DEF Tid
<1>2. ASSUME NEW i \in Nat, thr' = [thr EXCEPT ![n]["http"] = Start("close", i)], Frame
      PROVE  IInv'
  <2>1. PICK new : new = Start("close", i)
    OBVIOUS
  <2>2. new \in Thread /\ new.pc = "close"
    BY <2>1 DEF Start, Running, Thread, PC
  <2>3. ThreadOK(n, new)'
    BY <2>2 DEF ThreadOK
  <2> QED
    BY <1>1, <1>2, <2>1, <2>3, LocalStep
<1>3. CASE Stop(n)
  <2>1. Frame
    BY <1>3 DEF Stop, Frame, IInv, TypeOK
  <2>2. thr' = thr /\ thr \in [Nodes -> [Tid -> Thread]]
    BY <1>3 DEF Stop, IInv, TypeOK
  <2>3. PICK f : f = thr
    OBVIOUS
  <2> QED
    BY <2>1, <2>2, <2>3, Move
<1>4. CASE Join(n)
  <2>1. Frame
    BY <1>4 DEF Join, Frame, IInv, TypeOK
  <2> QED
    BY <1>2, <1>4, <2>1 DEF Join
<1>5. CASE ClosePeer(n)
  <2>1. thr[n]["http"].peer + 1 \in Nat
    BY <1>1, ThreadFacts DEF Thread
  <2> QED
    BY <1>2, <1>5, <2>1, EndedOK, StillFrame DEF ClosePeer
<1> QED
  BY <1>3, <1>4, <1>5 DEF ShutdownStep

\* A connection of the list breaks.
LEMMA BreakConnectionOK ==
  ASSUME IInv, NEW n \in Nodes, NEW i \in DOMAIN peers[n], BreakConnection(n, i)
  PROVE  IInv'
<1>1. i \in Nat
  BY DEF IInv, TypeOK
<1>2. Frame
  BY <1>1 DEF BreakConnection, Frame, IInv, TypeOK
<1>3. PICK f : f = thr
  OBVIOUS
<1>4. thr' = f /\ f \in [Nodes -> [Tid -> Thread]]
  BY <1>3 DEF BreakConnection, IInv, TypeOK
<1> QED
  BY <1>2, <1>3, <1>4, Move

-----------------------------------------------------------------------------
\* IInv holds of the network, whoever crashes, is stopped or loses connections.
THEOREM Invariance == Spec => []IInv
<1>1. Init => IInv
  <2> SUFFICES ASSUME Init PROVE IInv
    OBVIOUS
  <2>1. Idle \in Thread
    BY DEF Idle, Start, Running, Thread, PC
  <2>2. TypeOK
    BY <2>1 DEF Init, TypeOK
  <2>3. ASSUME NEW n \in Nodes, NEW t \in Tid PROVE ThreadOK(n, thr[n][t])
    BY IdleOK DEF Init
  <2> QED
    BY <2>2, <2>3 DEF IInv
<1>2. IInv /\ [Next]_vars => IInv'
  <2> SUFFICES ASSUME IInv, [Next]_vars PROVE IInv'
    OBVIOUS
  <2>1. CASE UNCHANGED vars
    BY <2>1 DEF vars, IInv, TypeOK, ThreadOK
  <2>2. ASSUME NEW n \in Nodes, UserRequest(n) \/ ShutdownStep(n) PROVE IInv'
    BY <2>2, PostBlocksOK, PostPeersOK, ShutdownOK DEF UserRequest
  <2>3. ASSUME NEW n \in Nodes, UseAfterFree(n) \/ Crash(n) PROVE IInv'
    BY <2>3, EndedOK DEF UseAfterFree, Crash
  <2> QED
    BY <2>1, <2>2, <2>3, ThreadStepOK, BreakConnectionOK DEF Next
<1> QED
  BY <1>1, <1>2, PTL DEF Spec

\* TypeOK holds of the network: len[n] - 1 is the position of a block whenever
\* a block is broadcast, a peer_id names an entry of the list when it is used,
\* and a peer that is added exists.
THEOREM TypeCorrect == Spec => []TypeOK
<1>1. IInv => TypeOK
  BY DEF IInv
<1> QED
  BY <1>1, Invariance, PTL

=============================================================================
