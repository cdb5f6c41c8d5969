---------------------------- MODULE NodeProofs ----------------------------
(***************************************************************************)
(* The safety of a network of nodes, for every number of nodes, threads,   *)
(* blocks, peers and broken connections, with and without proof of work.   *)
(*                                                                         *)
(* The invariant IInv of module Node is a conjunction of statements about  *)
(* one chain (ChainOK), one thread (ThreadOK) and one websocket server     *)
(* (ServerOK).  A step of the network changes one thread, or a server and  *)
(* the thread it answers; the lemmas LocalStep, ReturnStep and DetachStep  *)
(* say what has to be shown about such a step, so that the proof for each  *)
(* action deals only with the thread that moves.                           *)
(***************************************************************************)
EXTENDS Node, BlockchainProofs, SequenceTheorems

-----------------------------------------------------------------------------
(* Threads.                                                                 *)

\* The constructors of thread states make well-typed threads.
LEMMA RunningTyped ==
  ASSUME NEW pc \in PC, NEW peer \in Nat, NEW blk \in Block,
         NEW from \in Nodes \union {None}, NEW id \in Nat,
         NEW caller \in Detached \union {None}
  PROVE  /\ Running(pc, peer, blk, from, id, caller) \in Thread
         /\ Running(pc, peer, blk, from, id, caller).cand.blocks = <<>>
BY EmptyChainOK DEF Running, Thread, EmptyChain

\* A thread that loads a blockchain is well-typed.
LEMMA LoadingTyped ==
  ASSUME NEW peer \in Nat, NEW todo \in Seq(Block), NEW cand \in Chain
  PROVE  Loading(peer, todo, cand) \in Thread
BY NoBlockTyped DEF Loading, Thread, PC

\* A thread that starts is well-typed.
LEMMA StartTyped ==
  ASSUME NEW pc \in PC, NEW peer \in Nat
  PROVE  Start(pc, peer) \in Thread
BY RunningTyped, NoBlockTyped DEF Start

\* An idle thread is well-typed.
LEMMA IdleTyped == Idle \in Thread /\ Idle.pc = "idle"
BY StartTyped DEF Idle, PC, Start, Running

\* Moving the program counter of a thread changes nothing else.
LEMMA MovedTyped ==
  ASSUME NEW th \in Thread, NEW pc \in PC
  PROVE  LET new == [th EXCEPT !.pc = pc]
         IN  /\ new \in Thread /\ new.pc = pc
             /\ new.peer = th.peer /\ new.blk = th.blk /\ new.from = th.from
             /\ new.id = th.id /\ new.caller = th.caller
             /\ new.todo = th.todo /\ new.cand = th.cand
BY DEF Thread

-----------------------------------------------------------------------------
(* What a step does besides moving a thread.                                *)

Grows(s, r) == Len(s) <= Len(r) /\ \A i \in 1..Len(s) : r[i] = s[i]

\* The shared state stays well-typed, blocks and peers are only added, a chain
\* never becomes empty, and nobody touches the chain of a node that is mining.
Frame ==
  /\ mined' \in Seq(Block) /\ clk' \in Nat /\ chain' \in [Nodes -> Chain]
  /\ peers' \in [Nodes -> Seq(Nodes)] /\ dead' \subseteq Nodes \X Nat
  /\ Grows(mined, mined')
  /\ \A n \in Nodes :
       /\ Grows(peers[n], peers'[n])
       /\ chain[n].blocks # <<>> => chain'[n].blocks # <<>>
       /\ thr'[n]["http"] = thr[n]["http"] /\ ~ChainFree(n) =>
            chain'[n].blocks = chain[n].blocks
       /\ ChainOK(n)'

\* A sequence that is left alone grows, trivially.
LEMMA GrowsSame == ASSUME NEW S, NEW s \in Seq(S) PROVE Grows(s, s)
BY DEF Grows

\* A sequence that is appended to grows.
LEMMA GrowsAppend ==
  ASSUME NEW S, NEW s \in Seq(S), NEW x \in S
  PROVE  Grows(s, Append(s, x)) /\ Append(s, x) \in Seq(S)
BY DEF Grows

\* A step that changes only threads, or also the clock or broken connections.
LEMMA SameFrame ==
  ASSUME IInv, UNCHANGED <<mined, chain, peers>>, clk' \in Nat,
         dead' \subseteq Nodes \X Nat
  PROVE  Frame
<1>1. /\ mined' \in Seq(Block) /\ chain' \in [Nodes -> Chain]
      /\ peers' \in [Nodes -> Seq(Nodes)]
  BY DEF IInv, TypeOK
<1>2. Grows(mined, mined') /\ \A n \in Nodes : Grows(peers[n], peers'[n])
  BY DEF IInv, TypeOK, Grows
<1>3. \A n \in Nodes : ChainOK(n)'
  BY DEF IInv, ChainOK, AllKnown, Known
<1> QED
  BY <1>1, <1>2, <1>3 DEF Frame

\* A block that was mined stays known.
LEMMA KnownStable ==
  ASSUME mined \in Seq(Block), mined' \in Seq(Block), Grows(mined, mined'),
         NEW b, Known(b)
  PROVE  Known(b)'
BY DEF Known, Grows

\* What holds of a thread that does not move keeps holding.
LEMMA ThreadStable ==
  ASSUME IInv, Frame, NEW n \in Nodes, NEW t \in Tid, thr'[n][t] = thr[n][t]
  PROVE  ThreadOK(n, t)'
<1> DEFINE th == thr[n][t]
<1>1. /\ mined \in Seq(Block) /\ mined' \in Seq(Block) /\ Grows(mined, mined')
      /\ peers[n] \in Seq(Nodes) /\ peers'[n] \in Seq(Nodes)
      /\ Grows(peers[n], peers'[n])
  BY DEF IInv, TypeOK, Frame
<1>2. \A i : i \in DOMAIN peers[n] => i \in DOMAIN peers'[n]
  BY <1>1 DEF Grows
<1>3. ThreadOK(n, t)
  BY DEF IInv
<1>4. \A b : Known(b) => Known(b)'
  BY <1>1, KnownStable
<1>5. AllKnown(th.todo) => (\A i \in DOMAIN th.todo : Known(th.todo[i])')
  BY <1>4 DEF AllKnown
<1>6. AllKnown(th.cand.blocks)
        => (\A i \in DOMAIN th.cand.blocks : Known(th.cand.blocks[i])')
  BY <1>4 DEF AllKnown
<1>7. t = "http" /\ th.pc = "mining" =>
        /\ chain'[n].blocks = chain[n].blocks
        /\ TipOf(chain[n])' = TipOf(chain[n])
  BY DEF Frame, ChainFree, TipOf, Latest
<1>8. chain[n].blocks # <<>> => chain'[n].blocks # <<>>
  BY DEF Frame
<1> QED
  BY <1>2, <1>3, <1>4, <1>5, <1>6, <1>7, <1>8 DEF ThreadOK, AllKnown

PeerId == Nat \ {0}

\* An idle thread keeps its part of the invariant, ...
LEMMA IdleOK ==
  ASSUME NEW n \in Nodes, NEW t \in Tid, thr'[n][t] = Idle
  PROVE  ThreadOK(n, t)'
BY EmptyChainOK
   DEF ThreadOK, Idle, Start, Running, EmptyChain, Naming, OnPeer, Carrying,
       AllKnown, Known

\* ... and so does one that goes on with a broadcast of a known block.
LEMMA SendingOK ==
  ASSUME NEW n \in Nodes, NEW t \in Tid, NEW i \in PeerId, NEW b \in Block,
         thr'[n][t] = Sending(i, b), Known(b)'
  PROVE  ThreadOK(n, t)'
<1>1. Known(b)' <=> (b.hash \in DOMAIN mined' /\ mined'[b.hash] = b)
  BY DEF Known
<1> QED
  BY <1>1, EmptyChainOK
     DEF PeerId, ThreadOK, Sending, Running, EmptyChain, Naming, OnPeer, Carrying,
         AllKnown, Known

-----------------------------------------------------------------------------
(* Steps of one or two threads.                                             *)

\* ServerOK of threads f instead of thr.
ServerOKIn(f, m) ==
  LET ws == f[m]["ws"]
  IN  ws.pc # "idle" =>
        /\ ws.from \in Nodes /\ ws.caller \in Detached
        /\ f[ws.from][ws.caller].pc = "bserved"
        /\ f[ws.from][ws.caller].peer \in DOMAIN peers[ws.from]
        /\ peers[ws.from][f[ws.from][ws.caller].peer] = m

\* A server is in order if it and the thread it works for are as before.
LEMMA ServerInherits ==
  ASSUME NEW f, NEW g, NEW m, ServerOKIn(g, m), f[m]["ws"] = g[m]["ws"],
         \A k \in Nodes, c \in Detached :
           /\ g[k][c].pc = "bserved" /\ g[m]["ws"].pc # "idle"
           /\ g[m]["ws"].from = k /\ g[m]["ws"].caller = c
           => f[k][c] = g[k][c]
  PROVE  ServerOKIn(f, m)
<1> DEFINE ws == g[m]["ws"]
<1>1. CASE ws.pc = "idle"
  BY <1>1 DEF ServerOKIn
<1>2. CASE ws.pc # "idle"
  <2>1. /\ ws.from \in Nodes /\ ws.caller \in Detached
        /\ g[ws.from][ws.caller].pc = "bserved"
        /\ g[ws.from][ws.caller].peer \in DOMAIN peers[ws.from]
        /\ peers[ws.from][g[ws.from][ws.caller].peer] = m
    BY <1>2 DEF ServerOKIn
  <2>2. f[ws.from][ws.caller] = g[ws.from][ws.caller]
    BY <1>2, <2>1
  <2> QED
    BY <2>1, <2>2 DEF ServerOKIn
<1> QED
  BY <1>1, <1>2

\* The caller of a busy server waits on a peer_id that exists.
LEMMA ServersOK ==
  ASSUME IInv, NEW m \in Nodes
  PROVE  ServerOKIn(thr, m)
<1> DEFINE ws == thr[m]["ws"]
<1>1. ServerOK(m)
  BY DEF IInv
<1>2. ASSUME ws.pc # "idle"
      PROVE  thr[ws.from][ws.caller].peer \in DOMAIN peers[ws.from]
  <2>1. /\ ws.from \in Nodes /\ ws.caller \in Tid
        /\ thr[ws.from][ws.caller].pc = "bserved"
    BY <1>1, <1>2 DEF ServerOK, Tid
  <2>2. ThreadOK(ws.from, ws.caller)
    BY <2>1 DEF IInv
  <2> QED
    BY <2>1, <2>2 DEF ThreadOK, OnPeer
<1> QED
  BY <1>1, <1>2 DEF ServerOK, ServerOKIn

\* What has to be shown about a step: that every thread that moves becomes idle,
\* goes on with a broadcast, or is in order, and that the servers are.
LEMMA Move ==
  ASSUME IInv, Frame, thr' \in [Nodes -> [Tid -> Thread]],
         \A m \in Nodes, u \in Tid :
           \/ thr'[m][u] = thr[m][u]
           \/ thr'[m][u] = Idle
           \/ \E i \in PeerId, b \in Block : Known(b) /\ thr'[m][u] = Sending(i, b)
           \/ ThreadOK(m, u)',
         \A m \in Nodes : ServerOKIn(thr', m)
  PROVE  IInv'
<1>1. TypeOK'
  BY DEF Frame, TypeOK
<1>2. \A m \in Nodes : ChainOK(m)'
  BY DEF Frame
<1>3. ASSUME NEW m \in Nodes PROVE ServerOK(m)'
  <2> DEFINE ws == thr'[m]["ws"]
  <2>1. SUFFICES ASSUME ws.pc # "idle"
                 PROVE  /\ ws.from \in Nodes /\ ws.caller \in Detached
                        /\ thr'[ws.from][ws.caller].pc = "bserved"
                        /\ peers'[ws.from][thr'[ws.from][ws.caller].peer] = m
    BY DEF ServerOK
  <2>2. /\ ws.from \in Nodes /\ ws.caller \in Detached
        /\ thr'[ws.from][ws.caller].pc = "bserved"
        /\ thr'[ws.from][ws.caller].peer \in DOMAIN peers[ws.from]
        /\ peers[ws.from][thr'[ws.from][ws.caller].peer] = m
    BY <2>1 DEF ServerOKIn
  <2>3. /\ peers[ws.from] \in Seq(Nodes)
        /\ Grows(peers[ws.from], peers'[ws.from])
    BY <2>2 DEF IInv, TypeOK, Frame
  <2>4. ASSUME NEW k, NEW i \in DOMAIN peers[k], peers[k] \in Seq(Nodes),
               Grows(peers[k], peers'[k])
        PROVE  peers'[k][i] = peers[k][i]
    BY <2>4 DEF Grows
  <2>5. peers'[ws.from][thr'[ws.from][ws.caller].peer] = m
    BY <2>2, <2>3, <2>4, Zenon
  <2> QED
    BY <2>2, <2>5
<1>4. ASSUME NEW m \in Nodes, NEW u \in Tid PROVE ThreadOK(m, u)'
  <2>1. CASE thr'[m][u] = thr[m][u]
    BY <2>1, ThreadStable
  <2>2. CASE thr'[m][u] = Idle
    BY <2>2, IdleOK
  <2>3. CASE \E i \in PeerId, b \in Block : Known(b) /\ thr'[m][u] = Sending(i, b)
    <3>1. PICK i \in PeerId, b \in Block : Known(b) /\ thr'[m][u] = Sending(i, b)
      BY <2>3
    <3>2. Known(b)'
      BY <3>1, KnownStable DEF IInv, TypeOK, Frame
    <3> QED
      BY <3>1, <3>2, SendingOK
  <2> QED
    BY <2>1, <2>2, <2>3
<1> QED
  BY <1>1, <1>2, <1>3, <1>4 DEF IInv

\* A thread moves on its own, and does not end.
LEMMA LocalStep ==
  ASSUME IInv, Frame, NEW n \in Nodes, NEW t \in Tid, NEW new \in Thread,
         thr' = [thr EXCEPT ![n][t] = new],
         thr[n][t].pc # "bserved",
         t = "ws" => /\ thr[n][t].pc # "idle"
                     /\ new.from = thr[n][t].from /\ new.caller = thr[n][t].caller,
         ThreadOK(n, t)' \/ new = Idle
  PROVE  IInv'
<1>1. thr \in [Nodes -> [Tid -> Thread]]
  BY DEF IInv, TypeOK
<1>2. /\ thr' \in [Nodes -> [Tid -> Thread]] /\ thr'[n][t] = new
      /\ \A m \in Nodes, u \in Tid : <<m, u>> # <<n, t>> => thr'[m][u] = thr[m][u]
  BY <1>1
<1>3. ASSUME NEW m \in Nodes PROVE ServerOKIn(thr', m)
  <2> DEFINE ws == thr[m]["ws"]
             wsn == thr'[m]["ws"]
  <2>1. ServerOKIn(thr, m) /\ "ws" \in Tid /\ Detached \subseteq Tid
    BY ServersOK DEF Tid
  <2>2. SUFFICES ASSUME wsn.pc # "idle"
                 PROVE  /\ wsn.from \in Nodes /\ wsn.caller \in Detached
                        /\ thr'[wsn.from][wsn.caller].pc = "bserved"
                        /\ thr'[wsn.from][wsn.caller].peer \in DOMAIN peers[wsn.from]
                        /\ peers[wsn.from][thr'[wsn.from][wsn.caller].peer] = m
    BY DEF ServerOKIn
  <2>3. ws.pc # "idle" /\ wsn.from = ws.from /\ wsn.caller = ws.caller
    BY <1>2, <2>1, <2>2
  <2>4. /\ ws.from \in Nodes /\ ws.caller \in Detached
        /\ thr[ws.from][ws.caller].pc = "bserved"
        /\ thr[ws.from][ws.caller].peer \in DOMAIN peers[ws.from]
        /\ peers[ws.from][thr[ws.from][ws.caller].peer] = m
    BY <2>1, <2>3 DEF ServerOKIn
  <2>5. thr'[ws.from][ws.caller] = thr[ws.from][ws.caller]
    BY <1>2, <2>1, <2>4
  <2> QED
    BY <2>3, <2>4, <2>5
<1> QED
  BY <1>2, <1>3, Move

\* What the threads look like after a handler has returned.
LEMMA ReturnedOK ==
  ASSUME IInv, NEW n \in Nodes, NEW t \in Tid,
         thr[n][t].pc \notin {"idle", "bserved"}
  PROVE  /\ Returned(n, t) \in [Nodes -> [Tid -> Thread]]
         /\ \A m \in Nodes, u \in Tid :
              \/ Returned(n, t)[m][u] = thr[m][u]
              \/ Returned(n, t)[m][u] = Idle
              \/ \E i \in PeerId, b \in Block :
                   Known(b) /\ Returned(n, t)[m][u] = Sending(i, b)
         /\ \A m \in Nodes : ServerOKIn(Returned(n, t), m)
<1> DEFINE f == Returned(n, t)
<1>1. /\ thr \in [Nodes -> [Tid -> Thread]] /\ Idle \in Thread
      /\ "ws" \in Tid /\ Detached \subseteq Tid /\ "ws" \notin Detached
      /\ Idle.pc = "idle"
  BY IdleTyped, NodeAssumption DEF IInv, TypeOK, Tid
<1>2. \A m \in Nodes : ServerOKIn(thr, m)
  BY ServersOK
<1>3. CASE t # "ws"
  <2>1. f = [thr EXCEPT ![n][t] = Idle]
    BY <1>3 DEF Returned
  <2> HIDE DEF f
  <2>2. /\ f \in [Nodes -> [Tid -> Thread]] /\ f[n][t] = Idle
        /\ \A m \in Nodes, u \in Tid : <<m, u>> # <<n, t>> => f[m][u] = thr[m][u]
    BY <1>1, <2>1
  <2>3. ASSUME NEW m \in Nodes PROVE ServerOKIn(f, m)
    <3>1. f[m]["ws"] = thr[m]["ws"]
      BY <1>1, <1>3, <2>2
    <3>2. \A k \in Nodes, c \in Detached :
            thr[k][c].pc = "bserved" => f[k][c] = thr[k][c]
      BY <1>1, <2>2
    <3> QED
      BY <1>2, <3>1, <3>2, ServerInherits
  <2>4. \A m \in Nodes, u \in Tid : f[m][u] = thr[m][u] \/ f[m][u] = Idle
    BY <2>2
  <2> QED
    BY <2>2, <2>3, <2>4 DEF f
<1>4. CASE t = "ws"
  <2> DEFINE k == thr[n]["ws"].from
             c == thr[n]["ws"].caller
             snd == Sending(thr[k][c].peer + 1, thr[k][c].blk)
  <2>1. /\ k \in Nodes /\ c \in Detached /\ thr[k][c].pc = "bserved"
        /\ thr[k][c].peer \in DOMAIN peers[k] /\ peers[k][thr[k][c].peer] = n
    BY <1>2, <1>4 DEF ServerOKIn
  <2>2. thr[k][c] \in Thread /\ c \in Tid /\ c # "ws"
    BY <1>1, <2>1
  <2>3. thr[k][c].peer + 1 \in PeerId /\ thr[k][c].blk \in Block
    <3>1. thr[k][c].peer \in Nat /\ thr[k][c].blk \in Block
      BY <2>2 DEF Thread
    <3> QED
      BY <3>1 DEF PeerId
  <2>4. Known(thr[k][c].blk)
    <3>1. ThreadOK(k, c)
      BY <2>1, <2>2 DEF IInv
    <3> QED
      BY <2>1, <3>1 DEF ThreadOK, Carrying
  <2>5. snd \in Thread /\ snd.pc = "bsend"
    BY <2>3, RunningTyped DEF Sending, PC, Running, PeerId
  <2>6. f = [thr EXCEPT ![n]["ws"] = Idle, ![k][c] = snd]
    <3>1. [thr EXCEPT ![n]["ws"] = Idle][k][c] = thr[k][c]
      BY <1>1, <2>1, <2>2
    <3> QED
      BY <1>4, <3>1 DEF Returned
  <2> HIDE DEF f, snd
  <2>7. /\ f \in [Nodes -> [Tid -> Thread]]
        /\ f[n]["ws"] = Idle /\ f[k][c] = snd
        /\ \A m \in Nodes, u \in Tid :
             <<m, u>> # <<n, "ws">> /\ <<m, u>> # <<k, c>> => f[m][u] = thr[m][u]
    <3>1. f = [[thr EXCEPT ![n]["ws"] = Idle] EXCEPT ![k][c] = snd]
      BY <2>6
    <3> QED
      BY <1>1, <2>1, <2>2, <2>5, <3>1
  <2>8. \A m \in Nodes, u \in Tid :
          \/ f[m][u] = thr[m][u]
          \/ f[m][u] = Idle
          \/ \E i \in PeerId, b \in Block : Known(b) /\ f[m][u] = Sending(i, b)
    <3> SUFFICES ASSUME NEW m \in Nodes, NEW u \in Tid
                 PROVE  \/ f[m][u] = thr[m][u]
                        \/ f[m][u] = Idle
                        \/ \E i \in PeerId, b \in Block :
                             Known(b) /\ f[m][u] = Sending(i, b)
      OBVIOUS
    <3>1. CASE <<m, u>> = <<k, c>>
      <4>1. f[m][u] = Sending(thr[k][c].peer + 1, thr[k][c].blk)
        BY <2>7, <3>1 DEF snd
      <4> QED
        BY <2>3, <2>4, <4>1
    <3>2. CASE <<m, u>> # <<k, c>>
      BY <2>7, <3>2
    <3> QED
      BY <3>1, <3>2
  <2>9. ASSUME NEW m \in Nodes PROVE ServerOKIn(f, m)
    <3>1. CASE m = n
      BY <1>1, <2>7, <3>1 DEF ServerOKIn
    <3>2. CASE m # n
      <4>1. f[m]["ws"] = thr[m]["ws"]
        BY <1>1, <2>2, <2>7, <3>2
      <4>2. ASSUME NEW j \in Nodes, NEW e \in Detached,
                   thr[m]["ws"].pc # "idle",
                   thr[m]["ws"].from = j, thr[m]["ws"].caller = e
            PROVE  f[j][e] = thr[j][e]
        <5>1. peers[j][thr[j][e].peer] = m
          BY <1>2, <4>2 DEF ServerOKIn
        <5>2. <<j, e>> # <<k, c>>
          BY <2>1, <3>2, <5>1
        <5> QED
          BY <1>1, <2>7, <4>2, <5>2
      <4> QED
        BY <1>2, <4>1, <4>2, ServerInherits
    <3> QED
      BY <3>1, <3>2
  <2> QED
    BY <2>7, <2>8, <2>9 DEF f
<1> QED
  BY <1>3, <1>4

\* A handler returns.
LEMMA ReturnStep ==
  ASSUME IInv, Frame, NEW n \in Nodes, NEW t \in Tid,
         thr[n][t].pc \notin {"idle", "bserved"}, thr' = Returned(n, t)
  PROVE  IInv'
BY ReturnedOK, Move

\* A handler returns and leaves a detached thread behind.
LEMMA DetachStep ==
  ASSUME IInv, Frame, NEW n \in Nodes, NEW t \in Tid,
         thr[n][t].pc \notin {"idle", "bserved"}, NEW new \in Thread,
         Detach(Returned(n, t), n, new),
         \A d \in Detached : thr'[n][d] = new => ThreadOK(n, d)'
  PROVE  IInv'
<1> DEFINE f == Returned(n, t)
<1>1. PICK d \in Detached : f[n][d].pc = "idle" /\ thr' = [f EXCEPT ![n][d] = new]
  BY DEF Detach
<1>2. /\ f \in [Nodes -> [Tid -> Thread]]
      /\ \A m \in Nodes, u \in Tid :
           \/ f[m][u] = thr[m][u]
           \/ f[m][u] = Idle
           \/ \E i \in PeerId, b \in Block : Known(b) /\ f[m][u] = Sending(i, b)
      /\ \A m \in Nodes : ServerOKIn(f, m)
  BY ReturnedOK
<1> HIDE DEF f
<1>3. d \in Tid /\ d # "ws" /\ "ws" \in Tid /\ Detached \subseteq Tid
  BY NodeAssumption DEF Tid
<1>4. /\ thr' \in [Nodes -> [Tid -> Thread]] /\ thr'[n][d] = new
      /\ \A m \in Nodes, u \in Tid : <<m, u>> # <<n, d>> => thr'[m][u] = f[m][u]
  BY <1>1, <1>2, <1>3
<1>5. ASSUME NEW m \in Nodes PROVE ServerOKIn(thr', m)
  <2>1. thr'[m]["ws"] = f[m]["ws"]
    BY <1>3, <1>4
  <2>2. \A k \in Nodes, c \in Detached :
          f[k][c].pc = "bserved" => thr'[k][c] = f[k][c]
    BY <1>1, <1>3, <1>4
  <2> QED
    BY <1>2, <2>1, <2>2, ServerInherits
<1>6. \A m \in Nodes, u \in Tid :
        \/ thr'[m][u] = thr[m][u]
        \/ thr'[m][u] = Idle
        \/ \E i \in PeerId, b \in Block : Known(b) /\ thr'[m][u] = Sending(i, b)
        \/ ThreadOK(m, u)'
  <2> SUFFICES ASSUME NEW m \in Nodes, NEW u \in Tid
               PROVE  \/ thr'[m][u] = thr[m][u]
                      \/ thr'[m][u] = Idle
                      \/ \E i \in PeerId, b \in Block :
                           Known(b) /\ thr'[m][u] = Sending(i, b)
                      \/ ThreadOK(m, u)'
    OBVIOUS
  <2>1. CASE <<m, u>> = <<n, d>>
    BY <1>4, <2>1
  <2>2. CASE <<m, u>> # <<n, d>>
    BY <1>2, <1>4, <2>2
  <2> QED
    BY <2>1, <2>2
<1> QED
  BY <1>4, <1>5, <1>6, Move

-----------------------------------------------------------------------------
(* Steps that change only threads.                                          *)

\* What is known about a thread before a step.
LEMMA ThreadFacts ==
  ASSUME IInv, NEW n \in Nodes, NEW t \in Tid
  PROVE  /\ thr[n][t] \in Thread /\ ThreadOK(n, t)
         /\ thr[n][t].pc \in PC /\ thr[n][t].peer \in Nat
         /\ thr[n][t].blk \in Block /\ thr[n][t].id \in Nat
         /\ thr[n][t].from \in Nodes \union {None}
         /\ thr[n][t].caller \in Detached \union {None}
         /\ thr[n][t].todo \in Seq(Block) /\ thr[n][t].cand \in Chain
         /\ chain[n] \in Chain /\ peers[n] \in Seq(Nodes) /\ ChainOK(n)
         /\ Now(n) \in Int
<1>1. thr[n][t] \in Thread /\ ThreadOK(n, t)
  BY DEF IInv, TypeOK
<1>2. chain[n] \in Chain /\ peers[n] \in Seq(Nodes) /\ ChainOK(n) /\ clk \in Nat
  BY DEF IInv, TypeOK
<1>3. Skew[n] \in Int
  BY NodeAssumption
<1>4. Now(n) \in Int
  BY <1>2, <1>3 DEF Now
<1> QED
  BY <1>1, <1>2, <1>4 DEF Thread

\* The shared state stays as it is.
Still == UNCHANGED <<mined, clk, chain, peers, dead>>

\* A step that leaves the shared state alone fits the frame.
LEMMA StillFrame == ASSUME IInv, Still PROVE Frame
BY SameFrame DEF Still, IInv, TypeOK

\* Without a chain being loaded, the invariant of a thread that has moved is a
\* matter of whom it deals with, its peer_ids and its block.
LEMMA PlainThreadOK ==
  ASSUME IInv, Still, NEW n \in Nodes, NEW t \in Tid, NEW pc \in PC,
         NEW peer \in Nat, NEW blk \in Block, NEW from \in Nodes \union {None},
         NEW id \in Nat, NEW caller \in Detached \union {None},
         thr'[n][t] = Running(pc, peer, blk, from, id, caller),
         pc \in Naming => from \in Nodes,
         pc \in OnPeer => peer \in DOMAIN peers[n],
         pc = "added" => id \in DOMAIN peers[n],
         pc \in Carrying => Known(blk),
         pc \notin {"posted", "bcast", "bsend", "cmp", "assign", "mining"}
  PROVE  ThreadOK(n, t)'
<1>1. Known(blk)' <=> Known(blk)
  BY DEF Known, Still
<1> QED
  BY <1>1, EmptyChainOK
     DEF ThreadOK, Running, EmptyChain, AllKnown, Known, Still

\* A thread that only moves its program counter.
LEMMA GotoStep ==
  ASSUME IInv, Still, NEW n \in Nodes, NEW t \in Tid, NEW pc \in PC,
         Goto(n, t, pc), thr[n][t].pc \notin {"idle", "bserved"},
         pc \in Naming => thr[n][t].from \in Nodes,
         pc \in OnPeer => thr[n][t].peer \in DOMAIN peers[n],
         pc \in Carrying => Known(thr[n][t].blk),
         pc \in {"cmp", "assign"} => thr[n][t].cand.blocks # <<>>,
         pc \notin {"posted", "bcast", "bsend", "mining", "added"}
  PROVE  IInv'
<1> DEFINE th == thr[n][t]
           new == [th EXCEPT !.pc = pc]
<1>1. th \in Thread /\ ThreadOK(n, t)
  BY ThreadFacts
<1>2. /\ new \in Thread /\ new.pc = pc
      /\ new.peer = th.peer /\ new.blk = th.blk /\ new.from = th.from
      /\ new.id = th.id /\ new.caller = th.caller
      /\ new.todo = th.todo /\ new.cand = th.cand
  BY <1>1, MovedTyped
<1>3. thr' = [thr EXCEPT ![n][t] = new]
  BY DEF Goto
<1> HIDE DEF new
<1>4. thr'[n][t] = new
  BY <1>3 DEF IInv, TypeOK
<1>5. Known(th.blk)' <=> Known(th.blk)
  BY <1>2, <1>4 DEF Known, Still
<1>6. ThreadOK(n, t)'
  BY <1>1, <1>2, <1>4, <1>5 DEF ThreadOK, AllKnown, Known, Still
<1> QED
  BY <1>2, <1>3, <1>6, StillFrame, LocalStep

\* WebSocketPeers::add, first part.
LEMMA AddPeerOK ==
  ASSUME IInv, NEW n \in Nodes, NEW t \in Tid, AddPeer(n, t)
  PROVE  IInv'
<1>1. ThreadOK(n, t) /\ Still /\ thr[n][t].pc = "add" /\ Goto(n, t, "connect")
  BY ThreadFacts DEF AddPeer, At, Still
<1> QED
  BY <1>1, GotoStep DEF ThreadOK, Naming, OnPeer, Carrying, PC

\* handle_peers_post.
LEMMA PostPeersOK ==
  ASSUME IInv, NEW n \in Nodes, NEW m \in Nodes, PostPeers(n, m)
  PROVE  IInv'
<1> DEFINE new == Running("add", 0, NoBlock, m, 0, None)
<1>1. Still /\ thr' = [thr EXCEPT ![n]["http"] = new] /\ "http" \in Tid
      /\ thr[n]["http"].pc = "idle"
  BY DEF PostPeers, Still, Tid, At
<1>2. new \in Thread
  BY RunningTyped, NoBlockTyped DEF PC
<1> HIDE DEF new
<1>3. thr'[n]["http"] = new
  BY <1>1 DEF IInv, TypeOK
<1>4. ThreadOK(n, "http")'
  BY <1>1, <1>3, PlainThreadOK, NoBlockTyped DEF new, Naming, OnPeer, Carrying, PC
<1> QED
  BY <1>1, <1>2, <1>4, StillFrame, LocalStep

\* The end of handle_peers_post, and of the handler of a block from beyond the
\* end of the chain.
LEMMA DetachRequestOK ==
  ASSUME IInv, NEW n \in Nodes, NEW t \in Tid, DetachRequest(n, t)
  PROVE  IInv'
<1> DEFINE pc == IF t = "http" THEN "rlsend" ELSE "rasend"
           new == Start(pc, thr[n][t].id)
<1>1. /\ Still /\ thr[n][t].pc = "added" /\ Detach(Returned(n, t), n, new)
      /\ ThreadOK(n, t) /\ thr[n][t].id \in Nat
  BY ThreadFacts DEF DetachRequest, Still, At
<1>2. pc \in PC /\ pc \in {"rlsend", "rasend"} /\ thr[n][t].id \in DOMAIN peers[n]
  BY <1>1 DEF PC, ThreadOK
<1> HIDE DEF pc
<1>3. new \in Thread
  BY <1>1, <1>2, StartTyped
<1>4. ASSUME NEW d \in Detached, thr'[n][d] = new PROVE ThreadOK(n, d)'
  BY <1>1, <1>2, <1>4, EmptyChainOK
     DEF ThreadOK, Start, Running, EmptyChain, Naming, OnPeer, Carrying,
         AllKnown, Known, Still
<1> HIDE DEF new
<1> QED
  BY <1>1, <1>3, <1>4, StillFrame, DetachStep

\* handle_blocks_post detaches a broadcast: there is a block to send.
LEMMA DetachBroadcastOK ==
  ASSUME IInv, NEW n \in Nodes, DetachBroadcast(n)
  PROVE  IInv'
<1> DEFINE new == Start("bcast", 0)
<1>1. /\ "http" \in Tid /\ Still /\ thr[n]["http"].pc = "posted"
      /\ Detach(Returned(n, "http"), n, new)
  BY DEF DetachBroadcast, Still, At, Tid
<1>2. ThreadOK(n, "http")
  BY <1>1, ThreadFacts
<1>3. chain[n].blocks # <<>>
  BY <1>1, <1>2 DEF ThreadOK
<1>4. new \in Thread
  BY StartTyped DEF PC
<1>5. ASSUME NEW d \in Detached, thr'[n][d] = new PROVE ThreadOK(n, d)'
  BY <1>1, <1>3, <1>5, EmptyChainOK
     DEF ThreadOK, Start, Running, EmptyChain, Naming, OnPeer, Carrying,
         AllKnown, Known, Still
<1> HIDE DEF new
<1> QED
  BY <1>1, <1>4, <1>5, StillFrame, DetachStep

\* The latest block of a chain was mined.
LEMMA LatestKnown ==
  ASSUME IInv, NEW n \in Nodes, chain[n].blocks # <<>>
  PROVE  Latest(chain[n]) \in Block /\ Known(Latest(chain[n]))
<1>1. chain[n] \in Chain /\ AllKnown(chain[n].blocks)
  BY DEF IInv, TypeOK, ChainOK
<1>2. /\ Len(chain[n].blocks) \in DOMAIN chain[n].blocks
      /\ Latest(chain[n]) = chain[n].blocks[Len(chain[n].blocks)]
      /\ Latest(chain[n]) \in Block
  BY <1>1, LatestTyped
<1> QED
  BY <1>1, <1>2 DEF AllKnown

\* A detached thread goes on with a broadcast.
LEMMA SendingStep ==
  ASSUME IInv, Still, NEW n \in Nodes, NEW t \in Detached,
         thr[n][t].pc # "bserved", NEW i \in PeerId, NEW b \in Block, Known(b),
         thr' = [thr EXCEPT ![n][t] = Sending(i, b)]
  PROVE  IInv'
<1>1. t \in Tid /\ t # "ws"
  BY NodeAssumption DEF Tid
<1>2. Sending(i, b) \in Thread
  BY RunningTyped DEF Sending, PC, PeerId
<1>3. thr'[n][t] = Sending(i, b)
  BY <1>1 DEF IInv, TypeOK
<1>4. Known(b)'
  BY DEF Known, Still
<1>5. ThreadOK(n, t)'
  BY <1>1, <1>3, <1>4, SendingOK
<1> QED
  BY <1>1, <1>2, <1>5, StillFrame, LocalStep

\* A detached thread ends.
LEMMA EndStep ==
  ASSUME IInv, Still, NEW n \in Nodes, NEW t \in Detached,
         thr[n][t].pc # "bserved", thr' = [thr EXCEPT ![n][t] = Idle]
  PROVE  IInv'
<1>1. t \in Tid /\ t # "ws" /\ Idle \in Thread
  BY NodeAssumption, IdleTyped DEF Tid
<1> QED
  BY <1>1, StillFrame, LocalStep

\* broadcast_latest_block reads the latest block.
LEMMA BroadcastOK ==
  ASSUME IInv, NEW n \in Nodes, NEW t \in Detached, Broadcast(n, t)
  PROVE  IInv'
<1>1. /\ t \in Tid /\ Still /\ thr[n][t].pc = "bcast"
      /\ thr' = [thr EXCEPT ![n][t] = Sending(1, Latest(chain[n]))]
  BY DEF Broadcast, Still, At, Tid
<1>2. ThreadOK(n, t)
  BY <1>1, ThreadFacts
<1>3. chain[n].blocks # <<>>
  BY <1>1, <1>2 DEF ThreadOK
<1>4. Latest(chain[n]) \in Block /\ Known(Latest(chain[n])) /\ 1 \in PeerId
  BY <1>3, LatestKnown DEF PeerId
<1> QED
  BY <1>1, <1>4, SendingStep

\* One round of the loop over the peers.
LEMMA BroadcastSendOK ==
  ASSUME IInv, NEW n \in Nodes, NEW t \in Detached, BroadcastSend(n, t)
  PROVE  IInv'
<1> DEFINE th == thr[n][t]
<1>1. t \in Tid /\ Still /\ th.pc = "bsend"
  BY DEF BroadcastSend, Still, At, Tid
<1>2. th \in Thread /\ th.peer \in Nat /\ th.blk \in Block /\ ThreadOK(n, t)
      /\ peers[n] \in Seq(Nodes)
  BY <1>1, ThreadFacts
<1>3. Known(th.blk) /\ AllKnown(th.todo) /\ AllKnown(th.cand.blocks)
      /\ Linked(th.cand.blocks)
  BY <1>1, <1>2 DEF ThreadOK, Carrying
<1>4. CASE thr' = Returned(n, t)
  BY <1>1, <1>4, StillFrame, ReturnStep
<1>5. CASE thr' = [thr EXCEPT ![n][t] = [@ EXCEPT !.peer = th.peer + 1]]
  <2> DEFINE new == [th EXCEPT !.peer = th.peer + 1]
  <2>1. /\ new \in Thread /\ new.pc = "bsend" /\ new.blk = th.blk
        /\ new.peer # 0
        /\ new.todo = th.todo /\ new.cand = th.cand
    BY <1>1, <1>2 DEF Thread
  <2>2. thr' = [thr EXCEPT ![n][t] = new]
    BY <1>5
  <2> HIDE DEF new
  <2>3. thr'[n][t] = new
    BY <1>1, <2>2 DEF IInv, TypeOK
  <2>4. ThreadOK(n, t)'
    BY <1>1, <1>3, <2>1, <2>3
       DEF ThreadOK, Naming, OnPeer, Carrying, AllKnown, Known, Still
  <2>5. t # "ws"
    BY NodeAssumption
  <2> QED
    BY <1>1, <2>1, <2>2, <2>4, <2>5, StillFrame, LocalStep
<1>6. CASE Goto(n, t, "bwait") /\ th.peer \in DOMAIN peers[n]
  BY <1>1, <1>3, <1>6, GotoStep DEF Naming, OnPeer, Carrying, PC
<1>7. th.peer \in DOMAIN peers[n] \/ thr' = Returned(n, t)
  <2>1. CASE th.peer > Len(peers[n])
    BY <2>1 DEF BroadcastSend
  <2>2. CASE ~(th.peer > Len(peers[n]))
    BY <1>1, <1>2, <2>2 DEF ThreadOK
  <2> QED
    BY <2>1, <2>2
<1> QED
  BY <1>4, <1>5, <1>6, <1>7 DEF BroadcastSend, Goto

\* The websocket server of a peer starts to work for a waiting broadcast.
LEMMA ServeBroadcastOK ==
  ASSUME IInv, NEW n \in Nodes, NEW t \in Detached, ServeBroadcast(n, t)
  PROVE  IInv'
<1> DEFINE th == thr[n][t]
           new == [th EXCEPT !.pc = "bserved"]
           srv == Running("recv", 0, th.blk, n, 0, t)
<1>0. PICK m : m = peers[n][th.peer]
  OBVIOUS
<1>1. /\ Still /\ th.pc = "bwait" /\ t \in Tid /\ t # "ws" /\ "ws" \in Tid
      /\ Detached \subseteq Tid /\ "ws" \notin Detached
      /\ thr[m]["ws"].pc = "idle"
  BY <1>0, NodeAssumption DEF ServeBroadcast, Still, At, Listening, Tid
<1>2. th \in Thread /\ th.blk \in Block /\ ThreadOK(n, t) /\ peers[n] \in Seq(Nodes)
  BY <1>1, ThreadFacts
<1>3. /\ th.peer \in DOMAIN peers[n] /\ Known(th.blk)
      /\ AllKnown(th.todo) /\ AllKnown(th.cand.blocks) /\ Linked(th.cand.blocks)
  BY <1>1, <1>2 DEF ThreadOK, OnPeer, Carrying
<1>4. m \in Nodes /\ "bserved" \in PC
  BY <1>0, <1>2, <1>3 DEF PC
<1>5. /\ new \in Thread /\ new.pc = "bserved" /\ new.peer = th.peer
      /\ new.blk = th.blk /\ new.todo = th.todo /\ new.cand = th.cand
  BY <1>2, <1>4, MovedTyped
<1>6. /\ srv \in Thread /\ srv.pc = "recv" /\ srv.from = n /\ srv.caller = t
      /\ srv.blk = th.blk /\ srv.todo = <<>> /\ srv.cand.blocks = <<>>
  BY <1>2, RunningTyped DEF PC, Running, EmptyChain
<1>7. thr' = [[thr EXCEPT ![n][t] = new] EXCEPT ![m]["ws"] = srv]
  BY <1>0 DEF ServeBroadcast
<1> HIDE DEF new, srv
<1>8. /\ thr' \in [Nodes -> [Tid -> Thread]]
      /\ thr'[n][t] = new /\ thr'[m]["ws"] = srv
      /\ \A k \in Nodes, u \in Tid :
           <<k, u>> # <<n, t>> /\ <<k, u>> # <<m, "ws">> => thr'[k][u] = thr[k][u]
  BY <1>1, <1>4, <1>5, <1>6, <1>7 DEF IInv, TypeOK
<1>9. ThreadOK(n, t)'
  BY <1>1, <1>3, <1>5, <1>8
     DEF ThreadOK, Naming, OnPeer, Carrying, AllKnown, Known, Still
<1>10. ThreadOK(m, "ws")'
  BY <1>1, <1>3, <1>4, <1>6, <1>8
     DEF ThreadOK, Naming, OnPeer, Carrying, AllKnown, Known, Linked, Still
<1>11. ASSUME NEW k \in Nodes PROVE ServerOKIn(thr', k)
  <2>1. CASE k = m
    BY <1>0, <1>3, <1>5, <1>6, <1>8, <2>1 DEF ServerOKIn
  <2>2. CASE k # m
    <3>1. thr'[k]["ws"] = thr[k]["ws"]
      BY <1>1, <1>8, <2>2
    <3>2. \A j \in Nodes, c \in Detached :
            thr[j][c].pc = "bserved" => thr'[j][c] = thr[j][c]
      BY <1>1, <1>8
    <3> QED
      BY <3>1, <3>2, ServersOK, ServerInherits
  <2> QED
    BY <2>1, <2>2
<1>12. ASSUME NEW k \in Nodes, NEW u \in Tid
       PROVE  thr'[k][u] = thr[k][u] \/ ThreadOK(k, u)'
  <2>1. CASE <<k, u>> = <<n, t>>
    BY <1>9, <2>1
  <2>2. CASE <<k, u>> = <<m, "ws">>
    BY <1>10, <2>2
  <2> QED
    BY <1>8, <2>1, <2>2
<1> QED
  BY <1>1, <1>8, <1>11, <1>12, StillFrame, Move

\* request_latest_block and request_all_blocks write their request.
LEMMA RequestSendOK ==
  ASSUME IInv, NEW n \in Nodes, NEW t \in Detached, RequestSend(n, t)
  PROVE  IInv'
<1> DEFINE th == thr[n][t]
           pc == IF th.pc = "rlsend" THEN "rlwait" ELSE "rawait"
<1>1. Still /\ th.pc \in {"rlsend", "rasend"} /\ t \in Tid
  BY DEF RequestSend, Still, Tid
<1>2. ThreadOK(n, t) /\ pc \in {"rlwait", "rawait"}
  BY <1>1, ThreadFacts
<1>3. CASE <<n, th.peer>> \in dead
  BY <1>1, <1>3, EndStep DEF RequestSend
<1>4. CASE <<n, th.peer>> \notin dead
  <2>1. Goto(n, t, pc)
    BY <1>4 DEF RequestSend, At
  <2>2. th.peer \in DOMAIN peers[n]
    BY <1>1, <1>2 DEF ThreadOK, OnPeer
  <2> HIDE DEF pc
  <2> QED
    BY <1>1, <1>2, <2>1, <2>2, GotoStep DEF PC, Naming, OnPeer, Carrying
<1> QED
  BY <1>3, <1>4

\* The answer to request_latest_block holds a block that was mined.
LEMMA ServeLatestOK ==
  ASSUME IInv, NEW n \in Nodes, NEW t \in Detached, ServeLatest(n, t)
  PROVE  IInv'
<1> DEFINE th == thr[n][t]
           m == peers[n][th.peer]
           new == Running("recv", th.peer, Latest(chain[m]), m, 0, None)
<1>1. Still /\ th.pc = "rlwait" /\ t \in Tid /\ t # "ws"
  BY NodeAssumption DEF ServeLatest, Still, At, Tid
<1>2. ThreadOK(n, t) /\ th.peer \in Nat /\ peers[n] \in Seq(Nodes)
  BY <1>1, ThreadFacts
<1>3. m \in Nodes
  BY <1>1, <1>2 DEF ThreadOK, OnPeer
<1>4. CASE chain[m].blocks = <<>>
  BY <1>1, <1>4, EndStep DEF ServeLatest
<1>5. CASE chain[m].blocks # <<>>
  <2>1. Latest(chain[m]) \in Block /\ Known(Latest(chain[m]))
    BY <1>3, <1>5, LatestKnown
  <2>2. new \in Thread
    BY <1>2, <1>3, <2>1, RunningTyped DEF PC
  <2>3. thr' = [thr EXCEPT ![n][t] = new]
    BY <1>5 DEF ServeLatest
  <2>4. /\ new.pc = "recv" /\ new.from = m /\ new.blk = Latest(chain[m])
        /\ new.todo = <<>> /\ new.cand.blocks = <<>>
    BY DEF Running, EmptyChain
  <2> HIDE DEF new, m
  <2>5. thr'[n][t] = new
    BY <1>1, <2>3 DEF IInv, TypeOK
  <2>6. ThreadOK(n, t)'
    BY <1>1, <1>3, <2>1, <2>4, <2>5
       DEF ThreadOK, Naming, OnPeer, Carrying, AllKnown, Known, Linked, Still
  <2> QED
    BY <1>1, <2>2, <2>3, <2>6, StillFrame, LocalStep
<1> QED
  BY <1>4, <1>5

\* A thread that loads known blocks into a linked chain is in order.
LEMMA LoadingStep ==
  ASSUME IInv, Still, NEW n \in Nodes, NEW t \in Detached,
         thr[n][t].pc # "bserved", NEW peer \in Nat, NEW todo \in Seq(Block),
         NEW cand \in Chain, AllKnown(todo), AllKnown(cand.blocks),
         Linked(cand.blocks), thr' = [thr EXCEPT ![n][t] = Loading(peer, todo, cand)]
  PROVE  IInv'
<1> DEFINE new == Loading(peer, todo, cand)
<1>1. t \in Tid /\ t # "ws"
  BY NodeAssumption DEF Tid
<1>2. new \in Thread /\ new.pc = "load" /\ new.todo = todo /\ new.cand = cand
  BY LoadingTyped DEF Loading
<1> HIDE DEF new
<1>3. thr' = [thr EXCEPT ![n][t] = new] /\ thr'[n][t] = new
  BY <1>1 DEF IInv, TypeOK, new
<1>4. ThreadOK(n, t)'
  BY <1>1, <1>2, <1>3
     DEF ThreadOK, Naming, OnPeer, Carrying, AllKnown, Known, Still
<1> QED
  BY <1>1, <1>2, <1>3, <1>4, StillFrame, LocalStep

\* The answer to request_all_blocks holds blocks that were mined.
LEMMA ServeAllOK ==
  ASSUME IInv, NEW n \in Nodes, NEW t \in Detached, ServeAll(n, t)
  PROVE  IInv'
<1> DEFINE th == thr[n][t]
           m == peers[n][th.peer]
<1>1. /\ Still /\ th.pc = "rawait" /\ t \in Tid
      /\ thr' = [thr EXCEPT ![n][t] = Loading(th.peer, chain[m].blocks, EmptyChain)]
  BY DEF ServeAll, Still, At, Tid
<1>2. ThreadOK(n, t) /\ th.peer \in Nat /\ peers[n] \in Seq(Nodes)
  BY <1>1, ThreadFacts
<1>3. m \in Nodes
  BY <1>1, <1>2 DEF ThreadOK, OnPeer
<1>4. chain[m].blocks \in Seq(Block) /\ AllKnown(chain[m].blocks)
  BY <1>3 DEF IInv, TypeOK, ChainOK, Chain
<1>5. EmptyChain \in Chain /\ AllKnown(EmptyChain.blocks) /\ Linked(EmptyChain.blocks)
  BY EmptyChainOK DEF AllKnown, EmptyChain
<1> QED
  BY <1>1, <1>2, <1>4, <1>5, LoadingStep

\* A thread that waits gives up.
LEMMA GiveUpOK ==
  ASSUME IInv, NEW n \in Nodes, NEW t \in Detached, GiveUp(n, t)
  PROVE  IInv'
<1> DEFINE th == thr[n][t]
<1>1. Still /\ t \in Tid
  BY DEF GiveUp, Still, Tid
<1>2. th.peer \in Nat /\ th.blk \in Block /\ ThreadOK(n, t)
  BY <1>1, ThreadFacts
<1>3. CASE th.pc = "bwait" /\ thr' = [thr EXCEPT ![n][t] = Sending(@.peer + 1, @.blk)]
  <2>1. thr' = [thr EXCEPT ![n][t] = Sending(th.peer + 1, th.blk)]
    BY <1>3
  <2>2. Known(th.blk) /\ th.peer + 1 \in PeerId
    BY <1>2, <1>3 DEF ThreadOK, Carrying, PeerId
  <2> QED
    BY <1>1, <1>2, <1>3, <2>1, <2>2, SendingStep
<1>4. CASE th.pc \in {"rlwait", "rawait"} /\ thr' = [thr EXCEPT ![n][t] = Idle]
  BY <1>1, <1>4, EndStep
<1> QED
  BY <1>3, <1>4 DEF GiveUp, At

\* The steps of handle_receive_latest_block that only look at the chain.
LEMMA RecvOK ==
  ASSUME IInv, NEW n \in Nodes, NEW t \in Tid,
         RecvValid(n, t) \/ RecvIndex(n, t) \/ RecvSuccessor(n, t)
  PROVE  IInv'
<1> DEFINE th == thr[n][t]
<1>1. Still /\ th.pc \in {"recv", "eq", "succ"}
  BY DEF RecvValid, RecvIndex, RecvSuccessor, Still, At
<1>2. ThreadOK(n, t)
  BY ThreadFacts
<1>3. th.from \in Nodes /\ Known(th.blk)
  BY <1>1, <1>2 DEF ThreadOK, Naming, Carrying
<1>4. CASE thr' = Returned(n, t)
  BY <1>1, <1>4, StillFrame, ReturnStep
<1>5. ASSUME NEW pc \in {"find", "eq", "succ", "append"}, Goto(n, t, pc) PROVE IInv'
  <2>1. /\ pc \in PC /\ pc \notin OnPeer /\ pc \notin {"cmp", "assign"}
        /\ pc \notin {"posted", "bcast", "bsend", "mining", "added"}
    BY <1>5 DEF PC, OnPeer
  <2> QED
    BY <1>1, <1>3, <1>5, <2>1, GotoStep
<1>6. \/ thr' = Returned(n, t)
      \/ \E pc \in {"find", "eq", "succ", "append"} : Goto(n, t, pc)
  BY DEF RecvValid, RecvIndex, RecvSuccessor
<1> QED
  BY <1>4, <1>5, <1>6

\* WebSocketPeers::find.
LEMMA FindPeerOK ==
  ASSUME IInv, NEW n \in Nodes, NEW t \in Tid, FindPeer(n, t)
  PROVE  IInv'
<1> DEFINE th == thr[n][t]
<1>1. Still /\ th.pc = "find"
  BY DEF FindPeer, Still, At
<1>2. /\ ThreadOK(n, t) /\ peers[n] \in Seq(Nodes) /\ th.peer \in Nat
      /\ th.blk \in Block /\ th.caller \in Detached \union {None}
  BY ThreadFacts
<1>3. th.from \in Nodes /\ Known(th.blk)
  BY <1>1, <1>2 DEF ThreadOK, Naming, Carrying
<1>4. CASE Goto(n, t, "add")
  BY <1>1, <1>3, <1>4, GotoStep DEF PC, OnPeer, Carrying
<1>5. ASSUME NEW i \in DOMAIN peers[n],
             thr' = [thr EXCEPT ![n][t] = WithPeerId(@, i)]
      PROVE  IInv'
  <2> DEFINE new == WithPeerId(th, i)
  <2>1. i \in Nat
    BY <1>2
  <2>2. new \in Thread
    BY <1>2, <1>3, <2>1, RunningTyped DEF WithPeerId, PC
  <2>3. /\ new.pc = "added" /\ new.from = th.from /\ new.id = i
        /\ new.caller = th.caller /\ new.todo = <<>> /\ new.cand.blocks = <<>>
    BY DEF WithPeerId, Running, EmptyChain
  <2>4. thr' = [thr EXCEPT ![n][t] = new]
    BY <1>5
  <2> HIDE DEF new
  <2>5. thr'[n][t] = new
    BY <2>4 DEF IInv, TypeOK
  <2>6. ThreadOK(n, t)'
    BY <1>1, <1>3, <2>3, <2>5
       DEF ThreadOK, Naming, OnPeer, Carrying, AllKnown, Linked, Still
  <2> QED
    BY <1>1, <2>2, <2>3, <2>4, <2>6, StillFrame, LocalStep
<1>6. \/ Goto(n, t, "add")
      \/ \E i \in DOMAIN peers[n] : thr' = [thr EXCEPT ![n][t] = WithPeerId(@, i)]
  BY DEF FindPeer
<1> QED
  BY <1>4, <1>5, <1>6

\* Appending a known block to known blocks.
LEMMA AllKnownAppend ==
  ASSUME NEW bs \in Seq(Block), NEW b \in Block, AllKnown(bs), Known(b)
  PROVE  AllKnown(Append(bs, b))
BY DEF AllKnown

\* One round of Blockchain::from_json.
LEMMA LoadBlockOK ==
  ASSUME IInv, NEW n \in Nodes, NEW t \in Detached, LoadBlock(n, t)
  PROVE  IInv'
<1> DEFINE th == thr[n][t]
           b == Head(th.todo)
           r == AppendNextBlock(th.cand, b, Now(n))
<1>1. Still /\ th.pc = "load" /\ th.todo # <<>> /\ t \in Tid
  BY DEF LoadBlock, Still, At, Tid
<1>2. /\ th.peer \in Nat /\ th.todo \in Seq(Block) /\ th.cand \in Chain
      /\ Now(n) \in Int /\ ThreadOK(n, t)
  BY <1>1, ThreadFacts
<1>3. AllKnown(th.todo) /\ AllKnown(th.cand.blocks) /\ Linked(th.cand.blocks)
  BY <1>2 DEF ThreadOK
<1>4. /\ b \in Block /\ Known(b)
      /\ Tail(th.todo) \in Seq(Block) /\ AllKnown(Tail(th.todo))
  BY <1>1, <1>2, <1>3 DEF AllKnown
<1>5. /\ r.chain \in Chain
      /\ r.chain.blocks = th.cand.blocks \/ r.chain.blocks = Append(th.cand.blocks, b)
      /\ Linked(r.chain.blocks)
  BY <1>2, <1>3, <1>4, AppendNextBlockOK
<1>6. AllKnown(r.chain.blocks)
  <2>1. th.cand.blocks \in Seq(Block)
    BY <1>2 DEF Chain
  <2> QED
    BY <1>3, <1>4, <1>5, <2>1, AllKnownAppend
<1>7. CASE r.ok
  <2>1. thr' = [thr EXCEPT ![n][t] = Loading(th.peer, Tail(th.todo), r.chain)]
    BY <1>7 DEF LoadBlock
  <2> HIDE DEF r
  <2> QED
    BY <1>1, <1>2, <1>4, <1>5, <1>6, <2>1, LoadingStep
<1>8. CASE ~r.ok
  <2>1. thr' = [thr EXCEPT ![n][t] = Idle]
    BY <1>8 DEF LoadBlock
  <2> QED
    BY <1>1, <2>1, EndStep
<1> QED
  BY <1>7, <1>8

\* Blockchain::valid and the comparison of what was loaded.
LEMMA CheckLoadedOK ==
  ASSUME IInv, NEW n \in Nodes, NEW t \in Detached,
         LoadValid(n, t) \/ Compare(n, t)
  PROVE  IInv'
<1> DEFINE th == thr[n][t]
<1>1. Still /\ th.pc \in {"load", "cmp"} /\ t \in Tid
  BY DEF LoadValid, Compare, Still, At, Tid
<1>2. ThreadOK(n, t)
  BY <1>1, ThreadFacts
<1>3. CASE thr' = Returned(n, t)
  BY <1>1, <1>3, StillFrame, ReturnStep
<1>4. ASSUME NEW pc \in {"cmp", "assign"}, Goto(n, t, pc), th.cand.blocks # <<>>
      PROVE  IInv'
  <2>1. /\ pc \in PC /\ pc \notin OnPeer /\ pc \notin Naming /\ pc \notin Carrying
        /\ pc \notin {"posted", "bcast", "bsend", "mining", "added"}
    BY <1>4 DEF PC, OnPeer, Naming, Carrying
  <2> QED
    BY <1>1, <1>4, <2>1, GotoStep
<1>5. CASE LoadValid(n, t)
  <2>1. thr' = Returned(n, t) \/ (Goto(n, t, "cmp") /\ th.cand.blocks # <<>>)
    BY <1>5 DEF LoadValid, ValidChain
  <2> QED
    BY <1>3, <1>4, <2>1
<1>6. CASE Compare(n, t)
  <2>1. thr' = Returned(n, t) \/ Goto(n, t, "assign")
    BY <1>6 DEF Compare
  <2>2. th.cand.blocks # <<>>
    BY <1>2, <1>6 DEF ThreadOK, Compare, At
  <2> QED
    BY <1>3, <1>4, <2>1, <2>2
<1> QED
  BY <1>5, <1>6

-----------------------------------------------------------------------------
(* Steps that change the shared state.                                      *)

\* WebSocketPeers::add, second part: peer_ids that are in use stay valid.
LEMMA ConnectPeerOK ==
  ASSUME IInv, NEW n \in Nodes, NEW t \in Tid, ConnectPeer(n, t)
  PROVE  IInv'
<1> DEFINE th == thr[n][t]
           i == Len(peers[n]) + 1
           new == WithPeerId(th, i)
<1>1. /\ th.pc = "connect" /\ UNCHANGED <<mined, clk, chain, dead>>
      /\ peers' = [peers EXCEPT ![n] = Append(@, th.from)]
      /\ thr' = [thr EXCEPT ![n][t] = new]
  BY DEF ConnectPeer, At
<1>2. /\ ThreadOK(n, t) /\ peers[n] \in Seq(Nodes) /\ th.peer \in Nat
      /\ th.blk \in Block /\ th.caller \in Detached \union {None}
  BY ThreadFacts
<1>3. th.from \in Nodes
  BY <1>1, <1>2 DEF ThreadOK, Naming
<1>4. i \in Nat
  BY <1>2
<1>5. new \in Thread
  BY <1>2, <1>3, <1>4, RunningTyped DEF WithPeerId, PC
<1>6. /\ new.pc = "added" /\ new.from = th.from /\ new.id = i
      /\ new.caller = th.caller /\ new.todo = <<>> /\ new.cand.blocks = <<>>
  BY DEF WithPeerId, Running, EmptyChain
<1> HIDE DEF new
<1>7. thr'[n][t] = new
  BY <1>1 DEF IInv, TypeOK
<1>8. /\ peers'[n] = Append(peers[n], th.from)
      /\ \A m \in Nodes : m # n => peers'[m] = peers[m]
      /\ peers' \in [Nodes -> Seq(Nodes)]
  BY <1>1, <1>2, <1>3 DEF IInv, TypeOK
<1>9. ASSUME NEW m \in Nodes PROVE Grows(peers[m], peers'[m])
  <2>1. CASE m = n
    BY <1>2, <1>3, <1>8, <2>1, GrowsAppend
  <2>2. CASE m # n
    BY <1>8, <2>2, GrowsSame DEF IInv, TypeOK
  <2> QED
    BY <2>1, <2>2
<1>10. Frame
  <2>1. /\ mined' \in Seq(Block) /\ clk' \in Nat /\ chain' \in [Nodes -> Chain]
        /\ dead' \subseteq Nodes \X Nat /\ Grows(mined, mined')
    BY <1>1 DEF IInv, TypeOK, Grows
  <2>2. \A m \in Nodes : ChainOK(m)'
    BY <1>1 DEF IInv, ChainOK, AllKnown, Known
  <2> QED
    BY <1>1, <1>8, <1>9, <2>1, <2>2 DEF Frame
<1>11. i \in DOMAIN peers'[n]
  BY <1>2, <1>8
<1> HIDE DEF i
<1>12. ThreadOK(n, t)'
  BY <1>3, <1>6, <1>7, <1>11
     DEF ThreadOK, Naming, OnPeer, Carrying, AllKnown, Linked
<1> QED
  BY <1>1, <1>5, <1>6, <1>10, <1>12, LocalStep

\* The chain of a node that is not mining changes to another linked one.
LEMMA ChainFrame ==
  ASSUME IInv, UNCHANGED <<mined, clk, peers, dead>>, NEW n \in Nodes,
         NEW c \in Chain, chain' = [chain EXCEPT ![n] = c], Linked(c.blocks),
         AllKnown(c.blocks), chain[n].blocks # <<>> => c.blocks # <<>>,
         ChainFree(n) \/ c.blocks = chain[n].blocks
  PROVE  Frame
<1>1. /\ mined' \in Seq(Block) /\ clk' \in Nat
      /\ peers' \in [Nodes -> Seq(Nodes)] /\ dead' \subseteq Nodes \X Nat
      /\ Grows(mined, mined') /\ \A m \in Nodes : Grows(peers[m], peers'[m])
  BY DEF IInv, TypeOK, Grows
<1>2. /\ chain' \in [Nodes -> Chain] /\ chain'[n] = c
      /\ \A m \in Nodes : m # n => chain'[m] = chain[m]
  BY DEF IInv, TypeOK
<1>3. ASSUME NEW m \in Nodes PROVE ChainOK(m)'
  <2>1. ChainOK(m)
    BY DEF IInv
  <2>2. CASE m = n
    BY <1>2, <2>2 DEF ChainOK, AllKnown, Known
  <2>3. CASE m # n
    BY <1>2, <2>1, <2>3 DEF ChainOK, AllKnown, Known
  <2> QED
    BY <2>2, <2>3
<1>4. ASSUME NEW m \in Nodes
      PROVE  /\ chain[m].blocks # <<>> => chain'[m].blocks # <<>>
             /\ ~ChainFree(m) => chain'[m].blocks = chain[m].blocks
  <2>1. CASE m = n
    BY <1>2, <2>1
  <2>2. CASE m # n
    BY <1>2, <2>2
  <2> QED
    BY <2>1, <2>2
<1> QED
  BY <1>1, <1>2, <1>3, <1>4 DEF Frame

\* append_next_block, whatever has happened since the handler's checks.
LEMMA RecvAppendOK ==
  ASSUME IInv, NEW n \in Nodes, NEW t \in Tid, RecvAppend(n, t)
  PROVE  IInv'
<1> DEFINE th == thr[n][t]
           c == AppendNextBlock(chain[n], th.blk, Now(n)).chain
<1>1. /\ th.pc = "append" /\ ChainFree(n) /\ UNCHANGED <<mined, clk, peers, dead>>
      /\ chain' = [chain EXCEPT ![n] = c] /\ thr' = Returned(n, t)
  BY DEF RecvAppend, At
<1>2. /\ ThreadOK(n, t) /\ th.blk \in Block /\ chain[n] \in Chain /\ ChainOK(n)
      /\ Now(n) \in Int
  BY ThreadFacts
<1>3. Known(th.blk) /\ Linked(chain[n].blocks) /\ AllKnown(chain[n].blocks)
  BY <1>1, <1>2 DEF ThreadOK, Carrying, ChainOK
<1>4. /\ c \in Chain /\ Linked(c.blocks)
      /\ c.blocks = chain[n].blocks \/ c.blocks = Append(chain[n].blocks, th.blk)
  BY <1>2, <1>3, AppendNextBlockOK
<1> HIDE DEF c
<1>5. chain[n].blocks \in Seq(Block)
  BY <1>2 DEF Chain
<1>6. AllKnown(c.blocks)
  BY <1>2, <1>3, <1>4, <1>5, AllKnownAppend
<1>7. chain[n].blocks # <<>> => c.blocks # <<>>
  BY <1>2, <1>4, <1>5
<1>8. Frame
  BY <1>1, <1>4, <1>6, <1>7, ChainFrame
<1> QED
  BY <1>1, <1>8, ReturnStep

\* The chain is replaced.
LEMMA AssignOK ==
  ASSUME IInv, NEW n \in Nodes, NEW t \in Detached, Assign(n, t)
  PROVE  IInv'
<1> DEFINE th == thr[n][t]
<1>1. /\ th.pc = "assign" /\ ChainFree(n) /\ UNCHANGED <<mined, clk, peers, dead>>
      /\ chain' = [chain EXCEPT ![n] = th.cand] /\ thr' = Returned(n, t) /\ t \in Tid
  BY DEF Assign, At, Tid
<1>2. ThreadOK(n, t) /\ th.cand \in Chain
  BY <1>1, ThreadFacts
<1>3. Linked(th.cand.blocks) /\ AllKnown(th.cand.blocks) /\ th.cand.blocks # <<>>
  BY <1>1, <1>2 DEF ThreadOK
<1>4. Frame
  BY <1>1, <1>2, <1>3, ChainFrame
<1> QED
  BY <1>1, <1>4, ReturnStep

\* A step that moves no thread and touches no chain.
LEMMA QuietStep ==
  ASSUME IInv, UNCHANGED <<mined, chain, peers, thr>>, clk' \in Nat,
         dead' \subseteq Nodes \X Nat
  PROVE  IInv'
<1>1. Frame
  BY SameFrame
<1>2. thr' \in [Nodes -> [Tid -> Thread]]
  BY DEF IInv, TypeOK
<1>3. \A m \in Nodes : ServerOKIn(thr', m)
  BY ServersOK
<1> QED
  BY <1>1, <1>2, <1>3, Move

\* The clock, and connections.
LEMMA EnvironmentOK ==
  ASSUME IInv,
         Tick \/ \E n \in Nodes : \E i \in DOMAIN peers[n] : BreakConnection(n, i)
  PROVE  IInv'
<1>1. UNCHANGED <<mined, chain, peers, thr>>
  BY DEF Tick, BreakConnection
<1>2. clk' \in Nat /\ dead' \subseteq Nodes \X Nat
  <2>1. CASE Tick
    BY <2>1 DEF Tick, IInv, TypeOK
  <2>2. ASSUME NEW n \in Nodes, NEW i \in DOMAIN peers[n], BreakConnection(n, i)
        PROVE  clk' \in Nat /\ dead' \subseteq Nodes \X Nat
    <3>1. i \in Nat
      BY DEF IInv, TypeOK
    <3> QED
      BY <2>2, <3>1 DEF BreakConnection, IInv, TypeOK
  <2> QED
    BY <2>1, <2>2
<1> QED
  BY <1>1, <1>2, QuietStep

\* A node mines a block: it becomes known and the latest one of the node.
LEMMA MinedFrame ==
  ASSUME IInv, UNCHANGED <<clk, peers, dead>>, NEW n \in Nodes, NEW b \in Block,
         Completed(n, b), b.hash = Len(mined) + 1,
         b.index = Len(chain[n].blocks), b.prev = TipOf(chain[n]),
         ChainFree(n) \/ thr'[n]["http"] # thr[n]["http"]
  PROVE  Frame /\ chain'[n].blocks # <<>>
<1> DEFINE bs == chain[n].blocks
<1>1. /\ chain \in [Nodes -> Chain] /\ bs \in Seq(Block) /\ mined \in Seq(Block)
      /\ Linked(bs) /\ AllKnown(bs) /\ chain[n].da \in Adjuster
  BY DEF IInv, TypeOK, ChainOK, Chain
<1>2. PICK c : c = Extended(chain[n], b)
  OBVIOUS
<1>3. /\ mined' = Append(mined, b) /\ chain' = [chain EXCEPT ![n] = c]
  BY <1>2 DEF Completed
<1>4. c \in Chain /\ c.blocks = Append(bs, b) /\ c.blocks # <<>>
  <2>1. chain[n] \in Chain /\ Append(bs, b) \in Seq(Block) /\ Append(bs, b) # <<>>
    BY <1>1
  <2>2. c \in Chain /\ c.blocks = Append(bs, b)
    BY <1>2, <2>1 DEF Chain, Extended
  <2> QED
    BY <2>1, <2>2
<1>5. /\ chain' \in [Nodes -> Chain] /\ chain'[n] = c
      /\ \A m \in Nodes : m # n => chain'[m] = chain[m]
  BY <1>1, <1>3, <1>4
<1>6. Grows(mined, mined') /\ mined' \in Seq(Block) /\ Known(b)'
  BY <1>1, <1>3, GrowsAppend DEF Known
<1>7. Linked(c.blocks)
  <2>1. b.prev = IF bs = <<>> THEN NoHash ELSE bs[Len(bs)].hash
    BY DEF TipOf, Latest
  <2> QED
    BY <1>1, <1>4, <2>1, LinkedAppend
<1>8. \A x : Known(x) => Known(x)'
  BY <1>1, <1>6, KnownStable
<1>9. ASSUME NEW m \in Nodes PROVE ChainOK(m)'
  <2>1. CASE m = n
    <3>1. ASSUME NEW i \in DOMAIN c.blocks PROVE Known(c.blocks[i])'
      <4>1. CASE i \in DOMAIN bs
        BY <1>1, <1>4, <1>8, <4>1 DEF AllKnown
      <4>2. CASE i = Len(bs) + 1
        BY <1>1, <1>4, <1>6, <4>2
      <4> QED
        BY <1>1, <1>4, <4>1, <4>2
    <3> QED
      BY <1>5, <1>7, <2>1, <3>1 DEF ChainOK, AllKnown
  <2>2. CASE m # n
    <3>1. Linked(chain[m].blocks) /\ AllKnown(chain[m].blocks)
      BY DEF IInv, ChainOK
    <3> QED
      BY <1>5, <1>8, <2>2, <3>1 DEF ChainOK, AllKnown
  <2> QED
    BY <2>1, <2>2
<1>10. ASSUME NEW m \in Nodes
       PROVE  /\ chain[m].blocks # <<>> => chain'[m].blocks # <<>>
              /\ thr'[m]["http"] = thr[m]["http"] /\ ~ChainFree(m) =>
                   chain'[m].blocks = chain[m].blocks
  <2>1. CASE m = n
    BY <1>4, <1>5, <2>1
  <2>2. CASE m # n
    BY <1>5, <2>2
  <2> QED
    BY <2>1, <2>2
<1>11. /\ peers' \in [Nodes -> Seq(Nodes)] /\ dead' \subseteq Nodes \X Nat
       /\ clk' \in Nat /\ \A m \in Nodes : Grows(peers[m], peers'[m])
  BY GrowsSame DEF IInv, TypeOK
<1> QED
  BY <1>4, <1>5, <1>6, <1>9, <1>10, <1>11 DEF Frame

\* The end of a POST /blocks: the thread is about to broadcast.
LEMMA PostedStep ==
  ASSUME IInv, Frame, NEW n \in Nodes, chain'[n].blocks # <<>>,
         thr[n]["http"].pc # "bserved", NEW new \in Thread, new.pc = "posted",
         AllKnown(new.todo)', AllKnown(new.cand.blocks)', Linked(new.cand.blocks),
         thr' = [thr EXCEPT ![n]["http"] = new]
  PROVE  IInv'
<1>1. "http" \in Tid /\ "http" # "ws"
  BY DEF Tid
<1>2. thr'[n]["http"] = new
  BY <1>1 DEF IInv, TypeOK
<1>3. ThreadOK(n, "http")'
  BY <1>2 DEF ThreadOK, Naming, OnPeer, Carrying, AllKnown
<1> QED
  BY <1>1, <1>3, LocalStep

\* A nonce has been found: the chain is as it was when the search began.
LEMMA MineBlockOK ==
  ASSUME IInv, NEW n \in Nodes, MineBlock(n)
  PROVE  IInv'
<1> DEFINE th == thr[n]["http"]
           new == Start("posted", 0)
<1>1. /\ "http" \in Tid /\ th.pc = "mining" /\ UNCHANGED <<clk, peers, dead>>
      /\ thr' = [thr EXCEPT ![n]["http"] = new]
  BY DEF MineBlock, At, Tid
<1>2. /\ th.blk \in Block /\ ThreadOK(n, "http") /\ Now(n) \in Int
      /\ mined \in Seq(Block)
  BY <1>1, ThreadFacts DEF IInv, TypeOK
<1>3. PICK extra \in 0..ExtraZeros :
        Completed(n, [hash |-> Len(mined) + 1, prev |-> th.blk.prev,
                      index |-> th.blk.index, ts |-> Now(n),
                      zeros |-> th.blk.zeros + extra])
  BY DEF MineBlock
<1>4. PICK b : b = [hash |-> Len(mined) + 1, prev |-> th.blk.prev,
                    index |-> th.blk.index, ts |-> Now(n),
                    zeros |-> th.blk.zeros + extra]
  OBVIOUS
<1>5. Completed(n, b)
  BY <1>3, <1>4
<1>6. extra \in Nat
  BY NodeAssumption
<1>7. b \in Block /\ b.hash = Len(mined) + 1
  <2>1. th.blk.prev \in Nat /\ th.blk.index \in Nat /\ th.blk.zeros \in Nat
    BY <1>2 DEF Block
  <2>2. th.blk.zeros + extra \in Nat /\ Len(mined) + 1 \in Nat
    BY <1>2, <1>6, <2>1
  <2> QED
    BY <1>2, <1>4, <2>1, <2>2 DEF Block
<1>8. b.index = Len(chain[n].blocks) /\ b.prev = TipOf(chain[n])
  BY <1>1, <1>2, <1>4 DEF ThreadOK
<1>9. /\ new \in Thread /\ new.pc = "posted" /\ AllKnown(new.todo)'
      /\ AllKnown(new.cand.blocks)' /\ Linked(new.cand.blocks)
  BY StartTyped DEF PC, Start, Running, EmptyChain, AllKnown, Linked
<1> HIDE DEF new
<1>10. thr'[n]["http"] # thr[n]["http"]
  BY <1>1, <1>9 DEF IInv, TypeOK
<1>11. Frame /\ chain'[n].blocks # <<>>
  BY <1>1, <1>5, <1>7, <1>8, <1>10, MinedFrame
<1> QED
  BY <1>1, <1>9, <1>11, PostedStep

\* Whatever the cast of the logarithm yields is a number of zeros.
LEMMA RequiredZerosTyped ==
  ASSUME NEW d, NEW z \in RequiredZeros(d)
  PROVE  z \in Nat
<1>1. CASE \E k \in 0..HashBits : IsLog2(d, k)
  <2>1. (CHOOSE k \in 0..HashBits : IsLog2(d, k)) \in 0..HashBits
    BY <1>1
  <2> QED
    BY <1>1, <2>1 DEF RequiredZeros, HashBits, Unreachable
<1>2. CASE ~\E k \in 0..HashBits : IsLog2(d, k)
  BY <1>2 DEF RequiredZeros, HashBits, Unreachable
<1> QED
  BY <1>1, <1>2

\* POST /blocks, which ends at once without proof of work and otherwise begins
\* the nonce search for a block that follows the latest one.
LEMMA PostBlocksOK ==
  ASSUME IInv, NEW n \in Nodes, PostBlocks(n)
  PROVE  IInv'
<1>1. PICK th : th = thr[n]["http"]
  OBVIOUS
<1>2. PICK c : c = chain[n]
  OBVIOUS
<1>3. PICK b : b = MakeBlock(c, Now(n))
  OBVIOUS
<1>4. /\ "http" \in Tid /\ th.pc = "idle" /\ UNCHANGED <<clk, peers, dead>>
      /\ ChainFree(n)
  BY <1>1 DEF PostBlocks, At, Tid, ChainFree
<1>5. /\ th \in Thread /\ ThreadOK(n, "http") /\ Now(n) \in Int /\ c \in Chain
      /\ Linked(c.blocks) /\ AllKnown(c.blocks) /\ mined \in Seq(Block)
  BY <1>1, <1>2, <1>4, ThreadFacts DEF IInv, TypeOK, ChainOK
<1>6. b \in Block /\ b.index = Len(chain[n].blocks) /\ b.prev = TipOf(chain[n])
  BY <1>2, <1>3, <1>5, MakeBlockTyped DEF TipOf
<1>7. CASE ProofOfWork
  <2>1. PICK z \in RequiredZeros(Adjust(c.da, b.ts).difficulty) :
          /\ chain' = [chain EXCEPT ![n] = [@ EXCEPT !.da = Adjust(c.da, b.ts)]]
          /\ thr' = [thr EXCEPT ![n]["http"] =
                       Running("mining", 0, [b EXCEPT !.zeros = z], None, 0, None)]
          /\ UNCHANGED mined
    BY <1>2, <1>3, <1>7 DEF PostBlocks
  <2>2. PICK d : d = [c EXCEPT !.da = Adjust(c.da, b.ts)]
    OBVIOUS
  <2>3. PICK x : x = [b EXCEPT !.zeros = z]
    OBVIOUS
  <2>4. PICK new : new = Running("mining", 0, x, None, 0, None)
    OBVIOUS
  <2>5. Adjust(c.da, b.ts) \in Adjuster
    BY <1>5, <1>6, AdjustTyped DEF Chain, Block
  <2>6. d \in Chain /\ d.blocks = c.blocks
    BY <1>5, <2>2, <2>5 DEF Chain
  <2>7. z \in Nat
    BY RequiredZerosTyped
  <2>8. x \in Block /\ x.index = b.index /\ x.prev = b.prev
    BY <1>6, <2>3, <2>7 DEF Block
  <2>9. /\ new \in Thread /\ new.pc = "mining" /\ new.blk = x
        /\ new.todo = <<>> /\ new.cand.blocks = <<>>
    BY <2>4, <2>8, RunningTyped DEF PC, Running, EmptyChain
  <2>10. /\ chain' = [chain EXCEPT ![n] = d]
         /\ thr' = [thr EXCEPT ![n]["http"] = new]
    BY <1>2, <2>1, <2>2, <2>3, <2>4
  <2>11. Frame
    <3>1. UNCHANGED <<mined, clk, peers, dead>> /\ Linked(d.blocks)
          /\ AllKnown(d.blocks) /\ d.blocks = chain[n].blocks
      BY <1>2, <1>4, <1>5, <2>1, <2>6
    <3> QED
      BY <1>4, <2>6, <2>10, <3>1, ChainFrame
  <2>12. thr'[n]["http"] = new /\ chain'[n] = d
    BY <1>4, <2>10 DEF IInv, TypeOK
  <2>13. x.index = Len(d.blocks) /\ x.prev = TipOf(d)
    BY <1>2, <1>6, <2>6, <2>8 DEF TipOf, Latest
  <2>14. x.prev = TipOf(chain[n])'
    BY <2>12, <2>13 DEF TipOf, Latest
  <2>15. ThreadOK(n, "http")'
    BY <2>9, <2>12, <2>13, <2>14
       DEF ThreadOK, Naming, OnPeer, Carrying, AllKnown, Linked
  <2> QED
    BY <1>1, <1>4, <2>9, <2>10, <2>11, <2>15, LocalStep
<1>8. CASE ~ProofOfWork
  <2>1. PICK x : x = [b EXCEPT !.hash = Len(mined) + 1]
    OBVIOUS
  <2>2. PICK new : new = [th EXCEPT !.pc = "posted"]
    OBVIOUS
  <2>3. Completed(n, x) /\ thr' = [thr EXCEPT ![n]["http"] = new]
    BY <1>1, <1>2, <1>3, <1>8, <2>1, <2>2 DEF PostBlocks, Goto
  <2>4. Len(mined) + 1 \in Nat
    BY <1>5
  <2>5. /\ x \in Block /\ x.hash = Len(mined) + 1
        /\ x.index = b.index /\ x.prev = b.prev
    BY <1>6, <2>1, <2>4 DEF Block
  <2>6. Frame /\ chain'[n].blocks # <<>>
    BY <1>4, <1>6, <2>3, <2>5, MinedFrame
  <2>7. "posted" \in PC
    BY DEF PC
  <2>8. /\ new \in Thread /\ new.pc = "posted" /\ new.todo = th.todo
        /\ new.cand = th.cand
    BY <1>5, <2>2, <2>7, MovedTyped
  <2>9. /\ AllKnown(th.todo) /\ AllKnown(th.cand.blocks)
        /\ Linked(th.cand.blocks)
    BY <1>1, <1>5 DEF ThreadOK
  <2>10. \A y : Known(y) => Known(y)'
    BY <1>5, <2>6, KnownStable DEF Frame
  <2>11. AllKnown(new.todo)' /\ AllKnown(new.cand.blocks)'
    BY <2>8, <2>9, <2>10 DEF AllKnown
  <2> QED
    BY <1>1, <1>4, <2>3, <2>6, <2>8, <2>9, <2>11, PostedStep
<1> QED
  BY <1>7, <1>8, BlockchainAssumption

-----------------------------------------------------------------------------
(* The invariant.                                                           *)

\* It holds of a network of fresh nodes.
LEMMA InitOK == Init => IInv
<1> SUFFICES ASSUME Init PROVE IInv
  OBVIOUS
<1>1. EmptyChain \in Chain /\ Linked(EmptyChain.blocks) /\ EmptyChain.blocks = <<>>
  BY EmptyChainOK DEF EmptyChain
<1>2. TypeOK
  <2>1. thr \in [Nodes -> [Tid -> Thread]]
    BY IdleTyped DEF Init
  <2>2. chain \in [Nodes -> Chain] /\ peers \in [Nodes -> Seq(Nodes)]
    BY <1>1 DEF Init
  <2> QED
    BY <2>1, <2>2 DEF Init, TypeOK
<1>3. \A n \in Nodes : ChainOK(n) /\ ServerOK(n)
  BY <1>1, IdleTyped DEF Init, ChainOK, ServerOK, AllKnown, Tid
<1>4. \A n \in Nodes, t \in Tid : ThreadOK(n, t)
  BY <1>1
     DEF Init, ThreadOK, Idle, Start, Running, EmptyChain, Naming, OnPeer,
         Carrying, AllKnown
<1> QED
  BY <1>2, <1>3, <1>4 DEF IInv

\* Every step of a thread keeps it, ...
LEMMA ThreadStepOK ==
  ASSUME IInv, NEW n \in Nodes, NEW t \in Tid, ThreadStep(n, t)
  PROVE  IInv'
<1>1. CASE HttpStep(n)
  BY <1>1, MineBlockOK, DetachBroadcastOK DEF HttpStep
<1>2. CASE AddStep(n, t)
  BY <1>2, AddPeerOK, ConnectPeerOK, DetachRequestOK DEF AddStep
<1>3. CASE RecvStep(n, t)
  BY <1>3, RecvOK, RecvAppendOK, FindPeerOK DEF RecvStep
<1>4. CASE t \in Detached /\ SendStep(n, t)
  BY <1>4, BroadcastOK, BroadcastSendOK, ServeBroadcastOK, RequestSendOK,
     ServeLatestOK, ServeAllOK, GiveUpOK DEF SendStep
<1>5. CASE t \in Detached /\ LoadStep(n, t)
  BY <1>5, LoadBlockOK, CheckLoadedOK, AssignOK DEF LoadStep
<1> QED
  BY <1>1, <1>2, <1>3, <1>4, <1>5 DEF ThreadStep

\* ... and so does every other step.
LEMMA NextOK == IInv /\ [Next]_vars => IInv'
<1> SUFFICES ASSUME IInv, [Next]_vars PROVE IInv'
  OBVIOUS
<1>1. CASE Next
  <2>1. ASSUME NEW n \in Nodes, UserRequest(n) PROVE IInv'
    BY <2>1, PostBlocksOK, PostPeersOK DEF UserRequest
  <2> QED
    BY <1>1, <2>1, ThreadStepOK, EnvironmentOK DEF Next
<1>2. CASE UNCHANGED vars
  BY <1>2, QuietStep DEF vars, IInv, TypeOK
<1> QED
  BY <1>1, <1>2

\* The network keeps the inductive invariant.
THEOREM Invariance == Spec => []IInv
BY InitOK, NextOK, PTL DEF Spec

\* Every variable of a network of bnode processes keeps its type.
THEOREM TypeCorrect == Spec => []TypeOK
<1>1. IInv => TypeOK
  BY DEF IInv
<1> QED
  BY <1>1, Invariance, PTL

\* However the threads of src/node.cc interleave, every blockchain of a node,
\* and every one it may still replace it by, links each block to the one before
\* it, starting at a genesis block.
THEOREM ChainsStayLinked == Spec => []ChainsLinked
<1>1. IInv => ChainsLinked
  BY DEF IInv, ChainOK, ThreadOK, ChainsLinked, Tid
<1> QED
  BY <1>1, Invariance, PTL

\* The position below the one at distance d from i.
LEMMA PositionBelow ==
  ASSUME NEW i \in Nat, NEW d \in Nat, d + 1 < i, NEW k, k = i - d
  PROVE  k \in 1..i /\ k # 1 /\ k - 1 = i - (d + 1) /\ k - 1 \in 1..i /\ d < i
OBVIOUS

\* Linked lists of mined blocks that have a block in common have all blocks below
\* it in common: a hash determines a block, and a block the hash of the one below.
LEMMA SharedBelow ==
  ASSUME NEW a \in Seq(Block), NEW b \in Seq(Block), Linked(a), Linked(b),
         AllKnown(a), AllKnown(b), NEW i \in DOMAIN a, NEW j \in DOMAIN b,
         a[i].hash = b[j].hash
  PROVE  i = j /\ \A k \in 1..i : a[k] = b[k]
<1>1. a[i] = b[j]
  BY DEF AllKnown, Known
<1>2. i = j
  <2>1. i - 1 = j - 1
    BY <1>1 DEF Linked
  <2> QED
    BY <2>1
<1>3. \A k \in 1..i : k \in DOMAIN a /\ k \in DOMAIN b
  BY <1>2
<1>4. i \in Nat
  OBVIOUS
<1> DEFINE T == {d \in Nat : d < i => a[i - d] = b[i - d]}
<1>5. 0 \in T
  BY <1>1, <1>2, <1>4
<1>6. ASSUME NEW d \in Nat, d \in T PROVE d + 1 \in T
  <2> SUFFICES ASSUME d + 1 < i PROVE a[i - (d + 1)] = b[i - (d + 1)]
    BY <1>6
  <2>1. d < i => a[i - d] = b[i - d]
    BY <1>6
  <2> HIDE DEF T
  <2>2. PICK k : k = i - d
    OBVIOUS
  <2>3. k \in 1..i /\ k # 1 /\ k - 1 = i - (d + 1) /\ k - 1 \in 1..i /\ d < i
    BY <1>4, <2>2, PositionBelow
  <2>4. a[k] = b[k]
    BY <2>1, <2>2, <2>3
  <2>5. a[k].prev = a[k - 1].hash /\ b[k].prev = b[k - 1].hash
    BY <1>3, <2>3 DEF Linked
  <2>6. a[k - 1] = b[k - 1]
    BY <1>3, <2>3, <2>4, <2>5 DEF AllKnown, Known
  <2> QED
    BY <2>3, <2>6
<1> HIDE DEF T
<1>7. \A d \in Nat : d \in T
  BY <1>5, <1>6, SetInduction
<1>8. ASSUME NEW k \in 1..i PROVE a[k] = b[k]
  <2>1. i - k \in Nat /\ i - k < i /\ i - (i - k) = k
    BY <1>4
  <2> QED
    BY <1>7, <2>1 DEF T
<1> QED
  BY <1>2, <1>8

\* Chains that nodes have built from announcements and answers, in any order, are
\* branches of one history: a block is in two of them only with all blocks that
\* precede it.
THEOREM HistoryStaysShared == Spec => []SharedHistory
<1>1. ASSUME IInv, NEW n \in Nodes, NEW a \in Held(n)
      PROVE  a \in Seq(Block) /\ Linked(a) /\ AllKnown(a)
  <2>1. CASE a = chain[n].blocks
    BY <1>1, <2>1 DEF IInv, TypeOK, Chain, ChainOK
  <2>2. ASSUME NEW t \in Detached, a = thr[n][t].cand.blocks
        PROVE  a \in Seq(Block) /\ Linked(a) /\ AllKnown(a)
    <3>1. t \in Tid
      BY DEF Tid
    <3>2. thr[n][t] \in Thread /\ ThreadOK(n, t)
      BY <1>1, <3>1 DEF IInv, TypeOK
    <3> QED
      BY <2>2, <3>2 DEF Thread, Chain, ThreadOK
  <2> QED
    BY <1>1, <2>1, <2>2 DEF Held
<1>2. IInv => SharedHistory
  BY <1>1, SharedBelow DEF SharedHistory
<1> QED
  BY <1>2, Invariance, PTL

\* The assertion of Blockchain::latest_block holds whenever handle_blocks_post
\* or broadcast_latest_block gets there, even if handle_receive_all_blocks has
\* replaced the blockchain in the meantime.
THEOREM LatestBlockAlwaysExists == Spec => []LatestBlockExists
<1>1. IInv => LatestBlockExists
  BY DEF IInv, ThreadOK, LatestBlockExists
<1> QED
  BY <1>1, Invariance, PTL

-----------------------------------------------------------------------------
(* The network implements BlockTree.                                        *)

\* The tree and the tips of a network.
Parent == [h \in DOMAIN mined |-> mined[h].prev]

Tip == [n \in Nodes |-> TipOf(chain[n])]

TreeStep == [Tree!Next]_<<Parent, Tip>>

\* Fresh nodes stand for an empty tree.
LEMMA TreeInit == Init => Tree!Init
<1> SUFFICES ASSUME Init PROVE Tree!Init
  OBVIOUS
<1>1. Parent = <<>>
  BY DEF Init, Parent
<1>2. Tip = [n \in Nodes |-> 0]
  BY DEF Init, Tip, TipOf, EmptyChain, NoHash
<1> QED
  BY <1>1, <1>2 DEF Tree!Init, Parent, Tip

\* A step that leaves the blocks of all chains alone is not seen in the tree.
LEMMA TreeStutters ==
  ASSUME mined' = mined, \A n \in Nodes : chain'[n].blocks = chain[n].blocks
  PROVE  TreeStep
<1>1. Parent' = Parent
  BY DEF Parent
<1>2. \A n \in Nodes : TipOf(chain[n])' = TipOf(chain[n])
  BY DEF TipOf, Latest
<1>3. Tip' = Tip
  BY <1>2 DEF Tip
<1> QED
  BY <1>1, <1>3 DEF TreeStep

\* A node whose chain becomes one of known blocks moves its tip within the tree.
LEMMA TreeAdopts ==
  ASSUME IInv, NEW n \in Nodes, NEW c \in Chain, chain' = [chain EXCEPT ![n] = c],
         mined' = mined, c.blocks # <<>>, AllKnown(c.blocks)
  PROVE  TreeStep
<1> DEFINE h == Latest(c).hash
<1>1. h \in DOMAIN mined /\ TipOf(c) = h
  BY LatestTyped DEF AllKnown, Known, TipOf
<1>2. Parent' = Parent /\ h \in DOMAIN Parent
  BY <1>1 DEF Parent
<1>3. /\ chain'[n] = c
      /\ \A m \in Nodes : m # n => chain'[m] = chain[m]
  BY DEF IInv, TypeOK
<1>4. ASSUME NEW m \in Nodes PROVE TipOf(chain[m])' = IF m = n THEN h ELSE Tip[m]
  <2>1. TipOf(chain[m])' = TipOf(chain'[m])
    BY DEF TipOf, Latest
  <2> QED
    BY <1>1, <1>3, <2>1 DEF Tip
<1>5. Tip' = [Tip EXCEPT ![n] = h]
  BY <1>4 DEF Tip
<1>6. Tree!Adopt(n, h)
  BY <1>2, <1>5 DEF Tree!Adopt, Parent, Tip
<1> QED
  BY <1>2, <1>6 DEF TreeStep, Tree!Next, Parent

\* What Append is, element by element.
LEMMA AppendIs ==
  ASSUME NEW S, NEW s \in Seq(S), NEW x \in S
  PROVE  [i \in 1..(Len(s) + 1) |-> IF i = Len(s) + 1 THEN x ELSE s[i]] = Append(s, x)
<1> DEFINE f == [i \in 1..(Len(s) + 1) |-> IF i = Len(s) + 1 THEN x ELSE s[i]]
           a == Append(s, x)
           I == 1..(Len(s) + 1)
<1>1. a \in [I -> S] /\ Len(s) \in Nat
  BY AppendProperties, LenProperties
<1>2. f \in [I -> S]
  <2>1. \A i \in 1..Len(s) : s[i] \in S
    BY ElementOfSeq
  <2> QED
    BY <1>1, <2>1
<1>3. \A i \in I : f[i] = a[i]
  BY <1>1, AppendProperties
<1> HIDE DEF f, a, I
<1> QED
  BY <1>1, <1>2, <1>3 DEF f, a

\* A node that mines a block extends the tree at its own tip.
LEMMA TreeMines ==
  ASSUME IInv, NEW n \in Nodes, NEW b \in Block, Completed(n, b),
         b.hash = Len(mined) + 1, b.prev = TipOf(chain[n])
  PROVE  TreeStep
<1>1. PICK c : c = Extended(chain[n], b)
  OBVIOUS
<1>2. /\ mined \in Seq(Block) /\ chain \in [Nodes -> Chain]
      /\ mined' = Append(mined, b) /\ chain' = [chain EXCEPT ![n] = c]
  BY <1>1 DEF Completed, IInv, TypeOK
<1>3. chain[n] \in Chain /\ chain[n].blocks \in Seq(Block)
  BY <1>2 DEF Chain
<1>4. c.blocks = Append(chain[n].blocks, b)
  BY <1>1, <1>3 DEF Extended, Chain
<1>5. TipOf(c) = Len(mined) + 1
  BY <1>3, <1>4 DEF TipOf, Latest
<1>6. /\ chain'[n] = c
      /\ \A m \in Nodes : m # n => chain'[m] = chain[m]
  BY <1>2
<1>7. /\ DOMAIN Parent = 1..Len(mined) /\ Parent \in Seq(Nat)
      /\ Len(Parent) = Len(mined)
  <2>1. \A h \in 1..Len(mined) : mined[h].prev \in Nat
    <3>1. \A h \in 1..Len(mined) : mined[h] \in Block
      BY <1>2
    <3> QED
      BY <3>1 DEF Block
  <2>2. /\ Parent = [h \in 1..Len(mined) |-> mined[h].prev] /\ Len(mined) \in Nat
    BY <1>2 DEF Parent
  <2> QED
    BY <2>1, <2>2
<1>8. Parent' = Append(Parent, Tip[n])
  <2>1. Tip[n] = b.prev /\ b.prev \in Nat
    BY DEF Tip, Block
  <2>2. /\ DOMAIN mined' = 1..(Len(mined) + 1) /\ mined'[Len(mined) + 1] = b
        /\ \A h \in 1..Len(mined) : mined'[h] = mined[h]
    BY <1>2
  <2>3. /\ Parent' = [h \in 1..(Len(mined) + 1) |-> mined'[h].prev]
        /\ \A h \in 1..Len(mined) : Parent[h] = mined[h].prev
    BY <1>2, <2>2 DEF Parent
  <2>4. PICK s \in Seq(Nat) : s = Parent
    BY <1>7
  <2>5. PICK r : r = Parent'
    OBVIOUS
  <2>6. r = [h \in 1..(Len(s) + 1) |-> IF h = Len(s) + 1 THEN b.prev ELSE s[h]]
    BY <1>2, <1>7, <2>2, <2>3, <2>4, <2>5
  <2>7. r = Append(s, b.prev)
    BY <2>1, <2>4, <2>6, AppendIs
  <2> QED
    BY <2>1, <2>4, <2>5, <2>7
<1>9. ASSUME NEW m \in Nodes
      PROVE  TipOf(chain[m])' = IF m = n THEN Len(Parent) + 1 ELSE Tip[m]
  <2>1. TipOf(chain[m])' = TipOf(chain'[m])
    BY DEF TipOf, Latest
  <2> QED
    BY <1>5, <1>6, <1>7, <2>1 DEF Tip
<1>10. Tip' = [Tip EXCEPT ![n] = Len(Parent) + 1]
  BY <1>9 DEF Tip
<1>11. Tree!Mine(n)
  BY <1>8, <1>10 DEF Tree!Mine, Parent, Tip
<1> QED
  BY <1>11 DEF TreeStep, Tree!Next

\* Steps of the HTTP thread that mine a block.
LEMMA MineBlockTree ==
  ASSUME IInv, NEW n \in Nodes, MineBlock(n)
  PROVE  TreeStep
<1> DEFINE th == thr[n]["http"]
<1>1. "http" \in Tid /\ th.pc = "mining"
  BY DEF MineBlock, At, Tid
<1>2. /\ th.blk \in Block /\ ThreadOK(n, "http") /\ Now(n) \in Int
      /\ mined \in Seq(Block)
  BY <1>1, ThreadFacts DEF IInv, TypeOK
<1>3. PICK extra \in 0..ExtraZeros :
        Completed(n, [hash |-> Len(mined) + 1, prev |-> th.blk.prev,
                      index |-> th.blk.index, ts |-> Now(n),
                      zeros |-> th.blk.zeros + extra])
  BY DEF MineBlock
<1>4. PICK b : b = [hash |-> Len(mined) + 1, prev |-> th.blk.prev,
                     index |-> th.blk.index, ts |-> Now(n),
                     zeros |-> th.blk.zeros + extra]
  OBVIOUS
<1>5. /\ b = [hash |-> Len(mined) + 1, prev |-> th.blk.prev,
              index |-> th.blk.index, ts |-> Now(n),
              zeros |-> th.blk.zeros + extra]
      /\ Completed(n, b)
  BY <1>3, <1>4
<1>6. th.blk.prev \in Nat /\ th.blk.index \in Nat /\ th.blk.zeros \in Nat
  BY <1>2 DEF Block
<1>7. th.blk.zeros + extra \in Nat /\ Len(mined) + 1 \in Nat
  <2>1. extra \in Nat
    BY NodeAssumption
  <2> QED
    BY <1>2, <1>6, <2>1
<1>8. b \in Block /\ b.hash = Len(mined) + 1
  BY <1>2, <1>5, <1>6, <1>7 DEF Block
<1>9. b.prev = TipOf(chain[n])
  BY <1>1, <1>2, <1>5 DEF ThreadOK
<1> QED
  BY <1>5, <1>8, <1>9, TreeMines

\* Without proof of work POST /blocks mines at once.
LEMMA PostBlocksTree ==
  ASSUME IInv, NEW n \in Nodes, PostBlocks(n)
  PROVE  TreeStep
<1>1. PICK b : b = MakeBlock(chain[n], Now(n))
  OBVIOUS
<1>2. /\ Now(n) \in Int /\ chain \in [Nodes -> Chain] /\ chain[n] \in Chain
      /\ Linked(chain[n].blocks) /\ mined \in Seq(Block)
  BY ThreadFacts DEF IInv, TypeOK, ChainOK, Tid
<1>3. b \in Block /\ b.prev = TipOf(chain[n])
  BY <1>1, <1>2, MakeBlockTyped DEF TipOf
<1>4. CASE ProofOfWork
  <2>1. mined' = mined
    BY <1>1, <1>4 DEF PostBlocks
  <2>2. PICK d : d = [chain[n] EXCEPT !.da = Adjust(chain[n].da, b.ts)]
    OBVIOUS
  <2>3. d.blocks = chain[n].blocks
    BY <1>2, <2>2 DEF Chain
  <2>4. chain' = [chain EXCEPT ![n] = d]
    BY <1>1, <1>4, <2>2 DEF PostBlocks
  <2>5. \A m \in Nodes : chain'[m].blocks = chain[m].blocks
    BY <1>2, <2>3, <2>4
  <2> QED
    BY <2>1, <2>5, TreeStutters
<1>5. CASE ~ProofOfWork
  <2>1. PICK x : x = [b EXCEPT !.hash = Len(mined) + 1]
    OBVIOUS
  <2>2. Completed(n, x)
    BY <1>1, <1>5, <2>1 DEF PostBlocks
  <2>3. Len(mined) + 1 \in Nat
    BY <1>2
  <2>4. x \in Block /\ x.hash = Len(mined) + 1 /\ x.prev = b.prev
    BY <1>3, <2>1, <2>3 DEF Block
  <2> QED
    BY <1>3, <2>2, <2>4, TreeMines
<1> QED
  BY <1>4, <1>5, BlockchainAssumption

\* append_next_block adopts a block that was mined or leaves the chain alone.
LEMMA RecvAppendTree ==
  ASSUME IInv, NEW n \in Nodes, NEW t \in Tid, RecvAppend(n, t)
  PROVE  TreeStep
<1> DEFINE th == thr[n][t]
<1>1. PICK c : c = AppendNextBlock(chain[n], th.blk, Now(n)).chain
  OBVIOUS
<1>2. /\ th.pc = "append" /\ mined' = mined /\ chain' = [chain EXCEPT ![n] = c]
  BY <1>1 DEF RecvAppend, At
<1>3. /\ ThreadOK(n, t) /\ th.blk \in Block /\ chain[n] \in Chain /\ ChainOK(n)
      /\ Now(n) \in Int /\ chain \in [Nodes -> Chain]
  BY ThreadFacts DEF IInv, TypeOK
<1>4. Known(th.blk) /\ Linked(chain[n].blocks) /\ AllKnown(chain[n].blocks)
  BY <1>2, <1>3 DEF ThreadOK, Carrying, ChainOK
<1>5. /\ c \in Chain
      /\ c.blocks = chain[n].blocks \/ c.blocks = Append(chain[n].blocks, th.blk)
  BY <1>1, <1>3, <1>4, AppendNextBlockOK
<1>6. chain[n].blocks \in Seq(Block)
  BY <1>3 DEF Chain
<1>7. CASE c.blocks = chain[n].blocks
  BY <1>2, <1>3, <1>7, TreeStutters
<1>8. CASE c.blocks = Append(chain[n].blocks, th.blk)
  <2>1. c.blocks # <<>>
    BY <1>3, <1>6, <1>8
  <2>2. AllKnown(c.blocks)
    BY <1>3, <1>4, <1>6, <1>8, AllKnownAppend
  <2> QED
    BY <1>2, <1>5, <2>1, <2>2, TreeAdopts
<1> QED
  BY <1>5, <1>7, <1>8

\* operator= adopts a chain of blocks that were mined.
LEMMA AssignTree ==
  ASSUME IInv, NEW n \in Nodes, NEW t \in Detached, Assign(n, t)
  PROVE  TreeStep
<1> DEFINE th == thr[n][t]
<1>1. /\ th.pc = "assign" /\ mined' = mined /\ t \in Tid
      /\ chain' = [chain EXCEPT ![n] = th.cand]
  BY DEF Assign, At, Tid
<1>2. ThreadOK(n, t) /\ th.cand \in Chain
  BY <1>1, ThreadFacts
<1>3. AllKnown(th.cand.blocks) /\ th.cand.blocks # <<>>
  BY <1>1, <1>2 DEF ThreadOK
<1> QED
  BY <1>1, <1>2, <1>3, TreeAdopts

\* Every step of the network is a step of the tree or leaves it alone.
LEMMA NextTree == IInv /\ [Next]_vars => TreeStep
<1> SUFFICES ASSUME IInv, [Next]_vars PROVE TreeStep
  OBVIOUS
<1>1. ASSUME mined' = mined /\ chain' = chain PROVE TreeStep
  BY <1>1, TreeStutters
<1>2. ASSUME NEW n \in Nodes, UserRequest(n) PROVE TreeStep
  <2>1. CASE PostBlocks(n)
    BY <2>1, PostBlocksTree
  <2>2. CASE \E m \in Nodes : PostPeers(n, m)
    BY <1>1, <2>2 DEF PostPeers
  <2> QED
    BY <1>2, <2>1, <2>2 DEF UserRequest
<1>3. ASSUME NEW n \in Nodes, NEW t \in Tid, ThreadStep(n, t) PROVE TreeStep
  <2>1. CASE HttpStep(n)
    BY <1>1, <2>1, MineBlockTree DEF HttpStep, DetachBroadcast
  <2>2. CASE AddStep(n, t)
    BY <1>1, <2>2 DEF AddStep, AddPeer, ConnectPeer, DetachRequest
  <2>3. CASE RecvStep(n, t)
    BY <1>1, <2>3, RecvAppendTree
       DEF RecvStep, RecvValid, RecvIndex, RecvSuccessor, FindPeer
  <2>4. CASE SendStep(n, t)
    BY <1>1, <2>4
       DEF SendStep, Broadcast, BroadcastSend, ServeBroadcast, RequestSend,
           ServeLatest, ServeAll, GiveUp
  <2>5. CASE t \in Detached /\ LoadStep(n, t)
    BY <1>1, <2>5, AssignTree DEF LoadStep, LoadBlock, LoadValid, Compare
  <2> QED
    BY <1>3, <2>1, <2>2, <2>3, <2>4, <2>5 DEF ThreadStep
<1>4. CASE Tick \/ \E n \in Nodes : \E i \in DOMAIN peers[n] : BreakConnection(n, i)
  BY <1>1, <1>4 DEF Tick, BreakConnection
<1>5. CASE UNCHANGED vars
  BY <1>1, <1>5 DEF vars
<1> QED
  BY <1>2, <1>3, <1>4, <1>5 DEF Next

\* A network of any size, under any interleaving, implements BlockTree: blocks
\* are only ever added at the tip of the node that mines them, and a node moves
\* to other blocks only if they were mined.
THEOREM Refinement == Spec => RefinesBlockTree
<1>1. Init => Tree!Init
  BY TreeInit
<1>2. IInv /\ [Next]_vars =>
        [Tree!Next]_<<[h \in DOMAIN mined |-> mined[h].prev],
                      [n \in Nodes |-> TipOf(chain[n])]>>
  BY NextTree DEF TreeStep, Parent, Tip
<1> QED
  BY <1>1, <1>2, Invariance, PTL DEF Spec, RefinesBlockTree, Tree!Spec

=============================================================================
