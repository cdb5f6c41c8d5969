------------------------- MODULE NodeSafetyProofs -------------------------
(***************************************************************************)
(* More about the safety of a network of nodes: that an answer belongs to  *)
(* the request it is taken for, that the difficulty adjuster keeps up with *)
(* the chain, and that a chain is valid by the clock of its node.          *)
(*                                                                         *)
(* The proofs build on the invariant IInv of module Node, which NodeProofs *)
(* shows to hold.  They share a classification of the steps of the         *)
(* network: by what a step does to the threads (ThreadsMove), and by what  *)
(* it does to the chains (ChainsMove).                                     *)
(***************************************************************************)
EXTENDS NodeProofs

-----------------------------------------------------------------------------
(* What a step does to the threads.                                         *)

\* A blockchain that is being loaded stays, is dropped or is appended to.
CandStep(old, new, now) ==
  \/ new = old
  \/ new = EmptyChain
  \/ \E b \in Block : new = AppendNextBlock(old, b, now).chain

\* A thread that loads a blockchain does nothing else.
OnlyLoads(th) ==
  th.blk = NoBlock /\ th.from = None /\ th.id = 0 /\ th.caller = None

\* What a thread of node n that moves on its own becomes: it takes the mutex of
\* a peer only if that is free and keeps to that peer while it holds it; a
\* websocket server keeps working on the same block for the same thread; only
\* POST /blocks begins and ends the nonce search, and a blockchain is not
\* compared before it is loaded.
MayBecome(n, t, new) ==
  LET th == thr[n][t]
  IN  /\ th.pc # "bserved" /\ new.pc # "bserved"
      /\ t \in Detached /\ new.pc \notin OutsideSend =>
           \/ th.pc \notin OutsideSend /\ new.peer = th.peer
           \/ PeerFree(n, new.peer)
      /\ t = "ws" => /\ th.pc # "idle" /\ new.pc # "idle"
                     /\ new.from = th.from /\ new.caller = th.caller
                     /\ new.blk = th.blk
      /\ t = "http" /\ (th.pc = "mining" \/ new.pc = "mining") =>
           PostBlocks(n) \/ MineBlock(n)
      /\ new.pc \in {"cmp", "assign"} =>
           new.todo = <<>> \/ (th.pc = "cmp" /\ new.todo = th.todo)
      /\ new.pc = "load" => OnlyLoads(new)
      /\ CandStep(th.cand, new.cand, Now(n))

\* A thread moves on its own, ...
Alone(n, t) ==
  \E new \in Thread : MayBecome(n, t, new) /\ thr' = [thr EXCEPT ![n][t] = new]

\* ... returns from a handler, ...
Returns(n, t) ==
  thr[n][t].pc \notin {"idle", "bserved", "mining"} /\ thr' = Returned(n, t)

\* ... or returns and leaves a detached thread behind.
Leaves(n, t) ==
  /\ thr[n][t].pc \notin {"idle", "bserved", "mining"}
  /\ \E pc \in {"bcast", "rlsend", "rasend"}, i \in Nat :
       Detach(Returned(n, t), n, Start(pc, i))

ThreadsMove ==
  \/ thr' = thr
  \/ \E n \in Nodes, t \in Tid :
       \/ Alone(n, t) \/ Returns(n, t) \/ Leaves(n, t)
       \/ t \in Detached /\ ServeBroadcast(n, t)

\* A thread that only moves its program counter moves on its own.
LEMMA GotoAlone ==
  ASSUME IInv, NEW n \in Nodes, NEW t \in Tid, NEW pc \in PC, Goto(n, t, pc),
         thr[n][t].pc # "bserved", pc \notin {"bserved", "load"},
         t \in Detached /\ pc \notin OutsideSend =>
           thr[n][t].pc \notin OutsideSend \/ PeerFree(n, thr[n][t].peer),
         t = "ws" => thr[n][t].pc # "idle" /\ pc # "idle",
         t = "http" => thr[n][t].pc # "mining" /\ pc # "mining",
         pc \in {"cmp", "assign"} => thr[n][t].todo = <<>> \/ thr[n][t].pc = "cmp"
  PROVE  Alone(n, t)
<1> DEFINE th == thr[n][t]
           new == [th EXCEPT !.pc = pc]
<1>1. th \in Thread
  BY ThreadFacts
<1>2. /\ new \in Thread /\ new.pc = pc
      /\ new.peer = th.peer /\ new.blk = th.blk /\ new.from = th.from
      /\ new.id = th.id /\ new.caller = th.caller
      /\ new.todo = th.todo /\ new.cand = th.cand
  BY <1>1, MovedTyped
<1>3. thr' = [thr EXCEPT ![n][t] = new]
  BY DEF Goto
<1> HIDE DEF new
<1>4. MayBecome(n, t, new)
  BY <1>2 DEF MayBecome, CandStep
<1> QED
  BY <1>2, <1>3, <1>4 DEF Alone

\* A detached thread ends, or goes on outside the mutex of any peer.
LEMMA RunningAlone ==
  ASSUME IInv, NEW n \in Nodes, NEW t \in Detached, NEW pc \in OutsideSend,
         NEW peer \in Nat, NEW blk \in Block, NEW from \in Nodes \union {None},
         NEW id \in Nat, NEW caller \in Detached \union {None},
         thr[n][t].pc # "bserved",
         thr' = [thr EXCEPT ![n][t] = Running(pc, peer, blk, from, id, caller)]
  PROVE  Alone(n, t)
<1> DEFINE new == Running(pc, peer, blk, from, id, caller)
<1>1. new \in Thread /\ new.pc = pc /\ new.cand = EmptyChain
  BY RunningTyped DEF Running, OutsideSend, PC
<1> HIDE DEF new
<1>2. MayBecome(n, t, new)
  BY <1>1, NodeAssumption DEF MayBecome, CandStep, OutsideSend
<1> QED
  BY <1>1, <1>2 DEF Alone, new

\* A detached thread ends.
LEMMA EndAlone ==
  ASSUME IInv, NEW n \in Nodes, NEW t \in Detached, thr[n][t].pc # "bserved",
         thr' = [thr EXCEPT ![n][t] = Idle]
  PROVE  Alone(n, t)
<1>1. "idle" \in OutsideSend /\ NoBlock \in Block
  BY NoBlockTyped DEF OutsideSend
<1> QED
  BY <1>1, RunningAlone DEF Idle, Start

\* Handlers of HTTP requests.
LEMMA HttpForms ==
  ASSUME IInv, NEW n \in Nodes, UserRequest(n) \/ HttpStep(n)
  PROVE  Alone(n, "http") \/ Leaves(n, "http")
<1>1. /\ "http" \in Tid /\ "http" # "ws" /\ "http" \notin Detached
      /\ NoBlock \in Block /\ EmptyChain \in Chain
  BY NodeAssumption, NoBlockTyped, EmptyChainOK DEF Tid
<1>2. thr[n]["http"] \in Thread /\ Now(n) \in Int /\ chain[n] \in Chain
      /\ Linked(chain[n].blocks)
  BY <1>1, ThreadFacts DEF ChainOK
<1>3. ASSUME NEW blk \in Block, NEW pc \in {"mining", "posted", "add"},
             NEW from \in Nodes \union {None}, thr[n]["http"].pc # "bserved",
             \/ thr[n]["http"].pc # "mining" /\ pc # "mining"
             \/ PostBlocks(n) \/ MineBlock(n),
             thr' = [thr EXCEPT ![n]["http"] = Running(pc, 0, blk, from, 0, None)]
      PROVE  Alone(n, "http")
  <2> DEFINE new == Running(pc, 0, blk, from, 0, None)
  <2>1. pc \in PC
    BY <1>3 DEF PC
  <2>2. new \in Thread /\ new.pc = pc /\ new.cand = EmptyChain
    BY <2>1, RunningTyped DEF Running
  <2> HIDE DEF new
  <2>3. MayBecome(n, "http", new)
    BY <1>1, <1>3, <2>2 DEF MayBecome, CandStep
  <2> QED
    BY <1>3, <2>2, <2>3 DEF Alone, new
<1>4. CASE PostBlocks(n)
  <2>1. thr[n]["http"].pc = "idle"
    BY <1>4 DEF PostBlocks, At
  <2>2. CASE ProofOfWork
    <3>1. PICK b : b = MakeBlock(chain[n], Now(n))
      OBVIOUS
    <3>2. b \in Block
      BY <1>2, <3>1, MakeBlockTyped
    <3>3. PICK z \in RequiredZeros(Adjust(chain[n].da, b.ts).difficulty) :
            thr' = [thr EXCEPT ![n]["http"] =
                      Running("mining", 0, [b EXCEPT !.zeros = z], None, 0, None)]
      BY <1>4, <2>2, <3>1 DEF PostBlocks
    <3>4. [b EXCEPT !.zeros = z] \in Block
      BY <3>2, RequiredZerosTyped DEF Block
    <3> QED
      BY <1>3, <1>4, <2>1, <3>3, <3>4
  <2>3. CASE ~ProofOfWork
    <3>1. Goto(n, "http", "posted") /\ "posted" \in PC
      BY <1>4, <2>3 DEF PostBlocks, PC
    <3> QED
      BY <1>1, <2>1, <3>1, GotoAlone
  <2> QED
    BY <2>2, <2>3, BlockchainAssumption
<1>5. CASE \E m \in Nodes : PostPeers(n, m)
  BY <1>1, <1>3, <1>5 DEF PostPeers, At
<1>6. CASE MineBlock(n)
  BY <1>1, <1>3, <1>6 DEF MineBlock, At, Start
<1>7. CASE DetachBroadcast(n)
  BY <1>7 DEF DetachBroadcast, At, Leaves
<1> QED
  BY <1>4, <1>5, <1>6, <1>7 DEF UserRequest, HttpStep

\* find or add returns a peer_id.
LEMMA PeerIdAlone ==
  ASSUME IInv, NEW n \in Nodes, NEW t \in Tid, NEW i \in Nat,
         thr[n][t].pc \in {"find", "connect"},
         thr' = [thr EXCEPT ![n][t] = WithPeerId(@, i)]
  PROVE  Alone(n, t)
<1> DEFINE th == thr[n][t]
           new == WithPeerId(th, i)
<1>1. /\ th.peer \in Nat /\ th.blk \in Block /\ th.from \in Nodes \union {None}
      /\ th.caller \in Detached \union {None}
  BY ThreadFacts
<1>2. /\ new \in Thread /\ new.pc = "added" /\ new.cand = EmptyChain
      /\ new.peer = th.peer /\ new.from = th.from /\ new.caller = th.caller
      /\ new.blk = th.blk
  BY <1>1, RunningTyped DEF WithPeerId, Running, PC
<1>3. thr' = [thr EXCEPT ![n][t] = new]
  OBVIOUS
<1> HIDE DEF new
<1>4. MayBecome(n, t, new)
  BY <1>2 DEF MayBecome, CandStep, OutsideSend
<1> QED
  BY <1>2, <1>3, <1>4 DEF Alone

\* WebSocketPeers::add and what follows it.
LEMMA AddForms ==
  ASSUME IInv, NEW n \in Nodes, NEW t \in Tid, AddStep(n, t)
  PROVE  Alone(n, t) \/ Leaves(n, t)
<1>1. CASE AddPeer(n, t)
  BY <1>1, GotoAlone DEF AddPeer, At, OutsideSend, PC
<1>2. CASE ConnectPeer(n, t)
  <2>1. peers[n] \in Seq(Nodes)
    BY ThreadFacts
  <2>2. Len(peers[n]) + 1 \in Nat
    BY <2>1
  <2> QED
    BY <1>2, <2>2, PeerIdAlone DEF ConnectPeer, At
<1>3. CASE DetachRequest(n, t)
  <2>1. thr[n][t].pc = "added" /\ thr[n][t].id \in Nat
    BY <1>3, ThreadFacts DEF DetachRequest, At
  <2> QED
    BY <1>3, <2>1 DEF DetachRequest, Leaves
<1> QED
  BY <1>1, <1>2, <1>3 DEF AddStep

\* handle_receive_latest_block.
LEMMA RecvForms ==
  ASSUME IInv, NEW n \in Nodes, NEW t \in Tid, RecvStep(n, t)
  PROVE  Alone(n, t) \/ Returns(n, t)
<1>1. CASE RecvValid(n, t) \/ RecvIndex(n, t) \/ RecvSuccessor(n, t)
  <2>1. thr[n][t].pc \in {"recv", "eq", "succ"}
    BY <1>1 DEF RecvValid, RecvIndex, RecvSuccessor, At
  <2>2. \/ thr' = Returned(n, t)
        \/ \E pc \in {"find", "eq", "succ", "append"} : Goto(n, t, pc)
    BY <1>1 DEF RecvValid, RecvIndex, RecvSuccessor
  <2>3. ASSUME NEW pc \in {"find", "eq", "succ", "append"}, Goto(n, t, pc)
        PROVE  Alone(n, t)
    BY <2>1, <2>3, GotoAlone DEF OutsideSend, PC
  <2> QED
    BY <2>1, <2>2, <2>3 DEF Returns
<1>2. CASE RecvAppend(n, t)
  BY <1>2 DEF RecvAppend, At, Returns
<1>3. CASE FindPeer(n, t)
  <2>1. thr[n][t].pc = "find" /\ peers[n] \in Seq(Nodes)
    BY <1>3, ThreadFacts DEF FindPeer, At
  <2>2. \/ Goto(n, t, "add")
        \/ \E i \in DOMAIN peers[n] : thr' = [thr EXCEPT ![n][t] = WithPeerId(@, i)]
    BY <1>3 DEF FindPeer
  <2>3. CASE Goto(n, t, "add")
    BY <2>1, <2>3, GotoAlone DEF OutsideSend, PC
  <2>4. ASSUME NEW i \in DOMAIN peers[n],
               thr' = [thr EXCEPT ![n][t] = WithPeerId(@, i)]
        PROVE  Alone(n, t)
    <3>1. i \in Nat
      BY <2>1
    <3> QED
      BY <2>1, <2>4, <3>1, PeerIdAlone
  <2> QED
    BY <2>2, <2>3, <2>4
<1> QED
  BY <1>1, <1>2, <1>3 DEF RecvStep

\* The answer to a request is handled on the connection that it came from.
LEMMA AnswerAlone ==
  ASSUME IInv, NEW n \in Nodes, NEW t \in Detached, NEW new \in Thread,
         thr[n][t].pc \in {"rlwait", "rawait"}, new.pc \in {"recv", "load"},
         new.peer = thr[n][t].peer, new.cand = EmptyChain,
         new.pc = "load" => OnlyLoads(new),
         thr' = [thr EXCEPT ![n][t] = new]
  PROVE  Alone(n, t)
<1>1. MayBecome(n, t, new)
  BY NodeAssumption DEF MayBecome, CandStep, OutsideSend
<1> QED
  BY <1>1 DEF Alone

\* broadcast_latest_block, request_latest_block and request_all_blocks.
LEMMA SendForms ==
  ASSUME IInv, NEW n \in Nodes, NEW t \in Detached, SendStep(n, t)
  PROVE  Alone(n, t) \/ Returns(n, t) \/ ServeBroadcast(n, t)
<1> DEFINE th == thr[n][t]
<1>1. t \in Tid /\ t # "ws" /\ t # "http" /\ NoBlock \in Block
  BY NodeAssumption, NoBlockTyped DEF Tid
<1>2. /\ th \in Thread /\ th.peer \in Nat /\ th.blk \in Block /\ ThreadOK(n, t)
      /\ peers[n] \in Seq(Nodes)
  BY <1>1, ThreadFacts
<1>3. ASSUME NEW i \in Nat, NEW b \in Block, th.pc # "bserved",
             thr' = [thr EXCEPT ![n][t] = Sending(i, b)]
      PROVE  Alone(n, t)
  BY <1>1, <1>3, RunningAlone DEF Sending, OutsideSend
<1>4. CASE Broadcast(n, t)
  <2>1. th.pc = "bcast" /\ thr' = [thr EXCEPT ![n][t] = Sending(1, Latest(chain[n]))]
    BY <1>4 DEF Broadcast, At
  <2>2. chain[n].blocks # <<>>
    BY <1>2, <2>1 DEF ThreadOK
  <2> QED
    BY <1>3, <2>1, <2>2, LatestKnown
<1>5. CASE BroadcastSend(n, t)
  <2>1. th.pc = "bsend"
    BY <1>5 DEF BroadcastSend, At
  <2>2. CASE thr' = Returned(n, t)
    BY <2>1, <2>2 DEF Returns
  <2>3. CASE thr' = [thr EXCEPT ![n][t] = [@ EXCEPT !.peer = th.peer + 1]]
    <3>1. PICK new : new = [th EXCEPT !.peer = th.peer + 1]
      OBVIOUS
    <3>2. new \in Thread /\ new.pc = "bsend" /\ new.cand = th.cand
      BY <1>2, <2>1, <3>1 DEF Thread
    <3>3. MayBecome(n, t, new)
      BY <1>1, <2>1, <3>2 DEF MayBecome, CandStep, OutsideSend
    <3> QED
      BY <2>3, <3>1, <3>2, <3>3 DEF Alone
  <2>4. CASE PeerFree(n, th.peer) /\ Goto(n, t, "bwait")
    BY <1>1, <2>1, <2>4, GotoAlone DEF PC
  <2> QED
    BY <1>5, <2>2, <2>3, <2>4 DEF BroadcastSend, Goto
<1>6. CASE RequestSend(n, t)
  <2>1. th.pc \in {"rlsend", "rasend"} /\ PeerFree(n, th.peer)
    BY <1>6 DEF RequestSend
  <2>2. CASE thr' = [thr EXCEPT ![n][t] = Idle]
    BY <2>1, <2>2, EndAlone
  <2>3. ASSUME NEW pc \in {"rlwait", "rawait"}, Goto(n, t, pc) PROVE Alone(n, t)
    BY <1>1, <2>1, <2>3, GotoAlone DEF PC
  <2> QED
    BY <1>6, <2>2, <2>3 DEF RequestSend
<1>7. CASE ServeLatest(n, t)
  <2>1. PICK m : m = peers[n][th.peer]
    OBVIOUS
  <2>2. th.pc = "rlwait" /\ th.peer \in DOMAIN peers[n]
    BY <1>2, <1>7 DEF ServeLatest, At, ThreadOK, OnPeer
  <2>3. m \in Nodes
    BY <1>2, <2>1, <2>2
  <2>4. CASE thr' = [thr EXCEPT ![n][t] = Idle]
    BY <2>2, <2>4, EndAlone
  <2>5. CASE /\ chain[m].blocks # <<>>
             /\ thr' = [thr EXCEPT ![n][t] =
                          Running("recv", th.peer, Latest(chain[m]), m, 0, None)]
    <3> DEFINE new == Running("recv", th.peer, Latest(chain[m]), m, 0, None)
    <3>1. /\ new \in Thread /\ new.pc = "recv" /\ new.peer = th.peer
          /\ new.cand = EmptyChain
      BY <1>2, <2>3, <2>5, LatestKnown, RunningTyped DEF PC, Running
    <3> HIDE DEF new
    <3> QED
      BY <2>2, <2>5, <3>1, AnswerAlone DEF new
  <2> QED
    BY <1>7, <2>1, <2>4, <2>5 DEF ServeLatest
<1>8. CASE ServeAll(n, t)
  <2>1. PICK m : m = peers[n][th.peer]
    OBVIOUS
  <2>2. th.pc = "rawait" /\ th.peer \in DOMAIN peers[n]
    BY <1>2, <1>8 DEF ServeAll, At, ThreadOK, OnPeer
  <2>3. m \in Nodes
    BY <1>2, <2>1, <2>2
  <2>4. chain[m].blocks \in Seq(Block)
    BY <2>3 DEF IInv, TypeOK, Chain
  <2>5. PICK new : new = Loading(th.peer, chain[m].blocks, EmptyChain)
    OBVIOUS
  <2>6. /\ new \in Thread /\ new.pc = "load" /\ new.peer = th.peer
        /\ new.cand = EmptyChain /\ OnlyLoads(new)
    BY <1>2, <2>4, <2>5, LoadingTyped, EmptyChainOK DEF Loading, OnlyLoads
  <2>7. thr' = [thr EXCEPT ![n][t] = new]
    BY <1>8, <2>1, <2>5 DEF ServeAll
  <2> QED
    BY <2>2, <2>6, <2>7, AnswerAlone
<1>9. CASE GiveUp(n, t)
  <2>1. CASE th.pc = "bwait" /\ thr' = [thr EXCEPT ![n][t] = Sending(@.peer + 1, @.blk)]
    <3>1. th.peer + 1 \in Nat
      BY <1>2
    <3> QED
      BY <1>2, <1>3, <2>1, <3>1
  <2>2. CASE th.pc \in {"rlwait", "rawait"} /\ thr' = [thr EXCEPT ![n][t] = Idle]
    BY <2>2, EndAlone
  <2> QED
    BY <1>9, <2>1, <2>2 DEF GiveUp, At
<1> QED
  BY <1>4, <1>5, <1>6, <1>7, <1>8, <1>9 DEF SendStep

\* handle_receive_all_blocks.
LEMMA LoadForms ==
  ASSUME IInv, NEW n \in Nodes, NEW t \in Detached, LoadStep(n, t)
  PROVE  Alone(n, t) \/ Returns(n, t)
<1> DEFINE th == thr[n][t]
<1>1. t \in Tid /\ t # "ws"
  BY NodeAssumption DEF Tid
<1>2. CASE LoadBlock(n, t)
  <2> DEFINE b == Head(th.todo)
             r == AppendNextBlock(th.cand, b, Now(n))
  <2>1. th.pc = "load" /\ th.todo # <<>>
    BY <1>2 DEF LoadBlock, At
  <2>2. /\ th.peer \in Nat /\ th.todo \in Seq(Block) /\ th.cand \in Chain
        /\ Now(n) \in Int /\ ThreadOK(n, t)
    BY <1>1, ThreadFacts
  <2>3. b \in Block /\ Tail(th.todo) \in Seq(Block) /\ Linked(th.cand.blocks)
    BY <2>1, <2>2 DEF ThreadOK
  <2>4. r.chain \in Chain
    BY <2>2, <2>3, AppendNextBlockOK
  <2>5. CASE r.ok
    <3>1. PICK new : new = Loading(th.peer, Tail(th.todo), r.chain)
      OBVIOUS
    <3>2. /\ new \in Thread /\ new.pc = "load" /\ new.peer = th.peer
          /\ new.cand = r.chain /\ OnlyLoads(new)
      BY <2>2, <2>3, <2>4, <3>1, LoadingTyped DEF Loading, OnlyLoads
    <3>3. thr' = [thr EXCEPT ![n][t] = new]
      BY <1>2, <2>5, <3>1 DEF LoadBlock
    <3>4. CandStep(th.cand, new.cand, Now(n))
      BY <2>3, <3>2 DEF CandStep
    <3>5. MayBecome(n, t, new)
      BY <1>1, <2>1, <3>2, <3>4 DEF MayBecome, OutsideSend
    <3> QED
      BY <3>2, <3>3, <3>5 DEF Alone
  <2>6. CASE ~r.ok
    <3>1. thr' = [thr EXCEPT ![n][t] = Idle]
      BY <1>2, <2>6 DEF LoadBlock
    <3> QED
      BY <2>1, <3>1, EndAlone
  <2> QED
    BY <2>5, <2>6
<1>3. CASE LoadValid(n, t) \/ Compare(n, t)
  <2>1. th.pc \in {"load", "cmp"}
    BY <1>3 DEF LoadValid, Compare, At
  <2>2. /\ thr' = Returned(n, t) \/ \E pc \in {"cmp", "assign"} : Goto(n, t, pc)
        /\ th.pc = "load" => th.todo = <<>>
    BY <1>3 DEF LoadValid, Compare, At
  <2>3. ASSUME NEW pc \in {"cmp", "assign"}, Goto(n, t, pc) PROVE Alone(n, t)
    BY <1>1, <2>1, <2>2, <2>3, GotoAlone DEF OutsideSend, PC
  <2> QED
    BY <2>1, <2>2, <2>3 DEF Returns
<1>4. CASE Assign(n, t)
  BY <1>4 DEF Assign, At, Returns
<1> QED
  BY <1>2, <1>3, <1>4 DEF LoadStep

\* Every step of the network moves its threads in one of these ways.
LEMMA ThreadForms == IInv /\ [Next]_vars => ThreadsMove
<1> SUFFICES ASSUME IInv, [Next]_vars PROVE ThreadsMove
  OBVIOUS
<1>1. ASSUME NEW n \in Nodes, UserRequest(n) PROVE ThreadsMove
  BY <1>1, HttpForms DEF ThreadsMove, Tid
<1>2. ASSUME NEW n \in Nodes, NEW t \in Tid, ThreadStep(n, t) PROVE ThreadsMove
  <2>1. CASE t = "http" /\ HttpStep(n)
    BY <2>1, HttpForms DEF ThreadsMove
  <2>2. CASE AddStep(n, t)
    BY <2>2, AddForms DEF ThreadsMove
  <2>3. CASE RecvStep(n, t)
    BY <2>3, RecvForms DEF ThreadsMove
  <2>4. CASE t \in Detached /\ SendStep(n, t)
    BY <2>4, SendForms DEF ThreadsMove
  <2>5. CASE t \in Detached /\ LoadStep(n, t)
    BY <2>5, LoadForms DEF ThreadsMove
  <2> QED
    BY <1>2, <2>1, <2>2, <2>3, <2>4, <2>5 DEF ThreadStep
<1>3. CASE Tick \/ \E n \in Nodes : \E i \in DOMAIN peers[n] : BreakConnection(n, i)
  BY <1>3 DEF Tick, BreakConnection, ThreadsMove
<1>4. CASE UNCHANGED vars
  BY <1>4 DEF vars, ThreadsMove
<1> QED
  BY <1>1, <1>2, <1>3, <1>4 DEF Next

-----------------------------------------------------------------------------
(* Requests and answers.                                                    *)

\* The mutex of a WebSocketPeer is held by one thread at a time.
PeersLocked ==
  \A n \in Nodes : \A t, u \in Detached :
    /\ t # u
    /\ thr[n][t].pc \notin OutsideSend /\ thr[n][u].pc \notin OutsideSend
    => thr[n][t].peer # thr[n][u].peer

\* The websocket server of the peer works for the thread t of n that waits.
ServedBy(n, t, m) ==
  LET ws == thr[m]["ws"]
  IN  /\ ws.pc # "idle" /\ ws.from = n /\ ws.caller = t
      /\ ws.blk = thr[n][t].blk

BroadcastsServed ==
  \A n \in Nodes, t \in Detached :
    thr[n][t].pc = "bserved" => ServedBy(n, t, peers[n][thr[n][t].peer])

RequestInv == PeersLocked /\ BroadcastsServed

\* The thread that the return of a websocket server lets go on.
Released(n, t, m, u) ==
  t = "ws" /\ m = thr[n]["ws"].from /\ u = thr[n]["ws"].caller

\* What the threads look like after a handler has returned.
LEMMA ReturnedIs ==
  ASSUME IInv, NEW n \in Nodes, NEW t \in Tid,
         thr[n][t].pc \notin {"idle", "bserved"}
  PROVE  LET f == Returned(n, t)
         IN  /\ f \in [Nodes -> [Tid -> Thread]]
             /\ f[n][t] = Idle
             /\ \A m \in Nodes, u \in Tid :
                  Released(n, t, m, u) =>
                    /\ u \in Detached
                    /\ f[m][u] = Sending(thr[m][u].peer + 1, thr[m][u].blk)
             /\ \A m \in Nodes, u \in Tid :
                  (m # n \/ u # t) /\ ~Released(n, t, m, u) => f[m][u] = thr[m][u]
<1> DEFINE f == Returned(n, t)
<1>1. /\ thr \in [Nodes -> [Tid -> Thread]] /\ Idle \in Thread /\ "ws" \in Tid
      /\ Detached \subseteq Tid /\ "ws" \notin Detached
  BY IdleTyped, NodeAssumption DEF IInv, TypeOK, Tid
<1>2. CASE t # "ws"
  <2>1. f = [thr EXCEPT ![n][t] = Idle]
    BY <1>2 DEF Returned
  <2> HIDE DEF f
  <2>2. /\ f \in [Nodes -> [Tid -> Thread]] /\ f[n][t] = Idle
        /\ \A m \in Nodes, u \in Tid : m # n \/ u # t => f[m][u] = thr[m][u]
    BY <1>1, <2>1
  <2> QED
    BY <1>2, <2>2 DEF Released, f
<1>3. CASE t = "ws"
  <2> DEFINE k == thr[n]["ws"].from
             c == thr[n]["ws"].caller
             snd == Sending(thr[k][c].peer + 1, thr[k][c].blk)
  <2>1. k \in Nodes /\ c \in Detached
    BY <1>3, ServersOK DEF ServerOKIn
  <2>2. thr[k][c] \in Thread /\ c \in Tid /\ c # "ws"
    BY <1>1, <2>1
  <2>3. thr[k][c].peer + 1 \in Nat /\ thr[k][c].blk \in Block
    BY <2>2 DEF Thread
  <2>4. snd \in Thread
    BY <2>3, RunningTyped DEF Sending, PC
  <2>5. f = [thr EXCEPT ![n]["ws"] = Idle, ![k][c] = snd]
    <3>1. [thr EXCEPT ![n]["ws"] = Idle][k][c] = thr[k][c]
      BY <1>1, <2>1, <2>2
    <3> QED
      BY <1>3, <3>1 DEF Returned
  <2> HIDE DEF f, snd
  <2>6. f = [[thr EXCEPT ![n]["ws"] = Idle] EXCEPT ![k][c] = snd]
    BY <2>5
  <2>7. /\ f \in [Nodes -> [Tid -> Thread]]
        /\ f[n]["ws"] = Idle /\ f[k][c] = snd
        /\ \A m \in Nodes, u \in Tid :
             (m # n \/ u # "ws") /\ ~(m = k /\ u = c) => f[m][u] = thr[m][u]
    BY <1>1, <2>1, <2>2, <2>4, <2>6
  <2> QED
    BY <1>3, <2>1, <2>7 DEF Released, f, snd
<1> QED
  BY <1>2, <1>3

\* Every thread that does not go on as it was holds no mutex of a peer after a
\* handler has returned.
LEMMA ReturnedOutside ==
  ASSUME IInv, NEW n \in Nodes, NEW t \in Tid,
         thr[n][t].pc \notin {"idle", "bserved"}
  PROVE  \A m \in Nodes, u \in Tid :
           \/ Returned(n, t)[m][u] = thr[m][u]
           \/ /\ Returned(n, t)[m][u].pc \in OutsideSend
              /\ Returned(n, t)[m][u].cand = EmptyChain
<1> SUFFICES ASSUME NEW m \in Nodes, NEW u \in Tid
             PROVE  \/ Returned(n, t)[m][u] = thr[m][u]
                    \/ /\ Returned(n, t)[m][u].pc \in OutsideSend
                       /\ Returned(n, t)[m][u].cand = EmptyChain
  OBVIOUS
<1>1. PICK f : f = Returned(n, t)
  OBVIOUS
<1>2. /\ f[n][t] = Idle
      /\ Released(n, t, m, u) => f[m][u] = Sending(thr[m][u].peer + 1, thr[m][u].blk)
      /\ (m # n \/ u # t) /\ ~Released(n, t, m, u) => f[m][u] = thr[m][u]
  BY <1>1, ReturnedIs
<1>3. Idle.pc \in OutsideSend /\ Idle.cand = EmptyChain
  BY DEF Idle, Start, Running, OutsideSend
<1>4. \A i, b : /\ Sending(i, b).pc \in OutsideSend
                /\ Sending(i, b).cand = EmptyChain
  BY DEF Sending, Running, OutsideSend
<1> QED
  BY <1>1, <1>2, <1>3, <1>4

\* What the threads look like after a detached thread has been started, too.
LEMMA LeavesIs ==
  ASSUME IInv, NEW n \in Nodes, NEW t \in Tid, Leaves(n, t)
  PROVE  \E d \in Detached :
           /\ Returned(n, t)[n][d].pc = "idle"
           /\ thr'[n][d].pc \in OutsideSend /\ thr'[n][d].cand = EmptyChain
           /\ \A m \in Nodes, u \in Tid :
                m # n \/ u # d => thr'[m][u] = Returned(n, t)[m][u]
<1>1. PICK f : f = Returned(n, t)
  OBVIOUS
<1>2. f \in [Nodes -> [Tid -> Thread]]
  BY <1>1, ReturnedIs DEF Leaves
<1>3. PICK pc \in {"bcast", "rlsend", "rasend"}, i \in Nat : Detach(f, n, Start(pc, i))
  BY <1>1 DEF Leaves
<1>4. PICK new : new = Start(pc, i)
  OBVIOUS
<1>5. new.pc \in OutsideSend /\ new.cand = EmptyChain
  BY <1>4 DEF Start, Running, OutsideSend
<1>6. PICK d \in Detached : f[n][d].pc = "idle" /\ thr' = [f EXCEPT ![n][d] = new]
  BY <1>3, <1>4 DEF Detach
<1>7. /\ thr'[n][d] = new
      /\ \A m \in Nodes, u \in Tid : m # n \/ u # d => thr'[m][u] = f[m][u]
  BY <1>2, <1>6 DEF Tid
<1> QED
  BY <1>1, <1>5, <1>6, <1>7

\* What the threads look like after a websocket server has taken a broadcast.
LEMMA ServeIs ==
  ASSUME IInv, NEW n \in Nodes, NEW t \in Detached, ServeBroadcast(n, t)
  PROVE  LET m == peers[n][thr[n][t].peer]
         IN  /\ m \in Nodes /\ thr[m]["ws"].pc = "idle" /\ thr[n][t].pc = "bwait"
             /\ peers' = peers
             /\ thr'[n][t].pc = "bserved" /\ thr'[n][t].peer = thr[n][t].peer
             /\ thr'[n][t].blk = thr[n][t].blk /\ thr'[n][t].cand = thr[n][t].cand
             /\ thr'[m]["ws"] = Running("recv", 0, thr[n][t].blk, n, 0, t)
             /\ \A k \in Nodes, u \in Tid :
                  (k # n \/ u # t) /\ (k # m \/ u # "ws") => thr'[k][u] = thr[k][u]
<1> DEFINE th == thr[n][t]
<1>1. PICK m : m = peers[n][th.peer]
  OBVIOUS
<1>2. /\ th.pc = "bwait" /\ t \in Tid /\ t # "ws" /\ "ws" \in Tid
      /\ thr[m]["ws"].pc = "idle" /\ peers' = peers
  BY <1>1, NodeAssumption DEF ServeBroadcast, At, Listening, Tid
<1>3. th \in Thread /\ th.blk \in Block /\ ThreadOK(n, t) /\ peers[n] \in Seq(Nodes)
  BY <1>2, ThreadFacts
<1>4. m \in Nodes /\ "bserved" \in PC
  BY <1>1, <1>2, <1>3 DEF ThreadOK, OnPeer, PC
<1>5. PICK new : new = [th EXCEPT !.pc = "bserved"]
  OBVIOUS
<1>6. /\ new \in Thread /\ new.pc = "bserved" /\ new.peer = th.peer
      /\ new.blk = th.blk /\ new.cand = th.cand
  BY <1>3, <1>4, <1>5, MovedTyped
<1>7. PICK srv : srv = Running("recv", 0, th.blk, n, 0, t)
  OBVIOUS
<1>8. srv \in Thread
  BY <1>3, <1>7, RunningTyped DEF PC
<1>9. thr' = [thr EXCEPT ![n][t] = new, ![m]["ws"] = srv]
  BY <1>1, <1>5, <1>7 DEF ServeBroadcast
<1>10. thr' = [[thr EXCEPT ![n][t] = new] EXCEPT ![m]["ws"] = srv]
  BY <1>9
<1>11. /\ thr'[n][t] = new /\ thr'[m]["ws"] = srv
       /\ \A k \in Nodes, u \in Tid :
            (k # n \/ u # t) /\ (k # m \/ u # "ws") => thr'[k][u] = thr[k][u]
  BY <1>2, <1>4, <1>6, <1>8, <1>10 DEF IInv, TypeOK
<1> QED
  BY <1>1, <1>2, <1>4, <1>6, <1>7, <1>11

\* Every step leaves at most one thread inside the mutex of a peer: at most one
\* thread takes it in a step, and only if it is free.
LEMMA LockStep ==
  ASSUME IInv, PeersLocked, ThreadsMove
  PROVE  PeersLocked'
<1> DEFINE Enters(n, t, m, u) ==
             m = n /\ u = t /\ PeerFree(m, thr'[m][u].peer)
           Fine(n, t) ==
             \A m \in Nodes, u \in Detached :
               \/ thr'[m][u].pc \in OutsideSend
               \/ thr[m][u].pc \notin OutsideSend /\ thr'[m][u].peer = thr[m][u].peer
               \/ Enters(n, t, m, u)
<1>1. Detached \subseteq Tid /\ "ws" \notin Detached /\ "ws" \in Tid
  BY NodeAssumption DEF Tid
<1>2. ASSUME NEW n \in Nodes, NEW t \in Tid, Fine(n, t) PROVE PeersLocked'
  <2> SUFFICES ASSUME NEW m \in Nodes, NEW u \in Detached, NEW v \in Detached,
                      u # v, thr'[m][u].pc \notin OutsideSend,
                      thr'[m][v].pc \notin OutsideSend
               PROVE  thr'[m][u].peer # thr'[m][v].peer
    BY DEF PeersLocked, OutsideSend
  <2>1. CASE ~Enters(n, t, m, u) /\ ~Enters(n, t, m, v)
    BY <1>2, <2>1 DEF PeersLocked
  <2>2. CASE Enters(n, t, m, u)
    <3>1. thr[m][v].pc \notin OutsideSend /\ thr'[m][v].peer = thr[m][v].peer
      BY <1>2, <2>2
    <3> QED
      BY <2>2, <3>1 DEF PeerFree
  <2>3. CASE Enters(n, t, m, v)
    <3>1. thr[m][u].pc \notin OutsideSend /\ thr'[m][u].peer = thr[m][u].peer
      BY <1>2, <2>3
    <3> QED
      BY <2>3, <3>1 DEF PeerFree
  <2> QED
    BY <2>1, <2>2, <2>3
<1>3. CASE thr' = thr
  BY <1>3 DEF PeersLocked
<1>4. ASSUME NEW n \in Nodes, NEW t \in Tid, Alone(n, t) PROVE PeersLocked'
  <2>1. PICK new \in Thread : MayBecome(n, t, new) /\ thr' = [thr EXCEPT ![n][t] = new]
    BY <1>4 DEF Alone
  <2>2. /\ thr'[n][t] = new
        /\ \A m \in Nodes, u \in Tid : m # n \/ u # t => thr'[m][u] = thr[m][u]
    BY <2>1 DEF IInv, TypeOK
  <2>3. Fine(n, t)
    BY <1>1, <2>1, <2>2 DEF MayBecome
  <2> QED
    BY <1>2, <2>3
<1>5. ASSUME NEW n \in Nodes, NEW t \in Tid, Returns(n, t) PROVE PeersLocked'
  <2>1. Fine(n, t)
    BY <1>1, <1>5, ReturnedOutside DEF Returns
  <2> QED
    BY <1>2, <2>1
<1>6. ASSUME NEW n \in Nodes, NEW t \in Tid, Leaves(n, t) PROVE PeersLocked'
  <2>1. PICK d \in Detached :
          /\ thr'[n][d].pc \in OutsideSend
          /\ \A m \in Nodes, u \in Tid :
               m # n \/ u # d => thr'[m][u] = Returned(n, t)[m][u]
    BY <1>6, LeavesIs
  <2>2. \A m \in Nodes, u \in Tid :
          \/ Returned(n, t)[m][u] = thr[m][u]
          \/ Returned(n, t)[m][u].pc \in OutsideSend
    BY <1>6, ReturnedOutside DEF Leaves
  <2>3. Fine(n, t)
    BY <1>1, <2>1, <2>2
  <2> QED
    BY <1>2, <2>3
<1>7. ASSUME NEW n \in Nodes, NEW t \in Detached, ServeBroadcast(n, t)
      PROVE  PeersLocked'
  <2>1. PICK m : m = peers[n][thr[n][t].peer]
    OBVIOUS
  <2>2. /\ thr[n][t].pc = "bwait" /\ thr'[n][t].peer = thr[n][t].peer
        /\ \A k \in Nodes, u \in Tid :
             (k # n \/ u # t) /\ (k # m \/ u # "ws") => thr'[k][u] = thr[k][u]
    BY <1>7, <2>1, ServeIs
  <2>3. Fine(n, t)
    BY <1>1, <2>2 DEF OutsideSend
  <2> QED
    BY <1>1, <1>2, <2>3
<1> QED
  BY <1>3, <1>4, <1>5, <1>6, <1>7 DEF ThreadsMove

\* Peers are only added to the lists of peers.
PeersGrow == \A n \in Nodes : Grows(peers[n], peers'[n])

\* A thread that waits for a server that goes on goes on being served.
LEMMA StillServed ==
  ASSUME IInv, IInv', PeersGrow, NEW n \in Nodes, NEW t \in Detached,
         thr[n][t].pc = "bserved", thr'[n][t] = thr[n][t],
         ServedBy(n, t, peers[n][thr[n][t].peer]),
         \A m \in Nodes :
           /\ thr[m]["ws"].pc # "idle" /\ thr[m]["ws"].from = n
           /\ thr[m]["ws"].caller = t
           => /\ thr'[m]["ws"].pc # "idle"
              /\ thr'[m]["ws"].from = thr[m]["ws"].from
              /\ thr'[m]["ws"].caller = thr[m]["ws"].caller
              /\ thr'[m]["ws"].blk = thr[m]["ws"].blk
  PROVE  thr'[n][t].pc = "bserved" => ServedBy(n, t, peers[n][thr[n][t].peer])'
<1>1. PICK i : i = thr[n][t].peer
  OBVIOUS
<1>2. t \in Tid
  BY DEF Tid
<1>3. /\ peers[n] \in Seq(Nodes) /\ peers'[n] \in Seq(Nodes)
      /\ Grows(peers[n], peers'[n]) /\ i \in DOMAIN peers[n]
  BY <1>1, <1>2, ThreadFacts DEF ThreadOK, OnPeer, PeersGrow, IInv, TypeOK
<1>4. peers'[n][i] = peers[n][i] /\ peers[n][i] \in Nodes
  BY <1>3 DEF Grows
<1>5. ServedBy(n, t, peers[n][i])
  BY <1>1
<1> QED
  BY <1>1, <1>4, <1>5 DEF ServedBy

\* Every step keeps the websocket servers working for the threads that wait.
LEMMA ServedStep ==
  ASSUME IInv, IInv', PeersGrow, BroadcastsServed, ThreadsMove
  PROVE  BroadcastsServed'
<1> SUFFICES ASSUME NEW k \in Nodes, NEW c \in Detached, thr'[k][c].pc = "bserved"
             PROVE  ServedBy(k, c, peers[k][thr[k][c].peer])'
  BY DEF BroadcastsServed
<1>1. /\ Detached \subseteq Tid /\ "ws" \notin Detached /\ "ws" \in Tid
      /\ "bserved" \notin OutsideSend /\ Idle.pc = "idle"
  BY NodeAssumption, IdleTyped DEF Tid, OutsideSend
<1> DEFINE Working(m) ==
      /\ thr[m]["ws"].pc # "idle" /\ thr[m]["ws"].from = k /\ thr[m]["ws"].caller = c
<1>2. ASSUME thr'[k][c] = thr[k][c],
             \A m \in Nodes : Working(m) =>
               /\ thr'[m]["ws"].pc # "idle"
               /\ thr'[m]["ws"].from = thr[m]["ws"].from
               /\ thr'[m]["ws"].caller = thr[m]["ws"].caller
               /\ thr'[m]["ws"].blk = thr[m]["ws"].blk
      PROVE  ServedBy(k, c, peers[k][thr[k][c].peer])'
  <2>1. thr[k][c].pc = "bserved" /\ ServedBy(k, c, peers[k][thr[k][c].peer])
    BY <1>2 DEF BroadcastsServed
  <2> QED
    BY <1>2, <2>1, StillServed
<1>3. CASE thr' = thr
  BY <1>2, <1>3
<1>4. ASSUME NEW n \in Nodes, NEW t \in Tid, Alone(n, t)
      PROVE  ServedBy(k, c, peers[k][thr[k][c].peer])'
  <2>1. PICK new \in Thread : MayBecome(n, t, new) /\ thr' = [thr EXCEPT ![n][t] = new]
    BY <1>4 DEF Alone
  <2>2. /\ thr'[n][t] = new
        /\ \A m \in Nodes, u \in Tid : m # n \/ u # t => thr'[m][u] = thr[m][u]
    BY <2>1 DEF IInv, TypeOK
  <2>3. thr'[k][c] = thr[k][c]
    BY <1>1, <2>1, <2>2 DEF MayBecome
  <2>4. ASSUME NEW m \in Nodes
        PROVE  \/ thr'[m]["ws"] = thr[m]["ws"]
               \/ /\ thr'[m]["ws"].pc # "idle"
                  /\ thr'[m]["ws"].from = thr[m]["ws"].from
                  /\ thr'[m]["ws"].caller = thr[m]["ws"].caller
                  /\ thr'[m]["ws"].blk = thr[m]["ws"].blk
    BY <1>1, <2>1, <2>2 DEF MayBecome
  <2> QED
    BY <1>2, <2>3, <2>4
<1>5. ASSUME NEW n \in Nodes, NEW t \in Tid, thr[n][t].pc \notin {"idle", "bserved"},
             \A m \in Nodes, u \in Tid :
               \/ thr'[m][u] = Returned(n, t)[m][u]
               \/ u \in Detached /\ thr'[m][u].pc \in OutsideSend
      PROVE  ServedBy(k, c, peers[k][thr[k][c].peer])'
  <2>1. PICK f : f = Returned(n, t)
    OBVIOUS
  <2>2. /\ f[n][t] = Idle
        /\ \A m \in Nodes, u \in Tid :
             Released(n, t, m, u) =>
               f[m][u] = Sending(thr[m][u].peer + 1, thr[m][u].blk)
        /\ \A m \in Nodes, u \in Tid :
             (m # n \/ u # t) /\ ~Released(n, t, m, u) => f[m][u] = thr[m][u]
        /\ \A m \in Nodes, u \in Tid : Released(n, t, m, u) => u \in Detached
    BY <1>5, <2>1, ReturnedIs
  <2>3. thr'[k][c] = f[k][c]
    BY <1>1, <1>5, <2>1
  <2>4. ~Released(n, t, k, c) /\ f[k][c] = thr[k][c]
    <3>1. Sending(thr[k][c].peer + 1, thr[k][c].blk).pc = "bsend"
      BY DEF Sending, Running
    <3> QED
      BY <1>1, <2>2, <2>3, <3>1
  <2>5. ASSUME NEW m \in Nodes, Working(m) PROVE thr'[m]["ws"] = thr[m]["ws"]
    <3>1. ~(m = n /\ t = "ws")
      BY <2>4, <2>5 DEF Released
    <3>2. f[m]["ws"] = thr[m]["ws"]
      BY <1>1, <2>2, <3>1
    <3> QED
      BY <1>1, <1>5, <2>1, <3>2
  <2> QED
    BY <1>2, <2>3, <2>4, <2>5
<1>6. ASSUME NEW n \in Nodes, NEW t \in Tid, Returns(n, t)
      PROVE  ServedBy(k, c, peers[k][thr[k][c].peer])'
  BY <1>5, <1>6 DEF Returns
<1>7. ASSUME NEW n \in Nodes, NEW t \in Tid, Leaves(n, t)
      PROVE  ServedBy(k, c, peers[k][thr[k][c].peer])'
  <2>1. PICK d \in Detached :
          /\ thr'[n][d].pc \in OutsideSend
          /\ \A m \in Nodes, u \in Tid :
               m # n \/ u # d => thr'[m][u] = Returned(n, t)[m][u]
    BY <1>7, LeavesIs
  <2>2. \A m \in Nodes, u \in Tid :
          \/ thr'[m][u] = Returned(n, t)[m][u]
          \/ u \in Detached /\ thr'[m][u].pc \in OutsideSend
    BY <2>1
  <2> QED
    BY <1>5, <1>7, <2>2 DEF Leaves
<1>8. ASSUME NEW n \in Nodes, NEW t \in Detached, ServeBroadcast(n, t)
      PROVE  ServedBy(k, c, peers[k][thr[k][c].peer])'
  <2>1. PICK m : m = peers[n][thr[n][t].peer]
    OBVIOUS
  <2>2. /\ m \in Nodes /\ thr[m]["ws"].pc = "idle" /\ peers' = peers
        /\ thr'[n][t].peer = thr[n][t].peer /\ thr'[n][t].blk = thr[n][t].blk
        /\ thr'[m]["ws"] = Running("recv", 0, thr[n][t].blk, n, 0, t)
        /\ \A j \in Nodes, u \in Tid :
             (j # n \/ u # t) /\ (j # m \/ u # "ws") => thr'[j][u] = thr[j][u]
    BY <1>8, <2>1, ServeIs
  <2>3. CASE k = n /\ c = t
    <3>1. peers'[k][thr'[k][c].peer] = m
      BY <2>1, <2>2, <2>3
    <3>2. /\ thr'[m]["ws"].pc = "recv" /\ thr'[m]["ws"].from = n
          /\ thr'[m]["ws"].caller = t /\ thr'[m]["ws"].blk = thr[n][t].blk
      BY <2>2 DEF Running
    <3> QED
      BY <2>2, <2>3, <3>1, <3>2 DEF ServedBy
  <2>4. CASE ~(k = n /\ c = t)
    <3>1. thr'[k][c] = thr[k][c]
      BY <1>1, <2>2, <2>4
    <3>2. \A j \in Nodes : Working(j) => thr'[j]["ws"] = thr[j]["ws"]
      BY <1>1, <2>2
    <3> QED
      BY <1>2, <3>1, <3>2
  <2> QED
    BY <2>3, <2>4
<1> QED
  BY <1>3, <1>4, <1>6, <1>7, <1>8 DEF ThreadsMove

\* Nothing is ever taken off a list of peers.
LEMMA PeersOnlyGrow == IInv /\ [Next]_vars => PeersGrow
<1> SUFFICES ASSUME IInv, [Next]_vars, NEW n \in Nodes
             PROVE  Grows(peers[n], peers'[n])
  BY DEF PeersGrow
<1>1. peers \in [Nodes -> Seq(Nodes)]
  BY DEF IInv, TypeOK
<1>2. CASE peers' = peers
  BY <1>1, <1>2, GrowsSame
<1>3. ASSUME NEW m \in Nodes, NEW t \in Tid, ConnectPeer(m, t)
      PROVE  Grows(peers[n], peers'[n])
  <2>1. thr[m][t].from \in Nodes
    BY <1>3, ThreadFacts DEF ConnectPeer, At, ThreadOK, Naming
  <2>2. peers' = [peers EXCEPT ![m] = Append(peers[m], thr[m][t].from)]
    BY <1>3 DEF ConnectPeer
  <2>3. peers'[n] = peers[n] \/ peers'[n] = Append(peers[n], thr[m][t].from)
    BY <1>1, <2>2
  <2> QED
    BY <1>1, <2>1, <2>3, GrowsSame, GrowsAppend
<1>4. ASSUME NEW m \in Nodes, UserRequest(m) PROVE peers' = peers
  BY <1>4 DEF UserRequest, PostBlocks, PostPeers
<1>5. ASSUME NEW m \in Nodes, NEW t \in Tid, ThreadStep(m, t)
      PROVE  peers' = peers \/ ConnectPeer(m, t)
  <2>1. CASE HttpStep(m)
    BY <2>1 DEF HttpStep, MineBlock, DetachBroadcast
  <2>2. CASE AddStep(m, t)
    BY <2>2 DEF AddStep, AddPeer, DetachRequest
  <2>3. CASE RecvStep(m, t)
    BY <2>3 DEF RecvStep, RecvValid, RecvIndex, RecvSuccessor, RecvAppend, FindPeer
  <2>4. CASE SendStep(m, t)
    BY <2>4 DEF SendStep, Broadcast, BroadcastSend, ServeBroadcast, RequestSend,
                ServeLatest, ServeAll, GiveUp
  <2>5. CASE LoadStep(m, t)
    BY <2>5 DEF LoadStep, LoadBlock, LoadValid, Compare, Assign
  <2> QED
    BY <1>5, <2>1, <2>2, <2>3, <2>4, <2>5 DEF ThreadStep
<1>6. CASE Tick \/ \E m \in Nodes : \E i \in DOMAIN peers[m] : BreakConnection(m, i)
  BY <1>2, <1>6 DEF Tick, BreakConnection
<1>7. CASE UNCHANGED vars
  BY <1>2, <1>7 DEF vars
<1> QED
  BY <1>2, <1>3, <1>4, <1>5, <1>6, <1>7 DEF Next

\* Under any interleaving of any number of threads and nodes, the answer that a
\* thread reads from a connection is the answer to what it has written: the
\* mutex of WebSocketPeer::send keeps other threads off the connection, and a
\* websocket server answers the thread whose broadcast it has taken.
THEOREM AnswersMatch == Spec => []RequestsMatchAnswers
<1>1. Init => RequestInv
  <2> SUFFICES ASSUME Init PROVE RequestInv
    OBVIOUS
  <2>1. \A n \in Nodes, t \in Tid : thr[n][t].pc = "idle"
    BY IdleTyped DEF Init
  <2> QED
    BY <2>1 DEF RequestInv, PeersLocked, BroadcastsServed, OutsideSend, Tid
<1>2. IInv /\ IInv' /\ RequestInv /\ [Next]_vars => RequestInv'
  BY ThreadForms, PeersOnlyGrow, LockStep, ServedStep DEF RequestInv
<1>3. RequestInv => RequestsMatchAnswers
  <2>1. InFlight \intersect OutsideSend = {}
    BY DEF InFlight, OutsideSend
  <2>2. PeersLocked =>
          \A n \in Nodes : \A t, u \in Detached :
            /\ t # u /\ thr[n][t].pc \in InFlight /\ thr[n][u].pc \in InFlight
            => thr[n][t].peer # thr[n][u].peer
    BY <2>1 DEF PeersLocked
  <2>3. BroadcastsServed =>
          \A n \in Nodes : \A t \in Detached :
            At(n, t, "bserved") =>
              LET ws == thr[peers[n][thr[n][t].peer]]["ws"]
              IN  /\ ws.pc # "idle" /\ ws.from = n /\ ws.caller = t
                  /\ ws.blk = thr[n][t].blk
    BY DEF BroadcastsServed, ServedBy, At
  <2> QED
    BY <2>2, <2>3 DEF RequestInv, RequestsMatchAnswers
<1> QED
  BY <1>1, <1>2, <1>3, Invariance, PTL DEF Spec

-----------------------------------------------------------------------------
(* What a step does to the chains.                                          *)

\* The chain stays as it is, and so does whether its mutex is held, ...
Kept(n) == chain'[n] = chain[n] /\ (ChainFree(n)' <=> ChainFree(n))

\* ... mining begins, which moves the adjuster on, ...
Begun(n) ==
  /\ ProofOfWork /\ ChainFree(n) /\ TimeMaxDelta > 0
  /\ \E ts \in Int : chain'[n] = [chain[n] EXCEPT !.da = Adjust(chain[n].da, ts)]

\* ... a block that was received is appended, or refused, ...
Received(n) ==
  /\ ChainFree(n) /\ ChainFree(n)'
  /\ \E b \in Block : chain'[n] = AppendNextBlock(chain[n], b, Now(n)).chain

\* ... a chain that was loaded replaces it, ...
Replaced(n) ==
  /\ ChainFree(n) /\ ChainFree(n)'
  /\ \E t \in Detached : chain'[n] = thr[n][t].cand

\* ... or a block has been mined.
Mined(n, b) ==
  /\ mined' = Append(mined, b) /\ chain'[n] = Extended(chain[n], b)
  /\ b.prev = TipOf(chain[n]) /\ b.ts = Now(n) /\ ChainFree(n)'
  /\ ~ChainFree(n) \/ (~ProofOfWork /\ TimeMaxDelta > 0)

ChainsMove ==
  \/ /\ mined' = mined
     /\ \A n \in Nodes : Kept(n) \/ Begun(n) \/ Received(n) \/ Replaced(n)
  \/ \E n \in Nodes, b \in Block :
       Mined(n, b) /\ \A m \in Nodes \ {n} : Kept(m)

\* Only POST /blocks begins and ends the nonce search, during which the chain is
\* locked.
LEMMA MiningStays ==
  ASSUME IInv, ThreadsMove, NEW n \in Nodes, ~PostBlocks(n), ~MineBlock(n)
  PROVE  ChainFree(n)' <=> ChainFree(n)
<1> SUFFICES (thr'[n]["http"].pc = "mining") <=> (thr[n]["http"].pc = "mining")
  BY DEF ChainFree
<1>1. /\ "http" \in Tid /\ "http" \notin Detached /\ "http" # "ws" /\ "ws" \in Tid
      /\ Detached \subseteq Tid /\ Idle.pc = "idle"
  BY NodeAssumption, IdleTyped DEF Tid
<1>2. ASSUME NEW k \in Nodes, NEW t \in Tid, Alone(k, t)
      PROVE  (thr'[n]["http"].pc = "mining") <=> (thr[n]["http"].pc = "mining")
  <2>1. PICK new \in Thread : MayBecome(k, t, new) /\ thr' = [thr EXCEPT ![k][t] = new]
    BY <1>2 DEF Alone
  <2>2. /\ thr'[k][t] = new
        /\ \A m \in Nodes, u \in Tid : m # k \/ u # t => thr'[m][u] = thr[m][u]
    BY <2>1 DEF IInv, TypeOK
  <2> QED
    BY <1>1, <2>1, <2>2 DEF MayBecome
<1>3. ASSUME NEW k \in Nodes, NEW t \in Tid,
             thr[k][t].pc \notin {"idle", "bserved", "mining"}
      PROVE  \/ Returned(k, t)[n]["http"] = thr[n]["http"]
             \/ Returned(k, t)[n]["http"] = Idle /\ thr[n]["http"].pc # "mining"
  <2>1. PICK f : f = Returned(k, t)
    OBVIOUS
  <2>2. /\ f[k][t] = Idle
        /\ \A m \in Nodes, u \in Tid : Released(k, t, m, u) => u \in Detached
        /\ \A m \in Nodes, u \in Tid :
             (m # k \/ u # t) /\ ~Released(k, t, m, u) => f[m][u] = thr[m][u]
    BY <1>3, <2>1, ReturnedIs
  <2> QED
    BY <1>1, <1>3, <2>1, <2>2
<1>4. ASSUME NEW k \in Nodes, NEW t \in Tid, Returns(k, t)
      PROVE  (thr'[n]["http"].pc = "mining") <=> (thr[n]["http"].pc = "mining")
  BY <1>1, <1>3, <1>4 DEF Returns
<1>5. ASSUME NEW k \in Nodes, NEW t \in Tid, Leaves(k, t)
      PROVE  (thr'[n]["http"].pc = "mining") <=> (thr[n]["http"].pc = "mining")
  <2>1. PICK d \in Detached :
          \A m \in Nodes, u \in Tid :
            m # k \/ u # d => thr'[m][u] = Returned(k, t)[m][u]
    BY <1>5, LeavesIs
  <2>2. thr'[n]["http"] = Returned(k, t)[n]["http"]
    BY <1>1, <2>1
  <2> QED
    BY <1>1, <1>3, <1>5, <2>2 DEF Leaves
<1>6. ASSUME NEW k \in Nodes, NEW t \in Detached, ServeBroadcast(k, t)
      PROVE  thr'[n]["http"] = thr[n]["http"]
  <2>1. PICK m : m = peers[k][thr[k][t].peer]
    OBVIOUS
  <2>2. \A j \in Nodes, u \in Tid :
          (j # k \/ u # t) /\ (j # m \/ u # "ws") => thr'[j][u] = thr[j][u]
    BY <1>6, <2>1, ServeIs
  <2> QED
    BY <1>1, <2>2
<1> QED
  BY <1>2, <1>4, <1>5, <1>6 DEF ThreadsMove

\* POST /blocks begins the nonce search, or mines a block at once.
LEMMA PostBlocksChains ==
  ASSUME IInv, NEW n \in Nodes, PostBlocks(n)
  PROVE  ChainsMove
<1> DEFINE c == chain[n]
<1>1. /\ "http" \in Tid /\ thr[n]["http"].pc = "idle" /\ ChainFree(n)
      /\ thr[n]["http"] \in Thread
  BY ThreadFacts DEF PostBlocks, At, Tid, ChainFree
<1>2. /\ Now(n) \in Int /\ c \in Chain /\ Linked(c.blocks) /\ mined \in Seq(Block)
      /\ chain \in [Nodes -> Chain] /\ thr \in [Nodes -> [Tid -> Thread]]
  BY <1>1, ThreadFacts DEF IInv, TypeOK, ChainOK
<1>3. PICK b : b = MakeBlock(c, Now(n))
  OBVIOUS
<1>4. b \in Block /\ b.prev = TipOf(c) /\ b.ts = Now(n)
  BY <1>2, <1>3, MakeBlockTyped DEF TipOf
<1>5. TimeMaxDelta > 0
  <2>1. BlockValid(b, Now(n))
    BY <1>3 DEF PostBlocks
  <2> QED
    BY <1>2, <1>4, <2>1, BlockchainAssumption DEF BlockValid
<1>6. ASSUME NEW d, NEW new, chain' = [chain EXCEPT ![n] = d],
             thr' = [thr EXCEPT ![n]["http"] = new]
      PROVE  /\ chain'[n] = d /\ thr'[n]["http"] = new
             /\ \A m \in Nodes \ {n} : Kept(m)
  BY <1>1, <1>2, <1>6 DEF Kept, ChainFree
<1>7. CASE ProofOfWork
  <2>1. PICK z \in RequiredZeros(Adjust(c.da, b.ts).difficulty) :
          /\ chain' = [chain EXCEPT ![n] = [@ EXCEPT !.da = Adjust(c.da, b.ts)]]
          /\ thr' = [thr EXCEPT ![n]["http"] =
                       Running("mining", 0, [b EXCEPT !.zeros = z], None, 0, None)]
          /\ UNCHANGED mined
    BY <1>3, <1>7 DEF PostBlocks
  <2>2. PICK d : d = [c EXCEPT !.da = Adjust(c.da, b.ts)]
    OBVIOUS
  <2>3. PICK new : new = Running("mining", 0, [b EXCEPT !.zeros = z], None, 0, None)
    OBVIOUS
  <2>4. chain' = [chain EXCEPT ![n] = d] /\ thr' = [thr EXCEPT ![n]["http"] = new]
    BY <2>1, <2>2, <2>3
  <2>5. chain'[n] = d /\ \A m \in Nodes \ {n} : Kept(m)
    BY <1>6, <2>4
  <2>6. Begun(n)
    BY <1>1, <1>2, <1>4, <1>5, <1>7, <2>2, <2>5 DEF Begun
  <2> QED
    BY <2>1, <2>5, <2>6 DEF ChainsMove
<1>8. CASE ~ProofOfWork
  <2>1. PICK x : x = [b EXCEPT !.hash = Len(mined) + 1]
    OBVIOUS
  <2>2. PICK new : new = [thr[n]["http"] EXCEPT !.pc = "posted"]
    OBVIOUS
  <2>3. /\ mined' = Append(mined, x) /\ chain' = [chain EXCEPT ![n] = Extended(c, x)]
        /\ thr' = [thr EXCEPT ![n]["http"] = new]
    BY <1>3, <1>8, <2>1, <2>2 DEF PostBlocks, Completed, Goto
  <2>4. x \in Block /\ x.prev = b.prev /\ x.ts = b.ts
    <3>1. Len(mined) + 1 \in Nat
      BY <1>2
    <3> QED
      BY <1>4, <2>1, <3>1 DEF Block
  <2>5. new.pc = "posted"
    BY <1>1, <2>2, MovedTyped DEF PC
  <2>6. /\ chain'[n] = Extended(c, x) /\ thr'[n]["http"] = new
        /\ \A m \in Nodes \ {n} : Kept(m)
    BY <1>6, <2>3
  <2>7. Mined(n, x)
    BY <1>4, <1>5, <1>8, <2>3, <2>4, <2>5, <2>6 DEF Mined, ChainFree
  <2> QED
    BY <2>4, <2>6, <2>7 DEF ChainsMove
<1> QED
  BY <1>7, <1>8, BlockchainAssumption

\* The nonce search ends.
LEMMA MineBlockChains ==
  ASSUME IInv, NEW n \in Nodes, MineBlock(n)
  PROVE  ChainsMove
<1> DEFINE c == chain[n]
           th == thr[n]["http"]
<1>1. /\ "http" \in Tid /\ th.pc = "mining" /\ ~ChainFree(n)
      /\ thr' = [thr EXCEPT ![n]["http"] = Start("posted", 0)]
  BY DEF MineBlock, At, Tid, ChainFree
<1>2. /\ Now(n) \in Int /\ c \in Chain /\ mined \in Seq(Block) /\ ThreadOK(n, "http")
      /\ chain \in [Nodes -> Chain] /\ thr \in [Nodes -> [Tid -> Thread]]
      /\ th.blk \in Block
  BY <1>1, ThreadFacts DEF IInv, TypeOK
<1>3. PICK extra \in 0..ExtraZeros :
        Completed(n, [hash |-> Len(mined) + 1, prev |-> th.blk.prev,
                      index |-> th.blk.index, ts |-> Now(n),
                      zeros |-> th.blk.zeros + extra])
  BY DEF MineBlock
<1>4. PICK b : b = [hash |-> Len(mined) + 1, prev |-> th.blk.prev,
                    index |-> th.blk.index, ts |-> Now(n),
                    zeros |-> th.blk.zeros + extra]
  OBVIOUS
<1>5. mined' = Append(mined, b) /\ chain' = [chain EXCEPT ![n] = Extended(c, b)]
  BY <1>3, <1>4 DEF Completed
<1>6. b \in Block /\ b.prev = th.blk.prev /\ b.ts = Now(n)
  <2>1. th.blk.prev \in Nat /\ th.blk.index \in Nat /\ th.blk.zeros \in Nat
        /\ extra \in Nat
    BY <1>2, NodeAssumption DEF Block
  <2>2. th.blk.zeros + extra \in Nat /\ Len(mined) + 1 \in Nat
    BY <1>2, <2>1
  <2> QED
    BY <1>2, <1>4, <2>1, <2>2 DEF Block
<1>7. b.prev = TipOf(c)
  BY <1>1, <1>2, <1>6 DEF ThreadOK
<1>8. Start("posted", 0).pc = "posted"
  BY DEF Start, Running
<1>9. /\ chain'[n] = Extended(c, b) /\ thr'[n]["http"] = Start("posted", 0)
      /\ \A m \in Nodes \ {n} : Kept(m)
  BY <1>1, <1>2, <1>5 DEF Kept, ChainFree
<1>10. Mined(n, b)
  BY <1>1, <1>5, <1>6, <1>7, <1>8, <1>9 DEF Mined, ChainFree
<1> QED
  BY <1>6, <1>9, <1>10 DEF ChainsMove

\* A received block is appended, or a loaded chain replaces the chain.
LEMMA ReceiveChains ==
  ASSUME IInv, ThreadsMove, NEW n \in Nodes, NEW t \in Tid,
         RecvAppend(n, t) \/ (t \in Detached /\ Assign(n, t)),
         \A m \in Nodes : ~PostBlocks(m) /\ ~MineBlock(m)
  PROVE  ChainsMove
<1>1. \A m \in Nodes : ChainFree(m)' <=> ChainFree(m)
  BY MiningStays
<1>2. ChainFree(n) /\ mined' = mined
  BY DEF RecvAppend, Assign
<1>3. chain \in [Nodes -> Chain] /\ thr[n][t].blk \in Block
  BY ThreadFacts DEF IInv, TypeOK
<1>4. CASE RecvAppend(n, t)
  <2>1. chain' = [chain EXCEPT ![n] =
                    AppendNextBlock(chain[n], thr[n][t].blk, Now(n)).chain]
    BY <1>4 DEF RecvAppend
  <2>2. /\ chain'[n] = AppendNextBlock(chain[n], thr[n][t].blk, Now(n)).chain
        /\ \A m \in Nodes \ {n} : chain'[m] = chain[m]
    BY <1>3, <2>1
  <2>3. Received(n) /\ \A m \in Nodes \ {n} : Kept(m)
    BY <1>1, <1>2, <1>3, <2>2 DEF Received, Kept
  <2> QED
    BY <1>2, <2>3 DEF ChainsMove
<1>5. CASE t \in Detached /\ Assign(n, t)
  <2>1. chain' = [chain EXCEPT ![n] = thr[n][t].cand]
    BY <1>5 DEF Assign
  <2>2. /\ chain'[n] = thr[n][t].cand
        /\ \A m \in Nodes \ {n} : chain'[m] = chain[m]
    BY <1>3, <2>1
  <2>3. Replaced(n) /\ \A m \in Nodes \ {n} : Kept(m)
    BY <1>1, <1>2, <1>5, <2>2 DEF Replaced, Kept
  <2> QED
    BY <1>2, <2>3 DEF ChainsMove
<1> QED
  BY <1>4, <1>5

\* Every step of the network changes the chains in one of these ways.
LEMMA ChainForms == IInv /\ [Next]_vars => ChainsMove
<1> SUFFICES ASSUME IInv, [Next]_vars,
                    \A m \in Nodes : ~PostBlocks(m) /\ ~MineBlock(m)
             PROVE  ChainsMove
  BY PostBlocksChains, MineBlockChains
<1>1. ThreadsMove
  BY ThreadForms
<1>2. CASE UNCHANGED <<mined, chain>>
  BY <1>1, <1>2, MiningStays DEF ChainsMove, Kept
<1>3. ASSUME NEW n \in Nodes, UserRequest(n) PROVE ChainsMove
  BY <1>2, <1>3 DEF UserRequest, PostPeers
<1>4. ASSUME NEW n \in Nodes, NEW t \in Tid, ThreadStep(n, t) PROVE ChainsMove
  <2>1. CASE HttpStep(n)
    BY <1>2, <2>1 DEF HttpStep, DetachBroadcast
  <2>2. CASE AddStep(n, t)
    BY <1>2, <2>2 DEF AddStep, AddPeer, ConnectPeer, DetachRequest
  <2>3. CASE RecvStep(n, t)
    <3>1. CASE RecvAppend(n, t)
      BY <1>1, <3>1, ReceiveChains
    <3>2. CASE RecvValid(n, t) \/ RecvIndex(n, t) \/ RecvSuccessor(n, t)
      BY <1>2, <3>2 DEF RecvValid, RecvIndex, RecvSuccessor
    <3>3. CASE FindPeer(n, t)
      BY <1>2, <3>3 DEF FindPeer
    <3> QED
      BY <2>3, <3>1, <3>2, <3>3 DEF RecvStep
  <2>4. CASE SendStep(n, t)
    BY <1>2, <2>4 DEF SendStep, Broadcast, BroadcastSend, ServeBroadcast,
                      RequestSend, ServeLatest, ServeAll, GiveUp
  <2>5. CASE t \in Detached /\ LoadStep(n, t)
    <3>1. CASE Assign(n, t)
      BY <1>1, <2>5, <3>1, ReceiveChains
    <3>2. CASE LoadBlock(n, t) \/ LoadValid(n, t) \/ Compare(n, t)
      BY <1>2, <3>2 DEF LoadBlock, LoadValid, Compare
    <3> QED
      BY <2>5, <3>1, <3>2 DEF LoadStep
  <2> QED
    BY <1>4, <2>1, <2>2, <2>3, <2>4, <2>5 DEF ThreadStep
<1>5. CASE Tick \/ \E n \in Nodes : \E i \in DOMAIN peers[n] : BreakConnection(n, i)
  BY <1>2, <1>5 DEF Tick, BreakConnection
<1>6. CASE UNCHANGED vars
  BY <1>2, <1>6 DEF vars
<1> QED
  BY <1>3, <1>4, <1>5, <1>6 DEF Next

\* Every step changes the blockchains that are being loaded in one of the ways of
\* CandStep.
LEMMA CandForms ==
  ASSUME IInv, ThreadsMove, NEW n \in Nodes, NEW t \in Tid
  PROVE  CandStep(thr[n][t].cand, thr'[n][t].cand, Now(n))
<1>1. "ws" \in Tid /\ Detached \subseteq Tid
  BY DEF Tid
<1>2. CASE thr' = thr
  BY <1>2 DEF CandStep
<1>3. ASSUME NEW k \in Nodes, NEW u \in Tid, Alone(k, u)
      PROVE  CandStep(thr[n][t].cand, thr'[n][t].cand, Now(n))
  <2>1. PICK new \in Thread : MayBecome(k, u, new) /\ thr' = [thr EXCEPT ![k][u] = new]
    BY <1>3 DEF Alone
  <2>2. /\ thr'[k][u] = new
        /\ \A m \in Nodes, v \in Tid : m # k \/ v # u => thr'[m][v] = thr[m][v]
    BY <2>1 DEF IInv, TypeOK
  <2>3. CASE n = k /\ t = u
    BY <2>1, <2>2, <2>3 DEF MayBecome
  <2>4. CASE ~(n = k /\ t = u)
    BY <2>2, <2>4 DEF CandStep
  <2> QED
    BY <2>3, <2>4
<1>4. ASSUME NEW k \in Nodes, NEW u \in Tid, Returns(k, u)
      PROVE  CandStep(thr[n][t].cand, thr'[n][t].cand, Now(n))
  BY <1>4, ReturnedOutside DEF Returns, CandStep
<1>5. ASSUME NEW k \in Nodes, NEW u \in Tid, Leaves(k, u)
      PROVE  CandStep(thr[n][t].cand, thr'[n][t].cand, Now(n))
  <2>1. PICK d \in Detached :
          /\ thr'[k][d].cand = EmptyChain
          /\ \A m \in Nodes, v \in Tid :
               m # k \/ v # d => thr'[m][v] = Returned(k, u)[m][v]
    BY <1>5, LeavesIs
  <2>2. \/ Returned(k, u)[n][t] = thr[n][t]
        \/ Returned(k, u)[n][t].cand = EmptyChain
    BY <1>5, ReturnedOutside DEF Leaves
  <2>3. thr'[n][t].cand = EmptyChain \/ thr'[n][t].cand = thr[n][t].cand
    BY <2>1, <2>2
  <2> QED
    BY <2>3 DEF CandStep
<1>6. ASSUME NEW k \in Nodes, NEW u \in Detached, ServeBroadcast(k, u)
      PROVE  CandStep(thr[n][t].cand, thr'[n][t].cand, Now(n))
  <2>1. PICK m : m = peers[k][thr[k][u].peer]
    OBVIOUS
  <2>2. /\ thr'[k][u].cand = thr[k][u].cand
        /\ thr'[m]["ws"] = Running("recv", 0, thr[k][u].blk, k, 0, u)
        /\ \A j \in Nodes, v \in Tid :
             (j # k \/ v # u) /\ (j # m \/ v # "ws") => thr'[j][v] = thr[j][v]
    BY <1>6, <2>1, ServeIs
  <2>3. thr'[m]["ws"].cand = EmptyChain
    BY <2>2 DEF Running
  <2>4. thr'[n][t].cand = EmptyChain \/ thr'[n][t].cand = thr[n][t].cand
    BY <2>2, <2>3
  <2> QED
    BY <2>4 DEF CandStep
<1> QED
  BY <1>2, <1>3, <1>4, <1>5, <1>6 DEF ThreadsMove

-----------------------------------------------------------------------------
(* The difficulty adjuster keeps up with the chain.                         *)

\* The adjuster of a blockchain has counted its blocks.
Accounted(c) == c.da.counter >= Len(c.blocks)

\* What AdjusterCoversChain needs of the blockchains that are being loaded.
AdjustersOK ==
  ProofOfWork =>
    \A n \in Nodes :
      /\ chain[n].da.counter
           >= Len(chain[n].blocks) + (IF ChainFree(n) THEN 0 ELSE 1)
      /\ \A t \in Tid : Accounted(thr[n][t].cand)

\* append_next_block counts every block it appends.
LEMMA AppendAccounted ==
  ASSUME ProofOfWork, NEW c \in Chain, Accounted(c), NEW b \in Block, NEW now \in Int
  PROVE  Accounted(AppendNextBlock(c, b, now).chain)
<1> DEFINE r == AppendNextBlock(c, b, now)
           da == Adjust(c.da, b.ts)
<1>1. c.da \in Adjuster /\ b.ts \in Int /\ c.blocks \in Seq(Block)
  BY DEF Chain, Block
<1>2. da.counter = c.da.counter + 1 /\ c.da.counter \in Nat
  BY <1>1, AdjustTyped DEF Adjuster
<1>3. /\ r.chain.blocks = IF r.ok THEN Append(c.blocks, b) ELSE c.blocks
      /\ r.chain.da = IF MayFollow(c, b, now) THEN da ELSE c.da
      /\ r.ok => MayFollow(c, b, now)
  BY DEF AppendNextBlock
<1> HIDE DEF r, da
<1>4. r.chain.da.counter >= Len(r.chain.blocks)
  <2>1. CASE r.ok
    BY <1>1, <1>2, <1>3, <2>1 DEF Accounted
  <2>2. CASE ~r.ok
    BY <1>1, <1>2, <1>3, <2>2 DEF Accounted
  <2> QED
    BY <2>1, <2>2
<1> QED
  BY <1>4 DEF r, Accounted

\* A fresh Blockchain has nothing to account for.
LEMMA EmptyAccounted == Accounted(EmptyChain)
BY DEF Accounted, EmptyChain, InitAdjuster

\* The adjuster of a node keeps up with every change of its chain.
LEMMA AdjusterStep ==
  ASSUME ProofOfWork, IInv, AdjustersOK, ChainsMove, NEW n \in Nodes
  PROVE  chain'[n].da.counter
           >= Len(chain'[n].blocks) + (IF ChainFree(n)' THEN 0 ELSE 1)
<1> DEFINE c == chain[n]
<1>1. /\ c \in Chain /\ c.blocks \in Seq(Block) /\ c.da \in Adjuster
      /\ c.da.counter \in Nat /\ Len(c.blocks) \in Nat /\ Now(n) \in Int
  <2>1. "http" \in Tid
    BY DEF Tid
  <2>2. c \in Chain /\ Now(n) \in Int
    BY <2>1, ThreadFacts
  <2> QED
    BY <2>2 DEF Chain, Adjuster
<1>2. c.da.counter >= Len(c.blocks) + (IF ChainFree(n) THEN 0 ELSE 1)
  BY DEF AdjustersOK
<1>3. CASE Kept(n)
  BY <1>2, <1>3 DEF Kept
<1>4. CASE Begun(n)
  <2>1. PICK ts \in Int : chain'[n] = [c EXCEPT !.da = Adjust(c.da, ts)]
    BY <1>4 DEF Begun
  <2>2. /\ chain'[n].blocks = c.blocks
        /\ chain'[n].da = Adjust(c.da, ts)
    BY <1>1, <2>1 DEF Chain
  <2>3. chain'[n].da.counter = c.da.counter + 1
    BY <1>1, <2>2, AdjustTyped
  <2>4. c.da.counter >= Len(c.blocks)
    BY <1>1, <1>2, <1>4 DEF Begun
  <2>5. chain'[n].da.counter >= Len(chain'[n].blocks) + 1
    BY <1>1, <2>2, <2>3, <2>4
  <2>6. chain'[n].da.counter >= Len(chain'[n].blocks) + 0
    BY <1>1, <2>2, <2>3, <2>4
  <2> QED
    BY <2>5, <2>6
<1>5. CASE Received(n)
  <2>1. PICK b \in Block : chain'[n] = AppendNextBlock(c, b, Now(n)).chain
    BY <1>5 DEF Received
  <2>2. Accounted(c)
    BY <1>2, <1>5 DEF Accounted, Received
  <2>3. Accounted(chain'[n]) /\ chain'[n] \in Chain
    BY <1>1, <2>1, <2>2, AppendAccounted, AppendNextBlockOK DEF IInv, ChainOK
  <2>4. Len(chain'[n].blocks) \in Nat /\ ChainFree(n)'
    BY <1>5, <2>3 DEF Chain, Received
  <2> QED
    BY <2>3, <2>4 DEF Accounted
<1>6. CASE Replaced(n)
  <2>1. PICK t \in Detached : chain'[n] = thr[n][t].cand
    BY <1>6 DEF Replaced
  <2>2. t \in Tid
    BY DEF Tid
  <2>3. Accounted(chain'[n]) /\ chain'[n] \in Chain
    BY <2>1, <2>2, ThreadFacts DEF AdjustersOK
  <2>4. Len(chain'[n].blocks) \in Nat /\ ChainFree(n)'
    BY <1>6, <2>3 DEF Chain, Replaced
  <2> QED
    BY <2>3, <2>4 DEF Accounted
<1>7. ASSUME NEW b \in Block, Mined(n, b)
      PROVE  chain'[n].da.counter
               >= Len(chain'[n].blocks) + (IF ChainFree(n)' THEN 0 ELSE 1)
  <2>1. chain'[n] = Extended(c, b) /\ ~ChainFree(n) /\ ChainFree(n)'
    BY <1>7 DEF Mined
  <2>2. chain'[n].blocks = Append(c.blocks, b) /\ chain'[n].da = c.da
    BY <1>1, <2>1 DEF Extended, Chain
  <2> QED
    BY <1>1, <1>2, <2>1, <2>2
<1> QED
  BY <1>3, <1>4, <1>5, <1>6, <1>7 DEF ChainsMove

\* AdjusterCoversChain holds of the network: however appends, refusals,
\* replacements and the nonce search interleave, the difficulty adjuster of a
\* node has counted at least the blocks of its chain.
THEOREM AdjusterKeepsUp == Spec => []AdjusterCoversChain
<1>1. Init => AdjustersOK
  <2> SUFFICES ASSUME Init PROVE AdjustersOK
    OBVIOUS
  <2>1. \A n \in Nodes : chain[n] = EmptyChain
    BY DEF Init
  <2>2. \A n \in Nodes, t \in Tid : thr[n][t] = Idle
    BY DEF Init
  <2>3. Idle.cand = EmptyChain /\ Idle.pc = "idle"
    BY DEF Idle, Start, Running
  <2>4. EmptyChain.da.counter = 0 /\ Len(EmptyChain.blocks) = 0
    BY DEF EmptyChain, InitAdjuster
  <2>5. "http" \in Tid
    BY DEF Tid
  <2>6. ASSUME NEW n \in Nodes
        PROVE  /\ chain[n].da.counter = 0 /\ Len(chain[n].blocks) = 0 /\ ChainFree(n)
               /\ \A t \in Tid : Accounted(thr[n][t].cand)
    BY <2>1, <2>2, <2>3, <2>4, <2>5, EmptyAccounted DEF ChainFree
  <2>7. 0 >= 0 + 0
    OBVIOUS
  <2> QED
    BY <2>6, <2>7 DEF AdjustersOK
<1>2. IInv /\ AdjustersOK /\ [Next]_vars => AdjustersOK'
  <2> SUFFICES ASSUME IInv, AdjustersOK, [Next]_vars, ProofOfWork, NEW n \in Nodes
               PROVE  /\ chain'[n].da.counter
                           >= Len(chain'[n].blocks) + (IF ChainFree(n)' THEN 0 ELSE 1)
                      /\ \A t \in Tid : Accounted(thr'[n][t].cand)
    BY DEF AdjustersOK
  <2>1. ChainsMove /\ ThreadsMove
    BY ChainForms, ThreadForms
  <2>2. ASSUME NEW t \in Tid PROVE Accounted(thr'[n][t].cand)
    <3>1. /\ thr[n][t].cand \in Chain /\ Now(n) \in Int
          /\ Accounted(thr[n][t].cand)
      BY ThreadFacts DEF AdjustersOK
    <3>2. CandStep(thr[n][t].cand, thr'[n][t].cand, Now(n))
      BY <2>1, CandForms
    <3> QED
      BY <3>1, <3>2, AppendAccounted, EmptyAccounted DEF CandStep
  <2> QED
    BY <2>1, <2>2, AdjusterStep
<1>3. AdjustersOK => AdjusterCoversChain
  BY DEF AdjustersOK, AdjusterCoversChain
<1> QED
  BY <1>1, <1>2, <1>3, Invariance, PTL DEF Spec

-----------------------------------------------------------------------------
(* Chains are valid by the clock of their node.                             *)

\* No block of bs lies too far in the future.
InTime(bs, now) == \A i \in DOMAIN bs : BlockValid(bs[i], now)

\* Chains, also those being loaded, are in time, and mining has found the new
\* block valid before it began to search a nonce.
TimelyNode(n) ==
  /\ InTime(chain[n].blocks, Now(n))
  /\ \A t \in Tid : InTime(thr[n][t].cand.blocks, Now(n))
  /\ ~ChainFree(n) => TimeMaxDelta > 0

\* A block does not precede its predecessor by more than the admissible time.
TimelyBlock(h) ==
  \/ mined[h].prev = NoHash
  \/ /\ mined[h].prev \in DOMAIN mined
     /\ mined[h].ts > mined[mined[h].prev].ts - TimeMaxDelta

Timely == (\A n \in Nodes : TimelyNode(n)) /\ (\A h \in DOMAIN mined : TimelyBlock(h))

\* A block that is in time stays so.
LEMMA BlockStaysValid ==
  ASSUME NEW b \in Block, NEW now \in Int, NEW later \in Int, now <= later,
         BlockValid(b, now)
  PROVE  BlockValid(b, later)
<1>1. b.ts \in Int /\ TimeMaxDelta \in Int
  BY BlockchainAssumption DEF Block
<1> QED
  BY <1>1 DEF BlockValid

\* And so do the blocks of a chain.
LEMMA StaysInTime ==
  ASSUME NEW bs \in Seq(Block), NEW now \in Int, NEW later \in Int, now <= later,
         InTime(bs, now)
  PROVE  InTime(bs, later)
<1>1. \A i \in DOMAIN bs : bs[i] \in Block
  OBVIOUS
<1> QED
  BY <1>1, BlockStaysValid DEF InTime

\* Appending a block that is in time to a chain that is.
LEMMA InTimeAppend ==
  ASSUME NEW bs \in Seq(Block), NEW b \in Block, NEW now, InTime(bs, now),
         BlockValid(b, now)
  PROVE  InTime(Append(bs, b), now)
<1> DEFINE cs == Append(bs, b)
<1>1. DOMAIN cs = DOMAIN bs \union {Len(bs) + 1} /\ cs[Len(bs) + 1] = b
      /\ \A i \in DOMAIN bs : cs[i] = bs[i]
  OBVIOUS
<1> HIDE DEF cs
<1>2. InTime(cs, now)
  BY <1>1 DEF InTime
<1> QED
  BY <1>2 DEF cs

\* append_next_block appends only blocks that are in time.
LEMMA AppendInTime ==
  ASSUME NEW c \in Chain, NEW b \in Block, NEW now \in Int, InTime(c.blocks, now)
  PROVE  InTime(AppendNextBlock(c, b, now).chain.blocks, now)
<1> DEFINE r == AppendNextBlock(c, b, now)
<1>1. /\ r.chain.blocks = IF r.ok THEN Append(c.blocks, b) ELSE c.blocks
      /\ r.ok => MayFollow(c, b, now)
  BY DEF AppendNextBlock
<1>2. r.ok => BlockValid(b, now)
  BY <1>1 DEF MayFollow, ValidGenesisBlock, ValidNextBlock
<1>3. c.blocks \in Seq(Block)
  BY DEF Chain
<1> HIDE DEF r
<1>4. InTime(r.chain.blocks, now)
  BY <1>1, <1>2, <1>3, InTimeAppend
<1> QED
  BY <1>4 DEF r

\* A fresh Blockchain has no blocks that could be out of time.
LEMMA EmptyInTime == ASSUME NEW now PROVE InTime(EmptyChain.blocks, now)
BY DEF InTime, EmptyChain

\* The clock of a node does not go backwards.
LEMMA ClockStep ==
  ASSUME IInv, [Next]_vars, NEW n \in Nodes
  PROVE  Now(n) \in Int /\ Now(n)' \in Int /\ Now(n) <= Now(n)'
<1>1. clk' = clk \/ clk' = clk + 1
  <2>1. ASSUME NEW k \in Nodes, UserRequest(k) PROVE clk' = clk
    BY <2>1 DEF UserRequest, PostBlocks, PostPeers
  <2>2. ASSUME NEW k \in Nodes, NEW t \in Tid, ThreadStep(k, t) PROVE clk' = clk
    <3>1. HttpStep(k) => clk' = clk
      BY DEF HttpStep, MineBlock, DetachBroadcast
    <3>2. AddStep(k, t) => clk' = clk
      BY DEF AddStep, AddPeer, ConnectPeer, DetachRequest
    <3>3. RecvStep(k, t) => clk' = clk
      BY DEF RecvStep, RecvValid, RecvIndex, RecvSuccessor, RecvAppend, FindPeer
    <3>4. SendStep(k, t) => clk' = clk
      BY DEF SendStep, Broadcast, BroadcastSend, ServeBroadcast, RequestSend,
             ServeLatest, ServeAll, GiveUp
    <3>5. LoadStep(k, t) => clk' = clk
      BY DEF LoadStep, LoadBlock, LoadValid, Compare, Assign
    <3> QED
      BY <2>2, <3>1, <3>2, <3>3, <3>4, <3>5 DEF ThreadStep
  <2>3. ASSUME NEW k \in Nodes, NEW i, BreakConnection(k, i) PROVE clk' = clk
    BY <2>3 DEF BreakConnection
  <2>4. Tick => clk' = clk + 1
    BY DEF Tick
  <2>5. UNCHANGED vars => clk' = clk
    BY DEF vars
  <2> QED
    BY <2>1, <2>2, <2>3, <2>4, <2>5 DEF Next
<1>2. clk \in Nat /\ Skew[n] \in Int
  BY NodeAssumption DEF IInv, TypeOK
<1> QED
  BY <1>1, <1>2 DEF Now

\* The blocks of a node stay in time, whatever becomes of its chain.
LEMMA TimelyChainStep ==
  ASSUME IInv, Timely, ChainsMove, NEW n \in Nodes,
         Now(n) \in Int, Now(n)' \in Int, Now(n) <= Now(n)'
  PROVE  InTime(chain'[n].blocks, Now(n)') /\ (~ChainFree(n)' => TimeMaxDelta > 0)
<1> DEFINE c == chain[n]
<1>1. /\ c \in Chain /\ c.blocks \in Seq(Block)
      /\ TimelyNode(n) /\ InTime(c.blocks, Now(n)) /\ TimeMaxDelta \in Int
  BY BlockchainAssumption DEF IInv, TypeOK, Chain, Timely, TimelyNode
<1>2. InTime(c.blocks, Now(n)')
  BY <1>1, StaysInTime
<1>3. CASE Kept(n)
  BY <1>1, <1>2, <1>3 DEF Kept, TimelyNode
<1>4. CASE Begun(n)
  <2>1. PICK ts \in Int : chain'[n] = [c EXCEPT !.da = Adjust(c.da, ts)]
    BY <1>4 DEF Begun
  <2>2. chain'[n].blocks = c.blocks
    BY <1>1, <2>1 DEF Chain
  <2> QED
    BY <1>2, <1>4, <2>2 DEF Begun
<1>5. CASE Received(n)
  <2>1. PICK b \in Block : chain'[n] = AppendNextBlock(c, b, Now(n)).chain
    BY <1>5 DEF Received
  <2>2. chain'[n] \in Chain
    BY <1>1, <2>1, AppendNextBlockOK DEF IInv, ChainOK
  <2>3. InTime(chain'[n].blocks, Now(n)) /\ chain'[n].blocks \in Seq(Block)
    BY <1>1, <2>1, <2>2, AppendInTime DEF Chain
  <2> QED
    BY <1>5, <2>3, StaysInTime DEF Received
<1>6. CASE Replaced(n)
  <2>1. PICK t \in Detached : chain'[n] = thr[n][t].cand
    BY <1>6 DEF Replaced
  <2>2. t \in Tid
    BY DEF Tid
  <2>3. chain'[n] \in Chain /\ InTime(chain'[n].blocks, Now(n))
    BY <1>1, <2>1, <2>2, ThreadFacts DEF TimelyNode
  <2>4. chain'[n].blocks \in Seq(Block)
    BY <2>3 DEF Chain
  <2> QED
    BY <1>6, <2>3, <2>4, StaysInTime DEF Replaced
<1>7. ASSUME NEW b \in Block, Mined(n, b)
      PROVE  InTime(chain'[n].blocks, Now(n)') /\ (~ChainFree(n)' => TimeMaxDelta > 0)
  <2>1. chain'[n] = Extended(c, b) /\ b.ts = Now(n) /\ ChainFree(n)' /\ TimeMaxDelta > 0
    BY <1>1, <1>7 DEF Mined, TimelyNode
  <2>2. chain'[n].blocks = Append(c.blocks, b)
    BY <1>1, <2>1 DEF Extended, Chain
  <2>3. BlockValid(b, Now(n)')
    BY <1>1, <2>1 DEF BlockValid
  <2> QED
    BY <1>1, <1>2, <2>1, <2>2, <2>3, InTimeAppend
<1> QED
  BY <1>3, <1>4, <1>5, <1>6, <1>7 DEF ChainsMove

\* A new block does not precede the latest block of its miner by too much.
LEMMA TimelyBlockStep ==
  ASSUME IInv, Timely, ChainsMove, \A n \in Nodes : Now(n) \in Int
  PROVE  \A h \in DOMAIN mined' : TimelyBlock(h)'
<1>1. CASE mined' = mined
  BY <1>1 DEF Timely, TimelyBlock
<1>2. ASSUME NEW n \in Nodes, NEW b \in Block, Mined(n, b)
      PROVE  \A h \in DOMAIN mined' : TimelyBlock(h)'
  <2> DEFINE c == chain[n]
  <2>1. /\ mined' = Append(mined, b) /\ b.prev = TipOf(c) /\ b.ts = Now(n)
        /\ mined \in Seq(Block) /\ c \in Chain /\ AllKnown(c.blocks)
        /\ InTime(c.blocks, Now(n))
    BY <1>2 DEF Mined, IInv, TypeOK, ChainOK, Timely, TimelyNode
  <2>2. PICK k : /\ DOMAIN mined' = DOMAIN mined \union {k} /\ mined'[k] = b
                 /\ \A h \in DOMAIN mined : mined'[h] = mined[h]
    <3>1. PICK k : k = Len(mined) + 1
      OBVIOUS
    <3> QED
      BY <2>1, <3>1
  <2>3. ASSUME NEW h \in DOMAIN mined PROVE TimelyBlock(h)'
    <3>1. TimelyBlock(h)
      BY DEF Timely
    <3> QED
      BY <2>2, <3>1 DEF TimelyBlock
  <2>4. \/ b.prev = NoHash
        \/ b.prev \in DOMAIN mined /\ b.ts > mined[b.prev].ts - TimeMaxDelta
    <3>1. CASE c.blocks = <<>>
      BY <2>1, <3>1 DEF TipOf
    <3>2. CASE c.blocks # <<>>
      <4>1. /\ b.prev = Latest(c).hash /\ Latest(c) \in Block
            /\ Len(c.blocks) \in DOMAIN c.blocks
            /\ Latest(c) = c.blocks[Len(c.blocks)]
        BY <2>1, <3>2, LatestTyped DEF TipOf
      <4>2. b.prev \in DOMAIN mined /\ mined[b.prev] = Latest(c)
        BY <2>1, <4>1 DEF AllKnown, Known
      <4>3. Latest(c).ts - TimeMaxDelta < Now(n)
        BY <2>1, <4>1 DEF InTime, BlockValid
      <4>4. Latest(c).ts \in Int /\ TimeMaxDelta \in Int /\ Now(n) \in Int
        BY <4>1, BlockchainAssumption DEF Block
      <4>5. b.ts > Latest(c).ts - TimeMaxDelta
        BY <2>1, <4>3, <4>4
      <4> QED
        BY <4>2, <4>5
    <3> QED
      BY <3>1, <3>2
  <2>5. TimelyBlock(k)'
    <3>1. b.prev \in DOMAIN mined => mined'[b.prev] = mined[b.prev]
      BY <2>2
    <3> QED
      BY <2>2, <2>4, <3>1 DEF TimelyBlock
  <2> QED
    BY <2>2, <2>3, <2>5
<1> QED
  BY <1>1, <1>2 DEF ChainsMove

\* Blockchain::valid follows for the chain of a node.
LEMMA TimelyValid ==
  ASSUME IInv, Timely, NEW n \in Nodes, chain[n].blocks # <<>>
  PROVE  ValidChain(chain[n].blocks, Now(n))
<1> DEFINE bs == chain[n].blocks
<1>1. /\ bs \in Seq(Block) /\ Linked(bs) /\ AllKnown(bs) /\ InTime(bs, Now(n))
      /\ mined \in Seq(Block)
  BY DEF IInv, TypeOK, Chain, ChainOK, Timely, TimelyNode
<1> HIDE DEF bs
<1>2. bs # <<>>
  BY DEF bs
<1>3. 1 \in DOMAIN bs /\ DOMAIN bs = 1..Len(bs)
  BY <1>1, <1>2
<1>4. IsGenesis(bs[1])
  BY <1>1, <1>3 DEF Linked, IsGenesis
<1>5. ASSUME NEW i \in 2..Len(bs) PROVE IsSuccessorOf(bs[i], bs[i - 1])
  <2>1. i \in DOMAIN bs /\ i - 1 \in DOMAIN bs /\ i # 1 /\ i \in Int
    BY <1>1, <1>3
  <2>2. /\ bs[i].index = i - 1 /\ bs[i].prev = bs[i - 1].hash
        /\ bs[i - 1].index = (i - 1) - 1
    BY <1>1, <2>1 DEF Linked
  <2>3. /\ bs[i].hash \in DOMAIN mined /\ mined[bs[i].hash] = bs[i]
        /\ bs[i - 1].hash \in DOMAIN mined /\ mined[bs[i - 1].hash] = bs[i - 1]
    BY <1>1, <2>1 DEF AllKnown, Known
  <2>4. bs[i].prev # NoHash
    BY <1>1, <2>2, <2>3 DEF NoHash
  <2>5. TimelyBlock(bs[i].hash)
    BY <2>3 DEF Timely
  <2>6. bs[i].ts > bs[i - 1].ts - TimeMaxDelta
    BY <2>2, <2>3, <2>4, <2>5 DEF TimelyBlock
  <2>7. bs[i].index = bs[i - 1].index + 1
    BY <2>1, <2>2
  <2> QED
    BY <2>2, <2>4, <2>6, <2>7 DEF IsSuccessorOf
<1> QED
  BY <1>1, <1>2, <1>4, <1>5 DEF ValidChain, InTime, bs

\* ChainsValid holds of the network: Blockchain::valid holds of the chain of a
\* node by the clock of that node at any time, although it is checked only when
\* a chain is loaded and the clocks of the nodes differ.
THEOREM ChainsStayValid == Spec => []ChainsValid
<1>1. Init => Timely
  <2> SUFFICES ASSUME Init PROVE Timely
    OBVIOUS
  <2>1. ASSUME NEW n \in Nodes PROVE TimelyNode(n)
    <3>1. chain[n] = EmptyChain /\ "http" \in Tid /\ \A t \in Tid : thr[n][t] = Idle
      BY DEF Init, Tid
    <3>2. Idle.cand = EmptyChain /\ Idle.pc = "idle"
      BY DEF Idle, Start, Running
    <3> QED
      BY <3>1, <3>2, EmptyInTime DEF TimelyNode, ChainFree
  <2>2. DOMAIN mined = {}
    BY DEF Init
  <2> QED
    BY <2>1, <2>2 DEF Timely
<1>2. IInv /\ Timely /\ [Next]_vars => Timely'
  <2> SUFFICES ASSUME IInv, Timely, [Next]_vars PROVE Timely'
    OBVIOUS
  <2>1. ChainsMove /\ ThreadsMove
    BY ChainForms, ThreadForms
  <2>2. \A n \in Nodes : Now(n) \in Int /\ Now(n)' \in Int /\ Now(n) <= Now(n)'
    BY ClockStep
  <2>3. \A h \in DOMAIN mined' : TimelyBlock(h)'
    BY <2>1, <2>2, TimelyBlockStep
  <2>4. ASSUME NEW n \in Nodes, NEW t \in Tid
        PROVE  InTime(thr'[n][t].cand.blocks, Now(n)')
    <3> DEFINE c == thr[n][t].cand
               d == thr'[n][t].cand
    <3>1. c \in Chain /\ InTime(c.blocks, Now(n)) /\ Linked(c.blocks)
      BY ThreadFacts DEF Timely, TimelyNode, ThreadOK
    <3>2. CandStep(c, d, Now(n))
      BY <2>1, CandForms
    <3>3. d \in Chain /\ InTime(d.blocks, Now(n))
      BY <2>2, <3>1, <3>2, EmptyInTime, EmptyChainOK, AppendInTime, AppendNextBlockOK
      DEF CandStep
    <3>4. d.blocks \in Seq(Block)
      BY <3>3 DEF Chain
    <3> QED
      BY <2>2, <3>3, <3>4, StaysInTime
  <2>5. ASSUME NEW n \in Nodes PROVE TimelyNode(n)'
    <3>1. InTime(chain'[n].blocks, Now(n)') /\ (~ChainFree(n)' => TimeMaxDelta > 0)
      BY <2>1, <2>2, TimelyChainStep
    <3> QED
      BY <2>4, <3>1 DEF TimelyNode
  <2> QED
    BY <2>3, <2>5 DEF Timely
<1>3. IInv /\ Timely => ChainsValid
  BY TimelyValid DEF ChainsValid
<1> QED
  BY <1>1, <1>2, <1>3, Invariance, PTL DEF Spec

=============================================================================
