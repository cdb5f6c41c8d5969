----------------------- MODULE NodeRefinementProofs -----------------------
(***************************************************************************)
(* Without proof of work, a network of nodes implements PeerNetwork: who   *)
(* waits for whom depends on the chains only through their lengths.        *)
(***************************************************************************)
EXTENDS NodeSafetyProofs, FiniteSetTheorems

\* The state of PeerNetwork that a state of Node stands for.
AThr == [n \in Nodes |-> [t \in Tid |-> Abstracted(thr[n][t])]]

ALen == [n \in Nodes |-> Len(chain[n].blocks)]

ALife == [n \in Nodes |-> "up"]

-----------------------------------------------------------------------------
(* What the abstraction does to threads.                                    *)

\* Abstracted pc of a pc
Seen(pc) == CASE pc \in {"eq", "succ", "append"} -> "recv"
              [] pc = "cmp" -> "load"
              [] OTHER -> pc

\* What is kept of a thread.
LEMMA AbstractedIs ==
  ASSUME NEW th
  PROVE  Abstracted(th) =
           [pc |-> Seen(th.pc), peer |-> th.peer, idx |-> th.blk.index,
            from |-> th.from, id |-> th.id, caller |-> th.caller,
            load |-> Len(th.todo) + Len(th.cand.blocks)]
BY DEF Abstracted, Seen

\* The fields of an abstract thread, ...
LEMMA AbstractFields ==
  ASSUME NEW th
  PROVE  /\ Abstracted(th).pc = Seen(th.pc) /\ Abstracted(th).peer = th.peer
         /\ Abstracted(th).idx = th.blk.index /\ Abstracted(th).from = th.from
         /\ Abstracted(th).id = th.id /\ Abstracted(th).caller = th.caller
         /\ Abstracted(th).load = Len(th.todo) + Len(th.cand.blocks)
<1>1. PICK a : a = [pc |-> Seen(th.pc), peer |-> th.peer, idx |-> th.blk.index,
                    from |-> th.from, id |-> th.id, caller |-> th.caller,
                    load |-> Len(th.todo) + Len(th.cand.blocks)]
  OBVIOUS
<1>2. Abstracted(th) = a
  BY <1>1, AbstractedIs
<1> QED
  BY <1>1, <1>2

\* ... and what moving its program counter leaves of them.
LEMMA RecordMove ==
  ASSUME NEW th, NEW q
  PROVE  [Abstracted(th) EXCEPT !.pc = q] =
           [pc |-> q, peer |-> th.peer, idx |-> th.blk.index,
            from |-> th.from, id |-> th.id, caller |-> th.caller,
            load |-> Len(th.todo) + Len(th.cand.blocks)]
<1>1. PICK load : load = Len(th.todo) + Len(th.cand.blocks)
  OBVIOUS
<1>2. PICK p : p = Seen(th.pc)
  OBVIOUS
<1>3. Abstracted(th) = [pc |-> p, peer |-> th.peer, idx |-> th.blk.index,
                        from |-> th.from, id |-> th.id, caller |-> th.caller,
                        load |-> load]
  BY <1>1, <1>2, AbstractedIs
<1>4. [Abstracted(th) EXCEPT !.pc = q] =
        [pc |-> q, peer |-> th.peer, idx |-> th.blk.index,
         from |-> th.from, id |-> th.id, caller |-> th.caller, load |-> load]
  BY <1>3
<1> QED
  BY <1>1, <1>4

\* The thread of a node, in the abstract state.
LEMMA AThrIs ==
  ASSUME NEW n \in Nodes, NEW t \in Tid
  PROVE  AThr[n][t] = Abstracted(thr[n][t])
BY DEF AThr


\* The abstract threads.
AThread == {Abstracted(th) : th \in Thread}

\* Tables of threads are equal if their entries are.
LEMMA SameTable ==
  ASSUME NEW f \in [Nodes -> [Tid -> AThread]], NEW g \in [Nodes -> [Tid -> AThread]],
         \A n \in Nodes, t \in Tid : f[n][t] = g[n][t]
  PROVE  f = g
<1>1. ASSUME NEW n \in Nodes PROVE f[n] = g[n]
  <2>1. f[n] \in [Tid -> AThread] /\ g[n] \in [Tid -> AThread]
    OBVIOUS
  <2> QED
    BY <2>1
<1> QED
  BY <1>1

\* The abstract state is a table of threads, before and after a step.
LEMMA AThrTyped ==
  ASSUME TypeOK
  PROVE  /\ AThr \in [Nodes -> [Tid -> AThread]]
         /\ \A n \in Nodes, t \in Tid : AThr[n][t] = Abstracted(thr[n][t])
<1>1. \A n \in Nodes, t \in Tid : Abstracted(thr[n][t]) \in AThread
  BY DEF TypeOK, AThread
<1> QED
  BY <1>1 DEF AThr

\* A change of one thread is a change of one abstract thread.
LEMMA AbstractMove ==
  ASSUME TypeOK, TypeOK', NEW n \in Nodes, NEW t \in Tid, NEW new,
         thr' = [thr EXCEPT ![n][t] = new]
  PROVE  AThr' = [AThr EXCEPT ![n][t] = Abstracted(new)]
<1>1. /\ thr'[n][t] = new
      /\ \A m \in Nodes, u \in Tid : m # n \/ u # t => thr'[m][u] = thr[m][u]
  BY DEF TypeOK
<1>2. /\ AThr \in [Nodes -> [Tid -> AThread]]
      /\ \A m \in Nodes, u \in Tid : AThr[m][u] = Abstracted(thr[m][u])
  BY AThrTyped
<1>3. /\ AThr' \in [Nodes -> [Tid -> AThread]]
      /\ \A m \in Nodes, u \in Tid : AThr'[m][u] = Abstracted(thr'[m][u])
  <2>1. \A m \in Nodes, u \in Tid : Abstracted(thr'[m][u]) \in AThread
    BY DEF TypeOK, AThread
  <2>2. AThr' = [m \in Nodes |-> [u \in Tid |-> Abstracted(thr'[m][u])]]
    BY DEF AThr, Abstracted
  <2> QED
    BY <2>1, <2>2
<1>4. PICK f \in [Nodes -> [Tid -> AThread]] :
        f = AThr /\ \A m \in Nodes, u \in Tid : f[m][u] = Abstracted(thr[m][u])
  BY <1>2
<1>5. PICK g \in [Nodes -> [Tid -> AThread]] :
        g = AThr' /\ \A m \in Nodes, u \in Tid : g[m][u] = Abstracted(thr'[m][u])
  BY <1>3
<1>6. PICK x \in AThread : x = Abstracted(new)
  BY <1>1, <1>3, <1>5
<1>7. PICK h : h = [f EXCEPT ![n][t] = x]
  OBVIOUS
<1>8. /\ h \in [Nodes -> [Tid -> AThread]] /\ h[n][t] = x
      /\ \A m \in Nodes, u \in Tid : m # n \/ u # t => h[m][u] = f[m][u]
  BY <1>7
<1>9. \A m \in Nodes, u \in Tid : g[m][u] = h[m][u]
  BY <1>1, <1>4, <1>5, <1>6, <1>8
<1>10. g = h
  BY <1>8, <1>9, SameTable
<1> QED
  BY <1>4, <1>5, <1>6, <1>7, <1>10


-----------------------------------------------------------------------------
(* The operators of PeerNetwork, in terms of Node.                          *)

\* The abstract program counter of a thread.
LEMMA NetAt ==
  ASSUME NEW n \in Nodes, NEW t \in Tid, NEW pc
  PROVE  Net!At(n, t, pc) <=> Seen(thr[n][t].pc) = pc
<1>1. AThr[n][t] = Abstracted(thr[n][t])
  BY AThrIs
<1>2. Net!At(n, t, pc) <=> AThr[n][t].pc = pc
  BY DEF Net!At, AThr
<1>3. Abstracted(thr[n][t]).pc = Seen(thr[n][t].pc)
  BY AbstractFields
<1> QED
  BY <1>1, <1>2, <1>3

\* Whether the list of peers, a peer and a websocket server are free is the same
\* in both.
LEMMA NetFree ==
  ASSUME NEW n \in Nodes
  PROVE  /\ PeersFree(n) => Net!PeersFree(n)
         /\ \A i : PeerFree(n, i) => Net!PeerFree(n, i)
         /\ Listening(n) => Net!Listening(n)
<1>1. \A t \in Tid : Net!At(n, t, "connect") => thr[n][t].pc = "connect"
  BY NetAt DEF Seen
<1>2. PeersFree(n) => Net!PeersFree(n)
  BY <1>1 DEF PeersFree, Net!PeersFree, Net!Tid, Tid
<1>3. ASSUME NEW i, PeerFree(n, i) PROVE Net!PeerFree(n, i)
  <2>1. ASSUME NEW t \in Detached
        PROVE  AThr[n][t].peer = i => AThr[n][t].pc \in Net!OutsideSend
    <3>1. t \in Tid
      BY DEF Tid
    <3>2. AThr[n][t].peer = thr[n][t].peer /\ AThr[n][t].pc = Seen(thr[n][t].pc)
      <4>1. AThr[n][t] = Abstracted(thr[n][t])
        BY <3>1, AThrIs
      <4> QED
        BY <4>1, AbstractFields
    <3>3. thr[n][t].peer = i => thr[n][t].pc \in OutsideSend
      BY <1>3 DEF PeerFree
    <3> QED
      BY <3>2, <3>3 DEF OutsideSend, Net!OutsideSend, Seen
  <2> QED
    BY <2>1 DEF Net!PeerFree, AThr
<1>4. ASSUME Listening(n) PROVE Net!Listening(n)
  <2>1. "ws" \in Tid /\ thr[n]["ws"].pc = "idle"
    BY <1>4 DEF Listening, At, Tid
  <2>2. Net!At(n, "ws", "idle")
    BY <2>1, NetAt DEF Seen
  <2> QED
    BY <2>2 DEF Net!Listening
<1> QED
  BY <1>2, <1>3, <1>4

\* A thread that is not loading a blockchain.
LEMMA NetRunning ==
  ASSUME NEW pc, NEW peer, NEW blk, NEW from, NEW id, NEW caller
  PROVE  Abstracted(Running(pc, peer, blk, from, id, caller))
           = Net!Running(Seen(pc), peer, blk.index, from, id, caller)
<1> DEFINE th == Running(pc, peer, blk, from, id, caller)
<1>1. /\ th.pc = pc /\ th.peer = peer /\ th.blk = blk /\ th.from = from /\ th.id = id
      /\ th.caller = caller /\ th.todo = <<>> /\ th.cand.blocks = <<>>
  BY DEF Running, EmptyChain
<1>2. Len(th.todo) + Len(th.cand.blocks) = 0
  BY <1>1
<1> HIDE DEF th
<1>3. Abstracted(th) = Net!Running(Seen(pc), peer, blk.index, from, id, caller)
  BY <1>1, <1>2, AbstractedIs DEF Net!Running
<1> QED
  BY <1>3 DEF th

\* The forms of such threads.
LEMMA NetForms ==
  /\ Abstracted(Idle) = Net!Idle
  /\ \A pc \in {"bcast", "rlsend", "rasend"} : \A i :
       Abstracted(Start(pc, i)) = Net!Start(pc, i)
  /\ \A i, b : Abstracted(Sending(i, b)) = Net!Sending(i, b.index)
  /\ \A th, i : Abstracted(WithPeerId(th, i)) = Net!WithPeerId(Abstracted(th), i)
<1>1. /\ Seen("idle") = "idle" /\ Seen("bsend") = "bsend" /\ Seen("added") = "added"
      /\ \A pc \in {"bcast", "rlsend", "rasend"} : Seen(pc) = pc
  BY DEF Seen
<1>2. NoBlock.index = 0
  BY DEF NoBlock
<1>3. Abstracted(Idle) = Net!Idle
  BY <1>1, <1>2, NetRunning DEF Idle, Start, Net!Idle, Net!Start
<1>4. ASSUME NEW pc \in {"bcast", "rlsend", "rasend"}, NEW i
      PROVE  Abstracted(Start(pc, i)) = Net!Start(pc, i)
  BY <1>1, <1>2, NetRunning DEF Start, Net!Start
<1>5. ASSUME NEW i, NEW b PROVE Abstracted(Sending(i, b)) = Net!Sending(i, b.index)
  BY <1>1, NetRunning DEF Sending, Net!Sending
<1>6. ASSUME NEW th, NEW i
      PROVE  Abstracted(WithPeerId(th, i)) = Net!WithPeerId(Abstracted(th), i)
  <2>1. PICK a : a = Abstracted(th)
    OBVIOUS
  <2>2. /\ a.peer = th.peer /\ a.idx = th.blk.index /\ a.from = th.from
        /\ a.caller = th.caller
    BY <2>1, AbstractFields
  <2>3. Abstracted(WithPeerId(th, i))
          = Net!Running("added", th.peer, th.blk.index, th.from, i, th.caller)
    BY <1>1, NetRunning DEF WithPeerId
  <2> QED
    BY <2>1, <2>2, <2>3 DEF Net!WithPeerId
<1> QED
  BY <1>3, <1>4, <1>5, <1>6

\* A thread that moves its program counter.
LEMMA NetMoved ==
  ASSUME NEW th \in Thread, NEW pc \in PC
  PROVE  /\ Abstracted([th EXCEPT !.pc = pc]) = [Abstracted(th) EXCEPT !.pc = Seen(pc)]
         /\ [th EXCEPT !.pc = pc].pc = pc
<1>1. PICK new : new = [th EXCEPT !.pc = pc]
  OBVIOUS
<1>2. /\ new.pc = pc /\ new.peer = th.peer /\ new.blk = th.blk /\ new.from = th.from
      /\ new.id = th.id /\ new.caller = th.caller
      /\ new.todo = th.todo /\ new.cand = th.cand
  BY <1>1, MovedTyped
<1>3. Abstracted(new) =
        [pc |-> Seen(pc), peer |-> th.peer, idx |-> th.blk.index,
         from |-> th.from, id |-> th.id, caller |-> th.caller,
         load |-> Len(th.todo) + Len(th.cand.blocks)]
  BY <1>2, AbstractedIs
<1>4. PICK q : q = Seen(pc)
  OBVIOUS
<1>5. [Abstracted(th) EXCEPT !.pc = q] =
        [pc |-> q, peer |-> th.peer, idx |-> th.blk.index,
         from |-> th.from, id |-> th.id, caller |-> th.caller,
         load |-> Len(th.todo) + Len(th.cand.blocks)]
  BY RecordMove
<1>6. [Abstracted(th) EXCEPT !.pc = q] = Abstracted(new)
  BY <1>3, <1>4, <1>5
<1> QED
  BY <1>1, <1>2, <1>4, <1>6

\* And its effect on the network.
LEMMA NetGoto ==
  ASSUME IInv, IInv', NEW n \in Nodes, NEW t \in Tid, NEW pc \in PC, Goto(n, t, pc)
  PROVE  /\ Net!Goto(n, t, Seen(pc))
         /\ Seen(pc) = Seen(thr[n][t].pc) => AThr' = AThr
<1>1. thr[n][t] \in Thread
  BY ThreadFacts
<1>2. PICK new : new = [thr[n][t] EXCEPT !.pc = pc]
  OBVIOUS
<1>3. thr' = [thr EXCEPT ![n][t] = new]
  BY <1>2 DEF Goto
<1>4. AThr' = [AThr EXCEPT ![n][t] = Abstracted(new)]
  BY <1>3, AbstractMove DEF IInv
<1>5. PICK a : a = AThr[n][t]
  OBVIOUS
<1>6. a = Abstracted(thr[n][t])
  BY <1>5, AThrIs
<1>7. Abstracted(new) = [a EXCEPT !.pc = Seen(pc)]
  BY <1>1, <1>2, <1>6, NetMoved
<1>8. AThr' = [AThr EXCEPT ![n][t] = [AThr[n][t] EXCEPT !.pc = Seen(pc)]]
  BY <1>4, <1>5, <1>7
<1>9. Net!Goto(n, t, Seen(pc))
  BY <1>8 DEF Net!Goto, AThr
<1>10. ASSUME Seen(pc) = Seen(thr[n][t].pc) PROVE AThr' = AThr
  <2>1. [a EXCEPT !.pc = Seen(pc)] = a
    <3>1. PICK th, q : th = thr[n][t] /\ q = Seen(pc)
      OBVIOUS
    <3>2. Abstracted(th) =
            [pc |-> Seen(th.pc), peer |-> th.peer, idx |-> th.blk.index,
             from |-> th.from, id |-> th.id, caller |-> th.caller,
             load |-> Len(th.todo) + Len(th.cand.blocks)]
      BY AbstractedIs
    <3>3. [Abstracted(th) EXCEPT !.pc = q] =
            [pc |-> q, peer |-> th.peer, idx |-> th.blk.index,
             from |-> th.from, id |-> th.id, caller |-> th.caller,
             load |-> Len(th.todo) + Len(th.cand.blocks)]
      BY RecordMove
    <3>4. [Abstracted(th) EXCEPT !.pc = q] = Abstracted(th)
      BY <1>10, <3>1, <3>2, <3>3
    <3> QED
      BY <1>6, <3>1, <3>4
  <2>2. AThr' = [AThr EXCEPT ![n][t] = AThr[n][t]]
    BY <1>4, <1>5, <1>7, <2>1
  <2>3. AThr \in [Nodes -> [Tid -> AThread]]
    BY AThrTyped DEF IInv
  <2> QED
    BY <2>2, <2>3
<1> QED
  BY <1>9, <1>10

\* The abstraction of a table of threads.
ATable(f) == [n \in Nodes |-> [t \in Tid |-> Abstracted(f[n][t])]]

\* What it looks like.
LEMMA TableIs ==
  ASSUME NEW f \in [Nodes -> [Tid -> Thread]]
  PROVE  /\ ATable(f) \in [Nodes -> [Tid -> AThread]]
         /\ \A n \in Nodes, t \in Tid : ATable(f)[n][t] = Abstracted(f[n][t])
<1>1. \A n \in Nodes, t \in Tid : Abstracted(f[n][t]) \in AThread
  BY DEF AThread
<1> QED
  BY <1>1 DEF ATable

\* The abstract state is that of the threads, before and after a step.
LEMMA TableNow == AThr = ATable(thr) /\ AThr' = ATable(thr')
<1>1. AThr = ATable(thr)
  BY DEF AThr, ATable
<1>2. AThr' = ATable(thr')
  BY DEF AThr, ATable, Abstracted
<1> QED
  BY <1>1, <1>2

\* A handler returns.
LEMMA NetReturned ==
  ASSUME IInv, NEW n \in Nodes, NEW t \in Tid,
         thr[n][t].pc \notin {"idle", "bserved"}
  PROVE  ATable(Returned(n, t)) = Net!Returned(n, t)
<1>1. /\ thr \in [Nodes -> [Tid -> Thread]] /\ Idle \in Thread /\ "ws" \in Tid
      /\ Detached \subseteq Tid /\ "ws" \notin Detached
  BY IdleTyped, NodeAssumption DEF IInv, TypeOK, Tid
<1>2. PICK a : a = AThr
  OBVIOUS
<1>3. /\ a \in [Nodes -> [Tid -> AThread]]
      /\ \A m \in Nodes, u \in Tid : a[m][u] = Abstracted(thr[m][u])
  BY <1>1, <1>2, TableIs, TableNow
<1>4. PICK f : f = Returned(n, t)
  OBVIOUS
<1>5. /\ f \in [Nodes -> [Tid -> Thread]] /\ f[n][t] = Idle
      /\ \A m \in Nodes, u \in Tid :
           Released(n, t, m, u) =>
             /\ u \in Detached
             /\ f[m][u] = Sending(thr[m][u].peer + 1, thr[m][u].blk)
      /\ \A m \in Nodes, u \in Tid :
           (m # n \/ u # t) /\ ~Released(n, t, m, u) => f[m][u] = thr[m][u]
  BY <1>4, ReturnedIs
<1>6. PICK g : g = ATable(f)
  OBVIOUS
<1>7. /\ g \in [Nodes -> [Tid -> AThread]]
      /\ \A m \in Nodes, u \in Tid : g[m][u] = Abstracted(f[m][u])
  BY <1>5, <1>6, TableIs
<1>8. PICK idle : idle = Net!Idle
  OBVIOUS
<1>9. g[n][t] = idle /\ idle \in AThread
  BY <1>5, <1>7, <1>8, NetForms
<1>10. CASE t # "ws"
  <2>1. Net!Returned(n, t) = [a EXCEPT ![n][t] = idle]
    BY <1>2, <1>8, <1>10 DEF Net!Returned, AThr
  <2>2. \A m \in Nodes, u \in Tid : m # n \/ u # t => g[m][u] = a[m][u]
    BY <1>3, <1>5, <1>7, <1>10 DEF Released
  <2>3. PICK h : h = [a EXCEPT ![n][t] = idle]
    OBVIOUS
  <2>4. /\ h \in [Nodes -> [Tid -> AThread]] /\ h[n][t] = idle
        /\ \A m \in Nodes, u \in Tid : m # n \/ u # t => h[m][u] = a[m][u]
    BY <1>3, <1>9, <2>3
  <2>5. \A m \in Nodes, u \in Tid : g[m][u] = h[m][u]
    BY <1>9, <2>2, <2>4
  <2>6. g = h
    BY <1>7, <2>4, <2>5, SameTable
  <2> QED
    BY <1>4, <1>6, <2>1, <2>3, <2>6
<1>11. CASE t = "ws"
  <2>1. PICK k, c : k = thr[n]["ws"].from /\ c = thr[n]["ws"].caller
    OBVIOUS
  <2>2. k \in Nodes /\ c \in Detached /\ thr[k][c].pc = "bserved"
    BY <1>11, <2>1, ServersOK DEF ServerOKIn
  <2>3. thr[k][c] \in Thread /\ c \in Tid /\ c # "ws"
    BY <1>1, <2>2
  <2>4. Released(n, t, k, c)
    BY <1>11, <2>1 DEF Released
  <2>5. PICK th : th = thr[k][c]
    OBVIOUS
  <2>6. f[k][c] = Sending(th.peer + 1, th.blk)
    BY <1>5, <2>2, <2>3, <2>4, <2>5
  <2>7. PICK snd : snd = Net!Sending(th.peer + 1, th.blk.index)
    OBVIOUS
  <2>8. g[k][c] = snd
    BY <1>7, <2>2, <2>3, <2>6, <2>7, NetForms
  <2>9. \A m \in Nodes, u \in Tid :
          (m # n \/ u # "ws") /\ ~(m = k /\ u = c) => g[m][u] = a[m][u]
    BY <1>3, <1>5, <1>7, <1>11, <2>1 DEF Released
  <2>10. a[n]["ws"].from = k /\ a[n]["ws"].caller = c
    <3>1. a[n]["ws"] = Abstracted(thr[n]["ws"])
      BY <1>1, <1>3
    <3> QED
      BY <2>1, <3>1, AbstractFields
  <2>11. a[k][c].peer = th.peer /\ a[k][c].idx = th.blk.index
    <3>1. a[k][c] = Abstracted(thr[k][c])
      BY <1>3, <2>2, <2>3
    <3> QED
      BY <2>5, <3>1, AbstractFields
  <2>12. Net!At(k, c, "bserved")
    BY <2>2, <2>3, NetAt DEF Seen
  <2>13. Net!Returned(n, t) =
           [a EXCEPT ![n]["ws"] = idle,
                     ![k][c] = Net!Sending(@.peer + 1, @.idx)]
    BY <1>2, <1>8, <1>11, <2>10, <2>12 DEF Net!Returned, AThr
  <2>14. [a EXCEPT ![n]["ws"] = idle][k][c] = a[k][c]
    BY <1>1, <1>3, <1>9, <2>2, <2>3
  <2>15. Net!Returned(n, t) = [[a EXCEPT ![n]["ws"] = idle] EXCEPT ![k][c] = snd]
    BY <2>7, <2>11, <2>13, <2>14
  <2>16. PICK h : h = [[a EXCEPT ![n]["ws"] = idle] EXCEPT ![k][c] = snd]
    OBVIOUS
  <2>17. snd \in AThread
    BY <1>7, <2>2, <2>3, <2>8
  <2>18. /\ h \in [Nodes -> [Tid -> AThread]] /\ h[n]["ws"] = idle /\ h[k][c] = snd
         /\ \A m \in Nodes, u \in Tid :
              (m # n \/ u # "ws") /\ ~(m = k /\ u = c) => h[m][u] = a[m][u]
    BY <1>1, <1>3, <1>9, <2>2, <2>3, <2>16, <2>17
  <2>19. \A m \in Nodes, u \in Tid : g[m][u] = h[m][u]
    <3> SUFFICES ASSUME NEW m \in Nodes, NEW u \in Tid PROVE g[m][u] = h[m][u]
      OBVIOUS
    <3>1. CASE m = k /\ u = c
      BY <2>8, <2>18, <3>1
    <3>2. CASE m = n /\ u = "ws"
      BY <1>9, <1>11, <2>18, <3>2
    <3>3. CASE (m # n \/ u # "ws") /\ ~(m = k /\ u = c)
      BY <2>9, <2>18, <3>3
    <3> QED
      BY <3>1, <3>2, <3>3
  <2>20. g = h
    BY <1>7, <2>18, <2>19, SameTable
  <2> QED
    BY <1>4, <1>6, <2>15, <2>16, <2>20
<1> QED
  BY <1>10, <1>11

\* A handler returns and leaves a detached thread behind.
LEMMA NetDetach ==
  ASSUME IInv, IInv', NEW n \in Nodes, NEW t \in Tid,
         thr[n][t].pc \notin {"idle", "bserved"}, NEW new,
         Detach(Returned(n, t), n, new)
  PROVE  Net!Detach(Net!Returned(n, t), n, Abstracted(new))
<1>1. PICK f : f = Returned(n, t)
  OBVIOUS
<1>2. f \in [Nodes -> [Tid -> Thread]] /\ Detached \subseteq Tid
  BY <1>1, ReturnedIs DEF Tid
<1>3. PICK d \in Detached : f[n][d].pc = "idle" /\ thr' = [f EXCEPT ![n][d] = new]
  BY <1>1 DEF Detach
<1>4. thr'[n][d] = new /\ \A m \in Nodes, u \in Tid : m # n \/ u # d => thr'[m][u] = f[m][u]
  BY <1>2, <1>3
<1>5. PICK g : g = Net!Returned(n, t)
  OBVIOUS
<1>6. \A m \in Nodes, u \in Tid : g[m][u] = Abstracted(f[m][u])
  BY <1>1, <1>2, <1>5, NetReturned, TableIs
<1>7. g[n][d].pc = "idle"
  <2>1. g[n][d] = Abstracted(f[n][d])
    BY <1>2, <1>6
  <2>2. g[n][d].pc = Seen(f[n][d].pc)
    BY <2>1, AbstractFields
  <2> QED
    BY <1>3, <2>2 DEF Seen
<1>8. PICK x : x = Abstracted(new)
  OBVIOUS
<1>9. AThr' = [m \in Nodes |-> [u \in Tid |-> IF m = n /\ u = d THEN x ELSE g[m][u]]]
  <2>1. AThr' = [m \in Nodes |-> [u \in Tid |-> Abstracted(thr'[m][u])]]
    BY TableNow DEF ATable
  <2>2. \A m \in Nodes, u \in Tid :
          Abstracted(thr'[m][u]) = IF m = n /\ u = d THEN x ELSE g[m][u]
    BY <1>4, <1>6, <1>8
  <2> QED
    BY <2>1, <2>2
<1> QED
  BY <1>5, <1>7, <1>8, <1>9 DEF Net!Detach, Net!Tid, Tid, AThr

-----------------------------------------------------------------------------
(* What else holds of a network without proof of work.                      *)

\* What holds of a thread that loads a blockchain or compares it.
LoadsWell(th) ==
  /\ th.pc \in {"cmp", "assign"} => th.todo = <<>>
  /\ th.pc = "load" => OnlyLoads(th)

\* Nobody mines for long, no chain is longer than the number of blocks there are,
\* a thread that loads a blockchain does nothing else, and a blockchain that is
\* compared has been loaded completely.
PlainInv ==
  /\ \A n \in Nodes : ChainFree(n)
  /\ \A h \in DOMAIN mined : mined[h].index < h
  /\ \A n \in Nodes, t \in Tid :
       LoadsWell(thr[n][t])

\* A chain is at most as long as the number of blocks.
LEMMA LenBound ==
  ASSUME IInv, PlainInv, NEW n \in Nodes
  PROVE  /\ Len(chain[n].blocks) \in Nat /\ Len(mined) \in Nat
         /\ Len(chain[n].blocks) <= Len(mined)
         /\ chain[n].blocks # <<>> =>
              /\ Latest(chain[n]) \in Block
              /\ Latest(chain[n]).index = Len(chain[n].blocks) - 1
         /\ chain[n].blocks = <<>> <=> Len(chain[n].blocks) = 0
<1>1. /\ chain[n] \in Chain /\ chain[n].blocks \in Seq(Block) /\ mined \in Seq(Block)
      /\ Linked(chain[n].blocks) /\ AllKnown(chain[n].blocks)
  BY DEF IInv, TypeOK, ChainOK, Chain
<1>2. /\ Len(chain[n].blocks) \in Nat /\ Len(mined) \in Nat
      /\ chain[n].blocks = <<>> <=> Len(chain[n].blocks) = 0
  BY <1>1
<1>3. CASE chain[n].blocks = <<>>
  BY <1>2, <1>3
<1>4. CASE chain[n].blocks # <<>>
  <2>1. PICK b, k : b = Latest(chain[n]) /\ k = Len(chain[n].blocks)
    OBVIOUS
  <2>2. k \in DOMAIN chain[n].blocks /\ b \in Block /\ b = chain[n].blocks[k]
    BY <1>1, <1>4, <2>1, LatestTyped
  <2>3. b.index = k - 1 /\ b.hash \in DOMAIN mined /\ mined[b.hash] = b
    BY <1>1, <2>2 DEF Linked, AllKnown, Known
  <2>4. b.hash \in 1..Len(mined) /\ b.index < b.hash
    BY <1>1, <2>3 DEF PlainInv
  <2>5. k - 1 < b.hash /\ b.hash <= Len(mined) /\ k \in Nat
    BY <1>2, <2>1, <2>3, <2>4
  <2>6. k <= Len(mined)
    <3>1. b.hash \in Int
      BY <2>4
    <3> QED
      BY <1>2, <2>5, <3>1
  <2> QED
    BY <1>2, <1>4, <2>1, <2>2, <2>3, <2>6
<1> QED
  BY <1>3, <1>4

\* POST /blocks appends the next block at once.
LEMMA PlainPost ==
  ASSUME ~ProofOfWork, IInv, NEW n \in Nodes, PostBlocks(n)
  PROVE  /\ Goto(n, "http", "posted") /\ thr[n]["http"].pc = "idle"
         /\ \E b \in Block :
              /\ b.index = Len(chain[n].blocks)
              /\ mined' = Append(mined, b)
              /\ chain' = [chain EXCEPT ![n] = Extended(chain[n], b)]
<1> DEFINE c == chain[n]
<1>1. /\ "http" \in Tid /\ Now(n) \in Int /\ c \in Chain /\ Linked(c.blocks)
      /\ mined \in Seq(Block)
  BY ThreadFacts DEF IInv, TypeOK, ChainOK, Tid
<1>2. PICK b : b = MakeBlock(c, Now(n))
  OBVIOUS
<1>3. b \in Block /\ b.index = Len(c.blocks)
  BY <1>1, <1>2, MakeBlockTyped
<1>4. PICK x : x = [b EXCEPT !.hash = Len(mined) + 1]
  OBVIOUS
<1>5. /\ mined' = Append(mined, x) /\ chain' = [chain EXCEPT ![n] = Extended(c, x)]
      /\ Goto(n, "http", "posted") /\ thr[n]["http"].pc = "idle"
  BY <1>2, <1>4 DEF PostBlocks, Completed, At
<1>6. x \in Block /\ x.index = b.index
  <2>1. Len(mined) + 1 \in Nat
    BY <1>1
  <2> QED
    BY <1>3, <1>4, <2>1 DEF Block
<1> QED
  BY <1>3, <1>5, <1>6

\* No chain is locked for long, in any step.
LEMMA ChainFreeStep ==
  ASSUME ~ProofOfWork, IInv, PlainInv, [Next]_vars, NEW n \in Nodes
  PROVE  ChainFree(n)' /\ ~MineBlock(n)
<1>1. ~MineBlock(n)
  BY DEF MineBlock, PlainInv, ChainFree, At
<1>2. CASE PostBlocks(n)
  <2>1. Goto(n, "http", "posted") /\ "http" \in Tid /\ thr[n]["http"] \in Thread
    BY <1>2, PlainPost, ThreadFacts DEF Tid
  <2>2. PICK new : new = [thr[n]["http"] EXCEPT !.pc = "posted"]
    OBVIOUS
  <2>3. new.pc = "posted"
    BY <2>1, <2>2, MovedTyped DEF PC
  <2>4. thr'[n]["http"] = new
    BY <2>1, <2>2 DEF Goto, IInv, TypeOK
  <2> QED
    BY <1>1, <2>3, <2>4 DEF ChainFree
<1>3. CASE ~PostBlocks(n)
  BY <1>1, <1>3, ThreadForms, MiningStays DEF PlainInv
<1> QED
  BY <1>2, <1>3

\* A new block has a place in a chain that is no longer than the blocks before.
LEMMA IndexStep ==
  ASSUME ~ProofOfWork, IInv, PlainInv, [Next]_vars
  PROVE  \A h \in DOMAIN mined' : mined'[h].index < h
<1>1. CASE mined' = mined
  BY <1>1 DEF PlainInv
<1>2. CASE mined' # mined
  <2>1. PICK n \in Nodes : PostBlocks(n)
    <3>1. \A n \in Nodes : ~MineBlock(n)
      BY ChainFreeStep
    <3>2. ASSUME NEW n \in Nodes, UserRequest(n) PROVE PostBlocks(n)
      BY <1>2, <3>2 DEF UserRequest, PostPeers
    <3>3. ASSUME NEW n \in Nodes, NEW t \in Tid, ThreadStep(n, t) PROVE FALSE
      BY <1>2, <3>1, <3>3 DEF ThreadStep, HttpStep, AddStep, RecvStep, SendStep, LoadStep,
         DetachBroadcast, AddPeer, ConnectPeer, DetachRequest, RecvValid, RecvIndex,
         RecvSuccessor, RecvAppend, FindPeer, Broadcast, BroadcastSend, ServeBroadcast,
         RequestSend, ServeLatest, ServeAll, GiveUp, LoadBlock, LoadValid, Compare, Assign
    <3> QED
      BY <1>2, <3>2, <3>3 DEF Next, Tick, BreakConnection, vars
  <2>2. PICK b \in Block : b.index = Len(chain[n].blocks) /\ mined' = Append(mined, b)
    BY <2>1, PlainPost
  <2>3. /\ Len(chain[n].blocks) \in Nat /\ Len(mined) \in Nat
        /\ Len(chain[n].blocks) <= Len(mined) /\ mined \in Seq(Block)
    BY LenBound DEF IInv, TypeOK
  <2>4. \A h \in DOMAIN mined' :
          \/ h \in DOMAIN mined /\ mined'[h] = mined[h]
          \/ h = Len(mined) + 1 /\ mined'[h] = b
    BY <2>2, <2>3
  <2> QED
    BY <2>2, <2>3, <2>4 DEF PlainInv
<1> QED
  BY <1>1, <1>2

\* Only a blockchain that has been loaded completely is compared.
LEMMA LoadedStep ==
  ASSUME IInv, IInv', PlainInv, ThreadsMove, NEW m \in Nodes, NEW u \in Tid,
         thr'[m][u].pc \in {"load", "cmp", "assign"}
  PROVE  LoadsWell(thr'[m][u])
<1>1. /\ "ws" \in Tid /\ Detached \subseteq Tid /\ Idle.pc = "idle"
      /\ thr \in [Nodes -> [Tid -> Thread]]
      /\ \A i, b : Sending(i, b).pc = "bsend"
      /\ OutsideSend \intersect {"load", "cmp", "assign"} = {}
  BY IdleTyped DEF Tid, IInv, TypeOK, Sending, Running, OutsideSend
<1>2. thr'[m][u] = thr[m][u] => LoadsWell(thr'[m][u])
  BY DEF PlainInv
<1>3. CASE thr' = thr
  BY <1>2, <1>3
<1>4. ASSUME NEW n \in Nodes, NEW t \in Tid, Alone(n, t)
      PROVE  LoadsWell(thr'[m][u])
  <2>1. PICK new \in Thread : MayBecome(n, t, new) /\ thr' = [thr EXCEPT ![n][t] = new]
    BY <1>4 DEF Alone
  <2>2. /\ thr'[n][t] = new
        /\ \A j \in Nodes, v \in Tid : j # n \/ v # t => thr'[j][v] = thr[j][v]
    BY <1>1, <2>1
  <2>3. CASE m = n /\ u = t
    BY <2>1, <2>2, <2>3 DEF MayBecome, PlainInv, LoadsWell
  <2>4. CASE m # n \/ u # t
    BY <1>2, <2>2, <2>4
  <2> QED
    BY <2>3, <2>4
<1>5. ASSUME NEW n \in Nodes, NEW t \in Tid,
             thr[n][t].pc \notin {"idle", "bserved"},
             thr'[m][u] = Returned(n, t)[m][u]
      PROVE  LoadsWell(thr'[m][u])
  BY <1>1, <1>2, <1>5, ReturnedOutside
<1>6. ASSUME NEW n \in Nodes, NEW t \in Tid, Leaves(n, t)
      PROVE  LoadsWell(thr'[m][u])
  <2>1. PICK d \in Detached :
          /\ thr'[n][d].pc \in OutsideSend
          /\ \A j \in Nodes, v \in Tid :
               j # n \/ v # d => thr'[j][v] = Returned(n, t)[j][v]
    BY <1>6, LeavesIs
  <2>2. m # n \/ u # d
    BY <1>1, <2>1
  <2> QED
    BY <1>5, <1>6, <2>1, <2>2 DEF Leaves
<1>7. ASSUME NEW n \in Nodes, NEW t \in Detached, ServeBroadcast(n, t)
      PROVE  LoadsWell(thr'[m][u])
  <2>1. PICK k : k = peers[n][thr[n][t].peer]
    OBVIOUS
  <2>2. /\ thr'[n][t].pc = "bserved"
        /\ thr'[k]["ws"] = Running("recv", 0, thr[n][t].blk, n, 0, t)
        /\ \A j \in Nodes, v \in Tid :
             (j # n \/ v # t) /\ (j # k \/ v # "ws") => thr'[j][v] = thr[j][v]
    BY <1>7, <2>1, ServeIs
  <2>3. thr'[k]["ws"].pc = "recv"
    BY <2>2 DEF Running
  <2>4. (m # n \/ u # t) /\ (m # k \/ u # "ws")
    BY <2>2, <2>3
  <2> QED
    BY <1>2, <2>2, <2>4
<1> QED
  BY <1>3, <1>4, <1>5, <1>6, <1>7 DEF ThreadsMove, Returns

\* Every step keeps the invariant.
LEMMA PlainStep ==
  ASSUME ~ProofOfWork, IInv, IInv', PlainInv, [Next]_vars
  PROVE  PlainInv'
<1>1. \A n \in Nodes : ChainFree(n)'
  BY ChainFreeStep
<1>2. \A h \in DOMAIN mined' : mined'[h].index < h
  BY IndexStep
<1>3. ThreadsMove
  BY ThreadForms
<1>4. \A n \in Nodes, t \in Tid : LoadsWell(thr'[n][t])
  BY <1>3, LoadedStep DEF LoadsWell
<1>5. \A n \in Nodes, t \in Tid : LoadsWell(thr[n][t])'
  BY <1>4 DEF LoadsWell, OnlyLoads
<1> QED
  BY <1>1, <1>2, <1>5 DEF PlainInv

\* It holds at the start.
LEMMA PlainInit == Init => PlainInv
<1> SUFFICES ASSUME Init PROVE PlainInv
  OBVIOUS
<1>1. "http" \in Tid /\ \A n \in Nodes, t \in Tid : thr[n][t].pc = "idle"
  BY IdleTyped DEF Init, Tid
<1>2. DOMAIN mined = {}
  BY DEF Init
<1> QED
  BY <1>1, <1>2 DEF PlainInv, ChainFree, LoadsWell

-----------------------------------------------------------------------------
(* The steps of Node, as steps of PeerNetwork.                              *)

\* Steps that leave the chains alone.
LEMMA LenSame == ASSUME chain' = chain PROVE ALen' = ALen
BY DEF ALen

\* Steps that change one chain.
LEMMA LenMove ==
  ASSUME TypeOK, NEW n \in Nodes, NEW c, chain' = [chain EXCEPT ![n] = c]
  PROVE  ALen' = [ALen EXCEPT ![n] = Len(c.blocks)] /\ ALen[n] = Len(chain[n].blocks)
<1>1. chain'[n] = c /\ \A m \in Nodes : m # n => chain'[m] = chain[m]
  BY DEF TypeOK
<1>2. ALen' = [m \in Nodes |-> Len(chain'[m].blocks)]
  BY DEF ALen
<1>3. ALen = [m \in Nodes |-> Len(chain[m].blocks)]
  BY DEF ALen
<1> QED
  BY <1>1, <1>2, <1>3

\* The length of a chain.
LEMMA NetLen ==
  ASSUME NEW n \in Nodes
  PROVE  ALen[n] = Len(chain[n].blocks) /\ ALife[n] = "up" /\ ALife' = ALife
BY DEF ALen, ALife

\* A handler returns, and changes no chain.
LEMMA NetReturns ==
  ASSUME IInv, NEW n \in Nodes, NEW t \in Tid,
         thr[n][t].pc \notin {"idle", "bserved"}, thr' = Returned(n, t)
  PROVE  AThr' = Net!Returned(n, t)
BY NetReturned, TableNow

\* The requests of users.
LEMMA NetUserRequest ==
  ASSUME ~ProofOfWork, IInv, IInv', PlainInv, NEW n \in Nodes, UserRequest(n)
  PROVE  Net!UserRequest(n)
<1>1. "http" \in Tid /\ thr[n]["http"] \in Thread
  BY ThreadFacts DEF Tid
<1>2. CASE PostBlocks(n)
  <2>1. PICK b \in Block : 
          /\ Goto(n, "http", "posted") /\ thr[n]["http"].pc = "idle"
          /\ chain' = [chain EXCEPT ![n] = Extended(chain[n], b)]
    BY <1>2, PlainPost
  <2>2. chain[n] \in Chain /\ chain[n].blocks \in Seq(Block)
    BY DEF IInv, TypeOK, Chain
  <2>3. PICK c : c = Extended(chain[n], b)
    OBVIOUS
  <2>4. c.blocks = Append(chain[n].blocks, b)
    BY <2>2, <2>3 DEF Extended, Chain
  <2>5. Len(c.blocks) = Len(chain[n].blocks) + 1
    BY <2>2, <2>4
  <2>6. ALen' = [ALen EXCEPT ![n] = ALen[n] + 1]
    <3>1. PICK k : k = Len(c.blocks)
      OBVIOUS
    <3>2. ALen' = [ALen EXCEPT ![n] = k] /\ ALen[n] = Len(chain[n].blocks)
      BY <2>1, <2>3, <3>1, LenMove DEF IInv
    <3>3. k = ALen[n] + 1
      BY <2>5, <3>1, <3>2
    <3> QED
      BY <3>2, <3>3
  <2>7. Len(mined) < MaxBlocks
    <3>1. {m \in Nodes : ~ChainFree(m)} = {}
      BY DEF PlainInv
    <3>2. Cardinality({}) = 0
      BY FS_EmptySet
    <3>3. Len(mined) \in Nat
      BY DEF IInv, TypeOK
    <3>4. Len(mined) + Cardinality({m \in Nodes : ~ChainFree(m)}) < MaxBlocks
      BY <1>2 DEF PostBlocks
    <3>5. Len(mined) + 0 < MaxBlocks
      BY <3>1, <3>2, <3>4, Zenon
    <3> QED
      BY <3>3, <3>5
  <2>8. ALen[n] < MaxBlocks
    BY <2>7, LenBound, NetLen, NodeAssumption
  <2>9. Net!At(n, "http", "idle")
    BY <1>1, <2>1, NetAt DEF Seen
  <2>10. Net!Goto(n, "http", "posted")
    <3>1. Seen("posted") = "posted" /\ "posted" \in PC
      BY DEF Seen, PC
    <3> QED
      BY <1>1, <2>1, <3>1, NetGoto
  <2>11. n \in Miners /\ UNCHANGED <<peers, dead>>
    BY <1>2 DEF PostBlocks
  <2> QED
    BY <2>6, <2>8, <2>9, <2>10, <2>11 DEF Net!UserRequest, Net!PostBlocks, ALen
<1>3. ASSUME NEW m \in Nodes, PostPeers(n, m) PROVE Net!PostPeers(n, m)
  <2>1. PICK new : new = Running("add", 0, NoBlock, m, 0, None)
    OBVIOUS
  <2>2. /\ <<n, m>> \in Links /\ thr[n]["http"].pc = "idle" /\ Len(peers[n]) < MaxPeers
        /\ thr' = [thr EXCEPT ![n]["http"] = new] /\ UNCHANGED <<chain, peers, dead>>
    BY <1>3, <2>1 DEF PostPeers, At
  <2>3. Abstracted(new) = Net!Running("add", 0, 0, m, 0, None)
    <3>1. NoBlock.index = 0 /\ Seen("add") = "add"
      BY DEF NoBlock, Seen
    <3> QED
      BY <2>1, <3>1, NetRunning
  <2>4. AThr' = [AThr EXCEPT ![n]["http"] = Net!Running("add", 0, 0, m, 0, None)]
    BY <1>1, <2>2, <2>3, AbstractMove DEF IInv
  <2>5. Net!At(n, "http", "idle") /\ ALen' = ALen
    BY <1>1, <2>2, NetAt, LenSame DEF Seen
  <2> QED
    BY <2>2, <2>4, <2>5 DEF Net!PostPeers, AThr, ALen
<1> QED
  BY <1>2, <1>3 DEF UserRequest, Net!UserRequest

\* The fields of the abstract thread of a node.
LEMMA NetFields ==
  ASSUME NEW n \in Nodes, NEW t \in Tid
  PROVE  /\ AThr[n][t].pc = Seen(thr[n][t].pc) /\ AThr[n][t].peer = thr[n][t].peer
         /\ AThr[n][t].idx = thr[n][t].blk.index
         /\ AThr[n][t].from = thr[n][t].from /\ AThr[n][t].id = thr[n][t].id
         /\ AThr[n][t].caller = thr[n][t].caller
         /\ AThr[n][t].load = Len(thr[n][t].todo) + Len(thr[n][t].cand.blocks)
<1>1. AThr[n][t] = Abstracted(thr[n][t])
  BY AThrIs
<1>2. PICK th : th = thr[n][t]
  OBVIOUS
<1>3. PICK a : a = Abstracted(th)
  OBVIOUS
<1>4. /\ a.pc = Seen(th.pc) /\ a.peer = th.peer /\ a.idx = th.blk.index
      /\ a.from = th.from /\ a.id = th.id /\ a.caller = th.caller
      /\ a.load = Len(th.todo) + Len(th.cand.blocks)
  BY <1>3, AbstractFields
<1> QED
  BY <1>1, <1>2, <1>3, <1>4

\* broadcast_latest_block is detached.
LEMMA NetDetachBroadcast ==
  ASSUME IInv, IInv', NEW n \in Nodes, DetachBroadcast(n)
  PROVE  Net!DetachBroadcast(n)
<1>1. /\ "http" \in Tid /\ thr[n]["http"].pc = "posted"
      /\ Detach(Returned(n, "http"), n, Start("bcast", 0))
      /\ UNCHANGED <<chain, peers, dead>>
  BY DEF DetachBroadcast, At, Tid
<1>2. Net!At(n, "http", "posted") /\ ALen' = ALen
  BY <1>1, NetAt, LenSame DEF Seen
<1>3. PICK x : x = Start("bcast", 0)
  OBVIOUS
<1>4. Net!Detach(Net!Returned(n, "http"), n, Abstracted(x))
  BY <1>1, <1>3, NetDetach
<1>5. Abstracted(x) = Net!Start("bcast", 0)
  BY <1>3, NetForms
<1>6. Net!Detach(Net!Returned(n, "http"), n, Net!Start("bcast", 0))
  BY <1>4, <1>5
<1> QED
  BY <1>1, <1>2, <1>6 DEF Net!DetachBroadcast, ALen

\* WebSocketPeers::add and what follows it.
LEMMA NetAddStep ==
  ASSUME IInv, IInv', NEW n \in Nodes, NEW t \in Tid, AddStep(n, t)
  PROVE  Net!AddStep(n, t)
<1>1. thr[n][t] \in Thread /\ ThreadOK(n, t)
  BY ThreadFacts
<1>2. CASE AddPeer(n, t)
  <2>1. /\ thr[n][t].pc = "add" /\ PeersFree(n) /\ Goto(n, t, "connect")
        /\ UNCHANGED <<chain, peers, dead>>
    BY <1>2 DEF AddPeer, At
  <2>2. Net!At(n, t, "add") /\ Net!PeersFree(n) /\ ALen' = ALen
    BY <2>1, NetAt, NetFree, LenSame DEF Seen
  <2>3. Net!Goto(n, t, "connect")
    <3>1. Seen("connect") = "connect" /\ "connect" \in PC
      BY DEF Seen, PC
    <3> QED
      BY <2>1, <3>1, NetGoto
  <2> QED
    BY <2>1, <2>2, <2>3 DEF Net!AddStep, Net!AddPeer, ALen
<1>3. CASE ConnectPeer(n, t)
  <2>1. PICK new, k, m : /\ new = WithPeerId(thr[n][t], k) /\ k = Len(peers[n]) + 1
                         /\ m = thr[n][t].from
    OBVIOUS
  <2>2. /\ thr[n][t].pc = "connect" /\ Listening(m)
        /\ peers' = [peers EXCEPT ![n] = Append(@, m)]
        /\ thr' = [thr EXCEPT ![n][t] = new] /\ UNCHANGED <<chain, dead>>
    BY <1>3, <2>1 DEF ConnectPeer, At
  <2>3. m \in Nodes
    BY <1>1, <2>1, <2>2 DEF ThreadOK, Naming
  <2>4. Net!At(n, t, "connect") /\ Net!Listening(m) /\ ALen' = ALen /\ AThr[n][t].from = m
    BY <2>1, <2>2, <2>3, NetAt, NetFree, LenSame, NetFields DEF Seen
  <2>5. AThr' = [AThr EXCEPT ![n][t] = Net!WithPeerId(AThr[n][t], k)]
    <3>1. AThr' = [AThr EXCEPT ![n][t] = Abstracted(new)]
      BY <2>2, AbstractMove DEF IInv
    <3>2. AThr[n][t] = Abstracted(thr[n][t])
      BY AThrIs
    <3>3. Abstracted(new) = Net!WithPeerId(AThr[n][t], k)
      BY <2>1, <3>2, NetForms
    <3> QED
      BY <3>1, <3>3
  <2>6. Net!ConnectPeer(n, t)
    BY <2>1, <2>2, <2>4, <2>5 DEF Net!ConnectPeer, AThr, ALen
  <2> QED
    BY <2>6 DEF Net!AddStep
<1>4. CASE DetachRequest(n, t)
  <2>1. PICK pc, i : pc = (IF t = "http" THEN "rlsend" ELSE "rasend") /\ i = thr[n][t].id
    OBVIOUS
  <2>2. PICK x : x = Start(pc, i)
    OBVIOUS
  <2>3. /\ thr[n][t].pc = "added" /\ Detach(Returned(n, t), n, x)
        /\ UNCHANGED <<chain, peers, dead>>
    BY <1>4, <2>1, <2>2 DEF DetachRequest, At
  <2>4. Net!At(n, t, "added") /\ ALen' = ALen /\ AThr[n][t].id = i
    BY <2>1, <2>3, NetAt, LenSame, NetFields DEF Seen
  <2>5. Net!Detach(Net!Returned(n, t), n, Abstracted(x))
    BY <2>3, NetDetach
  <2>6. Abstracted(x) = Net!Start(pc, i)
    <3>1. pc \in {"bcast", "rlsend", "rasend"}
      BY <2>1
    <3> QED
      BY <2>2, <3>1, NetForms
  <2>7. Net!Detach(Net!Returned(n, t), n,
                   Net!Start(IF t = "http" THEN "rlsend" ELSE "rasend", AThr[n][t].id))
    BY <2>1, <2>4, <2>5, <2>6
  <2>8. Net!DetachRequest(n, t)
    BY <2>3, <2>4, <2>7 DEF Net!DetachRequest, AThr, ALen
  <2> QED
    BY <2>8 DEF Net!AddStep
<1> QED
  BY <1>2, <1>3, <1>4 DEF AddStep

\* A thread that turns to another peer.
LEMMA NetTurned ==
  ASSUME NEW th \in Thread, NEW i \in Nat
  PROVE  Abstracted([th EXCEPT !.peer = i]) = [Abstracted(th) EXCEPT !.peer = i]
<1>1. PICK new : new = [th EXCEPT !.peer = i]
  OBVIOUS
<1>2. /\ new.pc = th.pc /\ new.peer = i /\ new.blk = th.blk /\ new.from = th.from
      /\ new.id = th.id /\ new.caller = th.caller
      /\ new.todo = th.todo /\ new.cand = th.cand
  BY <1>1 DEF Thread
<1>3. PICK load, p : load = Len(th.todo) + Len(th.cand.blocks) /\ p = Seen(th.pc)
  OBVIOUS
<1>4. Abstracted(new) = [pc |-> p, peer |-> i, idx |-> th.blk.index,
                         from |-> th.from, id |-> th.id, caller |-> th.caller,
                         load |-> load]
  BY <1>2, <1>3, AbstractedIs
<1>5. Abstracted(th) = [pc |-> p, peer |-> th.peer, idx |-> th.blk.index,
                        from |-> th.from, id |-> th.id, caller |-> th.caller,
                        load |-> load]
  BY <1>3, AbstractedIs
<1>6. [Abstracted(th) EXCEPT !.peer = i] =
        [pc |-> p, peer |-> i, idx |-> th.blk.index,
         from |-> th.from, id |-> th.id, caller |-> th.caller, load |-> load]
  BY <1>5
<1> QED
  BY <1>1, <1>4, <1>6

\* A detached thread ends.
LEMMA NetEnd ==
  ASSUME IInv, IInv', NEW n \in Nodes, NEW t \in Detached,
         thr' = [thr EXCEPT ![n][t] = Idle]
  PROVE  AThr' = [AThr EXCEPT ![n][t] = Net!Idle] /\ AThr' = Net!Returned(n, t)
<1>1. t \in Tid /\ t # "ws"
  BY NodeAssumption DEF Tid
<1>2. AThr' = [AThr EXCEPT ![n][t] = Net!Idle]
  BY <1>1, AbstractMove, NetForms DEF IInv
<1>3. Net!Returned(n, t) = [AThr EXCEPT ![n][t] = Net!Idle]
  BY <1>1 DEF Net!Returned, AThr
<1> QED
  BY <1>2, <1>3

\* broadcast_latest_block reads the latest block.
LEMMA NetBroadcast ==
  ASSUME IInv, IInv', PlainInv, NEW n \in Nodes, NEW t \in Detached, Broadcast(n, t)
  PROVE  Net!Broadcast(n, t)
<1>1. PICK b, new : b = Latest(chain[n]) /\ new = Sending(1, b)
  OBVIOUS
<1>2. /\ t \in Tid /\ thr[n][t].pc = "bcast" /\ thr' = [thr EXCEPT ![n][t] = new]
      /\ UNCHANGED <<chain, peers, dead>>
  BY <1>1 DEF Broadcast, At, Tid
<1>3. chain[n].blocks # <<>>
  <2>1. ThreadOK(n, t)
    BY <1>2, ThreadFacts
  <2> QED
    BY <1>2, <2>1 DEF ThreadOK
<1>4. b.index = ALen[n] - 1
  BY <1>1, <1>3, LenBound, NetLen
<1>5. Abstracted(new) = Net!Sending(1, ALen[n] - 1)
  BY <1>1, <1>4, NetForms
<1>6. AThr' = [AThr EXCEPT ![n][t] = Net!Sending(1, ALen[n] - 1)]
  BY <1>2, <1>5, AbstractMove DEF IInv
<1>7. Net!At(n, t, "bcast") /\ ALen' = ALen
  BY <1>2, NetAt, LenSame DEF Seen
<1> QED
  BY <1>2, <1>6, <1>7 DEF Net!Broadcast, AThr, ALen

\* One round of the loop over the peers.
LEMMA NetBroadcastSend ==
  ASSUME IInv, IInv', NEW n \in Nodes, NEW t \in Detached, BroadcastSend(n, t)
  PROVE  Net!BroadcastSend(n, t)
<1>1. PICK th, i, a : th = thr[n][t] /\ i = thr[n][t].peer /\ a = AThr[n][t]
  OBVIOUS
<1>2. t \in Tid /\ th.pc = "bsend" /\ UNCHANGED <<chain, peers, dead>>
  BY <1>1 DEF BroadcastSend, At, Tid
<1>3. th \in Thread /\ i \in Nat /\ peers[n] \in Seq(Nodes) /\ a = Abstracted(th)
  BY <1>1, <1>2, ThreadFacts, AThrIs
<1>4. Net!At(n, t, "bsend") /\ ALen' = ALen /\ a.peer = i
  BY <1>1, <1>2, NetAt, LenSame, NetFields DEF Seen
<1>5. CASE i > Len(peers[n])
  <2>1. thr' = Returned(n, t)
    BY <1>1, <1>5 DEF BroadcastSend
  <2>2. AThr' = Net!Returned(n, t)
    BY <1>1, <1>2, <2>1, NetReturns
  <2> QED
    BY <1>1, <1>2, <1>4, <1>5, <2>2 DEF Net!BroadcastSend, AThr, ALen
<1>6. CASE ~(i > Len(peers[n]))
  <2>1. /\ PeersFree(n) /\ PeerFree(n, i)
        /\ thr' = [thr EXCEPT ![n][t] =
                     IF <<n, i>> \in dead THEN [th EXCEPT !.peer = i + 1]
                                          ELSE [th EXCEPT !.pc = "bwait"]]
    BY <1>1, <1>6 DEF BroadcastSend
  <2>2. Net!PeersFree(n) /\ Net!PeerFree(n, i)
    BY <2>1, NetFree
  <2>3. CASE <<n, i>> \in dead
    <3>1. thr' = [thr EXCEPT ![n][t] = [th EXCEPT !.peer = i + 1]]
      BY <2>1, <2>3
    <3>2. i + 1 \in Nat
      BY <1>3
    <3>3. PICK new : new = [th EXCEPT !.peer = i + 1]
      OBVIOUS
    <3>4. Abstracted(new) = [a EXCEPT !.peer = i + 1]
      BY <1>3, <3>2, <3>3, NetTurned
    <3>5. AThr' = [AThr EXCEPT ![n][t] = [a EXCEPT !.peer = i + 1]]
      BY <1>2, <3>1, <3>3, <3>4, AbstractMove DEF IInv
    <3>6. AThr' = [AThr EXCEPT ![n][t] =
                     IF <<n, i>> \in dead THEN [a EXCEPT !.peer = i + 1]
                                          ELSE [a EXCEPT !.pc = "bwait"]]
      BY <2>3, <3>5
    <3> QED
      BY <1>1, <1>2, <1>4, <1>6, <2>2, <3>6 DEF Net!BroadcastSend, AThr, ALen
  <2>4. CASE <<n, i>> \notin dead
    <3>1. thr' = [thr EXCEPT ![n][t] = [th EXCEPT !.pc = "bwait"]]
      BY <2>1, <2>4
    <3>2. Seen("bwait") = "bwait" /\ "bwait" \in PC
      BY DEF Seen, PC
    <3>3. PICK new : new = [th EXCEPT !.pc = "bwait"]
      OBVIOUS
    <3>4. Abstracted(new) = [a EXCEPT !.pc = "bwait"]
      BY <1>3, <3>2, <3>3, NetMoved
    <3>5. AThr' = [AThr EXCEPT ![n][t] = [a EXCEPT !.pc = "bwait"]]
      BY <1>2, <3>1, <3>3, <3>4, AbstractMove DEF IInv
    <3>6. AThr' = [AThr EXCEPT ![n][t] =
                     IF <<n, i>> \in dead THEN [a EXCEPT !.peer = i + 1]
                                          ELSE [a EXCEPT !.pc = "bwait"]]
      BY <2>4, <3>5
    <3> QED
      BY <1>1, <1>2, <1>4, <1>6, <2>2, <3>6 DEF Net!BroadcastSend, AThr, ALen
  <2> QED
    BY <2>3, <2>4
<1> QED
  BY <1>5, <1>6

\* The peer takes a message.
LEMMA NetTaken ==
  ASSUME IInv, NEW n \in Nodes, NEW t \in Tid, thr[n][t].pc \in OnPeer,
         <<n, thr[n][t].peer>> \notin dead, Listening(peers[n][thr[n][t].peer])
  PROVE  Net!Taken(n, t) /\ peers[n][thr[n][t].peer] \in Nodes
<1>1. PICK i, m : i = thr[n][t].peer /\ m = peers[n][i]
  OBVIOUS
<1>2. peers[n] \in Seq(Nodes) /\ ThreadOK(n, t)
  BY ThreadFacts
<1>3. m \in Nodes
  BY <1>1, <1>2 DEF ThreadOK
<1>4. AThr[n][t].peer = i /\ Net!Listening(m)
  BY <1>1, <1>3, NetFields, NetFree
<1> QED
  BY <1>1, <1>3, <1>4 DEF Net!Taken, AThr

\* The websocket server of the peer takes a broadcast.
LEMMA NetServeBroadcast ==
  ASSUME IInv, IInv', NEW n \in Nodes, NEW t \in Detached, ServeBroadcast(n, t)
  PROVE  Net!ServeBroadcast(n, t)
<1>1. PICK th, m, f : th = thr[n][t] /\ m = peers[n][thr[n][t].peer] /\ f = thr
  OBVIOUS
<1>2. /\ t \in Tid /\ t # "ws" /\ "ws" \in Tid /\ th.pc = "bwait"
      /\ <<n, th.peer>> \notin dead /\ Listening(m) /\ UNCHANGED <<chain, peers, dead>>
  BY <1>1, NodeAssumption DEF ServeBroadcast, At, Tid
<1>3. th \in Thread /\ f \in [Nodes -> [Tid -> Thread]]
  BY <1>1, <1>2, ThreadFacts DEF IInv, TypeOK
<1>4. Net!Taken(n, t) /\ m \in Nodes
  BY <1>1, <1>2, NetTaken DEF OnPeer
<1>5. PICK new, srv : /\ new = [th EXCEPT !.pc = "bserved"]
                      /\ srv = Running("recv", 0, th.blk, n, 0, t)
  OBVIOUS
<1>6. thr' = [[f EXCEPT ![n][t] = new] EXCEPT ![m]["ws"] = srv]
  BY <1>1, <1>5 DEF ServeBroadcast
<1>7. Seen("bserved") = "bserved" /\ Seen("recv") = "recv" /\ "bserved" \in PC
  BY DEF Seen, PC
<1>8. PICK a : a = AThr
  OBVIOUS
<1>9. /\ a \in [Nodes -> [Tid -> AThread]]
      /\ \A k \in Nodes, u \in Tid : a[k][u] = Abstracted(f[k][u])
  BY <1>1, <1>3, <1>8, TableIs, TableNow
<1>10. PICK x, y : /\ x = [a[n][t] EXCEPT !.pc = "bserved"]
                   /\ y = Net!Running("recv", 0, th.blk.index, n, 0, t)
  OBVIOUS
<1>11. Abstracted(new) = x
  <2>1. a[n][t] = Abstracted(th)
    BY <1>1, <1>2, <1>9
  <2> QED
    BY <1>3, <1>5, <1>7, <1>10, <2>1, NetMoved
<1>12. Abstracted(srv) = y
  BY <1>5, <1>7, <1>10, NetRunning
<1>13. PICK g : g = thr'
  OBVIOUS
<1>14. /\ g \in [Nodes -> [Tid -> Thread]] /\ g[n][t] = new /\ g[m]["ws"] = srv
       /\ \A k \in Nodes, u \in Tid :
            (k # n \/ u # t) /\ (k # m \/ u # "ws") => g[k][u] = f[k][u]
  <2>1. g \in [Nodes -> [Tid -> Thread]]
    BY <1>13 DEF IInv, TypeOK
  <2>2. g = [[f EXCEPT ![n][t] = new] EXCEPT ![m]["ws"] = srv]
    BY <1>6, <1>13
  <2>3. new \in Thread
    BY <1>3, <1>5, <1>7, MovedTyped
  <2> QED
    BY <1>2, <1>3, <1>4, <2>1, <2>2, <2>3
<1>15. PICK h : h = ATable(g)
  OBVIOUS
<1>16. /\ h \in [Nodes -> [Tid -> AThread]] /\ h = AThr'
       /\ \A k \in Nodes, u \in Tid : h[k][u] = Abstracted(g[k][u])
  BY <1>13, <1>14, <1>15, TableIs, TableNow
<1>17. x \in AThread /\ y \in AThread /\ h[n][t] = x /\ h[m]["ws"] = y
  BY <1>2, <1>4, <1>11, <1>12, <1>14, <1>16
<1>18. PICK e : e = [[a EXCEPT ![n][t] = x] EXCEPT ![m]["ws"] = y]
  OBVIOUS
<1>19. /\ e \in [Nodes -> [Tid -> AThread]] /\ e[n][t] = x /\ e[m]["ws"] = y
       /\ \A k \in Nodes, u \in Tid :
            (k # n \/ u # t) /\ (k # m \/ u # "ws") => e[k][u] = a[k][u]
  BY <1>2, <1>4, <1>9, <1>17, <1>18
<1>20. \A k \in Nodes, u \in Tid : h[k][u] = e[k][u]
  <2> SUFFICES ASSUME NEW k \in Nodes, NEW u \in Tid PROVE h[k][u] = e[k][u]
    OBVIOUS
  <2>1. CASE k = n /\ u = t
    BY <1>17, <1>19, <2>1
  <2>2. CASE k = m /\ u = "ws"
    BY <1>17, <1>19, <2>2
  <2>3. CASE (k # n \/ u # t) /\ (k # m \/ u # "ws")
    BY <1>9, <1>14, <1>16, <1>19, <2>3
  <2> QED
    BY <2>1, <2>2, <2>3
<1>21. AThr' = e
  BY <1>16, <1>19, <1>20, SameTable
<1>22. /\ Net!At(n, t, "bwait") /\ ALen' = ALen
       /\ a[n][t].peer = th.peer /\ a[n][t].idx = th.blk.index
  BY <1>1, <1>2, <1>8, NetAt, LenSame, NetFields DEF Seen
<1>23. AThr' = [AThr EXCEPT
         ![n][t] = [@ EXCEPT !.pc = "bserved"],
         ![peers[n][AThr[n][t].peer]]["ws"] =
             Net!Running("recv", 0, AThr[n][t].idx, n, 0, t)]
  BY <1>1, <1>8, <1>10, <1>18, <1>21, <1>22
<1> QED
  BY <1>2, <1>4, <1>22, <1>23 DEF Net!ServeBroadcast, AThr, ALen

\* A request is written to the peer's connection.
LEMMA NetRequestSend ==
  ASSUME IInv, IInv', NEW n \in Nodes, NEW t \in Detached, RequestSend(n, t)
  PROVE  Net!RequestSend(n, t)
<1>1. PICK i : i = thr[n][t].peer
  OBVIOUS
<1>2. /\ t \in Tid /\ thr[n][t].pc \in {"rlsend", "rasend"} /\ PeersFree(n)
      /\ PeerFree(n, i) /\ UNCHANGED <<chain, peers, dead>>
  BY <1>1 DEF RequestSend, Tid
<1>3. /\ AThr[n][t].pc \in {"rlsend", "rasend"} /\ AThr[n][t].peer = i
      /\ Net!At(n, t, "rlsend") <=> thr[n][t].pc = "rlsend"
      /\ Net!PeersFree(n) /\ Net!PeerFree(n, i) /\ ALen' = ALen
  <2>1. Seen(thr[n][t].pc) = thr[n][t].pc
    BY <1>2 DEF Seen
  <2>2. AThr[n][t].pc \in {"rlsend", "rasend"} /\ AThr[n][t].peer = i
    BY <1>1, <1>2, <2>1, NetFields
  <2>3. Net!At(n, t, "rlsend") <=> thr[n][t].pc = "rlsend"
    BY <1>2, <2>1, NetAt
  <2>4. Net!PeersFree(n) /\ Net!PeerFree(n, i) /\ ALen' = ALen
    BY <1>2, NetFree, LenSame
  <2> QED
    BY <2>2, <2>3, <2>4
<1>4. CASE <<n, i>> \in dead
  <2>1. AThr' = Net!Returned(n, t)
    BY <1>1, <1>4, NetEnd DEF RequestSend
  <2> QED
    BY <1>2, <1>3, <1>4, <2>1 DEF Net!RequestSend, AThr, ALen
<1>5. CASE <<n, i>> \notin dead
  <2>1. PICK pc : pc = IF thr[n][t].pc = "rlsend" THEN "rlwait" ELSE "rawait"
    OBVIOUS
  <2>2. Goto(n, t, pc)
    BY <1>1, <1>5, <2>1 DEF RequestSend, At
  <2>3. pc \in PC /\ Seen(pc) = pc
    BY <2>1 DEF PC, Seen
  <2>4. Net!Goto(n, t, pc)
    BY <1>2, <2>2, <2>3, NetGoto
  <2>5. Net!Goto(n, t, IF Net!At(n, t, "rlsend") THEN "rlwait" ELSE "rawait")
    BY <1>3, <2>1, <2>4
  <2> QED
    BY <1>2, <1>3, <1>5, <2>5 DEF Net!RequestSend, AThr, ALen
<1> QED
  BY <1>4, <1>5

\* The peer answers with its latest block.
LEMMA NetServeLatest ==
  ASSUME IInv, IInv', PlainInv, NEW n \in Nodes, NEW t \in Detached, ServeLatest(n, t)
  PROVE  Net!ServeLatest(n, t)
<1>1. PICK i, m : i = thr[n][t].peer /\ m = peers[n][i]
  OBVIOUS
<1>2. /\ t \in Tid /\ thr[n][t].pc = "rlwait" /\ <<n, i>> \notin dead /\ Listening(m)
      /\ UNCHANGED <<chain, peers, dead>>
  BY <1>1 DEF ServeLatest, At, Tid
<1>3. Net!Taken(n, t) /\ m \in Nodes
  BY <1>1, <1>2, NetTaken DEF OnPeer
<1>4. Net!At(n, t, "rlwait") /\ ALen' = ALen /\ AThr[n][t].peer = i
  BY <1>1, <1>2, NetAt, LenSame, NetFields DEF Seen
<1>5. /\ ALen[m] = Len(chain[m].blocks) /\ Len(chain[m].blocks) \in Nat
      /\ chain[m].blocks = <<>> <=> ALen[m] = 0
      /\ chain[m].blocks # <<>> => Latest(chain[m]).index = ALen[m] - 1
  BY <1>3, LenBound, NetLen
<1>6. AThr' = [AThr EXCEPT ![n][t] =
                 IF ALen[m] = 0 THEN Net!Idle
                 ELSE Net!Running("recv", i, ALen[m] - 1, m, 0, None)]
  <2>1. CASE chain[m].blocks = <<>>
    <3>1. thr' = [thr EXCEPT ![n][t] = Idle]
      BY <1>1, <2>1 DEF ServeLatest
    <3> QED
      BY <1>5, <2>1, <3>1, NetEnd
  <2>2. CASE chain[m].blocks # <<>>
    <3>1. PICK b, new : b = Latest(chain[m]) /\ new = Running("recv", i, b, m, 0, None)
      OBVIOUS
    <3>2. thr' = [thr EXCEPT ![n][t] = new]
      BY <1>1, <2>2, <3>1 DEF ServeLatest
    <3>3. Abstracted(new) = Net!Running("recv", i, ALen[m] - 1, m, 0, None)
      <4>1. b.index = ALen[m] - 1 /\ Seen("recv") = "recv"
        BY <1>5, <2>2, <3>1 DEF Seen
      <4>2. Abstracted(new) = Net!Running(Seen("recv"), i, b.index, m, 0, None)
        BY <3>1, NetRunning
      <4> QED
        BY <4>1, <4>2
    <3>4. AThr' = [AThr EXCEPT ![n][t] = Abstracted(new)]
      BY <1>2, <3>2, AbstractMove DEF IInv
    <3> QED
      BY <1>5, <2>2, <3>3, <3>4
  <2> QED
    BY <2>1, <2>2
<1>7. AThr' = [AThr EXCEPT ![n][t] =
                 IF ALen[peers[n][AThr[n][t].peer]] = 0 THEN Net!Idle
                 ELSE Net!Running("recv", AThr[n][t].peer,
                                  ALen[peers[n][AThr[n][t].peer]] - 1,
                                  peers[n][AThr[n][t].peer], 0, None)]
  BY <1>1, <1>4, <1>6
<1> QED
  BY <1>2, <1>3, <1>4, <1>7 DEF Net!ServeLatest, AThr, ALen

\* The peer answers with its blockchain.
LEMMA NetServeAll ==
  ASSUME IInv, IInv', NEW n \in Nodes, NEW t \in Detached, ServeAll(n, t)
  PROVE  Net!ServeAll(n, t)
<1>1. PICK i, m : i = thr[n][t].peer /\ m = peers[n][i]
  OBVIOUS
<1>2. PICK new : new = Loading(i, chain[m].blocks, EmptyChain)
  OBVIOUS
<1>3. /\ t \in Tid /\ thr[n][t].pc = "rawait" /\ <<n, i>> \notin dead /\ Listening(m)
      /\ thr' = [thr EXCEPT ![n][t] = new] /\ UNCHANGED <<chain, peers, dead>>
  BY <1>1, <1>2 DEF ServeAll, At, Tid
<1>4. Net!Taken(n, t) /\ m \in Nodes
  BY <1>1, <1>3, NetTaken DEF OnPeer
<1>5. Net!At(n, t, "rawait") /\ ALen' = ALen /\ AThr[n][t].peer = i
  BY <1>1, <1>3, NetAt, LenSame, NetFields DEF Seen
<1>6. ALen[m] = Len(chain[m].blocks) /\ Len(chain[m].blocks) \in Nat
  BY <1>4, NetLen DEF IInv, TypeOK, Chain
<1>7. Abstracted(new) = Net!Loading(i, ALen[m])
  <2>1. /\ new.pc = "load" /\ new.peer = i /\ new.blk.index = 0 /\ new.from = None
        /\ new.id = 0 /\ new.caller = None /\ new.todo = chain[m].blocks
        /\ new.cand.blocks = <<>>
    BY <1>2 DEF Loading, EmptyChain, NoBlock
  <2>2. Len(new.todo) + Len(new.cand.blocks) = ALen[m] /\ Seen(new.pc) = "load"
    BY <1>6, <2>1 DEF Seen
  <2> QED
    BY <2>1, <2>2, AbstractedIs DEF Net!Loading
<1>8. AThr' = [AThr EXCEPT ![n][t] = Net!Loading(i, ALen[m])]
  BY <1>3, <1>7, AbstractMove DEF IInv
<1>9. AThr' = [AThr EXCEPT ![n][t] =
                 Net!Loading(AThr[n][t].peer, ALen[peers[n][AThr[n][t].peer]])]
  BY <1>1, <1>5, <1>8
<1> QED
  BY <1>3, <1>4, <1>5, <1>9 DEF Net!ServeAll, AThr, ALen

\* A connection broke while a thread waited for an answer.
LEMMA NetGiveUp ==
  ASSUME IInv, IInv', NEW n \in Nodes, NEW t \in Detached, GiveUp(n, t)
  PROVE  Net!GiveUp(n, t)
<1>1. PICK th, i : th = thr[n][t] /\ i = thr[n][t].peer
  OBVIOUS
<1>2. t \in Tid /\ <<n, i>> \in dead /\ UNCHANGED <<chain, peers, dead>>
  BY <1>1 DEF GiveUp, Tid
<1>3. /\ AThr[n][t].peer = i /\ AThr[n][t].idx = th.blk.index /\ ALen' = ALen
      /\ AThr[n][t].pc = Seen(th.pc)
  BY <1>1, <1>2, NetFields, LenSame
<1>4. CASE th.pc = "bwait" /\ thr' = [thr EXCEPT ![n][t] = Sending(@.peer + 1, @.blk)]
  <2>1. PICK new : new = Sending(i + 1, th.blk)
    OBVIOUS
  <2>2. thr' = [thr EXCEPT ![n][t] = new]
    BY <1>1, <1>4, <2>1
  <2>3. Abstracted(new) = Net!Sending(i + 1, th.blk.index)
    BY <2>1, NetForms
  <2>4. AThr' = [AThr EXCEPT ![n][t] = Net!Sending(i + 1, th.blk.index)]
    BY <1>2, <2>2, <2>3, AbstractMove DEF IInv
  <2>5. AThr' = [AThr EXCEPT ![n][t] = Net!Sending(AThr[n][t].peer + 1, AThr[n][t].idx)]
    BY <1>3, <2>4
  <2>6. AThr[n][t].pc \in {"bwait", "bserved"}
    BY <1>3, <1>4 DEF Seen
  <2> QED
    BY <1>2, <1>3, <2>5, <2>6 DEF Net!GiveUp, AThr, ALen
<1>5. CASE th.pc \in {"rlwait", "rawait"} /\ thr' = [thr EXCEPT ![n][t] = Idle]
  <2>1. AThr' = Net!Returned(n, t)
    BY <1>5, NetEnd
  <2>2. AThr[n][t].pc \in {"rlwait", "rawait"}
    BY <1>3, <1>5 DEF Seen
  <2> QED
    BY <1>2, <1>3, <2>1, <2>2 DEF Net!GiveUp, AThr, ALen
<1> QED
  BY <1>1, <1>4, <1>5 DEF GiveUp, At

\* A step that PeerNetwork does not see.
Unseen == UNCHANGED <<ALen, peers, dead, ALife, AThr>>

\* A handler of a received block that returns without a change of the chain.
LEMMA NetRefuse ==
  ASSUME IInv, NEW n \in Nodes, NEW t \in Tid,
         thr[n][t].pc \in {"recv", "eq", "succ", "append"}, thr' = Returned(n, t),
         ALen' = ALen, UNCHANGED <<peers, dead>>
  PROVE  Net!Receive(n, t)
<1>1. AThr' = Net!Returned(n, t) /\ Net!At(n, t, "recv")
  BY NetReturns, NetAt DEF Seen
<1> QED
  BY <1>1 DEF Net!Receive, AThr, ALen

\* The checks of handle_receive_latest_block.
LEMMA NetRecvChecks ==
  ASSUME IInv, IInv', NEW n \in Nodes, NEW t \in Tid,
         RecvValid(n, t) \/ RecvIndex(n, t) \/ RecvSuccessor(n, t)
  PROVE  Net!Receive(n, t) \/ Unseen
<1>1. /\ thr[n][t].pc \in {"recv", "eq", "succ"} /\ UNCHANGED <<chain, peers, dead>>
      /\ \/ thr' = Returned(n, t)
         \/ \E pc \in {"eq", "succ", "append"} : Goto(n, t, pc)
         \/ /\ thr[n][t].pc = "recv" /\ Goto(n, t, "find")
            /\ thr[n][t].blk.index > Len(chain[n].blocks)
  BY DEF RecvValid, RecvIndex, RecvSuccessor, At
<1>2. ALen' = ALen /\ ALife' = ALife
  BY <1>1, LenSame, NetLen
<1>3. CASE thr' = Returned(n, t)
  BY <1>1, <1>2, <1>3, NetRefuse
<1>4. ASSUME NEW pc \in {"eq", "succ", "append"}, Goto(n, t, pc) PROVE Unseen
  <2>1. pc \in PC /\ Seen(pc) = "recv" /\ Seen(thr[n][t].pc) = "recv"
    BY <1>1 DEF PC, Seen
  <2>2. AThr' = AThr
    BY <1>4, <2>1, NetGoto
  <2> QED
    BY <1>1, <1>2, <2>2 DEF Unseen
<1>5. CASE /\ thr[n][t].pc = "recv" /\ Goto(n, t, "find")
           /\ thr[n][t].blk.index > Len(chain[n].blocks)
  <2>1. "find" \in PC /\ Seen("find") = "find"
    BY DEF PC, Seen
  <2>2. Net!Goto(n, t, "find")
    BY <1>5, <2>1, NetGoto
  <2>3. Net!At(n, t, "recv") /\ AThr[n][t].idx > ALen[n]
    BY <1>5, NetAt, NetFields, NetLen DEF Seen
  <2> QED
    BY <1>1, <1>2, <2>2, <2>3 DEF Net!Receive, AThr, ALen
<1> QED
  BY <1>1, <1>3, <1>4, <1>5

\* append_next_block.
LEMMA NetRecvAppend ==
  ASSUME IInv, IInv', PlainInv, NEW n \in Nodes, NEW t \in Tid, RecvAppend(n, t)
  PROVE  Net!Receive(n, t)
<1>1. PICK b, r : b = thr[n][t].blk /\ r = AppendNextBlock(chain[n], b, Now(n))
  OBVIOUS
<1>2. /\ thr[n][t].pc = "append" /\ thr' = Returned(n, t) /\ UNCHANGED <<peers, dead>>
      /\ chain' = [chain EXCEPT ![n] = r.chain]
  BY <1>1 DEF RecvAppend, At
<1>3. /\ b \in Block /\ chain[n] \in Chain /\ chain[n].blocks \in Seq(Block)
      /\ Linked(chain[n].blocks) /\ Now(n) \in Int
  BY <1>1, ThreadFacts DEF ChainOK, Chain
<1>4. PICK k : k = Len(r.chain.blocks)
  OBVIOUS
<1>5. ALen' = [ALen EXCEPT ![n] = k] /\ ALen[n] = Len(chain[n].blocks)
  BY <1>2, <1>4, LenMove DEF IInv
<1>6. CASE r.ok
  <2>1. r.chain.blocks = Append(chain[n].blocks, b) /\ MayFollow(chain[n], b, Now(n))
    BY <1>1, <1>6 DEF AppendNextBlock
  <2>2. k = ALen[n] + 1
    BY <1>3, <1>4, <1>5, <2>1
  <2>3. b.index = ALen[n]
    <3>1. CASE chain[n].blocks = <<>>
      BY <1>3, <1>5, <2>1, <3>1 DEF MayFollow, ValidGenesisBlock
    <3>2. CASE chain[n].blocks # <<>>
      <4>1. Latest(chain[n]).index = ALen[n] - 1 /\ ALen[n] \in Nat
        BY <1>5, <3>2, LenBound
      <4>2. b.index = Latest(chain[n]).index + 1
        BY <2>1, <3>2 DEF MayFollow, ValidNextBlock
      <4> QED
        BY <4>1, <4>2
    <3> QED
      BY <3>1, <3>2
  <2>4. ALen' = [ALen EXCEPT ![n] = ALen[n] + 1]
    BY <1>5, <2>2
  <2>5. /\ AThr' = Net!Returned(n, t) /\ Net!At(n, t, "recv")
        /\ AThr[n][t].idx = ALen[n]
    BY <1>1, <1>2, <2>3, NetReturns, NetAt, NetFields DEF Seen
  <2> QED
    BY <1>2, <2>4, <2>5 DEF Net!Receive, AThr, ALen
<1>7. CASE ~r.ok
  <2>1. r.chain.blocks = chain[n].blocks
    BY <1>1, <1>7 DEF AppendNextBlock
  <2>2. ALen' = ALen
    BY <1>4, <1>5, <2>1 DEF ALen
  <2> QED
    BY <1>2, <2>2, NetRefuse
<1> QED
  BY <1>6, <1>7

\* WebSocketPeers::find.
LEMMA NetFindPeer ==
  ASSUME IInv, IInv', NEW n \in Nodes, NEW t \in Tid, FindPeer(n, t)
  PROVE  Net!FindPeer(n, t)
<1>1. PICK m : m = thr[n][t].from
  OBVIOUS
<1>2. PICK known : known = {i \in DOMAIN peers[n] : peers[n][i] = m}
  OBVIOUS
<1>3. /\ thr[n][t].pc = "find" /\ PeersFree(n) /\ UNCHANGED <<chain, peers, dead>>
      /\ \/ known = {} /\ Goto(n, t, "add")
         \/ \E i \in known :
              /\ \A j \in known : i <= j
              /\ thr' = [thr EXCEPT ![n][t] = WithPeerId(@, i)]
  BY <1>1, <1>2 DEF FindPeer, At
<1>4. /\ Net!At(n, t, "find") /\ Net!PeersFree(n) /\ ALen' = ALen
      /\ AThr[n][t].from = m
  BY <1>1, <1>3, NetAt, NetFree, LenSame, NetFields DEF Seen
<1>5. CASE known = {} /\ Goto(n, t, "add")
  <2>1. "add" \in PC /\ Seen("add") = "add"
    BY DEF PC, Seen
  <2>2. Net!Goto(n, t, "add")
    BY <1>5, <2>1, NetGoto
  <2> QED
    BY <1>2, <1>3, <1>4, <1>5, <2>2 DEF Net!FindPeer, AThr, ALen
<1>6. ASSUME NEW i \in known, \A j \in known : i <= j,
             thr' = [thr EXCEPT ![n][t] = WithPeerId(@, i)]
      PROVE  Net!FindPeer(n, t)
  <2>1. PICK new : new = WithPeerId(thr[n][t], i)
    OBVIOUS
  <2>2. AThr' = [AThr EXCEPT ![n][t] = Abstracted(new)]
    BY <1>6, <2>1, AbstractMove DEF IInv
  <2>3. AThr[n][t] = Abstracted(thr[n][t])
    BY AThrIs
  <2>4. Abstracted(new) = Net!WithPeerId(AThr[n][t], i)
    BY <2>1, <2>3, NetForms
  <2>5. AThr' = [AThr EXCEPT ![n][t] = Net!WithPeerId(AThr[n][t], i)]
    BY <2>2, <2>4
  <2> QED
    BY <1>2, <1>3, <1>4, <1>6, <2>5 DEF Net!FindPeer, AThr, ALen
<1> QED
  BY <1>3, <1>5, <1>6

\* A handler of a received blockchain that returns without a change of the chain.
LEMMA NetDrop ==
  ASSUME IInv, NEW n \in Nodes, NEW t \in Tid,
         thr[n][t].pc \in {"load", "cmp"}, thr' = Returned(n, t),
         UNCHANGED <<chain, peers, dead>>
  PROVE  Net!Compare(n, t)
<1>1. AThr' = Net!Returned(n, t) /\ Net!At(n, t, "load") /\ ALen' = ALen
  BY NetReturns, NetAt, LenSame DEF Seen
<1> QED
  BY <1>1 DEF Net!Compare, AThr, ALen

\* One round of Blockchain::from_json.
LEMMA NetLoadBlock ==
  ASSUME IInv, IInv', PlainInv, NEW n \in Nodes, NEW t \in Detached, LoadBlock(n, t)
  PROVE  Net!Compare(n, t) \/ Unseen
<1>1. PICK th, b, r : /\ th = thr[n][t] /\ b = Head(th.todo)
                      /\ r = AppendNextBlock(th.cand, b, Now(n))
  OBVIOUS
<1>2. /\ t \in Tid /\ t # "ws" /\ th.pc = "load" /\ th.todo # <<>>
      /\ UNCHANGED <<chain, peers, dead>>
  BY <1>1, NodeAssumption DEF LoadBlock, At, Tid
<1>3. /\ th.todo \in Seq(Block) /\ th.cand \in Chain /\ ThreadOK(n, t) /\ th \in Thread
      /\ OnlyLoads(th) /\ th.cand.blocks \in Seq(Block)
  BY <1>1, <1>2, ThreadFacts DEF PlainInv, LoadsWell, Chain
<1>4. CASE r.ok
  <2>1. PICK new : new = Loading(th.peer, Tail(th.todo), r.chain)
    OBVIOUS
  <2>2. thr' = [thr EXCEPT ![n][t] = new]
    BY <1>1, <1>4, <2>1 DEF LoadBlock
  <2>3. /\ new.pc = "load" /\ new.peer = th.peer /\ new.blk = th.blk
        /\ new.from = th.from /\ new.id = th.id /\ new.caller = th.caller
        /\ new.todo = Tail(th.todo) /\ new.cand = r.chain
    BY <1>3, <2>1 DEF Loading, OnlyLoads
  <2>4. r.chain.blocks = Append(th.cand.blocks, b)
    BY <1>1, <1>4 DEF AppendNextBlock
  <2>5. /\ Len(Tail(th.todo)) = Len(th.todo) - 1 /\ Len(th.todo) \in Nat
        /\ Len(th.cand.blocks) \in Nat
        /\ Len(r.chain.blocks) = Len(th.cand.blocks) + 1
    <3>1. b \in Block
      BY <1>1, <1>2, <1>3
    <3> QED
      BY <1>2, <1>3, <2>4, <3>1
  <2>6. Len(new.todo) + Len(new.cand.blocks) = Len(th.todo) + Len(th.cand.blocks)
    <3>1. PICK i \in Nat, k \in Nat : i = Len(th.todo) /\ k = Len(th.cand.blocks)
      BY <2>5
    <3>2. Len(new.todo) = i - 1 /\ Len(new.cand.blocks) = k + 1
      BY <2>3, <2>5, <3>1
    <3>3. (i - 1) + (k + 1) = i + k
      OBVIOUS
    <3> QED
      BY <3>1, <3>2, <3>3
  <2>7. PICK load : load = Len(th.todo) + Len(th.cand.blocks)
    OBVIOUS
  <2>8. Abstracted(new) =
          [pc |-> Seen("load"), peer |-> th.peer, idx |-> th.blk.index,
           from |-> th.from, id |-> th.id, caller |-> th.caller, load |-> load]
    BY <2>3, <2>6, <2>7, AbstractedIs
  <2>9. Abstracted(th) =
          [pc |-> Seen("load"), peer |-> th.peer, idx |-> th.blk.index,
           from |-> th.from, id |-> th.id, caller |-> th.caller, load |-> load]
    BY <1>2, <2>7, AbstractedIs
  <2>10. AThr' = [AThr EXCEPT ![n][t] = AThr[n][t]]
    <3>1. AThr' = [AThr EXCEPT ![n][t] = Abstracted(new)]
      BY <1>2, <2>2, AbstractMove DEF IInv
    <3>2. AThr[n][t] = Abstracted(th)
      BY <1>1, <1>2, AThrIs
    <3> QED
      BY <2>8, <2>9, <3>1, <3>2
  <2>11. AThr' = AThr
    <3>1. AThr \in [Nodes -> [Tid -> AThread]]
      BY AThrTyped DEF IInv
    <3> QED
      BY <2>10, <3>1
  <2> QED
    BY <1>2, <2>11, LenSame, NetLen DEF Unseen
<1>5. CASE ~r.ok
  <2>1. thr' = [thr EXCEPT ![n][t] = Idle]
    BY <1>1, <1>5 DEF LoadBlock
  <2>2. thr' = Returned(n, t)
    BY <1>2, <2>1 DEF Returned
  <2> QED
    BY <1>1, <1>2, <2>2, NetDrop
<1> QED
  BY <1>4, <1>5

\* The checks of what was loaded, and the assignment.
LEMMA NetLoadStep ==
  ASSUME ~ProofOfWork, IInv, IInv', PlainInv, NEW n \in Nodes, NEW t \in Detached,
         LoadStep(n, t)
  PROVE  Net!Compare(n, t) \/ Net!Assign(n, t) \/ Unseen
<1>1. PICK th : th = thr[n][t]
  OBVIOUS
<1>2. /\ t \in Tid /\ th.todo \in Seq(Block) /\ th.cand \in Chain
      /\ th.cand.blocks \in Seq(Block) /\ LoadsWell(th)
  BY <1>1, ThreadFacts DEF PlainInv, Chain, Tid
<1>3. th.pc \in {"cmp", "assign"} => AThr[n][t].load = Len(th.cand.blocks)
  <2>1. PICK i \in Nat, k \in Nat : i = Len(th.todo) /\ k = Len(th.cand.blocks)
    BY <1>2
  <2>2. AThr[n][t].load = i + k
    BY <1>1, <1>2, <2>1, NetFields
  <2>3. th.pc \in {"cmp", "assign"} => i = 0
    BY <1>2, <2>1 DEF LoadsWell
  <2>4. i = 0 => i + k = k
    OBVIOUS
  <2> QED
    BY <2>1, <2>2, <2>3, <2>4
<1>4. CASE LoadBlock(n, t)
  BY <1>4, NetLoadBlock
<1>5. CASE LoadValid(n, t)
  <2>1. th.pc = "load" /\ UNCHANGED <<chain, peers, dead>>
    BY <1>1, <1>5 DEF LoadValid, At
  <2>2. CASE thr' = Returned(n, t)
    BY <1>1, <1>2, <2>1, <2>2, NetDrop
  <2>3. CASE Goto(n, t, "cmp")
    <3>1. "cmp" \in PC /\ Seen("cmp") = "load" /\ Seen(thr[n][t].pc) = "load"
      BY <1>1, <2>1 DEF PC, Seen
    <3>2. AThr' = AThr
      BY <1>2, <2>3, <3>1, NetGoto
    <3> QED
      BY <2>1, <3>2, LenSame, NetLen DEF Unseen
  <2> QED
    BY <1>5, <2>2, <2>3 DEF LoadValid
<1>6. CASE Compare(n, t)
  <2>1. th.pc = "cmp" /\ UNCHANGED <<chain, peers, dead>>
    BY <1>1, <1>6 DEF Compare, At
  <2>2. CASE thr' = Returned(n, t)
    BY <1>1, <1>2, <2>1, <2>2, NetDrop
  <2>3. CASE Greater(th.cand, chain[n]) /\ Goto(n, t, "assign")
    <3>1. "assign" \in PC /\ Seen("assign") = "assign"
      BY DEF PC, Seen
    <3>2. Net!Goto(n, t, "assign")
      BY <1>2, <2>3, <3>1, NetGoto
    <3>3. AThr[n][t].load > ALen[n] /\ Net!At(n, t, "load") /\ ALen' = ALen
      <4>1. Len(th.cand.blocks) > Len(chain[n].blocks)
        BY <2>3 DEF Greater
      <4>2. ALen[n] = Len(chain[n].blocks)
        BY NetLen
      <4> QED
        BY <1>1, <1>2, <1>3, <2>1, <4>1, <4>2, NetAt, LenSame DEF Seen
    <3> QED
      BY <2>1, <3>2, <3>3 DEF Net!Compare, AThr, ALen
  <2> QED
    BY <1>1, <1>6, <2>2, <2>3 DEF Compare
<1>7. CASE Assign(n, t)
  <2>1. /\ th.pc = "assign" /\ chain' = [chain EXCEPT ![n] = th.cand]
        /\ thr' = Returned(n, t) /\ UNCHANGED <<peers, dead>>
    BY <1>1, <1>7 DEF Assign, At
  <2>2. ALen' = [ALen EXCEPT ![n] = AThr[n][t].load]
    <3>1. PICK c, k : c = th.cand /\ k = Len(c.blocks)
      OBVIOUS
    <3>2. ALen' = [ALen EXCEPT ![n] = k]
      BY <2>1, <3>1, LenMove DEF IInv
    <3>3. AThr[n][t].load = k
      BY <1>3, <2>1, <3>1
    <3> QED
      BY <3>2, <3>3
  <2>3. AThr' = Net!Returned(n, t) /\ Net!At(n, t, "assign")
    BY <1>1, <1>2, <2>1, NetReturns, NetAt DEF Seen
  <2> QED
    BY <2>1, <2>2, <2>3 DEF Net!Assign, AThr, ALen
<1> QED
  BY <1>4, <1>5, <1>6, <1>7 DEF LoadStep

\* Every step of a thread.
LEMMA NetThreadStep ==
  ASSUME ~ProofOfWork, IInv, IInv', PlainInv, NEW n \in Nodes, NEW t \in Tid,
         ThreadStep(n, t)
  PROVE  Net!ThreadStep(n, t) \/ Unseen
<1>1. CASE t = "http" /\ HttpStep(n)
  <2>1. ~MineBlock(n)
    BY DEF MineBlock, PlainInv, ChainFree, At
  <2>2. Net!DetachBroadcast(n)
    BY <1>1, <2>1, NetDetachBroadcast DEF HttpStep
  <2> QED
    BY <1>1, <2>2 DEF Net!ThreadStep
<1>2. CASE AddStep(n, t)
  BY <1>2, NetAddStep DEF Net!ThreadStep
<1>3. CASE t # "http" /\ RecvStep(n, t)
  <2>1. Net!Receive(n, t) \/ Net!FindPeer(n, t) \/ Unseen
    BY <1>3, NetRecvChecks, NetRecvAppend, NetFindPeer DEF RecvStep
  <2> QED
    BY <1>3, <2>1 DEF Net!ThreadStep
<1>4. CASE t \in Detached /\ SendStep(n, t)
  <2>1. Net!SendStep(n, t)
    BY <1>4, NetBroadcast, NetBroadcastSend, NetServeBroadcast, NetRequestSend,
       NetServeLatest, NetServeAll, NetGiveUp DEF SendStep, Net!SendStep
  <2> QED
    BY <1>4, <2>1 DEF Net!ThreadStep
<1>5. CASE t \in Detached /\ LoadStep(n, t)
  BY <1>5, NetLoadStep DEF Net!ThreadStep
<1> QED
  BY <1>1, <1>2, <1>3, <1>4, <1>5 DEF ThreadStep

\* A connection breaks.
LEMMA NetBreak ==
  ASSUME NEW n \in Nodes, NEW i \in DOMAIN peers[n], BreakConnection(n, i)
  PROVE  Net!BreakConnection(n, i)
<1>1. /\ Cardinality(dead) < MaxLosses /\ <<n, i>> \notin dead
      /\ dead' = dead \union {<<n, i>>} /\ UNCHANGED <<chain, peers, thr>>
      /\ \A t \in Detached : thr[n][t].peer = i => thr[n][t].pc # "bserved"
  BY DEF BreakConnection, At
<1>2. \A t \in Detached : AThr[n][t].peer = i => ~Net!At(n, t, "bserved")
  <2> SUFFICES ASSUME NEW t \in Detached, AThr[n][t].peer = i
               PROVE  ~Net!At(n, t, "bserved")
    OBVIOUS
  <2>1. t \in Tid
    BY DEF Tid
  <2>2. thr[n][t].pc # "bserved"
    BY <1>1, <2>1, NetFields
  <2>3. Seen(thr[n][t].pc) # "bserved"
    BY <2>2 DEF Seen
  <2> QED
    BY <2>1, <2>3, NetAt
<1>3. ALen' = ALen /\ AThr' = AThr
  BY <1>1, LenSame, TableNow
<1>4. Net!Cardinality(dead) = Cardinality(dead)
  BY DEF Net!Cardinality, Cardinality
<1>5. Net!Cardinality(dead) < MaxLosses
  BY <1>1, <1>4
<1> QED
  BY <1>1, <1>2, <1>3, <1>5 DEF Net!BreakConnection, AThr, ALen

\* Every step of the network.
LEMMA NextNet ==
  ASSUME ~ProofOfWork, IInv, IInv', PlainInv, [Next]_vars
  PROVE  Net!Next \/ Unseen
<1>1. ASSUME UNCHANGED <<chain, peers, dead, thr>> PROVE Unseen
  BY <1>1, LenSame, TableNow DEF Unseen, ALife
<1>2. ASSUME NEW n \in Nodes, UserRequest(n) PROVE Net!Next
  BY <1>2, NetUserRequest DEF Net!Next
<1>3. ASSUME NEW n \in Nodes, NEW t \in Tid, ThreadStep(n, t) PROVE Net!Next \/ Unseen
  BY <1>3, NetThreadStep DEF Net!Next, Net!Tid, Tid
<1>4. ASSUME NEW n \in Nodes, NEW i \in DOMAIN peers[n], BreakConnection(n, i)
      PROVE  Net!Next
  BY <1>4, NetBreak DEF Net!Next
<1>5. CASE Tick
  BY <1>1, <1>5 DEF Tick
<1>6. CASE UNCHANGED vars
  BY <1>1, <1>6 DEF vars
<1> QED
  BY <1>2, <1>3, <1>4, <1>5, <1>6 DEF Next

\* The initial states correspond.
LEMMA NetInit == Init => Net!Init
<1> SUFFICES ASSUME Init PROVE Net!Init
  OBVIOUS
<1>1. ALen = [n \in Nodes |-> 0]
  <2>1. \A n \in Nodes : chain[n] = EmptyChain
    BY DEF Init
  <2>2. Len(EmptyChain.blocks) = 0
    BY DEF EmptyChain
  <2> QED
    BY <2>1, <2>2 DEF ALen
<1>2. AThr = [n \in Nodes |-> [t \in Tid |-> Net!Idle]]
  <2>1. \A n \in Nodes, t \in Tid : thr[n][t] = Idle
    BY DEF Init
  <2>2. AThr = [n \in Nodes |-> [t \in Tid |-> Abstracted(thr[n][t])]]
    BY DEF AThr
  <2>3. \A n \in Nodes, t \in Tid : Abstracted(thr[n][t]) = Net!Idle
    BY <2>1, NetForms
  <2> QED
    BY <2>2, <2>3
<1>3. peers = [n \in Nodes |-> <<>>] /\ dead = {}
  BY DEF Init
<1> QED
  BY <1>1, <1>2, <1>3 DEF Net!Init, ALen, AThr, Net!Tid, Tid

\* Without proof of work, a network of any size under any interleaving implements
\* PeerNetwork: what one node does to another depends on their blockchains only
\* through their lengths.
THEOREM NetRefinement ==
  ASSUME ~ProofOfWork
  PROVE  Spec => RefinesPeerNetwork
<1>1. Init => Net!Init /\ PlainInv
  BY NetInit, PlainInit
<1>2. IInv /\ IInv' /\ PlainInv /\ [Next]_vars => PlainInv'
  BY PlainStep
<1>3. IInv /\ IInv' /\ PlainInv /\ [Next]_vars => [Net!Next]_Net!vars
  BY NextNet DEF Unseen, ALen, ALife, AThr, Net!vars
<1> QED
  BY <1>1, <1>2, <1>3, Invariance, PTL DEF Spec, RefinesPeerNetwork, Net!Spec

=============================================================================
