--------------------------- MODULE LedgerThreads ---------------------------
(***************************************************************************)
(* The handlers of module Ledger with their interleavings inside a node.   *)
(* The HTTP server, the websocket server and the detached thread that      *)
(* loads a blockchain share the list of unspent outputs and the pool, and  *)
(* neither has a mutex (include/transaction.h).                            *)
(*                                                                         *)
(* A step is one call of a member function of a list, or what a handler    *)
(* does with the blockchain; what threads can do to each other between the *)
(* operations of the blockchain is the subject of module Node.  A member   *)
(* function that runs during another one on the same list is undefined     *)
(* behaviour, which is left out: the model shows what goes wrong even if   *)
(* each of them were atomic.                                               *)
(***************************************************************************)
EXTENDS Ledger

\* "load" is the detached thread in handle_receive_all_blocks; one at a time.
Threads == {"http", "ws", "load"}

VARIABLE job  \* job[n][t]: what thread t of n is in the middle of

threadVars == <<vars, job>>

NoJob == [step |-> "idle"]

Free(n, t) == job[n][t] = NoJob

Continue(n, t, j) == job' = [job EXCEPT ![n][t] = j]

-----------------------------------------------------------------------------
(* Transactions.                                                            *)

\* The GET requests of bwallet transfer only read.
ReadRequest(a) ==
  /\ \/ \E n \in Nodes, to \in Payees, amount \in Amounts :
          Free(n, "http") /\ TransferUnspent(a, n, to, amount)
     \/ /\ wallet[a].step = "latest"
        /\ Free(wallet[a].node, "http")
        /\ TransferLatest(a)
  /\ UNCHANGED job

\* handle_transactions_post links the transaction with the unspent outputs.
LinkPosted(a) ==
  /\ wallet[a].step = "post"
  /\ LET n == wallet[a].node
     IN  /\ HttpFree(n) /\ Free(n, "http")
         /\ Continue(n, "http", [step |-> "add",
                                 link |-> Link(wallet[a].tx, utxos[n])])
  /\ wallet' = [wallet EXCEPT ![a] = NoTransfer]
  /\ spent' = [spent EXCEPT !.transfers = @ + 1]
  /\ UNCHANGED <<content, chain, utxos, pool, calls, ahead, skipped>>

\* The pool's add, and broadcast_transaction, for which the HTTP server waits.
AddPosted(n) ==
  /\ job[n]["http"].step = "add"
  /\ LET link == job[n]["http"].link
     IN  IF CanAdd(pool[n], link)
           THEN /\ pool' = [pool EXCEPT ![n] = Append(@, link)]
                /\ Calling({Call("transaction", m, n, link.tx) : m \in Others(n)})
           ELSE UNCHANGED <<pool, calls>>
  /\ Continue(n, "http", NoJob)
  /\ UNCHANGED <<content, chain, utxos, wallet, spent, ahead, skipped>>

\* handle_receive_transaction: the same two calls.
LinkReceived(c) ==
  /\ c.op = "transaction"
  /\ Free(c.at, "ws")
  /\ Continue(c.at, "ws", [step |-> "add", call |-> c,
                           link |-> Link(c.arg, utxos[c.at])])
  /\ UNCHANGED vars

AddReceived(n) ==
  /\ job[n]["ws"].step = "add"
  /\ LET link == job[n]["ws"].link
     IN  pool' = [pool EXCEPT ![n] = IF CanAdd(@, link) THEN Append(@, link) ELSE @]
  /\ Serving(job[n]["ws"].call, {})
  /\ Continue(n, "ws", NoJob)
  /\ UNCHANGED <<content, chain, utxos, wallet, spent, ahead, skipped>>

-----------------------------------------------------------------------------
(* handle_blocks_post.                                                      *)

\* The reward is made for the length that the chain has now.
BeginBlock(n, a) ==
  /\ <<a, n>> \in Mines
  /\ HttpFree(n) /\ Free(n, "http")
  /\ Len(content) < MaxBlocks /\ spent.requests < MaxRequests
  /\ Continue(n, "http", [step  |-> "next",
                     links |-> <<Link(Reward(a, Len(chain[n].blocks)), <<>>)>>])
  /\ UNCHANGED vars

Full(links) == Len(links) > NumPerBlock

\* The pool's empty and next, once for each transaction of the block.
NextTransaction(n) ==
  /\ job[n]["http"].step = "next"
  /\ ~Full(job[n]["http"].links) /\ pool[n] # <<>>
  /\ pool' = [pool EXCEPT ![n] = Tail(@)]
  /\ Continue(n, "http", [step  |-> "next",
                     links |-> Append(job[n]["http"].links, Head(pool[n]))])
  /\ UNCHANGED <<content, chain, utxos, calls, wallet, spent, ahead, skipped>>

Updating(ts) == [step |-> "update", ts |-> ts, todo |-> ts]

ConstructBlock(n) ==
  /\ job[n]["http"].step = "next"
  /\ LET links == job[n]["http"].links
     IN  /\ Full(links) \/ pool[n] = <<>>
         /\ IF CanConstruct(n, links)
              THEN /\ Construct(n, links)
                   /\ Continue(n, "http",
                               Updating([i \in DOMAIN links |-> links[i].tx]))
                   /\ UNCHANGED spent
              ELSE /\ spent' = [spent EXCEPT !.requests = @ + 1]
                   /\ Continue(n, "http", NoJob)
                   /\ UNCHANGED <<content, chain>>
  /\ UNCHANGED <<utxos, pool, calls, wallet, ahead, skipped>>

-----------------------------------------------------------------------------
(* Blocks and chains from peers.                                            *)

SendBlock(c) == BroadcastLatestBlock(c) /\ UNCHANGED job

\* handle_receive_latest_block up to the lists.
BeginReceive(c) ==
  /\ c.op = "block"
  /\ Free(c.at, "ws")
  /\ TakeBlock(c)
  /\ IF Verdict(c.at, c.arg) \in {"request", "append"}
       THEN Continue(c.at, "ws", Updating(content[c.arg.hash]))
       ELSE UNCHANGED job
  /\ UNCHANGED <<content, utxos, pool, wallet, spent, skipped>>

SendRequest(c) == RequestAllBlocks(c) /\ UNCHANGED job

\* handle_receive_all_blocks up to blockchain_setup.
BeginLoad(c) ==
  /\ c.op = "load"
  /\ Free(c.at, "load")
  /\ LET loaded == FromJson(c.arg, Clock).chain
     IN  IF Loads(c.arg) /\ Greater(loaded, chain[c.at])
           THEN /\ chain' = [chain EXCEPT ![c.at] = loaded]
                /\ ahead' = [ahead EXCEPT ![c.at] = FALSE]
                /\ skipped' = [skipped EXCEPT ![c.at] = FALSE]
                /\ Continue(c.at, "load", [step |-> "clear"])
           ELSE UNCHANGED <<chain, ahead, skipped, job>>
  /\ Serving(c, {})
  /\ UNCHANGED <<content, utxos, pool, wallet, spent>>

\* blockchain_setup clears the unspent outputs and then copies the blocks.
ClearUnspent(n) ==
  /\ job[n]["load"].step = "clear"
  /\ utxos' = [utxos EXCEPT ![n] = <<>>]
  /\ Continue(n, "load", [step |-> "copy"])
  /\ UNCHANGED <<content, chain, pool, calls, wallet, spent, ahead, skipped>>

CopyBlocks(n) ==
  /\ job[n]["load"].step = "copy"
  /\ Continue(n, "load", Updating(FlattenSeq(
       [i \in DOMAIN chain[n].blocks |-> content[chain[n].blocks[i].hash]])))
  /\ UNCHANGED vars

-----------------------------------------------------------------------------
(* What all three end with.                                                 *)

\* After the unspent outputs the handler turns to the pool.
AfterUpdate(t, ts) ==
  IF t = "ws" THEN [step |-> "remove", todo |-> ts] ELSE [step |-> "updated"]

\* update, once for each transaction.
UpdateUnspent(n, t) ==
  /\ job[n][t].step = "update"
  /\ LET todo == job[n][t].todo
     IN  /\ utxos' = [utxos EXCEPT ![n] = Update(@, Head(todo))]
         /\ Continue(n, t, IF Len(todo) > 1 THEN [job[n][t] EXCEPT !.todo = Tail(@)]
                                            ELSE AfterUpdate(t, job[n][t].ts))
  /\ UNCHANGED <<content, chain, pool, calls, wallet, spent, ahead, skipped>>

\* A received block: the pool's remove, once for each transaction.
RemoveConfirmed(n) ==
  /\ job[n]["ws"].step = "remove" /\ job[n]["ws"].todo # <<>>
  /\ pool' = [pool EXCEPT ![n] = RemoveTx(@, Head(job[n]["ws"].todo))]
  /\ Continue(n, "ws", [step |-> "remove", todo |-> Tail(job[n]["ws"].todo)])
  /\ UNCHANGED <<content, chain, utxos, calls, wallet, spent, ahead, skipped>>

\* The pool's prune; the broadcast of a block posted here is detached last.
PrunePool(n, t) ==
  /\ \/ /\ t = "http" /\ job[n][t].step = "updated"
        /\ Calling({Call("broadcast", n, n, 0)})
     \/ /\ t = "ws" /\ job[n][t].step = "remove" /\ job[n][t].todo = <<>>
        /\ UNCHANGED calls
  /\ PruneTo(n, pool[n], utxos[n])
  /\ Continue(n, t, NoJob)
  /\ UNCHANGED <<content, chain, utxos, wallet, spent, ahead>>

\* The end of blockchain_setup.
ClearPool(n) ==
  /\ job[n]["load"].step = "updated"
  /\ pool' = [pool EXCEPT ![n] = <<>>]
  /\ Continue(n, "load", NoJob)
  /\ UNCHANGED <<content, chain, utxos, calls, wallet, spent, ahead, skipped>>

-----------------------------------------------------------------------------
ThreadInit == Init /\ job = [n \in Nodes |-> [t \in Threads |-> NoJob]]

WalletStep(a) ==
  ReadRequest(a) \/ LinkPosted(a) \/ (\E n \in Nodes : BeginBlock(n, a))

CallStep(c) ==
  \/ LinkReceived(c) \/ SendBlock(c) \/ BeginReceive(c)
  \/ SendRequest(c) \/ BeginLoad(c)

ListStep(n, t) == UpdateUnspent(n, t) \/ PrunePool(n, t)

JobStep(n) ==
  \/ AddPosted(n) \/ AddReceived(n) \/ NextTransaction(n) \/ ConstructBlock(n)
  \/ ClearUnspent(n) \/ CopyBlocks(n) \/ ClearPool(n)
  \/ RemoveConfirmed(n)
  \/ \E t \in Threads : ListStep(n, t)

ThreadNext == \/ \E a \in Addresses : WalletStep(a)
              \/ \E c \in DOMAIN calls : CallStep(c)
              \/ \E n \in Nodes : JobStep(n)

ThreadSpec == ThreadInit /\ [][ThreadNext]_threadVars

-----------------------------------------------------------------------------
\* No chain spends an output twice: the pool refuses a transaction that has an
\* input in common with another one in the pool, and this is to keep them from
\* meeting in a block.
OutputsSpentOnce ==
  \A n \in Nodes : \A p, q \in TxAt(n) :
    p # q => ~SharesInput(TxOf(n, p), TxOf(n, q))
=============================================================================
