---------------------------- MODULE Transaction ----------------------------
(***************************************************************************)
(* Transactions, the list of unspent outputs and the pool of unconfirmed   *)
(* transactions (include/transaction.h, src/transaction.cc).  SHA-256 is   *)
(* taken to be injective: the hash of a transaction is what is hashed.  A  *)
(* signature is represented by the address whose key made it.  Amounts are *)
(* far from the limits of std::size_t.                                     *)
(***************************************************************************)
EXTENDS Integers, Sequences, SequencesExt

CONSTANTS
  Addresses,     \* addresses of the users' wallets
  RewardAmount,  \* config().transaction_reward_amount
  NumPerBlock    \* config().transaction_num_per_block

ASSUME TransactionAssumption ==
  RewardAmount \in Nat \ {0} /\ NumPerBlock \in Nat

\* Transaction: inputs are [hash, index], outputs are [amount, address].
Tx(type, index, inputs, outputs, signer) ==
  [type |-> type, index |-> index, inputs |-> inputs, outputs |-> outputs,
   signer |-> signer]

\* determine_hash: neither the type nor the signatures are hashed.
Hash(t) == <<t.index, t.inputs, t.outputs>>

\* Transaction::reward; nobody signs it.
Reward(address, index) ==
  Tx("reward", index, <<>>,
     <<[amount |-> RewardAmount, address |-> address]>>, "none")

\* The unspent output that output i of t becomes; the code counts from 0.
UnspentOutput(t, i) == [hash |-> Hash(t), index |-> i - 1, output |-> t.outputs[i]]

\* UTxO::operator==(TxI).
Refers(txi, utxo) == utxo.hash = txi.hash /\ utxo.index = txi.index

\* The positions of the unspent outputs that an input refers to.
Matching(unspent, txi) == {i \in DOMAIN unspent : Refers(txi, unspent[i])}

TotalAmount(outputs) == FoldLeft(LAMBDA sum, o : sum + o.amount, 0, outputs)

\* What the inputs of t are worth according to a list of unspent outputs.
InputSum(t, unspent) ==
  FoldLeft(LAMBDA sum, txi :
             sum + MapThenSumSet(LAMBDA i : unspent[i].output.amount,
                                 Matching(unspent, txi)),
           0, t.inputs)

\* Transaction::valid, against the unspent outputs t was linked with.
ValidStandard(t, unspent) ==
  /\ \A k \in DOMAIN t.inputs :
       LET found == Matching(unspent, t.inputs[k])
       IN  found # {} /\ unspent[Max(found)].output.address = t.signer
  /\ InputSum(t, unspent) = TotalAmount(t.outputs)

ValidReward(t) ==
  /\ t.inputs = <<>>
  /\ Len(t.outputs) = 1
  /\ t.outputs[1].amount = RewardAmount

ValidTx(t, unspent) ==
  IF t.type = "reward" THEN ValidReward(t) ELSE ValidStandard(t, unspent)

\* A transaction linked with a copy of unspent outputs (m_unspent_outputs).
Link(t, unspent) == [tx |-> t, unspent |-> unspent]

\* Leaving out the position.
ValidListAnyIndex(links, index) ==
  /\ Len(links) <= NumPerBlock + 1
  /\ \A i \in DOMAIN links :
       /\ links[i].tx.type = IF i = 1 THEN "reward" ELSE "standard"
       /\ ValidTx(links[i].tx, links[i].unspent)

\* TransactionList::valid of linked transactions in a block at position index.
ValidList(links, index) ==
  /\ Len(links) <= NumPerBlock + 1
  /\ \A i \in DOMAIN links :
       /\ links[i].tx.type = IF i = 1 THEN "reward" ELSE "standard"
       /\ links[i].tx.index = index
       /\ ValidTx(links[i].tx, links[i].unspent)

-----------------------------------------------------------------------------
(* Erasing from a std::list while iterating over it.                        *)

\* for (it = begin; it != end; ++it) if (*it in DOMAIN more) it = erase(it), which
\* is done more[*it] times again before ++it.  The element behind the last one
\* erased is never looked at.  When that was the last element, it is end(), and
\* ++it makes it begin() again: a list is a ring.
Sweep(s, more) ==
  FoldLeft(LAMBDA acc, x :
             IF acc.more > 0 THEN [acc EXCEPT !.more = @ - 1]
             ELSE IF x \in DOMAIN more /\ ~acc.skip
               THEN [kept |-> acc.kept, skip |-> TRUE, more |-> more[x]]
               ELSE [kept |-> Append(acc.kept, x), skip |-> FALSE, more |-> 0],
           [kept |-> <<>>, skip |-> FALSE, more |-> 0], s)

\* A list s after that loop.
EraseRuns(s, more) ==
  LET round[k \in 0..Len(s)] ==
        IF k = 0 THEN [kept |-> s, skip |-> TRUE, more |-> 0]
        ELSE IF round[k - 1].skip /\ round[k - 1].kept # <<>>
               THEN Sweep(round[k - 1].kept, more)
               ELSE round[k - 1]
  IN  round[Len(s)].kept

\* A list s after the loop that erases the elements in gone, one at a time.
EraseWhere(s, gone) == EraseRuns(s, [x \in gone |-> 0])

-----------------------------------------------------------------------------
(* TransactionUnspentOutputs.                                               *)

\* Forgetting to erase what the inputs refer to.
UpdateKeepsSpent(unspent, t) ==
  unspent \o [i \in DOMAIN t.outputs |-> UnspentOutput(t, i)]

\* update: adds the outputs of t, then erases what its inputs refer to.
Update(unspent, t) ==
  FoldLeft(LAMBDA u, txi : EraseWhere(u, {o \in ToSet(u) : Refers(txi, o)}),
           unspent \o [i \in DOMAIN t.outputs |-> UnspentOutput(t, i)],
           t.inputs)

\* The loop over the transactions of a block.
UpdateAll(unspent, ts) == FoldLeft(Update, unspent, ts)

-----------------------------------------------------------------------------
(* TransactionUnconfirmedPool: a sequence of linked transactions.           *)

SharesInput(t, u) ==
  \E i \in DOMAIN t.inputs, j \in DOMAIN u.inputs : t.inputs[i] = u.inputs[j]

\* Leaving out the comparison with the transactions already in the pool.
CanAddAnyInput(pool, link) ==
  Len(pool) # NumPerBlock /\ ValidTx(link.tx, link.unspent)

\* add throws unless this holds, and appends otherwise.
CanAdd(pool, link) ==
  /\ Len(pool) # NumPerBlock
  /\ ValidTx(link.tx, link.unspent)
  /\ \A i \in DOMAIN pool : ~SharesInput(link.tx, pool[i].tx)

\* remove: the transactions with the hash of t.
RemoveTx(pool, t) == EraseWhere(pool, {link \in ToSet(pool) : Hash(link.tx) = Hash(t)})

\* The loop over the transactions of a block.
RemoveAll(pool, ts) == FoldLeft(RemoveTx, pool, ts)

\* The inputs of t that are not unspent.
Missing(t, unspent) == {k \in DOMAIN t.inputs : Matching(unspent, t.inputs[k]) = {}}

\* The inputs of t behind the first missing one: how many there are at most that
\* prune takes for missing when t no longer exists.
Dangling(t, unspent) == 0..(Len(t.inputs) - Min(Missing(t, unspent)))

\* prune: erases the transactions with a missing input.  The inner loop goes on
\* over the remaining inputs of the transaction it has erased; whether such an
\* input is found is undefined, and if it is not, the transaction behind is
\* erased.  These are the pools that can result.  (If there is none behind, the
\* process may also end.)
Prune(pool, unspent) ==
  LET gone == {link \in ToSet(pool) : Missing(link.tx, unspent) # {}}
  IN  {EraseRuns(pool, more) :
         more \in {f \in [gone -> UNION {Dangling(link.tx, unspent) : link \in gone}] :
                     \A link \in gone : f[link] \in Dangling(link.tx, unspent)}}
=============================================================================
