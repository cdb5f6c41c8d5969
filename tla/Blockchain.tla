---------------------------- MODULE Blockchain ----------------------------
(***************************************************************************)
(* Blocks and blockchains (include/blockchain.h).  The block's data is     *)
(* left out and SHA-256 is taken to be injective: a hash is the number of  *)
(* the block in the order in which blocks were completed anywhere, so two  *)
(* blocks have the same hash iff they are the same block.                  *)
(***************************************************************************)
EXTENDS Difficulty, Sequences

CONSTANTS
  ProofOfWork,   \* TRUE iff built with PROOF_OF_WORK
  TimeMaxDelta   \* config().blockgen_time_max_delta

ASSUME BlockchainAssumption ==
  /\ ProofOfWork \in BOOLEAN
  /\ TimeMaxDelta \in Nat

\* An absent m_hash_prev, and the hash of a block still being mined.
NoHash == 0

\* zeros is m_hash.zero_prefix_length().
Block == [hash : Nat, prev : Nat, index : Nat, ts : Int, zeros : Nat]

NoBlock == [hash |-> NoHash, prev |-> NoHash, index |-> 0, ts |-> 0, zeros |-> 0]

\* m_blocks and m_difficulty_adjuster (which stays as it is without proof of
\* work, where the class does not have it).
Chain == [blocks : Seq(Block), da : Adjuster]

EmptyChain == [blocks |-> <<>>, da |-> InitAdjuster]

Latest(c) == c.blocks[Len(c.blocks)]

-----------------------------------------------------------------------------
(* Block.                                                                   *)

\* The position of the last block instead of the next one.
MakeBlockOffByOne(c, now) ==
  [hash  |-> NoHash,
   prev  |-> IF c.blocks = <<>> THEN NoHash ELSE Latest(c).hash,
   index |-> Len(c.blocks) - 1,
   ts    |-> now,
   zeros |-> 0]

\* Forgetting the hash of the predecessor.
MakeBlockUnlinked(c, now) ==
  [hash  |-> NoHash,
   prev  |-> NoHash,
   index |-> Len(c.blocks),
   ts    |-> now,
   zeros |-> 0]

\* The two public constructors; the hash is settled once mining ends.
MakeBlock(c, now) ==
  [hash  |-> NoHash,
   prev  |-> IF c.blocks = <<>> THEN NoHash ELSE Latest(c).hash,
   index |-> IF c.blocks = <<>> THEN 0 ELSE Latest(c).index + 1,
   ts    |-> now,
   zeros |-> 0]

\* Leaving the clock out.
BlockValidAnyTime(b, now) == TRUE

\* Block::valid: the data and the hash of an honest block are in order, its
\* timestamp must not lie too far in the future.
BlockValid(b, now) == b.ts - TimeMaxDelta < now

IsGenesis(b) == b.index = 0 /\ b.prev = NoHash

IsSuccessorOf(b, p) ==
  /\ b.ts > p.ts - TimeMaxDelta
  /\ b.index = p.index + 1
  /\ b.prev # NoHash
  /\ b.prev = p.hash

MaxDifficulty(b) == Frac(2^b.zeros, 1)

-----------------------------------------------------------------------------
(* Blockchain.                                                              *)

ValidGenesisBlock(b, now) ==
  /\ b.index = 0
  /\ b.prev = NoHash
  /\ BlockValid(b, now)

ValidNextBlock(b, p, now) ==
  /\ b.index = p.index + 1
  /\ b.prev # NoHash
  /\ b.prev = p.hash
  /\ BlockValid(b, now)

\* Relying on the caller's check of the block instead of repeating it.
MayFollowUnchecked(c, b, now) == BlockValid(b, now)

\* The checks append_next_block makes before it touches the chain.
MayFollow(c, b, now) ==
  IF c.blocks = <<>> THEN ValidGenesisBlock(b, now)
                     ELSE ValidNextBlock(b, Latest(c), now)

\* append_next_block: whether it returns normally, and the chain it leaves.
\* The adjuster has moved on even if the block then turns out to be too easy.
AppendNextBlock(c, b, now) ==
  LET da == IF ProofOfWork THEN Adjust(c.da, b.ts) ELSE c.da
      ok == /\ MayFollow(c, b, now)
            /\ ProofOfWork => FracLeq(da.difficulty, MaxDifficulty(b))
  IN  [ok    |-> ok,
       chain |-> [blocks |-> IF ok THEN Append(c.blocks, b) ELSE c.blocks,
                  da     |-> IF MayFollow(c, b, now) THEN da ELSE c.da]]

\* Blockchain::from_json: appends one block after the other to an empty chain.
FromJson(bs, now) ==
  LET load[k \in 0..Len(bs)] ==
        IF k = 0 THEN [ok |-> TRUE, chain |-> EmptyChain]
        ELSE IF ~load[k - 1].ok THEN load[k - 1]
        ELSE AppendNextBlock(load[k - 1].chain, bs[k], now)
  IN  load[Len(bs)]

\* Blockchain::valid.
ValidChain(bs, now) ==
  /\ bs # <<>>
  /\ \A i \in DOMAIN bs : BlockValid(bs[i], now)
  /\ IsGenesis(bs[1])
  /\ \A i \in 2..Len(bs) : IsSuccessorOf(bs[i], bs[i - 1])

\* operator>, through operator<=>; cumulative_difficulty() truncates.
Greater(c1, c2) ==
  IF ProofOfWork
    THEN FracFloor(c1.da.cumulative) > FracFloor(c2.da.cumulative)
    ELSE Len(c1.blocks) > Len(c2.blocks)

-----------------------------------------------------------------------------
\* Every block of bs names its predecessor by position and by hash.
Linked(bs) ==
  \A i \in DOMAIN bs :
    /\ bs[i].index = i - 1
    /\ bs[i].prev = IF i = 1 THEN NoHash ELSE bs[i - 1].hash
=============================================================================
