------------------------- MODULE BlockchainProofs -------------------------
(***************************************************************************)
(* Lemmas about the operations of a blockchain, for every configuration.   *)
(***************************************************************************)
EXTENDS Blockchain, DifficultyProofs

\* A fresh Blockchain is well-typed and linked.
LEMMA EmptyChainOK == EmptyChain \in Chain /\ Linked(EmptyChain.blocks)
BY InitAdjusterTyped DEF EmptyChain, Chain, Linked

\* The placeholder for an absent block is well-typed.
LEMMA NoBlockTyped == NoBlock \in Block
BY DEF NoBlock, NoHash, Block

\* latest_block of a non-empty chain is one of its blocks.
LEMMA LatestTyped ==
  ASSUME NEW c \in Chain, c.blocks # <<>>
  PROVE  /\ Len(c.blocks) \in DOMAIN c.blocks
         /\ Latest(c) \in Block
         /\ Latest(c) = c.blocks[Len(c.blocks)]
BY DEF Latest, Chain

\* The Block constructors make a block of the right position.
LEMMA MakeBlockTyped ==
  ASSUME NEW c \in Chain, NEW now \in Int, Linked(c.blocks)
  PROVE  /\ MakeBlock(c, now) \in Block
         /\ MakeBlock(c, now).index = Len(c.blocks)
         /\ MakeBlock(c, now).prev
              = IF c.blocks = <<>> THEN NoHash ELSE Latest(c).hash
         /\ MakeBlock(c, now).ts = now
<1>1. CASE c.blocks = <<>>
  BY <1>1 DEF MakeBlock, Block, NoHash
<1>2. CASE c.blocks # <<>>
  <2>1. Latest(c) \in Block /\ Latest(c).index = Len(c.blocks) - 1
    BY <1>2, LatestTyped DEF Linked
  <2>2. Latest(c).hash \in Nat /\ Latest(c).index \in Nat
    BY <2>1 DEF Block
  <2>3. Latest(c).index + 1 = Len(c.blocks)
    BY <2>1, <2>2 DEF Chain
  <2> QED
    BY <1>2, <2>2, <2>3 DEF MakeBlock, Block, NoHash
<1> QED
  BY <1>1, <1>2

\* A linked chain stays linked when a block of the next index that names the
\* last block as its predecessor is appended.
LEMMA LinkedAppend ==
  ASSUME NEW bs \in Seq(Block), Linked(bs), NEW b \in Block,
         b.index = Len(bs),
         b.prev = IF bs = <<>> THEN NoHash ELSE bs[Len(bs)].hash
  PROVE  Linked(Append(bs, b))
<1> DEFINE cs == Append(bs, b)
<1>1. /\ Len(bs) \in Nat /\ Len(cs) = Len(bs) + 1 /\ DOMAIN cs = 1..(Len(bs) + 1)
      /\ cs[Len(bs) + 1] = b /\ \A i \in 1..Len(bs) : cs[i] = bs[i]
      /\ DOMAIN bs = 1..Len(bs)
  OBVIOUS
<1> HIDE DEF cs
<1>2. SUFFICES ASSUME NEW i \in 1..(Len(bs) + 1)
               PROVE  /\ cs[i].index = i - 1
                      /\ cs[i].prev = IF i = 1 THEN NoHash ELSE cs[i - 1].hash
  BY <1>1 DEF Linked, cs
<1>3. CASE i \in 1..Len(bs)
  <2>1. /\ bs[i].index = i - 1
        /\ bs[i].prev = IF i = 1 THEN NoHash ELSE bs[i - 1].hash
    BY <1>1, <1>3 DEF Linked
  <2>2. i # 1 => i - 1 \in 1..Len(bs)
    BY <1>1, <1>3
  <2> QED
    BY <1>1, <1>3, <2>1, <2>2
<1>4. CASE i = Len(bs) + 1
  <2>1. CASE bs = <<>>
    BY <1>1, <1>4, <2>1
  <2>2. CASE bs # <<>>
    BY <1>1, <1>4, <2>2
  <2> QED
    BY <2>1, <2>2
<1> QED
  BY <1>1, <1>3, <1>4

\* append_next_block keeps a chain well-typed, changes it by at most the block
\* it was given, and keeps it linked without relying on its caller's checks.
LEMMA AppendNextBlockOK ==
  ASSUME NEW c \in Chain, NEW b \in Block, NEW now \in Int, Linked(c.blocks)
  PROVE  LET r == AppendNextBlock(c, b, now)
         IN  /\ r.chain \in Chain
             /\ r.chain.blocks = c.blocks \/ r.chain.blocks = Append(c.blocks, b)
             /\ Linked(r.chain.blocks)
             /\ r.ok => r.chain.blocks = Append(c.blocks, b)
<1> DEFINE r == AppendNextBlock(c, b, now)
           da == IF ProofOfWork THEN Adjust(c.da, b.ts) ELSE c.da
           bs == r.chain.blocks
<1>1. da \in Adjuster /\ c.da \in Adjuster /\ c.blocks \in Seq(Block)
  BY AdjustTyped DEF Chain, Block
<1>2. /\ r.chain = [blocks |-> IF r.ok THEN Append(c.blocks, b) ELSE c.blocks,
                    da |-> IF MayFollow(c, b, now) THEN da ELSE c.da]
      /\ r.ok => MayFollow(c, b, now)
  BY DEF AppendNextBlock
<1> HIDE DEF r, da
<1>3. bs = IF r.ok THEN Append(c.blocks, b) ELSE c.blocks
  BY <1>2
<1>4. r.chain \in Chain
  BY <1>1, <1>2 DEF Chain
<1>5. Linked(bs)
  <2>1. CASE ~r.ok
    BY <1>3, <2>1
  <2>2. CASE r.ok /\ c.blocks = <<>>
    <3>1. b.index = 0 /\ b.prev = NoHash
      BY <1>2, <2>2 DEF MayFollow, ValidGenesisBlock
    <3> QED
      BY <1>1, <1>3, <2>2, <3>1, LinkedAppend
  <2>3. CASE r.ok /\ c.blocks # <<>>
    <3>1. b.index = Latest(c).index + 1 /\ b.prev = Latest(c).hash
      BY <1>2, <2>3 DEF MayFollow, ValidNextBlock
    <3>2. Latest(c) = c.blocks[Len(c.blocks)] /\ Len(c.blocks) \in DOMAIN c.blocks
      BY <2>3, LatestTyped
    <3>3. Latest(c).index + 1 = Len(c.blocks)
      BY <1>1, <3>2 DEF Linked
    <3> QED
      BY <1>1, <1>3, <2>3, <3>1, <3>2, <3>3, LinkedAppend
  <2> QED
    BY <2>1, <2>2, <2>3
<1> QED
  BY <1>3, <1>4, <1>5 DEF r


-----------------------------------------------------------------------------
(* Blockchain::from_json.                                                   *)

\* g[0], ..., g[n] are the states of from_json after so many blocks of bs.
IsLoading(bs, now, n, g) ==
  g = [k \in 0..n |-> IF k = 0 THEN [ok |-> TRUE, chain |-> EmptyChain]
                      ELSE IF ~g[k - 1].ok THEN g[k - 1]
                      ELSE AppendNextBlock(g[k - 1].chain, bs[k], now)]

\* r.chain is a well-formed beginning of bs, of k blocks unless loading failed.
LoadedFrom(bs, k, r) ==
  /\ r.chain \in Chain /\ Linked(r.chain.blocks)
  /\ \A i \in DOMAIN r.chain.blocks : i \in DOMAIN bs /\ r.chain.blocks[i] = bs[i]
  /\ r.ok => Len(r.chain.blocks) = k

\* One round of the loop of from_json.
LEMMA LoadRound ==
  ASSUME NEW bs \in Seq(Block), NEW now \in Int, NEW k \in 1..Len(bs), NEW r,
         LoadedFrom(bs, k - 1, r), r.ok
  PROVE  LoadedFrom(bs, k, AppendNextBlock(r.chain, bs[k], now))
<1> DEFINE c == r.chain
           s == AppendNextBlock(c, bs[k], now)
<1>1. /\ c \in Chain /\ Linked(c.blocks) /\ Len(c.blocks) = k - 1
      /\ \A i \in DOMAIN c.blocks : i \in DOMAIN bs /\ c.blocks[i] = bs[i]
  BY DEF LoadedFrom
<1>2. bs[k] \in Block /\ k \in DOMAIN bs /\ c.blocks \in Seq(Block)
  BY <1>1 DEF Chain
<1>3. /\ s.chain \in Chain /\ Linked(s.chain.blocks)
      /\ s.chain.blocks = c.blocks \/ s.chain.blocks = Append(c.blocks, bs[k])
      /\ s.ok => s.chain.blocks = Append(c.blocks, bs[k])
  BY <1>1, <1>2, AppendNextBlockOK
<1> HIDE DEF s, c
<1>4. PICK d : d = Append(c.blocks, bs[k])
  OBVIOUS
<1>5. /\ DOMAIN d = DOMAIN c.blocks \union {k} /\ d[k] = bs[k] /\ Len(d) = k
      /\ \A i \in DOMAIN c.blocks : d[i] = c.blocks[i]
  BY <1>1, <1>2, <1>4
<1>6. LoadedFrom(bs, k, s)
  BY <1>1, <1>2, <1>3, <1>4, <1>5 DEF LoadedFrom
<1> QED
  BY <1>6 DEF s, c

\* The recursive function of FromJson exists.
LEMMA LoadingExists ==
  ASSUME NEW bs, NEW now, NEW n \in Nat
  PROVE  \E g : IsLoading(bs, now, n, g)
<1> DEFINE S == {k \in Nat : \E g : IsLoading(bs, now, k, g)}
<1>1. 0 \in S
  <2>1. PICK g : g = [k \in 0..0 |-> [ok |-> TRUE, chain |-> EmptyChain]]
    OBVIOUS
  <2>2. \A k \in 0..0 : k = 0
    OBVIOUS
  <2>3. IsLoading(bs, now, 0, g)
    BY <2>1, <2>2 DEF IsLoading
  <2> QED
    BY <2>3
<1>2. ASSUME NEW k \in Nat, k \in S PROVE k + 1 \in S
  <2>1. PICK g : IsLoading(bs, now, k, g)
    BY <1>2
  <2>2. PICK x : x = IF ~g[k].ok THEN g[k] ELSE AppendNextBlock(g[k].chain, bs[k + 1], now)
    OBVIOUS
  <2>3. PICK h : h = [j \in 0..(k + 1) |-> IF j = k + 1 THEN x ELSE g[j]]
    OBVIOUS
  <2>4. h[k + 1] = x /\ \A j \in 0..k : h[j] = g[j]
    BY <2>3
  <2>5. ASSUME NEW j \in 0..(k + 1)
        PROVE  h[j] = IF j = 0 THEN [ok |-> TRUE, chain |-> EmptyChain]
                      ELSE IF ~h[j - 1].ok THEN h[j - 1]
                      ELSE AppendNextBlock(h[j - 1].chain, bs[j], now)
    <3>1. CASE j = k + 1
      <4>1. j # 0 /\ j - 1 = k /\ k \in 0..k
        BY <3>1
      <4>2. h[j - 1] = g[k]
        BY <2>4, <4>1
      <4> QED
        BY <2>2, <2>4, <3>1, <4>1, <4>2
    <3>2. CASE j # k + 1
      <4>1. j \in 0..k /\ (j # 0 => j - 1 \in 0..k)
        BY <3>2
      <4>2. h[j] = g[j] /\ (j # 0 => h[j - 1] = g[j - 1])
        BY <2>4, <4>1
      <4>3. g[j] = IF j = 0 THEN [ok |-> TRUE, chain |-> EmptyChain]
                   ELSE IF ~g[j - 1].ok THEN g[j - 1]
                   ELSE AppendNextBlock(g[j - 1].chain, bs[j], now)
        BY <2>1, <4>1 DEF IsLoading
      <4> QED
        BY <4>2, <4>3
    <3> QED
      BY <3>1, <3>2
  <2>6. h = [j \in 0..(k + 1) |-> h[j]]
    BY <2>3
  <2>7. IsLoading(bs, now, k + 1, h)
    BY <2>5, <2>6 DEF IsLoading
  <2> QED
    BY <2>7
<1> HIDE DEF S
<1>3. \A k \in Nat : k \in S
  BY <1>1, <1>2, SetInduction
<1> QED
  BY <1>3 DEF S

\* from_json loads a well-formed beginning of what it is given, and all of it
\* unless it throws.
LEMMA FromJsonOK ==
  ASSUME NEW bs \in Seq(Block), NEW now \in Int
  PROVE  LoadedFrom(bs, Len(bs), FromJson(bs, now))
<1> DEFINE N == Len(bs)
           g == CHOOSE h : IsLoading(bs, now, N, h)
<1>1. N \in Nat
  OBVIOUS
<1>2. IsLoading(bs, now, N, g)
  BY <1>1, LoadingExists
<1>3. FromJson(bs, now) = g[N]
  BY DEF FromJson, IsLoading
<1> HIDE DEF g, N
<1>4. ASSUME NEW k \in 0..N
      PROVE  g[k] = IF k = 0 THEN [ok |-> TRUE, chain |-> EmptyChain]
                    ELSE IF ~g[k - 1].ok THEN g[k - 1]
                    ELSE AppendNextBlock(g[k - 1].chain, bs[k], now)
  BY <1>2 DEF IsLoading
<1> DEFINE S == {k \in Nat : k \in 0..N => LoadedFrom(bs, k, g[k])}
<1>5. 0 \in S
  <2>1. 0 \in 0..N
    BY <1>1
  <2>2. g[0] = [ok |-> TRUE, chain |-> EmptyChain]
    BY <1>4, <2>1
  <2>3. EmptyChain.blocks = <<>>
    BY DEF EmptyChain
  <2>4. LoadedFrom(bs, 0, g[0])
    BY <2>2, <2>3, EmptyChainOK DEF LoadedFrom
  <2> QED
    BY <2>4
<1>6. ASSUME NEW k \in Nat, k \in S PROVE k + 1 \in S
  <2> SUFFICES ASSUME k + 1 \in 0..N PROVE LoadedFrom(bs, k + 1, g[k + 1])
    OBVIOUS
  <2>1. k \in 0..N /\ k + 1 # 0 /\ (k + 1) - 1 = k /\ k + 1 \in 1..Len(bs)
    BY <1>1 DEF N
  <2>2. LoadedFrom(bs, k, g[k])
    BY <1>6, <2>1
  <2>3. g[k + 1] = IF ~g[k].ok THEN g[k] ELSE AppendNextBlock(g[k].chain, bs[k + 1], now)
    BY <1>4, <2>1
  <2>4. CASE ~g[k].ok
    BY <2>2, <2>3, <2>4 DEF LoadedFrom
  <2>5. CASE g[k].ok
    <3>1. LoadedFrom(bs, (k + 1) - 1, g[k])
      BY <2>1, <2>2
    <3>2. LoadedFrom(bs, k + 1, AppendNextBlock(g[k].chain, bs[k + 1], now))
      BY <2>1, <2>5, <3>1, LoadRound
    <3> QED
      BY <2>3, <2>5, <3>2
  <2> QED
    BY <2>4, <2>5
<1> HIDE DEF S
<1>7. \A k \in Nat : k \in S
  BY <1>5, <1>6, SetInduction
<1> QED
  BY <1>1, <1>3, <1>7 DEF S, N

=============================================================================
