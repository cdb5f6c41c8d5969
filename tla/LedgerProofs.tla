--------------------------- MODULE LedgerProofs ---------------------------
(***************************************************************************)
(* For every number of nodes, wallets, blocks and transfers, and every     *)
(* order of the calls that are under way between nodes:                    *)
(*   - blocks are well-formed (Invariance, BlocksStayWellFormed);          *)
(*   - a node's list of unspent outputs is what the transactions of its    *)
(*     chain leave unspent (ListsInvariance, UnspentStaysExact);           *)
(*   - its pool holds no transaction of its chain (PoolStaysUnconfirmed);  *)
(*   - no output is spent twice and no coin is made or lost except by      *)
(*     rewards, short of the two ways in which the code allows it          *)
(*     (CoinsInvariance, CoinsStayConserved).                              *)
(* The loops of transaction.cc come first, then the blocks, the lists, and *)
(* what the lists are worth.                                               *)
(***************************************************************************)
EXTENDS Ledger, BlockchainProofs

-----------------------------------------------------------------------------
\* The rounds of a loop so far, and one more.
LEMMA NextRound ==
  \A k \in Nat : \A j : j \in 1..(k + 1) <=> (j \in 1..k \/ j = k + 1)
OBVIOUS

-----------------------------------------------------------------------------
(* Loops.  FoldLeft is a recursive function on sets of positions; step is   *)
(* the body of a loop as a function of the round and the value so far.      *)

\* The last position of a non-empty set of positions.
LEMMA LastPosition ==
  ASSUME NEW n \in Nat, NEW s \in SUBSET (1..n), s # {}
  PROVE  Max(s) \in s /\ \A y \in s : Max(s) >= y
<1> DEFINE T == {n - y : y \in s}
<1>1. T \subseteq Nat /\ T # {}
  <2>1. \A y \in s : n - y \in Nat
    OBVIOUS
  <2>2. T \subseteq Nat
    BY <2>1
  <2> QED
    BY <2>2
<1>2. PICK x \in T : \A y \in T : x <= y
  BY <1>1, LeastNat
<1>3. PICK m \in s : x = n - m
  BY <1>2
<1>4. ASSUME NEW y \in s PROVE m >= y
  <2>1. n - y \in T
    OBVIOUS
  <2>2. n - m <= n - y /\ m \in 1..n /\ y \in 1..n
    BY <1>2, <1>3, <2>1
  <2> QED
    BY <2>2
<1> QED
  BY <1>3, <1>4 DEF Max

\* h is the recursive function of the first k rounds of a fold.
IsFold(V, base, step, k, h) ==
  /\ h \in [SUBSET (1..k) -> V]
  /\ h[{}] = base
  /\ \A s \in SUBSET (1..k) : s # {} => h[s] = step[<<Max(s), h[s \ {Max(s)}]>>]

\* The recursive function of a fold exists.
LEMMA FoldExists ==
  ASSUME NEW V, NEW base \in V, NEW n \in Nat, NEW step \in [(1..n) \X V -> V]
  PROVE  \E h : IsFold(V, base, step, n, h)
<1> DEFINE S == {k \in Nat : k <= n => \E h : IsFold(V, base, step, k, h)}
<1>1. 0 \in S
  <2>1. PICK h : h = [s \in SUBSET (1..0) |-> base]
    OBVIOUS
  <2>2. SUBSET (1..0) = {{}}
    OBVIOUS
  <2>3. IsFold(V, base, step, 0, h)
    BY <2>1, <2>2 DEF IsFold
  <2> QED
    BY <2>3
<1>2. ASSUME NEW k \in Nat, k \in S PROVE k + 1 \in S
  <2> SUFFICES ASSUME k + 1 <= n PROVE \E h : IsFold(V, base, step, k + 1, h)
    BY <1>2
  <2>1. PICK g : IsFold(V, base, step, k, g)
    BY <1>2
  <2>2. PICK h : h = [s \in SUBSET (1..(k + 1)) |->
                        IF k + 1 \in s THEN step[<<k + 1, g[s \ {k + 1}]>>] ELSE g[s]]
    OBVIOUS
  <2>3. ASSUME NEW s \in SUBSET (1..(k + 1))
        PROVE  s \ {k + 1} \in SUBSET (1..k) /\ (k + 1 \notin s => s \in SUBSET (1..k))
    <3>1. \A y \in s : y # k + 1 => y \in 1..k
      OBVIOUS
    <3> QED
      BY <3>1
  <2>4. ASSUME NEW s \in SUBSET (1..(k + 1)) PROVE h[s] \in V
    <3>1. k + 1 \in 1..n
      OBVIOUS
    <3> QED
      BY <2>1, <2>2, <2>3, <3>1 DEF IsFold
  <2>5. ASSUME NEW s \in SUBSET (1..k) PROVE h[s] = g[s] /\ s \in SUBSET (1..(k + 1))
    <3>1. k + 1 \notin s /\ s \in SUBSET (1..(k + 1))
      OBVIOUS
    <3> QED
      BY <2>2, <3>1
  <2>6. ASSUME NEW s \in SUBSET (1..(k + 1)), s # {}
        PROVE  h[s] = step[<<Max(s), h[s \ {Max(s)}]>>]
    <3>1. Max(s) \in s /\ \A y \in s : Max(s) >= y
      <4>1. k + 1 \in Nat
        OBVIOUS
      <4> QED
        BY <2>6, <4>1, LastPosition
    <3>2. PICK m \in s : m = Max(s) /\ \A y \in s : m >= y
      BY <3>1
    <3>3. CASE k + 1 \in s
      <4>1. m = k + 1
        <5>1. m \in 1..(k + 1) /\ m >= k + 1
          BY <3>2, <3>3
        <5> QED
          BY <5>1
      <4> QED
        BY <2>2, <2>3, <2>5, <3>2, <3>3, <4>1
    <3>4. CASE k + 1 \notin s
      <4>1. s \in SUBSET (1..k)
        BY <2>3, <3>4
      <4>2. s \ {m} \in SUBSET (1..k)
        BY <4>1
      <4>3. g[s] = step[<<m, g[s \ {m}]>>]
        BY <2>1, <2>6, <3>2, <4>1 DEF IsFold
      <4> QED
        BY <2>5, <3>2, <4>1, <4>2, <4>3
    <3> QED
      BY <3>3, <3>4
  <2>7. h[{}] = base
    BY <2>1, <2>5 DEF IsFold
  <2>8. h \in [SUBSET (1..(k + 1)) -> V]
    BY <2>2, <2>4
  <2>9. IsFold(V, base, step, k + 1, h)
    BY <2>6, <2>7, <2>8 DEF IsFold
  <2> QED
    BY <2>9
<1> HIDE DEF S
<1>3. n \in S
  BY <1>1, <1>2, SetInduction
<1> QED
  BY <1>3 DEF S

\* g[0], ..., g[n] are the values of a loop after so many rounds.
IsLoop(V, base, step, n, g) ==
  /\ g \in [0..n -> V]
  /\ g[0] = base
  /\ \A k \in 1..n : g[k] = step[<<k, g[k - 1]>>]

\* A loop whose last value is r.
LoopEnds(V, base, step, n, r) == \E g : IsLoop(V, base, step, n, g) /\ g[n] = r

\* h obeys the equation of a fold wherever the body of the loop applies.
FoldsAs(V, base, step, n, h) ==
  /\ h[{}] = base
  /\ \A s \in SUBSET (1..n) : s # {} /\ h[s \ {Max(s)}] \in V =>
       h[s] = step[<<Max(s), h[s \ {Max(s)}]>>]

\* A fold has the values of the loop.
LEMMA FoldRounds ==
  ASSUME NEW V, NEW base \in V, NEW n \in Nat, NEW step \in [(1..n) \X V -> V],
         NEW h, FoldsAs(V, base, step, n, h), NEW all, all = 1..n
  PROVE  LoopEnds(V, base, step, n, h[all])
<1> DEFINE g == [k \in 0..n |-> h[1..k]]
           S == {k \in Nat : k <= n => h[1..k] \in V}
<1>1. ASSUME NEW k \in 1..n, h[1..(k - 1)] \in V
      PROVE  h[1..k] = step[<<k, h[1..(k - 1)]>>] /\ h[1..k] \in V
  <2>1. 1..k \in SUBSET (1..n) /\ 1..k # {} /\ k \in 1..k
    <3>1. \A y \in 1..k : y \in 1..n
      OBVIOUS
    <3>2. k \in 1..k
      OBVIOUS
    <3> QED
      BY <3>1, <3>2
  <2>2. Max(1..k) \in 1..k /\ \A y \in 1..k : Max(1..k) >= y
    BY <2>1, LastPosition
  <2>3. Max(1..k) = k
    BY <2>1, <2>2
  <2>4. (1..k) \ {k} = 1..(k - 1)
    OBVIOUS
  <2> QED
    BY <1>1, <2>1, <2>3, <2>4 DEF FoldsAs
<1>2. 1..0 = {} /\ h[{}] = base
  BY DEF FoldsAs
<1>3. 0 \in S
  BY <1>2
<1>4. ASSUME NEW k \in Nat, k \in S PROVE k + 1 \in S
  <2> SUFFICES ASSUME k + 1 <= n PROVE h[1..(k + 1)] \in V
    OBVIOUS
  <2>1. k + 1 \in 1..n /\ (k + 1) - 1 = k /\ h[1..k] \in V
    BY <1>4
  <2> QED
    BY <1>1, <2>1
<1> HIDE DEF S
<1>5. \A k \in Nat : k \in S
  BY <1>3, <1>4, SetInduction
<1>6. \A k \in 0..n : h[1..k] \in V
  BY <1>5 DEF S
<1>7. g \in [0..n -> V] /\ g[0] = base /\ g[n] = h[1..n]
  BY <1>2, <1>6
<1>8. ASSUME NEW k \in 1..n PROVE g[k] = step[<<k, g[k - 1]>>]
  <2>1. k - 1 \in 0..n /\ k \in 0..n
    OBVIOUS
  <2>2. h[1..k] = step[<<k, h[1..(k - 1)]>>]
    BY <1>1, <1>6, <2>1
  <2> QED
    BY <2>1, <2>2
<1> HIDE DEF g
<1>9. IsLoop(V, base, step, n, g)
  BY <1>7, <1>8 DEF IsLoop
<1> QED
  BY <1>7, <1>9 DEF LoopEnds

\* The values of a loop exist.
LEMMA LoopExists ==
  ASSUME NEW V, NEW base \in V, NEW n \in Nat, NEW step \in [(1..n) \X V -> V]
  PROVE  \E g : IsLoop(V, base, step, n, g)
<1>1. PICK h : IsFold(V, base, step, n, h)
  BY FoldExists
<1>2. FoldsAs(V, base, step, n, h)
  BY <1>1 DEF IsFold, FoldsAs
<1>3. PICK all : all = 1..n
  OBVIOUS
<1>4. LoopEnds(V, base, step, n, h[all])
  BY <1>2, <1>3, FoldRounds
<1> QED
  BY <1>4 DEF LoopEnds

-----------------------------------------------------------------------------
(* Erasing from a list while iterating over it.                             *)

\* The states of Sweep, and one round of its loop.
Swept(S) == [kept : Seq(S), skip : BOOLEAN, more : Nat]

SweepStart == [kept |-> <<>>, skip |-> FALSE, more |-> 0]

SweepNext(acc, x, more) ==
  IF acc.more > 0 THEN [acc EXCEPT !.more = @ - 1]
  ELSE IF x \in DOMAIN more /\ ~acc.skip
    THEN [kept |-> acc.kept, skip |-> TRUE, more |-> more[x]]
    ELSE [kept |-> Append(acc.kept, x), skip |-> FALSE, more |-> 0]

\* How often a loop that erases the elements in the domain of more erases again.
IsMore(more) == \A x \in DOMAIN more : more[x] \in Nat

\* The rounds of Sweep.
LEMMA SweepRounds ==
  ASSUME NEW S, NEW s \in Seq(S), NEW more, IsMore(more)
  PROVE  \E g \in [0..Len(s) -> Swept(S)] :
           /\ g[0] = SweepStart /\ Sweep(s, more) = g[Len(s)]
           /\ \A k \in 1..Len(s) : g[k] = SweepNext(g[k - 1], s[k], more)
<1> DEFINE V == Swept(S)
           n == Len(s)
           step == [p \in (1..n) \X V |-> SweepNext(p[2], s[p[1]], more)]
           Body(h) == [q \in SUBSET DOMAIN s |->
                         IF q = {} THEN SweepStart
                         ELSE SweepNext(h[q \ {Max(q)}], s[Max(q)], more)]
<1>1. n \in Nat /\ DOMAIN s = 1..n /\ SweepStart \in V
  BY DEF SweepStart, Swept
<1>2. ASSUME NEW k \in 1..n, NEW v \in V
      PROVE  SweepNext(v, s[k], more) \in V /\ step[<<k, v>>] = SweepNext(v, s[k], more)
  <2>1. s[k] \in S
    OBVIOUS
  <2>2. SweepNext(v, s[k], more) \in V
    BY <2>1 DEF SweepNext, Swept, IsMore
  <2> QED
    BY <2>2
<1>3. step \in [(1..n) \X V -> V]
  BY <1>2
<1>4. PICK h : IsFold(V, SweepStart, step, n, h)
  <2> HIDE DEF step, V, n
  <2> QED
    BY <1>1, <1>3, FoldExists
<1>5. ASSUME NEW q \in SUBSET (1..n), q # {}
      PROVE  Max(q) \in 1..n /\ q \ {Max(q)} \in SUBSET (1..n)
  BY <1>1, <1>5, LastPosition
<1> HIDE DEF step, V, n
<1>6. h = Body(h)
  <2>1. ASSUME NEW q \in SUBSET (1..n), q # {}
        PROVE  h[q] = SweepNext(h[q \ {Max(q)}], s[Max(q)], more)
    BY <1>2, <1>4, <1>5, <2>1 DEF IsFold
  <2> QED
    BY <1>1, <1>4, <2>1 DEF IsFold
<1>7. PICK iter : iter = Body(iter) /\ Sweep(s, more) = iter[DOMAIN s]
  <2> DEFINE it == CHOOSE f : f = Body(f)
  <2>1. it = Body(it)
    BY <1>6
  <2>2. Sweep(s, more) = it[DOMAIN s]
    BY DEF Sweep, FoldLeft, MapThenFoldSet, SweepNext, SweepStart
  <2> HIDE DEF it
  <2> QED
    BY <2>1, <2>2
<1>8. FoldsAs(V, SweepStart, step, n, iter)
  <2>1. \A q \in SUBSET (1..n) : iter[q] = IF q = {} THEN SweepStart
                         ELSE SweepNext(iter[q \ {Max(q)}], s[Max(q)], more)
    BY <1>1, <1>7
  <2> QED
    BY <1>2, <1>5, <2>1 DEF FoldsAs
<1>9. PICK g : IsLoop(V, SweepStart, step, n, g) /\ g[n] = iter[DOMAIN s]
  <2>1. LoopEnds(V, SweepStart, step, n, iter[DOMAIN s])
    BY <1>1, <1>3, <1>8, FoldRounds
  <2> QED
    BY <2>1 DEF LoopEnds
<1>10. ASSUME NEW k \in 1..n PROVE g[k] = SweepNext(g[k - 1], s[k], more)
  <2>1. k - 1 \in 0..n
    BY <1>1
  <2> QED
    BY <1>2, <1>9, <2>1 DEF IsLoop
<1> QED
  BY <1>1, <1>7, <1>9, <1>10 DEF IsLoop, V, n

\* r consists of some of the first k elements of s, in their order.
ThinnedTo(r, s, k) ==
  \E f \in [DOMAIN r -> 1..k] :
    /\ \A i, j \in DOMAIN r : i < j => f[i] < f[j]
    /\ \A i \in DOMAIN r : r[i] = s[f[i]]

Thinned(r, s) == ThinnedTo(r, s, Len(s))

\* One more element is looked at, and kept or not.
LEMMA ThinnedAppend ==
  ASSUME NEW S, NEW s \in Seq(S), NEW k \in 1..Len(s), NEW r \in Seq(S),
         ThinnedTo(r, s, k - 1)
  PROVE  ThinnedTo(r, s, k) /\ ThinnedTo(Append(r, s[k]), s, k)
<1>1. PICK f \in [DOMAIN r -> 1..(k - 1)] :
        /\ \A i, j \in DOMAIN r : i < j => f[i] < f[j]
        /\ \A i \in DOMAIN r : r[i] = s[f[i]]
  BY DEF ThinnedTo
<1>2. ThinnedTo(r, s, k)
  <2>1. \A i \in DOMAIN r : f[i] \in 1..k
    BY <1>1
  <2>2. f \in [DOMAIN r -> 1..k]
    BY <1>1, <2>1
  <2> QED
    BY <1>1, <2>2 DEF ThinnedTo
<1>3. PICK q : q = Append(r, s[k])
  OBVIOUS
<1>4. PICK m \in Nat : m = Len(r) + 1
  OBVIOUS
<1>5. /\ DOMAIN r = 1..(m - 1) /\ DOMAIN q = 1..m /\ q[m] = s[k]
      /\ \A i \in 1..(m - 1) : q[i] = r[i]
  <2>1. s[k] \in S
    OBVIOUS
  <2> QED
    BY <1>3, <1>4, <2>1
<1>6. PICK e : e = [i \in 1..m |-> IF i = m THEN k ELSE f[i]]
  OBVIOUS
<1>7. ASSUME NEW i \in 1..m, i # m PROVE i \in 1..(m - 1) /\ f[i] \in 1..(k - 1)
  BY <1>1, <1>5, <1>7
<1>8. e \in [1..m -> 1..k]
  <2>1. ASSUME NEW i \in 1..m PROVE e[i] \in 1..k
    BY <1>6, <1>7
  <2> QED
    BY <1>6, <2>1
<1>9. ASSUME NEW i \in 1..m, NEW j \in 1..m, i < j PROVE e[i] < e[j]
  <2>1. i # m /\ i \in 1..(m - 1) /\ f[i] \in 1..(k - 1) /\ e[i] = f[i]
    BY <1>6, <1>7, <1>9
  <2>2. CASE j = m
    BY <1>6, <2>1, <2>2
  <2>3. CASE j # m
    BY <1>1, <1>5, <1>6, <1>7, <1>9, <2>1, <2>3
  <2> QED
    BY <2>2, <2>3
<1>10. ASSUME NEW i \in 1..m PROVE q[i] = s[e[i]]
  BY <1>1, <1>5, <1>6, <1>7
<1> QED
  BY <1>2, <1>3, <1>5, <1>8, <1>9, <1>10 DEF ThinnedTo

\* A thinned list is a list, with elements of the other one only.
LEMMA ThinnedElements ==
  ASSUME NEW S, NEW s \in Seq(S), NEW r, Thinned(r, s)
  PROVE  ToSet(r) \subseteq ToSet(s)
BY DEF Thinned, ThinnedTo, ToSet

\* A list is a thinning of itself, and of what it is a thinning of thinned.
LEMMA ThinnedTwice ==
  ASSUME NEW S, NEW s \in Seq(S)
  PROVE  /\ Thinned(s, s)
         /\ \A r \in Seq(S) : \A q : Thinned(r, s) /\ Thinned(q, r) => Thinned(q, s)
<1>1. Thinned(s, s)
  <2>1. PICK f : f = [i \in 1..Len(s) |-> i]
    OBVIOUS
  <2>2. f \in [DOMAIN s -> 1..Len(s)] /\ \A i \in DOMAIN s : f[i] = i
    BY <2>1
  <2> QED
    BY <2>2 DEF Thinned, ThinnedTo
<1>2. ASSUME NEW r \in Seq(S), NEW q, Thinned(r, s), Thinned(q, r) PROVE Thinned(q, s)
  <2>1. PICK f \in [DOMAIN r -> 1..Len(s)] :
          /\ \A i, j \in DOMAIN r : i < j => f[i] < f[j]
          /\ \A i \in DOMAIN r : r[i] = s[f[i]]
    BY <1>2 DEF Thinned, ThinnedTo
  <2>2. PICK e \in [DOMAIN q -> 1..Len(r)] :
          /\ \A i, j \in DOMAIN q : i < j => e[i] < e[j]
          /\ \A i \in DOMAIN q : q[i] = r[e[i]]
    BY <1>2 DEF Thinned, ThinnedTo
  <2>3. DOMAIN r = 1..Len(r)
    OBVIOUS
  <2>4. PICK d : d = [i \in DOMAIN q |-> f[e[i]]]
    OBVIOUS
  <2>5. d \in [DOMAIN q -> 1..Len(s)]
    BY <2>1, <2>2, <2>3, <2>4
  <2>6. \A i, j \in DOMAIN q : i < j => d[i] < d[j]
    BY <2>1, <2>2, <2>3, <2>4
  <2>7. \A i \in DOMAIN q : q[i] = s[d[i]]
    BY <2>1, <2>2, <2>3, <2>4
  <2> QED
    BY <2>5, <2>6, <2>7 DEF Thinned, ThinnedTo
<1> QED
  BY <1>1, <1>2

\* The elements of a list with one more.
LEMMA AppendElements ==
  ASSUME NEW S, NEW r \in Seq(S), NEW y \in S
  PROVE  \A x : x \in ToSet(Append(r, y)) <=> (x \in ToSet(r) \/ x = y)
<1>1. PICK q : q = Append(r, y)
  OBVIOUS
<1>2. PICK l \in Nat : l = Len(r)
  OBVIOUS
<1>3. /\ DOMAIN r = 1..l /\ DOMAIN q = 1..(l + 1)
      /\ q[l + 1] = y /\ \A i \in 1..l : q[i] = r[i]
  BY <1>1, <1>2
<1>4. \A i : i \in 1..(l + 1) <=> (i \in 1..l \/ i = l + 1)
  BY NextRound
<1> QED
  BY <1>1, <1>3, <1>4 DEF ToSet

\* No two elements of s that follow each other are gone.
Scattered(s, gone) ==
  \A i \in DOMAIN s : i + 1 \in DOMAIN s /\ s[i] \in gone => s[i + 1] \notin gone

\* The loop erases one element at a time, and what it erases is scattered over s.
OneByOne(s, more) == Scattered(s, DOMAIN more) /\ \A x \in DOMAIN more : more[x] = 0

\* What Sweep has done after k rounds.
SweptTo(s, more, k, acc) ==
  /\ ThinnedTo(acc.kept, s, k)
  /\ OneByOne(s, more) =>
       /\ acc.more = 0
       /\ acc.skip <=> k # 0 /\ s[k] \in DOMAIN more
       /\ \A x : x \in ToSet(acc.kept)
                   <=> (x \notin DOMAIN more /\ \E i \in 1..k : s[i] = x)

\* Sweep thins the list, and erases everything that is scattered over it.
LEMMA SweepOK ==
  ASSUME NEW S, NEW s \in Seq(S), NEW more, IsMore(more)
  PROVE  /\ Sweep(s, more) \in Swept(S)
         /\ Thinned(Sweep(s, more).kept, s)
         /\ OneByOne(s, more) => ToSet(Sweep(s, more).kept) = ToSet(s) \ DOMAIN more
<1> DEFINE n == Len(s)
<1>1. PICK g \in [0..n -> Swept(S)] :
        /\ g[0] = SweepStart /\ Sweep(s, more) = g[n]
        /\ \A k \in 1..n : g[k] = SweepNext(g[k - 1], s[k], more)
  BY SweepRounds, SMTT(30)
<1>2. n \in Nat /\ DOMAIN s = 1..n
  OBVIOUS
<1> HIDE DEF n
<1> DEFINE T == {k \in Nat : k <= n => SweptTo(s, more, k, g[k])}
<1>3. 0 \in T
  <2>1. g[0].kept = <<>> /\ ~g[0].skip /\ g[0].more = 0
    BY <1>1 DEF SweepStart
  <2>2. ThinnedTo(<<>>, s, 0)
    <3>1. PICK e : e = <<>> /\ DOMAIN e = {}
      OBVIOUS
    <3>2. PICK f : f = [i \in DOMAIN e |-> 1]
      OBVIOUS
    <3>3. f \in [DOMAIN e -> 1..0]
      BY <3>1, <3>2
    <3>4. ThinnedTo(e, s, 0)
      BY <3>1, <3>3 DEF ThinnedTo
    <3> QED
      BY <3>1, <3>4
  <2>3. ToSet(<<>>) = {} /\ 1..0 = {}
    BY DEF ToSet
  <2>4. SweptTo(s, more, 0, g[0])
    BY <2>1, <2>2, <2>3 DEF SweptTo
  <2> QED
    BY <2>4
<1>4. ASSUME NEW k \in Nat, k \in T PROVE k + 1 \in T
  <2> SUFFICES ASSUME k + 1 <= n PROVE SweptTo(s, more, k + 1, g[k + 1])
    BY <1>4
  <2>1. PICK m \in 1..n : m = k + 1 /\ m - 1 = k
    BY <1>2
  <2>2. PICK acc \in Swept(S) : acc = g[k] /\ SweptTo(s, more, k, acc)
    <3>1. k \in 0..n /\ k <= n
      BY <1>2
    <3> QED
      BY <1>1, <1>4, <3>1
  <2>3. PICK new : new = g[m] /\ new = SweepNext(acc, s[m], more)
    BY <1>1, <2>1, <2>2
  <2>4. /\ acc.kept \in Seq(S) /\ acc.skip \in BOOLEAN /\ s[m] \in S
        /\ ThinnedTo(acc.kept, s, m - 1)
    BY <1>2, <2>1, <2>2 DEF Swept, SweptTo
  <2>5. /\ ThinnedTo(acc.kept, s, m) /\ ThinnedTo(Append(acc.kept, s[m]), s, m)
    BY <2>1, <2>4, ThinnedAppend DEF n
  <2>6. \/ /\ acc.more > 0
           /\ new.kept = acc.kept
        \/ /\ acc.more = 0
           /\ s[m] \in DOMAIN more /\ ~acc.skip
           /\ new.kept = acc.kept /\ new.skip = TRUE /\ new.more = more[s[m]]
        \/ /\ acc.more = 0
           /\ ~(s[m] \in DOMAIN more /\ ~acc.skip)
           /\ new.kept = Append(acc.kept, s[m]) /\ new.skip = FALSE /\ new.more = 0
    <3>1. acc.more \in Nat
      BY DEF Swept
    <3>2. CASE acc.more > 0
      <4>1. new = [acc EXCEPT !.more = acc.more - 1]
        BY <2>3, <3>2 DEF SweepNext
      <4>2. new.kept = acc.kept
        BY <4>1 DEF Swept
      <4> QED
        BY <3>2, <4>2
    <3>3. CASE ~(acc.more > 0)
      <4>1. acc.more = 0
        BY <3>1, <3>3
      <4>2. new = IF s[m] \in DOMAIN more /\ ~acc.skip
                    THEN [kept |-> acc.kept, skip |-> TRUE, more |-> more[s[m]]]
                    ELSE [kept |-> Append(acc.kept, s[m]), skip |-> FALSE, more |-> 0]
        BY <2>3, <3>3 DEF SweepNext
      <4> QED
        BY <4>1, <4>2
    <3> QED
      BY <3>2, <3>3
  <2>7. ASSUME OneByOne(s, more)
        PROVE  /\ new.more = 0
               /\ new.skip <=> s[m] \in DOMAIN more
               /\ \A x : x \in ToSet(new.kept) <=> (x \notin DOMAIN more /\ \E i \in 1..m : s[i] = x)
    <3>1. /\ acc.more = 0 /\ ~(acc.more > 0)
          /\ acc.skip <=> k # 0 /\ s[k] \in DOMAIN more
          /\ \A x : x \in ToSet(acc.kept) <=> (x \notin DOMAIN more /\ \E i \in 1..k : s[i] = x)
      BY <2>2, <2>7 DEF SweptTo
    <3>2. s[m] \in DOMAIN more => ~acc.skip
      <4>1. k # 0 => k \in DOMAIN s /\ k + 1 \in DOMAIN s
        BY <1>2, <2>1
      <4> QED
        BY <2>1, <2>7, <3>1, <4>1 DEF OneByOne, Scattered
    <3>3. \A i : i \in 1..m <=> (i \in 1..k \/ i = m)
      BY <2>1
    <3>4. CASE s[m] \in DOMAIN more
      <4>1. new.kept = acc.kept /\ new.skip = TRUE /\ new.more = 0
        BY <2>6, <2>7, <3>1, <3>2, <3>4 DEF OneByOne
      <4> QED
        BY <3>1, <3>3, <3>4, <4>1
    <3>5. CASE s[m] \notin DOMAIN more
      <4>1. new.kept = Append(acc.kept, s[m]) /\ new.skip = FALSE /\ new.more = 0
        BY <2>6, <3>1, <3>5
      <4>2. \A x : x \in ToSet(new.kept) <=> (x \in ToSet(acc.kept) \/ x = s[m])
        BY <2>4, <4>1, AppendElements
      <4> QED
        BY <3>1, <3>3, <3>5, <4>1, <4>2
    <3> QED
      BY <3>4, <3>5
  <2>8. SweptTo(s, more, m, new)
    <3>1. m # 0
      BY <2>1
    <3> QED
      BY <2>5, <2>6, <2>7, <3>1 DEF SweptTo
  <2> QED
    BY <2>1, <2>3, <2>8
<1> HIDE DEF T
<1>5. n \in T
  BY <1>2, <1>3, <1>4, SetInduction
<1>6. SweptTo(s, more, n, g[n])
  BY <1>2, <1>5 DEF T
<1>7. n \in 0..n
  BY <1>2
<1>8. ASSUME OneByOne(s, more) PROVE ToSet(g[n].kept) = ToSet(s) \ DOMAIN more
  <2>1. \A x : x \in ToSet(g[n].kept) <=> (x \notin DOMAIN more /\ \E i \in 1..n : s[i] = x)
    BY <1>6, <1>8 DEF SweptTo
  <2>2. \A x : x \in ToSet(s) <=> \E i \in 1..n : s[i] = x
    BY <1>2 DEF ToSet
  <2> QED
    BY <2>1, <2>2
<1> QED
  BY <1>1, <1>6, <1>7, <1>8 DEF SweptTo, Thinned, n

\* The rounds of EraseRuns.
LEMMA EraseRounds ==
  ASSUME NEW S, NEW s \in Seq(S), NEW more, IsMore(more)
  PROVE  \E g \in [0..Len(s) -> Swept(S)] :
           /\ g[0] = [kept |-> s, skip |-> TRUE, more |-> 0]
           /\ EraseRuns(s, more) = g[Len(s)].kept
           /\ \A k \in 1..Len(s) :
                g[k] = IF g[k - 1].skip /\ g[k - 1].kept # <<>>
                         THEN Sweep(g[k - 1].kept, more) ELSE g[k - 1]
<1> DEFINE V == Swept(S)
           n == Len(s)
           base == [kept |-> s, skip |-> TRUE, more |-> 0]
           Round(v) == IF v.skip /\ v.kept # <<>> THEN Sweep(v.kept, more) ELSE v
           step == [p \in (1..n) \X V |-> Round(p[2])]
           Body(h) == [k \in 0..n |-> IF k = 0 THEN base ELSE Round(h[k - 1])]
<1>1. n \in Nat /\ base \in V
  BY DEF Swept
<1>2. ASSUME NEW v \in V PROVE Round(v) \in V
  <2>1. v.kept \in Seq(S)
    BY DEF Swept
  <2> QED
    BY <2>1, SweepOK
<1>3. step \in [(1..n) \X V -> V] /\ \A k \in 1..n, v \in V : step[<<k, v>>] = Round(v)
  BY <1>2
<1> HIDE DEF V, n, base, Round, step
<1>4. PICK h : IsLoop(V, base, step, n, h)
  BY <1>1, <1>3, LoopExists
<1>5. h = Body(h)
  <2>1. ASSUME NEW k \in 0..n PROVE h[k] = IF k = 0 THEN base ELSE Round(h[k - 1])
    <3>1. CASE k = 0
      BY <1>4, <3>1 DEF IsLoop
    <3>2. CASE k # 0
      <4>1. k \in 1..n /\ k - 1 \in 0..n
        BY <1>1, <3>2
      <4>2. h[k] = step[<<k, h[k - 1]>>] /\ h[k - 1] \in V
        BY <1>4, <4>1 DEF IsLoop
      <4> QED
        BY <1>3, <3>2, <4>1, <4>2
    <3> QED
      BY <3>1, <3>2
  <2> QED
    BY <1>4, <2>1 DEF IsLoop
<1>6. PICK g : g = Body(g) /\ EraseRuns(s, more) = g[n].kept
  <2> DEFINE it == CHOOSE f : f = Body(f)
  <2>1. it = Body(it)
    BY <1>5
  <2>2. EraseRuns(s, more) = it[n].kept
    BY DEF EraseRuns, Round, base, n
  <2> HIDE DEF it
  <2> QED
    BY <2>1, <2>2
<1>7. \A k \in 0..n : g[k] = IF k = 0 THEN base ELSE Round(g[k - 1])
  BY <1>6
<1> DEFINE T == {k \in Nat : k <= n => g[k] \in V}
<1>8. 0 \in T
  BY <1>1, <1>7
<1>9. ASSUME NEW k \in Nat, k \in T PROVE k + 1 \in T
  <2> SUFFICES ASSUME k + 1 <= n PROVE g[k + 1] \in V
    BY <1>9
  <2>1. k + 1 \in 0..n /\ k + 1 # 0 /\ (k + 1) - 1 = k /\ k <= n
    BY <1>1
  <2> QED
    BY <1>2, <1>7, <1>9, <2>1
<1> HIDE DEF T
<1>10. \A k \in Nat : k \in T
  BY <1>8, <1>9, SetInduction
<1>11. g \in [0..n -> V]
  <2>1. \A k \in 0..n : g[k] \in V
    BY <1>1, <1>10 DEF T
  <2> QED
    BY <1>6, <2>1
<1>12. g[0] = base /\ \A k \in 1..n : g[k] = Round(g[k - 1])
  <2>1. 0 \in 0..n /\ \A k \in 1..n : k \in 0..n /\ k # 0
    BY <1>1
  <2> QED
    BY <1>7, <2>1
<1> QED
  BY <1>6, <1>11, <1>12 DEF V, n, base, Round

\* Such a loop thins the list, and erases everything if it does so one by one.
LEMMA EraseRunsOK ==
  ASSUME NEW S, NEW s \in Seq(S), NEW more, IsMore(more)
  PROVE  /\ EraseRuns(s, more) \in Seq(S)
         /\ Thinned(EraseRuns(s, more), s)
         /\ OneByOne(s, more) => ToSet(EraseRuns(s, more)) = ToSet(s) \ DOMAIN more
<1> DEFINE n == Len(s)
<1>1. PICK g \in [0..n -> Swept(S)] :
        /\ g[0] = [kept |-> s, skip |-> TRUE, more |-> 0]
        /\ EraseRuns(s, more) = g[n].kept
        /\ \A k \in 1..n : g[k] = IF g[k - 1].skip /\ g[k - 1].kept # <<>>
                                    THEN Sweep(g[k - 1].kept, more) ELSE g[k - 1]
  BY EraseRounds
<1>2. n \in Nat /\ DOMAIN s = 1..n
  OBVIOUS
<1> DEFINE P(k) == /\ Thinned(g[k].kept, s)
                   /\ k # 0 /\ OneByOne(s, more) => ToSet(g[k].kept) = ToSet(s) \ DOMAIN more
           T == {k \in Nat : k <= n => P(k)}
<1>3. g[0].kept = s /\ g[0].skip = TRUE
  BY <1>1
<1>4. \A k \in 0..n : g[k].kept \in Seq(S)
  BY <1>1 DEF Swept
<1>5. 0 \in T
  BY <1>3, ThinnedTwice
<1>6. ASSUME NEW k \in Nat, k \in T PROVE k + 1 \in T
  <2> SUFFICES ASSUME k + 1 <= n PROVE P(k + 1)
    BY <1>6
  <2> HIDE DEF n, T
  <2>1. k + 1 \in 1..n /\ (k + 1) - 1 = k /\ k \in 0..n /\ k <= n /\ k + 1 # 0
    BY <1>2
  <2>2. PICK v : v = g[k]
    OBVIOUS
  <2>3. PICK w : w = g[k + 1]
    OBVIOUS
  <2>4. /\ v.kept \in Seq(S) /\ Thinned(v.kept, s)
        /\ (k # 0 /\ OneByOne(s, more)) => ToSet(v.kept) = ToSet(s) \ DOMAIN more
        /\ w = IF v.skip /\ v.kept # <<>> THEN Sweep(v.kept, more) ELSE v
    BY <1>1, <1>4, <1>6, <2>1, <2>2, <2>3 DEF T
  <2>5. CASE w = Sweep(v.kept, more)
    <3>1. /\ Thinned(w.kept, v.kept)
          /\ OneByOne(v.kept, more) => ToSet(w.kept) = ToSet(v.kept) \ DOMAIN more
      BY <2>4, <2>5, SweepOK
    <3>2. Thinned(w.kept, s)
      BY <2>4, <3>1, ThinnedTwice
    <3>3. ASSUME OneByOne(s, more) PROVE ToSet(w.kept) = ToSet(s) \ DOMAIN more
      <4>1. CASE k = 0
        BY <1>3, <2>2, <3>1, <3>3, <4>1
      <4>2. CASE k # 0
        <5>1. ToSet(v.kept) = ToSet(s) \ DOMAIN more
          BY <2>4, <3>3, <4>2
        <5>2. OneByOne(v.kept, more)
          BY <3>3, <5>1 DEF OneByOne, Scattered, ToSet
        <5> QED
          BY <3>1, <5>1, <5>2
      <4> QED
        BY <4>1, <4>2
    <3> QED
      BY <2>3, <3>2, <3>3
  <2>6. CASE w = v /\ ~(v.skip /\ v.kept # <<>>)
    <3>1. k # 0
      <4>1. s # <<>>
        BY <1>2, <2>1 DEF n
      <4> QED
        BY <1>3, <2>2, <2>6, <4>1
    <3> QED
      BY <2>3, <2>4, <2>6, <3>1
  <2> QED
    BY <2>4, <2>5, <2>6
<1> HIDE DEF T
<1>7. n \in T
  BY <1>2, <1>5, <1>6, SetInduction
<1>8. P(n) /\ n \in 0..n
  BY <1>2, <1>7 DEF T
<1>9. n = 0 => ToSet(s) = {}
  BY <1>2 DEF ToSet
<1> QED
  BY <1>1, <1>3, <1>4, <1>8, <1>9

\* The same for loops that erase one element at a time.
LEMMA EraseOK ==
  ASSUME NEW S, NEW s \in Seq(S), NEW gone
  PROVE  /\ EraseWhere(s, gone) \in Seq(S)
         /\ Thinned(EraseWhere(s, gone), s)
         /\ Scattered(s, gone) => ToSet(EraseWhere(s, gone)) = ToSet(s) \ gone
<1>1. PICK more : more = [x \in gone |-> 0]
  OBVIOUS
<1>2. DOMAIN more = gone /\ \A x \in DOMAIN more : more[x] = 0
  BY <1>1
<1>3. IsMore(more) /\ (Scattered(s, gone) => OneByOne(s, more))
  BY <1>2 DEF IsMore, OneByOne
<1>4. EraseWhere(s, gone) = EraseRuns(s, more)
  BY <1>1 DEF EraseWhere
<1> QED
  BY <1>2, <1>3, <1>4, EraseRunsOK

-----------------------------------------------------------------------------
(* Lists of unspent outputs.                                                *)

IsList(s) == \E S : s \in Seq(S)

\* The inputs and the outputs of a transaction are lists.
TxOK(t) == IsList(t.inputs) /\ IsList(t.outputs)

\* Every output of t, once it is unspent, is in S.
OutputsIn(t, S) == \A i \in DOMAIN t.outputs : UnspentOutput(t, i) \in S

\* The two halves of update.
WithOutputs(u, t) == u \o [i \in DOMAIN t.outputs |-> UnspentOutput(t, i)]

Spend(u, txi) == EraseWhere(u, {o \in ToSet(u) : Refers(txi, o)})

\* The outputs of a transaction are appended.
LEMMA WithOutputsIs ==
  ASSUME NEW S, NEW u \in Seq(S), NEW t, IsList(t.outputs), OutputsIn(t, S)
  PROVE  /\ WithOutputs(u, t) \in Seq(S)
         /\ Len(WithOutputs(u, t)) = Len(u) + Len(t.outputs)
         /\ \A i \in 1..Len(u) : WithOutputs(u, t)[i] = u[i]
         /\ \A i \in 1..Len(t.outputs) :
              WithOutputs(u, t)[Len(u) + i] = UnspentOutput(t, i)
<1>1. PICK R : t.outputs \in Seq(R)
  BY DEF IsList
<1>2. PICK l \in Nat : l = Len(t.outputs) /\ DOMAIN t.outputs = 1..l
  BY <1>1
<1>3. PICK v : v = [i \in 1..l |-> UnspentOutput(t, i)]
  OBVIOUS
<1>4. v \in Seq(S) /\ Len(v) = l
  BY <1>2, <1>3 DEF OutputsIn
<1>5. WithOutputs(u, t) = u \o v
  BY <1>2, <1>3 DEF WithOutputs
<1> QED
  BY <1>2, <1>3, <1>4, <1>5

\* The rounds of update: one for each input.
LEMMA UpdateRounds ==
  ASSUME NEW S, NEW u \in Seq(S), NEW t, TxOK(t), OutputsIn(t, S)
  PROVE  \E g \in [0..Len(t.inputs) -> Seq(S)] :
           /\ g[0] = WithOutputs(u, t) /\ Update(u, t) = g[Len(t.inputs)]
           /\ \A k \in 1..Len(t.inputs) : g[k] = Spend(g[k - 1], t.inputs[k])
<1> DEFINE V == Seq(S)
           n == Len(t.inputs)
           step == [p \in (1..n) \X V |-> Spend(p[2], t.inputs[p[1]])]
           Body(h) == [q \in SUBSET DOMAIN t.inputs |->
                         IF q = {} THEN WithOutputs(u, t)
                         ELSE Spend(h[q \ {Max(q)}], t.inputs[Max(q)])]
<1>1. n \in Nat /\ DOMAIN t.inputs = 1..n /\ WithOutputs(u, t) \in V
  BY WithOutputsIs DEF TxOK, IsList
<1>2. ASSUME NEW k \in 1..n, NEW v \in V
      PROVE  /\ Spend(v, t.inputs[k]) \in V
             /\ step[<<k, v>>] = Spend(v, t.inputs[k])
  <2>1. Spend(v, t.inputs[k]) \in V
    BY EraseOK DEF Spend
  <2> QED
    BY <2>1
<1>3. step \in [(1..n) \X V -> V]
  BY <1>2
<1>4. PICK h : IsFold(V, WithOutputs(u, t), step, n, h)
  <2> HIDE DEF step, V, n
  <2> QED
    BY <1>1, <1>3, FoldExists
<1>5. ASSUME NEW q \in SUBSET (1..n), q # {}
      PROVE  Max(q) \in 1..n /\ q \ {Max(q)} \in SUBSET (1..n)
  BY <1>1, <1>5, LastPosition
<1> HIDE DEF step, V, n
<1>6. h = Body(h)
  <2>1. ASSUME NEW q \in SUBSET (1..n), q # {}
        PROVE  h[q] = Spend(h[q \ {Max(q)}], t.inputs[Max(q)])
    BY <1>2, <1>4, <1>5, <2>1 DEF IsFold
  <2> QED
    BY <1>1, <1>4, <2>1 DEF IsFold
<1>7. PICK iter : iter = Body(iter) /\ Update(u, t) = iter[DOMAIN t.inputs]
  <2> DEFINE it == CHOOSE f : f = Body(f)
  <2>1. it = Body(it)
    BY <1>6
  <2>2. Update(u, t) = it[DOMAIN t.inputs]
    BY DEF Update, Spend, WithOutputs, FoldLeft, MapThenFoldSet
  <2> HIDE DEF it
  <2> QED
    BY <2>1, <2>2
<1>8. FoldsAs(V, WithOutputs(u, t), step, n, iter)
  <2>1. \A q \in SUBSET (1..n) : iter[q] = IF q = {} THEN WithOutputs(u, t)
                         ELSE Spend(iter[q \ {Max(q)}], t.inputs[Max(q)])
    BY <1>1, <1>7
  <2> QED
    BY <1>2, <1>5, <2>1 DEF FoldsAs
<1>9. PICK g : IsLoop(V, WithOutputs(u, t), step, n, g) /\ g[n] = iter[DOMAIN t.inputs]
  <2>1. LoopEnds(V, WithOutputs(u, t), step, n, iter[DOMAIN t.inputs])
    BY <1>1, <1>3, <1>8, FoldRounds
  <2> QED
    BY <2>1 DEF LoopEnds
<1>10. ASSUME NEW k \in 1..n PROVE g[k] = Spend(g[k - 1], t.inputs[k])
  <2>1. k - 1 \in 0..n
    BY <1>1
  <2> QED
    BY <1>2, <1>9, <2>1 DEF IsLoop
<1> QED
  BY <1>1, <1>7, <1>9, <1>10 DEF IsLoop, V, n

\* No two unspent outputs in a list have the same transaction and index.
KeysDiffer(u) ==
  \A i, j \in DOMAIN u : u[i].hash = u[j].hash /\ u[i].index = u[j].index => i = j

\* Transaction t spends o.
SpentIn(t, o) == \E k \in DOMAIN t.inputs : Refers(t.inputs[k], o)

\* Thinning a list makes no output appear twice.
LEMMA KeysDifferThinned ==
  ASSUME NEW S, NEW u \in Seq(S), NEW r \in Seq(S), Thinned(r, u), KeysDiffer(u)
  PROVE  KeysDiffer(r)
<1>1. PICK f \in [DOMAIN r -> 1..Len(u)] :
        /\ \A i, j \in DOMAIN r : i < j => f[i] < f[j]
        /\ \A i \in DOMAIN r : r[i] = u[f[i]]
  BY DEF Thinned, ThinnedTo
<1>2. ASSUME NEW i \in DOMAIN r, NEW j \in DOMAIN r,
             r[i].hash = r[j].hash, r[i].index = r[j].index
      PROVE  i = j
  <2>1. f[i] \in DOMAIN u /\ f[j] \in DOMAIN u /\ r[i] = u[f[i]] /\ r[j] = u[f[j]]
    BY <1>1
  <2>2. f[i] = f[j]
    BY <1>2, <2>1 DEF KeysDiffer
  <2>3. i \in Nat /\ j \in Nat /\ f[i] \in Nat
    BY <2>1
  <2>4. ~(f[i] < f[j]) /\ ~(f[j] < f[i])
    BY <2>2, <2>3
  <2> QED
    BY <1>1, <2>3, <2>4
<1> QED
  BY <1>2 DEF KeysDiffer

\* An input spends the one unspent output it refers to.
LEMMA SpendOK ==
  ASSUME NEW S, NEW u \in Seq(S), NEW x
  PROVE  /\ Spend(u, x) \in Seq(S)
         /\ KeysDiffer(u) =>
              /\ KeysDiffer(Spend(u, x))
              /\ \A o : o \in ToSet(Spend(u, x)) <=> o \in ToSet(u) /\ ~Refers(x, o)
<1> DEFINE gone == {o \in ToSet(u) : Refers(x, o)}
<1>1. /\ Spend(u, x) \in Seq(S) /\ Thinned(Spend(u, x), u)
      /\ Scattered(u, gone) => ToSet(Spend(u, x)) = ToSet(u) \ gone
  BY EraseOK DEF Spend
<1>2. ASSUME KeysDiffer(u) PROVE Scattered(u, gone)
  <2>1. ASSUME NEW i \in DOMAIN u, i + 1 \in DOMAIN u, u[i] \in gone, u[i + 1] \in gone
        PROVE  FALSE
    <3>1. i = i + 1 /\ i \in Nat
      BY <1>2, <2>1 DEF KeysDiffer, Refers
    <3> QED
      BY <3>1
  <2> QED
    BY <2>1 DEF Scattered
<1>3. KeysDiffer(u) => KeysDiffer(Spend(u, x))
  BY <1>1, KeysDifferThinned
<1> QED
  BY <1>1, <1>2, <1>3

\* update spends what the inputs refer to.
LEMMA UpdateOK ==
  ASSUME NEW S, NEW u \in Seq(S), NEW t, TxOK(t), OutputsIn(t, S)
  PROVE  /\ Update(u, t) \in Seq(S)
         /\ KeysDiffer(WithOutputs(u, t)) =>
              /\ KeysDiffer(Update(u, t))
              /\ \A o : o \in ToSet(Update(u, t)) <=>
                          o \in ToSet(WithOutputs(u, t)) /\ ~SpentIn(t, o)
<1> DEFINE n == Len(t.inputs)
           w == WithOutputs(u, t)
<1>1. PICK g \in [0..n -> Seq(S)] :
        /\ g[0] = w /\ Update(u, t) = g[n]
        /\ \A k \in 1..n : g[k] = Spend(g[k - 1], t.inputs[k])
  BY UpdateRounds
<1>2. n \in Nat /\ DOMAIN t.inputs = 1..n /\ n \in 0..n
  BY DEF TxOK, IsList
<1>3. Update(u, t) \in Seq(S)
  BY <1>1, <1>2
<1> HIDE DEF n, w
<1>4. ASSUME KeysDiffer(w)
      PROVE  /\ KeysDiffer(g[n])
             /\ \A o : o \in ToSet(g[n]) <=> o \in ToSet(w) /\ ~SpentIn(t, o)
  <2> DEFINE P(k) == /\ KeysDiffer(g[k])
                     /\ \A o : o \in ToSet(g[k]) <=>
                          o \in ToSet(w) /\ ~\E j \in 1..k : Refers(t.inputs[j], o)
             T == {k \in Nat : k <= n => P(k)}
  <2>1. 0 \in T
    <3>1. 1..0 = {}
      OBVIOUS
    <3> QED
      BY <1>1, <1>4, <3>1
  <2>2. ASSUME NEW k \in Nat, k \in T PROVE k + 1 \in T
    <3> SUFFICES ASSUME k + 1 <= n PROVE P(k + 1)
      BY <2>2
    <3>1. k + 1 \in 1..n /\ (k + 1) - 1 = k /\ k \in 0..n /\ k <= n
      BY <1>2
    <3>2. PICK v \in Seq(S) : v = g[k]
      BY <1>1, <3>1
    <3>3. g[k + 1] = Spend(v, t.inputs[k + 1])
      BY <1>1, <3>1, <3>2
    <3>4. P(k)
      BY <2>2, <3>1
    <3>5. /\ KeysDiffer(g[k + 1])
          /\ \A o : o \in ToSet(g[k + 1]) <=> o \in ToSet(v) /\ ~Refers(t.inputs[k + 1], o)
      BY <3>2, <3>3, <3>4, SpendOK
    <3>6. \A j : j \in 1..(k + 1) <=> (j \in 1..k \/ j = k + 1)
      BY NextRound
    <3> QED
      BY <3>2, <3>4, <3>5, <3>6
  <2> HIDE DEF T
  <2>3. n \in T
    BY <1>2, <2>1, <2>2, SetInduction
  <2>4. P(n)
    BY <1>2, <2>3 DEF T
  <2> QED
    BY <1>2, <2>4 DEF SpentIn
<1> QED
  BY <1>1, <1>3, <1>4 DEF w

\* Transactions T create o, and do not spend it.
CreatedBy(T, o) == \E t \in T : \E i \in DOMAIN t.outputs : o = UnspentOutput(t, i)

SpentBy(T, o) == \E t \in T : SpentIn(t, o)

\* The list u has exactly what the transactions T leave unspent, once each.
Exact(T, u) ==
  /\ KeysDiffer(u)
  /\ \A o : o \in ToSet(u) <=> CreatedBy(T, o) /\ ~SpentBy(T, o)

\* No transaction of T has the hash of t, and none refers to it, nor t itself.
Fresh(T, t) ==
  /\ \A q \in T : Hash(q) # Hash(t)
  /\ \A q \in T \union {t} : \A k \in DOMAIN q.inputs : q.inputs[k].hash # Hash(t)

\* The outputs of a transaction that is new are different from those in the list.
LEMMA WithOutputsDiffer ==
  ASSUME NEW S, NEW u \in Seq(S), NEW t, TxOK(t), OutputsIn(t, S),
         NEW T, Exact(T, u), Fresh(T, t)
  PROVE  /\ KeysDiffer(WithOutputs(u, t))
         /\ \A o : o \in ToSet(WithOutputs(u, t)) <=>
              (o \in ToSet(u) \/ \E i \in DOMAIN t.outputs : o = UnspentOutput(t, i))
<1> DEFINE w == WithOutputs(u, t)
<1>1. PICK l \in Nat : l = Len(u) /\ DOMAIN u = 1..l
  OBVIOUS
<1>2. PICK m \in Nat : m = Len(t.outputs) /\ DOMAIN t.outputs = 1..m
  BY DEF TxOK, IsList
<1>3. /\ w \in Seq(S) /\ Len(w) = l + m
      /\ \A i \in 1..l : w[i] = u[i]
      /\ \A i \in 1..m : w[l + i] = UnspentOutput(t, i)
  BY <1>1, <1>2, WithOutputsIs DEF TxOK
<1> HIDE DEF w
<1>4. DOMAIN w = 1..(l + m)
  BY <1>3
<1>5. ASSUME NEW i \in 1..(l + m), i \notin 1..l
      PROVE  i - l \in 1..m /\ w[i] = UnspentOutput(t, i - l)
  <2>1. i - l \in 1..m /\ l + (i - l) = i
    BY <1>5
  <2> QED
    BY <1>3, <2>1
<1>6. \A i : UnspentOutput(t, i).hash = Hash(t) /\ UnspentOutput(t, i).index = i - 1
  BY DEF UnspentOutput
<1>7. ASSUME NEW i \in 1..l PROVE u[i].hash # Hash(t)
  <2>1. CreatedBy(T, u[i])
    BY <1>1 DEF Exact, ToSet
  <2>2. PICK q \in T : \E k \in DOMAIN q.outputs : u[i] = UnspentOutput(q, k)
    BY <2>1 DEF CreatedBy
  <2>3. u[i].hash = Hash(q)
    BY <2>2 DEF UnspentOutput
  <2> QED
    BY <2>3 DEF Fresh
<1>8. KeysDiffer(w)
  <2> SUFFICES ASSUME NEW i \in 1..(l + m), NEW j \in 1..(l + m),
                      w[i].hash = w[j].hash, w[i].index = w[j].index
               PROVE  i = j
    BY <1>4 DEF KeysDiffer
  <2>1. CASE i \in 1..l /\ j \in 1..l
    BY <1>1, <1>3, <2>1 DEF Exact, KeysDiffer
  <2>2. CASE i \notin 1..l /\ j \notin 1..l
    <3>1. i - l \in 1..m /\ j - l \in 1..m /\ w[i].index = (i - l) - 1
          /\ w[j].index = (j - l) - 1
      BY <1>5, <1>6, <2>2
    <3>2. (i - l) - 1 = (j - l) - 1
      BY <3>1
    <3>3. i \in Int /\ j \in Int
      OBVIOUS
    <3> QED
      BY <3>2, <3>3
  <2>3. CASE i \in 1..l /\ j \notin 1..l
    BY <1>3, <1>5, <1>6, <1>7, <2>3
  <2>4. CASE i \notin 1..l /\ j \in 1..l
    BY <1>3, <1>5, <1>6, <1>7, <2>4
  <2> QED
    BY <2>1, <2>2, <2>3, <2>4
<1>9. \A o : o \in ToSet(w) <=>
        (o \in ToSet(u) \/ \E i \in 1..m : o = UnspentOutput(t, i))
  <2>1. ASSUME NEW i \in 1..m PROVE l + i \in 1..(l + m)
    OBVIOUS
  <2>2. ASSUME NEW i \in 1..l PROVE i \in 1..(l + m)
    OBVIOUS
  <2>3. ASSUME NEW o \in ToSet(w)
        PROVE  o \in ToSet(u) \/ \E i \in 1..m : o = UnspentOutput(t, i)
    <3>1. PICK i \in 1..(l + m) : o = w[i]
      BY <1>4 DEF ToSet
    <3>2. CASE i \in 1..l
      BY <1>1, <1>3, <3>1, <3>2 DEF ToSet
    <3>3. CASE i \notin 1..l
      BY <1>5, <3>1, <3>3
    <3> QED
      BY <3>2, <3>3
  <2>4. ASSUME NEW o \in ToSet(u) PROVE o \in ToSet(w)
    <3>1. PICK i \in 1..l : o = u[i]
      BY <1>1 DEF ToSet
    <3> QED
      BY <1>3, <1>4, <2>2, <3>1 DEF ToSet
  <2>5. ASSUME NEW i \in 1..m PROVE UnspentOutput(t, i) \in ToSet(w)
    <3>1. l + i \in DOMAIN w /\ w[l + i] = UnspentOutput(t, i)
      BY <1>3, <1>4, <2>1
    <3> QED
      BY <3>1 DEF ToSet
  <2> QED
    BY <2>3, <2>4, <2>5
<1> QED
  BY <1>2, <1>8, <1>9 DEF w

\* update keeps the list exact when a transaction is new.
LEMMA UpdateExact ==
  ASSUME NEW S, NEW u \in Seq(S), NEW t, TxOK(t), OutputsIn(t, S),
         NEW T, Exact(T, u), Fresh(T, t)
  PROVE  Exact(T \union {t}, Update(u, t))
<1>1. PICK w : w = WithOutputs(u, t)
  OBVIOUS
<1>2. KeysDiffer(w)
  BY <1>1, WithOutputsDiffer
<1>3. \A o : o \in ToSet(w) <=>
        (o \in ToSet(u) \/ \E i \in DOMAIN t.outputs : o = UnspentOutput(t, i))
  BY <1>1, WithOutputsDiffer
<1>4. /\ KeysDiffer(Update(u, t))
      /\ \A o : o \in ToSet(Update(u, t)) <=> o \in ToSet(w) /\ ~SpentIn(t, o)
  BY <1>1, <1>2, UpdateOK
<1>5. ASSUME NEW i \in DOMAIN t.outputs PROVE ~SpentBy(T \union {t}, UnspentOutput(t, i))
  <2>1. UnspentOutput(t, i).hash = Hash(t)
    BY DEF UnspentOutput
  <2> QED
    BY <2>1 DEF SpentBy, SpentIn, Refers, Fresh
<1>6. ASSUME NEW o
      PROVE  o \in ToSet(Update(u, t)) <=>
               CreatedBy(T \union {t}, o) /\ ~SpentBy(T \union {t}, o)
  <2>1. CreatedBy(T \union {t}, o) <=>
          (CreatedBy(T, o) \/ \E i \in DOMAIN t.outputs : o = UnspentOutput(t, i))
    BY DEF CreatedBy
  <2>2. SpentBy(T \union {t}, o) <=> (SpentBy(T, o) \/ SpentIn(t, o))
    BY DEF SpentBy
  <2>3. o \in ToSet(u) <=> CreatedBy(T, o) /\ ~SpentBy(T, o)
    BY DEF Exact
  <2> QED
    BY <1>3, <1>4, <1>5, <2>1, <2>2, <2>3
<1> QED
  BY <1>4, <1>6 DEF Exact

\* The rounds of the loop over the transactions of a block.
LEMMA UpdateAllRounds ==
  ASSUME NEW S, NEW u \in Seq(S), NEW ts, IsList(ts),
         \A k \in DOMAIN ts : TxOK(ts[k]) /\ OutputsIn(ts[k], S)
  PROVE  \E g \in [0..Len(ts) -> Seq(S)] :
           /\ g[0] = u /\ UpdateAll(u, ts) = g[Len(ts)]
           /\ \A k \in 1..Len(ts) : g[k] = Update(g[k - 1], ts[k])
<1> DEFINE V == Seq(S)
           n == Len(ts)
           step == [p \in (1..n) \X V |-> Update(p[2], ts[p[1]])]
           Body(h) == [q \in SUBSET DOMAIN ts |->
                         IF q = {} THEN u
                         ELSE Update(h[q \ {Max(q)}], ts[Max(q)])]
<1>1. n \in Nat /\ DOMAIN ts = 1..n /\ u \in V
  BY DEF IsList
<1>2. ASSUME NEW k \in 1..n, NEW v \in V
      PROVE  /\ Update(v, ts[k]) \in V
             /\ step[<<k, v>>] = Update(v, ts[k])
  <2>1. Update(v, ts[k]) \in V
    BY <1>1, UpdateOK DEF n
  <2> QED
    BY <2>1
<1>3. step \in [(1..n) \X V -> V]
  BY <1>2
<1>4. PICK h : IsFold(V, u, step, n, h)
  <2> HIDE DEF step, V, n
  <2> QED
    BY <1>1, <1>3, FoldExists
<1>5. ASSUME NEW q \in SUBSET (1..n), q # {}
      PROVE  Max(q) \in 1..n /\ q \ {Max(q)} \in SUBSET (1..n)
  BY <1>1, <1>5, LastPosition
<1> HIDE DEF step, V, n
<1>6. h = Body(h)
  <2>1. ASSUME NEW q \in SUBSET (1..n), q # {}
        PROVE  h[q] = Update(h[q \ {Max(q)}], ts[Max(q)])
    BY <1>2, <1>4, <1>5, <2>1 DEF IsFold
  <2> QED
    BY <1>1, <1>4, <2>1 DEF IsFold
<1>7. PICK iter : iter = Body(iter) /\ UpdateAll(u, ts) = iter[DOMAIN ts]
  <2> DEFINE it == CHOOSE f : f = Body(f)
  <2>1. it = Body(it)
    BY <1>6
  <2>2. UpdateAll(u, ts) = it[DOMAIN ts]
    BY DEF UpdateAll, FoldLeft, MapThenFoldSet
  <2> HIDE DEF it
  <2> QED
    BY <2>1, <2>2
<1>8. FoldsAs(V, u, step, n, iter)
  <2>1. \A q \in SUBSET (1..n) : iter[q] = IF q = {} THEN u
                         ELSE Update(iter[q \ {Max(q)}], ts[Max(q)])
    BY <1>1, <1>7
  <2> QED
    BY <1>2, <1>5, <2>1 DEF FoldsAs
<1>9. PICK g : IsLoop(V, u, step, n, g) /\ g[n] = iter[DOMAIN ts]
  <2>1. LoopEnds(V, u, step, n, iter[DOMAIN ts])
    BY <1>1, <1>3, <1>8, FoldRounds
  <2> QED
    BY <2>1 DEF LoopEnds
<1>10. ASSUME NEW k \in 1..n PROVE g[k] = Update(g[k - 1], ts[k])
  <2>1. k - 1 \in 0..n
    BY <1>1
  <2> QED
    BY <1>2, <1>9, <2>1 DEF IsLoop
<1> QED
  BY <1>1, <1>7, <1>9, <1>10 DEF IsLoop, V, n

\* The first k transactions of a list, and all.
UpTo(ts, k) == {ts[j] : j \in 1..k}

\* The loop over the transactions of a block keeps the list exact when each is
\* new with respect to the chain and the ones before it.
LEMMA UpdateAllExact ==
  ASSUME NEW S, NEW u \in Seq(S), NEW ts, IsList(ts),
         \A k \in DOMAIN ts : TxOK(ts[k]) /\ OutputsIn(ts[k], S)
  PROVE  /\ UpdateAll(u, ts) \in Seq(S)
         /\ \A T : /\ Exact(T, u)
                   /\ \A k \in DOMAIN ts : Fresh(T \union UpTo(ts, k - 1), ts[k])
                   => Exact(T \union ToSet(ts), UpdateAll(u, ts))
<1> DEFINE n == Len(ts)
<1>1. PICK g \in [0..n -> Seq(S)] :
        /\ g[0] = u /\ UpdateAll(u, ts) = g[n]
        /\ \A k \in 1..n : g[k] = Update(g[k - 1], ts[k])
  BY UpdateAllRounds
<1>2. n \in Nat /\ DOMAIN ts = 1..n /\ n \in 0..n
  BY DEF IsList
<1>3. UpdateAll(u, ts) \in Seq(S)
  BY <1>1, <1>2
<1> HIDE DEF n
<1>4. ASSUME NEW T, Exact(T, u),
             \A k \in DOMAIN ts : Fresh(T \union UpTo(ts, k - 1), ts[k])
      PROVE  Exact(T \union ToSet(ts), g[n])
  <2> DEFINE D == {k \in Nat : k <= n => Exact(T \union UpTo(ts, k), g[k])}
  <2>1. 0 \in D
    <3>1. T \union UpTo(ts, 0) = T
      BY DEF UpTo
    <3> QED
      BY <1>1, <1>4, <3>1
  <2>2. ASSUME NEW k \in Nat, k \in D PROVE k + 1 \in D
    <3> SUFFICES ASSUME k + 1 <= n PROVE Exact(T \union UpTo(ts, k + 1), g[k + 1])
      BY <2>2
    <3>1. k + 1 \in 1..n /\ (k + 1) - 1 = k /\ k \in 0..n /\ k <= n
      BY <1>2
    <3>2. PICK v \in Seq(S) : v = g[k]
      BY <1>1, <3>1
    <3>3. PICK R : R = T \union UpTo(ts, k)
      OBVIOUS
    <3>4. PICK t : t = ts[k + 1]
      OBVIOUS
    <3>5. g[k + 1] = Update(v, t) /\ Exact(R, v)
      BY <1>1, <2>2, <3>1, <3>2, <3>3, <3>4
    <3>6. Fresh(R, t) /\ TxOK(t) /\ OutputsIn(t, S)
      BY <1>2, <1>4, <3>1, <3>3, <3>4
    <3>7. Exact(R \union {t}, g[k + 1])
      BY <3>5, <3>6, UpdateExact
    <3>8. R \union {t} = T \union UpTo(ts, k + 1)
      <4>1. \A j : j \in 1..(k + 1) <=> (j \in 1..k \/ j = k + 1)
        BY NextRound
      <4> QED
        BY <3>3, <3>4, <4>1 DEF UpTo
    <3> QED
      BY <3>7, <3>8
  <2> HIDE DEF D
  <2>3. n \in D
    BY <1>2, <2>1, <2>2, SetInduction
  <2>4. Exact(T \union UpTo(ts, n), g[n])
    BY <1>2, <2>3 DEF D
  <2>5. UpTo(ts, n) = ToSet(ts)
    BY <1>2 DEF UpTo, ToSet
  <2> QED
    BY <2>4, <2>5
<1> QED
  BY <1>1, <1>3, <1>4

-----------------------------------------------------------------------------
(* Pools and blocks.                                                        *)

\* A standard transaction as a wallet makes it.
StandardOK(t) == TxOK(t) /\ t.type = "standard" /\ t.inputs # <<>>

\* A list of linked transactions, no two of which compete for an output.
PoolOK(p) ==
  /\ IsList(p)
  /\ \A i \in DOMAIN p : StandardOK(p[i].tx)
  /\ \A i, j \in DOMAIN p : i # j => ~SharesInput(p[i].tx, p[j].tx)

\* The transactions of a block: only a reward, in front, is without inputs, and
\* no two compete for an output.
BlockOK(ts) ==
  /\ IsList(ts)
  /\ \A k \in DOMAIN ts : TxOK(ts[k]) /\ (ts[k].inputs = <<>> <=> k = 1)
  /\ \A j, k \in DOMAIN ts : j # k => ~SharesInput(ts[j], ts[k])

\* Inputs that are equal, and not empty, are shared; SharesInput is symmetric.
LEMMA SameInputs ==
  ASSUME NEW t, NEW u
  PROVE  /\ IsList(t.inputs) /\ t.inputs # <<>> /\ t.inputs = u.inputs => SharesInput(t, u)
         /\ SharesInput(t, u) <=> SharesInput(u, t)
<1>1. ASSUME IsList(t.inputs), t.inputs # <<>>, t.inputs = u.inputs
      PROVE  SharesInput(t, u)
  <2>1. 1 \in DOMAIN t.inputs
    BY <1>1 DEF IsList
  <2> QED
    BY <1>1, <2>1 DEF SharesInput
<1> QED
  BY <1>1 DEF SharesInput

\* Equal hashes mean equal inputs.
LEMMA SameHash ==
  ASSUME NEW t, NEW u, Hash(t) = Hash(u)
  PROVE  t.index = u.index /\ t.inputs = u.inputs /\ t.outputs = u.outputs
BY DEF Hash

\* Thinning a pool leaves a pool.
LEMMA PoolThinned ==
  ASSUME NEW S, NEW p \in Seq(S), NEW r \in Seq(S), Thinned(r, p), PoolOK(p)
  PROVE  PoolOK(r)
<1>1. PICK f \in [DOMAIN r -> 1..Len(p)] :
        /\ \A i, j \in DOMAIN r : i < j => f[i] < f[j]
        /\ \A i \in DOMAIN r : r[i] = p[f[i]]
  BY DEF Thinned, ThinnedTo
<1>2. DOMAIN p = 1..Len(p)
  OBVIOUS
<1>3. \A i \in DOMAIN r : StandardOK(r[i].tx)
  BY <1>1, <1>2 DEF PoolOK
<1>4. ASSUME NEW i \in DOMAIN r, NEW j \in DOMAIN r, i # j PROVE f[i] # f[j]
  <2>1. i \in Nat /\ j \in Nat /\ f[i] \in Nat /\ f[j] \in Nat
    BY <1>1
  <2>2. CASE i < j
    BY <1>1, <2>1, <2>2
  <2>3. CASE j < i
    BY <1>1, <2>1, <2>3
  <2> QED
    BY <1>4, <2>1, <2>2, <2>3
<1>5. \A i, j \in DOMAIN r : i # j => ~SharesInput(r[i].tx, r[j].tx)
  BY <1>1, <1>2, <1>4 DEF PoolOK
<1> QED
  BY <1>3, <1>5 DEF PoolOK, IsList

\* remove erases the one transaction with a hash.
LEMMA RemoveTxOK ==
  ASSUME NEW S, NEW p \in Seq(S), NEW t
  PROVE  /\ RemoveTx(p, t) \in Seq(S) /\ ToSet(RemoveTx(p, t)) \subseteq ToSet(p)
         /\ PoolOK(p) => /\ PoolOK(RemoveTx(p, t))
                         /\ \A x \in ToSet(RemoveTx(p, t)) : Hash(x.tx) # Hash(t)
<1> DEFINE gone == {link \in ToSet(p) : Hash(link.tx) = Hash(t)}
<1>1. /\ RemoveTx(p, t) \in Seq(S) /\ Thinned(RemoveTx(p, t), p)
      /\ Scattered(p, gone) => ToSet(RemoveTx(p, t)) = ToSet(p) \ gone
  BY EraseOK DEF RemoveTx
<1>2. ASSUME PoolOK(p) PROVE Scattered(p, gone)
  <2>1. ASSUME NEW i \in DOMAIN p, i + 1 \in DOMAIN p, p[i] \in gone, p[i + 1] \in gone
        PROVE  FALSE
    <3>1. Hash(p[i].tx) = Hash(p[i + 1].tx)
      BY <2>1
    <3>2. p[i].tx.inputs = p[i + 1].tx.inputs
      BY <3>1, SameHash
    <3>3. SharesInput(p[i].tx, p[i + 1].tx)
      BY <1>2, <3>2, SameInputs DEF PoolOK, StandardOK, TxOK
    <3>4. i # i + 1
      OBVIOUS
    <3> QED
      BY <1>2, <2>1, <3>3, <3>4 DEF PoolOK
  <2> QED
    BY <2>1 DEF Scattered
<1>3. PoolOK(p) => PoolOK(RemoveTx(p, t))
  BY <1>1, PoolThinned
<1>4. ToSet(RemoveTx(p, t)) \subseteq ToSet(p)
  BY <1>1, ThinnedElements
<1> QED
  BY <1>1, <1>2, <1>3, <1>4

\* The rounds of the loop that removes the transactions of a block.
LEMMA RemoveAllRounds ==
  ASSUME NEW S, NEW p \in Seq(S), NEW ts, IsList(ts)
  PROVE  \E g \in [0..Len(ts) -> Seq(S)] :
           /\ g[0] = p /\ RemoveAll(p, ts) = g[Len(ts)]
           /\ \A k \in 1..Len(ts) : g[k] = RemoveTx(g[k - 1], ts[k])
<1> DEFINE V == Seq(S)
           n == Len(ts)
           step == [e \in (1..n) \X V |-> RemoveTx(e[2], ts[e[1]])]
           Body(h) == [q \in SUBSET DOMAIN ts |->
                         IF q = {} THEN p
                         ELSE RemoveTx(h[q \ {Max(q)}], ts[Max(q)])]
<1>1. n \in Nat /\ DOMAIN ts = 1..n /\ p \in V
  BY DEF IsList
<1>2. ASSUME NEW k \in 1..n, NEW v \in V
      PROVE  /\ RemoveTx(v, ts[k]) \in V
             /\ step[<<k, v>>] = RemoveTx(v, ts[k])
  <2>1. RemoveTx(v, ts[k]) \in V
    BY RemoveTxOK
  <2> QED
    BY <2>1
<1>3. step \in [(1..n) \X V -> V]
  BY <1>2
<1>4. PICK h : IsFold(V, p, step, n, h)
  <2> HIDE DEF step, V, n
  <2> QED
    BY <1>1, <1>3, FoldExists
<1>5. ASSUME NEW q \in SUBSET (1..n), q # {}
      PROVE  Max(q) \in 1..n /\ q \ {Max(q)} \in SUBSET (1..n)
  BY <1>1, <1>5, LastPosition
<1> HIDE DEF step, V, n
<1>6. h = Body(h)
  <2>1. ASSUME NEW q \in SUBSET (1..n), q # {}
        PROVE  h[q] = RemoveTx(h[q \ {Max(q)}], ts[Max(q)])
    BY <1>2, <1>4, <1>5, <2>1 DEF IsFold
  <2> QED
    BY <1>1, <1>4, <2>1 DEF IsFold
<1>7. PICK iter : iter = Body(iter) /\ RemoveAll(p, ts) = iter[DOMAIN ts]
  <2> DEFINE it == CHOOSE f : f = Body(f)
  <2>1. it = Body(it)
    BY <1>6
  <2>2. RemoveAll(p, ts) = it[DOMAIN ts]
    BY DEF RemoveAll, FoldLeft, MapThenFoldSet
  <2> HIDE DEF it
  <2> QED
    BY <2>1, <2>2
<1>8. FoldsAs(V, p, step, n, iter)
  <2>1. \A q \in SUBSET (1..n) : iter[q] = IF q = {} THEN p
                         ELSE RemoveTx(iter[q \ {Max(q)}], ts[Max(q)])
    BY <1>1, <1>7
  <2> QED
    BY <1>2, <1>5, <2>1 DEF FoldsAs
<1>9. PICK g : IsLoop(V, p, step, n, g) /\ g[n] = iter[DOMAIN ts]
  <2>1. LoopEnds(V, p, step, n, iter[DOMAIN ts])
    BY <1>1, <1>3, <1>8, FoldRounds
  <2> QED
    BY <2>1 DEF LoopEnds
<1>10. ASSUME NEW k \in 1..n PROVE g[k] = RemoveTx(g[k - 1], ts[k])
  <2>1. k - 1 \in 0..n
    BY <1>1
  <2> QED
    BY <1>2, <1>9, <2>1 DEF IsLoop
<1> QED
  BY <1>1, <1>7, <1>9, <1>10 DEF IsLoop, V, n

\* The transactions of a block are gone from the pool after it.
LEMMA RemoveAllOK ==
  ASSUME NEW S, NEW p \in Seq(S), NEW ts, IsList(ts), PoolOK(p)
  PROVE  /\ RemoveAll(p, ts) \in Seq(S) /\ PoolOK(RemoveAll(p, ts))
         /\ ToSet(RemoveAll(p, ts)) \subseteq ToSet(p)
         /\ \A x \in ToSet(RemoveAll(p, ts)), k \in DOMAIN ts : Hash(x.tx) # Hash(ts[k])
<1> DEFINE n == Len(ts)
<1>1. PICK g \in [0..n -> Seq(S)] :
        /\ g[0] = p /\ RemoveAll(p, ts) = g[n]
        /\ \A k \in 1..n : g[k] = RemoveTx(g[k - 1], ts[k])
  BY RemoveAllRounds
<1>2. n \in Nat /\ DOMAIN ts = 1..n /\ n \in 0..n
  BY DEF IsList
<1> HIDE DEF n
<1> DEFINE P(k) == /\ PoolOK(g[k]) /\ ToSet(g[k]) \subseteq ToSet(p)
                   /\ \A x \in ToSet(g[k]), j \in 1..k : Hash(x.tx) # Hash(ts[j])
           D == {k \in Nat : k <= n => P(k)}
<1>3. 0 \in D
  BY <1>1
<1>4. ASSUME NEW k \in Nat, k \in D PROVE k + 1 \in D
  <2> SUFFICES ASSUME k + 1 <= n PROVE P(k + 1)
    BY <1>4
  <2>1. k + 1 \in 1..n /\ (k + 1) - 1 = k /\ k \in 0..n /\ k <= n
    BY <1>2
  <2>2. PICK v \in Seq(S) : v = g[k]
    BY <1>1, <2>1
  <2>3. PICK t : t = ts[k + 1]
    OBVIOUS
  <2>4. g[k + 1] = RemoveTx(v, t) /\ P(k)
    BY <1>1, <1>4, <2>1, <2>2, <2>3
  <2>5. /\ PoolOK(g[k + 1]) /\ ToSet(g[k + 1]) \subseteq ToSet(v)
        /\ \A x \in ToSet(g[k + 1]) : Hash(x.tx) # Hash(t)
    <3>1. PoolOK(v)
      BY <2>2, <2>4
    <3>2. /\ PoolOK(RemoveTx(v, t)) /\ ToSet(RemoveTx(v, t)) \subseteq ToSet(v)
          /\ \A x \in ToSet(RemoveTx(v, t)) : Hash(x.tx) # Hash(t)
      BY <3>1, RemoveTxOK
    <3> QED
      BY <2>4, <3>2
  <2>6. \A j \in 1..(k + 1) : j \in 1..k \/ j = k + 1
    OBVIOUS
  <2> QED
    BY <2>2, <2>3, <2>4, <2>5, <2>6
<1> HIDE DEF D
<1>5. n \in D
  BY <1>2, <1>3, <1>4, SetInduction
<1>6. P(n)
  BY <1>2, <1>5 DEF D
<1> QED
  BY <1>1, <1>2, <1>6

\* prune erases some transactions, whatever its inner loop does.
LEMMA PruneOK ==
  ASSUME NEW p, PoolOK(p), NEW u, NEW r \in Prune(p, u)
  PROVE  PoolOK(r) /\ ToSet(r) \subseteq ToSet(p)
<1>1. PICK S : p \in Seq(S)
  BY DEF PoolOK, IsList
<1>2. PICK more : IsMore(more) /\ r = EraseRuns(p, more)
  <2> DEFINE gone == {link \in ToSet(p) : Missing(link.tx, u) # {}}
  <2>1. PICK f \in [gone -> UNION {Dangling(link.tx, u) : link \in gone}] :
          /\ r = EraseRuns(p, f)
          /\ \A link \in gone : f[link] \in Dangling(link.tx, u)
    BY DEF Prune
  <2>2. ASSUME NEW link \in gone PROVE Dangling(link.tx, u) \subseteq Nat
    BY DEF Dangling
  <2>3. IsMore(f)
    BY <2>1, <2>2 DEF IsMore
  <2> QED
    BY <2>1, <2>3
<1>3. r \in Seq(S) /\ Thinned(r, p)
  BY <1>1, <1>2, EraseRunsOK
<1> QED
  BY <1>1, <1>3, PoolThinned, ThinnedElements

\* add keeps a pool a pool.
LEMMA CanAddOK ==
  ASSUME NEW p, PoolOK(p), NEW link, StandardOK(link.tx), CanAdd(p, link)
  PROVE  /\ PoolOK(Append(p, link))
         /\ \A x : x \in ToSet(Append(p, link)) <=> x \in ToSet(p) \/ x = link
<1>1. PICK S : p \in Seq(S) /\ link \in S
  <2>1. PICK R : p \in Seq(R)
    BY DEF PoolOK, IsList
  <2>2. p \in Seq(R \union {link})
    BY <2>1
  <2> QED
    BY <2>2
<1>2. PICK q : q = Append(p, link)
  OBVIOUS
<1>3. PICK m \in Nat : m = Len(p) + 1
  BY <1>1
<1>4. /\ q \in Seq(S) /\ DOMAIN q = 1..m /\ DOMAIN p = 1..(m - 1) /\ q[m] = link
      /\ \A i \in 1..(m - 1) : q[i] = p[i]
  BY <1>1, <1>2, <1>3
<1>5. \A i : i \in 1..m <=> (i \in 1..(m - 1) \/ i = m)
  BY <1>1, <1>3
<1>6. \A i \in 1..(m - 1) : ~SharesInput(link.tx, p[i].tx) /\ ~SharesInput(p[i].tx, link.tx)
  BY <1>4, SameInputs DEF CanAdd
<1>7. PoolOK(q)
  <2>1. \A i \in DOMAIN q : StandardOK(q[i].tx)
    BY <1>4, <1>5 DEF PoolOK
  <2>2. ASSUME NEW i \in DOMAIN q, NEW j \in DOMAIN q, i # j
        PROVE  ~SharesInput(q[i].tx, q[j].tx)
    <3>1. CASE i = m
      BY <1>4, <1>5, <1>6, <2>2, <3>1
    <3>2. CASE j = m
      BY <1>4, <1>5, <1>6, <2>2, <3>2
    <3>3. CASE i # m /\ j # m
      BY <1>4, <1>5, <2>2, <3>3 DEF PoolOK
    <3> QED
      BY <3>1, <3>2, <3>3
  <2> QED
    BY <1>4, <2>1, <2>2 DEF PoolOK, IsList
<1>8. \A x : x \in ToSet(q) <=> x \in ToSet(p) \/ x = link
  BY <1>4, <1>5 DEF ToSet
<1> QED
  BY <1>2, <1>7, <1>8

\* A part of a pool is a pool.
LEMMA PoolPart ==
  ASSUME NEW p, PoolOK(p), NEW a \in Nat \ {0}, NEW b \in 0..Len(p)
  PROVE  /\ PoolOK(SubSeq(p, a, b)) /\ ToSet(SubSeq(p, a, b)) \subseteq ToSet(p)
<1>1. PICK S : p \in Seq(S) /\ Len(p) \in Nat /\ DOMAIN p = 1..Len(p)
  BY DEF PoolOK, IsList
<1>2. PICK q : q = SubSeq(p, a, b)
  OBVIOUS
<1>3. PICK l \in Nat : l = IF a <= b THEN b - a + 1 ELSE 0
  <2>1. b \in Nat /\ (a <= b => b - a + 1 \in Nat)
    BY <1>1
  <2> QED
    BY <2>1
<1>4. \A i \in 1..l : i + a - 1 \in 1..Len(p)
  BY <1>1, <1>3
<1>5. q \in Seq(S) /\ DOMAIN q = 1..l /\ \A i \in 1..l : q[i] = p[i + a - 1]
  BY <1>1, <1>2, <1>3, <1>4
<1>6. \A i \in DOMAIN q : StandardOK(q[i].tx)
  BY <1>1, <1>4, <1>5 DEF PoolOK
<1>7. \A i, j \in 1..l : i # j => i + a - 1 # j + a - 1
  OBVIOUS
<1>8. ASSUME NEW i \in DOMAIN q, NEW j \in DOMAIN q, i # j
      PROVE  ~SharesInput(q[i].tx, q[j].tx)
  <2>1. i \in 1..l /\ j \in 1..l
    BY <1>5
  <2>2. PICK x \in DOMAIN p : x = i + a - 1 /\ q[i] = p[x]
    BY <1>1, <1>4, <1>5, <2>1
  <2>3. PICK y \in DOMAIN p : y = j + a - 1 /\ q[j] = p[y]
    BY <1>1, <1>4, <1>5, <2>1
  <2>4. x # y
    BY <1>7, <1>8, <2>1, <2>2, <2>3
  <2> QED
    BY <2>2, <2>3, <2>4 DEF PoolOK
<1>9. ToSet(q) \subseteq ToSet(p)
  BY <1>1, <1>4, <1>5 DEF ToSet
<1> QED
  BY <1>2, <1>5, <1>6, <1>8, <1>9 DEF PoolOK, IsList

\* Every input of t refers to a transaction of T.
Closed(T, t) == \A k \in DOMAIN t.inputs : \E q \in T : t.inputs[k].hash = Hash(q)

\* A transaction that is valid against exact unspent outputs of T spends outputs
\* of T, and is not one of T.
LEMMA ValidClosed ==
  ASSUME NEW T, NEW u, Exact(T, u), NEW t, StandardOK(t), ValidTx(t, u)
  PROVE  Closed(T, t) /\ t \notin T
<1>1. ASSUME NEW k \in DOMAIN t.inputs
      PROVE  \E i \in DOMAIN u : Refers(t.inputs[k], u[i])
  <2>1. ValidStandard(t, u)
    BY DEF ValidTx, StandardOK
  <2>2. Matching(u, t.inputs[k]) # {}
    BY <2>1 DEF ValidStandard
  <2> QED
    BY <2>2 DEF Matching
<1>2. ASSUME NEW k \in DOMAIN t.inputs PROVE \E q \in T : t.inputs[k].hash = Hash(q)
  <2>1. PICK i \in DOMAIN u : Refers(t.inputs[k], u[i])
    BY <1>1
  <2>2. CreatedBy(T, u[i])
    BY DEF Exact, ToSet
  <2>3. PICK q \in T : \E j \in DOMAIN q.outputs : u[i] = UnspentOutput(q, j)
    BY <2>2 DEF CreatedBy
  <2>4. u[i].hash = Hash(q)
    BY <2>3 DEF UnspentOutput
  <2> QED
    BY <2>1, <2>4 DEF Refers
<1>3. t \notin T
  <2>1. 1 \in DOMAIN t.inputs
    BY DEF StandardOK, TxOK, IsList
  <2>2. PICK i \in DOMAIN u : Refers(t.inputs[1], u[i])
    BY <1>1, <2>1
  <2>3. ~SpentBy(T, u[i])
    BY DEF Exact, ToSet
  <2> QED
    BY <2>1, <2>2, <2>3 DEF SpentBy, SpentIn
<1> QED
  BY <1>2, <1>3 DEF Closed

\* A set for the unspent outputs and those of a block.
LEMMA BlockOutputs ==
  ASSUME NEW R, NEW u \in Seq(R), NEW ts
  PROVE  \E S : u \in Seq(S) /\ \A k \in DOMAIN ts : OutputsIn(ts[k], S)
<1> DEFINE O(k) == {UnspentOutput(ts[k], i) : i \in DOMAIN ts[k].outputs}
           S == R \union UNION {O(k) : k \in DOMAIN ts}
<1>1. u \in Seq(S)
  OBVIOUS
<1>2. \A k \in DOMAIN ts : OutputsIn(ts[k], S)
  BY DEF OutputsIn
<1> QED
  BY <1>1, <1>2

\* The transactions of a block have different hashes.
LEMMA BlockHashes ==
  ASSUME NEW ts, BlockOK(ts), NEW j \in DOMAIN ts, NEW k \in DOMAIN ts, j # k
  PROVE  Hash(ts[j]) # Hash(ts[k])
<1> SUFFICES ASSUME Hash(ts[j]) = Hash(ts[k]) PROVE FALSE
  OBVIOUS
<1>1. ts[j].inputs = ts[k].inputs
  BY SameHash
<1>2. ts[j].inputs # <<>>
  BY <1>1 DEF BlockOK
<1>3. SharesInput(ts[j], ts[k])
  BY <1>1, <1>2, SameInputs DEF BlockOK, TxOK
<1> QED
  BY <1>3 DEF BlockOK

\* The transactions of the block at position L are new: those of the chain T
\* were made for other positions, and all inputs refer to the chain.
LEMMA BlockFresh ==
  ASSUME NEW ts, BlockOK(ts), NEW T, NEW L,
         \A q \in T : q.index # L /\ Closed(T, q),
         \A k \in DOMAIN ts : ts[k].index = L /\ Closed(T, ts[k]),
         NEW k \in DOMAIN ts
  PROVE  Fresh(T \union UpTo(ts, k - 1), ts[k])
<1> DEFINE t == ts[k]
<1>1. PICK n \in Nat : DOMAIN ts = 1..n
  BY DEF BlockOK, IsList
<1>2. ASSUME NEW q \in UpTo(ts, k - 1)
      PROVE  \E j \in DOMAIN ts : j # k /\ q = ts[j]
  <2>1. PICK j \in 1..(k - 1) : q = ts[j]
    BY DEF UpTo
  <2>2. j \in 1..n /\ j # k
    BY <1>1
  <2> QED
    BY <1>1, <2>1, <2>2
<1>3. ASSUME NEW q \in T PROVE Hash(q) # Hash(t)
  BY SameHash
<1>4. ASSUME NEW q \in T \union UpTo(ts, k - 1) PROVE Hash(q) # Hash(t)
  BY <1>2, <1>3, BlockHashes
<1>5. ASSUME NEW q \in (T \union UpTo(ts, k - 1)) \union {t}, NEW i \in DOMAIN q.inputs
      PROVE  q.inputs[i].hash # Hash(t)
  <2>1. Closed(T, q)
    BY <1>2
  <2> QED
    BY <1>3, <2>1 DEF Closed
<1> QED
  BY <1>4, <1>5 DEF Fresh

\* The loop over the transactions of a block keeps the unspent outputs exact.
LEMMA BlockUpdateOK ==
  ASSUME NEW u, IsList(u), NEW ts, BlockOK(ts)
  PROVE  /\ IsList(UpdateAll(u, ts))
         /\ \A T, L : /\ Exact(T, u)
                      /\ \A q \in T : q.index # L /\ Closed(T, q)
                      /\ \A k \in DOMAIN ts : ts[k].index = L /\ Closed(T, ts[k])
                      => Exact(T \union ToSet(ts), UpdateAll(u, ts))
<1>1. PICK S : u \in Seq(S) /\ \A k \in DOMAIN ts : OutputsIn(ts[k], S)
  BY BlockOutputs DEF IsList
<1>2. IsList(ts) /\ \A k \in DOMAIN ts : TxOK(ts[k]) /\ OutputsIn(ts[k], S)
  BY <1>1 DEF BlockOK
<1>3. UpdateAll(u, ts) \in Seq(S)
  BY <1>1, <1>2, UpdateAllExact
<1>4. ASSUME NEW T, NEW L, Exact(T, u),
             \A q \in T : q.index # L /\ Closed(T, q),
             \A k \in DOMAIN ts : ts[k].index = L /\ Closed(T, ts[k])
      PROVE  Exact(T \union ToSet(ts), UpdateAll(u, ts))
  <2>1. \A k \in DOMAIN ts : Fresh(T \union UpTo(ts, k - 1), ts[k])
    BY <1>4, BlockFresh
  <2> QED
    BY <1>1, <1>2, <1>4, <2>1, UpdateAllExact
<1> QED
  BY <1>3, <1>4 DEF IsList

-----------------------------------------------------------------------------
(* Blocks.                                                                  *)

\* The transactions of block b exist, were made for its position, and exactly
\* the first one is a reward.
WellFormed(b) ==
  /\ b \in Block
  /\ b.hash \in DOMAIN content
  /\ \A k \in DOMAIN content[b.hash] :
       /\ content[b.hash][k].index = b.index
       /\ (content[b.hash][k].type = "reward") <=> (k = 1)

AllWellFormed(bs) == bs \in Seq(Block) /\ \A i \in DOMAIN bs : WellFormed(bs[i])

\* What is known of a call under way: a node that is to broadcast has a block,
\* and the blocks that are sent are well-formed.
CallOK(c) ==
  /\ c.at \in Nodes
  /\ c.op \in {"block", "request"} => c.from \in Nodes
  /\ c.op = "broadcast" => chain[c.at].blocks # <<>>
  /\ c.op = "block" => WellFormed(c.arg)
  /\ c.op = "load" => AllWellFormed(c.arg)

ChainOK(n) ==
  /\ chain[n] \in Chain /\ Linked(chain[n].blocks)
  /\ AllWellFormed(chain[n].blocks)

\* The inductive invariant: a block travels in calls before it is appended, and
\* in loaded chains before they replace others.
IInv ==
  /\ \E S : content \in Seq(S)
  /\ chain \in [Nodes -> Chain]
  /\ \A n \in Nodes : ChainOK(n)
  /\ \A c \in DOMAIN calls : CallOK(c)

-----------------------------------------------------------------------------
(* Calls.                                                                   *)

\* A call that is made is under way, besides those that were.
LEMMA CallingIs ==
  ASSUME NEW set, Calling(set)
  PROVE  DOMAIN calls' \subseteq DOMAIN calls \union set
BY DEF Calling, SetToBag, (+)

\* A call that is served leads to others, or to none.
LEMMA ServingIs ==
  ASSUME NEW c, NEW set, Serving(c, set)
  PROVE  DOMAIN calls' \subseteq DOMAIN calls \union set
BY DEF Serving, SetToBag, (+), (-)

\* The fields of a call.
LEMMA CallIs ==
  ASSUME NEW op, NEW at, NEW from, NEW arg
  PROVE  /\ Call(op, at, from, arg).op = op /\ Call(op, at, from, arg).at = at
         /\ Call(op, at, from, arg).from = from /\ Call(op, at, from, arg).arg = arg
BY DEF Call

-----------------------------------------------------------------------------
(* What stays.                                                              *)

\* Blocks are only ever added, and no chain becomes empty.
Growing ==
  /\ content' = content \/ \E x : content' = Append(content, x)
  /\ chain' \in [Nodes -> Chain]
  /\ \A n \in Nodes : chain[n].blocks # <<>> => chain'[n].blocks # <<>>

\* A block of any node that is well-formed stays so.
LEMMA WellFormedStable ==
  ASSUME IInv, Growing
  PROVE  /\ \E S : content' \in Seq(S)
         /\ \A h \in DOMAIN content : h \in DOMAIN content' /\ content'[h] = content[h]
         /\ \A b : WellFormed(b) => WellFormed(b)'
         /\ \A bs : AllWellFormed(bs) => AllWellFormed(bs)'
<1>1. /\ \E S : content' \in Seq(S)
      /\ \A h \in DOMAIN content : h \in DOMAIN content' /\ content'[h] = content[h]
  <2>1. PICK S : content \in Seq(S)
    BY DEF IInv
  <2>2. CASE content' = content
    BY <2>1, <2>2
  <2>3. ASSUME NEW x, content' = Append(content, x)
        PROVE  /\ \E T : content' \in Seq(T)
               /\ \A h \in DOMAIN content : h \in DOMAIN content' /\ content'[h] = content[h]
    <3>1. content \in Seq(S \union {x}) /\ x \in S \union {x}
      BY <2>1
    <3>2. PICK T : content \in Seq(T) /\ x \in T
      BY <3>1
    <3> QED
      BY <2>3, <3>2
  <2> QED
    BY <2>2, <2>3 DEF Growing
<1>2. ASSUME NEW b, WellFormed(b) PROVE WellFormed(b)'
  <2>1. b \in Block /\ b.hash \in DOMAIN content' /\ content'[b.hash] = content[b.hash]
    BY <1>1, <1>2 DEF WellFormed
  <2> QED
    BY <1>2, <2>1 DEF WellFormed
<1> QED
  BY <1>1, <1>2 DEF AllWellFormed

\* The invariant, from what a step adds.
LEMMA Grow ==
  ASSUME IInv, Growing,
         \A n \in Nodes : chain'[n] = chain[n] \/ ChainOK(n)',
         \A c \in DOMAIN calls' : c \in DOMAIN calls \/ CallOK(c)'
  PROVE  IInv'
<1>1. ASSUME NEW n \in Nodes PROVE ChainOK(n)'
  BY WellFormedStable DEF IInv, ChainOK
<1>2. ASSUME NEW c \in DOMAIN calls' PROVE CallOK(c)'
  <2>1. CASE c \in DOMAIN calls
    <3>1. CallOK(c)
      BY <2>1 DEF IInv
    <3>2. WellFormed(c.arg) => WellFormed(c.arg)'
      BY WellFormedStable
    <3>3. AllWellFormed(c.arg) => AllWellFormed(c.arg)'
      BY WellFormedStable
    <3>4. c.at \in Nodes /\ (chain[c.at].blocks # <<>> => chain'[c.at].blocks # <<>>)
      BY <3>1 DEF CallOK, Growing
    <3> QED
      BY <3>1, <3>2, <3>3, <3>4 DEF CallOK
  <2> QED
    BY <2>1
<1> QED
  BY <1>1, <1>2, WellFormedStable DEF IInv, Growing

\* A step that touches neither blocks nor chains.
LEMMA Keep ==
  ASSUME IInv, content' = content, chain' = chain,
         \A c \in DOMAIN calls' : c \in DOMAIN calls \/ CallOK(c)'
  PROVE  IInv'
<1>1. Growing
  BY DEF Growing, IInv
<1> QED
  BY <1>1, Grow

-----------------------------------------------------------------------------
(* The steps.                                                               *)

\* Wallets make calls that carry transactions.
LEMMA TransferOK ==
  ASSUME IInv, NEW a \in Addresses, Transfer(a)
  PROVE  IInv'
<1>1. content' = content /\ chain' = chain
  BY DEF Transfer, TransferUnspent, TransferLatest, TransferPost
<1>2. CASE calls' = calls
  BY <1>1, <1>2, Keep
<1>3. ASSUME NEW n, NEW tx,
             Calling({Call("transaction", m, n, tx) : m \in Others(n)})
      PROVE  IInv'
  <2>1. ASSUME NEW c \in DOMAIN calls', c \notin DOMAIN calls PROVE CallOK(c)'
    <3>1. PICK m \in Others(n) : c = Call("transaction", m, n, tx)
      BY <1>3, <2>1, CallingIs
    <3>2. c.at \in Nodes /\ c.op = "transaction"
      BY <3>1, CallIs DEF Others
    <3> QED
      BY <3>2 DEF CallOK
  <2> QED
    BY <1>1, <2>1, Keep
<1>4. CASE TransferPost(a)
  <2>1. PICK n : n = wallet[a].node
    OBVIOUS
  <2>2. PICK tx : tx = Link(wallet[a].tx, utxos[n]).tx
    OBVIOUS
  <2>3. calls' = calls \/ Calling({Call("transaction", m, n, tx) : m \in Others(n)})
    BY <1>4, <2>1, <2>2 DEF TransferPost
  <2> QED
    BY <1>2, <1>3, <2>3
<1>5. CASE TransferLatest(a) \/ \E n \in Nodes, to \in Payees, amount \in Amounts :
                                  TransferUnspent(a, n, to, amount)
  BY <1>2, <1>5 DEF TransferUnspent, TransferLatest
<1> QED
  BY <1>4, <1>5 DEF Transfer

\* construct_next_block checks the transactions of the block it makes.
LEMMA ConstructOK ==
  ASSUME IInv, NEW n \in Nodes, NEW links, CanConstruct(n, links), Construct(n, links)
  PROVE  Growing /\ ChainOK(n)' /\ chain'[n].blocks # <<>>
         /\ \A m \in Nodes \ {n} : chain'[m] = chain[m]
<1> DEFINE c == chain[n]
           ts == [i \in DOMAIN links |-> links[i].tx]
<1>1. /\ c \in Chain /\ Linked(c.blocks) /\ AllWellFormed(c.blocks)
      /\ c.blocks \in Seq(Block) /\ Clock \in Int
  BY DEF IInv, ChainOK, AllWellFormed, Clock
<1>2. PICK S : content \in Seq(S)
  BY DEF IInv
<1>3. PICK h : h = Len(content) + 1
  OBVIOUS
<1>4. h \in Nat
  BY <1>2, <1>3
<1>5. PICK b : b = [MakeBlock(c, Clock) EXCEPT !.hash = h]
  OBVIOUS
<1>6. /\ MakeBlock(c, Clock) \in Block /\ MakeBlock(c, Clock).index = Len(c.blocks)
      /\ MakeBlock(c, Clock).prev = IF c.blocks = <<>> THEN NoHash ELSE Latest(c).hash
  BY <1>1, MakeBlockTyped
<1>7. /\ b \in Block /\ b.hash = h /\ b.index = Len(c.blocks)
      /\ b.prev = IF c.blocks = <<>> THEN NoHash ELSE Latest(c).hash
  BY <1>4, <1>5, <1>6 DEF Block
<1>8. PICK d : d = [c EXCEPT !.blocks = Append(c.blocks, b)]
  OBVIOUS
<1>9. content' = Append(content, ts) /\ chain' = [chain EXCEPT ![n] = d]
  BY <1>3, <1>5, <1>8 DEF Construct
<1>10. d \in Chain /\ d.blocks = Append(c.blocks, b) /\ Linked(d.blocks) /\ d.blocks # <<>>
  <2>1. d.blocks = Append(c.blocks, b) /\ d \in Chain
    BY <1>1, <1>7, <1>8, SMTT(30) DEF Chain
  <2>2. Linked(Append(c.blocks, b))
    BY <1>1, <1>7, LinkedAppend DEF Latest
  <2> QED
    BY <1>1, <1>7, <2>1, <2>2
<1>11. chain'[n] = d /\ \A m \in Nodes \ {n} : chain'[m] = chain[m]
  BY <1>9 DEF IInv
<1>12. Growing
  BY <1>9, <1>10, <1>11 DEF Growing, IInv
<1>13. h \in DOMAIN content' /\ content'[h] = ts
  <2>1. content \in Seq(S \union {ts}) /\ ts \in S \union {ts}
    BY <1>2
  <2>2. PICK T : content \in Seq(T) /\ ts \in T
    BY <2>1
  <2> HIDE DEF ts
  <2> QED
    BY <1>3, <1>9, <2>2
<1>14. WellFormed(b)'
  <2>1. ASSUME NEW k \in DOMAIN ts
        PROVE  ts[k].index = b.index /\ (ts[k].type = "reward" <=> k = 1)
    <3>1. k \in DOMAIN links /\ ts[k] = links[k].tx
      OBVIOUS
    <3>2. /\ links[k].tx.type = IF k = 1 THEN "reward" ELSE "standard"
          /\ links[k].tx.index = MakeBlock(c, Clock).index
      BY <3>1 DEF CanConstruct, ValidList
    <3> QED
      BY <1>6, <1>7, <3>1, <3>2
  <2> HIDE DEF ts
  <2> QED
    BY <1>7, <1>13, <2>1 DEF WellFormed
<1>15. AllWellFormed(d.blocks)'
  <2>1. d.blocks \in Seq(Block)
    BY <1>10 DEF Chain
  <2>2. PICK cs : cs = c.blocks
    OBVIOUS
  <2>3. \A x : WellFormed(x) => WellFormed(x)'
    BY <1>12, WellFormedStable
  <2>4. ASSUME NEW i \in DOMAIN d.blocks PROVE WellFormed(d.blocks[i])'
    <3>1. CASE d.blocks[i] = b
      BY <1>14, <3>1
    <3>2. CASE i \in DOMAIN cs /\ d.blocks[i] = cs[i]
      <4>1. WellFormed(d.blocks[i])
        BY <1>1, <2>2, <3>2 DEF AllWellFormed
      <4> QED
        BY <2>3, <4>1
    <3>3. \/ i \in DOMAIN cs /\ d.blocks[i] = cs[i]
          \/ d.blocks[i] = b
      BY <1>1, <1>7, <1>10, <2>2
    <3> QED
      BY <3>1, <3>2, <3>3
  <2> QED
    BY <2>1, <2>4 DEF AllWellFormed
<1> QED
  BY <1>10, <1>11, <1>12, <1>15 DEF ChainOK

\* handle_blocks_post.
LEMMA PostBlocksOK ==
  ASSUME IInv, NEW n \in Nodes, NEW a, PostBlocks(n, a)
  PROVE  IInv'
<1>1. ASSUME NEW links, CanConstruct(n, links), Construct(n, links),
             Calling({Call("broadcast", n, n, 0)})
      PROVE  IInv'
  <2>1. /\ Growing /\ ChainOK(n)' /\ chain'[n].blocks # <<>>
        /\ \A m \in Nodes \ {n} : chain'[m] = chain[m]
    BY <1>1, ConstructOK
  <2>2. ASSUME NEW c \in DOMAIN calls', c \notin DOMAIN calls PROVE CallOK(c)'
    <3>1. c = Call("broadcast", n, n, 0)
      BY <1>1, <2>2, CallingIs
    <3>2. c.at = n /\ c.op = "broadcast"
      BY <3>1, CallIs
    <3> QED
      BY <2>1, <3>2 DEF CallOK
  <2> QED
    BY <2>1, <2>2, Grow
<1>2. CASE UNCHANGED <<content, chain, utxos, calls>>
  BY <1>2, Keep
<1> QED
  BY <1>1, <1>2 DEF PostBlocks

\* A block that is received is well-formed, and so are the chains it is
\* appended to.
LEMMA ReceiveLatestBlockOK ==
  ASSUME IInv, NEW c \in DOMAIN calls, ReceiveLatestBlock(c)
  PROVE  IInv'
<1> DEFINE n == c.at
           b == c.arg
<1>1. n \in Nodes /\ c.from \in Nodes /\ WellFormed(b) /\ content' = content
  BY DEF ReceiveLatestBlock, IInv, CallOK
<1>2. \/ chain' = chain
      \/ chain' = [chain EXCEPT ![n] = AppendNextBlock(@, b, Clock).chain]
  BY DEF ReceiveLatestBlock, TakeBlock
<1>3. \/ Serving(c, {})
      \/ Serving(c, {Call("request", n, c.from, 0)})
  BY DEF ReceiveLatestBlock, TakeBlock
<1>4. ASSUME NEW d \in DOMAIN calls', d \notin DOMAIN calls PROVE CallOK(d)'
  <2>1. d = Call("request", n, c.from, 0)
    BY <1>3, <1>4, ServingIs
  <2>2. d.op = "request" /\ d.at = n /\ d.from = c.from
    BY <2>1, CallIs
  <2> QED
    BY <1>1, <2>2 DEF CallOK
<1>5. CASE chain' = chain
  BY <1>1, <1>4, <1>5, Keep
<1>6. CASE chain' = [chain EXCEPT ![n] = AppendNextBlock(chain[n], b, Clock).chain]
  <2>1. PICK d : d = AppendNextBlock(chain[n], b, Clock).chain
    OBVIOUS
  <2>2. /\ chain[n] \in Chain /\ Linked(chain[n].blocks) /\ b \in Block /\ Clock \in Int
        /\ chain[n].blocks \in Seq(Block) /\ AllWellFormed(chain[n].blocks)
    BY <1>1 DEF IInv, ChainOK, WellFormed, Clock, Chain
  <2>3. /\ d \in Chain /\ Linked(d.blocks) /\ d.blocks \in Seq(Block)
        /\ d.blocks = chain[n].blocks \/ d.blocks = Append(chain[n].blocks, b)
    BY <2>1, <2>2, AppendNextBlockOK DEF Chain
  <2>4. chain'[n] = d /\ chain' \in [Nodes -> Chain]
        /\ \A m \in Nodes \ {n} : chain'[m] = chain[m]
    BY <1>1, <1>6, <2>1, <2>3 DEF IInv
  <2>5. Growing
    BY <1>1, <2>2, <2>3, <2>4 DEF Growing
  <2>6. AllWellFormed(d.blocks)
    <3>1. ASSUME NEW i \in DOMAIN d.blocks
          PROVE  \/ i \in DOMAIN chain[n].blocks /\ d.blocks[i] = chain[n].blocks[i]
                 \/ d.blocks[i] = b
      BY <2>2, <2>3
    <3> QED
      BY <1>1, <2>2, <2>3, <3>1 DEF AllWellFormed
  <2>7. ChainOK(n)'
    BY <2>3, <2>4, <2>5, <2>6, WellFormedStable DEF ChainOK
  <2> QED
    BY <1>4, <2>4, <2>5, <2>7, Grow
<1> QED
  BY <1>2, <1>5, <1>6

\* A chain that replaces another one consists of blocks that were sent.
LEMMA ReceiveAllBlocksOK ==
  ASSUME IInv, NEW c \in DOMAIN calls, ReceiveAllBlocks(c)
  PROVE  IInv'
<1> DEFINE n == c.at
<1>1. n \in Nodes /\ AllWellFormed(c.arg) /\ content' = content /\ Serving(c, {})
  BY DEF ReceiveAllBlocks, IInv, CallOK
<1>2. \A d \in DOMAIN calls' : d \in DOMAIN calls
  BY <1>1, ServingIs
<1>3. PICK d : d = FromJson(c.arg, Clock).chain
  OBVIOUS
<1>4. \/ chain' = chain
      \/ chain' = [chain EXCEPT ![n] = d] /\ Greater(d, chain[n])
  BY <1>3 DEF ReceiveAllBlocks
<1>5. CASE chain' = chain
  BY <1>1, <1>2, <1>5, Keep
<1>6. CASE chain' = [chain EXCEPT ![n] = d] /\ Greater(d, chain[n])
  <2>1. c.arg \in Seq(Block) /\ Clock \in Int
    BY <1>1 DEF AllWellFormed, Clock
  <2>2. LoadedFrom(c.arg, Len(c.arg), FromJson(c.arg, Clock))
    BY <2>1, FromJsonOK
  <2>3. /\ d \in Chain /\ Linked(d.blocks) /\ d.blocks \in Seq(Block)
        /\ \A i \in DOMAIN d.blocks : i \in DOMAIN c.arg /\ d.blocks[i] = c.arg[i]
    BY <1>3, <2>2 DEF LoadedFrom, Chain
  <2>4. AllWellFormed(d.blocks)
    BY <1>1, <2>3 DEF AllWellFormed
  <2>5. chain[n] \in Chain /\ chain[n].blocks \in Seq(Block)
    BY <1>1 DEF IInv, Chain
  <2>6. d.blocks # <<>>
    <3>1. Len(d.blocks) > Len(chain[n].blocks)
      BY <1>6, LedgerAssumption DEF Greater
    <3> QED
      BY <2>5, <3>1
  <2>7. chain'[n] = d /\ chain' \in [Nodes -> Chain]
        /\ \A m \in Nodes \ {n} : chain'[m] = chain[m]
    BY <1>1, <1>6, <2>3 DEF IInv
  <2>8. Growing
    BY <1>1, <2>6, <2>7 DEF Growing
  <2>9. ChainOK(n)'
    BY <2>3, <2>4, <2>7, <2>8, WellFormedStable DEF ChainOK
  <2> QED
    BY <1>2, <2>7, <2>8, <2>9, Grow
<1> QED
  BY <1>4, <1>5, <1>6

\* The other calls send blocks of the sender's chain.
LEMMA ServeOK ==
  ASSUME IInv, NEW c \in DOMAIN calls, Serve(c)
  PROVE  IInv'
<1>1. CallOK(c) /\ c.at \in Nodes
  BY DEF IInv, CallOK
<1>2. CASE ReceiveTransaction(c)
  <2>1. content' = content /\ chain' = chain /\ Serving(c, {})
    BY <1>2 DEF ReceiveTransaction
  <2> QED
    BY <2>1, ServingIs, Keep
<1>3. CASE BroadcastLatestBlock(c)
  <2> DEFINE n == c.at
             x == Latest(chain[n])
  <2>1. /\ content' = content /\ chain' = chain
        /\ Serving(c, {Call("block", m, n, x) : m \in Others(n)})
        /\ chain[n].blocks # <<>>
    BY <1>1, <1>3 DEF BroadcastLatestBlock, CallOK
  <2>2. WellFormed(x)
    <3>1. chain[n] \in Chain /\ AllWellFormed(chain[n].blocks)
      BY <1>1 DEF IInv, ChainOK
    <3>2. x = chain[n].blocks[Len(chain[n].blocks)]
          /\ Len(chain[n].blocks) \in DOMAIN chain[n].blocks
      BY <2>1, <3>1, LatestTyped
    <3> QED
      BY <3>1, <3>2 DEF AllWellFormed
  <2>3. Growing
    BY <2>1 DEF Growing, IInv
  <2>4. ASSUME NEW d \in DOMAIN calls', d \notin DOMAIN calls PROVE CallOK(d)'
    <3>1. PICK m \in Others(n) : d = Call("block", m, n, x)
      BY <2>1, <2>4, ServingIs
    <3>2. d.op = "block" /\ d.at \in Nodes /\ d.from = n /\ d.arg = x
      BY <3>1, CallIs DEF Others
    <3>3. WellFormed(d.arg)
      BY <2>2, <3>2
    <3>4. WellFormed(d.arg)'
      BY <2>3, <3>3, WellFormedStable
    <3> QED
      BY <1>1, <3>2, <3>4 DEF CallOK
  <2> QED
    BY <2>1, <2>4, Keep
<1>4. CASE ReceiveLatestBlock(c)
  BY <1>4, ReceiveLatestBlockOK
<1>5. CASE RequestAllBlocks(c)
  <2> DEFINE bs == chain[c.from].blocks
  <2>1. /\ content' = content /\ chain' = chain /\ c.from \in Nodes
        /\ Serving(c, {Call("load", c.at, c.from, bs)})
    BY <1>1, <1>5 DEF RequestAllBlocks, CallOK
  <2>2. AllWellFormed(bs) /\ Growing
    BY <2>1 DEF IInv, ChainOK, Growing
  <2>3. ASSUME NEW d \in DOMAIN calls', d \notin DOMAIN calls PROVE CallOK(d)'
    <3>1. d = Call("load", c.at, c.from, bs)
      BY <2>1, <2>3, ServingIs
    <3>2. d.op = "load" /\ d.at \in Nodes /\ d.arg = bs
      BY <1>1, <3>1, CallIs
    <3>3. AllWellFormed(d.arg)
      BY <2>2, <3>2
    <3>4. AllWellFormed(d.arg)'
      BY <2>2, <3>3, WellFormedStable
    <3> QED
      BY <3>2, <3>4 DEF CallOK
  <2> QED
    BY <2>1, <2>3, Keep
<1>6. CASE ReceiveAllBlocks(c)
  BY <1>6, ReceiveAllBlocksOK
<1> QED
  BY <1>2, <1>3, <1>4, <1>5, <1>6 DEF Serve

-----------------------------------------------------------------------------
\* IInv holds of the network, whatever the users and the network do.
THEOREM Invariance == Spec => []IInv
<1>1. Init => IInv
  <2> SUFFICES ASSUME Init PROVE IInv
    OBVIOUS
  <2>1. content \in Seq({})
    BY DEF Init
  <2>2. \A n \in Nodes : chain[n] = EmptyChain
    BY DEF Init
  <2>3. EmptyChain.blocks = <<>>
    BY DEF EmptyChain
  <2>4. \A n \in Nodes : ChainOK(n)
    <3>1. AllWellFormed(<<>>)
      BY DEF AllWellFormed
    <3> QED
      BY <2>2, <2>3, <3>1, EmptyChainOK DEF ChainOK
  <2>5. chain \in [Nodes -> Chain]
    BY EmptyChainOK DEF Init
  <2>6. DOMAIN calls = {}
    BY DEF Init, EmptyBag, SetToBag
  <2> QED
    BY <2>1, <2>4, <2>5, <2>6 DEF IInv
<1>2. IInv /\ [Next]_vars => IInv'
  <2> SUFFICES ASSUME IInv, [Next]_vars PROVE IInv'
    OBVIOUS
  <2>1. CASE UNCHANGED vars
    BY <2>1, Keep DEF vars
  <2> QED
    BY <2>1, TransferOK, PostBlocksOK, ServeOK DEF Next
<1> QED
  BY <1>1, <1>2, PTL DEF Spec

\* BlocksWellFormed holds of the network: every block in the chain of a node has
\* exactly one reward, as its first transaction, and all its transactions were
\* made for its position, although they may have waited in the pool of a node
\* whose chain was behind or ahead, and although blocks also arrive in loaded
\* chains, in any order.
THEOREM BlocksStayWellFormed == Spec => []BlocksWellFormed
<1>1. IInv => BlocksWellFormed
  <2> SUFFICES ASSUME IInv, NEW n \in Nodes, NEW p \in TxAt(n)
               PROVE  /\ TxOf(n, p).index = chain[n].blocks[p[1]].index
                      /\ (TxOf(n, p).type = "reward") <=> (p[2] = 1)
    BY DEF BlocksWellFormed
  <2>1. PICK i \in DOMAIN chain[n].blocks :
          \E k \in DOMAIN content[chain[n].blocks[i].hash] : p = <<i, k>>
    BY DEF TxAt
  <2>2. PICK k \in DOMAIN content[chain[n].blocks[i].hash] : p = <<i, k>>
    BY <2>1
  <2>3. WellFormed(chain[n].blocks[i])
    BY DEF IInv, ChainOK, AllWellFormed
  <2> QED
    BY <2>2, <2>3 DEF WellFormed, TxOf
<1> QED
  BY <1>1, Invariance, PTL

-----------------------------------------------------------------------------
(* Unspent outputs and pools.                                               *)

\* The transactions of the blocks bs, their contents being ct.
TxsIn(ct, bs) == UNION {ToSet(ct[bs[i].hash]) : i \in DOMAIN bs}

TxsOf(bs) == TxsIn(content, bs)

\* Of the transactions T of a chain: u has what they leave unspent, they spend
\* what they create, and the pool p is made of others that do so, too.
Consistent(T, u, p) ==
  /\ Exact(T, u)
  /\ \A q \in T : Closed(T, q)
  /\ \A x \in ToSet(p) : x.tx \notin T /\ Closed(T, x.tx)

\* The lists of a node.
ListsOK(n) ==
  /\ IsList(utxos[n]) /\ PoolOK(pool[n])
  /\ ~ahead[n] => Consistent(TxsOf(chain[n].blocks), utxos[n], pool[n])

\* What a run of bwallet transfer has gathered.
WalletOK(w) ==
  /\ w.step = "latest" => /\ w.node \in Nodes
                          /\ IsList(w.inputs) /\ w.inputs # <<>> /\ IsList(w.outputs)
  /\ w.step = "post" => w.node \in Nodes /\ StandardOK(w.tx)

\* The inductive invariant of the lists.
LInv ==
  /\ \A h \in DOMAIN content : BlockOK(content[h])
  /\ DOMAIN utxos = Nodes /\ DOMAIN pool = Nodes /\ DOMAIN ahead = Nodes
  /\ \A n \in Nodes : ListsOK(n)
  /\ DOMAIN wallet = Addresses /\ \A a \in Addresses : WalletOK(wallet[a])
  /\ \A c \in DOMAIN calls : c.op = "transaction" => StandardOK(c.arg)

\* The transactions of a chain stay what they are.
LEMMA TxsStable ==
  ASSUME IInv, Growing, NEW bs, AllWellFormed(bs)
  PROVE  TxsOf(bs)' = TxsOf(bs)
<1>1. \A i \in DOMAIN bs : content'[bs[i].hash] = content[bs[i].hash]
  BY WellFormedStable DEF AllWellFormed, WellFormed
<1> QED
  BY <1>1 DEF TxsOf, TxsIn

\* A block adds its transactions.
LEMMA TxsAppend ==
  ASSUME NEW bs \in Seq(Block), NEW b \in Block, NEW ct
  PROVE  TxsIn(ct, Append(bs, b)) = TxsIn(ct, bs) \union ToSet(ct[b.hash])
<1>1. PICK cs : cs = Append(bs, b)
  OBVIOUS
<1>2. PICK m \in Nat : m = Len(bs) + 1
  OBVIOUS
<1>3. /\ DOMAIN cs = 1..m /\ DOMAIN bs = 1..(m - 1) /\ cs[m] = b
      /\ \A i \in 1..(m - 1) : cs[i] = bs[i]
  BY <1>1, <1>2
<1>4. \A i : i \in 1..m <=> (i \in 1..(m - 1) \/ i = m)
  BY <1>2
<1>5. \A x : x \in TxsIn(ct, cs) <=> x \in TxsIn(ct, bs) \/ x \in ToSet(ct[b.hash])
  BY <1>3, <1>4 DEF TxsIn
<1> QED
  BY <1>1, <1>5

\* The transactions of a chain were made for positions before its end.
LEMMA TxsIndex ==
  ASSUME NEW bs, AllWellFormed(bs), Linked(bs), NEW q \in TxsOf(bs)
  PROVE  q.index # Len(bs)
<1>1. PICK i \in DOMAIN bs : q \in ToSet(content[bs[i].hash])
  BY DEF TxsOf, TxsIn
<1>2. PICK k \in DOMAIN content[bs[i].hash] : q = content[bs[i].hash][k]
  BY <1>1 DEF ToSet
<1>3. q.index = i - 1
  BY <1>2 DEF AllWellFormed, WellFormed, Linked
<1>4. bs \in Seq(Block)
  BY DEF AllWellFormed
<1>5. i \in 1..Len(bs) /\ Len(bs) \in Nat
  BY <1>4
<1> QED
  BY <1>3, <1>5

\* A block at the end of a chain, its transactions leaving the pool.
LEMMA ConsistentBlock ==
  ASSUME NEW T, NEW u, NEW p, Consistent(T, u, p), IsList(u),
         NEW ts, BlockOK(ts), NEW L, \A q \in T : q.index # L,
         \A k \in DOMAIN ts : ts[k].index = L /\ Closed(T, ts[k]),
         NEW r, \A x \in ToSet(r) : x \in ToSet(p) /\ x.tx \notin ToSet(ts)
  PROVE  Consistent(T \union ToSet(ts), UpdateAll(u, ts), r)
<1>1. Exact(T \union ToSet(ts), UpdateAll(u, ts))
  BY BlockUpdateOK DEF Consistent
<1>2. \A q : Closed(T, q) => Closed(T \union ToSet(ts), q)
  BY DEF Closed
<1>3. \A q \in T \union ToSet(ts) : Closed(T, q)
  BY DEF Consistent, ToSet
<1> QED
  BY <1>1, <1>2, <1>3 DEF Consistent

\* Less of the pool.
LEMMA ConsistentLess ==
  ASSUME NEW T, NEW u, NEW p, Consistent(T, u, p), NEW r, ToSet(r) \subseteq ToSet(p)
  PROVE  Consistent(T, u, r)
BY DEF Consistent

\* A transaction that is valid joins the pool.
LEMMA ConsistentAdd ==
  ASSUME NEW T, NEW u, NEW p, NEW t, Consistent(T, u, p), StandardOK(t), PoolOK(p),
         CanAdd(p, Link(t, u))
  PROVE  Consistent(T, u, Append(p, Link(t, u)))
<1>1. Link(t, u).tx = t /\ Link(t, u).unspent = u
  BY DEF Link
<1>2. t \notin T /\ Closed(T, t)
  BY <1>1, ValidClosed DEF CanAdd, Consistent
<1>3. \A x : x \in ToSet(Append(p, Link(t, u))) <=> x \in ToSet(p) \/ x = Link(t, u)
  BY <1>1, CanAddOK
<1> QED
  BY <1>1, <1>2, <1>3 DEF Consistent

\* A node whose lists and chain stay.
LEMMA ListsStay ==
  ASSUME IInv, Growing, NEW n \in Nodes, ListsOK(n), chain'[n] = chain[n],
         utxos'[n] = utxos[n], pool'[n] = pool[n], ahead'[n] = ahead[n]
  PROVE  ListsOK(n)'
<1>1. PICK bs : bs = chain[n].blocks
  OBVIOUS
<1>2. AllWellFormed(bs)
  BY <1>1 DEF IInv, ChainOK
<1>3. TxsOf(bs)' = TxsOf(bs)
  BY <1>2, TxsStable
<1> QED
  BY <1>1, <1>3 DEF ListsOK

\* A transaction arrives at a node, and joins its pool or not.
LEMMA PoolAdds ==
  ASSUME IInv, LInv, content' = content, chain' = chain, utxos' = utxos, ahead' = ahead,
         NEW n \in Nodes, NEW t, StandardOK(t),
         \A m \in Nodes \ {n} : pool'[m] = pool[m],
         pool'[n] = IF CanAdd(pool[n], Link(t, utxos[n]))
                      THEN Append(pool[n], Link(t, utxos[n])) ELSE pool[n]
  PROVE  \A m \in Nodes : ListsOK(m)'
<1>1. Growing
  BY DEF Growing, IInv
<1>2. PICK u : u = utxos[n]
  OBVIOUS
<1>3. PICK p : p = pool[n]
  OBVIOUS
<1>4. PICK r : r = IF CanAdd(p, Link(t, u)) THEN Append(p, Link(t, u)) ELSE p
  OBVIOUS
<1>5. pool'[n] = r
  BY <1>2, <1>3, <1>4
<1>6. ASSUME NEW m \in Nodes, m # n PROVE ListsOK(m)'
  BY <1>1, <1>6, ListsStay DEF LInv
<1>7. CASE r = p
  BY <1>1, <1>3, <1>5, <1>6, <1>7, ListsStay DEF LInv
<1>8. CASE CanAdd(p, Link(t, u)) /\ r = Append(p, Link(t, u))
  <2>1. ListsOK(n) /\ Link(t, u).tx = t
    BY DEF LInv, Link
  <2>2. PoolOK(r)
    BY <1>3, <1>8, <2>1, CanAddOK DEF ListsOK
  <2>3. PICK T : T = TxsOf(chain[n].blocks)
    OBVIOUS
  <2>4. T = TxsOf(chain[n].blocks)'
    BY <2>3 DEF TxsOf
  <2>5. ~ahead[n] => Consistent(T, u, r)
    BY <1>2, <1>3, <1>8, <2>1, <2>3, ConsistentAdd DEF ListsOK
  <2>6. ListsOK(n)'
    BY <1>2, <1>5, <2>1, <2>2, <2>4, <2>5 DEF ListsOK
  <2> QED
    BY <1>6, <2>6
<1> QED
  BY <1>4, <1>7, <1>8

\* One round of the loop of walletUnspentOutputs.
TakeOwn(own, o, a) == IF o.output.address = a THEN Append(own, o) ELSE own

\* The rounds of walletUnspentOutputs.
LEMMA WalletRounds ==
  ASSUME NEW S, NEW u \in Seq(S), NEW a
  PROVE  \E g \in [0..Len(u) -> Seq(S)] :
           /\ g[0] = <<>> /\ WalletUnspentOutputs(u, a) = g[Len(u)]
           /\ \A k \in 1..Len(u) : g[k] = TakeOwn(g[k - 1], u[k], a)
<1> DEFINE V == Seq(S)
           n == Len(u)
           step == [p \in (1..n) \X V |-> TakeOwn(p[2], u[p[1]], a)]
           Body(h) == [q \in SUBSET DOMAIN u |->
                         IF q = {} THEN <<>>
                         ELSE TakeOwn(h[q \ {Max(q)}], u[Max(q)], a)]
<1>1. n \in Nat /\ DOMAIN u = 1..n /\ <<>> \in V
  OBVIOUS
<1>2. ASSUME NEW k \in 1..n, NEW v \in V
      PROVE  /\ TakeOwn(v, u[k], a) \in V
             /\ step[<<k, v>>] = TakeOwn(v, u[k], a)
  <2>1. TakeOwn(v, u[k], a) \in V
    BY DEF TakeOwn
  <2> QED
    BY <2>1
<1>3. step \in [(1..n) \X V -> V]
  BY <1>2
<1>4. PICK h : IsFold(V, <<>>, step, n, h)
  <2> HIDE DEF step, V, n
  <2> QED
    BY <1>1, <1>3, FoldExists
<1>5. ASSUME NEW q \in SUBSET (1..n), q # {}
      PROVE  Max(q) \in 1..n /\ q \ {Max(q)} \in SUBSET (1..n)
  BY <1>1, <1>5, LastPosition
<1> HIDE DEF step, V, n
<1>6. h = Body(h)
  <2>1. ASSUME NEW q \in SUBSET (1..n), q # {}
        PROVE  h[q] = TakeOwn(h[q \ {Max(q)}], u[Max(q)], a)
    BY <1>2, <1>4, <1>5, <2>1 DEF IsFold
  <2> QED
    BY <1>1, <1>4, <2>1 DEF IsFold
<1>7. PICK iter : iter = Body(iter) /\ WalletUnspentOutputs(u, a) = iter[DOMAIN u]
  <2> DEFINE it == CHOOSE f : f = Body(f)
  <2>1. it = Body(it)
    BY <1>6
  <2>2. WalletUnspentOutputs(u, a) = it[DOMAIN u]
    BY DEF WalletUnspentOutputs, TakeOwn, FoldLeft, MapThenFoldSet
  <2> HIDE DEF it
  <2> QED
    BY <2>1, <2>2
<1>8. FoldsAs(V, <<>>, step, n, iter)
  <2>1. \A q \in SUBSET (1..n) : iter[q] = IF q = {} THEN <<>>
                         ELSE TakeOwn(iter[q \ {Max(q)}], u[Max(q)], a)
    BY <1>1, <1>7
  <2> QED
    BY <1>2, <1>5, <2>1 DEF FoldsAs
<1>9. PICK g : IsLoop(V, <<>>, step, n, g) /\ g[n] = iter[DOMAIN u]
  <2>1. LoopEnds(V, <<>>, step, n, iter[DOMAIN u])
    BY <1>1, <1>3, <1>8, FoldRounds
  <2> QED
    BY <2>1 DEF LoopEnds
<1>10. ASSUME NEW k \in 1..n PROVE g[k] = TakeOwn(g[k - 1], u[k], a)
  <2>1. k - 1 \in 0..n
    BY <1>1
  <2> QED
    BY <1>2, <1>9, <2>1 DEF IsLoop
<1> QED
  BY <1>1, <1>7, <1>9, <1>10 DEF IsLoop, V, n

\* The outputs of an address are a list.
LEMMA WalletList ==
  ASSUME NEW u, IsList(u), NEW a
  PROVE  IsList(WalletUnspentOutputs(u, a))
<1>1. PICK S : u \in Seq(S)
  BY DEF IsList
<1>2. PICK g \in [0..Len(u) -> Seq(S)] : WalletUnspentOutputs(u, a) = g[Len(u)]
  BY <1>1, WalletRounds
<1>3. Len(u) \in 0..Len(u)
  BY <1>1
<1> QED
  BY <1>2, <1>3 DEF IsList

\* The calls and the lists stay as they are.
LEMMA WalletMoves ==
  ASSUME IInv, LInv, UNCHANGED <<content, chain, utxos, pool, calls, spent, ahead>>,
         NEW a \in Addresses, NEW w, WalletOK(w), wallet' = [wallet EXCEPT ![a] = w]
  PROVE  LInv'
<1>1. Growing
  BY DEF Growing, IInv
<1>2. \A n \in Nodes : ListsOK(n)'
  BY <1>1, ListsStay DEF LInv
<1>3. DOMAIN wallet' = Addresses /\ \A b \in Addresses : wallet'[b] = w \/ wallet'[b] = wallet[b]
  BY DEF LInv
<1>4. \A b \in Addresses : WalletOK(wallet'[b])
  BY <1>3 DEF LInv
<1> QED
  BY <1>2, <1>3, <1>4 DEF LInv, WalletOK

\* bwallet takes outputs of the address, at least one.
LEMMA TransferUnspentLists ==
  ASSUME IInv, LInv, NEW a \in Addresses, NEW n \in Nodes, NEW to, NEW amount,
         TransferUnspent(a, n, to, amount)
  PROVE  LInv'
<1> DEFINE own == WalletUnspentOutputs(utxos[n], a)
           Total(k) == TotalAmount([i \in 1..k |-> own[i].output])
           In(k) == [i \in 1..k |-> [hash |-> own[i].hash, index |-> own[i].index]]
           Out(k) == <<[amount |-> amount, address |-> to]>>
                       \o IF amount < Total(k)
                            THEN <<[amount |-> Total(k) - amount, address |-> a]>>
                            ELSE <<>>
<1>1. PICK k \in DOMAIN own :
        wallet' = [wallet EXCEPT ![a] = [step |-> "latest", node |-> n,
                                         inputs |-> In(k), outputs |-> Out(k)]]
  BY DEF TransferUnspent
<1>2. IsList(own)
  BY WalletList DEF LInv, ListsOK
<1> HIDE DEF own
<1>3. k \in Nat \ {0}
  BY <1>2 DEF IsList
<1>4. IsList(In(k)) /\ In(k) # <<>>
  <2>1. PICK f : f = In(k)
    OBVIOUS
  <2>2. f \in Seq({f[i] : i \in 1..k}) /\ Len(f) = k
    BY <1>3, <2>1
  <2>3. f # <<>>
    BY <1>3, <2>2
  <2> QED
    BY <2>1, <2>2, <2>3 DEF IsList
<1>5. IsList(Out(k))
  <2>1. PICK x : x = [amount |-> amount, address |-> to]
    OBVIOUS
  <2>2. PICK y : y = [amount |-> Total(k) - amount, address |-> a]
    OBVIOUS
  <2>3. PICK o : o = Out(k)
    OBVIOUS
  <2>4. o = <<x>> \o <<y>> \/ o = <<x>> \o <<>>
    BY <2>1, <2>2, <2>3
  <2>5. <<x>> \in Seq({x, y}) /\ <<y>> \in Seq({x, y}) /\ <<>> \in Seq({x, y})
    OBVIOUS
  <2>6. \A p, q \in Seq({x, y}) : p \o q \in Seq({x, y})
    OBVIOUS
  <2>7. o \in Seq({x, y})
    BY <2>4, <2>5, <2>6
  <2> QED
    BY <2>3, <2>7 DEF IsList
<1>6. PICK in : in = In(k)
  OBVIOUS
<1>7. PICK out : out = Out(k)
  OBVIOUS
<1>8. PICK w : w = [step |-> "latest", node |-> n, inputs |-> in, outputs |-> out]
  OBVIOUS
<1>9. w.step = "latest" /\ w.node = n /\ w.inputs = in /\ w.outputs = out
  BY <1>8
<1>10. WalletOK(w)
  BY <1>4, <1>5, <1>6, <1>7, <1>9 DEF WalletOK
<1>11. wallet' = [wallet EXCEPT ![a] = w]
  BY <1>1, <1>6, <1>7, <1>8
<1>12. UNCHANGED <<content, chain, utxos, pool, calls, spent, ahead>>
  BY DEF TransferUnspent
<1> QED
  BY <1>10, <1>11, <1>12, WalletMoves

\* bwallet adds the index, or panics.
LEMMA TransferLatestLists ==
  ASSUME IInv, LInv, NEW a \in Addresses, TransferLatest(a)
  PROVE  LInv'
<1>1. PICK v : v = wallet[a]
  OBVIOUS
<1>2. /\ v.node \in Nodes /\ IsList(v.inputs) /\ v.inputs # <<>> /\ IsList(v.outputs)
  BY <1>1 DEF TransferLatest, LInv, WalletOK
<1>3. PICK i : i = content[Latest(chain[v.node]).hash][1].index + 1
  OBVIOUS
<1>4. PICK t : t = Tx("standard", i, v.inputs, v.outputs, a)
  OBVIOUS
<1>5. StandardOK(t)
  BY <1>2, <1>4 DEF Tx, StandardOK, TxOK
<1>6. PICK w : w = IF chain[v.node].blocks = <<>> THEN NoTransfer
                   ELSE [step |-> "post", node |-> v.node, tx |-> t]
  OBVIOUS
<1>7. WalletOK(w)
  <2>1. CASE w = NoTransfer
    BY <2>1 DEF WalletOK, NoTransfer
  <2>2. CASE w = [step |-> "post", node |-> v.node, tx |-> t]
    <3>1. w.step = "post" /\ w.node = v.node /\ w.tx = t
      BY <2>2
    <3> QED
      BY <1>2, <1>5, <3>1 DEF WalletOK
  <2> QED
    BY <1>6, <2>1, <2>2
<1>8. wallet' = [wallet EXCEPT ![a] = w]
  BY <1>1, <1>3, <1>4, <1>6 DEF TransferLatest
<1>9. UNCHANGED <<content, chain, utxos, pool, calls, spent, ahead>>
  BY DEF TransferLatest
<1> QED
  BY <1>7, <1>8, <1>9, WalletMoves

\* handle_transactions_post.
LEMMA TransferPostLists ==
  ASSUME IInv, LInv, NEW a \in Addresses, TransferPost(a)
  PROVE  LInv'
<1>1. PICK n : n = wallet[a].node
  OBVIOUS
<1>2. PICK t : t = wallet[a].tx
  OBVIOUS
<1>3. n \in Nodes /\ StandardOK(t)
  BY <1>1, <1>2 DEF TransferPost, LInv, WalletOK
<1>4. PICK link : link = Link(t, utxos[n])
  OBVIOUS
<1>5. /\ content' = content /\ chain' = chain /\ utxos' = utxos /\ ahead' = ahead
      /\ wallet' = [wallet EXCEPT ![a] = NoTransfer]
      /\ IF CanAdd(pool[n], link)
           THEN /\ pool' = [pool EXCEPT ![n] = Append(pool[n], link)]
                /\ Calling({Call("transaction", m, n, t) : m \in Others(n)})
           ELSE pool' = pool /\ calls' = calls
  <2>1. link.tx = t
    BY <1>4 DEF Link
  <2> QED
    BY <1>1, <1>2, <1>4, <2>1 DEF TransferPost
<1>6. /\ DOMAIN pool' = Nodes /\ \A m \in Nodes \ {n} : pool'[m] = pool[m]
      /\ pool'[n] = IF CanAdd(pool[n], Link(t, utxos[n]))
                      THEN Append(pool[n], Link(t, utxos[n])) ELSE pool[n]
  <2>1. CASE CanAdd(pool[n], link)
    BY <1>3, <1>4, <1>5, <2>1 DEF LInv
  <2>2. CASE ~CanAdd(pool[n], link)
    BY <1>3, <1>4, <1>5, <2>2 DEF LInv
  <2> QED
    BY <2>1, <2>2
<1>7. \A m \in Nodes : ListsOK(m)'
  BY <1>3, <1>5, <1>6, PoolAdds
<1>8. ASSUME NEW c \in DOMAIN calls', c.op = "transaction" PROVE StandardOK(c.arg)
  <2>1. CASE c \in DOMAIN calls
    BY <1>8, <2>1 DEF LInv
  <2>2. CASE c \notin DOMAIN calls
    <3>1. Calling({Call("transaction", m, n, t) : m \in Others(n)})
      BY <1>5, <2>2
    <3>2. PICK m \in Others(n) : c = Call("transaction", m, n, t)
      BY <2>2, <3>1, CallingIs
    <3> QED
      BY <1>3, <3>2, CallIs
  <2> QED
    BY <2>1, <2>2
<1>9. DOMAIN wallet' = Addresses /\ \A b \in Addresses : WalletOK(wallet'[b])
  <2>1. WalletOK(NoTransfer)
    BY DEF WalletOK, NoTransfer
  <2>2. DOMAIN wallet' = Addresses
        /\ \A b \in Addresses : wallet'[b] = NoTransfer \/ wallet'[b] = wallet[b]
    BY <1>5 DEF LInv
  <2> QED
    BY <2>1, <2>2 DEF LInv
<1> QED
  BY <1>5, <1>6, <1>7, <1>8, <1>9 DEF LInv, WalletOK

\* handle_receive_transaction.
LEMMA ReceiveTransactionLists ==
  ASSUME IInv, LInv, NEW c \in DOMAIN calls, ReceiveTransaction(c)
  PROVE  LInv'
<1>1. c.at \in Nodes /\ StandardOK(c.arg)
  BY DEF IInv, CallOK, LInv, ReceiveTransaction
<1>2. PICK n : n = c.at
  OBVIOUS
<1>3. PICK t : t = c.arg
  OBVIOUS
<1>4. /\ content' = content /\ chain' = chain /\ utxos' = utxos /\ ahead' = ahead
      /\ wallet' = wallet /\ Serving(c, {})
      /\ pool' = [pool EXCEPT ![n] = IF CanAdd(pool[n], Link(t, utxos[n]))
                                       THEN Append(pool[n], Link(t, utxos[n])) ELSE pool[n]]
  BY <1>2, <1>3 DEF ReceiveTransaction
<1>5. /\ DOMAIN pool' = Nodes /\ \A m \in Nodes \ {n} : pool'[m] = pool[m]
      /\ pool'[n] = IF CanAdd(pool[n], Link(t, utxos[n]))
                      THEN Append(pool[n], Link(t, utxos[n])) ELSE pool[n]
  BY <1>1, <1>2, <1>4 DEF LInv
<1>6. \A m \in Nodes : ListsOK(m)'
  BY <1>1, <1>2, <1>3, <1>4, <1>5, PoolAdds
<1>7. \A d \in DOMAIN calls' : d \in DOMAIN calls
  BY <1>4, ServingIs
<1> QED
  BY <1>4, <1>5, <1>6, <1>7 DEF LInv, WalletOK

-----------------------------------------------------------------------------
(* A block made from the front of the pool.                                 *)

\* A list behind another one.
LEMMA Concatenated ==
  ASSUME NEW R, NEW s \in Seq(R), NEW t \in Seq(R)
  PROVE  /\ s \o t \in Seq(R) /\ Len(s \o t) = Len(s) + Len(t)
         /\ \A i \in 1..Len(s) : (s \o t)[i] = s[i]
         /\ \A i \in 1..Len(t) : (s \o t)[Len(s) + i] = t[i]
OBVIOUS

\* An element behind a list.
LEMMA Appended ==
  ASSUME NEW R, NEW s \in Seq(R), NEW x \in R
  PROVE  /\ DOMAIN s = 1..Len(s) /\ DOMAIN Append(s, x) = 1..(Len(s) + 1)
         /\ Append(s, x)[Len(s) + 1] = x
         /\ \A i \in 1..Len(s) : Append(s, x)[i] = s[i]
OBVIOUS

\* The linked transactions that handle_blocks_post puts together.
BlockLinks(p, num, a, L) == <<Link(Reward(a, L), <<>>)>> \o SubSeq(p, 1, num)

\* The transactions without their links.
Unlinked(links) == [i \in DOMAIN links |-> links[i].tx]

\* A reward and the first transactions of a pool make up a block; what stays in
\* the pool is not in it.
LEMMA BlockMade ==
  ASSUME NEW p, PoolOK(p), NEW num \in 0..Len(p), NEW a, NEW L, NEW links,
         links = BlockLinks(p, num, a, L), NEW ts, ts = Unlinked(links)
  PROVE  /\ BlockOK(ts)
         /\ \A k \in DOMAIN ts : ts[k].inputs # <<>> => \E x \in ToSet(p) : ts[k] = x.tx
         /\ \A x \in ToSet(SubSeq(p, num + 1, Len(p))) : x.tx \notin ToSet(ts)
<1>1. PICK S : p \in Seq(S) /\ Len(p) \in Nat /\ DOMAIN p = 1..Len(p) /\ num \in Nat
  BY DEF PoolOK, IsList
<1>2. PICK r : r = Link(Reward(a, L), <<>>)
  OBVIOUS
<1>3. r.tx.type = "reward" /\ r.tx.inputs = <<>> /\ IsList(r.tx.outputs) /\ IsList(r.tx.inputs)
  <2>1. PICK x : x = [amount |-> RewardAmount, address |-> a]
    OBVIOUS
  <2>2. r.tx = Reward(a, L)
    BY <1>2 DEF Link
  <2>3. r.tx.type = "reward" /\ r.tx.inputs = <<>> /\ r.tx.outputs = <<x>>
    BY <2>1, <2>2 DEF Reward, Tx
  <2>4. <<x>> \in Seq({x}) /\ <<>> \in Seq({x})
    OBVIOUS
  <2> QED
    BY <2>3, <2>4 DEF IsList
<1>4. PICK f : f = SubSeq(p, 1, num)
  OBVIOUS
<1>5. f \in Seq(S) /\ Len(f) = num /\ \A i \in 1..num : f[i] = p[i] /\ i \in DOMAIN p
  BY <1>1, <1>4
<1>6. /\ links \in Seq(S \union {r}) /\ Len(links) = num + 1 /\ links[1] = r
      /\ \A i \in 1..num : links[i + 1] = f[i]
  <2>1. <<r>> \in Seq(S \union {r}) /\ Len(<<r>>) = 1 /\ f \in Seq(S \union {r})
        /\ <<r>>[1] = r
    BY <1>5
  <2>2. links = <<r>> \o f
    BY <1>2, <1>4 DEF BlockLinks
  <2>3. PICK h : h = <<r>>
    OBVIOUS
  <2>4. PICK R : R = S \union {r}
    OBVIOUS
  <2>5. h \in Seq(R) /\ f \in Seq(R) /\ Len(h) = 1 /\ h[1] = r /\ links = h \o f
    BY <2>1, <2>2, <2>3, <2>4
  <2>6. /\ links \in Seq(R) /\ Len(links) = Len(h) + Len(f) /\ links[1] = h[1]
        /\ \A i \in 1..Len(f) : links[Len(h) + i] = f[i]
    <3>1. /\ h \o f \in Seq(R) /\ Len(h \o f) = Len(h) + Len(f)
          /\ \A i \in 1..Len(h) : (h \o f)[i] = h[i]
          /\ \A i \in 1..Len(f) : (h \o f)[Len(h) + i] = f[i]
      <4>1. h \in Seq(R) /\ f \in Seq(R)
        BY <2>5
      <4> QED
        BY <4>1, Concatenated
    <3>2. 1 \in 1..Len(h)
      BY <2>5
    <3> QED
      BY <2>5, <3>1, <3>2
  <2>7. 1 + num = num + 1 /\ \A i \in 1..num : 1 + i = i + 1
    BY <1>1
  <2> QED
    BY <1>5, <2>4, <2>5, <2>6, <2>7
<1>7. DOMAIN ts = 1..(num + 1) /\ ts[1] = r.tx /\ \A i \in 1..num : ts[i + 1] = p[i].tx
  <2>1. DOMAIN links = 1..(num + 1)
    BY <1>1, <1>6
  <2>2. 1 \in 1..(num + 1) /\ \A i \in 1..num : i + 1 \in 1..(num + 1)
    BY <1>1
  <2> QED
    BY <1>5, <1>6, <2>1, <2>2 DEF Unlinked
<1>8. ASSUME NEW k \in DOMAIN ts, k # 1
      PROVE  k - 1 \in 1..num /\ k - 1 \in DOMAIN p /\ ts[k] = p[k - 1].tx
  <2>1. k - 1 \in 1..num /\ (k - 1) + 1 = k
    BY <1>1, <1>7, <1>8
  <2> QED
    BY <1>5, <1>7, <2>1
<1>9. IsList(ts)
  <2>1. PICK R : R = {ts[k] : k \in DOMAIN ts}
    OBVIOUS
  <2>2. PICK m \in Nat : m = num + 1
    BY <1>1
  <2>3. ts \in [1..m -> R]
    BY <1>7, <2>1, <2>2 DEF Unlinked
  <2>4. ts \in Seq(R)
    BY <2>3
  <2> QED
    BY <2>4 DEF IsList
<1>10. ASSUME NEW k \in DOMAIN ts PROVE TxOK(ts[k]) /\ (ts[k].inputs = <<>> <=> k = 1)
  <2>1. CASE k = 1
    BY <1>3, <1>7, <2>1 DEF TxOK
  <2>2. CASE k # 1
    BY <1>8, <2>2 DEF PoolOK, StandardOK
  <2> QED
    BY <2>1, <2>2
<1>11. ASSUME NEW j \in DOMAIN ts, NEW k \in DOMAIN ts, j # k
       PROVE  ~SharesInput(ts[j], ts[k])
  <2>1. CASE j = 1 \/ k = 1
    <3>1. DOMAIN ts[1].inputs = {}
      BY <1>3, <1>7
    <3> QED
      BY <2>1, <3>1 DEF SharesInput
  <2>2. CASE j # 1 /\ k # 1
    <3>1. j - 1 # k - 1
      BY <1>7, <1>11
    <3> QED
      BY <1>8, <2>2, <3>1 DEF PoolOK
  <2> QED
    BY <2>1, <2>2
<1>12. BlockOK(ts)
  BY <1>9, <1>10, <1>11 DEF BlockOK
<1>13. ASSUME NEW k \in DOMAIN ts, ts[k].inputs # <<>>
       PROVE  \E x \in ToSet(p) : ts[k] = x.tx
  <2>1. k # 1
    BY <1>10, <1>13
  <2> QED
    BY <1>8, <2>1 DEF ToSet
<1>14. ASSUME NEW x \in ToSet(SubSeq(p, num + 1, Len(p))) PROVE x.tx \notin ToSet(ts)
  <2>1. PICK rest : rest = SubSeq(p, num + 1, Len(p))
    OBVIOUS
  <2>2. PICK m \in Nat : m = Len(p) - num
    <3>1. Len(p) - num \in Nat
      BY <1>1
    <3> QED
      BY <3>1
  <2>3. DOMAIN rest = 1..m /\ \A i \in 1..m : rest[i] = p[num + i] /\ num + i \in DOMAIN p
    BY <1>1, <2>1, <2>2
  <2>4. PICK j \in DOMAIN p : x = p[j] /\ j \notin 1..num
    <3>1. PICK i \in 1..m : x = p[num + i] /\ num + i \in DOMAIN p
      BY <2>1, <2>3 DEF ToSet
    <3>2. num + i \notin 1..num
      BY <1>1
    <3> QED
      BY <3>1, <3>2
  <2>5. StandardOK(x.tx)
    BY <2>4 DEF PoolOK
  <2>6. ASSUME NEW k \in DOMAIN ts, x.tx = ts[k] PROVE FALSE
    <3>1. k # 1
      BY <1>10, <2>5, <2>6 DEF StandardOK
    <3>2. SharesInput(p[j].tx, p[k - 1].tx)
      BY <1>8, <2>4, <2>5, <2>6, <3>1, SameInputs DEF StandardOK, TxOK
    <3> QED
      BY <1>8, <2>4, <3>1, <3>2 DEF PoolOK
  <2> QED
    BY <2>6 DEF ToSet
<1> QED
  BY <1>12, <1>13, <1>14

\* A block joins the chain of a node, and the lists follow.
LEMMA BlockJoins ==
  ASSUME IInv, Growing, NEW n \in Nodes, ListsOK(n), NEW b \in Block, NEW ts, BlockOK(ts),
         chain'[n].blocks = Append(chain[n].blocks, b), content'[b.hash] = ts,
         \A k \in DOMAIN ts : ts[k].index = Len(chain[n].blocks),
         ~ahead[n] => \A k \in DOMAIN ts : Closed(TxsOf(chain[n].blocks), ts[k]),
         utxos'[n] = UpdateAll(utxos[n], ts), NEW r, pool'[n] = r, ahead'[n] = ahead[n],
         PoolOK(r), \A x \in ToSet(r) : x \in ToSet(pool[n]) /\ x.tx \notin ToSet(ts)
  PROVE  ListsOK(n)'
<1>1. PICK bs : bs = chain[n].blocks
  OBVIOUS
<1>2. PICK L : L = Len(bs)
  OBVIOUS
<1>3. Linked(bs) /\ AllWellFormed(bs) /\ bs \in Seq(Block)
  BY <1>1 DEF IInv, ChainOK, AllWellFormed
<1>4. PICK T : T = TxsOf(bs)
  OBVIOUS
<1>5. PICK u : u = utxos[n]
  OBVIOUS
<1>6. PICK p : p = pool[n]
  OBVIOUS
<1>7. PICK v : v = UpdateAll(u, ts)
  OBVIOUS
<1>8. PICK U : U = T \union ToSet(ts)
  OBVIOUS
<1>9. IsList(u) /\ IsList(v)
  BY <1>5, <1>7, BlockUpdateOK DEF ListsOK
<1>10. TxsOf(chain[n].blocks)' = U
  <2>1. TxsOf(bs)' = T
    BY <1>3, <1>4, TxsStable
  <2>2. PICK ct : ct = content'
    OBVIOUS
  <2>3. TxsIn(ct, Append(bs, b)) = TxsIn(ct, bs) \union ToSet(ct[b.hash])
    BY <1>3, TxsAppend
  <2>4. ct[b.hash] = ts /\ TxsIn(ct, bs) = T
    BY <2>1, <2>2 DEF TxsOf
  <2>5. TxsOf(chain[n].blocks)' = TxsIn(ct, Append(bs, b))
    BY <1>1, <2>2 DEF TxsOf
  <2> QED
    BY <1>8, <2>3, <2>4, <2>5
<1>11. ASSUME ~ahead[n] PROVE Consistent(U, v, r)
  <2>1. Consistent(T, u, p)
    BY <1>1, <1>4, <1>5, <1>6, <1>11 DEF ListsOK
  <2>2. \A q \in T : q.index # L
    BY <1>2, <1>3, <1>4, TxsIndex
  <2>3. \A k \in DOMAIN ts : ts[k].index = L /\ Closed(T, ts[k])
    BY <1>1, <1>2, <1>4, <1>11
  <2>4. \A x \in ToSet(r) : x \in ToSet(p) /\ x.tx \notin ToSet(ts)
    BY <1>6
  <2> HIDE <1>1, <1>2, <1>4, <1>5, <1>6
  <2> QED
    BY <1>7, <1>8, <1>9, <2>1, <2>2, <2>3, <2>4, ConsistentBlock
<1>12. utxos'[n] = v
  BY <1>5, <1>7
<1> QED
  BY <1>9, <1>10, <1>11, <1>12 DEF ListsOK

\* A block with transactions ts joins the chain of n.
Joins(n, ts) ==
  \E b \in Block : chain'[n].blocks = Append(chain[n].blocks, b) /\ content'[b.hash] = ts

\* What construct_next_block adds.
LEMMA ConstructIs ==
  ASSUME IInv, NEW n \in Nodes, NEW links, CanConstruct(n, links), Construct(n, links),
         NEW ts, ts = Unlinked(links)
  PROVE  /\ Joins(n, ts)
         /\ \A k \in DOMAIN ts : ts[k].index = Len(chain[n].blocks)
         /\ \A g \in DOMAIN content' :
              content'[g] = ts \/ (g \in DOMAIN content /\ content'[g] = content[g])
<1>1. PICK c : c = chain[n]
  OBVIOUS
<1>2. c \in Chain /\ Linked(c.blocks) /\ Clock \in Int
  BY <1>1 DEF IInv, ChainOK, Clock
<1>3. PICK S : content \in Seq(S) /\ ts \in S
  <2>1. PICK R : content \in Seq(R)
    BY DEF IInv
  <2>2. content \in Seq(R \union {ts})
    BY <2>1
  <2> QED
    BY <2>2
<1>4. PICK h : h = Len(content) + 1
  OBVIOUS
<1>5. content' = Append(content, ts)
  BY DEF Construct, Unlinked
<1>6. /\ h \in Nat /\ content'[h] = ts
      /\ \A g \in DOMAIN content' :
           content'[g] = ts \/ (g \in DOMAIN content /\ content'[g] = content[g])
  <2>1. PICK ct : ct = content
    OBVIOUS
  <2>2. PICK cu : cu = Append(ct, ts)
    OBVIOUS
  <2>3. PICK m \in Nat : m = Len(ct)
    BY <1>3, <2>1
  <2>4. ct \in Seq(S) /\ h = m + 1 /\ cu = content'
    BY <1>3, <1>4, <1>5, <2>1, <2>2, <2>3
  <2>5. DOMAIN cu = 1..h /\ DOMAIN ct = 1..m /\ cu[h] = ts /\ \A g \in 1..m : cu[g] = ct[g]
    <3>1. /\ DOMAIN ct = 1..Len(ct) /\ DOMAIN Append(ct, ts) = 1..(Len(ct) + 1)
          /\ Append(ct, ts)[Len(ct) + 1] = ts
          /\ \A i \in 1..Len(ct) : Append(ct, ts)[i] = ct[i]
      BY <1>3, <2>4, Appended
    <3> QED
      BY <2>2, <2>3, <2>4, <3>1
  <2>6. \A g \in 1..h : g \in 1..m \/ g = h
    BY <2>4
  <2> QED
    BY <2>1, <2>4, <2>5, <2>6
<1>7. PICK b : b = [MakeBlock(c, Clock) EXCEPT !.hash = h]
  OBVIOUS
<1>8. MakeBlock(c, Clock) \in Block /\ MakeBlock(c, Clock).index = Len(c.blocks)
  BY <1>2, MakeBlockTyped
<1>9. b \in Block /\ b.hash = h
  BY <1>6, <1>7, <1>8 DEF Block
<1>10. chain'[n].blocks = Append(c.blocks, b)
  BY <1>1, <1>2, <1>4, <1>7 DEF Construct, IInv, Chain
<1>11. ASSUME NEW k \in DOMAIN ts PROVE ts[k].index = Len(c.blocks)
  <2>1. k \in DOMAIN links /\ ts[k] = links[k].tx
    BY DEF Unlinked
  <2> QED
    BY <1>1, <1>8, <2>1 DEF CanConstruct, ValidList
<1> QED
  BY <1>1, <1>6, <1>9, <1>10, <1>11 DEF Joins

\* The smaller of two numbers.
LEMMA MinOfTwo ==
  ASSUME NEW x \in Nat, NEW y \in Nat
  PROVE  Min({x, y}) \in 0..y
<1>1. \E z \in {x, y} : \A w \in {x, y} : z <= w
  BY SMT
<1>2. Min({x, y}) \in {x, y} /\ Min({x, y}) <= y
  BY <1>1 DEF Min
<1> QED
  BY <1>2

\* handle_blocks_post.
LEMMA PostBlocksLists ==
  ASSUME IInv, LInv, NEW n \in Nodes, NEW a, PostBlocks(n, a)
  PROVE  LInv'
<1>1. PICK p : p = pool[n]
  OBVIOUS
<1>2. PICK num : num = Min({NumPerBlock, Len(p)})
  OBVIOUS
<1>3. PICK links : links = BlockLinks(p, num, a, Len(chain[n].blocks))
  OBVIOUS
<1>4. PICK ts : ts = Unlinked(links)
  OBVIOUS
<1>5. PICK rest : rest = SubSeq(p, num + 1, Len(p))
  OBVIOUS
<1>6. ListsOK(n) /\ PoolOK(p) /\ Len(p) \in Nat
  BY <1>1 DEF LInv, ListsOK, PoolOK, IsList
<1>7. num \in 0..Len(p)
  BY <1>2, <1>6, TransactionAssumption, MinOfTwo
<1>8. wallet' = wallet /\ ahead' = ahead
  BY DEF PostBlocks
<1>9. PoolOK(rest) /\ ToSet(rest) \subseteq ToSet(p)
  <2>1. num + 1 \in Nat \ {0} /\ Len(p) \in 0..Len(p)
    BY <1>6, <1>7
  <2> QED
    BY <1>5, <1>6, <2>1, PoolPart
<1>10. ASSUME CanConstruct(n, links), Construct(n, links),
             utxos' = [utxos EXCEPT ![n] = UpdateAll(utxos[n], ts)],
             PruneTo(n, rest, UpdateAll(utxos[n], ts)),
             Calling({Call("broadcast", n, n, 0)})
      PROVE  LInv'
  <2>1. PICK r \in Prune(rest, UpdateAll(utxos[n], ts)) : pool' = [pool EXCEPT ![n] = r]
    BY <1>10 DEF PruneTo
  <2>2. /\ \A h \in DOMAIN content' : BlockOK(content'[h])
        /\ \A m \in Nodes : ListsOK(m)'
    <3>1. /\ BlockOK(ts)
          /\ \A k \in DOMAIN ts : ts[k].inputs # <<>> => \E x \in ToSet(p) : ts[k] = x.tx
          /\ \A x \in ToSet(rest) : x.tx \notin ToSet(ts)
      <4>1. PICK L : L = Len(chain[n].blocks)
        OBVIOUS
      <4>2. links = BlockLinks(p, num, a, L)
        BY <1>3, <4>1
      <4> QED
        BY <1>4, <1>5, <1>6, <1>7, <4>2, BlockMade
    <3>2. /\ \A k \in DOMAIN ts : ts[k].index = Len(chain[n].blocks)
          /\ \A g \in DOMAIN content' :
               content'[g] = ts \/ (g \in DOMAIN content /\ content'[g] = content[g])
      BY <1>4, <1>10, ConstructIs
    <3>3. PICK b \in Block : /\ chain'[n].blocks = Append(chain[n].blocks, b)
                             /\ content'[b.hash] = ts
      <4>1. Joins(n, ts)
        BY <1>4, <1>10, ConstructIs
      <4> QED
        BY <4>1 DEF Joins
    <3>4. Growing /\ \A m \in Nodes \ {n} : chain'[m] = chain[m]
      BY <1>10, ConstructOK
    <3>5. \A h \in DOMAIN content' : BlockOK(content'[h])
      BY <3>1, <3>2 DEF LInv
    <3>6. PoolOK(r) /\ \A x \in ToSet(r) : x \in ToSet(p) /\ x.tx \notin ToSet(ts)
      <4>1. PoolOK(r) /\ ToSet(r) \subseteq ToSet(rest)
        BY <1>9, PruneOK
      <4> QED
        BY <1>9, <3>1, <4>1
    <3>7. ASSUME ~ahead[n], NEW k \in DOMAIN ts PROVE Closed(TxsOf(chain[n].blocks), ts[k])
      <4>1. Consistent(TxsOf(chain[n].blocks), utxos[n], p)
        BY <1>1, <1>6, <3>7 DEF ListsOK
      <4>2. CASE ts[k].inputs = <<>>
        <5>1. DOMAIN ts[k].inputs = {}
          BY <4>2
        <5> QED
          BY <5>1 DEF Closed
      <4>3. CASE ts[k].inputs # <<>>
        BY <3>1, <4>1, <4>3 DEF Consistent
      <4> QED
        BY <4>2, <4>3
    <3>8. /\ utxos'[n] = UpdateAll(utxos[n], ts) /\ pool'[n] = r
          /\ \A m \in Nodes \ {n} : utxos'[m] = utxos[m] /\ pool'[m] = pool[m]
      BY <1>10, <2>1 DEF LInv
    <3>9. ListsOK(n)'
      BY <1>1, <1>6, <1>8, <3>1, <3>2, <3>3, <3>4, <3>6, <3>7, <3>8, BlockJoins
    <3>10. ASSUME NEW m \in Nodes, m # n PROVE ListsOK(m)'
      BY <1>8, <3>4, <3>8, <3>10, ListsStay DEF LInv
    <3> QED
      BY <3>5, <3>9, <3>10
  <2>3. DOMAIN utxos' = Nodes /\ DOMAIN pool' = Nodes /\ DOMAIN ahead' = Nodes
    BY <1>8, <1>10, <2>1 DEF LInv
  <2>4. ASSUME NEW c \in DOMAIN calls', c.op = "transaction" PROVE StandardOK(c.arg)
    <3>1. c \in DOMAIN calls \/ c = Call("broadcast", n, n, 0)
      BY <1>10, CallingIs
    <3>2. c \in DOMAIN calls
      BY <2>4, <3>1, CallIs
    <3> QED
      BY <2>4, <3>2 DEF LInv
  <2> QED
    BY <1>8, <2>2, <2>3, <2>4 DEF LInv, WalletOK
<1>11. ASSUME UNCHANGED <<content, chain, utxos, calls>>, pool' = [pool EXCEPT ![n] = rest]
       PROVE  LInv'
  <2>1. Growing
    BY <1>11 DEF Growing, IInv
  <2>2. /\ DOMAIN pool' = Nodes /\ pool'[n] = rest
        /\ \A m \in Nodes \ {n} : pool'[m] = pool[m]
    BY <1>11 DEF LInv
  <2>3. ASSUME NEW m \in Nodes, m # n PROVE ListsOK(m)'
    BY <1>8, <1>11, <2>1, <2>2, <2>3, ListsStay DEF LInv
  <2>4. PICK T : T = TxsOf(chain[n].blocks)
    OBVIOUS
  <2>5. T = TxsOf(chain[n].blocks)'
    BY <1>11, <2>4 DEF TxsOf
  <2>6. ~ahead[n] => Consistent(T, utxos[n], rest)
    BY <1>1, <1>6, <1>9, <2>4, ConsistentLess DEF ListsOK
  <2>7. ListsOK(n)'
    BY <1>6, <1>8, <1>11, <1>9, <2>2, <2>5, <2>6 DEF ListsOK
  <2> QED
    BY <1>8, <1>11, <2>2, <2>3, <2>7 DEF LInv, WalletOK
<1> QED
  BY <1>1, <1>2, <1>3, <1>4, <1>5, <1>10, <1>11 DEF PostBlocks, BlockLinks, Unlinked

-----------------------------------------------------------------------------
(* A block that is received.                                                *)

\* A transaction of a list that is linked as a whole, and valid.
LEMMA ValidLinked ==
  ASSUME NEW ts, BlockOK(ts), NEW u, NEW L, ValidList(LinkAll(ts, u), L), NEW k \in DOMAIN ts
  PROVE  ts[k].inputs # <<>> => StandardOK(ts[k]) /\ ValidTx(ts[k], u)
<1>1. PICK ls : ls = LinkAll(ts, u)
  OBVIOUS
<1>2. k \in DOMAIN ls /\ ls[k].tx = ts[k] /\ ls[k].unspent = u
  BY <1>1 DEF LinkAll, Link
<1>3. ls[k].tx.type = (IF k = 1 THEN "reward" ELSE "standard") /\ ValidTx(ls[k].tx, ls[k].unspent)
  BY <1>1, <1>2 DEF ValidList
<1> QED
  BY <1>2, <1>3 DEF BlockOK, StandardOK

\* The lists of n follow a block.
LEMMA UpdateListsIs ==
  ASSUME LInv, NEW n \in Nodes, NEW ts, BlockOK(ts), UpdateLists(n, ts)
  PROVE  /\ DOMAIN utxos' = Nodes /\ DOMAIN pool' = Nodes
         /\ \A m \in Nodes \ {n} : utxos'[m] = utxos[m] /\ pool'[m] = pool[m]
         /\ utxos'[n] = UpdateAll(utxos[n], ts) /\ IsList(utxos'[n]) /\ PoolOK(pool'[n])
         /\ \A x \in ToSet(pool'[n]) : x \in ToSet(pool[n]) /\ x.tx \notin ToSet(ts)
<1>1. PICK p : p = pool[n]
  OBVIOUS
<1>2. PICK u : u = UpdateAll(utxos[n], ts)
  OBVIOUS
<1>3. PICK r \in Prune(RemoveAll(p, ts), u) : pool' = [pool EXCEPT ![n] = r]
  BY <1>1, <1>2 DEF UpdateLists, PruneTo
<1>4. utxos' = [utxos EXCEPT ![n] = u]
  BY <1>2 DEF UpdateLists
<1>5. ListsOK(n) /\ PoolOK(p) /\ IsList(ts) /\ IsList(u)
  BY <1>1, <1>2, BlockUpdateOK DEF LInv, ListsOK, BlockOK
<1>6. PICK S : p \in Seq(S)
  BY <1>5 DEF PoolOK, IsList
<1>7. PICK q : q = RemoveAll(p, ts)
  OBVIOUS
<1>8. /\ PoolOK(q) /\ ToSet(q) \subseteq ToSet(p)
      /\ \A x \in ToSet(q), k \in DOMAIN ts : Hash(x.tx) # Hash(ts[k])
  BY <1>5, <1>6, <1>7, RemoveAllOK
<1>9. PoolOK(r) /\ ToSet(r) \subseteq ToSet(q)
  BY <1>3, <1>7, <1>8, PruneOK
<1>10. \A x \in ToSet(r) : x \in ToSet(p) /\ x.tx \notin ToSet(ts)
  BY <1>8, <1>9 DEF ToSet
<1>11. /\ DOMAIN utxos' = Nodes /\ DOMAIN pool' = Nodes
       /\ \A m \in Nodes \ {n} : utxos'[m] = utxos[m] /\ pool'[m] = pool[m]
       /\ utxos'[n] = u /\ pool'[n] = r
  BY <1>3, <1>4 DEF LInv
<1> QED
  BY <1>1, <1>2, <1>5, <1>9, <1>10, <1>11

\* append_next_block accepts the block it is given here.
LEMMA AppendsIt ==
  ASSUME IInv, NEW n \in Nodes, NEW b \in Block, Verdict(n, b) = "append"
  PROVE  /\ AppendNextBlock(chain[n], b, Clock).chain.blocks = Append(chain[n].blocks, b)
         /\ b.index = Len(chain[n].blocks)
         /\ ValidList(LinkAll(content[b.hash], utxos[n]), b.index)
<1>1. PICK c : c = chain[n]
  OBVIOUS
<1>2. c \in Chain /\ Linked(c.blocks) /\ Clock \in Int /\ c.blocks \in Seq(Block)
  BY <1>1 DEF IInv, ChainOK, Clock, Chain
<1>3. /\ BlockValid(b, Clock) /\ ValidList(LinkAll(content[b.hash], utxos[n]), b.index)
      /\ b.index = Len(c.blocks)
      /\ IF Len(c.blocks) = 0 THEN IsGenesis(b) ELSE IsSuccessorOf(b, Latest(c))
  BY <1>1 DEF Verdict
<1>4. MayFollow(c, b, Clock)
  <2>1. c.blocks = <<>> <=> Len(c.blocks) = 0
    BY <1>2
  <2> QED
    BY <1>3, <2>1 DEF MayFollow, ValidGenesisBlock, ValidNextBlock, IsGenesis, IsSuccessorOf
<1>5. AppendNextBlock(c, b, Clock).chain.blocks = Append(c.blocks, b)
  BY <1>4, LedgerAssumption DEF AppendNextBlock
<1> QED
  BY <1>1, <1>3, <1>5

\* handle_receive_latest_block.
LEMMA ReceiveLatestBlockLists ==
  ASSUME IInv, LInv, NEW c \in DOMAIN calls, ReceiveLatestBlock(c)
  PROVE  LInv'
<1>1. PICK n : n = c.at
  OBVIOUS
<1>2. PICK b : b = c.arg
  OBVIOUS
<1>3. PICK ts : ts = content[b.hash]
  OBVIOUS
<1>4. /\ n \in Nodes /\ WellFormed(b) /\ b \in Block /\ BlockOK(ts)
      /\ content' = content /\ wallet' = wallet
  BY <1>1, <1>2, <1>3 DEF ReceiveLatestBlock, IInv, CallOK, WellFormed, LInv
<1>5. ASSUME NEW d \in DOMAIN calls', d.op = "transaction" PROVE StandardOK(d.arg)
  <2>1. \/ Serving(c, {})
        \/ Serving(c, {Call("request", n, c.from, 0)})
    BY <1>1 DEF ReceiveLatestBlock, TakeBlock
  <2>2. d \in DOMAIN calls \/ d = Call("request", n, c.from, 0)
    BY <2>1, ServingIs
  <2>3. d \in DOMAIN calls
    BY <1>5, <2>2, CallIs
  <2> QED
    BY <1>5, <2>3 DEF LInv
<1>6. CASE Verdict(n, b) = "request"
  <2>1. chain' = chain /\ ahead' = [ahead EXCEPT ![n] = TRUE] /\ UpdateLists(n, ts)
    BY <1>1, <1>2, <1>3, <1>6 DEF ReceiveLatestBlock, TakeBlock
  <2>2. Growing
    BY <1>4, <2>1 DEF Growing, IInv
  <2>3. /\ DOMAIN utxos' = Nodes /\ DOMAIN pool' = Nodes
        /\ \A m \in Nodes \ {n} : utxos'[m] = utxos[m] /\ pool'[m] = pool[m]
        /\ IsList(utxos'[n]) /\ PoolOK(pool'[n])
    BY <1>4, <2>1, UpdateListsIs
  <2>4. /\ DOMAIN ahead' = Nodes /\ ahead'[n] = TRUE
        /\ \A m \in Nodes \ {n} : ahead'[m] = ahead[m]
    BY <1>4, <2>1 DEF LInv
  <2>5. ListsOK(n)'
    BY <2>3, <2>4 DEF ListsOK, IsList, PoolOK, StandardOK, TxOK
  <2>6. ASSUME NEW m \in Nodes, m # n PROVE ListsOK(m)'
    BY <2>1, <2>2, <2>3, <2>4, <2>6, ListsStay DEF LInv
  <2> QED
    BY <1>4, <1>5, <2>3, <2>4, <2>5, <2>6 DEF LInv, WalletOK
<1>7. CASE Verdict(n, b) = "append"
  <2>1. /\ chain' = [chain EXCEPT ![n] = AppendNextBlock(chain[n], b, Clock).chain]
        /\ ahead' = ahead /\ UpdateLists(n, ts)
    BY <1>1, <1>2, <1>3, <1>7 DEF ReceiveLatestBlock, TakeBlock
  <2>2. PICK d : d = AppendNextBlock(chain[n], b, Clock).chain
    OBVIOUS
  <2>3. /\ d.blocks = Append(chain[n].blocks, b) /\ b.index = Len(chain[n].blocks)
        /\ ValidList(LinkAll(ts, utxos[n]), b.index)
    BY <1>3, <1>4, <1>7, <2>2, AppendsIt
  <2>4. /\ chain[n] \in Chain /\ Linked(chain[n].blocks) /\ Clock \in Int
        /\ chain[n].blocks \in Seq(Block)
    BY <1>4 DEF IInv, ChainOK, Clock, Chain
  <2>5. d \in Chain /\ d.blocks # <<>>
    <3>1. d \in Chain
      BY <1>4, <2>2, <2>4, AppendNextBlockOK
    <3> QED
      BY <1>4, <2>3, <2>4, <3>1
  <2>6. chain'[n] = d /\ \A m \in Nodes \ {n} : chain'[m] = chain[m]
    BY <1>4, <2>1, <2>2 DEF IInv
  <2>7. Growing
    BY <1>4, <2>1, <2>2, <2>5, <2>6 DEF Growing, IInv
  <2>8. /\ DOMAIN utxos' = Nodes /\ DOMAIN pool' = Nodes
        /\ \A m \in Nodes \ {n} : utxos'[m] = utxos[m] /\ pool'[m] = pool[m]
        /\ utxos'[n] = UpdateAll(utxos[n], ts) /\ PoolOK(pool'[n])
        /\ \A x \in ToSet(pool'[n]) : x \in ToSet(pool[n]) /\ x.tx \notin ToSet(ts)
    BY <1>4, <2>1, UpdateListsIs
  <2>9. \A k \in DOMAIN ts : ts[k].index = Len(chain[n].blocks)
    BY <1>3, <1>4, <2>3 DEF WellFormed
  <2>10. ASSUME ~ahead[n], NEW k \in DOMAIN ts
         PROVE  Closed(TxsOf(chain[n].blocks), ts[k])
    <3>1. Exact(TxsOf(chain[n].blocks), utxos[n])
      BY <1>4, <2>10 DEF LInv, ListsOK, Consistent
    <3>2. CASE ts[k].inputs = <<>>
      <4>1. DOMAIN ts[k].inputs = {}
        BY <3>2
      <4> QED
        BY <4>1 DEF Closed
    <3>3. CASE ts[k].inputs # <<>>
      <4>1. StandardOK(ts[k]) /\ ValidTx(ts[k], utxos[n])
        BY <1>4, <2>3, <3>3, ValidLinked
      <4> QED
        BY <3>1, <4>1, ValidClosed
    <3> QED
      BY <3>2, <3>3
  <2>11. ListsOK(n)'
    <3>1. PICK r : r = pool'[n]
      OBVIOUS
    <3>2. content'[b.hash] = ts /\ ListsOK(n)
      BY <1>3, <1>4 DEF LInv
    <3> QED
      BY <1>4, <2>1, <2>3, <2>6, <2>7, <2>8, <2>9, <2>10, <3>1, <3>2, BlockJoins
  <2>12. ASSUME NEW m \in Nodes, m # n PROVE ListsOK(m)'
    BY <2>1, <2>6, <2>7, <2>8, <2>12, ListsStay DEF LInv
  <2> QED
    BY <1>4, <1>5, <2>1, <2>8, <2>11, <2>12 DEF LInv, WalletOK
<1>8. CASE Verdict(n, b) \notin {"request", "append"}
  <2>1. chain' = chain /\ ahead' = ahead /\ utxos' = utxos /\ pool' = pool
    BY <1>1, <1>2, <1>8 DEF ReceiveLatestBlock, TakeBlock
  <2>2. Growing
    BY <1>4, <2>1 DEF Growing, IInv
  <2>3. \A m \in Nodes : ListsOK(m)'
    BY <2>1, <2>2, ListsStay DEF LInv
  <2> QED
    BY <1>4, <1>5, <2>1, <2>3 DEF LInv, WalletOK
<1> QED
  BY <1>6, <1>7, <1>8

-----------------------------------------------------------------------------
(* A chain that is loaded.                                                  *)

\* A list of transactions whose outputs are in S.
TxsAre(ts, S) == IsList(ts) /\ \A k \in DOMAIN ts : TxOK(ts[k]) /\ OutputsIn(ts[k], S)

\* The rounds of blockchain_setup.
LEMMA RebuiltRounds ==
  ASSUME NEW S, NEW bs \in Seq(Block),
         \A i \in DOMAIN bs : TxsAre(content[bs[i].hash], S)
  PROVE  \E g \in [0..Len(bs) -> Seq(S)] :
           /\ g[0] = <<>> /\ Rebuilt(bs) = g[Len(bs)]
           /\ \A k \in 1..Len(bs) : g[k] = UpdateAll(g[k - 1], content[bs[k].hash])
<1> DEFINE V == Seq(S)
           n == Len(bs)
           step == [p \in (1..n) \X V |-> UpdateAll(p[2], content[bs[p[1]].hash])]
           Body(h) == [q \in SUBSET DOMAIN bs |->
                         IF q = {} THEN <<>>
                         ELSE UpdateAll(h[q \ {Max(q)}], content[bs[Max(q)].hash])]
<1>1. n \in Nat /\ DOMAIN bs = 1..n /\ <<>> \in V
  OBVIOUS
<1>2. ASSUME NEW k \in 1..n, NEW v \in V
      PROVE  /\ UpdateAll(v, content[bs[k].hash]) \in V
             /\ step[<<k, v>>] = UpdateAll(v, content[bs[k].hash])
  <2>1. UpdateAll(v, content[bs[k].hash]) \in V
    <3>1. PICK ts : ts = content[bs[k].hash] /\ TxsAre(ts, S)
      BY <1>1
    <3>2. UpdateAll(v, ts) \in Seq(S)
      BY <3>1, UpdateAllExact DEF TxsAre
    <3> QED
      BY <3>1, <3>2
  <2> QED
    BY <2>1
<1>3. step \in [(1..n) \X V -> V]
  BY <1>2
<1>4. PICK h : IsFold(V, <<>>, step, n, h)
  <2> HIDE DEF step, V, n
  <2> QED
    BY <1>1, <1>3, FoldExists
<1>5. ASSUME NEW q \in SUBSET (1..n), q # {}
      PROVE  Max(q) \in 1..n /\ q \ {Max(q)} \in SUBSET (1..n)
  BY <1>1, <1>5, LastPosition
<1> HIDE DEF step, V, n
<1>6. h = Body(h)
  <2>1. ASSUME NEW q \in SUBSET (1..n), q # {}
        PROVE  h[q] = UpdateAll(h[q \ {Max(q)}], content[bs[Max(q)].hash])
    BY <1>2, <1>4, <1>5, <2>1 DEF IsFold
  <2> QED
    BY <1>1, <1>4, <2>1 DEF IsFold
<1>7. PICK iter : iter = Body(iter) /\ Rebuilt(bs) = iter[DOMAIN bs]
  <2> DEFINE it == CHOOSE f : f = Body(f)
  <2>1. it = Body(it)
    BY <1>6
  <2>2. Rebuilt(bs) = it[DOMAIN bs]
    BY DEF Rebuilt, FoldLeft, MapThenFoldSet
  <2> HIDE DEF it
  <2> QED
    BY <2>1, <2>2
<1>8. FoldsAs(V, <<>>, step, n, iter)
  <2>1. \A q \in SUBSET (1..n) : iter[q] = IF q = {} THEN <<>>
                         ELSE UpdateAll(iter[q \ {Max(q)}], content[bs[Max(q)].hash])
    BY <1>1, <1>7
  <2> QED
    BY <1>2, <1>5, <2>1 DEF FoldsAs
<1>9. PICK g : IsLoop(V, <<>>, step, n, g) /\ g[n] = iter[DOMAIN bs]
  <2>1. LoopEnds(V, <<>>, step, n, iter[DOMAIN bs])
    BY <1>1, <1>3, <1>8, FoldRounds
  <2> QED
    BY <2>1 DEF LoopEnds
<1>10. ASSUME NEW k \in 1..n PROVE g[k] = UpdateAll(g[k - 1], content[bs[k].hash])
  <2>1. k - 1 \in 0..n
    BY <1>1
  <2> QED
    BY <1>2, <1>9, <2>1 DEF IsLoop
<1> QED
  BY <1>1, <1>7, <1>9, <1>10 DEF IsLoop, V, n

\* The transactions of the first k blocks.
TxsUpTo(bs, k) == UNION {ToSet(content[bs[i].hash]) : i \in 1..k}

\* blockchain_setup computes the unspent outputs of blocks without inputs.
LEMMA RebuiltExact ==
  ASSUME LInv, NEW bs, AllWellFormed(bs), Linked(bs),
         \A i \in DOMAIN bs : \A k \in DOMAIN content[bs[i].hash] :
           content[bs[i].hash][k].inputs = <<>>
  PROVE  IsList(Rebuilt(bs)) /\ Exact(TxsOf(bs), Rebuilt(bs))
<1> DEFINE n == Len(bs)
           C(i) == content[bs[i].hash]
           O(t) == {UnspentOutput(t, j) : j \in DOMAIN t.outputs}
           S == UNION {UNION {O(C(i)[k]) : k \in DOMAIN C(i)} : i \in DOMAIN bs}
<1>1. bs \in Seq(Block) /\ n \in Nat /\ DOMAIN bs = 1..n
  BY DEF AllWellFormed
<1>2. ASSUME NEW i \in DOMAIN bs PROVE BlockOK(C(i))
  BY DEF AllWellFormed, WellFormed, LInv
<1>3. ASSUME NEW i \in DOMAIN bs, NEW k \in DOMAIN C(i) PROVE OutputsIn(C(i)[k], S)
  BY DEF OutputsIn
<1> HIDE DEF S
<1>4. \A i \in DOMAIN bs : TxsAre(C(i), S)
  BY <1>2, <1>3 DEF TxsAre, BlockOK
<1>5. PICK g \in [0..n -> Seq(S)] :
        /\ g[0] = <<>> /\ Rebuilt(bs) = g[n]
        /\ \A k \in 1..n : g[k] = UpdateAll(g[k - 1], C(k))
  BY <1>1, <1>4, RebuiltRounds
<1> HIDE DEF n
<1> DEFINE D == {k \in Nat : k <= n => Exact(TxsUpTo(bs, k), g[k])}
<1>6. 0 \in D
  <2>1. TxsUpTo(bs, 0) = {}
    BY DEF TxsUpTo
  <2>2. Exact({}, <<>>)
    <3>1. DOMAIN <<>> = {} /\ ToSet(<<>>) = {}
      BY DEF ToSet
    <3> QED
      BY <3>1 DEF Exact, KeysDiffer, CreatedBy
  <2> QED
    BY <1>5, <2>1, <2>2
<1>7. ASSUME NEW k \in Nat, k \in D PROVE k + 1 \in D
  <2> SUFFICES ASSUME k + 1 <= n PROVE Exact(TxsUpTo(bs, k + 1), g[k + 1])
    BY <1>7
  <2>1. k + 1 \in 1..n /\ (k + 1) - 1 = k /\ k \in 0..n /\ k <= n
    BY <1>1
  <2>2. PICK v \in Seq(S) : v = g[k]
    BY <1>5, <2>1
  <2>3. PICK T : T = TxsUpTo(bs, k)
    OBVIOUS
  <2>4. PICK ts : ts = C(k + 1)
    OBVIOUS
  <2>5. g[k + 1] = UpdateAll(v, ts) /\ Exact(T, v)
    BY <1>5, <1>7, <2>1, <2>2, <2>3, <2>4
  <2>6. BlockOK(ts) /\ IsList(v)
    BY <1>1, <1>2, <2>1, <2>2, <2>4 DEF IsList
  <2>7. ASSUME NEW q, q.inputs = <<>> PROVE Closed(T, q)
    <3>1. DOMAIN q.inputs = {}
      BY <2>7
    <3> QED
      BY <3>1 DEF Closed
  <2>8. ASSUME NEW q \in T PROVE q.index # k /\ Closed(T, q)
    <3>1. PICK i \in 1..k : q \in ToSet(C(i))
      BY <2>3 DEF TxsUpTo
    <3>2. i \in DOMAIN bs
      BY <1>1, <2>1
    <3>3. PICK j \in DOMAIN C(i) : q = C(i)[j]
      BY <3>1 DEF ToSet
    <3>4. q.index = i - 1 /\ q.inputs = <<>>
      BY <3>2, <3>3 DEF AllWellFormed, WellFormed, Linked
    <3>5. i - 1 # k
      OBVIOUS
    <3> QED
      BY <2>7, <3>4, <3>5
  <2>9. ASSUME NEW j \in DOMAIN ts PROVE ts[j].index = k /\ Closed(T, ts[j])
    <3>1. k + 1 \in DOMAIN bs
      BY <1>1, <2>1
    <3>2. ts[j].index = (k + 1) - 1 /\ ts[j].inputs = <<>>
      BY <2>4, <3>1 DEF AllWellFormed, WellFormed, Linked
    <3> QED
      BY <2>1, <2>7, <3>2
  <2>10. Exact(T \union ToSet(ts), g[k + 1])
    BY <2>5, <2>6, <2>8, <2>9, BlockUpdateOK
  <2>11. T \union ToSet(ts) = TxsUpTo(bs, k + 1)
    <3>1. \A i : i \in 1..(k + 1) <=> (i \in 1..k \/ i = k + 1)
      BY NextRound
    <3> QED
      BY <2>3, <2>4, <3>1 DEF TxsUpTo
  <2> QED
    BY <2>10, <2>11
<1> HIDE DEF D
<1>8. n \in D
  BY <1>1, <1>6, <1>7, SetInduction
<1>9. Exact(TxsUpTo(bs, n), g[n]) /\ n \in 0..n
  BY <1>1, <1>8 DEF D
<1>10. TxsUpTo(bs, n) = TxsOf(bs)
  BY <1>1 DEF TxsUpTo, TxsOf, TxsIn
<1> QED
  BY <1>5, <1>9, <1>10 DEF IsList

\* A chain that is loaded has no transaction with inputs: nothing links them
\* with unspent outputs.
LEMMA LoadedWithoutInputs ==
  ASSUME LInv, NEW bs, AllWellFormed(bs), Loads(bs),
         NEW i \in DOMAIN bs, NEW k \in DOMAIN content[bs[i].hash]
  PROVE  content[bs[i].hash][k].inputs = <<>>
<1>1. PICK ts : ts = content[bs[i].hash]
  OBVIOUS
<1>2. BlockOK(ts) /\ ValidList(LinkAll(ts, <<>>), bs[i].index)
  BY <1>1 DEF AllWellFormed, WellFormed, LInv, Loads
<1> SUFFICES ASSUME ts[k].inputs # <<>> PROVE FALSE
  BY <1>1
<1>3. StandardOK(ts[k]) /\ ValidTx(ts[k], <<>>)
  BY <1>1, <1>2, ValidLinked
<1>4. 1 \in DOMAIN ts[k].inputs
  BY <1>3 DEF StandardOK, TxOK, IsList
<1>5. Matching(<<>>, ts[k].inputs[1]) # {}
  BY <1>3, <1>4 DEF StandardOK, ValidTx, ValidStandard
<1> QED
  BY <1>5 DEF Matching

\* handle_receive_all_blocks.
LEMMA ReceiveAllBlocksLists ==
  ASSUME IInv, LInv, NEW c \in DOMAIN calls, ReceiveAllBlocks(c)
  PROVE  LInv'
<1>1. PICK n : n = c.at
  OBVIOUS
<1>2. PICK bs : bs = c.arg
  OBVIOUS
<1>3. PICK d : d = FromJson(bs, Clock).chain
  OBVIOUS
<1>4. /\ n \in Nodes /\ AllWellFormed(bs) /\ content' = content /\ wallet' = wallet
      /\ Serving(c, {})
  BY <1>1, <1>2 DEF ReceiveAllBlocks, IInv, CallOK
<1>5. \A e \in DOMAIN calls' : e \in DOMAIN calls
  BY <1>4, ServingIs
<1>6. CASE Loads(bs) /\ Greater(d, chain[n])
  <2>1. /\ chain' = [chain EXCEPT ![n] = d] /\ utxos' = [utxos EXCEPT ![n] = Rebuilt(bs)]
        /\ pool' = [pool EXCEPT ![n] = <<>>] /\ ahead' = [ahead EXCEPT ![n] = FALSE]
    BY <1>1, <1>2, <1>3, <1>6 DEF ReceiveAllBlocks
  <2>2. bs \in Seq(Block) /\ Clock \in Int
    BY <1>4 DEF AllWellFormed, Clock
  <2>3. LoadedFrom(bs, Len(bs), FromJson(bs, Clock)) /\ FromJson(bs, Clock).ok
    BY <1>6, <2>2, FromJsonOK DEF Loads
  <2>4. /\ d \in Chain /\ Linked(d.blocks) /\ d.blocks \in Seq(Block)
        /\ \A i \in DOMAIN d.blocks : i \in DOMAIN bs /\ d.blocks[i] = bs[i]
        /\ Len(d.blocks) = Len(bs)
    BY <1>3, <2>3 DEF LoadedFrom, Chain
  <2>5. d.blocks = bs
    BY <2>2, <2>4
  <2>6. chain[n] \in Chain /\ chain[n].blocks \in Seq(Block)
    BY <1>4 DEF IInv, Chain
  <2>7. d.blocks # <<>>
    <3>1. Len(d.blocks) > Len(chain[n].blocks)
      BY <1>6, LedgerAssumption DEF Greater
    <3> QED
      BY <2>6, <3>1
  <2>8. chain'[n] = d /\ \A m \in Nodes \ {n} : chain'[m] = chain[m]
    BY <1>4, <2>1 DEF IInv
  <2>9. Growing
    BY <1>4, <2>1, <2>4, <2>7, <2>8 DEF Growing, IInv
  <2>10. PICK u : u = Rebuilt(bs)
    OBVIOUS
  <2>11. IsList(u) /\ Exact(TxsOf(bs), u)
    BY <1>4, <1>6, <2>4, <2>5, <2>10, LoadedWithoutInputs, RebuiltExact
  <2>12. ASSUME NEW q \in TxsOf(bs) PROVE Closed(TxsOf(bs), q)
    <3>1. PICK i \in DOMAIN bs : q \in ToSet(content[bs[i].hash])
      BY DEF TxsOf, TxsIn
    <3>2. PICK k \in DOMAIN content[bs[i].hash] : q = content[bs[i].hash][k]
      BY <3>1 DEF ToSet
    <3>3. q.inputs = <<>>
      BY <1>4, <1>6, <3>2, LoadedWithoutInputs
    <3>4. DOMAIN q.inputs = {}
      BY <3>3
    <3> QED
      BY <3>4 DEF Closed
  <2>13. PoolOK(<<>>) /\ ToSet(<<>>) = {}
    <3>1. <<>> \in Seq({}) /\ DOMAIN <<>> = {}
      OBVIOUS
    <3> QED
      BY <3>1 DEF PoolOK, IsList, ToSet
  <2>14. Consistent(TxsOf(bs), u, <<>>)
    BY <2>11, <2>12, <2>13 DEF Consistent
  <2>15. /\ DOMAIN utxos' = Nodes /\ DOMAIN pool' = Nodes /\ DOMAIN ahead' = Nodes
         /\ \A m \in Nodes \ {n} :
              utxos'[m] = utxos[m] /\ pool'[m] = pool[m] /\ ahead'[m] = ahead[m]
         /\ utxos'[n] = u /\ pool'[n] = <<>> /\ ahead'[n] = FALSE
    BY <1>4, <2>1, <2>10 DEF LInv
  <2>16. TxsOf(chain[n].blocks)' = TxsOf(bs)
    BY <1>4, <2>5, <2>8 DEF TxsOf
  <2>17. ListsOK(n)'
    <3>1. PICK T : T = TxsOf(bs)
      OBVIOUS
    <3>2. PICK e : e = <<>>
      OBVIOUS
    <3>3. IsList(u) /\ PoolOK(e) /\ Consistent(T, u, e) /\ pool'[n] = e
      BY <2>11, <2>13, <2>14, <2>15, <3>1, <3>2
    <3> QED
      BY <2>15, <2>16, <3>1, <3>3 DEF ListsOK
  <2>18. ASSUME NEW m \in Nodes, m # n PROVE ListsOK(m)'
    BY <2>8, <2>9, <2>15, <2>18, ListsStay DEF LInv
  <2> QED
    BY <1>4, <1>5, <2>15, <2>17, <2>18 DEF LInv, WalletOK
<1>7. CASE ~(Loads(bs) /\ Greater(d, chain[n]))
  <2>1. chain' = chain /\ ahead' = ahead /\ utxos' = utxos /\ pool' = pool
    BY <1>1, <1>2, <1>3, <1>7 DEF ReceiveAllBlocks
  <2>2. Growing
    BY <1>4, <2>1 DEF Growing, IInv
  <2>3. \A m \in Nodes : ListsOK(m)'
    BY <2>1, <2>2, ListsStay DEF LInv
  <2> QED
    BY <1>4, <1>5, <2>1, <2>3 DEF LInv, WalletOK
<1> QED
  BY <1>6, <1>7

-----------------------------------------------------------------------------
\* LInv holds of the network: transactions are well-formed wherever they are,
\* and the unspent outputs and the pool of a node fit its chain, unless it has
\* taken in a block from beyond its end.
THEOREM ListsInvariance == Spec => []LInv
<1>1. Init => LInv
  <2> SUFFICES ASSUME Init PROVE LInv
    OBVIOUS
  <2>1. <<>> \in Seq({}) /\ DOMAIN <<>> = {} /\ ToSet(<<>>) = {}
    BY DEF ToSet
  <2>2. content = <<>> /\ DOMAIN calls = {}
    BY DEF Init, EmptyBag, SetToBag
  <2>3. \A n \in Nodes : utxos[n] = <<>> /\ pool[n] = <<>> /\ chain[n].blocks = <<>>
    BY DEF Init, EmptyChain
  <2>4. IsList(<<>>) /\ PoolOK(<<>>)
    BY <2>1 DEF IsList, PoolOK
  <2>5. TxsOf(<<>>) = {}
    BY <2>1 DEF TxsOf, TxsIn
  <2>6. Consistent({}, <<>>, <<>>)
    BY <2>1 DEF Consistent, Exact, KeysDiffer, CreatedBy
  <2>7. \A n \in Nodes : ListsOK(n)
    BY <2>3, <2>4, <2>5, <2>6 DEF ListsOK
  <2>8. DOMAIN wallet = Addresses /\ \A a \in Addresses : WalletOK(wallet[a])
    BY DEF Init, WalletOK, NoTransfer
  <2>9. DOMAIN utxos = Nodes /\ DOMAIN pool = Nodes /\ DOMAIN ahead = Nodes
    BY DEF Init
  <2> QED
    BY <2>1, <2>2, <2>7, <2>8, <2>9 DEF LInv
<1>2. IInv /\ LInv /\ [Next]_vars => LInv'
  <2> SUFFICES ASSUME IInv, LInv, [Next]_vars PROVE LInv'
    OBVIOUS
  <2>1. CASE UNCHANGED <<content, chain, utxos, pool, wallet, ahead>>
             /\ \A c \in DOMAIN calls' : c \in DOMAIN calls \/ c.op # "transaction"
    <3>1. Growing
      BY <2>1 DEF Growing, IInv
    <3>2. \A n \in Nodes : ListsOK(n)'
      BY <2>1, <3>1, ListsStay DEF LInv
    <3> QED
      BY <2>1, <3>2 DEF LInv, WalletOK
  <2>2. ASSUME NEW a \in Addresses, Transfer(a) PROVE LInv'
    BY <2>2, TransferUnspentLists, TransferLatestLists, TransferPostLists DEF Transfer
  <2>3. ASSUME NEW n \in Nodes, NEW a \in Addresses, PostBlocks(n, a) PROVE LInv'
    BY <2>3, PostBlocksLists
  <2>4. ASSUME NEW c \in DOMAIN calls, BroadcastLatestBlock(c) PROVE LInv'
    <3>1. PICK b : b = Latest(chain[c.at])
      OBVIOUS
    <3>2. /\ UNCHANGED <<content, chain, utxos, pool, wallet, ahead>>
          /\ Serving(c, {Call("block", m, c.at, b) : m \in Others(c.at)})
      BY <2>4, <3>1 DEF BroadcastLatestBlock
    <3>3. ASSUME NEW d \in DOMAIN calls', d \notin DOMAIN calls PROVE d.op # "transaction"
      <4>1. PICK m \in Others(c.at) : d = Call("block", m, c.at, b)
        BY <3>2, <3>3, ServingIs
      <4> QED
        BY <4>1, CallIs
    <3> QED
      BY <2>1, <3>2, <3>3
  <2>5. ASSUME NEW c \in DOMAIN calls, RequestAllBlocks(c) PROVE LInv'
    <3>1. PICK bs : bs = chain[c.from].blocks
      OBVIOUS
    <3>2. /\ UNCHANGED <<content, chain, utxos, pool, wallet, ahead>>
          /\ Serving(c, {Call("load", c.at, c.from, bs)})
      BY <2>5, <3>1 DEF RequestAllBlocks
    <3>3. ASSUME NEW d \in DOMAIN calls', d \notin DOMAIN calls PROVE d.op # "transaction"
      <4>1. d = Call("load", c.at, c.from, bs)
        BY <3>2, <3>3, ServingIs
      <4> QED
        BY <4>1, CallIs
    <3> QED
      BY <2>1, <3>2, <3>3
  <2>6. ASSUME NEW c \in DOMAIN calls, Serve(c) PROVE LInv'
    BY <2>4, <2>5, <2>6, ReceiveTransactionLists, ReceiveLatestBlockLists,
       ReceiveAllBlocksLists DEF Serve
  <2>7. CASE UNCHANGED vars
    BY <2>1, <2>7 DEF vars
  <2> QED
    BY <2>2, <2>3, <2>6, <2>7 DEF Next
<1> QED
  BY <1>1, <1>2, Invariance, PTL DEF Spec

\* The transactions of a chain, with and without their positions.
LEMMA TxsAtPositions ==
  ASSUME NEW n
  PROVE  \A q : q \in TxsOf(chain[n].blocks) <=> \E p \in TxAt(n) : q = TxOf(n, p)
<1>1. ASSUME NEW q \in TxsOf(chain[n].blocks) PROVE \E p \in TxAt(n) : q = TxOf(n, p)
  <2>1. PICK i \in DOMAIN chain[n].blocks : q \in ToSet(content[chain[n].blocks[i].hash])
    BY DEF TxsOf, TxsIn
  <2>2. PICK k \in DOMAIN content[chain[n].blocks[i].hash] :
          q = content[chain[n].blocks[i].hash][k]
    BY <2>1 DEF ToSet
  <2>3. <<i, k>> \in TxAt(n) /\ TxOf(n, <<i, k>>) = q
    BY <2>2 DEF TxAt, TxOf
  <2> QED
    BY <2>3
<1>2. ASSUME NEW p \in TxAt(n) PROVE TxOf(n, p) \in TxsOf(chain[n].blocks)
  <2>1. PICK i \in DOMAIN chain[n].blocks :
          \E k \in DOMAIN content[chain[n].blocks[i].hash] : p = <<i, k>>
    BY DEF TxAt
  <2>2. PICK k \in DOMAIN content[chain[n].blocks[i].hash] : p = <<i, k>>
    BY <2>1
  <2>3. TxOf(n, p) \in ToSet(content[chain[n].blocks[i].hash])
    BY <2>2 DEF TxOf, ToSet
  <2> QED
    BY <2>3 DEF TxsOf, TxsIn
<1> QED
  BY <1>1, <1>2

\* UnspentMatchesChain holds of the network: the list that the handlers of a node
\* maintain, by erasing and appending block by block, in loops that skip
\* elements, has exactly the outputs its chain creates and does not spend.
THEOREM UnspentStaysExact == Spec => []UnspentMatchesChain
<1>1. LInv => UnspentMatchesChain
  <2> SUFFICES ASSUME LInv, NEW n \in Nodes, ~ahead[n] PROVE UnspentExact(n)
    BY DEF UnspentMatchesChain
  <2>1. PICK u : u = utxos[n]
    OBVIOUS
  <2>2. PICK T : T = TxsOf(chain[n].blocks)
    OBVIOUS
  <2>3. Exact(T, u)
    BY <2>1, <2>2 DEF LInv, ListsOK, Consistent
  <2>4. IsInjective(u)
    BY <2>3 DEF Exact, KeysDiffer, IsInjective
  <2>5. \A q : q \in T <=> \E p \in TxAt(n) : q = TxOf(n, p)
    BY <2>2, TxsAtPositions
  <2>6. \A o : o \in Created(n) <=> CreatedBy(T, o)
    BY <2>5 DEF Created, CreatedBy
  <2>7. \A o : IsSpent(n, o) <=> SpentBy(T, o)
    BY <2>5 DEF IsSpent, SpentBy, SpentIn
  <2>8. ToSet(u) = {o \in Created(n) : ~IsSpent(n, o)}
    BY <2>3, <2>6, <2>7 DEF Exact
  <2> QED
    BY <2>1, <2>4, <2>8 DEF UnspentExact
<1> QED
  BY <1>1, ListsInvariance, PTL

\* PoolUnconfirmed holds of the network: whichever of a transaction and the block
\* with it reaches a node first, the pool holds no transaction of the chain, and
\* no two that compete for an output, although the loops of the pool skip
\* elements and prune may erase others.
THEOREM PoolStaysUnconfirmed == Spec => []PoolUnconfirmed
<1>1. LInv => PoolUnconfirmed
  <2> SUFFICES ASSUME LInv, NEW n \in Nodes, ~ahead[n], NEW i \in DOMAIN pool[n]
               PROVE  /\ \A p \in TxAt(n) : TxOf(n, p) # pool[n][i].tx
                      /\ \A j \in DOMAIN pool[n] :
                           i # j => ~SharesInput(pool[n][i].tx, pool[n][j].tx)
    BY DEF PoolUnconfirmed
  <2>1. PoolOK(pool[n]) /\ Consistent(TxsOf(chain[n].blocks), utxos[n], pool[n])
    BY DEF LInv, ListsOK
  <2>2. pool[n][i].tx \notin TxsOf(chain[n].blocks)
    BY <2>1 DEF Consistent, ToSet
  <2>3. \A p \in TxAt(n) : TxOf(n, p) # pool[n][i].tx
    BY <2>2, TxsAtPositions
  <2> QED
    BY <2>1, <2>3 DEF PoolOK
<1> QED
  BY <1>1, ListsInvariance, PTL

-----------------------------------------------------------------------------
(* What lists of unspent outputs are worth.                                 *)

\* A list of unspent outputs, all of them with an amount.
Amounting(S) == \A o \in S : o.output.amount \in Int

ValuedList(u) == \E S : Amounting(S) /\ u \in Seq(S)

\* The rounds of the loop that adds up a list of unspent outputs.
LEMMA WorthRounds ==
  ASSUME NEW S, Amounting(S), NEW u \in Seq(S)
  PROVE  \E g \in [0..Len(u) -> Int] :
           /\ g[0] = 0 /\ Worth(u) = g[Len(u)]
           /\ \A k \in 1..Len(u) : g[k] = g[k - 1] + u[k].output.amount
<1> DEFINE V == Int
           n == Len(u)
           step == [p \in (1..n) \X V |-> p[2] + u[p[1]].output.amount]
           Body(h) == [q \in SUBSET DOMAIN u |->
                         IF q = {} THEN 0
                         ELSE h[q \ {Max(q)}] + u[Max(q)].output.amount]
<1>1. n \in Nat /\ DOMAIN u = 1..n /\ 0 \in V
  OBVIOUS
<1>2. ASSUME NEW k \in 1..n, NEW v \in V
      PROVE  /\ v + u[k].output.amount \in V
             /\ step[<<k, v>>] = v + u[k].output.amount
  <2>1. v + u[k].output.amount \in V
    <3>1. u[k] \in S
      OBVIOUS
    <3> QED
      BY <3>1 DEF Amounting
  <2> QED
    BY <2>1
<1>3. step \in [(1..n) \X V -> V]
  BY <1>2
<1>4. PICK h : IsFold(V, 0, step, n, h)
  <2> HIDE DEF step, V, n
  <2> QED
    BY <1>1, <1>3, FoldExists
<1>5. ASSUME NEW q \in SUBSET (1..n), q # {}
      PROVE  Max(q) \in 1..n /\ q \ {Max(q)} \in SUBSET (1..n)
  BY <1>1, <1>5, LastPosition
<1> HIDE DEF step, V, n
<1>6. h = Body(h)
  <2>1. ASSUME NEW q \in SUBSET (1..n), q # {}
        PROVE  h[q] = h[q \ {Max(q)}] + u[Max(q)].output.amount
    BY <1>2, <1>4, <1>5, <2>1 DEF IsFold
  <2> QED
    BY <1>1, <1>4, <2>1 DEF IsFold
<1>7. PICK iter : iter = Body(iter) /\ Worth(u) = iter[DOMAIN u]
  <2> DEFINE it == CHOOSE f : f = Body(f)
  <2>1. it = Body(it)
    BY <1>6
  <2>2. Worth(u) = it[DOMAIN u]
    BY DEF Worth, FoldLeft, MapThenFoldSet
  <2> HIDE DEF it
  <2> QED
    BY <2>1, <2>2
<1>8. FoldsAs(V, 0, step, n, iter)
  <2>1. \A q \in SUBSET (1..n) : iter[q] = IF q = {} THEN 0
                         ELSE iter[q \ {Max(q)}] + u[Max(q)].output.amount
    BY <1>1, <1>7
  <2> QED
    BY <1>2, <1>5, <2>1 DEF FoldsAs
<1>9. PICK g : IsLoop(V, 0, step, n, g) /\ g[n] = iter[DOMAIN u]
  <2>1. LoopEnds(V, 0, step, n, iter[DOMAIN u])
    BY <1>1, <1>3, <1>8, FoldRounds
  <2> QED
    BY <2>1 DEF LoopEnds
<1>10. ASSUME NEW k \in 1..n PROVE g[k] = g[k - 1] + u[k].output.amount
  <2>1. k - 1 \in 0..n
    BY <1>1
  <2> QED
    BY <1>2, <1>9, <2>1 DEF IsLoop
<1> QED
  BY <1>1, <1>7, <1>9, <1>10 DEF IsLoop, V, n

\* The rounds of the loop that adds up the outputs of a transaction.
LEMMA TotalRounds ==
  ASSUME NEW s, IsList(s), \A i \in DOMAIN s : s[i].amount \in Int
  PROVE  \E g \in [0..Len(s) -> Int] :
           /\ g[0] = 0 /\ TotalAmount(s) = g[Len(s)]
           /\ \A k \in 1..Len(s) : g[k] = g[k - 1] + s[k].amount
<1> DEFINE V == Int
           n == Len(s)
           step == [p \in (1..n) \X V |-> p[2] + s[p[1]].amount]
           Body(h) == [q \in SUBSET DOMAIN s |->
                         IF q = {} THEN 0
                         ELSE h[q \ {Max(q)}] + s[Max(q)].amount]
<1>1. n \in Nat /\ DOMAIN s = 1..n /\ 0 \in V
  BY DEF IsList
<1>2. ASSUME NEW k \in 1..n, NEW v \in V
      PROVE  /\ v + s[k].amount \in V
             /\ step[<<k, v>>] = v + s[k].amount
  <2>1. v + s[k].amount \in V
    BY <1>1
  <2> QED
    BY <2>1
<1>3. step \in [(1..n) \X V -> V]
  BY <1>2
<1>4. PICK h : IsFold(V, 0, step, n, h)
  <2> HIDE DEF step, V, n
  <2> QED
    BY <1>1, <1>3, FoldExists
<1>5. ASSUME NEW q \in SUBSET (1..n), q # {}
      PROVE  Max(q) \in 1..n /\ q \ {Max(q)} \in SUBSET (1..n)
  BY <1>1, <1>5, LastPosition
<1> HIDE DEF step, V, n
<1>6. h = Body(h)
  <2>1. ASSUME NEW q \in SUBSET (1..n), q # {}
        PROVE  h[q] = h[q \ {Max(q)}] + s[Max(q)].amount
    BY <1>2, <1>4, <1>5, <2>1 DEF IsFold
  <2> QED
    BY <1>1, <1>4, <2>1 DEF IsFold
<1>7. PICK iter : iter = Body(iter) /\ TotalAmount(s) = iter[DOMAIN s]
  <2> DEFINE it == CHOOSE f : f = Body(f)
  <2>1. it = Body(it)
    BY <1>6
  <2>2. TotalAmount(s) = it[DOMAIN s]
    BY DEF TotalAmount, FoldLeft, MapThenFoldSet
  <2> HIDE DEF it
  <2> QED
    BY <2>1, <2>2
<1>8. FoldsAs(V, 0, step, n, iter)
  <2>1. \A q \in SUBSET (1..n) : iter[q] = IF q = {} THEN 0
                         ELSE iter[q \ {Max(q)}] + s[Max(q)].amount
    BY <1>1, <1>7
  <2> QED
    BY <1>2, <1>5, <2>1 DEF FoldsAs
<1>9. PICK g : IsLoop(V, 0, step, n, g) /\ g[n] = iter[DOMAIN s]
  <2>1. LoopEnds(V, 0, step, n, iter[DOMAIN s])
    BY <1>1, <1>3, <1>8, FoldRounds
  <2> QED
    BY <2>1 DEF LoopEnds
<1>10. ASSUME NEW k \in 1..n PROVE g[k] = g[k - 1] + s[k].amount
  <2>1. k - 1 \in 0..n
    BY <1>1
  <2> QED
    BY <1>2, <1>9, <2>1 DEF IsLoop
<1> QED
  BY <1>1, <1>7, <1>9, <1>10 DEF IsLoop, V, n

\* The amounts at positions q of c.
SumAt(c, q) == MapThenSumSet(LAMBDA i : c[i].output.amount, q)

\* A sum over one position.
LEMMA SumOfOne ==
  ASSUME NEW i, NEW c, c[i].output.amount \in Int
  PROVE  SumAt(c, {i}) = c[i].output.amount
<1> DEFINE Body(h) == [q \in SUBSET {i} |->
                         IF q = {} THEN 0
                         ELSE c[CHOOSE x \in q : TRUE].output.amount
                                + h[q \ {CHOOSE x \in q : TRUE}]]
           g == [q \in SUBSET {i} |-> IF q = {} THEN 0 ELSE c[i].output.amount]
           it == CHOOSE f : f = Body(f)
<1>1. ASSUME NEW q \in SUBSET {i}, q # {}
      PROVE  (CHOOSE x \in q : TRUE) = i /\ q \ {i} = {}
  <2>1. q = {i}
    BY <1>1
  <2>2. (CHOOSE x \in q : TRUE) \in q
    BY <2>1
  <2> QED
    BY <2>1, <2>2
<1>2. g = Body(g)
  <2>1. ASSUME NEW q \in SUBSET {i} PROVE g[q] = Body(g)[q]
    <3>1. CASE q = {}
      BY <3>1
    <3>2. CASE q # {}
      <4>1. g[{}] = 0 /\ {} \in SUBSET {i} /\ c[i].output.amount + 0 = c[i].output.amount
        OBVIOUS
      <4> QED
        BY <1>1, <3>2, <4>1
    <3> QED
      BY <3>1, <3>2
  <2> QED
    BY <2>1
<1>3. it = Body(it)
  BY <1>2
<1>4. SumAt(c, {i}) = it[{i}]
  BY DEF SumAt, MapThenSumSet, MapThenFoldSet
<1> HIDE DEF it
<1>5. it[{}] = 0 /\ it[{i}] = c[i].output.amount + it[{i} \ {i}]
  <2>1. {i} \in SUBSET {i} /\ {i} # {} /\ {} \in SUBSET {i}
    OBVIOUS
  <2>2. it[{}] = 0
    BY <1>3, <2>1
  <2>3. it[{i}] = c[CHOOSE x \in {i} : TRUE].output.amount
                    + it[{i} \ {CHOOSE x \in {i} : TRUE}]
    BY <1>3, <2>1
  <2> QED
    BY <1>1, <2>1, <2>2, <2>3
<1>6. {i} \ {i} = {}
  OBVIOUS
<1> QED
  BY <1>4, <1>5, <1>6

\* The outputs that the inputs of t refer to are in c, once each.
Finds(c, t) ==
  \A k \in DOMAIN t.inputs : \E i \in DOMAIN c :
    Matching(c, t.inputs[k]) = {i} /\ c[i].output.amount \in Int

\* What an input is worth according to c.
AmountOf(c, x) == SumAt(c, Matching(c, x))

\* The rounds of the loop that adds up what the inputs of a transaction refer to.
LEMMA InputRounds ==
  ASSUME NEW c, NEW t, IsList(t.inputs), Finds(c, t)
  PROVE  \E g \in [0..Len(t.inputs) -> Int] :
           /\ g[0] = 0 /\ InputSum(t, c) = g[Len(t.inputs)]
           /\ \A k \in 1..Len(t.inputs) : g[k] = g[k - 1] + AmountOf(c, t.inputs[k])
<1> DEFINE V == Int
           n == Len(t.inputs)
           step == [p \in (1..n) \X V |-> p[2] + AmountOf(c, t.inputs[p[1]])]
           Body(h) == [q \in SUBSET DOMAIN t.inputs |->
                         IF q = {} THEN 0
                         ELSE h[q \ {Max(q)}] + AmountOf(c, t.inputs[Max(q)])]
<1>1. n \in Nat /\ DOMAIN t.inputs = 1..n /\ 0 \in V
  BY DEF IsList
<1>2. ASSUME NEW k \in 1..n, NEW v \in V
      PROVE  /\ v + AmountOf(c, t.inputs[k]) \in V
             /\ step[<<k, v>>] = v + AmountOf(c, t.inputs[k])
  <2>1. v + AmountOf(c, t.inputs[k]) \in V
    <3>1. PICK i \in DOMAIN c :
            Matching(c, t.inputs[k]) = {i} /\ c[i].output.amount \in Int
      BY <1>1 DEF Finds
    <3>2. AmountOf(c, t.inputs[k]) = c[i].output.amount
      BY <3>1, SumOfOne DEF AmountOf
    <3> QED
      BY <3>1, <3>2
  <2> QED
    BY <2>1
<1>3. step \in [(1..n) \X V -> V]
  BY <1>2
<1>4. PICK h : IsFold(V, 0, step, n, h)
  <2> HIDE DEF step, V, n
  <2> QED
    BY <1>1, <1>3, FoldExists
<1>5. ASSUME NEW q \in SUBSET (1..n), q # {}
      PROVE  Max(q) \in 1..n /\ q \ {Max(q)} \in SUBSET (1..n)
  BY <1>1, <1>5, LastPosition
<1> HIDE DEF step, V, n
<1>6. h = Body(h)
  <2>1. ASSUME NEW q \in SUBSET (1..n), q # {}
        PROVE  h[q] = h[q \ {Max(q)}] + AmountOf(c, t.inputs[Max(q)])
    BY <1>2, <1>4, <1>5, <2>1 DEF IsFold
  <2> QED
    BY <1>1, <1>4, <2>1 DEF IsFold
<1>7. PICK iter : iter = Body(iter) /\ InputSum(t, c) = iter[DOMAIN t.inputs]
  <2> DEFINE it == CHOOSE f : f = Body(f)
  <2>1. it = Body(it)
    BY <1>6
  <2>2. InputSum(t, c) = it[DOMAIN t.inputs]
    BY DEF InputSum, AmountOf, SumAt, FoldLeft, MapThenFoldSet
  <2> HIDE DEF it
  <2> QED
    BY <2>1, <2>2
<1>8. FoldsAs(V, 0, step, n, iter)
  <2>1. \A q \in SUBSET (1..n) : iter[q] = IF q = {} THEN 0
                         ELSE iter[q \ {Max(q)}] + AmountOf(c, t.inputs[Max(q)])
    BY <1>1, <1>7
  <2> QED
    BY <1>2, <1>5, <2>1 DEF FoldsAs
<1>9. PICK g : IsLoop(V, 0, step, n, g) /\ g[n] = iter[DOMAIN t.inputs]
  <2>1. LoopEnds(V, 0, step, n, iter[DOMAIN t.inputs])
    BY <1>1, <1>3, <1>8, FoldRounds
  <2> QED
    BY <2>1 DEF LoopEnds
<1>10. ASSUME NEW k \in 1..n PROVE g[k] = g[k - 1] + AmountOf(c, t.inputs[k])
  <2>1. k - 1 \in 0..n
    BY <1>1
  <2> QED
    BY <1>2, <1>9, <2>1 DEF IsLoop
<1> QED
  BY <1>1, <1>7, <1>9, <1>10 DEF IsLoop, V, n

\* Worth is a number.
LEMMA WorthIsInt ==
  ASSUME NEW S, Amounting(S), NEW u \in Seq(S)
  PROVE  Worth(u) \in Int
<1>1. PICK g \in [0..Len(u) -> Int] : Worth(u) = g[Len(u)]
  BY WorthRounds
<1>2. Len(u) \in 0..Len(u)
  OBVIOUS
<1> QED
  BY <1>1, <1>2

\* The outputs of t have amounts.
LEMMA OutputsAmount ==
  ASSUME NEW S, Amounting(S), NEW t, OutputsIn(t, S)
  PROVE  \A i \in DOMAIN t.outputs : t.outputs[i].amount \in Int
<1> TAKE i \in DOMAIN t.outputs
<1>1. UnspentOutput(t, i) \in S /\ UnspentOutput(t, i).output = t.outputs[i]
  BY DEF OutputsIn, UnspentOutput
<1> QED
  BY <1>1 DEF Amounting

\* update first adds what the outputs are worth.
LEMMA WorthWith ==
  ASSUME NEW S, Amounting(S), NEW u \in Seq(S), NEW t, TxOK(t), OutputsIn(t, S)
  PROVE  /\ TotalAmount(t.outputs) \in Int
         /\ Worth(WithOutputs(u, t)) = Worth(u) + TotalAmount(t.outputs)
<1>1. PICK w : w = WithOutputs(u, t)
  OBVIOUS
<1>2. PICK l \in Nat : l = Len(u)
  OBVIOUS
<1>3. PICK m \in Nat : m = Len(t.outputs) /\ DOMAIN t.outputs = 1..m
  BY DEF TxOK, IsList
<1>4. /\ w \in Seq(S) /\ Len(w) = l + m
      /\ \A i \in 1..l : w[i] = u[i]
      /\ \A i \in 1..m : w[l + i] = UnspentOutput(t, i)
  <2>1. /\ WithOutputs(u, t) \in Seq(S)
        /\ Len(WithOutputs(u, t)) = Len(u) + Len(t.outputs)
        /\ \A i \in 1..Len(u) : WithOutputs(u, t)[i] = u[i]
        /\ \A i \in 1..Len(t.outputs) :
             WithOutputs(u, t)[Len(u) + i] = UnspentOutput(t, i)
    <3>1. IsList(t.outputs)
      BY DEF TxOK
    <3> QED
      BY <3>1, WithOutputsIs, SMTT(30)
  <2> QED
    BY <1>1, <1>2, <1>3, <2>1
<1>5. PICK gw \in [0..(l + m) -> Int] :
        /\ gw[0] = 0 /\ Worth(w) = gw[l + m]
        /\ \A k \in 1..(l + m) : gw[k] = gw[k - 1] + w[k].output.amount
  BY <1>4, WorthRounds
<1>6. PICK gu \in [0..l -> Int] :
        /\ gu[0] = 0 /\ Worth(u) = gu[l]
        /\ \A k \in 1..l : gu[k] = gu[k - 1] + u[k].output.amount
  BY <1>2, WorthRounds
<1>7. PICK gt \in [0..m -> Int] :
        /\ gt[0] = 0 /\ TotalAmount(t.outputs) = gt[m]
        /\ \A k \in 1..m : gt[k] = gt[k - 1] + t.outputs[k].amount
  <2>1. \A i \in DOMAIN t.outputs : t.outputs[i].amount \in Int
    BY OutputsAmount
  <2>2. PICK s : s = t.outputs
    OBVIOUS
  <2>3. IsList(s) /\ \A i \in DOMAIN s : s[i].amount \in Int
    BY <2>1, <2>2 DEF TxOK
  <2> QED
    BY <1>3, <2>2, <2>3, TotalRounds
<1> DEFINE D == {k \in Nat : k <= l => gw[k] = gu[k]}
           E == {k \in Nat : k <= m => gw[l + k] = gu[l] + gt[k]}
<1>8. gw[l] = gu[l]
  <2>1. 0 \in D
    BY <1>5, <1>6
  <2>2. ASSUME NEW k \in Nat, k \in D PROVE k + 1 \in D
    <3> SUFFICES ASSUME k + 1 <= l PROVE gw[k + 1] = gu[k + 1]
      BY <2>2
    <3>1. k + 1 \in 1..l /\ k + 1 \in 1..(l + m) /\ (k + 1) - 1 = k /\ k <= l
      OBVIOUS
    <3>2. gw[k + 1] = gw[k] + w[k + 1].output.amount
          /\ gu[k + 1] = gu[k] + u[k + 1].output.amount
      BY <1>5, <1>6, <3>1
    <3> QED
      BY <1>4, <2>2, <3>1, <3>2
  <2> HIDE DEF D
  <2>3. l \in D
    BY <2>1, <2>2, SetInduction
  <2> QED
    BY <2>3 DEF D
<1>9. gw[l + m] = gu[l] + gt[m]
  <2>1. 0 \in E
    <3>1. l + 0 = l /\ gu[l] \in Int /\ gu[l] + 0 = gu[l]
      BY <1>6
    <3> QED
      BY <1>7, <1>8, <3>1
  <2>2. ASSUME NEW k \in Nat, k \in E PROVE k + 1 \in E
    <3> SUFFICES ASSUME k + 1 <= m PROVE gw[l + (k + 1)] = gu[l] + gt[k + 1]
      BY <2>2
    <3>1. /\ k + 1 \in 1..m /\ l + (k + 1) \in 1..(l + m) /\ (k + 1) - 1 = k /\ k <= m
          /\ (l + (k + 1)) - 1 = l + k /\ k \in 0..m /\ l \in 0..l
      OBVIOUS
    <3>2. gw[l + (k + 1)] = gw[l + k] + w[l + (k + 1)].output.amount
      BY <1>5, <3>1
    <3>3. gt[k + 1] = gt[k] + t.outputs[k + 1].amount
      BY <1>7, <3>1
    <3>4. w[l + (k + 1)].output.amount = t.outputs[k + 1].amount
      <4>1. w[l + (k + 1)] = UnspentOutput(t, k + 1)
        BY <1>4, <3>1
      <4>2. UnspentOutput(t, k + 1).output = t.outputs[k + 1]
        BY DEF UnspentOutput
      <4> QED
        BY <4>1, <4>2
    <3>5. gw[l + k] = gu[l] + gt[k]
      BY <2>2, <3>1
    <3>6. t.outputs[k + 1].amount \in Int /\ gt[k] \in Int /\ gu[l] \in Int
      BY <1>3, <1>6, <1>7, <3>1, OutputsAmount
    <3>7. PICK x \in Int : x = t.outputs[k + 1].amount
      BY <3>6
    <3>8. gw[l + (k + 1)] = (gu[l] + gt[k]) + x /\ gt[k + 1] = gt[k] + x
      BY <3>2, <3>3, <3>4, <3>5, <3>7
    <3>9. (gu[l] + gt[k]) + x = gu[l] + (gt[k] + x)
      BY <3>6
    <3> QED
      BY <3>8, <3>9
  <2> HIDE DEF E
  <2>3. m \in E
    BY <2>1, <2>2, SetInduction
  <2> QED
    BY <2>3 DEF E
<1>10. TotalAmount(t.outputs) \in Int
  <2>1. m \in 0..m
    OBVIOUS
  <2> QED
    BY <1>7, <2>1
<1> QED
  BY <1>1, <1>5, <1>6, <1>7, <1>9, <1>10

\* Where the elements of a list come from when the one at position i is gone.
Shift(i, j) == IF j < i THEN j ELSE j + 1

\* Increasing positions that leave out just i of n are these.
LEMMA LeavingOut ==
  ASSUME NEW n \in Nat, NEW i \in 1..n, NEW m \in Nat, NEW f \in [1..m -> 1..n],
         \A j, k \in 1..m : j < k => f[j] < f[k],
         \A y \in 1..n : y # i <=> \E j \in 1..m : f[j] = y
  PROVE  m = n - 1 /\ \A j \in 1..m : f[j] = Shift(i, j)
<1> DEFINE D == {k \in Nat : \A j \in 1..m : j <= k => f[j] = Shift(i, j)}
<1>1. 0 \in D
  OBVIOUS
<1>2. ASSUME NEW k \in Nat, k \in D PROVE k + 1 \in D
  <2> SUFFICES ASSUME k + 1 \in 1..m PROVE f[k + 1] = Shift(i, k + 1)
    <3>1. ASSUME k + 1 \in 1..m => f[k + 1] = Shift(i, k + 1), NEW j \in 1..m, j <= k + 1
          PROVE  f[j] = Shift(i, j)
      <4>1. j <= k \/ j = k + 1
        BY <3>1
      <4> QED
        BY <1>2, <3>1, <4>1
    <3> QED
      BY <3>1
  <2>1. PICK y : y = Shift(i, k + 1)
    OBVIOUS
  <2>2. y \in Nat \ {0} /\ y # i
    BY <2>1 DEF Shift
  <2>3. f[k + 1] \in 1..n /\ f[k + 1] # i
    OBVIOUS
  <2>4. ASSUME NEW j \in 1..k PROVE j \in 1..m /\ f[j] = Shift(i, j)
    <3>1. j \in 1..m /\ j <= k
      OBVIOUS
    <3> QED
      BY <1>2, <3>1
  <2>5. f[k + 1] >= y
    <3>1. CASE k = 0
      BY <2>1, <2>3, <3>1 DEF Shift
    <3>2. CASE k # 0
      <4>1. k \in 1..k /\ k < k + 1
        BY <3>2
      <4>2. f[k] < f[k + 1] /\ f[k] = Shift(i, k)
        BY <2>4, <4>1
      <4> QED
        BY <2>1, <2>3, <4>2 DEF Shift
    <3> QED
      BY <3>1, <3>2
  <2>6. CASE f[k + 1] > y
    <3>1. y \in 1..n
      BY <2>2, <2>3, <2>6
    <3>2. PICK j \in 1..m : f[j] = y
      BY <2>2, <3>1
    <3>3. CASE j <= k
      <4>1. j \in 1..k
        BY <3>3
      <4>2. y = Shift(i, j)
        BY <2>4, <3>2, <4>1
      <4> QED
        BY <2>1, <3>3, <4>2 DEF Shift
    <3>4. CASE j = k + 1
      BY <2>2, <2>3, <2>6, <3>2, <3>4
    <3>5. CASE j > k + 1
      <4>1. f[k + 1] < f[j]
        BY <3>5
      <4> QED
        BY <2>2, <2>3, <2>6, <3>2, <4>1
    <3> QED
      BY <3>3, <3>4, <3>5
  <2> QED
    BY <2>1, <2>2, <2>3, <2>5, <2>6
<1> HIDE DEF D
<1>3. m \in D
  BY <1>1, <1>2, SetInduction
<1>4. \A j \in 1..m : f[j] = Shift(i, j)
  BY <1>3 DEF D
<1>5. ~(m > n - 1)
  <2> SUFFICES ASSUME m > n - 1 PROVE FALSE
    OBVIOUS
  <2>1. n \in 1..m
    OBVIOUS
  <2>2. f[n] = n + 1 /\ f[n] \in 1..n
    BY <1>4, <2>1 DEF Shift
  <2> QED
    BY <2>2
<1>6. ~(m < n - 1)
  <2> SUFFICES ASSUME m < n - 1 PROVE FALSE
    OBVIOUS
  <2>1. PICK y : y = Shift(i, m + 1)
    OBVIOUS
  <2>2. y \in 1..n /\ y # i
    BY <2>1 DEF Shift
  <2>3. PICK j \in 1..m : f[j] = y
    BY <2>2
  <2>4. Shift(i, j) = y
    BY <1>4, <2>3
  <2> QED
    BY <2>1, <2>4 DEF Shift
<1> QED
  BY <1>4, <1>5, <1>6

\* Without its element at position i, a list is worth that much less.
LEMMA WorthWithout ==
  ASSUME NEW S, Amounting(S), NEW s \in Seq(S), NEW r \in Seq(S), NEW i \in 1..Len(s),
         Len(r) = Len(s) - 1,
         \A j \in 1..Len(r) : (j < i => r[j] = s[j]) /\ (j >= i => r[j] = s[j + 1])
  PROVE  Worth(r) = Worth(s) - s[i].output.amount
<1>1. PICK m \in Nat, l \in Nat : m = Len(r) /\ l = Len(s) /\ l = m + 1 /\ i \in 1..l
  OBVIOUS
<1>2. PICK gs \in [0..l -> Int] :
        /\ gs[0] = 0 /\ Worth(s) = gs[l]
        /\ \A k \in 1..l : gs[k] = gs[k - 1] + s[k].output.amount
  <2>1. l = Len(s)
    BY <1>1
  <2> QED
    BY <2>1, WorthRounds
<1>3. PICK gr \in [0..m -> Int] :
        /\ gr[0] = 0 /\ Worth(r) = gr[m]
        /\ \A k \in 1..m : gr[k] = gr[k - 1] + r[k].output.amount
  BY <1>1, WorthRounds
<1>4. PICK x \in Int : x = s[i].output.amount
  <2>1. s[i] \in S
    OBVIOUS
  <2> QED
    BY <2>1 DEF Amounting
<1>5. gs[i] = gs[i - 1] + x
  BY <1>1, <1>2, <1>4
<1> DEFINE P(k) == gr[k] = IF k < i THEN gs[k] ELSE gs[k + 1] - x
           D == {k \in Nat : k <= m => P(k)}
<1>6. 0 \in D
  BY <1>1, <1>2, <1>3
<1>7. ASSUME NEW k \in Nat, k \in D PROVE k + 1 \in D
  <2> SUFFICES ASSUME k + 1 <= m PROVE P(k + 1)
    BY <1>7
  <2>1. k + 1 \in 1..m /\ (k + 1) - 1 = k /\ P(k) /\ k \in 0..m /\ gr[k] \in Int
    BY <1>7
  <2>2. gr[k + 1] = gr[k] + r[k + 1].output.amount
    BY <1>3, <2>1
  <2>3. CASE k + 1 < i
    <3>1. k + 1 \in 1..l /\ r[k + 1] = s[k + 1]
      <4>1. k + 1 \in 1..l /\ k + 1 \in 1..Len(r)
        BY <1>1, <2>1
      <4> QED
        BY <2>3, <4>1
    <3>2. gs[k + 1] = gs[k] + s[k + 1].output.amount
      BY <1>2, <2>1, <3>1
    <3> QED
      BY <2>1, <2>2, <2>3, <3>1, <3>2
  <2>4. CASE ~(k + 1 < i)
    <3>1. k + 2 \in 1..l /\ r[k + 1] = s[k + 2] /\ (k + 2) - 1 = k + 1
          /\ (k + 1) + 1 = k + 2
      <4>1. (k + 1) + 1 = k + 2 /\ k + 1 >= i
        BY <1>1, <2>4
      <4>2. r[k + 1] = s[(k + 1) + 1]
        BY <1>1, <2>1, <4>1
      <4> QED
        BY <1>1, <2>1, <4>1, <4>2
    <3>2. gs[k + 2] = gs[k + 1] + s[k + 2].output.amount
      BY <1>2, <3>1
    <3>3. gr[k] = gs[k + 1] - x
      <4>1. CASE k + 1 = i
        <5>1. k < i /\ i - 1 = k /\ k \in 0..l
          BY <1>1, <2>1, <4>1
        <5>2. gs[k + 1] = gs[k] + x /\ gs[k] \in Int /\ gr[k] = gs[k]
          BY <1>5, <2>1, <4>1, <5>1
        <5> QED
          BY <5>2
      <4>2. CASE k + 1 # i
        BY <1>1, <2>1, <2>4, <4>2
      <4> QED
        BY <4>1, <4>2
    <3>4. PICK y \in Int : y = s[k + 2].output.amount
      <4>1. s[k + 2] \in S
        BY <1>1, <3>1
      <4> QED
        BY <4>1 DEF Amounting
    <3>5. gr[k + 1] = (gs[k + 1] - x) + y /\ gs[k + 2] = gs[k + 1] + y /\ gs[k + 1] \in Int
      <4>1. gs[k + 1] \in Int
        BY <1>1, <2>1
      <4> QED
        BY <2>2, <3>1, <3>2, <3>3, <3>4, <4>1
    <3>6. gr[k + 1] = gs[k + 2] - x
      <4>1. PICK z \in Int : z = gs[k + 1]
        BY <3>5
      <4>2. gr[k + 1] = (z - x) + y /\ gs[k + 2] = z + y
        BY <3>5, <4>1
      <4>3. (z - x) + y = (z + y) - x
        OBVIOUS
      <4> QED
        BY <4>2, <4>3
    <3> QED
      BY <2>4, <3>1, <3>6
  <2> QED
    BY <2>3, <2>4
<1> HIDE DEF D
<1>8. m \in D
  BY <1>6, <1>7, SetInduction
<1>9. P(m)
  BY <1>8 DEF D
<1>10. CASE m < i
  <2>1. i = l /\ i - 1 = m /\ m \in 0..l
    BY <1>1, <1>10
  <2>2. gr[m] = gs[m] /\ gs[l] = gs[m] + x /\ gs[m] \in Int
    BY <1>5, <1>9, <1>10, <2>1
  <2>3. gr[m] = gs[l] - x
    BY <2>2
  <2> QED
    BY <1>2, <1>3, <1>4, <2>3
<1>11. CASE ~(m < i)
  BY <1>1, <1>2, <1>3, <1>4, <1>9, <1>11
<1> QED
  BY <1>10, <1>11

\* An input takes what it refers to from the list.
LEMMA SpendWorth ==
  ASSUME NEW S, Amounting(S), NEW s \in Seq(S), KeysDiffer(s), NEW x,
         NEW i \in DOMAIN s, Refers(x, s[i])
  PROVE  Worth(Spend(s, x)) = Worth(s) - s[i].output.amount
<1> DEFINE gone == {o \in ToSet(s) : Refers(x, o)}
<1>1. PICK r : r = Spend(s, x)
  OBVIOUS
<1>2. PICK n \in Nat : n = Len(s) /\ DOMAIN s = 1..n
  OBVIOUS
<1>3. r \in Seq(S) /\ Thinned(r, s)
  BY <1>1, EraseOK DEF Spend
<1>4. \A o : o \in ToSet(r) <=> o \in ToSet(s) /\ ~Refers(x, o)
  BY <1>1, SpendOK
<1>5. PICK m \in Nat : m = Len(r) /\ DOMAIN r = 1..m
  BY <1>3
<1>6. PICK f \in [1..m -> 1..n] :
        /\ \A j, k \in 1..m : j < k => f[j] < f[k]
        /\ \A j \in 1..m : r[j] = s[f[j]]
  BY <1>2, <1>3, <1>5 DEF Thinned, ThinnedTo
<1>7. ASSUME NEW y \in 1..n, NEW z \in 1..n, s[y] = s[z] PROVE y = z
  BY <1>2, <1>7 DEF KeysDiffer
<1>8. ASSUME NEW y \in 1..n PROVE Refers(x, s[y]) <=> y = i
  BY <1>2 DEF KeysDiffer, Refers
<1>9. ASSUME NEW y \in 1..n PROVE y # i <=> \E j \in 1..m : f[j] = y
  <2>1. s[y] \in ToSet(s)
    BY <1>2 DEF ToSet
  <2>2. ASSUME y # i PROVE \E j \in 1..m : f[j] = y
    <3>1. s[y] \in ToSet(r)
      BY <1>4, <1>8, <2>1, <2>2
    <3>2. PICK j \in 1..m : s[y] = r[j]
      BY <1>5, <3>1 DEF ToSet
    <3>3. f[j] \in 1..n /\ s[y] = s[f[j]]
      BY <1>6, <3>2
    <3>4. f[j] = y
      BY <1>7, <3>3
    <3> QED
      BY <3>4
  <2>3. ASSUME NEW j \in 1..m, f[j] = y PROVE y # i
    <3>1. r[j] = s[y] /\ r[j] \in ToSet(r)
      BY <1>5, <1>6, <2>3 DEF ToSet
    <3> QED
      BY <1>4, <1>8, <3>1
  <2> QED
    BY <2>2, <2>3
<1>10. m = n - 1 /\ \A j \in 1..m : f[j] = Shift(i, j)
  <2>1. i \in 1..n /\ \A j, k \in 1..m : j < k => f[j] < f[k]
    BY <1>2, <1>6
  <2> QED
    BY <1>9, <2>1, LeavingOut
<1>11. /\ Len(r) = Len(s) - 1
       /\ \A j \in 1..Len(r) : (j < i => r[j] = s[j]) /\ (j >= i => r[j] = s[j + 1])
  BY <1>2, <1>5, <1>6, <1>10 DEF Shift
<1>12. i \in 1..Len(s)
  BY <1>2
<1> QED
  BY <1>1, <1>3, <1>11, <1>12, WorthWithout

\* The outputs of t have amounts, and its inputs are a hash and an index each.
IsInput(x) == \E h, i : x = [hash |-> h, index |-> i]

Plain(t) ==
  /\ \A i \in DOMAIN t.outputs : t.outputs[i].amount \in Int
  /\ \A k \in DOMAIN t.inputs : IsInput(t.inputs[k])

\* A list of outputs that transactions T have created, once each.
Backed(T, c) ==
  KeysDiffer(c) /\ ValuedList(c) /\ \A o \in ToSet(c) : CreatedBy(T, o)

\* According to c, transaction t passes on what it takes.
Balanced(t, c) ==
  /\ \A k \in DOMAIN t.inputs : Matching(c, t.inputs[k]) # {}
  /\ InputSum(t, c) = TotalAmount(t.outputs)

\* The inputs of t refer to outputs in u.
FoundIn(t, u) == \A k \in DOMAIN t.inputs : \E o \in ToSet(u) : Refers(t.inputs[k], o)

\* An input is determined by what it refers to.
LEMMA SameInput ==
  ASSUME NEW x, NEW y, IsInput(x), IsInput(y), NEW o, Refers(x, o), Refers(y, o)
  PROVE  x = y
<1>1. PICK h, k : x = [hash |-> h, index |-> k]
  BY DEF IsInput
<1>2. PICK f, l : y = [hash |-> f, index |-> l]
  BY DEF IsInput
<1>3. x.hash = h /\ x.index = k /\ y.hash = f /\ y.index = l
  BY <1>1, <1>2
<1>4. h = f /\ k = l
  BY <1>3 DEF Refers
<1> QED
  BY <1>1, <1>2, <1>4

\* An output is determined by its transaction's hash and its index.
LEMMA SameOutput ==
  ASSUME NEW T, \A q \in T : TxOK(q), NEW o, NEW r, CreatedBy(T, o), CreatedBy(T, r),
         o.hash = r.hash, o.index = r.index
  PROVE  o = r
<1>1. PICK t \in T : \E i \in DOMAIN t.outputs : o = UnspentOutput(t, i)
  BY DEF CreatedBy
<1>2. PICK i \in DOMAIN t.outputs : o = UnspentOutput(t, i)
  BY <1>1
<1>3. PICK q \in T : \E j \in DOMAIN q.outputs : r = UnspentOutput(q, j)
  BY DEF CreatedBy
<1>4. PICK j \in DOMAIN q.outputs : r = UnspentOutput(q, j)
  BY <1>3
<1>5. i \in Nat /\ j \in Nat
  BY DEF TxOK, IsList
<1>6. o.hash = Hash(t) /\ o.index = i - 1 /\ r.hash = Hash(q) /\ r.index = j - 1
  BY <1>2, <1>4 DEF UnspentOutput
<1>7. i = j
  <2>1. i - 1 = j - 1
    BY <1>6
  <2> QED
    BY <1>5, <2>1
<1>8. t.outputs = q.outputs /\ Hash(t) = Hash(q)
  <2>1. Hash(t) = Hash(q)
    BY <1>6
  <2> QED
    BY <2>1, SameHash
<1> QED
  BY <1>2, <1>4, <1>7, <1>8 DEF UnspentOutput

\* A list of outputs, once each, has one for each input that refers to any.
LEMMA BackedFinds ==
  ASSUME NEW T, NEW c, Backed(T, c), NEW t, Balanced(t, c)
  PROVE  Finds(c, t)
<1>1. PICK S : Amounting(S) /\ c \in Seq(S)
  BY DEF Backed, ValuedList
<1>2. ASSUME NEW k \in DOMAIN t.inputs
      PROVE  \E i \in DOMAIN c : Matching(c, t.inputs[k]) = {i} /\ c[i].output.amount \in Int
  <2>1. PICK i \in DOMAIN c : i \in Matching(c, t.inputs[k])
    BY DEF Balanced, Matching
  <2>2. Matching(c, t.inputs[k]) = {i}
    BY <2>1 DEF Matching, Refers, Backed, KeysDiffer
  <2>3. c[i].output.amount \in Int
    BY <1>1 DEF Amounting
  <2> QED
    BY <2>2, <2>3
<1> QED
  BY <1>2 DEF Finds

\* A transaction that is balanced, and names no output twice, changes nothing of
\* what the unspent outputs are worth: each output it takes is the one that it was
\* linked with.
LEMMA UpdateWorth ==
  ASSUME NEW S, Amounting(S), NEW u \in Seq(S), NEW t, TxOK(t), OutputsIn(t, S), Plain(t),
         NEW T, \A q \in T : TxOK(q), Exact(T, u), Fresh(T, t),
         NEW c, Backed(T, c), Balanced(t, c), IsInjective(t.inputs), FoundIn(t, u)
  PROVE  Worth(Update(u, t)) = Worth(u)
<1>1. PICK w : w = WithOutputs(u, t)
  OBVIOUS
<1>2. /\ w \in Seq(S) /\ KeysDiffer(w) /\ \A o \in ToSet(u) : o \in ToSet(w)
  BY <1>1, WithOutputsIs, WithOutputsDiffer DEF TxOK
<1>3. PICK n \in Nat : n = Len(t.inputs) /\ DOMAIN t.inputs = 1..n
  BY DEF TxOK, IsList
<1>4. PICK g \in [0..n -> Seq(S)] :
        /\ g[0] = w /\ Update(u, t) = g[n]
        /\ \A k \in 1..n : g[k] = Spend(g[k - 1], t.inputs[k])
  BY <1>1, <1>3, UpdateRounds
<1>5. Finds(c, t)
  BY BackedFinds
<1>6. PICK gi \in [0..n -> Int] :
        /\ gi[0] = 0 /\ InputSum(t, c) = gi[n]
        /\ \A k \in 1..n : gi[k] = gi[k - 1] + AmountOf(c, t.inputs[k])
  <2>1. IsList(t.inputs)
    BY DEF TxOK
  <2> QED
    BY <1>3, <1>5, <2>1, InputRounds
<1>7. PICK W \in Int : W = Worth(w)
  BY <1>2, WorthIsInt
<1> DEFINE P(k) == /\ KeysDiffer(g[k])
                   /\ \A o : o \in ToSet(g[k]) <=>
                        o \in ToSet(w) /\ ~\E j \in 1..k : Refers(t.inputs[j], o)
                   /\ Worth(g[k]) = W - gi[k]
           D == {k \in Nat : k <= n => P(k)}
<1>8. 0 \in D
  <2>1. 1..0 = {} /\ W - 0 = W
    OBVIOUS
  <2> QED
    BY <1>2, <1>4, <1>6, <1>7, <2>1
<1>9. ASSUME NEW k \in Nat, k \in D PROVE k + 1 \in D
  <2> SUFFICES ASSUME k + 1 <= n PROVE P(k + 1)
    BY <1>9
  <2>1. k + 1 \in 1..n /\ (k + 1) - 1 = k /\ k \in 0..n /\ k <= n
    OBVIOUS
  <2>2. PICK v \in Seq(S) : v = g[k]
    BY <1>4, <2>1
  <2>3. PICK x : x = t.inputs[k + 1]
    OBVIOUS
  <2>4. g[k + 1] = Spend(v, x) /\ gi[k + 1] = gi[k] + AmountOf(c, x) /\ k + 1 \in DOMAIN t.inputs
    BY <1>3, <1>4, <1>6, <2>1, <2>2, <2>3
  <2>5. P(k)
    BY <1>9, <2>1
  <2>6. /\ KeysDiffer(g[k + 1])
        /\ \A o : o \in ToSet(g[k + 1]) <=> o \in ToSet(v) /\ ~Refers(x, o)
    BY <2>2, <2>4, <2>5, SpendOK
  <2>7. \A j : j \in 1..(k + 1) <=> (j \in 1..k \/ j = k + 1)
    BY NextRound
  <2>8. PICK o \in ToSet(u) : Refers(x, o)
    BY <2>3, <2>4 DEF FoundIn
  <2>9. o \in ToSet(v)
    <3>1. ASSUME NEW j \in 1..k, Refers(t.inputs[j], o) PROVE FALSE
      <4>1. j \in DOMAIN t.inputs /\ j # k + 1
        BY <1>3, <2>1
      <4>2. IsInput(t.inputs[j]) /\ IsInput(x)
        BY <2>3, <2>4, <4>1 DEF Plain
      <4>3. t.inputs[j] = t.inputs[k + 1]
        BY <2>3, <2>8, <3>1, <4>2, SameInput
      <4> QED
        BY <2>4, <4>1, <4>3 DEF IsInjective
    <3> QED
      BY <1>2, <2>2, <2>5, <2>8, <3>1
  <2>10. PICK i \in DOMAIN v : v[i] = o
    BY <2>9 DEF ToSet
  <2>11. Worth(g[k + 1]) = Worth(v) - o.output.amount
    <3>1. KeysDiffer(v) /\ Refers(x, v[i])
      BY <2>2, <2>5, <2>8, <2>10
    <3> QED
      BY <2>4, <2>10, <3>1, SpendWorth
  <2>12. PICK d \in DOMAIN c : Matching(c, x) = {d} /\ c[d].output.amount \in Int
    BY <1>5, <2>3, <2>4 DEF Finds
  <2>13. AmountOf(c, x) = c[d].output.amount
    BY <2>12, SumOfOne DEF AmountOf
  <2>14. c[d] = o
    <3>1. CreatedBy(T, o) /\ CreatedBy(T, c[d])
      BY <2>8 DEF Exact, Backed, ToSet
    <3>2. Refers(x, c[d])
      BY <2>12 DEF Matching
    <3> QED
      BY <2>8, <3>1, <3>2, SameOutput DEF Refers
  <2>15. Worth(g[k + 1]) = W - gi[k + 1]
    <3>1. PICK y \in Int : y = o.output.amount
      BY <2>12, <2>14
    <3>2. Worth(v) = W - gi[k] /\ gi[k] \in Int
      BY <2>1, <2>2, <2>5
    <3>3. Worth(g[k + 1]) = (W - gi[k]) - y /\ gi[k + 1] = gi[k] + y
      BY <2>4, <2>11, <2>13, <2>14, <3>1, <3>2
    <3> QED
      BY <3>2, <3>3
  <2> QED
    BY <2>2, <2>3, <2>5, <2>6, <2>7, <2>15
<1> HIDE DEF D
<1>10. n \in D
  BY <1>8, <1>9, SetInduction
<1>11. Worth(g[n]) = W - gi[n]
  BY <1>10 DEF D
<1>12. PICK y \in Int : y = TotalAmount(t.outputs)
  BY WorthWith
<1>13. W = Worth(u) + y /\ Worth(u) \in Int
  BY <1>1, <1>7, <1>12, WorthWith, WorthIsInt
<1>14. gi[n] = y
  BY <1>6, <1>12 DEF Balanced
<1> QED
  BY <1>4, <1>11, <1>13, <1>14

\* A reward adds its amount.
LEMMA RewardWorth ==
  ASSUME NEW S, Amounting(S), NEW u \in Seq(S), NEW t, TxOK(t), OutputsIn(t, S),
         ValidReward(t)
  PROVE  Worth(Update(u, t)) = Worth(u) + RewardAmount
<1>1. t.inputs = <<>> /\ Len(t.inputs) = 0 /\ 1..0 = {}
  BY DEF ValidReward
<1>2. Update(u, t) = WithOutputs(u, t)
  <2>1. PICK g \in [0..Len(t.inputs) -> Seq(S)] :
          g[0] = WithOutputs(u, t) /\ Update(u, t) = g[Len(t.inputs)]
    BY UpdateRounds
  <2> QED
    BY <1>1, <2>1
<1>3. TotalAmount(t.outputs) = RewardAmount
  <2>1. PICK s : s = t.outputs
    OBVIOUS
  <2>2. IsList(s) /\ Len(s) = 1 /\ s[1].amount = RewardAmount
        /\ \A i \in DOMAIN s : s[i].amount \in Int
    BY <2>1, OutputsAmount DEF TxOK, ValidReward
  <2>3. PICK g \in [0..Len(s) -> Int] :
          /\ g[0] = 0 /\ TotalAmount(s) = g[Len(s)]
          /\ \A k \in 1..Len(s) : g[k] = g[k - 1] + s[k].amount
    BY <2>2, TotalRounds
  <2>4. 1 \in 1..Len(s) /\ 1 - 1 = 0
    BY <2>2
  <2>5. TotalAmount(s) = 0 + RewardAmount
    BY <2>2, <2>3, <2>4
  <2> QED
    BY <2>1, <2>5, TransactionAssumption
<1> QED
  BY <1>2, <1>3, WorthWith

\* A set for the unspent outputs and those of a block, all of them with amounts.
LEMMA ValuedOutputs ==
  ASSUME NEW u, ValuedList(u), NEW ts, \A k \in DOMAIN ts : Plain(ts[k])
  PROVE  \E S : Amounting(S) /\ u \in Seq(S) /\ \A k \in DOMAIN ts : OutputsIn(ts[k], S)
<1>1. PICK R : Amounting(R) /\ u \in Seq(R)
  BY DEF ValuedList
<1> DEFINE O(k) == {UnspentOutput(ts[k], i) : i \in DOMAIN ts[k].outputs}
           S == R \union UNION {O(k) : k \in DOMAIN ts}
<1>2. u \in Seq(S)
  BY <1>1
<1>3. \A k \in DOMAIN ts : OutputsIn(ts[k], S)
  BY DEF OutputsIn
<1>4. ASSUME NEW o \in S PROVE o.output.amount \in Int
  <2>1. CASE o \in R
    BY <1>1, <2>1 DEF Amounting
  <2>2. CASE o \notin R
    <3>1. PICK k \in DOMAIN ts : o \in O(k)
      BY <2>2
    <3>2. PICK i \in DOMAIN ts[k].outputs : o = UnspentOutput(ts[k], i)
      BY <3>1
    <3>3. o.output = ts[k].outputs[i]
      BY <3>2 DEF UnspentOutput
    <3> QED
      BY <3>2, <3>3 DEF Plain
  <2> QED
    BY <2>1, <2>2
<1> HIDE DEF S
<1>5. Amounting(S)
  BY <1>4 DEF Amounting
<1> QED
  BY <1>2, <1>3, <1>5

\* The loop over the transactions of a block keeps amounts.
LEMMA BlockValued ==
  ASSUME NEW u, ValuedList(u), NEW ts, BlockOK(ts), \A k \in DOMAIN ts : Plain(ts[k])
  PROVE  ValuedList(UpdateAll(u, ts))
<1>1. PICK S : Amounting(S) /\ u \in Seq(S) /\ \A k \in DOMAIN ts : OutputsIn(ts[k], S)
  BY ValuedOutputs
<1>2. IsList(ts) /\ \A k \in DOMAIN ts : TxOK(ts[k]) /\ OutputsIn(ts[k], S)
  BY <1>1 DEF BlockOK
<1>3. UpdateAll(u, ts) \in Seq(S)
  BY <1>1, <1>2, UpdateAllExact
<1> QED
  BY <1>1, <1>3 DEF ValuedList

\* Transaction t takes outputs of u, none twice, and passes on what they are worth
\* according to a list of outputs of the transactions T.
Pays(T, u, t) ==
  IsInjective(t.inputs) /\ FoundIn(t, u) /\ \E c : Backed(T, c) /\ Balanced(t, c)

\* What transactions created, more of them have created.
LEMMA CreatedMore ==
  ASSUME NEW T, NEW R
  PROVE  /\ \A o : CreatedBy(T, o) => CreatedBy(T \union R, o)
         /\ \A c : Backed(T, c) => Backed(T \union R, c)
<1>1. \A o : CreatedBy(T, o) => CreatedBy(T \union R, o)
  BY DEF CreatedBy
<1> QED
  BY <1>1 DEF Backed

\* A transaction of a block that can pay with what was unspent before the block can
\* do so after other transactions of the block.
LEMMA PaysLater ==
  ASSUME NEW ts, BlockOK(ts), \A k \in DOMAIN ts : Plain(ts[k]), NEW T, NEW u, Exact(T, u),
         NEW k \in Nat, k + 1 \in DOMAIN ts, Pays(T, u, ts[k + 1]),
         NEW v, Exact(T \union UpTo(ts, k), v)
  PROVE  Pays(T \union UpTo(ts, k), v, ts[k + 1])
<1>1. PICK n \in Nat : DOMAIN ts = 1..n
  BY DEF BlockOK, IsList
<1>2. PICK t : t = ts[k + 1]
  OBVIOUS
<1>3. PICK R : R = UpTo(ts, k)
  OBVIOUS
<1>4. Plain(t) /\ Pays(T, u, t)
  BY <1>2
<1>5. ASSUME NEW i \in DOMAIN t.inputs PROVE \E o \in ToSet(v) : Refers(t.inputs[i], o)
  <2>1. PICK o \in ToSet(u) : Refers(t.inputs[i], o)
    BY <1>4 DEF Pays, FoundIn
  <2>2. CreatedBy(T \union R, o) /\ ~SpentBy(T, o)
    BY CreatedMore DEF Exact
  <2>3. ASSUME NEW q \in R PROVE ~SpentIn(q, o)
    <3>1. PICK j \in 1..k : q = ts[j]
      BY <1>3 DEF UpTo
    <3>2. j \in DOMAIN ts /\ j # k + 1
      BY <1>1
    <3>3. ASSUME NEW l \in DOMAIN q.inputs, Refers(q.inputs[l], o) PROVE FALSE
      <4>1. IsInput(q.inputs[l]) /\ IsInput(t.inputs[i])
        BY <1>4, <3>1, <3>2 DEF Plain
      <4>2. q.inputs[l] = t.inputs[i]
        BY <2>1, <3>3, <4>1, SameInput
      <4>3. SharesInput(q, t)
        BY <4>2 DEF SharesInput
      <4> QED
        BY <1>2, <3>1, <3>2, <4>3 DEF BlockOK
    <3> QED
      BY <3>3 DEF SpentIn
  <2>4. ~SpentBy(T \union R, o)
    BY <2>2, <2>3 DEF SpentBy
  <2>5. o \in ToSet(v)
    BY <1>3, <2>2, <2>4 DEF Exact
  <2> QED
    BY <2>1, <2>5
<1>6. PICK c : Backed(T, c) /\ Balanced(t, c)
  BY <1>4 DEF Pays
<1>7. Backed(T \union R, c)
  BY <1>6, CreatedMore
<1> QED
  BY <1>2, <1>3, <1>4, <1>5, <1>6, <1>7 DEF Pays, FoundIn

\* A block adds its reward to what the unspent outputs are worth.
LEMMA BlockWorth ==
  ASSUME NEW u, ValuedList(u), NEW ts, BlockOK(ts), ts # <<>>,
         \A k \in DOMAIN ts : Plain(ts[k]), ValidReward(ts[1]),
         NEW T, \A q \in T : TxOK(q), Exact(T, u),
         \A k \in DOMAIN ts : Fresh(T \union UpTo(ts, k - 1), ts[k]),
         \A k \in DOMAIN ts : k # 1 => Pays(T, u, ts[k])
  PROVE  Worth(UpdateAll(u, ts)) = Worth(u) + RewardAmount
<1>1. PICK S : Amounting(S) /\ u \in Seq(S) /\ \A k \in DOMAIN ts : OutputsIn(ts[k], S)
  BY ValuedOutputs
<1>2. PICK n \in Nat : n = Len(ts) /\ DOMAIN ts = 1..n
  BY DEF BlockOK, IsList
<1>3. n # 0
  BY <1>2 DEF BlockOK, IsList
<1>4. IsList(ts) /\ \A k \in DOMAIN ts : TxOK(ts[k]) /\ OutputsIn(ts[k], S)
  BY <1>1 DEF BlockOK
<1>5. PICK g \in [0..n -> Seq(S)] :
        /\ g[0] = u /\ UpdateAll(u, ts) = g[n]
        /\ \A k \in 1..n : g[k] = Update(g[k - 1], ts[k])
  <2>1. u \in Seq(S) /\ n = Len(ts)
    BY <1>1, <1>2
  <2> QED
    BY <1>4, <2>1, UpdateAllRounds, SMTT(30)
<1>6. PICK W : W = Worth(u) + RewardAmount
  OBVIOUS
<1> DEFINE P(k) == /\ Exact(T \union UpTo(ts, k), g[k])
                   /\ Worth(g[k]) = IF k = 0 THEN Worth(u) ELSE W
           D == {k \in Nat : k <= n => P(k)}
<1>7. 0 \in D
  <2>1. T \union UpTo(ts, 0) = T
    BY DEF UpTo
  <2> QED
    BY <1>5, <2>1
<1>8. ASSUME NEW k \in Nat, k \in D PROVE k + 1 \in D
  <2> SUFFICES ASSUME k + 1 <= n PROVE P(k + 1)
    BY <1>8
  <2>1. k + 1 \in 1..n /\ (k + 1) - 1 = k /\ k \in 0..n /\ k <= n /\ k + 1 # 0
    OBVIOUS
  <2>2. PICK v \in Seq(S) : v = g[k]
    BY <1>5, <2>1
  <2>3. PICK R : R = T \union UpTo(ts, k)
    OBVIOUS
  <2>4. PICK t : t = ts[k + 1]
    OBVIOUS
  <2>5. g[k + 1] = Update(v, t) /\ P(k) /\ Exact(R, v)
    BY <1>5, <1>8, <2>1, <2>2, <2>3, <2>4
  <2>6. Fresh(R, t) /\ TxOK(t) /\ OutputsIn(t, S) /\ Plain(t)
    BY <1>2, <1>4, <2>1, <2>3, <2>4
  <2>7. Exact(T \union UpTo(ts, k + 1), g[k + 1])
    <3>1. Exact(R \union {t}, g[k + 1])
      BY <2>5, <2>6, UpdateExact
    <3>2. R \union {t} = T \union UpTo(ts, k + 1)
      <4>1. \A j : j \in 1..(k + 1) <=> (j \in 1..k \/ j = k + 1)
        BY NextRound
      <4> QED
        BY <2>3, <2>4, <4>1 DEF UpTo
    <3> QED
      BY <3>1, <3>2
  <2>8. Worth(g[k + 1]) = W
    <3>1. CASE k = 0
      <4>1. ValidReward(t) /\ v = u
        BY <1>5, <2>2, <2>4, <3>1
      <4> QED
        BY <1>1, <1>6, <2>5, <2>6, <4>1, RewardWorth
    <3>2. CASE k # 0
      <4>1. k + 1 \in DOMAIN ts /\ k + 1 # 1
        BY <1>2, <2>1, <3>2
      <4>2. Pays(R, v, t)
        <5>1. Pays(T, u, ts[k + 1])
          BY <4>1
        <5>2. Exact(T \union UpTo(ts, k), v)
          BY <2>3, <2>5
        <5> QED
          BY <2>3, <2>4, <4>1, <5>1, <5>2, PaysLater
      <4>3. PICK c : Backed(R, c) /\ Balanced(t, c)
        BY <4>2 DEF Pays
      <4>4. \A q \in R : TxOK(q)
        <5>1. ASSUME NEW q \in UpTo(ts, k) PROVE TxOK(q)
          <6>1. PICK j \in 1..k : q = ts[j]
            BY DEF UpTo
          <6>2. j \in DOMAIN ts
            BY <1>2, <2>1
          <6> QED
            BY <1>4, <6>1, <6>2
        <5> QED
          BY <2>3, <5>1
      <4>5. IsInjective(t.inputs) /\ FoundIn(t, v)
        BY <4>2 DEF Pays
      <4>6. Worth(Update(v, t)) = Worth(v)
        BY <1>1, <2>5, <2>6, <4>3, <4>4, <4>5, UpdateWorth
      <4> QED
        BY <2>2, <2>5, <3>2, <4>6
    <3> QED
      BY <3>1, <3>2
  <2> QED
    BY <2>1, <2>7, <2>8
<1> HIDE DEF D
<1>9. n \in D
  BY <1>7, <1>8, SetInduction
<1>10. Worth(g[n]) = W
  BY <1>3, <1>9 DEF D
<1> QED
  BY <1>5, <1>6, <1>10

-----------------------------------------------------------------------------
(* Coins.                                                                   *)

\* One of the transactions ts has the output that x refers to.
Makes(ts, x) ==
  \E q \in ToSet(ts) : \E i \in DOMAIN q.outputs : Refers(x, UnspentOutput(q, i))

\* In the blocks bs, inputs refer to outputs of earlier blocks, and transactions of
\* different blocks share none.
OnceIn(ct, bs) ==
  \A i \in DOMAIN bs : \A t \in ToSet(ct[bs[i].hash]) :
    /\ \A k \in DOMAIN t.inputs :
         \E j \in DOMAIN bs : j < i /\ Makes(ct[bs[j].hash], t.inputs[k])
    /\ \A j \in DOMAIN bs : j # i => \A q \in ToSet(ct[bs[j].hash]) : ~SharesInput(t, q)

\* No transaction of T names an output twice.
Injective(T) == \A q \in T : IsInjective(q.inputs)

Conserved(ct, bs, u) ==
  OnceIn(ct, bs) /\ (Injective(TxsIn(ct, bs)) => Worth(u) = RewardAmount * Len(bs))

PlainBlock(ts) == ts # <<>> /\ \A k \in DOMAIN ts : Plain(ts[k])

\* The coins of a node.  The copies in the links of its pool are of outputs that
\* its chain has created, and unless prune has skipped one, the transactions of
\* the pool can still be paid for.
CoinsOK(n) ==
  /\ ValuedList(utxos[n])
  /\ \A x \in ToSet(pool[n]) : Plain(x.tx)
  /\ ~ahead[n] => \A x \in ToSet(pool[n]) : Backed(TxsOf(chain[n].blocks), x.unspent)
  /\ ~ahead[n] /\ ~skipped[n] =>
       /\ \A x \in ToSet(pool[n]) : FoundIn(x.tx, utxos[n])
       /\ Conserved(content, chain[n].blocks, utxos[n])

WalletPlain(w) ==
  /\ w.step = "latest" => /\ \A i \in DOMAIN w.outputs : w.outputs[i].amount \in Int
                          /\ \A k \in DOMAIN w.inputs : IsInput(w.inputs[k])
  /\ w.step = "post" => Plain(w.tx)

\* The inductive invariant of the coins.
CInv ==
  /\ \A h \in DOMAIN content : PlainBlock(content[h])
  /\ DOMAIN skipped = Nodes
  /\ \A n \in Nodes : CoinsOK(n)
  /\ \A a \in Addresses : WalletPlain(wallet[a])
  /\ \A c \in DOMAIN calls : c.op = "transaction" => Plain(c.arg)

\* Blocks stay what they are when their contents do.
LEMMA ConservedStable ==
  ASSUME NEW bs, NEW ct, NEW cu, \A i \in DOMAIN bs : cu[bs[i].hash] = ct[bs[i].hash], NEW u
  PROVE  /\ OnceIn(cu, bs) <=> OnceIn(ct, bs)
         /\ Conserved(cu, bs, u) <=> Conserved(ct, bs, u)
<1>1. TxsIn(cu, bs) = TxsIn(ct, bs)
  BY DEF TxsIn
<1>2. OnceIn(cu, bs) <=> OnceIn(ct, bs)
  BY DEF OnceIn
<1> QED
  BY <1>1, <1>2 DEF Conserved

\* A node whose lists and chain stay.
LEMMA CoinsStay ==
  ASSUME IInv, Growing, NEW n \in Nodes, CoinsOK(n), chain'[n] = chain[n],
         utxos'[n] = utxos[n], pool'[n] = pool[n], ahead'[n] = ahead[n],
         skipped'[n] = skipped[n]
  PROVE  CoinsOK(n)'
<1>1. PICK bs : bs = chain[n].blocks
  OBVIOUS
<1>2. AllWellFormed(bs)
  BY <1>1 DEF IInv, ChainOK
<1>3. TxsOf(bs)' = TxsOf(bs)
  BY <1>2, TxsStable
<1>4. PICK u : u = utxos[n]
  OBVIOUS
<1>5. PICK ct : ct = content
  OBVIOUS
<1>6. PICK cu : cu = content'
  OBVIOUS
<1>7. \A i \in DOMAIN bs : cu[bs[i].hash] = ct[bs[i].hash]
  BY <1>2, <1>5, <1>6, WellFormedStable DEF AllWellFormed, WellFormed
<1>8. Conserved(cu, bs, u) <=> Conserved(ct, bs, u)
  BY <1>7, ConservedStable
<1> QED
  BY <1>1, <1>3, <1>4, <1>5, <1>6, <1>8 DEF CoinsOK

\* A block whose inputs refer to unspent outputs of the chain joins it.
LEMMA OnceAppend ==
  ASSUME NEW bs \in Seq(Block), NEW b \in Block, NEW ct, OnceIn(ct, bs),
         NEW u, Exact(TxsIn(ct, bs), u), \A t \in ToSet(ct[b.hash]) : FoundIn(t, u)
  PROVE  OnceIn(ct, Append(bs, b))
<1>1. PICK cs : cs = Append(bs, b)
  OBVIOUS
<1>2. PICK m \in Nat : m = Len(bs) + 1
  OBVIOUS
<1>3. /\ DOMAIN cs = 1..m /\ DOMAIN bs = 1..(m - 1) /\ cs[m] = b
      /\ \A i \in 1..(m - 1) : cs[i] = bs[i]
  BY <1>1, <1>2
<1>4. \A i : i \in 1..m <=> (i \in 1..(m - 1) \/ i = m)
  BY <1>2
<1>5. \A i \in 1..(m - 1) : i < m
  BY <1>2
<1>6. PICK T : T = TxsIn(ct, bs)
  OBVIOUS
<1>7. ASSUME NEW i \in 1..(m - 1), NEW t \in ToSet(ct[bs[i].hash]), NEW q \in ToSet(ct[b.hash])
      PROVE  ~SharesInput(t, q) /\ ~SharesInput(q, t)
  <2> SUFFICES ASSUME SharesInput(t, q) PROVE FALSE
    BY SameInputs
  <2>1. PICK k \in DOMAIN t.inputs, j \in DOMAIN q.inputs : t.inputs[k] = q.inputs[j]
    BY DEF SharesInput
  <2>2. PICK o \in ToSet(u) : Refers(q.inputs[j], o)
    BY DEF FoundIn
  <2>3. t \in T
    BY <1>3, <1>6 DEF TxsIn
  <2>4. SpentBy(T, o)
    BY <2>1, <2>2, <2>3 DEF SpentBy, SpentIn
  <2> QED
    BY <1>6, <2>2, <2>4 DEF Exact
<1>8. ASSUME NEW q \in ToSet(ct[b.hash]), NEW k \in DOMAIN q.inputs
      PROVE  \E j \in 1..(m - 1) : Makes(ct[bs[j].hash], q.inputs[k])
  <2>1. PICK o \in ToSet(u) : Refers(q.inputs[k], o)
    BY DEF FoundIn
  <2>2. CreatedBy(T, o)
    BY <1>6, <2>1 DEF Exact
  <2>3. PICK t \in T : \E i \in DOMAIN t.outputs : o = UnspentOutput(t, i)
    BY <2>2 DEF CreatedBy
  <2>4. PICK j \in 1..(m - 1) : t \in ToSet(ct[bs[j].hash])
    BY <1>3, <1>6 DEF TxsIn
  <2>5. Makes(ct[bs[j].hash], q.inputs[k])
    BY <2>1, <2>3, <2>4 DEF Makes
  <2> QED
    BY <2>5
<1>9. ASSUME NEW i \in 1..m, NEW t \in ToSet(ct[cs[i].hash])
      PROVE  /\ \A k \in DOMAIN t.inputs :
                  \E j \in 1..m : j < i /\ Makes(ct[cs[j].hash], t.inputs[k])
             /\ \A j \in 1..m : j # i =>
                  \A q \in ToSet(ct[cs[j].hash]) : ~SharesInput(t, q)
  <2>1. CASE i = m
    <3>1. t \in ToSet(ct[b.hash])
      BY <1>3, <2>1
    <3>2. ASSUME NEW k \in DOMAIN t.inputs
          PROVE  \E j \in 1..m : j < i /\ Makes(ct[cs[j].hash], t.inputs[k])
      <4>1. PICK j \in 1..(m - 1) : Makes(ct[bs[j].hash], t.inputs[k])
        BY <1>8, <3>1
      <4> QED
        BY <1>3, <1>4, <1>5, <2>1, <4>1
    <3>3. ASSUME NEW j \in 1..m, j # i, NEW q \in ToSet(ct[cs[j].hash])
          PROVE  ~SharesInput(t, q)
      BY <1>3, <1>4, <1>7, <2>1, <3>1, <3>3
    <3> QED
      BY <3>2, <3>3
  <2>2. CASE i # m
    <3>1. i \in 1..(m - 1) /\ t \in ToSet(ct[bs[i].hash])
      BY <1>3, <1>4, <2>2
    <3>2. /\ \A k \in DOMAIN t.inputs :
               \E j \in 1..(m - 1) : j < i /\ Makes(ct[bs[j].hash], t.inputs[k])
          /\ \A j \in 1..(m - 1) : j # i =>
               \A q \in ToSet(ct[bs[j].hash]) : ~SharesInput(t, q)
      BY <1>3, <3>1 DEF OnceIn
    <3>3. \A k \in DOMAIN t.inputs :
            \E j \in 1..m : j < i /\ Makes(ct[cs[j].hash], t.inputs[k])
      BY <1>3, <1>4, <3>2
    <3>4. ASSUME NEW j \in 1..m, j # i, NEW q \in ToSet(ct[cs[j].hash])
          PROVE  ~SharesInput(t, q)
      <4>1. CASE j = m
        BY <1>3, <1>7, <3>1, <3>4, <4>1
      <4>2. CASE j # m
        BY <1>3, <1>4, <3>2, <3>4, <4>2
      <4> QED
        BY <4>1, <4>2
    <3> QED
      BY <3>3, <3>4
  <2> QED
    BY <2>1, <2>2
<1> QED
  BY <1>1, <1>3, <1>9 DEF OnceIn

\* The transactions of a block can be paid for from u.
Settled(T, u, ts) ==
  /\ ValidReward(ts[1])
  /\ \A k \in DOMAIN ts :
       FoundIn(ts[k], u) /\ (k # 1 => \E c : Backed(T, c) /\ Balanced(ts[k], c))

\* Such a block conserves coins.
LEMMA ConservedBlock ==
  ASSUME NEW bs \in Seq(Block), NEW b \in Block, NEW ct, NEW u, Conserved(ct, bs, u),
         NEW T, T = TxsIn(ct, bs), Exact(T, u), \A q \in T : TxOK(q), ValuedList(u),
         NEW ts, ts = ct[b.hash], BlockOK(ts), PlainBlock(ts), Settled(T, u, ts),
         \A k \in DOMAIN ts : Fresh(T \union UpTo(ts, k - 1), ts[k])
  PROVE  Conserved(ct, Append(bs, b), UpdateAll(u, ts))
<1>1. \A t \in ToSet(ts) : FoundIn(t, u)
  BY DEF Settled, ToSet
<1>2. OnceIn(ct, Append(bs, b))
  BY <1>1, OnceAppend DEF Conserved
<1>3. TxsIn(ct, Append(bs, b)) = T \union ToSet(ts)
  BY TxsAppend
<1>4. ASSUME Injective(T \union ToSet(ts))
      PROVE  Worth(UpdateAll(u, ts)) = RewardAmount * Len(Append(bs, b))
  <2>1. Worth(u) = RewardAmount * Len(bs)
    BY <1>4 DEF Conserved, Injective
  <2>2. ASSUME NEW k \in DOMAIN ts, k # 1 PROVE Pays(T, u, ts[k])
    <3>1. IsInjective(ts[k].inputs)
      BY <1>4 DEF Injective, ToSet
    <3> QED
      BY <2>2, <3>1 DEF Settled, Pays
  <2>3. Worth(UpdateAll(u, ts)) = Worth(u) + RewardAmount
    <3>1. /\ ts # <<>> /\ \A k \in DOMAIN ts : Plain(ts[k])
          /\ ValidReward(ts[1])
      BY DEF PlainBlock, Settled
    <3> QED
      BY <2>2, <3>1, BlockWorth
  <2>4. PICK l \in Nat : l = Len(bs) /\ Len(Append(bs, b)) = l + 1
    OBVIOUS
  <2>5. RewardAmount * l + RewardAmount = RewardAmount * (l + 1)
    BY TransactionAssumption
  <2> QED
    BY <2>1, <2>3, <2>4, <2>5
<1> QED
  BY <1>2, <1>3, <1>4 DEF Conserved

\* The transactions of a chain are well-formed.
LEMMA ChainTxs ==
  ASSUME LInv, NEW bs, AllWellFormed(bs), NEW q \in TxsOf(bs)
  PROVE  TxOK(q)
<1>1. PICK i \in DOMAIN bs : q \in ToSet(content[bs[i].hash])
  BY DEF TxsOf, TxsIn
<1>2. BlockOK(content[bs[i].hash])
  BY DEF AllWellFormed, WellFormed, LInv
<1> QED
  BY <1>1, <1>2 DEF BlockOK, ToSet

\* The lists of a node whose chain is the transactions T.
LEMMA ListsExact ==
  ASSUME LInv, NEW n \in Nodes, ~ahead[n], NEW T, T = TxsOf(chain[n].blocks)
  PROVE  Exact(T, utxos[n]) /\ \A q \in T : Closed(T, q)
BY DEF LInv, ListsOK, Consistent

\* A list that is exact is backed.
LEMMA ExactBacked ==
  ASSUME NEW T, NEW u, Exact(T, u), ValuedList(u)
  PROVE  Backed(T, u)
BY DEF Exact, Backed

\* A block that is made for the end of a chain, and can be paid for, conserves coins.
LEMMA ConservedNext ==
  ASSUME NEW bs \in Seq(Block), NEW b \in Block, NEW ct, NEW u, Conserved(ct, bs, u),
         NEW T, T = TxsIn(ct, bs), Exact(T, u), \A q \in T : TxOK(q), ValuedList(u),
         NEW ts, ts = ct[b.hash], BlockOK(ts), PlainBlock(ts), Settled(T, u, ts),
         NEW L, \A q \in T : q.index # L /\ Closed(T, q),
         \A k \in DOMAIN ts : ts[k].index = L /\ Closed(T, ts[k])
  PROVE  Conserved(ct, Append(bs, b), UpdateAll(u, ts))
<1>1. ASSUME NEW k \in DOMAIN ts PROVE Fresh(T \union UpTo(ts, k - 1), ts[k])
  BY BlockFresh
<1> QED
  BY <1>1, ConservedBlock

\* A block joins the chain of a node, and the coins follow.
LEMMA CoinsJoin ==
  ASSUME IInv, LInv, Growing, NEW n \in Nodes, CoinsOK(n), NEW b \in Block,
         NEW ts, BlockOK(ts), PlainBlock(ts),
         chain'[n].blocks = Append(chain[n].blocks, b), content'[b.hash] = ts,
         \A k \in DOMAIN ts : ts[k].index = Len(chain[n].blocks),
         ~ahead[n] => \A k \in DOMAIN ts : Closed(TxsOf(chain[n].blocks), ts[k]),
         utxos'[n] = UpdateAll(utxos[n], ts), NEW r, pool'[n] = r, ahead'[n] = ahead[n],
         \A x \in ToSet(r) : x \in ToSet(pool[n]),
         ~skipped'[n] => ~skipped[n] /\ \A x \in ToSet(r) : FoundIn(x.tx, utxos'[n]),
         ~ahead[n] /\ ~skipped[n] => Settled(TxsOf(chain[n].blocks), utxos[n], ts)
  PROVE  CoinsOK(n)'
<1>1. PICK bs : bs = chain[n].blocks
  OBVIOUS
<1>2. PICK L : L = Len(bs)
  OBVIOUS
<1>3. Linked(bs) /\ AllWellFormed(bs) /\ bs \in Seq(Block)
  BY <1>1 DEF IInv, ChainOK, AllWellFormed
<1>4. PICK T : T = TxsOf(bs)
  OBVIOUS
<1>5. PICK u : u = utxos[n]
  OBVIOUS
<1>6. PICK v : v = UpdateAll(u, ts)
  OBVIOUS
<1>7. PICK U : U = T \union ToSet(ts)
  OBVIOUS
<1>8. PICK cu : cu = content'
  OBVIOUS
<1>9. PICK cs : cs = Append(bs, b)
  OBVIOUS
<1>10. TxsIn(cu, bs) = T /\ TxsIn(cu, cs) = U /\ cu[b.hash] = ts
  <2>1. TxsOf(bs)' = T
    BY <1>3, <1>4, TxsStable
  <2>2. TxsIn(cu, bs) = T /\ cu[b.hash] = ts
    BY <1>8, <2>1 DEF TxsOf
  <2>3. TxsIn(cu, Append(bs, b)) = TxsIn(cu, bs) \union ToSet(cu[b.hash])
    BY <1>3, TxsAppend
  <2> QED
    BY <1>7, <1>9, <2>2, <2>3
<1>11. TxsOf(chain[n].blocks)' = U /\ chain'[n].blocks = cs
  <2>1. chain'[n].blocks = cs
    BY <1>1, <1>9
  <2>2. TxsOf(chain[n].blocks)' = TxsIn(cu, cs)
    BY <1>8, <2>1 DEF TxsOf
  <2> QED
    BY <1>10, <2>1, <2>2
<1>12. ValuedList(u) /\ ValuedList(v)
  <2>1. ValuedList(u) /\ \A k \in DOMAIN ts : Plain(ts[k])
    BY <1>5 DEF CoinsOK, PlainBlock
  <2> QED
    BY <1>6, <2>1, BlockValued
<1>13. \A x \in ToSet(r) : Plain(x.tx)
  BY DEF CoinsOK
<1>14. ASSUME ~ahead[n], NEW x \in ToSet(r) PROVE Backed(U, x.unspent)
  <2>1. Backed(T, x.unspent)
    BY <1>1, <1>4, <1>14 DEF CoinsOK
  <2> QED
    BY <1>7, <2>1, CreatedMore
<1>15. ASSUME ~ahead[n], ~skipped'[n] PROVE Conserved(cu, cs, v)
  <2>1. ~skipped[n] /\ Settled(T, u, ts)
    BY <1>1, <1>4, <1>5, <1>15
  <2>2. PICK ct : ct = content
    OBVIOUS
  <2>3. \A i \in DOMAIN bs : cu[bs[i].hash] = ct[bs[i].hash]
    BY <1>3, <1>8, <2>2, WellFormedStable DEF AllWellFormed, WellFormed
  <2>4. Conserved(ct, bs, u)
    BY <1>1, <1>5, <1>15, <2>1, <2>2 DEF CoinsOK
  <2>5. Conserved(cu, bs, u)
    BY <2>3, <2>4, ConservedStable
  <2>6. Exact(T, u) /\ \A q \in T : Closed(T, q)
    BY <1>1, <1>4, <1>5, <1>15, ListsExact
  <2>7. \A q \in T : TxOK(q) /\ q.index # L
    BY <1>2, <1>3, <1>4, ChainTxs, TxsIndex
  <2>8. \A k \in DOMAIN ts : ts[k].index = L /\ Closed(T, ts[k])
    BY <1>1, <1>2, <1>4, <1>15
  <2>9. \A q \in T : q.index # L /\ Closed(T, q)
    BY <2>6, <2>7
  <2>10. Conserved(cu, Append(bs, b), UpdateAll(u, ts))
    BY <1>3, <1>10, <1>12, <2>1, <2>5, <2>6, <2>7, <2>8, <2>9, ConservedNext
  <2> QED
    BY <1>6, <1>9, <2>10
<1>16. utxos'[n] = v
  BY <1>5, <1>6
<1>17. ValuedList(v) /\ (\A x \in ToSet(r) : Plain(x.tx))
       /\ (~ahead[n] => \A x \in ToSet(r) : Backed(U, x.unspent))
       /\ (~ahead[n] /\ ~skipped'[n] =>
             (\A x \in ToSet(r) : FoundIn(x.tx, v)) /\ Conserved(cu, cs, v))
  BY <1>12, <1>13, <1>14, <1>15, <1>16
<1> QED
  BY <1>8, <1>11, <1>16, <1>17 DEF CoinsOK

\* A transaction arrives at a node, and joins its pool or not.
LEMMA CoinsAdd ==
  ASSUME IInv, LInv, CInv, content' = content, chain' = chain, utxos' = utxos,
         ahead' = ahead, skipped' = skipped, NEW n \in Nodes, NEW t, StandardOK(t), Plain(t),
         \A m \in Nodes \ {n} : pool'[m] = pool[m],
         pool'[n] = IF CanAdd(pool[n], Link(t, utxos[n]))
                      THEN Append(pool[n], Link(t, utxos[n])) ELSE pool[n]
  PROVE  \A m \in Nodes : CoinsOK(m)'
<1>1. Growing
  BY DEF Growing, IInv
<1>2. PICK u : u = utxos[n]
  OBVIOUS
<1>3. PICK p : p = pool[n]
  OBVIOUS
<1>4. PICK x : x = Link(t, u)
  OBVIOUS
<1>5. x.tx = t /\ x.unspent = u
  BY <1>4 DEF Link
<1>6. ASSUME NEW m \in Nodes, m # n PROVE CoinsOK(m)'
  BY <1>1, <1>6, CoinsStay DEF CInv
<1>7. CASE pool'[n] = p
  BY <1>1, <1>3, <1>6, <1>7, CoinsStay DEF CInv
<1>8. CASE CanAdd(p, x) /\ pool'[n] = Append(p, x)
  <2>1. PICK r : r = Append(p, x)
    OBVIOUS
  <2>2. PoolOK(p) /\ CoinsOK(n)
    BY <1>3 DEF LInv, ListsOK, CInv
  <2>3. \A y : y \in ToSet(r) <=> y \in ToSet(p) \/ y = x
    BY <1>5, <1>8, <2>1, <2>2, CanAddOK
  <2>4. PICK T : T = TxsOf(chain[n].blocks)
    OBVIOUS
  <2>5. PICK bs : bs = chain[n].blocks
    OBVIOUS
  <2>6. PICK ct : ct = content
    OBVIOUS
  <2>7. ~ahead[n] => \A y \in ToSet(r) : Backed(T, y.unspent)
    <3>1. ~ahead[n] => Backed(T, u)
      BY <1>2, <2>2, <2>4, ListsExact, ExactBacked DEF CoinsOK
    <3> QED
      BY <1>3, <1>5, <2>2, <2>3, <2>4, <3>1 DEF CoinsOK
  <2>8. FoundIn(t, u)
    <3>1. ValidStandard(t, u)
      BY <1>5, <1>8 DEF CanAdd, ValidTx, StandardOK
    <3> QED
      BY <3>1 DEF ValidStandard, Matching, FoundIn, ToSet
  <2>9. ~ahead[n] /\ ~skipped[n] =>
          (\A y \in ToSet(r) : FoundIn(y.tx, u)) /\ Conserved(ct, bs, u)
    BY <1>2, <1>3, <1>5, <2>2, <2>3, <2>5, <2>6, <2>8 DEF CoinsOK
  <2>10. ValuedList(u) /\ \A y \in ToSet(r) : Plain(y.tx)
    BY <1>2, <1>3, <1>5, <2>2, <2>3 DEF CoinsOK
  <2>11. TxsOf(chain[n].blocks)' = T /\ utxos'[n] = u /\ chain'[n].blocks = bs
         /\ content' = ct /\ pool'[n] = r /\ ahead'[n] = ahead[n] /\ skipped'[n] = skipped[n]
    BY <1>2, <1>8, <2>1, <2>4, <2>5, <2>6 DEF TxsOf
  <2>12. CoinsOK(n)'
    BY <2>7, <2>9, <2>10, <2>11 DEF CoinsOK
  <2> QED
    BY <1>6, <2>12
<1> QED
  BY <1>2, <1>3, <1>4, <1>7, <1>8

-----------------------------------------------------------------------------
(* The coins of wallets and pools.                                          *)

\* The calls and the lists stay as they are.
LEMMA WalletCoins ==
  ASSUME IInv, CInv,
         UNCHANGED <<content, chain, utxos, pool, calls, spent, ahead, skipped>>,
         NEW a \in Addresses, NEW w, WalletPlain(w), DOMAIN wallet = Addresses,
         wallet' = [wallet EXCEPT ![a] = w]
  PROVE  CInv'
<1>1. Growing
  BY DEF Growing, IInv
<1>2. \A n \in Nodes : CoinsOK(n)'
  BY <1>1, CoinsStay DEF CInv
<1>3. \A b \in Addresses : wallet'[b] = w \/ wallet'[b] = wallet[b]
  OBVIOUS
<1>4. \A b \in Addresses : WalletPlain(wallet'[b])
  BY <1>3 DEF CInv
<1> QED
  BY <1>2, <1>4 DEF CInv, WalletPlain

\* The outputs of an address have amounts, and so has a total of them.
LEMMA OwnAmounts ==
  ASSUME NEW u, ValuedList(u), NEW a, NEW own, own = WalletUnspentOutputs(u, a),
         NEW k \in DOMAIN own
  PROVE  k \in Nat /\ TotalAmount([i \in 1..k |-> own[i].output]) \in Int
<1>1. PICK S : Amounting(S) /\ u \in Seq(S)
  BY DEF ValuedList
<1>2. PICK g \in [0..Len(u) -> Seq(S)] : WalletUnspentOutputs(u, a) = g[Len(u)]
  BY <1>1, WalletRounds
<1>3. own \in Seq(S)
  <2>1. Len(u) \in 0..Len(u)
    BY <1>1
  <2> QED
    BY <1>2, <2>1
<1>4. k \in Nat /\ \A i \in 1..k : own[i] \in S
  BY <1>3
<1>5. PICK s : s = [i \in 1..k |-> own[i].output]
  OBVIOUS
<1>6. \A i \in 1..k : s[i].amount \in Int
  BY <1>1, <1>4, <1>5 DEF Amounting
<1>7. s \in Seq({s[i] : i \in 1..k}) /\ DOMAIN s = 1..k /\ Len(s) = k
  BY <1>4, <1>5
<1>8. IsList(s)
  BY <1>7 DEF IsList
<1>9. PICK h \in [0..Len(s) -> Int] : TotalAmount(s) = h[Len(s)]
  BY <1>6, <1>7, <1>8, TotalRounds
<1>10. Len(s) \in 0..Len(s)
  BY <1>4, <1>7
<1> QED
  BY <1>4, <1>5, <1>9, <1>10

\* bwallet takes outputs of the address and makes others.
LEMMA TransferUnspentCoins ==
  ASSUME IInv, LInv, CInv, NEW a \in Addresses, NEW n \in Nodes, NEW to,
         NEW amount \in Amounts, TransferUnspent(a, n, to, amount)
  PROVE  CInv'
<1> DEFINE own == WalletUnspentOutputs(utxos[n], a)
           Total(k) == TotalAmount([i \in 1..k |-> own[i].output])
           In(k) == [i \in 1..k |-> [hash |-> own[i].hash, index |-> own[i].index]]
           Out(k) == <<[amount |-> amount, address |-> to]>>
                       \o IF amount < Total(k)
                            THEN <<[amount |-> Total(k) - amount, address |-> a]>>
                            ELSE <<>>
<1>1. own = WalletUnspentOutputs(utxos[n], a)
  OBVIOUS
<1>2. PICK k \in DOMAIN own :
        wallet' = [wallet EXCEPT ![a] = [step |-> "latest", node |-> n,
                                         inputs |-> In(k), outputs |-> Out(k)]]
  BY DEF TransferUnspent
<1> HIDE DEF own
<1>3. PICK total \in Int : total = Total(k)
  <2>1. PICK u : u = utxos[n]
    OBVIOUS
  <2>2. ValuedList(u) /\ own = WalletUnspentOutputs(u, a)
    BY <1>1, <2>1 DEF CInv, CoinsOK
  <2>3. Total(k) \in Int
    BY <2>2, OwnAmounts
  <2> QED
    BY <2>3
<1>4. amount \in Int
  BY LedgerAssumption
<1>5. PICK in : in = In(k)
  OBVIOUS
<1>6. \A i \in DOMAIN in : IsInput(in[i])
  BY <1>5 DEF IsInput
<1>7. PICK out : out = Out(k)
  OBVIOUS
<1>8. \A i \in DOMAIN out : out[i].amount \in Int
  <2>1. PICK x : x = [amount |-> amount, address |-> to]
    OBVIOUS
  <2>2. PICK y : y = [amount |-> total - amount, address |-> a]
    OBVIOUS
  <2>3. out = <<x>> \o <<y>> \/ out = <<x>> \o <<>>
    BY <1>3, <1>7, <2>1, <2>2
  <2>4. <<x>> \in Seq({x, y}) /\ <<y>> \in Seq({x, y}) /\ <<>> \in Seq({x, y})
    OBVIOUS
  <2>5. \A p, q \in Seq({x, y}) : p \o q \in Seq({x, y})
    OBVIOUS
  <2>6. out \in Seq({x, y})
    BY <2>3, <2>4, <2>5
  <2>7. x.amount \in Int /\ y.amount \in Int
    BY <1>3, <1>4, <2>1, <2>2
  <2> QED
    BY <2>6, <2>7
<1>9. PICK w : w = [step |-> "latest", node |-> n, inputs |-> in, outputs |-> out]
  OBVIOUS
<1>10. w.step = "latest" /\ w.inputs = in /\ w.outputs = out
  BY <1>9
<1>11. WalletPlain(w)
  BY <1>6, <1>8, <1>10 DEF WalletPlain
<1>12. wallet' = [wallet EXCEPT ![a] = w]
  BY <1>2, <1>5, <1>7, <1>9
<1>13. UNCHANGED <<content, chain, utxos, pool, calls, spent, ahead, skipped>>
  BY DEF TransferUnspent
<1>14. DOMAIN wallet = Addresses
  BY DEF LInv
<1> QED
  BY <1>11, <1>12, <1>13, <1>14, WalletCoins

\* bwallet adds the index, or panics.
LEMMA TransferLatestCoins ==
  ASSUME IInv, LInv, CInv, NEW a \in Addresses, TransferLatest(a)
  PROVE  CInv'
<1>1. PICK v : v = wallet[a]
  OBVIOUS
<1>2. /\ \A i \in DOMAIN v.outputs : v.outputs[i].amount \in Int
      /\ \A k \in DOMAIN v.inputs : IsInput(v.inputs[k])
  BY <1>1 DEF TransferLatest, CInv, WalletPlain
<1>3. PICK i : i = content[Latest(chain[v.node]).hash][1].index + 1
  OBVIOUS
<1>4. PICK t : t = Tx("standard", i, v.inputs, v.outputs, a)
  OBVIOUS
<1>5. Plain(t)
  BY <1>2, <1>4 DEF Tx, Plain
<1>6. PICK w : w = IF chain[v.node].blocks = <<>> THEN NoTransfer
                   ELSE [step |-> "post", node |-> v.node, tx |-> t]
  OBVIOUS
<1>7. WalletPlain(w)
  <2>1. CASE w = NoTransfer
    BY <2>1 DEF WalletPlain, NoTransfer
  <2>2. CASE w = [step |-> "post", node |-> v.node, tx |-> t]
    <3>1. w.step = "post" /\ w.tx = t
      BY <2>2
    <3> QED
      BY <1>5, <3>1 DEF WalletPlain
  <2> QED
    BY <1>6, <2>1, <2>2
<1>8. wallet' = [wallet EXCEPT ![a] = w]
  BY <1>1, <1>3, <1>4, <1>6 DEF TransferLatest
<1>9. UNCHANGED <<content, chain, utxos, pool, calls, spent, ahead, skipped>>
  BY DEF TransferLatest
<1>10. DOMAIN wallet = Addresses
  BY DEF LInv
<1> QED
  BY <1>7, <1>8, <1>9, <1>10, WalletCoins

\* handle_transactions_post.
LEMMA TransferPostCoins ==
  ASSUME IInv, LInv, CInv, NEW a \in Addresses, TransferPost(a)
  PROVE  CInv'
<1>1. PICK n : n = wallet[a].node
  OBVIOUS
<1>2. PICK t : t = wallet[a].tx
  OBVIOUS
<1>3. n \in Nodes /\ StandardOK(t) /\ Plain(t)
  BY <1>1, <1>2 DEF TransferPost, LInv, WalletOK, CInv, WalletPlain
<1>4. PICK link : link = Link(t, utxos[n])
  OBVIOUS
<1>5. /\ content' = content /\ chain' = chain /\ utxos' = utxos /\ ahead' = ahead
      /\ skipped' = skipped /\ wallet' = [wallet EXCEPT ![a] = NoTransfer]
      /\ IF CanAdd(pool[n], link)
           THEN /\ pool' = [pool EXCEPT ![n] = Append(pool[n], link)]
                /\ Calling({Call("transaction", m, n, t) : m \in Others(n)})
           ELSE pool' = pool /\ calls' = calls
  <2>1. link.tx = t
    BY <1>4 DEF Link
  <2> QED
    BY <1>1, <1>2, <1>4, <2>1 DEF TransferPost
<1>6. /\ \A m \in Nodes \ {n} : pool'[m] = pool[m]
      /\ pool'[n] = IF CanAdd(pool[n], Link(t, utxos[n]))
                      THEN Append(pool[n], Link(t, utxos[n])) ELSE pool[n]
  <2>1. CASE CanAdd(pool[n], link)
    BY <1>3, <1>4, <1>5, <2>1 DEF LInv
  <2>2. CASE ~CanAdd(pool[n], link)
    BY <1>3, <1>4, <1>5, <2>2 DEF LInv
  <2> QED
    BY <2>1, <2>2
<1>7. \A m \in Nodes : CoinsOK(m)'
  BY <1>3, <1>5, <1>6, CoinsAdd
<1>8. ASSUME NEW c \in DOMAIN calls', c.op = "transaction" PROVE Plain(c.arg)
  <2>1. CASE c \in DOMAIN calls
    BY <1>8, <2>1 DEF CInv
  <2>2. CASE c \notin DOMAIN calls
    <3>1. Calling({Call("transaction", m, n, t) : m \in Others(n)})
      BY <1>5, <2>2
    <3>2. PICK m \in Others(n) : c = Call("transaction", m, n, t)
      BY <2>2, <3>1, CallingIs
    <3> QED
      BY <1>3, <3>2, CallIs
  <2> QED
    BY <2>1, <2>2
<1>9. \A b \in Addresses : WalletPlain(wallet'[b])
  <2>1. WalletPlain(NoTransfer)
    BY DEF WalletPlain, NoTransfer
  <2>2. \A b \in Addresses : wallet'[b] = NoTransfer \/ wallet'[b] = wallet[b]
    BY <1>5 DEF LInv
  <2> QED
    BY <2>1, <2>2 DEF CInv
<1> QED
  BY <1>5, <1>7, <1>8, <1>9 DEF CInv, WalletPlain

\* handle_receive_transaction.
LEMMA ReceiveTransactionCoins ==
  ASSUME IInv, LInv, CInv, NEW c \in DOMAIN calls, ReceiveTransaction(c)
  PROVE  CInv'
<1>1. c.at \in Nodes /\ StandardOK(c.arg) /\ Plain(c.arg)
  BY DEF IInv, CallOK, LInv, CInv, ReceiveTransaction
<1>2. PICK n : n = c.at
  OBVIOUS
<1>3. PICK t : t = c.arg
  OBVIOUS
<1>4. /\ content' = content /\ chain' = chain /\ utxos' = utxos /\ ahead' = ahead
      /\ skipped' = skipped /\ wallet' = wallet /\ Serving(c, {})
      /\ pool' = [pool EXCEPT ![n] = IF CanAdd(pool[n], Link(t, utxos[n]))
                                       THEN Append(pool[n], Link(t, utxos[n])) ELSE pool[n]]
  BY <1>2, <1>3 DEF ReceiveTransaction
<1>5. /\ \A m \in Nodes \ {n} : pool'[m] = pool[m]
      /\ pool'[n] = IF CanAdd(pool[n], Link(t, utxos[n]))
                      THEN Append(pool[n], Link(t, utxos[n])) ELSE pool[n]
  BY <1>1, <1>2, <1>4 DEF LInv
<1>6. \A m \in Nodes : CoinsOK(m)'
  BY <1>1, <1>2, <1>3, <1>4, <1>5, CoinsAdd
<1>7. \A d \in DOMAIN calls' : d \in DOMAIN calls
  BY <1>4, ServingIs
<1> QED
  BY <1>4, <1>6, <1>7 DEF CInv, WalletPlain

-----------------------------------------------------------------------------
(* The coins of a block.                                                    *)

\* What prune leaves has its inputs, unless it has skipped a transaction.
LEMMA PruneIs ==
  ASSUME LInv, CInv, NEW n \in Nodes, NEW p, NEW u, PruneTo(n, p, u)
  PROVE  /\ DOMAIN skipped' = Nodes /\ \A m \in Nodes \ {n} : skipped'[m] = skipped[m]
         /\ ~skipped'[n] => ~skipped[n] /\ \A x \in ToSet(pool'[n]) : FoundIn(x.tx, u)
<1>1. PICK r : pool' = [pool EXCEPT ![n] = r]
               /\ skipped' = [skipped EXCEPT ![n] =
                    skipped[n] \/ \E link \in ToSet(r) : Missing(link.tx, u) # {}]
  BY DEF PruneTo
<1>2. PICK new : new = (skipped[n] \/ \E link \in ToSet(r) : Missing(link.tx, u) # {})
  OBVIOUS
<1>3. skipped' = [skipped EXCEPT ![n] = new]
  BY <1>1, <1>2
<1>4. /\ DOMAIN skipped' = Nodes /\ \A m \in Nodes \ {n} : skipped'[m] = skipped[m]
      /\ skipped'[n] = new
  BY <1>3 DEF CInv
<1>5. pool'[n] = r
  BY <1>1 DEF LInv
<1>6. ASSUME NEW x \in ToSet(r), Missing(x.tx, u) = {} PROVE FoundIn(x.tx, u)
  BY <1>6 DEF Missing, Matching, FoundIn, ToSet
<1>7. ~new => ~skipped[n] /\ \A x \in ToSet(r) : FoundIn(x.tx, u)
  BY <1>2, <1>6
<1> QED
  BY <1>4, <1>5, <1>7

\* The links of a block are the reward and links of the pool.
LEMMA BlockLinksAre ==
  ASSUME NEW p, PoolOK(p), NEW num \in 0..Len(p), NEW a, NEW L, NEW links,
         links = BlockLinks(p, num, a, L)
  PROVE  /\ 1 \in DOMAIN links /\ links[1] = Link(Reward(a, L), <<>>)
         /\ \A k \in DOMAIN links : k # 1 => links[k] \in ToSet(p)
<1>1. PICK S : p \in Seq(S) /\ Len(p) \in Nat /\ DOMAIN p = 1..Len(p) /\ num \in Nat
  BY DEF PoolOK, IsList
<1>2. PICK r : r = Link(Reward(a, L), <<>>)
  OBVIOUS
<1>3. PICK f : f = SubSeq(p, 1, num)
  OBVIOUS
<1>4. f \in Seq(S) /\ Len(f) = num /\ \A i \in 1..num : f[i] = p[i] /\ i \in DOMAIN p
  BY <1>1, <1>3
<1>5. PICK h : h = <<r>>
  OBVIOUS
<1>6. PICK R : R = S \union {r}
  OBVIOUS
<1>7. h \in Seq(R) /\ f \in Seq(R) /\ Len(h) = 1 /\ h[1] = r
  BY <1>4, <1>5, <1>6
<1>8. links = h \o f
  BY <1>2, <1>3, <1>5 DEF BlockLinks
<1>9. /\ links \in Seq(R) /\ Len(links) = Len(h) + Len(f)
      /\ \A i \in 1..Len(h) : links[i] = h[i]
      /\ \A i \in 1..Len(f) : links[Len(h) + i] = f[i]
  <2>1. /\ h \o f \in Seq(R) /\ Len(h \o f) = Len(h) + Len(f)
        /\ \A i \in 1..Len(h) : (h \o f)[i] = h[i]
        /\ \A i \in 1..Len(f) : (h \o f)[Len(h) + i] = f[i]
    <3>1. h \in Seq(R) /\ f \in Seq(R)
      BY <1>7
    <3> QED
      BY <3>1, Concatenated
  <2> QED
    BY <1>8, <2>1
<1>10. DOMAIN links = 1..(1 + num) /\ links[1] = r
  <2>1. 1 \in 1..Len(h)
    BY <1>7
  <2> QED
    BY <1>1, <1>4, <1>7, <1>9, <2>1
<1>11. ASSUME NEW k \in DOMAIN links, k # 1 PROVE links[k] \in ToSet(p)
  <2>1. PICK i \in 1..num : k = 1 + i
    <3>1. k - 1 \in 1..num /\ k = 1 + (k - 1)
      BY <1>1, <1>10, <1>11
    <3> QED
      BY <3>1
  <2>2. links[k] = p[i] /\ i \in DOMAIN p
    BY <1>4, <1>7, <1>9, <2>1
  <2> QED
    BY <2>2 DEF ToSet
<1> QED
  BY <1>1, <1>2, <1>10, <1>11

\* The reward that a block begins with.
LEMMA RewardPlain ==
  ASSUME NEW a, NEW L
  PROVE  Plain(Reward(a, L)) /\ Reward(a, L).inputs = <<>>
<1>1. PICK x : x = [amount |-> RewardAmount, address |-> a]
  OBVIOUS
<1>2. Reward(a, L).inputs = <<>> /\ Reward(a, L).outputs = <<x>>
  BY <1>1 DEF Reward, Tx
<1>3. x.amount \in Int
  BY <1>1, TransactionAssumption
<1>4. DOMAIN <<>> = {}
  OBVIOUS
<1>5. \A i \in DOMAIN <<x>> : <<x>>[i] = x
  OBVIOUS
<1> QED
  BY <1>2, <1>3, <1>4, <1>5 DEF Plain

\* A block that handle_blocks_post makes has plain transactions, and if those of
\* the pool can be paid for, so can those of the block.
LEMMA BlockMadeSettled ==
  ASSUME NEW p, PoolOK(p), \A x \in ToSet(p) : Plain(x.tx), NEW num \in 0..Len(p),
         NEW a, NEW L, NEW links, links = BlockLinks(p, num, a, L),
         NEW i, ValidList(links, i), NEW ts, ts = Unlinked(links)
  PROVE  /\ PlainBlock(ts)
         /\ \A T, u : (\A x \in ToSet(p) : Backed(T, x.unspent) /\ FoundIn(x.tx, u))
                      => Settled(T, u, ts)
<1>1. /\ 1 \in DOMAIN links /\ links[1] = Link(Reward(a, L), <<>>)
      /\ \A k \in DOMAIN links : k # 1 => links[k] \in ToSet(p)
  BY BlockLinksAre
<1>2. DOMAIN ts = DOMAIN links /\ \A k \in DOMAIN ts : ts[k] = links[k].tx
  BY DEF Unlinked
<1>3. ts[1] = Reward(a, L)
  BY <1>1, <1>2 DEF Link
<1>4. PlainBlock(ts)
  <2>1. ts # <<>>
    <3>1. DOMAIN <<>> = {}
      OBVIOUS
    <3> QED
      BY <1>1, <1>2, <3>1
  <2>2. ASSUME NEW k \in DOMAIN ts PROVE Plain(ts[k])
    BY <1>1, <1>2, <1>3, RewardPlain
  <2> QED
    BY <2>1, <2>2 DEF PlainBlock
<1>5. ValidReward(ts[1])
  <2>1. links[1].tx.type = "reward" /\ ValidTx(links[1].tx, links[1].unspent)
    BY <1>1 DEF ValidList
  <2> QED
    BY <1>1, <1>2, <2>1 DEF ValidTx
<1>6. ASSUME NEW k \in DOMAIN ts, k # 1, NEW T, Backed(T, links[k].unspent)
      PROVE  \E c : Backed(T, c) /\ Balanced(ts[k], c)
  <2>1. links[k].tx.type = "standard" /\ ValidTx(links[k].tx, links[k].unspent)
    BY <1>2, <1>6 DEF ValidList
  <2>2. ValidStandard(ts[k], links[k].unspent)
    BY <1>2, <2>1 DEF ValidTx
  <2>3. Balanced(ts[k], links[k].unspent)
    BY <2>2 DEF ValidStandard, Balanced
  <2> QED
    BY <1>6, <2>3
<1>7. ASSUME NEW T, NEW u, \A x \in ToSet(p) : Backed(T, x.unspent) /\ FoundIn(x.tx, u)
      PROVE  Settled(T, u, ts)
  <2>1. ASSUME NEW k \in DOMAIN ts PROVE FoundIn(ts[k], u)
    <3>1. CASE k = 1
      <4>1. DOMAIN ts[k].inputs = {}
        BY <1>3, <3>1, RewardPlain
      <4> QED
        BY <4>1 DEF FoundIn
    <3>2. CASE k # 1
      BY <1>1, <1>2, <1>7, <3>2
    <3> QED
      BY <3>1, <3>2
  <2>2. ASSUME NEW k \in DOMAIN ts, k # 1
        PROVE  \E c : Backed(T, c) /\ Balanced(ts[k], c)
    BY <1>1, <1>2, <1>6, <1>7, <2>2
  <2> QED
    BY <1>5, <2>1, <2>2 DEF Settled
<1> QED
  BY <1>4, <1>7

\* handle_blocks_post.
LEMMA PostBlocksCoins ==
  ASSUME IInv, LInv, CInv, NEW n \in Nodes, NEW a, PostBlocks(n, a)
  PROVE  CInv'
<1>1. PICK p : p = pool[n]
  OBVIOUS
<1>2. PICK num : num = Min({NumPerBlock, Len(p)})
  OBVIOUS
<1>3. PICK L : L = Len(chain[n].blocks)
  OBVIOUS
<1>4. PICK links : links = BlockLinks(p, num, a, L)
  OBVIOUS
<1>5. PICK ts : ts = Unlinked(links)
  OBVIOUS
<1>6. PICK rest : rest = SubSeq(p, num + 1, Len(p))
  OBVIOUS
<1>7. ListsOK(n) /\ PoolOK(p) /\ Len(p) \in Nat /\ CoinsOK(n)
  BY <1>1 DEF LInv, ListsOK, PoolOK, IsList, CInv
<1>8. num \in 0..Len(p)
  BY <1>2, <1>7, TransactionAssumption, MinOfTwo
<1>9. wallet' = wallet /\ ahead' = ahead
  BY DEF PostBlocks
<1>10. PoolOK(rest) /\ ToSet(rest) \subseteq ToSet(p)
  <2>1. num + 1 \in Nat \ {0} /\ Len(p) \in 0..Len(p)
    BY <1>7, <1>8
  <2> QED
    BY <1>6, <1>7, <2>1, PoolPart
<1>11. ASSUME CanConstruct(n, links), Construct(n, links),
             utxos' = [utxos EXCEPT ![n] = UpdateAll(utxos[n], ts)],
             PruneTo(n, rest, UpdateAll(utxos[n], ts)),
             Calling({Call("broadcast", n, n, 0)})
      PROVE  CInv'
  <2>1. PICK r \in Prune(rest, UpdateAll(utxos[n], ts)) : pool' = [pool EXCEPT ![n] = r]
    BY <1>11 DEF PruneTo
  <2>2. utxos'[n] = UpdateAll(utxos[n], ts) /\ pool'[n] = r
        /\ \A m \in Nodes \ {n} : utxos'[m] = utxos[m] /\ pool'[m] = pool[m]
    BY <1>11, <2>1 DEF LInv
  <2>3. /\ BlockOK(ts)
        /\ \A k \in DOMAIN ts : ts[k].inputs # <<>> => \E x \in ToSet(p) : ts[k] = x.tx
    BY <1>4, <1>5, <1>7, <1>8, BlockMade
  <2>4. /\ \A k \in DOMAIN ts : ts[k].index = Len(chain[n].blocks)
        /\ \A g \in DOMAIN content' :
             content'[g] = ts \/ (g \in DOMAIN content /\ content'[g] = content[g])
    BY <1>5, <1>11, ConstructIs
  <2>5. PICK b \in Block : /\ chain'[n].blocks = Append(chain[n].blocks, b)
                           /\ content'[b.hash] = ts
    <3>1. Joins(n, ts)
      BY <1>5, <1>11, ConstructIs
    <3> QED
      BY <3>1 DEF Joins
  <2>6. Growing /\ \A m \in Nodes \ {n} : chain'[m] = chain[m]
    BY <1>11, ConstructOK
  <2>7. ToSet(r) \subseteq ToSet(p)
    <3>1. ToSet(r) \subseteq ToSet(rest)
      BY <1>10, PruneOK
    <3> QED
      BY <1>10, <3>1
  <2>8. /\ PlainBlock(ts)
        /\ \A T, u : (\A x \in ToSet(p) : Backed(T, x.unspent) /\ FoundIn(x.tx, u))
                     => Settled(T, u, ts)
    <3>1. PICK i : ValidList(links, i)
      BY <1>11 DEF CanConstruct
    <3>2. \A x \in ToSet(p) : Plain(x.tx)
      BY <1>1, <1>7 DEF CoinsOK
    <3> QED
      BY <1>4, <1>5, <1>7, <1>8, <3>1, <3>2, BlockMadeSettled
  <2>9. ASSUME ~ahead[n], NEW k \in DOMAIN ts PROVE Closed(TxsOf(chain[n].blocks), ts[k])
    <3>1. Consistent(TxsOf(chain[n].blocks), utxos[n], p)
      BY <1>1, <1>7, <2>9 DEF ListsOK
    <3>2. CASE ts[k].inputs = <<>>
      <4>1. DOMAIN ts[k].inputs = {}
        BY <3>2
      <4> QED
        BY <4>1 DEF Closed
    <3>3. CASE ts[k].inputs # <<>>
      BY <2>3, <3>1, <3>3 DEF Consistent
    <3> QED
      BY <3>2, <3>3
  <2>10. ~ahead[n] /\ ~skipped[n] => Settled(TxsOf(chain[n].blocks), utxos[n], ts)
    BY <1>1, <1>7, <2>8 DEF CoinsOK
  <2>11. /\ DOMAIN skipped' = Nodes /\ \A m \in Nodes \ {n} : skipped'[m] = skipped[m]
         /\ ~skipped'[n] => ~skipped[n] /\ \A x \in ToSet(r) : FoundIn(x.tx, utxos'[n])
    BY <1>11, <2>2, PruneIs
  <2>12. CoinsOK(n)'
    <3>1. ahead'[n] = ahead[n] /\ \A x \in ToSet(r) : x \in ToSet(pool[n])
      BY <1>1, <1>9, <2>7
    <3> QED
      BY <1>7, <2>2, <2>3, <2>4, <2>5, <2>6, <2>8, <2>9, <2>10, <2>11, <3>1, CoinsJoin
  <2>13. ASSUME NEW m \in Nodes, m # n PROVE CoinsOK(m)'
    BY <1>9, <2>2, <2>6, <2>11, <2>13, CoinsStay DEF CInv
  <2>14. ASSUME NEW c \in DOMAIN calls', c.op = "transaction" PROVE Plain(c.arg)
    <3>1. c \in DOMAIN calls \/ c = Call("broadcast", n, n, 0)
      BY <1>11, CallingIs
    <3>2. c \in DOMAIN calls
      BY <2>14, <3>1, CallIs
    <3> QED
      BY <2>14, <3>2 DEF CInv
  <2>15. \A h \in DOMAIN content' : PlainBlock(content'[h])
    BY <2>4, <2>8 DEF CInv
  <2> QED
    BY <1>9, <2>11, <2>12, <2>13, <2>14, <2>15 DEF CInv, WalletPlain
<1>12. ASSUME UNCHANGED <<content, chain, utxos, calls, skipped>>,
              pool' = [pool EXCEPT ![n] = rest]
       PROVE  CInv'
  <2>1. Growing
    BY <1>12 DEF Growing, IInv
  <2>2. pool'[n] = rest /\ \A m \in Nodes \ {n} : pool'[m] = pool[m]
    BY <1>12 DEF LInv
  <2>3. ASSUME NEW m \in Nodes, m # n PROVE CoinsOK(m)'
    BY <1>9, <1>12, <2>1, <2>2, <2>3, CoinsStay DEF CInv
  <2>4. PICK T : T = TxsOf(chain[n].blocks)
    OBVIOUS
  <2>5. T = TxsOf(chain[n].blocks)'
    BY <1>12, <2>4 DEF TxsOf
  <2>6. CoinsOK(n)'
    BY <1>1, <1>7, <1>9, <1>10, <1>12, <2>2, <2>4, <2>5 DEF CoinsOK
  <2> QED
    BY <1>9, <1>12, <2>3, <2>6 DEF CInv, WalletPlain
<1> QED
  BY <1>1, <1>2, <1>3, <1>4, <1>5, <1>6, <1>11, <1>12 DEF PostBlocks, BlockLinks, Unlinked

\* The transactions of a block that is received, linked with unspent outputs, and
\* valid, can be paid for from them.
LEMMA ReceivedSettled ==
  ASSUME NEW ts, BlockOK(ts), ts # <<>>, NEW u, NEW i, ValidList(LinkAll(ts, u), i),
         NEW T, Backed(T, u)
  PROVE  Settled(T, u, ts)
<1>1. PICK ls : ls = LinkAll(ts, u)
  OBVIOUS
<1>2. DOMAIN ls = DOMAIN ts
      /\ \A k \in DOMAIN ts : ls[k].tx = ts[k] /\ ls[k].unspent = u
  BY <1>1 DEF LinkAll, Link
<1>3. \A k \in DOMAIN ts : ts[k].type = (IF k = 1 THEN "reward" ELSE "standard")
                           /\ ValidTx(ts[k], u)
  BY <1>1, <1>2 DEF ValidList
<1>4. ASSUME NEW k \in DOMAIN ts, k # 1 PROVE FoundIn(ts[k], u) /\ Balanced(ts[k], u)
  <2>1. ts[k].type = "standard" /\ ValidTx(ts[k], u)
    BY <1>3, <1>4
  <2>2. ValidStandard(ts[k], u)
    BY <2>1 DEF ValidTx
  <2> QED
    BY <2>2 DEF ValidStandard, Balanced, FoundIn, Matching, ToSet
<1>5. 1 \in DOMAIN ts
  BY DEF BlockOK, IsList
<1>6. ValidReward(ts[1])
  <2>1. ts[1].type = "reward" /\ ValidTx(ts[1], u)
    BY <1>3, <1>5
  <2> QED
    BY <2>1 DEF ValidTx
<1>7. FoundIn(ts[1], u)
  <2>1. DOMAIN ts[1].inputs = {}
    BY <1>6 DEF ValidReward
  <2> QED
    BY <2>1 DEF FoundIn
<1> QED
  BY <1>4, <1>6, <1>7 DEF Settled

\* handle_receive_latest_block.
LEMMA ReceiveLatestBlockCoins ==
  ASSUME IInv, LInv, CInv, NEW c \in DOMAIN calls, ReceiveLatestBlock(c)
  PROVE  CInv'
<1>1. PICK n : n = c.at
  OBVIOUS
<1>2. PICK b : b = c.arg
  OBVIOUS
<1>3. PICK ts : ts = content[b.hash]
  OBVIOUS
<1>4. /\ n \in Nodes /\ WellFormed(b) /\ b \in Block /\ BlockOK(ts) /\ PlainBlock(ts)
      /\ content' = content /\ wallet' = wallet
  BY <1>1, <1>2, <1>3 DEF ReceiveLatestBlock, IInv, CallOK, WellFormed, LInv, CInv
<1>5. ASSUME NEW d \in DOMAIN calls', d.op = "transaction" PROVE Plain(d.arg)
  <2>1. \/ Serving(c, {})
        \/ Serving(c, {Call("request", n, c.from, 0)})
    BY <1>1 DEF ReceiveLatestBlock, TakeBlock
  <2>2. d \in DOMAIN calls \/ d = Call("request", n, c.from, 0)
    BY <2>1, ServingIs
  <2>3. d \in DOMAIN calls
    BY <1>5, <2>2, CallIs
  <2> QED
    BY <1>5, <2>3 DEF CInv
<1>6. CoinsOK(n) /\ ListsOK(n)
  BY <1>4 DEF CInv, LInv
<1>7. ASSUME UpdateLists(n, ts)
      PROVE  /\ \A m \in Nodes \ {n} : utxos'[m] = utxos[m] /\ pool'[m] = pool[m]
             /\ utxos'[n] = UpdateAll(utxos[n], ts)
             /\ \A x \in ToSet(pool'[n]) : x \in ToSet(pool[n])
             /\ DOMAIN skipped' = Nodes /\ \A m \in Nodes \ {n} : skipped'[m] = skipped[m]
             /\ ~skipped'[n] =>
                  ~skipped[n] /\ \A x \in ToSet(pool'[n]) : FoundIn(x.tx, utxos'[n])
  <2>1. /\ \A m \in Nodes \ {n} : utxos'[m] = utxos[m] /\ pool'[m] = pool[m]
        /\ utxos'[n] = UpdateAll(utxos[n], ts)
        /\ \A x \in ToSet(pool'[n]) : x \in ToSet(pool[n])
    BY <1>4, <1>7, UpdateListsIs
  <2>2. PruneTo(n, RemoveAll(pool[n], ts), UpdateAll(utxos[n], ts))
    BY <1>7 DEF UpdateLists
  <2> QED
    BY <1>4, <2>1, <2>2, PruneIs
<1>8. CASE Verdict(n, b) = "request"
  <2>1. chain' = chain /\ ahead' = [ahead EXCEPT ![n] = TRUE] /\ UpdateLists(n, ts)
    BY <1>1, <1>2, <1>3, <1>8 DEF ReceiveLatestBlock, TakeBlock
  <2>2. Growing
    BY <1>4, <2>1 DEF Growing, IInv
  <2>3. ahead'[n] = TRUE /\ \A m \in Nodes \ {n} : ahead'[m] = ahead[m]
    BY <1>4, <2>1 DEF LInv
  <2>4. ValuedList(utxos'[n])
    <3>1. ValuedList(utxos[n]) /\ \A k \in DOMAIN ts : Plain(ts[k])
      BY <1>4, <1>6 DEF CoinsOK, PlainBlock
    <3> QED
      BY <1>4, <1>7, <2>1, <3>1, BlockValued
  <2>5. \A x \in ToSet(pool'[n]) : Plain(x.tx)
    BY <1>6, <1>7, <2>1 DEF CoinsOK
  <2>6. CoinsOK(n)'
    BY <2>3, <2>4, <2>5 DEF CoinsOK, Plain, IsInput
  <2>7. ASSUME NEW m \in Nodes, m # n PROVE CoinsOK(m)'
    BY <1>7, <2>1, <2>2, <2>3, <2>7, CoinsStay DEF CInv
  <2> QED
    BY <1>4, <1>5, <1>7, <2>1, <2>6, <2>7 DEF CInv, WalletPlain
<1>9. CASE Verdict(n, b) = "append"
  <2>1. /\ chain' = [chain EXCEPT ![n] = AppendNextBlock(chain[n], b, Clock).chain]
        /\ ahead' = ahead /\ UpdateLists(n, ts)
    BY <1>1, <1>2, <1>3, <1>9 DEF ReceiveLatestBlock, TakeBlock
  <2>2. PICK d : d = AppendNextBlock(chain[n], b, Clock).chain
    OBVIOUS
  <2>3. /\ d.blocks = Append(chain[n].blocks, b) /\ b.index = Len(chain[n].blocks)
        /\ ValidList(LinkAll(ts, utxos[n]), b.index)
    BY <1>3, <1>4, <1>9, <2>2, AppendsIt
  <2>4. /\ chain[n] \in Chain /\ Linked(chain[n].blocks) /\ Clock \in Int
        /\ chain[n].blocks \in Seq(Block)
    BY <1>4 DEF IInv, ChainOK, Clock, Chain
  <2>5. d \in Chain /\ d.blocks # <<>>
    <3>1. d \in Chain
      BY <1>4, <2>2, <2>4, AppendNextBlockOK
    <3> QED
      BY <1>4, <2>3, <2>4, <3>1
  <2>6. chain'[n] = d /\ \A m \in Nodes \ {n} : chain'[m] = chain[m]
    BY <1>4, <2>1, <2>2 DEF IInv
  <2>7. Growing
    BY <1>4, <2>1, <2>2, <2>5, <2>6 DEF Growing, IInv
  <2>8. \A k \in DOMAIN ts : ts[k].index = Len(chain[n].blocks)
    BY <1>3, <1>4, <2>3 DEF WellFormed
  <2>9. ASSUME ~ahead[n] PROVE Settled(TxsOf(chain[n].blocks), utxos[n], ts)
    <3>1. PICK T : T = TxsOf(chain[n].blocks)
      OBVIOUS
    <3>2. PICK u : u = utxos[n]
      OBVIOUS
    <3>3. Backed(T, u)
      <4>1. Exact(T, u) /\ ValuedList(u)
        BY <1>4, <1>6, <2>9, <3>1, <3>2, ListsExact DEF CoinsOK
      <4> QED
        BY <4>1, ExactBacked
    <3>4. PICK i : ValidList(LinkAll(ts, u), i)
      BY <2>3, <3>2
    <3>5. ts # <<>>
      BY <1>4 DEF PlainBlock
    <3>6. Settled(T, u, ts)
      BY <1>4, <3>3, <3>4, <3>5, ReceivedSettled
    <3> QED
      BY <3>1, <3>2, <3>6
  <2>10. ASSUME ~ahead[n], NEW k \in DOMAIN ts
         PROVE  Closed(TxsOf(chain[n].blocks), ts[k])
    <3>1. Exact(TxsOf(chain[n].blocks), utxos[n])
      BY <1>4, <2>10, ListsExact
    <3>2. CASE ts[k].inputs = <<>>
      <4>1. DOMAIN ts[k].inputs = {}
        BY <3>2
      <4> QED
        BY <4>1 DEF Closed
    <3>3. CASE ts[k].inputs # <<>>
      <4>1. StandardOK(ts[k]) /\ ValidTx(ts[k], utxos[n])
        BY <1>4, <2>3, <3>3, ValidLinked
      <4> QED
        BY <3>1, <4>1, ValidClosed
    <3> QED
      BY <3>2, <3>3
  <2>11. CoinsOK(n)'
    <3>1. PICK r : r = pool'[n]
      OBVIOUS
    <3>2. content'[b.hash] = ts /\ ahead'[n] = ahead[n]
      BY <1>3, <1>4, <2>1
    <3>3. /\ utxos'[n] = UpdateAll(utxos[n], ts) /\ \A x \in ToSet(r) : x \in ToSet(pool[n])
          /\ ~skipped'[n] => ~skipped[n] /\ \A x \in ToSet(r) : FoundIn(x.tx, utxos'[n])
      BY <1>7, <2>1, <3>1
    <3>4. chain'[n].blocks = Append(chain[n].blocks, b)
      BY <2>3, <2>6
    <3> QED
      BY <1>4, <1>6, <2>7, <2>8, <2>9, <2>10, <3>1, <3>2, <3>3, <3>4, CoinsJoin
  <2>12. ASSUME NEW m \in Nodes, m # n PROVE CoinsOK(m)'
    BY <1>7, <2>1, <2>6, <2>7, <2>12, CoinsStay DEF CInv
  <2> QED
    BY <1>4, <1>5, <1>7, <2>1, <2>11, <2>12 DEF CInv, WalletPlain
<1>10. CASE Verdict(n, b) \notin {"request", "append"}
  <2>1. chain' = chain /\ ahead' = ahead /\ utxos' = utxos /\ pool' = pool
        /\ skipped' = skipped
    BY <1>1, <1>2, <1>10 DEF ReceiveLatestBlock, TakeBlock
  <2>2. Growing
    BY <1>4, <2>1 DEF Growing, IInv
  <2>3. \A m \in Nodes : CoinsOK(m)'
    BY <2>1, <2>2, CoinsStay DEF CInv
  <2> QED
    BY <1>4, <1>5, <2>1, <2>3 DEF CInv, WalletPlain
<1> QED
  BY <1>8, <1>9, <1>10

-----------------------------------------------------------------------------
(* The coins of a chain that is loaded.                                     *)

\* The loop over the one transaction of a block.
LEMMA UpdateOne ==
  ASSUME NEW S, NEW u \in Seq(S), NEW ts, IsList(ts),
         \A k \in DOMAIN ts : TxOK(ts[k]) /\ OutputsIn(ts[k], S)
  PROVE  Len(ts) = 1 => UpdateAll(u, ts) = Update(u, ts[1])
<1>1. PICK g \in [0..Len(ts) -> Seq(S)] :
        /\ g[0] = u /\ UpdateAll(u, ts) = g[Len(ts)]
        /\ \A k \in 1..Len(ts) : g[k] = Update(g[k - 1], ts[k])
  BY UpdateAllRounds
<1>2. ASSUME Len(ts) = 1 PROVE UpdateAll(u, ts) = Update(u, ts[1])
  <2>1. 1 \in 1..Len(ts) /\ 1 - 1 = 0
    BY <1>2
  <2> QED
    BY <1>1, <1>2, <2>1
<1> QED
  BY <1>2

\* A block that is just a reward.
LEMMA RewardBlockWorth ==
  ASSUME NEW S, Amounting(S), NEW u \in Seq(S), NEW ts, BlockOK(ts), ts # <<>>,
         \A k \in DOMAIN ts : OutputsIn(ts[k], S) /\ ts[k].inputs = <<>>,
         ValidReward(ts[1])
  PROVE  Worth(UpdateAll(u, ts)) = Worth(u) + RewardAmount
<1>1. PICK n \in Nat : n = Len(ts) /\ DOMAIN ts = 1..n
  BY DEF BlockOK, IsList
<1>2. n = 1
  <2>1. n # 0
    BY <1>1 DEF BlockOK, IsList
  <2>2. \A k \in 1..n : k = 1
    BY <1>1 DEF BlockOK
  <2>3. n \in 1..n
    BY <2>1
  <2> QED
    BY <2>2, <2>3
<1>3. IsList(ts) /\ \A k \in DOMAIN ts : TxOK(ts[k]) /\ OutputsIn(ts[k], S)
  BY DEF BlockOK
<1>4. UpdateAll(u, ts) = Update(u, ts[1])
  BY <1>1, <1>2, <1>3, UpdateOne
<1>5. TxOK(ts[1]) /\ OutputsIn(ts[1], S)
  BY <1>1, <1>2, <1>3
<1> QED
  BY <1>4, <1>5, RewardWorth

\* A reward in front of each of the blocks bs, and nothing that takes outputs.
OnlyRewards(bs) ==
  \A i \in DOMAIN bs :
    /\ ValidReward(content[bs[i].hash][1])
    /\ \A k \in DOMAIN content[bs[i].hash] : content[bs[i].hash][k].inputs = <<>>

\* blockchain_setup computes unspent outputs that are worth the rewards.
LEMMA RebuiltWorth ==
  ASSUME LInv, CInv, NEW bs, AllWellFormed(bs), OnlyRewards(bs)
  PROVE  ValuedList(Rebuilt(bs)) /\ Worth(Rebuilt(bs)) = RewardAmount * Len(bs)
<1> DEFINE n == Len(bs)
           C(i) == content[bs[i].hash]
           O(t) == {UnspentOutput(t, j) : j \in DOMAIN t.outputs}
           S == UNION {UNION {O(C(i)[k]) : k \in DOMAIN C(i)} : i \in DOMAIN bs}
<1>1. bs \in Seq(Block) /\ n \in Nat /\ DOMAIN bs = 1..n
  BY DEF AllWellFormed
<1>2. ASSUME NEW i \in DOMAIN bs PROVE BlockOK(C(i)) /\ PlainBlock(C(i))
  BY DEF AllWellFormed, WellFormed, LInv, CInv
<1>3. ASSUME NEW i \in DOMAIN bs, NEW k \in DOMAIN C(i) PROVE OutputsIn(C(i)[k], S)
  BY DEF OutputsIn
<1>4. Amounting(S)
  <2>1. ASSUME NEW o \in S PROVE o.output.amount \in Int
    <3>1. PICK i \in DOMAIN bs : \E k \in DOMAIN C(i) : o \in O(C(i)[k])
      OBVIOUS
    <3>2. PICK k \in DOMAIN C(i) : o \in O(C(i)[k])
      BY <3>1
    <3>3. PICK t : t = C(i)[k]
      OBVIOUS
    <3>4. PICK j \in DOMAIN t.outputs : o = UnspentOutput(t, j)
      BY <3>2, <3>3
    <3>5. Plain(t)
      BY <1>2, <3>3 DEF PlainBlock
    <3>6. o.output = t.outputs[j]
      BY <3>4 DEF UnspentOutput
    <3> QED
      BY <3>5, <3>6 DEF Plain
  <2> HIDE DEF S
  <2> QED
    BY <2>1 DEF Amounting
<1> HIDE DEF S
<1>5. \A i \in DOMAIN bs : TxsAre(C(i), S)
  BY <1>2, <1>3 DEF TxsAre, BlockOK
<1>6. PICK g \in [0..n -> Seq(S)] :
        /\ g[0] = <<>> /\ Rebuilt(bs) = g[n]
        /\ \A k \in 1..n : g[k] = UpdateAll(g[k - 1], C(k))
  BY <1>1, <1>5, RebuiltRounds
<1> HIDE DEF n
<1> DEFINE D == {k \in Nat : k <= n => Worth(g[k]) = RewardAmount * k}
<1>7. 0 \in D
  <2>1. Worth(<<>>) = 0
    <3>1. <<>> \in Seq(S) /\ Len(<<>>) = 0
      OBVIOUS
    <3> QED
      BY <1>4, <3>1, WorthRounds
  <2>2. RewardAmount * 0 = 0
    BY TransactionAssumption
  <2> QED
    BY <1>6, <2>1, <2>2
<1>8. ASSUME NEW k \in Nat, k \in D PROVE k + 1 \in D
  <2> SUFFICES ASSUME k + 1 <= n PROVE Worth(g[k + 1]) = RewardAmount * (k + 1)
    BY <1>8
  <2>1. k + 1 \in 1..n /\ (k + 1) - 1 = k /\ k \in 0..n /\ k <= n
    BY <1>1
  <2>2. PICK v \in Seq(S) : v = g[k]
    BY <1>6, <2>1
  <2>3. PICK ts : ts = C(k + 1)
    OBVIOUS
  <2>4. g[k + 1] = UpdateAll(v, ts) /\ Worth(v) = RewardAmount * k
    BY <1>6, <1>8, <2>1, <2>2, <2>3
  <2>5. k + 1 \in DOMAIN bs
    BY <1>1, <2>1
  <2>6. /\ BlockOK(ts) /\ ts # <<>> /\ ValidReward(ts[1])
        /\ \A i \in DOMAIN ts : OutputsIn(ts[i], S) /\ ts[i].inputs = <<>>
    BY <1>2, <1>3, <2>3, <2>5 DEF PlainBlock, OnlyRewards
  <2>7. Worth(UpdateAll(v, ts)) = Worth(v) + RewardAmount
    BY <1>4, <2>6, RewardBlockWorth
  <2>8. RewardAmount * k + RewardAmount = RewardAmount * (k + 1)
    BY TransactionAssumption
  <2> QED
    BY <2>4, <2>7, <2>8
<1> HIDE DEF D
<1>9. n \in D
  BY <1>1, <1>7, <1>8, SetInduction
<1>10. Worth(g[n]) = RewardAmount * n /\ g[n] \in Seq(S)
  <2>1. n \in 0..n
    BY <1>1
  <2> QED
    BY <1>1, <1>6, <1>9, <2>1 DEF D
<1> QED
  BY <1>4, <1>6, <1>10 DEF ValuedList, n

\* A chain that is loaded conserves coins.
LEMMA LoadedConserved ==
  ASSUME LInv, CInv, NEW bs, AllWellFormed(bs), Loads(bs)
  PROVE  ValuedList(Rebuilt(bs)) /\ Conserved(content, bs, Rebuilt(bs))
<1>1. \A i \in DOMAIN bs : \A k \in DOMAIN content[bs[i].hash] :
        content[bs[i].hash][k].inputs = <<>>
  BY LoadedWithoutInputs
<1>2. ASSUME NEW i \in DOMAIN bs PROVE ValidReward(content[bs[i].hash][1])
  <2>1. PICK ts : ts = content[bs[i].hash]
    OBVIOUS
  <2>2. BlockOK(ts) /\ PlainBlock(ts) /\ ValidList(LinkAll(ts, <<>>), bs[i].index)
    BY <2>1 DEF AllWellFormed, WellFormed, LInv, CInv, Loads
  <2>3. 1 \in DOMAIN ts
    BY <2>2 DEF BlockOK, IsList, PlainBlock
  <2>4. PICK ls : ls = LinkAll(ts, <<>>)
    OBVIOUS
  <2>5. 1 \in DOMAIN ls /\ ls[1].tx = ts[1]
    BY <2>3, <2>4 DEF LinkAll, Link
  <2>6. ls[1].tx.type = "reward" /\ ValidTx(ls[1].tx, ls[1].unspent)
    BY <2>2, <2>4, <2>5 DEF ValidList
  <2> QED
    BY <2>1, <2>5, <2>6 DEF ValidTx
<1>3. OnlyRewards(bs)
  BY <1>1, <1>2 DEF OnlyRewards
<1>4. ASSUME NEW i \in DOMAIN bs, NEW t \in ToSet(content[bs[i].hash])
      PROVE  DOMAIN t.inputs = {}
  <2>1. t.inputs = <<>>
    BY <1>1 DEF ToSet
  <2> QED
    BY <2>1
<1>5. OnceIn(content, bs)
  BY <1>4 DEF OnceIn, SharesInput
<1>6. ValuedList(Rebuilt(bs)) /\ Worth(Rebuilt(bs)) = RewardAmount * Len(bs)
  BY <1>3, RebuiltWorth
<1> QED
  BY <1>5, <1>6 DEF Conserved

\* handle_receive_all_blocks.
LEMMA ReceiveAllBlocksCoins ==
  ASSUME IInv, LInv, CInv, NEW c \in DOMAIN calls, ReceiveAllBlocks(c)
  PROVE  CInv'
<1>1. PICK n : n = c.at
  OBVIOUS
<1>2. PICK bs : bs = c.arg
  OBVIOUS
<1>3. PICK d : d = FromJson(bs, Clock).chain
  OBVIOUS
<1>4. /\ n \in Nodes /\ AllWellFormed(bs) /\ content' = content /\ wallet' = wallet
      /\ Serving(c, {})
  BY <1>1, <1>2 DEF ReceiveAllBlocks, IInv, CallOK
<1>5. \A e \in DOMAIN calls' : e \in DOMAIN calls
  BY <1>4, ServingIs
<1>6. CASE Loads(bs) /\ Greater(d, chain[n])
  <2>1. /\ chain' = [chain EXCEPT ![n] = d] /\ utxos' = [utxos EXCEPT ![n] = Rebuilt(bs)]
        /\ pool' = [pool EXCEPT ![n] = <<>>] /\ ahead' = [ahead EXCEPT ![n] = FALSE]
        /\ skipped' = [skipped EXCEPT ![n] = FALSE]
    BY <1>1, <1>2, <1>3, <1>6 DEF ReceiveAllBlocks
  <2>2. bs \in Seq(Block) /\ Clock \in Int
    BY <1>4 DEF AllWellFormed, Clock
  <2>3. LoadedFrom(bs, Len(bs), FromJson(bs, Clock)) /\ FromJson(bs, Clock).ok
    BY <1>6, <2>2, FromJsonOK DEF Loads
  <2>4. /\ d \in Chain /\ Linked(d.blocks) /\ d.blocks \in Seq(Block)
        /\ \A i \in DOMAIN d.blocks : i \in DOMAIN bs /\ d.blocks[i] = bs[i]
        /\ Len(d.blocks) = Len(bs)
    BY <1>3, <2>3 DEF LoadedFrom, Chain
  <2>5. d.blocks = bs
    BY <2>2, <2>4
  <2>6. chain[n] \in Chain /\ chain[n].blocks \in Seq(Block)
    BY <1>4 DEF IInv, Chain
  <2>7. d.blocks # <<>>
    <3>1. Len(d.blocks) > Len(chain[n].blocks)
      BY <1>6, LedgerAssumption DEF Greater
    <3> QED
      BY <2>6, <3>1
  <2>8. chain'[n] = d /\ \A m \in Nodes \ {n} : chain'[m] = chain[m]
    BY <1>4, <2>1 DEF IInv
  <2>9. Growing
    BY <1>4, <2>1, <2>4, <2>7, <2>8 DEF Growing, IInv
  <2>10. PICK u : u = Rebuilt(bs)
    OBVIOUS
  <2>11. PICK ct : ct = content
    OBVIOUS
  <2>12. ValuedList(u) /\ Conserved(ct, bs, u)
    BY <1>4, <1>6, <2>10, <2>11, LoadedConserved
  <2>13. PICK e : e = <<>>
    OBVIOUS
  <2>14. ToSet(e) = {}
    <3>1. DOMAIN e = {}
      BY <2>13
    <3> QED
      BY <3>1 DEF ToSet
  <2>15. /\ \A m \in Nodes \ {n} : utxos'[m] = utxos[m] /\ pool'[m] = pool[m]
                                   /\ ahead'[m] = ahead[m] /\ skipped'[m] = skipped[m]
         /\ utxos'[n] = u /\ pool'[n] = e /\ DOMAIN skipped' = Nodes
         /\ chain'[n].blocks = bs /\ content' = ct
    BY <1>4, <2>1, <2>5, <2>8, <2>10, <2>11, <2>13 DEF LInv, CInv
  <2>16. CoinsOK(n)'
    BY <2>12, <2>14, <2>15 DEF CoinsOK
  <2>17. ASSUME NEW m \in Nodes, m # n PROVE CoinsOK(m)'
    BY <2>8, <2>9, <2>15, <2>17, CoinsStay DEF CInv
  <2> QED
    BY <1>4, <1>5, <2>15, <2>16, <2>17 DEF CInv, WalletPlain
<1>7. CASE ~(Loads(bs) /\ Greater(d, chain[n]))
  <2>1. chain' = chain /\ ahead' = ahead /\ utxos' = utxos /\ pool' = pool
        /\ skipped' = skipped
    BY <1>1, <1>2, <1>3, <1>7 DEF ReceiveAllBlocks
  <2>2. Growing
    BY <1>4, <2>1 DEF Growing, IInv
  <2>3. \A m \in Nodes : CoinsOK(m)'
    BY <2>1, <2>2, CoinsStay DEF CInv
  <2> QED
    BY <1>4, <1>5, <2>1, <2>3 DEF CInv, WalletPlain
<1> QED
  BY <1>6, <1>7

-----------------------------------------------------------------------------
\* CInv holds of the network: amounts are numbers, the copies of unspent outputs
\* that pools hold are of outputs that the chain created, and what the unspent
\* outputs of a node are worth follows from its chain.
THEOREM CoinsInvariance == Spec => []CInv
<1>1. Init => CInv
  <2> SUFFICES ASSUME Init PROVE CInv
    OBVIOUS
  <2>1. PICK e : e = <<>>
    OBVIOUS
  <2>2. e \in Seq({}) /\ DOMAIN e = {} /\ ToSet(e) = {} /\ Len(e) = 0
    BY <2>1 DEF ToSet
  <2>3. content = e /\ DOMAIN calls = {}
    BY <2>1 DEF Init, EmptyBag, SetToBag
  <2>4. \A n \in Nodes : utxos[n] = e /\ pool[n] = e /\ chain[n].blocks = e
    BY <2>1 DEF Init, EmptyChain
  <2>5. Amounting({}) /\ ValuedList(e)
    BY <2>2 DEF Amounting, ValuedList
  <2>6. Conserved(content, e, e)
    <3>1. Worth(e) = 0
      BY <2>2, <2>5, WorthRounds
    <3>2. RewardAmount * Len(e) = 0
      BY <2>2, TransactionAssumption
    <3> QED
      BY <2>2, <3>1, <3>2 DEF Conserved, OnceIn
  <2>7. \A n \in Nodes : CoinsOK(n)
    BY <2>2, <2>4, <2>5, <2>6 DEF CoinsOK
  <2>8. \A a \in Addresses : WalletPlain(wallet[a])
    BY DEF Init, WalletPlain, NoTransfer
  <2>9. DOMAIN skipped = Nodes
    BY DEF Init
  <2> QED
    BY <2>2, <2>3, <2>7, <2>8, <2>9 DEF CInv
<1>2. IInv /\ LInv /\ CInv /\ [Next]_vars => CInv'
  <2> SUFFICES ASSUME IInv, LInv, CInv, [Next]_vars PROVE CInv'
    OBVIOUS
  <2>1. CASE UNCHANGED <<content, chain, utxos, pool, wallet, ahead, skipped>>
             /\ \A c \in DOMAIN calls' : c \in DOMAIN calls \/ c.op # "transaction"
    <3>1. Growing
      BY <2>1 DEF Growing, IInv
    <3>2. \A n \in Nodes : CoinsOK(n)'
      BY <2>1, <3>1, CoinsStay DEF CInv
    <3> QED
      BY <2>1, <3>2 DEF CInv, WalletPlain
  <2>2. ASSUME NEW a \in Addresses, Transfer(a) PROVE CInv'
    BY <2>2, TransferUnspentCoins, TransferLatestCoins, TransferPostCoins DEF Transfer
  <2>3. ASSUME NEW n \in Nodes, NEW a \in Addresses, PostBlocks(n, a) PROVE CInv'
    BY <2>3, PostBlocksCoins
  <2>4. ASSUME NEW c \in DOMAIN calls, BroadcastLatestBlock(c) PROVE CInv'
    <3>1. PICK b : b = Latest(chain[c.at])
      OBVIOUS
    <3>2. /\ UNCHANGED <<content, chain, utxos, pool, wallet, ahead, skipped>>
          /\ Serving(c, {Call("block", m, c.at, b) : m \in Others(c.at)})
      BY <2>4, <3>1 DEF BroadcastLatestBlock
    <3>3. ASSUME NEW d \in DOMAIN calls', d \notin DOMAIN calls PROVE d.op # "transaction"
      <4>1. PICK m \in Others(c.at) : d = Call("block", m, c.at, b)
        BY <3>2, <3>3, ServingIs
      <4> QED
        BY <4>1, CallIs
    <3> QED
      BY <2>1, <3>2, <3>3
  <2>5. ASSUME NEW c \in DOMAIN calls, RequestAllBlocks(c) PROVE CInv'
    <3>1. PICK bs : bs = chain[c.from].blocks
      OBVIOUS
    <3>2. /\ UNCHANGED <<content, chain, utxos, pool, wallet, ahead, skipped>>
          /\ Serving(c, {Call("load", c.at, c.from, bs)})
      BY <2>5, <3>1 DEF RequestAllBlocks
    <3>3. ASSUME NEW d \in DOMAIN calls', d \notin DOMAIN calls PROVE d.op # "transaction"
      <4>1. d = Call("load", c.at, c.from, bs)
        BY <3>2, <3>3, ServingIs
      <4> QED
        BY <4>1, CallIs
    <3> QED
      BY <2>1, <3>2, <3>3
  <2>6. ASSUME NEW c \in DOMAIN calls, Serve(c) PROVE CInv'
    BY <2>4, <2>5, <2>6, ReceiveTransactionCoins, ReceiveLatestBlockCoins,
       ReceiveAllBlocksCoins DEF Serve
  <2>7. CASE UNCHANGED vars
    BY <2>1, <2>7 DEF vars
  <2> QED
    BY <2>2, <2>3, <2>6, <2>7 DEF Next
<1> QED
  BY <1>1, <1>2, Invariance, ListsInvariance, PTL DEF Spec

\* CoinsConserved holds of the network: unless prune has skipped a transaction, no
\* output is spent twice, and unless a transaction names an output twice, rewards
\* are the only source of coins, whatever order blocks and transactions arrive in.
THEOREM CoinsStayConserved == Spec => []CoinsConserved
<1>1. IInv /\ LInv /\ CInv => CoinsConserved
  <2> SUFFICES ASSUME IInv, LInv, CInv, NEW n \in Nodes, ~ahead[n], ~skipped[n]
               PROVE  /\ SpendsOnce(n)
                      /\ (\A p \in TxAt(n) : IsInjective(TxOf(n, p).inputs))
                         => RewardsAddUp(n)
    BY DEF CoinsConserved
  <2>1. PICK bs : bs = chain[n].blocks
    OBVIOUS
  <2>2. PICK ct : ct = content
    OBVIOUS
  <2>3. PICK u : u = utxos[n]
    OBVIOUS
  <2>4. OnceIn(ct, bs) /\ (Injective(TxsIn(ct, bs)) => Worth(u) = RewardAmount * Len(bs))
    BY <2>1, <2>2, <2>3 DEF CInv, CoinsOK, Conserved
  <2>5. ASSUME NEW p \in TxAt(n)
        PROVE  \E i \in DOMAIN bs : \E k \in DOMAIN ct[bs[i].hash] :
                 p = <<i, k>> /\ TxOf(n, p) = ct[bs[i].hash][k]
    <3>1. PICK i \in DOMAIN bs : \E k \in DOMAIN ct[bs[i].hash] : p = <<i, k>>
      BY <2>1, <2>2 DEF TxAt
    <3>2. PICK k \in DOMAIN ct[bs[i].hash] : p = <<i, k>>
      BY <3>1
    <3>3. TxOf(n, p) = ct[bs[i].hash][k]
      BY <2>1, <2>2, <3>2 DEF TxOf
    <3> QED
      BY <3>2, <3>3
  <2>6. ASSUME NEW j \in DOMAIN bs, NEW l \in DOMAIN ct[bs[j].hash]
        PROVE  <<j, l>> \in TxAt(n) /\ TxOf(n, <<j, l>>) = ct[bs[j].hash][l]
    BY <2>1, <2>2 DEF TxAt, TxOf
  <2>7. \A i \in DOMAIN bs : BlockOK(ct[bs[i].hash])
    BY <2>1, <2>2 DEF IInv, ChainOK, AllWellFormed, WellFormed, LInv
  <2>8. ASSUME NEW p \in TxAt(n), NEW k \in DOMAIN TxOf(n, p).inputs
        PROVE  /\ \E q \in TxAt(n) : \E i \in DOMAIN TxOf(n, q).outputs :
                    q[1] < p[1] /\ Refers(TxOf(n, p).inputs[k], UnspentOutput(TxOf(n, q), i))
               /\ \A q \in TxAt(n) : p # q => ~SharesInput(TxOf(n, p), TxOf(n, q))
    <3>1. PICK i \in DOMAIN bs : \E x \in DOMAIN ct[bs[i].hash] :
            p = <<i, x>> /\ TxOf(n, p) = ct[bs[i].hash][x]
      BY <2>5
    <3>2. PICK x \in DOMAIN ct[bs[i].hash] : p = <<i, x>> /\ TxOf(n, p) = ct[bs[i].hash][x]
      BY <3>1
    <3>3. PICK t : t = TxOf(n, p)
      OBVIOUS
    <3>4. t \in ToSet(ct[bs[i].hash]) /\ k \in DOMAIN t.inputs
      BY <3>2, <3>3 DEF ToSet
    <3>5. /\ \E j \in DOMAIN bs : j < i /\ Makes(ct[bs[j].hash], t.inputs[k])
          /\ \A j \in DOMAIN bs : j # i => \A q \in ToSet(ct[bs[j].hash]) : ~SharesInput(t, q)
      BY <2>4, <3>4 DEF OnceIn
    <3>6. \E q \in TxAt(n) : \E l \in DOMAIN TxOf(n, q).outputs :
            q[1] < p[1] /\ Refers(t.inputs[k], UnspentOutput(TxOf(n, q), l))
      <4>1. PICK j \in DOMAIN bs : j < i /\ Makes(ct[bs[j].hash], t.inputs[k])
        BY <3>5
      <4>2. PICK y \in DOMAIN ct[bs[j].hash] :
              \E l \in DOMAIN ct[bs[j].hash][y].outputs :
                Refers(t.inputs[k], UnspentOutput(ct[bs[j].hash][y], l))
        BY <4>1 DEF Makes, ToSet
      <4>3. PICK q : q = <<j, y>>
        OBVIOUS
      <4>4. q \in TxAt(n) /\ TxOf(n, q) = ct[bs[j].hash][y]
        BY <2>6, <4>3
      <4>5. q[1] < p[1]
        BY <3>2, <4>1, <4>3
      <4> QED
        BY <4>2, <4>4, <4>5
    <3>7. ASSUME NEW q \in TxAt(n), p # q PROVE ~SharesInput(t, TxOf(n, q))
      <4>1. PICK j \in DOMAIN bs : \E y \in DOMAIN ct[bs[j].hash] :
              q = <<j, y>> /\ TxOf(n, q) = ct[bs[j].hash][y]
        BY <2>5
      <4>2. PICK y \in DOMAIN ct[bs[j].hash] : q = <<j, y>> /\ TxOf(n, q) = ct[bs[j].hash][y]
        BY <4>1
      <4>3. CASE j = i
        <5>1. x # y
          BY <3>2, <3>7, <4>2, <4>3
        <5> QED
          BY <2>7, <3>2, <3>3, <4>2, <4>3, <5>1 DEF BlockOK
      <4>4. CASE j # i
        BY <3>5, <4>2, <4>4 DEF ToSet
      <4> QED
        BY <4>3, <4>4
    <3> QED
      BY <3>3, <3>6, <3>7
  <2>9. SpendsOnce(n)
    BY <2>8 DEF SpendsOnce
  <2>10. ASSUME \A p \in TxAt(n) : IsInjective(TxOf(n, p).inputs) PROVE RewardsAddUp(n)
    <3>1. Injective(TxsIn(ct, bs))
      BY <2>1, <2>2, <2>10, TxsAtPositions DEF Injective, TxsOf
    <3> QED
      BY <2>1, <2>3, <2>4, <3>1 DEF RewardsAddUp
  <2> QED
    BY <2>9, <2>10
<1> QED
  BY <1>1, Invariance, ListsInvariance, CoinsInvariance, PTL

=============================================================================
