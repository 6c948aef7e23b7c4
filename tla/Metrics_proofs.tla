--------------------------- MODULE Metrics_proofs ---------------------------
(***************************************************************************)
(* Proofs about Metrics, for any number of pools, managers, processors and *)
(* epochs: the ratios of the pools never add up to more than the whole,    *)
(* and what is granted for the metrics of an epoch never exceeds what was  *)
(* minted for it.                                                          *)
(***************************************************************************)
EXTENDS Metrics, Balances_proofs

(***************************************************************************)
(* Types.                                                                  *)
(***************************************************************************)
Metric == Nat \X Nat

Totals == [epoch : Nat, prev : Metric, cur : Metric]

Provisions == [current : 0 .. Accuracy,
               next : {None} \cup [epoch : Nat, value : 0 .. Accuracy]]

Pools == [name : Names, reward : Provisions, total : Totals]

Budgets == [epoch : Nat, prev : {0, metrics_reward}, cur : {0, metrics_reward}]

MetricsTypeOK ==
    /\ block \in Nat
    /\ cycle \in [epoch : Nat, epoch_start : Nat]
    /\ pools \in Seq(Pools) /\ Len(pools) <= MaxPools
    /\ metrics \in [Processors -> [PoolIds -> {None} \cup [epoch : Nat, metric : Nat]]]
    /\ epochSum \in [Managers -> [PoolIds -> Totals]]
    /\ rewards \in Budgets
    /\ manager \in [Processors -> Managers]
    /\ claimed \in [0 .. MaxBlock -> Nat]

(***************************************************************************)
(* Ratios: in this and every later epoch the pools get at most the whole.  *)
(***************************************************************************)
RatiosInv == \A e \in Nat : e >= cycle.epoch => RatioSum(pools, e) <= Accuracy

(***************************************************************************)
(* Sums: nothing is written for an epoch to come.  In the epoch under way  *)
(* the managers' sums make up no more than the total of a pool, and so     *)
(* they did in the epoch before; a pool without a total then, such as one  *)
(* created since, gives nothing for it.                                    *)
(***************************************************************************)
WrittenUpToNow ==
    /\ \A id \in DOMAIN pools : pools[id].total.epoch <= cycle.epoch
    /\ \A m \in Managers, id \in PoolIds : epochSum[m][id].epoch <= cycle.epoch

SumOf(m, id, e) == At(epochSum[m][id], e, NoMetric)

ManagersSum(id, e) == SumOver([m \in Managers |-> SumOf(m, id, e)[2]], Managers)

TotalOf(id, e) == At(pools[id].total, e, NoMetric)[2]

\* The ratio of a pool that has something to share.
SharedRatio(id, e) == IF TotalOf(id, e) = 0 THEN 0 ELSE ProvidedAt(pools[id].reward, e)

SharedRatios(e) == SumOver([id \in DOMAIN pools |-> SharedRatio(id, e)], DOMAIN pools)

SumsInv ==
    /\ WrittenUpToNow
    /\ \A e \in Nat \ disturbed :
          /\ e = cycle.epoch =>
                \A id \in DOMAIN pools : ManagersSum(id, e) <= TotalOf(id, e)
          /\ e + 1 = cycle.epoch =>
                /\ SharedRatios(e) <= Accuracy
                /\ \A id \in DOMAIN pools :
                      TotalOf(id, e) # 0 => ManagersSum(id, e) <= TotalOf(id, e)

(***************************************************************************)
(* Claims: a manager has claimed for the last epoch in the pools whose sum *)
(* has moved on to the epoch under way, and all claims together are within *)
(* the shares of those sums.                                               *)
(***************************************************************************)
HasClaimed(m, id) == epochSum[m][id].epoch = cycle.epoch

ShareOf(m, id, e) == Share(pools[id], e, SumOf(m, id, e))

ClaimedShare(m, id, e) == IF HasClaimed(m, id) THEN ShareOf(m, id, e) ELSE 0

PoolClaims(id, e) == SumOver([m \in Managers |-> ClaimedShare(m, id, e)], Managers)

ClaimedShares(e) == SumOver([id \in DOMAIN pools |-> PoolClaims(id, e)], DOMAIN pools)

ClaimsInv ==
    \A e \in DOMAIN claimed :
        /\ e >= cycle.epoch => claimed[e] = 0
        /\ e + 1 = cycle.epoch /\ e \notin disturbed =>
              Accuracy * claimed[e] <= ClaimedShares(e) * metrics_reward
        /\ e + 1 < cycle.epoch /\ e \notin disturbed => claimed[e] <= metrics_reward

MetricsInv == MetricsTypeOK /\ RatiosInv /\ SumsInv /\ ClaimsInv

-----------------------------------------------------------------------------
(***************************************************************************)
(* Arithmetic of ratios.                                                   *)
(***************************************************************************)
\* A quotient rounded down.
LEMMA Quotient ==
    ASSUME NEW n \in Nat, NEW d \in Nat \ {0}
    PROVE  n \div d \in Nat /\ d * (n \div d) <= n
  OBVIOUS

\* mul_floor rounds down.
LEMMA PartRounds ==
    ASSUME NEW ratio \in Nat, NEW n \in Nat
    PROVE  Part(ratio, n) \in Nat /\ Accuracy * Part(ratio, n) <= ratio * n
<1>1. ratio * n \in Nat /\ Accuracy \in Nat \ {0}
  BY MetricsAssumption
<1> QED BY <1>1, Quotient DEF Part

\* The smaller of two.
LEMMA MinOfTwo ==
    ASSUME NEW m \in Nat, NEW n \in Nat
    PROVE  Min({m, n}) \in Nat /\ Min({m, n}) <= m /\ Min({m, n}) <= n
<1>1. \E x \in {m, n} : \A y \in {m, n} : x <= y
  OBVIOUS
<1>2. Min({m, n}) \in {m, n} /\ \A y \in {m, n} : Min({m, n}) <= y
  BY <1>1, Zenon DEF Min
<1> QED BY <1>2

\* from_rational rounds down.
LEMMA RationalRounds ==
    ASSUME NEW m \in Nat, NEW n \in Nat \ {0}
    PROVE  Rational(m, n) \in Nat /\ n * Rational(m, n) <= Accuracy * m
<1>1. Min({m, n}) \in Nat /\ Min({m, n}) <= m /\ Accuracy \in Nat
  BY MinOfTwo, MetricsAssumption
<1> DEFINE k == Min({m, n})
<1> HIDE DEF k
<1>2. k * Accuracy \in Nat /\ k * Accuracy <= Accuracy * m
  BY <1>1 DEF k
<1>3. (k * Accuracy) \div n \in Nat /\ n * ((k * Accuracy) \div n) <= k * Accuracy
  BY <1>2, Quotient
<1> QED BY <1>1, <1>2, <1>3 DEF Rational, k

\* A common factor can be taken out.
LEMMA FactorOut ==
    ASSUME NEW c \in Nat \ {0}, NEW m \in Nat, NEW n \in Nat, c * m <= c * n
    PROVE  m <= n
  OBVIOUS

(***************************************************************************)
(* Buffers.                                                                *)
(***************************************************************************)
\* What a processor adds to a sum with the bonus.
Gain(metric, bonus) == metric + IF bonus THEN Part(BusyWeightBonus, metric) ELSE 0

\* A gain is a natural number.
LEMMA GainType == ASSUME NEW n \in Nat, NEW bonus \in BOOLEAN PROVE Gain(n, bonus) \in Nat
<1>1. BusyWeightBonus \in Nat
  BY MetricsAssumption
<1>2. Part(BusyWeightBonus, n) \in Nat
  BY <1>1, PartRounds
<1> QED BY <1>2 DEF Gain

\* What a sliding buffer holds.
LEMMA AtType ==
    ASSUME NEW b \in Totals, NEW e \in Nat
    PROVE  At(b, e, NoMetric) \in Metric
  BY DEF Totals, At, NoMetric, Metric

\* Adding to a sum keeps the types.
LEMMA AddMetricType ==
    ASSUME NEW sum \in Metric, NEW n \in Nat, NEW bonus \in BOOLEAN
    PROVE  AddMetric(sum, n, bonus) \in Metric /\ AddMetric(sum, n, bonus)[2] = sum[2] + Gain(n, bonus)
<1>1. BusyWeightBonus \in Nat
  BY MetricsAssumption
<1>2. Part(BusyWeightBonus, n) \in Nat
  BY <1>1, PartRounds
<1> QED BY <1>2 DEF AddMetric, Metric, Gain

\* SlidingBuffer::mutate in the epoch under way adds to its value and keeps
\* the value of the epoch before.
LEMMA AddAtNow ==
    ASSUME NEW b \in Totals, NEW e \in Nat, b.epoch <= e, NEW n \in Nat, NEW bonus \in BOOLEAN
    PROVE  /\ AddAt(b, e, n, bonus) \in Totals
           /\ AddAt(b, e, n, bonus).epoch = e
           /\ At(AddAt(b, e, n, bonus), e, NoMetric)[2] = At(b, e, NoMetric)[2] + Gain(n, bonus)
           /\ \A x \in Nat : x + 1 = e =>
                 At(AddAt(b, e, n, bonus), x, NoMetric) = At(b, x, NoMetric)
<1> DEFINE v == AddMetric(At(b, e, NoMetric), n, bonus)
<1>1. v \in Metric /\ v[2] = At(b, e, NoMetric)[2] + Gain(n, bonus)
  BY AtType, AddMetricType
<1>2. AddAt(b, e, n, bonus) = Slide(b, e, v, NoMetric)
  BY DEF AddAt
<1> HIDE DEF v
<1>3. b.epoch \in Nat /\ b.prev \in Metric /\ b.cur \in Metric /\ NoMetric \in Metric
  BY DEF Totals, NoMetric, Metric
<1>4. CASE e = b.epoch
  <2>1. Slide(b, e, v, NoMetric) = [b EXCEPT !.cur = v]
    BY <1>3, <1>4 DEF Slide
  <2> QED BY <1>1, <1>2, <1>3, <1>4, <2>1 DEF Totals, At
<1>5. CASE e # b.epoch
  <2>1. Slide(b, e, v, NoMetric)
          = [epoch |-> e, cur |-> v, prev |-> IF e = b.epoch + 1 THEN b.cur ELSE NoMetric]
    BY <1>3, <1>5 DEF Slide
  <2> QED BY <1>1, <1>2, <1>3, <1>5, <2>1 DEF Totals, At
<1> QED BY <1>4, <1>5

\* A ratio that is provided is one.
LEMMA ProvidedType ==
    ASSUME NEW b \in Provisions, NEW e \in Nat
    PROVE  ProvidedAt(b, e) \in 0 .. Accuracy /\ ProvidedAt(b, e) \in Nat
  BY MetricsAssumption DEF Provisions, ProvidedAt

\* ProvisionalBuffer::set keeps the types.
LEMMA ProvideType ==
    ASSUME NEW b \in Provisions, NEW now \in Nat, NEW e \in Nat, NEW v \in 0 .. Accuracy
    PROVE  Provide(b, now, e, v) \in Provisions
  BY DEF Provisions, Provide, ProvisionalBuffer

\* There are finitely many pools, and all are among the ids.
LEMMA PoolsFinite ==
    ASSUME NEW ps \in Seq(Pools), Len(ps) <= MaxPools
    PROVE  /\ IsFiniteSet(DOMAIN ps) /\ DOMAIN ps \subseteq PoolIds
           /\ \A id \in DOMAIN ps : ps[id] \in Pools /\ id \in Nat \ {0}
<1>1. DOMAIN ps = 1 .. Len(ps) /\ Len(ps) \in Nat
  OBVIOUS
<1>2. IsFiniteSet(1 .. Len(ps))
  BY <1>1, FS_Interval
<1>3. 1 .. Len(ps) \subseteq 1 .. MaxPools
  BY <1>1, MetricsAssumption
<1> QED BY <1>1, <1>2, <1>3 DEF PoolIds

\* A share is a natural number.
LEMMA ShareType ==
    ASSUME NEW pool \in Pools, NEW e \in Nat, NEW sum \in Metric
    PROVE  Share(pool, e, sum) \in Nat
<1>1. /\ At(pool.total, e, NoMetric) \in Metric /\ ProvidedAt(pool.reward, e) \in Nat
      /\ sum[2] \in Nat
  BY AtType, ProvidedType DEF Pools, Metric
<1>2. At(pool.total, e, NoMetric)[2] \in Nat
  BY <1>1 DEF Metric
<1> DEFINE t == At(pool.total, e, NoMetric)[2]
<1>3. ASSUME t # 0 PROVE Rational(sum[2], t) \in Nat
  BY <1>1, <1>2, <1>3, RationalRounds
<1>4. ASSUME t # 0 PROVE Part(ProvidedAt(pool.reward, e), Rational(sum[2], t)) \in Nat
  BY <1>1, <1>3, <1>4, PartRounds
<1> QED BY <1>4 DEF Share

-----------------------------------------------------------------------------
(***************************************************************************)
(* validate_metric_pools tests the epoch under way and those in which a    *)
(* ratio changes: the sum of the ratios is constant in between.            *)
(***************************************************************************)
\* A set of numbers has a smallest one.
LEMMA Smallest ==
    ASSUME NEW n \in Nat, NEW G \in SUBSET (0 .. n), G # {}
    PROVE  \E k \in G : \A l \in G : k <= l
<1> DEFINE T == {0 .. k : k \in G}
           I == 0 .. n
<1>1. IsFiniteSet(I)
  BY FS_Interval
<1>2. PICK U \in T : \A V \in T : V \subseteq U => V = U
  <2>1. T \in SUBSET SUBSET I
    <3>1. \A k \in G : 0 .. k \subseteq 0 .. n
      OBVIOUS
    <3> QED BY <3>1
  <2>2. T # {}
    OBVIOUS
  <2> HIDE DEF T, I
  <2> QED BY <1>1, <2>1, <2>2, MinimalSubset
<1>3. PICK k \in G : U = 0 .. k
  BY <1>2
<1>4. ASSUME NEW l \in G, ~(k <= l) PROVE FALSE
  <2>1. 0 .. l \in T /\ 0 .. l \subseteq 0 .. k /\ k \in 0 .. k /\ k \notin 0 .. l
    BY <1>4
  <2> QED BY <1>2, <1>3, <2>1
<1> QED BY <1>4

\* Ratios that were tested add up in every epoch from now on.
LEMMA Validated ==
    ASSUME NEW ps \in Seq(Pools), cycle.epoch \in Nat, validate_metric_pools(ps)
    PROVE  \A e \in Nat : e >= cycle.epoch => RatioSum(ps, e) <= Accuracy
<1> TAKE e \in Nat
<1> HAVE e >= cycle.epoch
<1> DEFINE E == {cycle.epoch} \cup UNION {next_epoch(ps[id].reward, cycle.epoch) : id \in DOMAIN ps}
           G == {n \in 0 .. e : e - n \in E /\ e - n >= cycle.epoch}
<1>1. \A id \in DOMAIN ps : ps[id].reward \in Provisions
  <2>1. \A id \in DOMAIN ps : ps[id] \in Pools
    OBVIOUS
  <2> QED BY <2>1 DEF Pools
<1>2. G \in SUBSET (0 .. e) /\ e - cycle.epoch \in G
  OBVIOUS
<1>3. PICK n \in G : \A l \in G : n <= l
  <2> HIDE DEF G
  <2> QED BY <1>2, Smallest
<1>4. n \in 0 .. e /\ e - n \in E /\ e - n \in Nat /\ e - n >= cycle.epoch
  OBVIOUS
<1>5. ASSUME NEW id \in DOMAIN ps
      PROVE  ProvidedAt(ps[id].reward, e) = ProvidedAt(ps[id].reward, e - n)
  <2> DEFINE b == ps[id].reward
  <2>1. CASE b.next = None \/ ~(b.next.epoch <= e) \/ b.next.epoch <= e - n
    <3>1. b.next # None => b.next.epoch \in Nat
      BY <1>1, <1>5 DEF Provisions
    <3> QED BY <1>4, <2>1, <3>1 DEF ProvidedAt
  <2>2. CASE b.next # None /\ b.next.epoch <= e /\ ~(b.next.epoch <= e - n)
    <3>1. b.next.epoch \in Nat
      BY <1>1, <1>5, <2>2 DEF Provisions
    <3>2. b.next.epoch > cycle.epoch
      BY <1>4, <2>2, <3>1
    <3>3. b.next.epoch \in next_epoch(b, cycle.epoch)
      BY <2>2, <3>2 DEF next_epoch
    <3>4. b.next.epoch \in E
      BY <1>5, <3>3
    <3>5. e - b.next.epoch \in 0 .. e /\ e - (e - b.next.epoch) = b.next.epoch
      BY <2>2, <3>1
    <3> HIDE DEF b, E
    <3>6. e - b.next.epoch \in G
      BY <3>2, <3>4, <3>5
    <3>7. n <= e - b.next.epoch
      BY <1>3, <3>6
    <3> QED BY <1>4, <2>2, <3>1, <3>7
  <2> QED BY <2>1, <2>2
<1>6. RatioSum(ps, e) = RatioSum(ps, e - n)
  <2>1. [id \in DOMAIN ps |-> ProvidedAt(ps[id].reward, e)]
          = [id \in DOMAIN ps |-> ProvidedAt(ps[id].reward, e - n)]
    BY <1>5
  <2> QED BY <2>1, Zenon DEF RatioSum
<1>7. RatioSum(ps, e - n) <= Accuracy
  BY <1>4 DEF validate_metric_pools
<1> QED BY <1>6, <1>7

-----------------------------------------------------------------------------
(***************************************************************************)
(* The shares of all managers in a pool are within the pool's ratio.       *)
(***************************************************************************)
LEMMA SharesFit ==
    ASSUME NEW pool \in Pools, NEW e \in Nat, NEW f \in [Managers -> Metric],
           At(pool.total, e, NoMetric)[2] # 0 =>
              SumOver([m \in Managers |-> f[m][2]], Managers) <= At(pool.total, e, NoMetric)[2]
    PROVE  SumOver([m \in Managers |-> Share(pool, e, f[m])], Managers)
             <= IF At(pool.total, e, NoMetric)[2] = 0 THEN 0 ELSE ProvidedAt(pool.reward, e)
<1> DEFINE t == At(pool.total, e, NoMetric)[2]
           r == ProvidedAt(pool.reward, e)
           s == [m \in Managers |-> f[m][2]]
           x == [m \in Managers |-> Rational(f[m][2], t)]
           y == [m \in Managers |-> Share(pool, e, f[m])]
<1>1. IsFiniteSet(Managers) /\ Accuracy \in Nat \ {0}
  BY MetricsAssumption
<1>2. t \in Nat /\ r \in Nat
  BY AtType, ProvidedType DEF Pools, Metric
<1>3. \A m \in Managers : f[m] \in Metric /\ s[m] = f[m][2] /\ s[m] \in Nat
  BY DEF Metric
<1>4. CASE t = 0
  <2>1. \A m \in Managers : y[m] = 0
    BY <1>4 DEF Share
  <2>2. SumOver(y, Managers) = 0
    <3> HIDE DEF y
    <3> QED BY <1>1, <2>1, SumZero
  <2> QED BY <1>4, <2>2
<1>5. CASE t # 0
  <2>1. SumOver(s, Managers) <= t
    BY <1>5
  <2>2. \A m \in Managers : x[m] \in Nat /\ t * x[m] <= Accuracy * s[m]
    BY <1>2, <1>3, <1>5, RationalRounds
  <2>3. \A m \in Managers : y[m] = Part(r, x[m])
    BY <1>5 DEF Share
  <2>4. \A m \in Managers : y[m] \in Nat /\ Accuracy * y[m] <= r * x[m]
    BY <1>2, <2>2, <2>3, PartRounds
  <2>5. \A m \in Managers : s[m] \in Nat
    BY <1>3
  <2> HIDE DEF t, r, s, x, y
  <2>6. SumOver(s, Managers) \in Nat /\ SumOver(x, Managers) \in Nat /\ SumOver(y, Managers) \in Nat
    BY <1>1, <2>2, <2>4, <2>5, SumNat
  <2>7. t * SumOver(x, Managers) <= Accuracy * SumOver(s, Managers)
    BY <1>1, <1>2, <2>2, <2>5, SumScaled
  <2>8. Accuracy * SumOver(y, Managers) <= r * SumOver(x, Managers)
    BY <1>1, <1>2, <2>2, <2>4, SumScaled
  <2>9. Accuracy * SumOver(s, Managers) <= Accuracy * t /\ Accuracy * t = t * Accuracy
    BY <1>1, <1>2, <2>1, <2>6
  <2>10. t * SumOver(x, Managers) <= t * Accuracy
    BY <1>1, <1>2, <2>6, <2>7, <2>9
  <2>11. SumOver(x, Managers) <= Accuracy
    BY <1>1, <1>2, <1>5, <2>6, <2>10, FactorOut
  <2>12. r * SumOver(x, Managers) <= r * Accuracy /\ r * Accuracy = Accuracy * r
    BY <1>1, <1>2, <2>6, <2>11
  <2>13. Accuracy * SumOver(y, Managers) <= Accuracy * r
    BY <1>1, <1>2, <2>6, <2>8, <2>12
  <2>14. SumOver(y, Managers) <= r
    BY <1>1, <1>2, <2>6, <2>13, FactorOut
  <2> QED BY <1>5, <2>14 DEF t, r, y
<1> QED BY <1>4, <1>5

\* The reward of an epoch is a natural number.
LEMMA RewardNat == metrics_reward \in Nat
  BY PartRounds, MetricsAssumption DEF metrics_reward

\* Sums, totals and shares are natural numbers.
Amounts ==
    /\ IsFiniteSet(DOMAIN pools) /\ DOMAIN pools \subseteq PoolIds
    /\ \A id \in DOMAIN pools : pools[id] \in Pools
    /\ \A e \in Nat, m \in Managers : \A id \in PoolIds : SumOf(m, id, e) \in Metric
    /\ \A e \in Nat : \A id \in DOMAIN pools :
          /\ TotalOf(id, e) \in Nat /\ SharedRatio(id, e) \in Nat /\ PoolClaims(id, e) \in Nat
          /\ \A m \in Managers : ShareOf(m, id, e) \in Nat
    /\ \A e \in Nat : ClaimedShares(e) \in Nat

\* So the types say.
LEMMA AmountsType == MetricsTypeOK => Amounts
<1> SUFFICES ASSUME MetricsTypeOK PROVE Amounts
  OBVIOUS
<1>1. /\ IsFiniteSet(DOMAIN pools) /\ DOMAIN pools \subseteq PoolIds
      /\ \A id \in DOMAIN pools : pools[id] \in Pools
  BY PoolsFinite DEF MetricsTypeOK
<1>2. ASSUME NEW e \in Nat, NEW m \in Managers, NEW id \in PoolIds PROVE SumOf(m, id, e) \in Metric
  <2>1. epochSum[m][id] \in Totals
    BY DEF MetricsTypeOK
  <2> QED BY <2>1, AtType DEF SumOf
<1>3. ASSUME NEW e \in Nat, NEW id \in DOMAIN pools
      PROVE  TotalOf(id, e) \in Nat /\ SharedRatio(id, e) \in Nat
  <2>1. pools[id].total \in Totals /\ pools[id].reward \in Provisions
    BY <1>1 DEF Pools
  <2>2. At(pools[id].total, e, NoMetric) \in Metric /\ ProvidedAt(pools[id].reward, e) \in Nat
    BY <2>1, AtType, ProvidedType
  <2> QED BY <2>2 DEF TotalOf, SharedRatio, Metric
<1>4. ASSUME NEW e \in Nat, NEW id \in DOMAIN pools, NEW m \in Managers PROVE ShareOf(m, id, e) \in Nat
  <2>1. SumOf(m, id, e) \in Metric
    BY <1>1, <1>2
  <2> QED BY <1>1, <2>1, ShareType DEF ShareOf
<1>5. ASSUME NEW e \in Nat, NEW id \in DOMAIN pools PROVE PoolClaims(id, e) \in Nat
  <2> DEFINE f == [m \in Managers |-> ClaimedShare(m, id, e)]
  <2>1. \A m \in Managers : f[m] \in Nat
    BY <1>4 DEF ClaimedShare
  <2>2. IsFiniteSet(Managers)
    BY MetricsAssumption
  <2>3. PoolClaims(id, e) = SumOver(f, Managers)
    BY DEF PoolClaims
  <2> HIDE DEF f
  <2> QED BY <2>1, <2>2, <2>3, SumNat
<1>6. ASSUME NEW e \in Nat PROVE ClaimedShares(e) \in Nat
  <2> DEFINE f == [id \in DOMAIN pools |-> PoolClaims(id, e)]
  <2>1. \A id \in DOMAIN pools : f[id] \in Nat
    BY <1>5
  <2>2. ClaimedShares(e) = SumOver(f, DOMAIN pools)
    BY DEF ClaimedShares
  <2> HIDE DEF f
  <2> QED BY <1>1, <2>1, <2>2, SumNat
<1> QED BY <1>1, <1>2, <1>3, <1>4, <1>5, <1>6 DEF Amounts

\* Claims are within the ratios of the pools that have something to share.
LEMMA ClaimsFit ==
    ASSUME MetricsTypeOK, NEW e \in Nat,
           \A id \in DOMAIN pools : TotalOf(id, e) # 0 => ManagersSum(id, e) <= TotalOf(id, e)
    PROVE  ClaimedShares(e) <= SharedRatios(e)
<1>1. Amounts /\ IsFiniteSet(Managers)
  BY AmountsType, MetricsAssumption
<1>2. ASSUME NEW id \in DOMAIN pools PROVE PoolClaims(id, e) <= SharedRatio(id, e)
  <2> DEFINE s == [m \in Managers |-> SumOf(m, id, e)]
             f == [m \in Managers |-> ClaimedShare(m, id, e)]
             g == [m \in Managers |-> Share(pools[id], e, s[m])]
  <2>1. s \in [Managers -> Metric]
    BY <1>1 DEF Amounts
  <2>2. [m \in Managers |-> s[m][2]] = [m \in Managers |-> SumOf(m, id, e)[2]]
    OBVIOUS
  <2>3. At(pools[id].total, e, NoMetric)[2] # 0 =>
           SumOver([m \in Managers |-> s[m][2]], Managers) <= At(pools[id].total, e, NoMetric)[2]
    BY <2>2 DEF ManagersSum, TotalOf
  <2>4. \A m \in Managers : f[m] \in Int /\ g[m] \in Int /\ f[m] <= g[m]
    <3>1. \A m \in Managers : g[m] = ShareOf(m, id, e) /\ ShareOf(m, id, e) \in Nat
      BY <1>1 DEF Amounts, ShareOf
    <3> HIDE DEF g
    <3> QED BY <3>1 DEF ClaimedShare
  <2>5. pools[id] \in Pools
    BY <1>1 DEF Amounts
  <2>6. SumOver(g, Managers) <= SharedRatio(id, e)
    <3>1. SumOver(g, Managers) <=
            IF At(pools[id].total, e, NoMetric)[2] = 0 THEN 0 ELSE ProvidedAt(pools[id].reward, e)
      <4> HIDE DEF s
      <4> QED BY <2>1, <2>3, <2>5, SharesFit
    <3> QED BY <3>1 DEF SharedRatio, TotalOf
  <2>7. PoolClaims(id, e) = SumOver(f, Managers)
    BY DEF PoolClaims
  <2> HIDE DEF f, g
  <2>8. SumOver(f, Managers) <= SumOver(g, Managers)
    BY <1>1, <2>4, SumMonotonic
  <2>9. SumOver(f, Managers) \in Int /\ SumOver(g, Managers) \in Int
    BY <1>1, <2>4, SumInt
  <2>10. SharedRatio(id, e) \in Nat
    BY <1>1 DEF Amounts
  <2> QED BY <2>6, <2>7, <2>8, <2>9, <2>10
<1> DEFINE F == [id \in DOMAIN pools |-> PoolClaims(id, e)]
           H == [id \in DOMAIN pools |-> SharedRatio(id, e)]
<1>3. \A id \in DOMAIN pools : F[id] \in Int /\ H[id] \in Int /\ F[id] <= H[id]
  BY <1>1, <1>2 DEF Amounts
<1>4. ClaimedShares(e) = SumOver(F, DOMAIN pools) /\ SharedRatios(e) = SumOver(H, DOMAIN pools)
  BY DEF ClaimedShares, SharedRatios
<1>5. IsFiniteSet(DOMAIN pools)
  BY <1>1 DEF Amounts
<1> HIDE DEF F, H
<1> QED BY <1>3, <1>4, <1>5, SumMonotonic

\* What was granted for the last epoch is therefore within its reward.
LEMMA LastWithinReward ==
    ASSUME MetricsInv, NEW e \in DOMAIN claimed, e + 1 = cycle.epoch, e \notin disturbed
    PROVE  claimed[e] <= metrics_reward
<1>1. e \in Nat /\ claimed[e] \in Nat /\ Accuracy \in Nat \ {0} /\ metrics_reward \in Nat
  <2>1. claimed \in [0 .. MaxBlock -> Nat]
    BY DEF MetricsInv, MetricsTypeOK
  <2>2. Accuracy \in Nat \ {0} /\ MaxBlock \in Nat
    BY MetricsAssumption
  <2> QED BY <2>1, <2>2, RewardNat
<1>2. Accuracy * claimed[e] <= ClaimedShares(e) * metrics_reward
  BY DEF MetricsInv, ClaimsInv
<1>3. /\ SharedRatios(e) <= Accuracy
      /\ \A id \in DOMAIN pools : TotalOf(id, e) # 0 => ManagersSum(id, e) <= TotalOf(id, e)
  BY <1>1 DEF MetricsInv, SumsInv
<1>4. ClaimedShares(e) <= SharedRatios(e)
  BY <1>1, <1>3, ClaimsFit DEF MetricsInv
<1>5. ClaimedShares(e) \in Nat /\ SharedRatios(e) \in Int
  <2>1. Amounts
    BY AmountsType DEF MetricsInv
  <2> DEFINE H == [id \in DOMAIN pools |-> SharedRatio(id, e)]
  <2>2. \A id \in DOMAIN pools : H[id] \in Int
    BY <1>1, <2>1 DEF Amounts
  <2>3. SharedRatios(e) = SumOver(H, DOMAIN pools) /\ IsFiniteSet(DOMAIN pools)
    BY <2>1 DEF SharedRatios, Amounts
  <2> HIDE DEF H
  <2>4. SharedRatios(e) \in Int
    BY <2>2, <2>3, SumInt
  <2> QED BY <1>1, <2>1, <2>4 DEF Amounts
<1>6. ClaimedShares(e) <= Accuracy
  BY <1>1, <1>3, <1>4, <1>5
<1>7. ClaimedShares(e) * metrics_reward <= Accuracy * metrics_reward
  BY <1>1, <1>5, <1>6
<1>8. Accuracy * claimed[e] <= Accuracy * metrics_reward
  BY <1>1, <1>2, <1>5, <1>7
<1> QED BY <1>1, <1>8, FactorOut

-----------------------------------------------------------------------------
(***************************************************************************)
(* Genesis.                                                                *)
(***************************************************************************)
\* The pools of genesis are pools, with the ratios given.
LEMMA GenesisTyped ==
    ASSUME NEW ps,
           ps = [id \in DOMAIN GenesisPools |-> NewPool(GenesisPools[id][1], GenesisPools[id][2])]
    PROVE  /\ ps \in Seq(Pools) /\ Len(ps) <= MaxPools
           /\ \A id \in DOMAIN ps : ps[id].total = SlidingBuffer(NoMetric)
           /\ \A e \in Nat : RatioSum(ps, e) <= Accuracy
<1>1. DOMAIN GenesisPools = 1 .. Len(GenesisPools) /\ Len(GenesisPools) \in Nat
  BY GenesisAssumption
<1>2. ASSUME NEW id \in DOMAIN GenesisPools
      PROVE  NewPool(GenesisPools[id][1], GenesisPools[id][2]) \in Pools
  <2>1. GenesisPools[id][1] \in Names /\ GenesisPools[id][2] \in 0 .. Accuracy
    BY GenesisAssumption
  <2>2. ProvisionalBuffer(GenesisPools[id][2]) \in Provisions
    BY <2>1 DEF Provisions, ProvisionalBuffer
  <2>3. SlidingBuffer(NoMetric) \in Totals
    BY DEF SlidingBuffer, NoMetric, Totals, Metric
  <2> QED BY <2>1, <2>2, <2>3 DEF NewPool, Pools
<1>3. ps \in [1 .. Len(GenesisPools) -> Pools]
  BY <1>1, <1>2
<1>4. ps \in Seq(Pools) /\ Len(ps) = Len(GenesisPools)
  BY <1>1, <1>3
<1>5. \A id \in DOMAIN ps : ps[id].total = SlidingBuffer(NoMetric)
  BY DEF NewPool
<1>6. ASSUME NEW e \in Nat PROVE RatioSum(ps, e) <= Accuracy
  <2>1. [id \in DOMAIN ps |-> ProvidedAt(ps[id].reward, e)]
          = [id \in DOMAIN GenesisPools |-> GenesisPools[id][2]]
    BY DEF NewPool, ProvisionalBuffer, ProvidedAt
  <2>2. DOMAIN ps = DOMAIN GenesisPools
    OBVIOUS
  <2>3. RatioSum(ps, e)
          = SumOver([id \in DOMAIN GenesisPools |-> GenesisPools[id][2]], DOMAIN GenesisPools)
    BY <2>1, <2>2, Zenon DEF RatioSum
  <2> QED BY <2>3, GenesisAssumption
<1> QED BY <1>4, <1>5, <1>6, GenesisAssumption

\* After the first block nothing is counted and nothing claimed.
LEMMA MetricsInitInv == MetricsInit => MetricsInv
<1> SUFFICES ASSUME MetricsInit PROVE MetricsInv
  OBVIOUS
<1>1. /\ pools \in Seq(Pools) /\ Len(pools) <= MaxPools
      /\ \A id \in DOMAIN pools : pools[id].total = SlidingBuffer(NoMetric)
      /\ \A e \in Nat : RatioSum(pools, e) <= Accuracy
  <2>1. pools = [id \in DOMAIN GenesisPools |-> NewPool(GenesisPools[id][1], GenesisPools[id][2])]
    BY DEF MetricsInit
  <2> QED BY <2>1, GenesisTyped
<1>2. cycle \in [epoch : Nat, epoch_start : Nat]
  <2>1. 1 \div Epoch \in Nat
    BY Quotient, MetricsAssumption
  <2> QED BY <2>1 DEF MetricsInit
<1>3. SlidingBuffer(NoMetric) \in Totals /\ SlidingBuffer(0) \in Budgets
  BY DEF SlidingBuffer, NoMetric, Totals, Metric, Budgets
<1>4. claimed = [e \in 0 .. MaxBlock |-> 0]
  BY DEF MetricsInit
<1>5. MetricsTypeOK
  <2>1. metrics \in [Processors -> [PoolIds -> {None} \cup [epoch : Nat, metric : Nat]]]
    BY DEF MetricsInit
  <2>2. epochSum \in [Managers -> [PoolIds -> Totals]]
    BY <1>3 DEF MetricsInit
  <2>3. rewards \in Budgets /\ manager \in [Processors -> Managers] /\ block \in Nat
    BY <1>3 DEF MetricsInit
  <2> QED BY <1>1, <1>2, <1>4, <2>1, <2>2, <2>3 DEF MetricsTypeOK
<1>6. Amounts
  BY <1>5, AmountsType
<1>7. RatiosInv
  BY <1>1 DEF RatiosInv
<1>8. \A e \in Nat : At(SlidingBuffer(NoMetric), e, NoMetric) = <<0, 0>>
  BY DEF At, SlidingBuffer, NoMetric
<1>9. \A m \in Managers, id \in PoolIds : epochSum[m][id] = SlidingBuffer(NoMetric)
  BY DEF MetricsInit
<1>10. WrittenUpToNow
  BY <1>1, <1>2, <1>9 DEF WrittenUpToNow, SlidingBuffer
<1>11. ASSUME NEW e \in Nat, NEW id \in DOMAIN pools
       PROVE  TotalOf(id, e) = 0 /\ SharedRatio(id, e) = 0 /\ ManagersSum(id, e) = 0
  <2>1. TotalOf(id, e) = 0
    BY <1>1, <1>8 DEF TotalOf
  <2> DEFINE f == [m \in Managers |-> SumOf(m, id, e)[2]]
  <2>2. id \in PoolIds
    BY <1>6 DEF Amounts
  <2>3. \A m \in Managers : f[m] = 0
    BY <1>8, <1>9, <2>2 DEF SumOf
  <2>4. ManagersSum(id, e) = SumOver(f, Managers) /\ IsFiniteSet(Managers)
    BY MetricsAssumption DEF ManagersSum
  <2> HIDE DEF f
  <2>5. ManagersSum(id, e) = 0
    BY <2>3, <2>4, SumZero
  <2> QED BY <2>1, <2>5 DEF SharedRatio
<1>12. ASSUME NEW e \in Nat PROVE SharedRatios(e) <= Accuracy
  <2> DEFINE f == [id \in DOMAIN pools |-> SharedRatio(id, e)]
  <2>1. \A id \in DOMAIN pools : f[id] = 0
    BY <1>11
  <2>2. SharedRatios(e) = SumOver(f, DOMAIN pools) /\ IsFiniteSet(DOMAIN pools)
    BY <1>6 DEF SharedRatios, Amounts
  <2> HIDE DEF f
  <2>3. SharedRatios(e) = 0
    BY <2>1, <2>2, SumZero
  <2> QED BY <2>3, MetricsAssumption
<1>13. SumsInv
  BY <1>10, <1>11, <1>12 DEF SumsInv
<1>14. ClaimsInv
  <2> SUFFICES ASSUME NEW e \in DOMAIN claimed
               PROVE  /\ claimed[e] = 0 /\ claimed[e] <= metrics_reward
                      /\ Accuracy * claimed[e] <= ClaimedShares(e) * metrics_reward
    BY DEF ClaimsInv
  <2>1. e \in Nat /\ claimed[e] = 0 /\ Accuracy \in Nat /\ metrics_reward \in Nat
    <3>1. e \in 0 .. MaxBlock /\ MaxBlock \in Nat /\ Accuracy \in Nat
      BY <1>4, MetricsAssumption
    <3> QED BY <1>4, <3>1, RewardNat
  <2>2. ClaimedShares(e) \in Nat
    BY <1>6, <2>1 DEF Amounts
  <2>3. ClaimedShares(e) * metrics_reward \in Nat /\ Accuracy * 0 = 0
    BY <2>1, <2>2
  <2> QED BY <2>1, <2>3
<1> QED BY <1>5, <1>7, <1>13, <1>14 DEF MetricsInv

-----------------------------------------------------------------------------
(***************************************************************************)
(* Steps that count, claim and change nothing.                             *)
(***************************************************************************)
LEMMA IdleKeeps ==
    ASSUME MetricsInv, MetricsTypeOK', UNCHANGED <<cycle, pools, epochSum, claimed, disturbed>>
    PROVE  MetricsInv'
<1>1. \A e : RatioSum(pools, e)' = RatioSum(pools, e)
  BY Zenon DEF RatioSum
<1>2. RatiosInv'
  BY <1>1 DEF MetricsInv, RatiosInv
<1>3. WrittenUpToNow'
  BY DEF MetricsInv, SumsInv, WrittenUpToNow
<1>4. /\ \A id, e : ManagersSum(id, e)' = ManagersSum(id, e)
      /\ \A id, e : TotalOf(id, e)' = TotalOf(id, e)
      /\ \A e : SharedRatios(e)' = SharedRatios(e)
  BY Zenon DEF ManagersSum, SumOf, TotalOf, SharedRatios, SharedRatio
<1>5. \A e : ClaimedShares(e)' = ClaimedShares(e)
  BY Zenon DEF ClaimedShares, PoolClaims, ClaimedShare, HasClaimed, ShareOf, SumOf
<1>6. SumsInv'
  BY <1>3, <1>4 DEF MetricsInv, SumsInv
<1>7. ClaimsInv'
  BY <1>5 DEF MetricsInv, ClaimsInv, metrics_reward, Part
<1> QED BY <1>2, <1>6, <1>7 DEF MetricsInv

(***************************************************************************)
(* A new epoch: the epoch under way becomes the last one, for which        *)
(* nothing is claimed yet.                                                 *)
(***************************************************************************)
LEMMA EpochKeeps ==
    ASSUME MetricsInv, MetricsTypeOK', cycle'.epoch = cycle.epoch + 1,
           UNCHANGED <<pools, epochSum, claimed, disturbed>>
    PROVE  MetricsInv'
<1>1. cycle.epoch \in Nat /\ Amounts /\ pools \in Seq(Pools)
  BY AmountsType DEF MetricsInv, MetricsTypeOK
<1>2. RatiosInv'
  <2>1. \A e : RatioSum(pools, e)' = RatioSum(pools, e)
    BY Zenon DEF RatioSum
  <2> QED BY <1>1, <2>1 DEF MetricsInv, RatiosInv
<1>3. WrittenUpToNow'
  <2>1. \A id \in DOMAIN pools : pools[id].total.epoch \in Nat
    BY <1>1 DEF Amounts, Pools, Totals
  <2>2. \A m \in Managers, id \in PoolIds : epochSum[m][id].epoch \in Nat
    BY DEF MetricsInv, MetricsTypeOK, Totals
  <2> QED BY <1>1, <2>1, <2>2 DEF MetricsInv, SumsInv, WrittenUpToNow
<1>4. /\ \A id, e : ManagersSum(id, e)' = ManagersSum(id, e)
      /\ \A id, e : TotalOf(id, e)' = TotalOf(id, e)
      /\ \A e : SharedRatios(e)' = SharedRatios(e)
  BY Zenon DEF ManagersSum, SumOf, TotalOf, SharedRatios, SharedRatio
<1> DEFINE c == cycle.epoch
<1>5. SharedRatios(c) <= Accuracy
  <2> DEFINE f == [id \in DOMAIN pools |-> SharedRatio(id, c)]
             g == [id \in DOMAIN pools |-> ProvidedAt(pools[id].reward, c)]
  <2>1. \A id \in DOMAIN pools : f[id] \in Int /\ g[id] \in Int /\ f[id] <= g[id]
    <3>1. \A id \in DOMAIN pools : ProvidedAt(pools[id].reward, c) \in Nat
      BY <1>1, ProvidedType DEF Amounts, Pools
    <3> QED BY <3>1 DEF SharedRatio
  <2>2. SharedRatios(c) = SumOver(f, DOMAIN pools) /\ RatioSum(pools, c) = SumOver(g, DOMAIN pools)
    BY DEF SharedRatios, RatioSum
  <2>3. RatioSum(pools, c) <= Accuracy /\ IsFiniteSet(DOMAIN pools) /\ Accuracy \in Nat
    <3>1. RatioSum(pools, c) <= Accuracy
      BY <1>1 DEF MetricsInv, RatiosInv
    <3>2. IsFiniteSet(DOMAIN pools)
      BY <1>1 DEF Amounts
    <3> QED BY <3>1, <3>2, MetricsAssumption
  <2> HIDE DEF f, g, c
  <2>4. SumOver(f, DOMAIN pools) <= SumOver(g, DOMAIN pools)
    BY <2>1, <2>3, SumMonotonic
  <2>5. SumOver(f, DOMAIN pools) \in Int /\ SumOver(g, DOMAIN pools) \in Int
    BY <2>1, <2>3, SumInt
  <2> QED BY <2>2, <2>3, <2>4, <2>5
<1>6. ASSUME NEW id \in DOMAIN pools, NEW e \in Nat, e > c
      PROVE  ManagersSum(id, e) = 0 /\ TotalOf(id, e) = 0
  <2>1. id \in PoolIds /\ pools[id].total.epoch \in Nat /\ pools[id].total.epoch <= c
    BY <1>1 DEF Amounts, Pools, Totals, MetricsInv, SumsInv, WrittenUpToNow
  <2>2. \A m \in Managers : epochSum[m][id].epoch \in Nat /\ epochSum[m][id].epoch <= c
    BY <2>1 DEF MetricsInv, MetricsTypeOK, SumsInv, WrittenUpToNow, Totals
  <2>3. \A m \in Managers : SumOf(m, id, e) = NoMetric
    BY <1>1, <1>6, <2>2 DEF SumOf, At
  <2>4. TotalOf(id, e) = 0
    BY <1>1, <1>6, <2>1 DEF TotalOf, At, NoMetric
  <2> DEFINE f == [m \in Managers |-> SumOf(m, id, e)[2]]
  <2>5. \A m \in Managers : f[m] = 0
    BY <2>3 DEF NoMetric
  <2>6. ManagersSum(id, e) = SumOver(f, Managers) /\ IsFiniteSet(Managers)
    BY MetricsAssumption DEF ManagersSum
  <2> HIDE DEF f
  <2> QED BY <2>4, <2>5, <2>6, SumZero
<1>7. SumsInv'
  <2> SUFFICES ASSUME NEW e \in Nat \ disturbed
               PROVE  /\ e = c + 1 => \A id \in DOMAIN pools : ManagersSum(id, e) <= TotalOf(id, e)
                      /\ e + 1 = c + 1 =>
                            /\ SharedRatios(e) <= Accuracy
                            /\ \A id \in DOMAIN pools :
                                  TotalOf(id, e) # 0 => ManagersSum(id, e) <= TotalOf(id, e)
    BY <1>3, <1>4 DEF SumsInv
  <2>1. CASE e = c + 1
    BY <1>1, <1>6, <2>1
  <2>2. CASE e = c
    BY <1>1, <1>5, <2>2 DEF MetricsInv, SumsInv
  <2> QED BY <1>1, <2>1, <2>2
<1>8. ClaimsInv'
  <2>1. Amounts'
    <3>1. MetricsTypeOK' => Amounts'
      BY AmountsType, PTL
    <3> QED BY <3>1
  <2>2. metrics_reward' = metrics_reward /\ metrics_reward \in Nat
    BY RewardNat DEF metrics_reward, Part
  <2> SUFFICES ASSUME NEW e \in DOMAIN claimed
               PROVE  /\ e >= c + 1 => claimed[e] = 0
                      /\ e + 1 = c + 1 /\ e \notin disturbed =>
                            Accuracy * claimed[e] <= ClaimedShares(e)' * metrics_reward
                      /\ e + 1 < c + 1 /\ e \notin disturbed => claimed[e] <= metrics_reward
    BY <2>2 DEF ClaimsInv
  <2>3. e \in Nat /\ Accuracy \in Nat
    <3>1. claimed \in [0 .. MaxBlock -> Nat] /\ MaxBlock \in Nat /\ Accuracy \in Nat
      BY MetricsAssumption DEF MetricsInv, MetricsTypeOK
    <3> QED BY <3>1
  <2>4. CASE e >= c
    <3>1. claimed[e] = 0
      BY <2>4 DEF MetricsInv, ClaimsInv
    <3>2. ClaimedShares(e)' \in Nat
      BY <2>1, <2>3 DEF Amounts
    <3>3. ClaimedShares(e)' * metrics_reward \in Nat /\ Accuracy * 0 = 0
      BY <2>2, <2>3, <3>2
    <3> QED BY <1>1, <2>3, <2>4, <3>1, <3>3
  <2>5. CASE e < c
    <3>1. e + 1 = c /\ e \notin disturbed => claimed[e] <= metrics_reward
      BY LastWithinReward
    <3>2. e + 1 < c /\ e \notin disturbed => claimed[e] <= metrics_reward
      BY DEF MetricsInv, ClaimsInv
    <3> QED BY <1>1, <2>3, <2>5, <3>1, <3>2
  <2> QED BY <1>1, <2>3, <2>4, <2>5
<1> QED BY <1>2, <1>7, <1>8 DEF MetricsInv

-----------------------------------------------------------------------------
(***************************************************************************)
(* Governance: a change of the pools that was validated.  It keeps totals; *)
(* where it changes the ratios of the last epoch, or adds a pool that sums *)
(* were already counted for, the epoch is disturbed.                       *)
(***************************************************************************)
LEMMA GovernKeeps ==
    ASSUME MetricsInv, MetricsTypeOK', validate_metric_pools(pools'),
           UNCHANGED <<cycle, epochSum, claimed>>, disturbed \subseteq disturbed',
           DOMAIN pools \subseteq DOMAIN pools',
           \A id \in DOMAIN pools : pools'[id].total = pools[id].total,
           \A id \in DOMAIN pools' \ DOMAIN pools : pools'[id].total = SlidingBuffer(NoMetric),
           \A e \in Nat \ disturbed' : e + 1 = cycle.epoch =>
              \A id \in DOMAIN pools : ProvidedAt(pools'[id].reward, e) = ProvidedAt(pools[id].reward, e),
           cycle.epoch \notin disturbed' =>
              \A id \in DOMAIN pools' \ DOMAIN pools, m \in Managers :
                 SumOf(m, id, cycle.epoch) = NoMetric
    PROVE  MetricsInv'
<1> DEFINE c == cycle.epoch
           D == DOMAIN pools
           N == DOMAIN pools'
<1>1. /\ c \in Nat /\ Amounts /\ Accuracy \in Nat /\ IsFiniteSet(Managers)
      /\ claimed \in [0 .. MaxBlock -> Nat] /\ MaxBlock \in Nat
  BY AmountsType, MetricsAssumption DEF MetricsInv, MetricsTypeOK
<1>2. Amounts' /\ pools' \in Seq(Pools)
  <2>1. MetricsTypeOK' => Amounts'
    BY AmountsType, PTL
  <2> QED BY <2>1 DEF MetricsTypeOK
<1>3. RatiosInv'
  <2>1. \A e \in Nat : e >= c => RatioSum(pools', e) <= Accuracy
    BY <1>1, <1>2, Validated
  <2> QED BY <2>1 DEF RatiosInv, RatioSum
<1>4. \A e \in Nat, id \in N \ D : TotalOf(id, e)' = 0
  BY DEF TotalOf, SlidingBuffer, At, NoMetric
<1>5. \A e, id : id \in D => TotalOf(id, e)' = TotalOf(id, e)
  BY Zenon DEF TotalOf
<1>6. \A id, e : ManagersSum(id, e)' = ManagersSum(id, e)
  BY Zenon DEF ManagersSum, SumOf
<1>7. WrittenUpToNow'
  <2>1. \A id \in N \ D : pools'[id].total.epoch = 0
    BY DEF SlidingBuffer
  <2> QED BY <1>1, <2>1 DEF MetricsInv, SumsInv, WrittenUpToNow
<1>8. ASSUME c \notin disturbed', NEW id \in N PROVE ManagersSum(id, c) <= TotalOf(id, c)'
  <2>1. CASE id \in D
    BY <1>1, <1>5, <1>8, <2>1 DEF MetricsInv, SumsInv
  <2>2. CASE id \notin D
    <3> DEFINE f == [m \in Managers |-> SumOf(m, id, c)[2]]
    <3>1. \A m \in Managers : f[m] = 0
      BY <1>8, <2>2 DEF NoMetric
    <3>2. ManagersSum(id, c) = SumOver(f, Managers)
      BY DEF ManagersSum
    <3> HIDE DEF f
    <3>3. ManagersSum(id, c) = 0
      BY <1>1, <3>1, <3>2, SumZero
    <3> QED BY <1>1, <1>4, <1>8, <2>2, <3>3
  <2> QED BY <2>1, <2>2
<1>9. ASSUME NEW e \in Nat \ disturbed', e + 1 = c PROVE SharedRatios(e)' <= Accuracy
  <2> DEFINE f == [id \in D |-> SharedRatio(id, e)]
             g == [id \in N |-> SharedRatio(id, e)']
  <2>1. \A id \in D : f[id] = g[id]
    BY <1>5, <1>9 DEF SharedRatio
  <2>2. \A id \in N \ D : g[id] = 0
    BY <1>4 DEF SharedRatio
  <2>3. \A id \in N : g[id] \in Int
    BY <1>2 DEF Amounts
  <2>4. SharedRatios(e)' = SumOver(g, N) /\ SharedRatios(e) = SumOver(f, D)
    BY DEF SharedRatios
  <2>5. IsFiniteSet(N) /\ IsFiniteSet(D) /\ D \in SUBSET N
    BY <1>1, <1>2 DEF Amounts
  <2>6. SharedRatios(e) <= Accuracy
    BY <1>9 DEF MetricsInv, SumsInv
  <2> HIDE DEF f, g, D, N
  <2>7. SumOver(g, N) = SumOver(g, D)
    BY <2>2, <2>3, <2>5, SumOutside
  <2>8. SumOver(f, D) = SumOver(g, D)
    BY <2>1, <2>5, SumSame
  <2> QED BY <2>4, <2>6, <2>7, <2>8
<1>10. SumsInv'
  <2> SUFFICES ASSUME NEW e \in Nat \ disturbed'
               PROVE  /\ e = c => \A id \in N : ManagersSum(id, e) <= TotalOf(id, e)'
                      /\ e + 1 = c =>
                            /\ SharedRatios(e)' <= Accuracy
                            /\ \A id \in N :
                                  TotalOf(id, e)' # 0 => ManagersSum(id, e) <= TotalOf(id, e)'
    BY <1>6, <1>7 DEF SumsInv
  <2>1. ASSUME e + 1 = c, NEW id \in N, TotalOf(id, e)' # 0
        PROVE  ManagersSum(id, e) <= TotalOf(id, e)'
    <3>1. id \in D
      BY <1>4, <2>1
    <3> QED BY <1>5, <2>1, <3>1 DEF MetricsInv, SumsInv
  <2> QED BY <1>8, <1>9, <2>1
<1>11. ASSUME NEW e \in Nat \ disturbed', e + 1 = c PROVE ClaimedShares(e) <= ClaimedShares(e)'
  <2> DEFINE f == [id \in D |-> PoolClaims(id, e)]
             g == [id \in N |-> PoolClaims(id, e)']
  <2>1. ASSUME NEW id \in D PROVE g[id] = f[id]
    <3>1. At(pools'[id].total, e, NoMetric) = At(pools[id].total, e, NoMetric)
      BY DEF At
    <3>2. ASSUME NEW m \in Managers PROVE ClaimedShare(m, id, e)' = ClaimedShare(m, id, e)
      <4>1. Share(pools'[id], e, SumOf(m, id, e)) = Share(pools[id], e, SumOf(m, id, e))
        BY <1>9, <1>11, <3>1 DEF Share
      <4>2. SumOf(m, id, e)' = SumOf(m, id, e)
        BY DEF SumOf
      <4> QED BY <4>1, <4>2 DEF ClaimedShare, HasClaimed, ShareOf
    <3>3. [m \in Managers |-> ClaimedShare(m, id, e)'] = [m \in Managers |-> ClaimedShare(m, id, e)]
      BY <3>2
    <3>4. PoolClaims(id, e)' = PoolClaims(id, e)
      BY <3>3, Zenon DEF PoolClaims
    <3> QED BY <3>4
  <2>2. \A id \in N : g[id] \in Nat
    BY <1>2 DEF Amounts
  <2>3. IsFiniteSet(N) /\ D \in SUBSET N
    BY <1>2 DEF Amounts
  <2>4. ClaimedShares(e) = SumOver(f, D) /\ ClaimedShares(e)' = SumOver(g, N)
    BY DEF ClaimedShares
  <2>5. \A id \in D : f[id] \in Int /\ f[id] <= g[id]
    <3> HIDE DEF f, g
    <3> QED BY <2>1, <2>2, <2>3
  <2> HIDE DEF f, g, D, N
  <2> QED BY <2>2, <2>3, <2>4, <2>5, SumShrink
<1>12. ClaimsInv'
  <2>1. metrics_reward' = metrics_reward /\ metrics_reward \in Nat
    BY RewardNat DEF metrics_reward, Part
  <2> SUFFICES ASSUME NEW e \in DOMAIN claimed, e \notin disturbed', e + 1 = c
               PROVE  Accuracy * claimed[e] <= ClaimedShares(e)' * metrics_reward
    BY <2>1 DEF ClaimsInv, MetricsInv
  <2>2. e \in Nat /\ claimed[e] \in Nat
    BY <1>1
  <2>3. Accuracy * claimed[e] <= ClaimedShares(e) * metrics_reward
    BY DEF MetricsInv, ClaimsInv
  <2>4. ClaimedShares(e) <= ClaimedShares(e)'
    BY <1>11, <2>2
  <2>5. ClaimedShares(e) \in Nat /\ ClaimedShares(e)' \in Nat
    BY <1>1, <1>2, <2>2 DEF Amounts
  <2>6. ClaimedShares(e) * metrics_reward <= ClaimedShares(e)' * metrics_reward
    BY <2>1, <2>4, <2>5
  <2> QED BY <1>1, <2>1, <2>2, <2>3, <2>5, <2>6
<1> QED BY <1>3, <1>10, <1>12 DEF MetricsInv

-----------------------------------------------------------------------------
(***************************************************************************)
(* Pools that were changed by governance.                                  *)
(***************************************************************************)
LEMMA CreateKeeps ==
    ASSUME MetricsInv, NEW name \in Names, NEW ratio \in Ratios, create_pool(name, ratio)
    PROVE  MetricsInv'
<1> DEFINE n == Len(pools) + 1
           p == NewPool(name, ratio)
<1>1. pools \in Seq(Pools) /\ Len(pools) \in Nat /\ DOMAIN pools = 1 .. Len(pools)
  BY DEF MetricsInv, MetricsTypeOK
<1>2. p \in Pools /\ p.total = SlidingBuffer(NoMetric)
  <2>1. ratio \in 0 .. Accuracy
    BY MetricsAssumption
  <2>2. ProvisionalBuffer(ratio) \in Provisions
    BY <2>1 DEF Provisions, ProvisionalBuffer
  <2>3. SlidingBuffer(NoMetric) \in Totals
    BY DEF SlidingBuffer, NoMetric, Totals, Metric
  <2> QED BY <2>2, <2>3 DEF NewPool, Pools
<1> HIDE DEF p
<1>3. pools' = Append(pools, p)
  BY DEF create_pool, p
<1>4. /\ pools' \in Seq(Pools) /\ Len(pools') = n /\ DOMAIN pools' = 1 .. n
      /\ \A id \in DOMAIN pools : pools'[id] = pools[id]
      /\ pools'[n] = p
  BY <1>1, <1>2, <1>3
<1>5. n <= MaxPools
  BY <1>1, MetricsAssumption DEF create_pool
<1>6. UNCHANGED <<block, cycle, metrics, epochSum, rewards, manager, claimed>>
  BY DEF create_pool, commitVars, rewardVars
<1>7. MetricsTypeOK'
  <2>1. Budgets' = Budgets /\ Pools' = Pools /\ Totals' = Totals
    BY DEF Budgets, metrics_reward, Part, Pools, Provisions, Totals, Metric
  <2>2. block' \in Nat /\ cycle' \in [epoch : Nat, epoch_start : Nat] /\ rewards' \in Budgets
    BY <1>6 DEF MetricsInv, MetricsTypeOK
  <2>3. /\ metrics' \in [Processors -> [PoolIds -> {None} \cup [epoch : Nat, metric : Nat]]]
        /\ epochSum' \in [Managers -> [PoolIds -> Totals]]
        /\ manager' \in [Processors -> Managers] /\ claimed' \in [0 .. MaxBlock -> Nat]
    BY <1>6, Zenon DEF MetricsInv, MetricsTypeOK
  <2> QED BY <1>4, <1>5, <2>1, <2>2, <2>3 DEF MetricsTypeOK
<1>8. validate_metric_pools(pools')
  BY DEF create_pool
<1>9. disturbed' = IF CommittedEarly(n) THEN disturbed \cup {cycle.epoch} ELSE disturbed
  BY DEF create_pool
<1>10. \A id \in DOMAIN pools' \ DOMAIN pools : id = n
  BY <1>1, <1>4
<1>11. cycle.epoch \notin disturbed' =>
         \A id \in DOMAIN pools' \ DOMAIN pools, m \in Managers : SumOf(m, id, cycle.epoch) = NoMetric
  BY <1>9, <1>10 DEF CommittedEarly, SumOf
<1>12. DOMAIN pools \subseteq DOMAIN pools'
  BY <1>1, <1>4
<1>13. \A id \in DOMAIN pools' \ DOMAIN pools : pools'[id].total = SlidingBuffer(NoMetric)
  BY <1>2, <1>4, <1>10
<1>14. disturbed \subseteq disturbed'
  BY <1>9
<1> HIDE DEF n
<1> QED BY <1>4, <1>6, <1>7, <1>8, <1>11, <1>12, <1>13, <1>14, GovernKeeps

\* A changed pool is one if it keeps the types.
LEMMA ChangeTyped ==
    ASSUME MetricsInv, NEW id \in DOMAIN pools, NEW pool \in Pools,
           pools' = [pools EXCEPT ![id] = pool],
           UNCHANGED <<block, cycle, metrics, epochSum, rewards, manager, claimed>>
    PROVE  MetricsTypeOK' /\ DOMAIN pools' = DOMAIN pools
<1>1. pools \in Seq(Pools) /\ Len(pools) <= MaxPools
  BY DEF MetricsInv, MetricsTypeOK
<1>2. pools' \in Seq(Pools) /\ Len(pools') = Len(pools) /\ DOMAIN pools' = DOMAIN pools
  BY <1>1
<1>3. Budgets' = Budgets /\ Pools' = Pools /\ Totals' = Totals
  BY DEF Budgets, metrics_reward, Part, Pools, Provisions, Totals, Metric
<1>4. block' \in Nat /\ cycle' \in [epoch : Nat, epoch_start : Nat] /\ rewards' \in Budgets
  BY DEF MetricsInv, MetricsTypeOK
<1>5. /\ metrics' \in [Processors -> [PoolIds -> {None} \cup [epoch : Nat, metric : Nat]]]
      /\ epochSum' \in [Managers -> [PoolIds -> Totals]]
      /\ manager' \in [Processors -> Managers] /\ claimed' \in [0 .. MaxBlock -> Nat]
  BY Zenon DEF MetricsInv, MetricsTypeOK
<1> QED BY <1>1, <1>2, <1>3, <1>4, <1>5 DEF MetricsTypeOK

\* modify_pool, with a name.
LEMMA RenameKeeps ==
    ASSUME MetricsInv, NEW id \in DOMAIN pools, NEW name \in Names, rename_pool(id, name)
    PROVE  MetricsInv'
<1> DEFINE pool == [pools[id] EXCEPT !.name = name]
<1>1. pools \in Seq(Pools) /\ pools[id] \in Pools
  BY DEF MetricsInv, MetricsTypeOK
<1>2. pool \in Pools /\ pool.total = pools[id].total /\ pool.reward = pools[id].reward
  BY <1>1 DEF Pools
<1>3. pools' = [pools EXCEPT ![id] = pool]
  BY DEF rename_pool
<1> HIDE DEF pool
<1>4. UNCHANGED <<block, cycle, metrics, epochSum, rewards, manager, claimed, disturbed>>
  BY DEF rename_pool, commitVars, rewardVars, historyVars
<1>5. MetricsTypeOK' /\ DOMAIN pools' = DOMAIN pools
  BY <1>2, <1>3, <1>4, ChangeTyped
<1>6. \A i \in DOMAIN pools : pools'[i].total = pools[i].total /\ pools'[i].reward = pools[i].reward
  BY <1>1, <1>2, <1>3
<1>7. validate_metric_pools(pools')
  BY DEF rename_pool
<1> QED BY <1>4, <1>5, <1>6, <1>7, GovernKeeps

\* modify_pool, with a ratio.
LEMMA ModifyKeeps ==
    ASSUME MetricsInv, NEW id \in DOMAIN pools, NEW from \in FromEpochs, NEW ratio \in Ratios,
           modify_pool(id, from, ratio)
    PROVE  MetricsInv'
<1> DEFINE reward == Provide(pools[id].reward, last_epoch, from, ratio)
           pool == [pools[id] EXCEPT !.reward = reward]
<1>1. pools \in Seq(Pools) /\ pools[id] \in Pools /\ cycle.epoch \in Nat
  BY DEF MetricsInv, MetricsTypeOK
<1>2. last_epoch \in Nat /\ from \in Nat /\ ratio \in 0 .. Accuracy
  <2>1. last_epoch \in Nat
    BY <1>1 DEF last_epoch
  <2>2. from \in last_epoch .. cycle.epoch + MaxAhead
    BY DEF FromEpochs
  <2>3. ratio \in 0 .. Accuracy /\ MaxAhead \in Nat
    BY MetricsAssumption
  <2> QED BY <1>1, <2>1, <2>2, <2>3
<1>3. reward \in Provisions
  BY <1>1, <1>2, ProvideType DEF Pools
<1>4. pools' = [pools EXCEPT ![id] = pool]
  BY DEF modify_pool
<1> HIDE DEF reward
<1>5. pool \in Pools /\ pool.total = pools[id].total /\ pool.reward = reward
  BY <1>1, <1>3 DEF Pools
<1> HIDE DEF pool
<1>6. UNCHANGED <<block, cycle, metrics, epochSum, rewards, manager, claimed>>
  BY DEF modify_pool, commitVars, rewardVars
<1>7. MetricsTypeOK' /\ DOMAIN pools' = DOMAIN pools
  BY <1>4, <1>5, <1>6, ChangeTyped
<1>8. /\ \A i \in DOMAIN pools : pools'[i].total = pools[i].total
      /\ \A i \in DOMAIN pools : i # id => pools'[i].reward = pools[i].reward
  BY <1>1, <1>4, <1>5
<1>9. validate_metric_pools(pools')
  BY DEF modify_pool
<1>10. disturbed' = IF ProvidedAt(pools'[id].reward, last_epoch) = ProvidedAt(pools[id].reward, last_epoch)
                    THEN disturbed ELSE disturbed \cup {last_epoch}
  BY DEF modify_pool
<1>11. \A e \in Nat \ disturbed' : e + 1 = cycle.epoch =>
          \A i \in DOMAIN pools : ProvidedAt(pools'[i].reward, e) = ProvidedAt(pools[i].reward, e)
  <2> TAKE e \in Nat \ disturbed'
  <2> HAVE e + 1 = cycle.epoch
  <2>1. e = last_epoch
    BY <1>1 DEF last_epoch
  <2>2. ProvidedAt(pools'[id].reward, e) = ProvidedAt(pools[id].reward, e)
    BY <1>10, <2>1
  <2> QED BY <1>8, <2>2
<1>12. disturbed \subseteq disturbed'
  BY <1>10
<1> QED BY <1>6, <1>7, <1>8, <1>9, <1>11, <1>12, GovernKeeps

-----------------------------------------------------------------------------
(***************************************************************************)
(* Blocks, and what changes neither pools nor sums.                        *)
(***************************************************************************)
LEMMA BlockKeeps == ASSUME MetricsInv, on_initialize PROVE MetricsInv'
<1>1. UNCHANGED <<pools, metrics, epochSum, manager, claimed, disturbed>>
  BY DEF on_initialize, poolVars, commitVars, historyVars
<1>2. block \in Nat /\ block' = block + 1 /\ cycle \in [epoch : Nat, epoch_start : Nat]
  BY DEF on_initialize, MetricsInv, MetricsTypeOK
<1>3. Budgets' = Budgets /\ Pools' = Pools /\ Totals' = Totals
  BY DEF Budgets, metrics_reward, Part, Pools, Provisions, Totals, Metric
<1>4. ASSUME NEW e \in Nat PROVE store_metrics_reward(e) \in Budgets
  <2>1. rewards \in Budgets
    BY DEF MetricsInv, MetricsTypeOK
  <2> QED BY <2>1 DEF store_metrics_reward, Slide, Budgets
<1>5. ASSUME rewards' \in Budgets, cycle' \in [epoch : Nat, epoch_start : Nat] PROVE MetricsTypeOK'
  <2>1. /\ metrics' \in [Processors -> [PoolIds -> {None} \cup [epoch : Nat, metric : Nat]]]
        /\ epochSum' \in [Managers -> [PoolIds -> Totals]] /\ pools' \in Seq(Pools)
        /\ manager' \in [Processors -> Managers] /\ claimed' \in [0 .. MaxBlock -> Nat]
    BY <1>1, Zenon DEF MetricsInv, MetricsTypeOK
  <2>2. Len(pools') <= MaxPools
    BY <1>1 DEF MetricsInv, MetricsTypeOK
  <2> QED BY <1>2, <1>3, <1>5, <2>1, <2>2 DEF MetricsTypeOK
<1>6. CASE (block' - cycle.epoch_start) % Epoch = 0
  <2>1. /\ cycle' = [epoch |-> cycle.epoch + 1, epoch_start |-> block']
        /\ rewards' = store_metrics_reward(cycle'.epoch)
    BY <1>6 DEF on_initialize
  <2>2. cycle' \in [epoch : Nat, epoch_start : Nat] /\ cycle'.epoch = cycle.epoch + 1
    BY <1>2, <2>1
  <2>3. rewards' \in Budgets
    BY <1>4, <2>1, <2>2
  <2> QED BY <1>1, <1>5, <2>2, <2>3, EpochKeeps
<1>7. CASE ~((block' - cycle.epoch_start) % Epoch = 0)
  <2>1. UNCHANGED <<cycle, rewards>>
    BY <1>7 DEF on_initialize
  <2>2. rewards' \in Budgets
    BY <2>1 DEF MetricsInv, MetricsTypeOK
  <2> QED BY <1>1, <1>2, <1>5, <2>1, <2>2, IdleKeeps
<1> QED BY <1>6, <1>7

\* Pairing, inflation and a stutter.
LEMMA OthersKeep ==
    ASSUME MetricsInv,
           \/ \E p \in Processors, m \in Managers : Pair(p, m)
           \/ enable_inflation
           \/ UNCHANGED metricsVars
    PROVE  MetricsInv'
<1>1. /\ UNCHANGED <<block, cycle, pools, metrics, epochSum, rewards, claimed, disturbed>>
      /\ manager' \in [Processors -> Managers]
  <2>1. manager \in [Processors -> Managers]
    BY DEF MetricsInv, MetricsTypeOK
  <2>2. CASE \E p \in Processors, m \in Managers : Pair(p, m)
    BY <2>1, <2>2 DEF Pair, poolVars, commitVars, rewardVars, historyVars
  <2>3. CASE enable_inflation
    BY <2>1, <2>3 DEF enable_inflation, poolVars, commitVars, historyVars
  <2>4. CASE UNCHANGED metricsVars
    BY <2>1, <2>4 DEF metricsVars, poolVars, commitVars, rewardVars, historyVars
  <2> QED BY <2>2, <2>3, <2>4
<1>2. MetricsTypeOK'
  <2>1. Budgets' = Budgets /\ Pools' = Pools /\ Totals' = Totals
    BY DEF Budgets, metrics_reward, Part, Pools, Provisions, Totals, Metric
  <2>2. block' \in Nat /\ cycle' \in [epoch : Nat, epoch_start : Nat] /\ Len(pools') <= MaxPools
    BY <1>1 DEF MetricsInv, MetricsTypeOK
  <2>3. /\ metrics' \in [Processors -> [PoolIds -> {None} \cup [epoch : Nat, metric : Nat]]]
        /\ epochSum' \in [Managers -> [PoolIds -> Totals]] /\ pools' \in Seq(Pools)
        /\ rewards' \in Budgets /\ claimed' \in [0 .. MaxBlock -> Nat]
    BY <1>1, Zenon DEF MetricsInv, MetricsTypeOK
  <2> QED BY <1>1, <2>1, <2>2, <2>3 DEF MetricsTypeOK
<1> QED BY <1>1, <1>2, IdleKeeps

-----------------------------------------------------------------------------
(***************************************************************************)
(* Commits: the manager's sums and the pools' totals gain the same in the  *)
(* epoch under way, and keep what they hold of the last one.               *)
(***************************************************************************)
\* What commit does with the metrics that count, if the processor is active.
Added(m, g, bonus) ==
    /\ pools' = [id \in DOMAIN pools |->
          IF id \in DOMAIN g
          THEN [pools[id] EXCEPT !.total = AddAt(@, cycle.epoch, g[id], bonus)]
          ELSE pools[id]]
    /\ epochSum' = [epochSum EXCEPT ![m] = [id \in PoolIds |->
          IF id \in DOMAIN g THEN AddAt(@[id], cycle.epoch, g[id], bonus) ELSE @[id]]]
    /\ UNCHANGED <<cycle, disturbed>>

Grown(g, bonus, id) == IF id \in DOMAIN g THEN Gain(g[id], bonus) ELSE 0

\* The metrics that count are numbers of known ids.
LEMMA CountedType ==
    ASSUME MetricsTypeOK, NEW p \in Processors, NEW input \in Inputs
    PROVE  \E C \in SUBSET PoolIds : Counted(p, input) \in [C -> Nat]
<1>1. DOMAIN input \subseteq PoolIds
  BY DEF PoolIds
<1>2. \A id \in DOMAIN input : input[id] \in Nat
  BY MetricsAssumption
<1>3. \A id \in PoolIds : metrics[p][id] \in {None} \cup [epoch : Nat, metric : Nat]
  BY DEF MetricsTypeOK
<1>4. CASE input # <<>>
  <2>1. Counted(p, input) \in [New(p, input) -> Nat]
    BY <1>2, <1>4 DEF Counted, New
  <2>2. New(p, input) \in SUBSET PoolIds
    BY <1>1 DEF New
  <2> QED BY <2>1, <2>2
<1>5. CASE input = <<>>
  <2>1. \A id \in Reused(p) : metrics[p][id].metric \in Nat
    BY <1>3 DEF Reused
  <2>2. Counted(p, input) \in [Reused(p) -> Nat]
    BY <1>5, <2>1 DEF Counted
  <2>3. Reused(p) \in SUBSET PoolIds
    BY DEF Reused
  <2> QED BY <2>2, <2>3
<1> QED BY <1>4, <1>5

\* The totals of the pools.
LEMMA AddedPools ==
    ASSUME MetricsInv, NEW m, NEW C \in SUBSET PoolIds, NEW g \in [C -> Nat], NEW bonus \in BOOLEAN,
           Added(m, g, bonus)
    PROVE  /\ pools' \in Seq(Pools) /\ Len(pools') = Len(pools) /\ DOMAIN pools' = DOMAIN pools
           /\ \A id \in DOMAIN pools :
                 /\ pools'[id].reward = pools[id].reward /\ pools'[id].total.epoch <= cycle.epoch
                 /\ TotalOf(id, cycle.epoch)' = TotalOf(id, cycle.epoch) + Grown(g, bonus, id)
                 /\ \A x \in Nat : x + 1 = cycle.epoch =>
                       At(pools'[id].total, x, NoMetric) = At(pools[id].total, x, NoMetric)
<1>1. /\ pools \in Seq(Pools) /\ DOMAIN pools = 1 .. Len(pools) /\ Len(pools) \in Nat
      /\ cycle.epoch \in Nat /\ cycle' = cycle
  BY DEF MetricsInv, MetricsTypeOK, Added
<1>2. ASSUME NEW id \in DOMAIN pools
      PROVE  /\ pools'[id] \in Pools
             /\ pools'[id].reward = pools[id].reward /\ pools'[id].total.epoch <= cycle.epoch
             /\ TotalOf(id, cycle.epoch)' = TotalOf(id, cycle.epoch) + Grown(g, bonus, id)
             /\ \A x \in Nat : x + 1 = cycle.epoch =>
                   At(pools'[id].total, x, NoMetric) = At(pools[id].total, x, NoMetric)
  <2>1. pools[id] \in Pools
    BY <1>1
  <2>2. pools[id].total \in Totals /\ pools[id].total.epoch <= cycle.epoch
    BY <2>1 DEF Pools, MetricsInv, SumsInv, WrittenUpToNow
  <2>3. CASE id \in C
    <3> DEFINE t == AddAt(pools[id].total, cycle.epoch, g[id], bonus)
    <3>1. /\ t \in Totals /\ t.epoch = cycle.epoch
          /\ At(t, cycle.epoch, NoMetric)[2] = At(pools[id].total, cycle.epoch, NoMetric)[2] + Gain(g[id], bonus)
          /\ \A x \in Nat : x + 1 = cycle.epoch =>
                At(t, x, NoMetric) = At(pools[id].total, x, NoMetric)
      <4>1. g[id] \in Nat
        BY <2>3
      <4> QED BY <1>1, <2>2, <4>1, AddAtNow
    <3>2. pools'[id] = [pools[id] EXCEPT !.total = t]
      BY <2>3 DEF Added
    <3> HIDE DEF t
    <3>3. pools'[id] \in Pools /\ pools'[id].total = t /\ pools'[id].reward = pools[id].reward
      BY <2>1, <3>1, <3>2 DEF Pools
    <3>4. TotalOf(id, cycle.epoch)' = At(t, cycle.epoch, NoMetric)[2]
      BY <1>1, <3>3 DEF TotalOf
    <3>5. Grown(g, bonus, id) = Gain(g[id], bonus)
      BY <2>3 DEF Grown
    <3>6. TotalOf(id, cycle.epoch) = At(pools[id].total, cycle.epoch, NoMetric)[2]
      BY DEF TotalOf
    <3> QED BY <1>1, <3>1, <3>3, <3>4, <3>5, <3>6
  <2>4. CASE id \notin C
    <3>1. pools'[id] = pools[id] /\ Grown(g, bonus, id) = 0
      BY <2>4 DEF Added, Grown
    <3>2. TotalOf(id, cycle.epoch)' = TotalOf(id, cycle.epoch)
      BY <1>1, <3>1 DEF TotalOf
    <3>3. TotalOf(id, cycle.epoch) \in Nat
      BY <1>1, AmountsType DEF Amounts, MetricsInv
    <3> QED BY <2>1, <2>2, <3>1, <3>2, <3>3
  <2> QED BY <2>3, <2>4
<1>3. DOMAIN pools' = DOMAIN pools /\ pools' = [id \in DOMAIN pools |-> pools'[id]]
  BY DEF Added
<1>4. pools' \in [1 .. Len(pools) -> Pools]
  BY <1>1, <1>2, <1>3
<1>5. pools' \in Seq(Pools) /\ Len(pools') = Len(pools)
  BY <1>1, <1>4
<1> QED BY <1>2, <1>3, <1>5

\* The sums of the managers: that of m grows, the others stay.
SumsGrow(m, C, g, bonus) ==
    \A n \in Managers, id \in PoolIds :
       /\ epochSum'[n][id].epoch <= cycle.epoch
       /\ n = m /\ id \in C =>
             /\ epochSum'[n][id].epoch = cycle.epoch
             /\ SumOf(n, id, cycle.epoch)'[2] = SumOf(n, id, cycle.epoch)[2] + Gain(g[id], bonus)
       /\ ~(n = m /\ id \in C) => epochSum'[n][id] = epochSum[n][id]
       /\ \A x \in Nat : x + 1 = cycle.epoch => SumOf(n, id, x)' = SumOf(n, id, x)

\* So they do.
LEMMA AddedSums ==
    ASSUME MetricsInv, NEW m \in Managers, NEW C \in SUBSET PoolIds, NEW g \in [C -> Nat],
           NEW bonus \in BOOLEAN, Added(m, g, bonus)
    PROVE  /\ epochSum' \in [Managers -> [PoolIds -> Totals]]
           /\ SumsGrow(m, C, g, bonus)
<1>1. epochSum \in [Managers -> [PoolIds -> Totals]] /\ cycle.epoch \in Nat /\ cycle' = cycle
  BY DEF MetricsInv, MetricsTypeOK, Added
<1> DEFINE F == [id \in PoolIds |->
               IF id \in C THEN AddAt(epochSum[m][id], cycle.epoch, g[id], bonus) ELSE epochSum[m][id]]
<1>2. epochSum' = [epochSum EXCEPT ![m] = F]
  <2>1. DOMAIN g = C
    OBVIOUS
  <2> QED BY <1>1, <2>1 DEF Added
<1>3. ASSUME NEW id \in PoolIds
      PROVE  /\ F[id] \in Totals /\ F[id].epoch <= cycle.epoch
             /\ id \in C =>
                   /\ F[id].epoch = cycle.epoch
                   /\ At(F[id], cycle.epoch, NoMetric)[2]
                        = At(epochSum[m][id], cycle.epoch, NoMetric)[2] + Gain(g[id], bonus)
             /\ id \notin C => F[id] = epochSum[m][id]
             /\ \A x \in Nat : x + 1 = cycle.epoch =>
                   At(F[id], x, NoMetric) = At(epochSum[m][id], x, NoMetric)
  <2>1. epochSum[m][id] \in Totals /\ epochSum[m][id].epoch <= cycle.epoch
    BY <1>1 DEF MetricsInv, SumsInv, WrittenUpToNow
  <2>2. CASE id \in C
    <3> DEFINE t == AddAt(epochSum[m][id], cycle.epoch, g[id], bonus)
    <3>1. F[id] = t
      BY <2>2
    <3>2. g[id] \in Nat
      BY <2>2
    <3>3. /\ t \in Totals /\ t.epoch = cycle.epoch
          /\ At(t, cycle.epoch, NoMetric)[2]
               = At(epochSum[m][id], cycle.epoch, NoMetric)[2] + Gain(g[id], bonus)
          /\ \A x \in Nat : x + 1 = cycle.epoch =>
                At(t, x, NoMetric) = At(epochSum[m][id], x, NoMetric)
      BY <1>1, <2>1, <3>2, AddAtNow
    <3> HIDE DEF t, F
    <3> QED BY <1>1, <2>2, <3>1, <3>3
  <2>3. CASE id \notin C
    <3>1. F[id] = epochSum[m][id]
      BY <2>3
    <3> HIDE DEF F
    <3> QED BY <2>1, <2>3, <3>1
  <2> QED BY <2>2, <2>3
<1>4. F \in [PoolIds -> Totals]
  BY <1>3
<1> HIDE DEF F
<1>5. epochSum' \in [Managers -> [PoolIds -> Totals]]
  BY <1>1, <1>2, <1>4
<1>6. epochSum'[m] = F /\ \A n \in Managers : n # m => epochSum'[n] = epochSum[n]
  BY <1>1, <1>2
<1>7. ASSUME NEW n \in Managers, NEW id \in PoolIds
      PROVE  /\ epochSum'[n][id].epoch <= cycle.epoch
             /\ n = m /\ id \in C =>
                   /\ epochSum'[n][id].epoch = cycle.epoch
                   /\ SumOf(n, id, cycle.epoch)'[2] = SumOf(n, id, cycle.epoch)[2] + Gain(g[id], bonus)
             /\ ~(n = m /\ id \in C) => epochSum'[n][id] = epochSum[n][id]
             /\ \A x \in Nat : x + 1 = cycle.epoch => SumOf(n, id, x)' = SumOf(n, id, x)
  <2>1. CASE n = m
    <3>1. \A x : SumOf(n, id, x)' = At(F[id], x, NoMetric)
      BY <1>6, <2>1 DEF SumOf
    <3>2. SumOf(n, id, cycle.epoch)' = At(F[id], cycle.epoch, NoMetric)
      BY <1>1, <1>6, <2>1 DEF SumOf
    <3> QED BY <1>3, <1>6, <2>1, <3>1, <3>2 DEF SumOf
  <2>2. CASE n # m
    <3>1. epochSum'[n][id] = epochSum[n][id] /\ epochSum[n][id].epoch <= cycle.epoch
      BY <1>6, <2>2 DEF MetricsInv, SumsInv, WrittenUpToNow
    <3> QED BY <2>2, <3>1 DEF SumOf
  <2> QED BY <2>1, <2>2
<1> QED BY <1>5, <1>7 DEF SumsGrow

\* do_claim rounds down.
LEMMA ClaimBounds ==
    ASSUME NEW ps \in Seq(Pools), Len(ps) <= MaxPools, NEW e \in Nat, NEW S,
           NEW sums \in [S -> Metric], NEW n \in Nat
    PROVE  /\ do_claim(ps, e, sums, n) \in Nat
           /\ ~(S \subseteq DOMAIN ps) => do_claim(ps, e, sums, n) = 0
           /\ S \subseteq DOMAIN ps =>
                 /\ SumOver([id \in S |-> Share(ps[id], e, sums[id])], S) \in Nat
                 /\ Accuracy * do_claim(ps, e, sums, n)
                      <= SumOver([id \in S |-> Share(ps[id], e, sums[id])], S) * n
<1> DEFINE f == [id \in S |-> Share(ps[id], e, sums[id])]
           s == SumOver(f, S)
           a == do_claim(ps, e, sums, n)
<1>1. DOMAIN sums = S /\ Accuracy \in Nat
  BY MetricsAssumption
<1>2. CASE ~(S \subseteq DOMAIN ps)
  BY <1>1, <1>2 DEF do_claim
<1>3. CASE S \subseteq DOMAIN ps
  <2>1. IsFiniteSet(S) /\ \A id \in S : ps[id] \in Pools
    BY <1>3, PoolsFinite, FS_Subset
  <2>2. \A id \in S : f[id] \in Nat
    BY <2>1, ShareType
  <2>3. s \in Nat
    <3> HIDE DEF f
    <3> QED BY <2>1, <2>2, SumNat
  <2>4. CASE n = 0
    <3>1. a = 0
      BY <2>4 DEF do_claim
    <3> HIDE DEF s, a
    <3> QED BY <1>1, <1>3, <2>3, <2>4, <3>1 DEF s, a
  <2>5. CASE n # 0
    <3> DEFINE k == Min({Accuracy, s})
    <3>1. a = Part(k, n)
      BY <1>1, <1>3, <2>5 DEF do_claim
    <3> HIDE DEF s, a
    <3>2. k \in Nat /\ k <= s
      BY <1>1, <2>3, MinOfTwo
    <3> HIDE DEF k
    <3>3. a \in Nat /\ Accuracy * a <= k * n
      BY <3>1, <3>2, PartRounds
    <3>4. k * n <= s * n
      BY <2>3, <3>2
    <3>5. Accuracy * a <= s * n
      BY <1>1, <2>3, <3>2, <3>3, <3>4
    <3> QED BY <1>3, <2>3, <3>3, <3>5 DEF s, a
  <2> QED BY <2>4, <2>5
<1> QED BY <1>2, <1>3

\* So ratios and sums stay as they have to be.
LEMMA AddedKeeps ==
    ASSUME MetricsInv, NEW m \in Managers, NEW C \in SUBSET PoolIds, NEW g \in [C -> Nat],
           NEW bonus \in BOOLEAN, Added(m, g, bonus), MetricsTypeOK'
    PROVE  RatiosInv' /\ SumsInv'
<1> DEFINE c == cycle.epoch
<1>1. /\ c \in Nat /\ cycle' = cycle /\ disturbed' = disturbed /\ Amounts
      /\ IsFiniteSet(Managers) /\ DOMAIN g = C
  BY AmountsType, MetricsAssumption DEF MetricsInv, MetricsTypeOK, Added
<1>2. Amounts'
  <2>1. MetricsTypeOK' => Amounts'
    BY AmountsType, PTL
  <2> QED BY <2>1
<1>3. /\ DOMAIN pools' = DOMAIN pools
      /\ \A id \in DOMAIN pools :
            /\ pools'[id].reward = pools[id].reward /\ pools'[id].total.epoch <= c
            /\ TotalOf(id, c)' = TotalOf(id, c) + Grown(g, bonus, id)
            /\ \A x \in Nat : x + 1 = c =>
                  At(pools'[id].total, x, NoMetric) = At(pools[id].total, x, NoMetric)
  BY AddedPools
<1>4. \A n \in Managers, id \in PoolIds :
         /\ epochSum'[n][id].epoch <= c
         /\ n = m /\ id \in C =>
               SumOf(n, id, c)'[2] = SumOf(n, id, c)[2] + Gain(g[id], bonus)
         /\ ~(n = m /\ id \in C) => epochSum'[n][id] = epochSum[n][id]
         /\ \A x \in Nat : x + 1 = c => SumOf(n, id, x)' = SumOf(n, id, x)
  <2>1. SumsGrow(m, C, g, bonus)
    BY AddedSums
  <2> QED BY <2>1 DEF SumsGrow
<1>5. RatiosInv'
  <2>1. ASSUME NEW e PROVE RatioSum(pools', e) = RatioSum(pools, e)
    <3>1. [id \in DOMAIN pools' |-> ProvidedAt(pools'[id].reward, e)]
            = [id \in DOMAIN pools |-> ProvidedAt(pools[id].reward, e)]
      BY <1>3
    <3> QED BY <1>3, <3>1, Zenon DEF RatioSum
  <2>2. \A e \in Nat : e >= c => RatioSum(pools', e) <= Accuracy
    BY <2>1 DEF MetricsInv, RatiosInv
  <2> QED BY <1>1, <2>2 DEF RatiosInv, RatioSum
<1>6. WrittenUpToNow'
  BY <1>1, <1>3, <1>4 DEF WrittenUpToNow
<1>7. ASSUME NEW id \in DOMAIN pools
      PROVE  ManagersSum(id, c)' = ManagersSum(id, c) + Grown(g, bonus, id) /\ ManagersSum(id, c) \in Int
  <2> DEFINE f == [n \in Managers |-> SumOf(n, id, c)[2]]
             h == [n \in Managers |-> SumOf(n, id, c)'[2]]
  <2>1. id \in PoolIds
    BY <1>1 DEF Amounts
  <2>2. \A n \in Managers : f[n] \in Nat
    BY <1>1, <2>1 DEF Amounts, Metric
  <2>3. \A n \in Managers : n # m => h[n] = f[n]
    BY <1>1, <1>4, <2>1 DEF SumOf
  <2>4. h[m] = f[m] + Grown(g, bonus, id) /\ Grown(g, bonus, id) \in Nat
    <3>1. CASE id \in C
      <4>1. Grown(g, bonus, id) = Gain(g[id], bonus) /\ g[id] \in Nat
        BY <1>1, <3>1 DEF Grown
      <4>2. Gain(g[id], bonus) \in Nat
        BY <4>1, GainType
      <4>3. SumOf(m, id, c)'[2] = SumOf(m, id, c)[2] + Gain(g[id], bonus)
        BY <1>4, <2>1, <3>1
      <4>4. h[m] = SumOf(m, id, c)'[2] /\ f[m] = SumOf(m, id, c)[2]
        OBVIOUS
      <4> HIDE DEF f, h
      <4> QED BY <4>1, <4>2, <4>3, <4>4
    <3>2. CASE id \notin C
      <4>1. Grown(g, bonus, id) = 0
        BY <1>1, <3>2 DEF Grown
      <4>2. SumOf(m, id, c)' = SumOf(m, id, c)
        BY <1>1, <1>4, <2>1, <3>2 DEF SumOf
      <4>3. h[m] = f[m]
        BY <4>2
      <4> HIDE DEF f, h
      <4> QED BY <2>2, <4>1, <4>3
    <3> QED BY <3>1, <3>2
  <2>5. ManagersSum(id, c) = SumOver(f, Managers) /\ ManagersSum(id, c)' = SumOver(h, Managers)
    BY DEF ManagersSum
  <2> HIDE DEF f, h, c
  <2>6. \A n \in Managers : f[n] \in Int
    BY <2>2
  <2>7. h[m] \in Int
    BY <2>2, <2>4
  <2>8. SumOver(h, Managers) = SumOver(f, Managers) - f[m] + h[m]
    BY <1>1, <2>3, <2>6, <2>7, SumChange
  <2>9. SumOver(f, Managers) \in Int
    BY <1>1, <2>6, SumInt
  <2> QED BY <2>4, <2>5, <2>6, <2>8, <2>9
<1>8. ASSUME NEW e \in Nat, e + 1 = c
      PROVE  /\ \A id \in DOMAIN pools :
                   /\ TotalOf(id, e)' = TotalOf(id, e) /\ ManagersSum(id, e)' = ManagersSum(id, e)
             /\ SharedRatios(e)' = SharedRatios(e)
  <2>1. ASSUME NEW id \in DOMAIN pools
        PROVE  /\ TotalOf(id, e)' = TotalOf(id, e) /\ ManagersSum(id, e)' = ManagersSum(id, e)
               /\ SharedRatio(id, e)' = SharedRatio(id, e)
    <3>1. TotalOf(id, e)' = TotalOf(id, e)
      BY <1>3, <1>8 DEF TotalOf
    <3>2. id \in PoolIds
      BY <1>1 DEF Amounts
    <3>3. \A n \in Managers : SumOf(n, id, e)' = SumOf(n, id, e)
      BY <1>4, <1>8, <3>2
    <3>4. [n \in Managers |-> SumOf(n, id, e)'[2]] = [n \in Managers |-> SumOf(n, id, e)[2]]
      BY <3>3
    <3>5. ManagersSum(id, e)' = ManagersSum(id, e)
      BY <3>4, Zenon DEF ManagersSum
    <3>6. SharedRatio(id, e)' = SharedRatio(id, e)
      BY <1>3, <3>1 DEF SharedRatio
    <3> QED BY <3>1, <3>5, <3>6
  <2>2. [id \in DOMAIN pools' |-> SharedRatio(id, e)'] = [id \in DOMAIN pools |-> SharedRatio(id, e)]
    BY <1>3, <2>1
  <2>3. SharedRatios(e)' = SharedRatios(e)
    BY <1>3, <2>2, Zenon DEF SharedRatios
  <2> QED BY <2>1, <2>3
<1>9. ASSUME NEW e \in Nat \ disturbed, e = c, NEW id \in DOMAIN pools
      PROVE  ManagersSum(id, e)' <= TotalOf(id, e)'
  <2>1. ManagersSum(id, c) <= TotalOf(id, c) /\ TotalOf(id, c) \in Nat
    BY <1>1, <1>9 DEF MetricsInv, SumsInv, Amounts
  <2>2. Grown(g, bonus, id) \in Nat
    BY <1>1, GainType DEF Grown
  <2>3. ManagersSum(id, c)' <= TotalOf(id, c)'
    BY <1>3, <1>7, <2>1, <2>2
  <2>4. ManagersSum(id, e)' = ManagersSum(id, c)' /\ TotalOf(id, e)' = TotalOf(id, c)'
    BY <1>1, <1>9 DEF ManagersSum, SumOf, TotalOf
  <2> QED BY <2>3, <2>4
<1>10. SumsInv'
  <2> SUFFICES ASSUME NEW e \in Nat \ disturbed
               PROVE  /\ e = c => \A id \in DOMAIN pools : ManagersSum(id, e)' <= TotalOf(id, e)'
                      /\ e + 1 = c =>
                            /\ SharedRatios(e)' <= Accuracy
                            /\ \A id \in DOMAIN pools :
                                  TotalOf(id, e)' # 0 => ManagersSum(id, e)' <= TotalOf(id, e)'
    BY <1>1, <1>3, <1>6 DEF SumsInv
  <2>1. CASE e = c
    BY <1>1, <1>9, <2>1
  <2>2. CASE e + 1 = c
    BY <1>1, <1>8, <2>2 DEF MetricsInv, SumsInv
  <2> QED BY <2>1, <2>2
<1> QED BY <1>5, <1>10

\* The claims of the last epoch grow by the shares that are claimed now.
LEMMA AddedClaims ==
    ASSUME MetricsInv, NEW m \in Managers, NEW C \in SUBSET PoolIds, NEW g \in [C -> Nat],
           NEW bonus \in BOOLEAN, Added(m, g, bonus), MetricsTypeOK',
           NEW e \in Nat, e + 1 = cycle.epoch
    PROVE  /\ ClaimedShares(e) <= ClaimedShares(e)'
           /\ Completed(m, C) \subseteq DOMAIN pools =>
                 ClaimedShares(e)
                   + SumOver([id \in Completed(m, C) |-> Share(pools'[id], e, SumOf(m, id, e))], Completed(m, C))
                 <= ClaimedShares(e)'
<1> DEFINE c == cycle.epoch
           R == Completed(m, C)
           h == [id \in R |-> Share(pools'[id], e, SumOf(m, id, e))]
           F == [id \in DOMAIN pools |-> PoolClaims(id, e)]
           G == [id \in DOMAIN pools |-> PoolClaims(id, e)']
<1>1. /\ c \in Nat /\ cycle' = cycle /\ Amounts /\ IsFiniteSet(Managers)
      /\ IsFiniteSet(DOMAIN pools) /\ DOMAIN pools \subseteq PoolIds
  BY AmountsType, MetricsAssumption DEF MetricsInv, MetricsTypeOK, Added, Amounts
<1>2. Amounts'
  <2>1. MetricsTypeOK' => Amounts'
    BY AmountsType, PTL
  <2> QED BY <2>1
<1>3. /\ DOMAIN pools' = DOMAIN pools
      /\ \A id \in DOMAIN pools :
            /\ pools'[id].reward = pools[id].reward
            /\ At(pools'[id].total, e, NoMetric) = At(pools[id].total, e, NoMetric)
  BY AddedPools
<1>4. \A n \in Managers, id \in PoolIds :
         /\ n = m /\ id \in C => epochSum'[n][id].epoch = c
         /\ ~(n = m /\ id \in C) => epochSum'[n][id] = epochSum[n][id]
         /\ SumOf(n, id, e)' = SumOf(n, id, e)
  <2>1. SumsGrow(m, C, g, bonus)
    BY AddedSums
  <2> QED BY <2>1 DEF SumsGrow
<1>5. ASSUME NEW id \in DOMAIN pools, NEW n \in Managers
      PROVE  /\ ShareOf(n, id, e)' = ShareOf(n, id, e) /\ ShareOf(n, id, e) \in Nat
             /\ Share(pools'[id], e, SumOf(n, id, e)) = ShareOf(n, id, e)
             /\ HasClaimed(n, id) => HasClaimed(n, id)'
             /\ n # m => ClaimedShare(n, id, e)' = ClaimedShare(n, id, e)
             /\ ClaimedShare(n, id, e) \in Nat /\ ClaimedShare(n, id, e)' \in Nat
             /\ ClaimedShare(n, id, e) <= ClaimedShare(n, id, e)'
  <2>1. id \in PoolIds /\ ShareOf(n, id, e) \in Nat
    BY <1>1 DEF Amounts
  <2>2. Share(pools'[id], e, SumOf(n, id, e)) = ShareOf(n, id, e)
    BY <1>3 DEF Share, ShareOf
  <2>3. ShareOf(n, id, e)' = Share(pools'[id], e, SumOf(n, id, e))
    BY <1>4, <2>1 DEF ShareOf
  <2>4. HasClaimed(n, id) => HasClaimed(n, id)'
    BY <1>1, <1>4, <2>1 DEF HasClaimed
  <2>5. n # m => (HasClaimed(n, id)' <=> HasClaimed(n, id))
    BY <1>1, <1>4, <2>1 DEF HasClaimed
  <2>6. /\ ClaimedShare(n, id, e) = IF HasClaimed(n, id) THEN ShareOf(n, id, e) ELSE 0
        /\ ClaimedShare(n, id, e)' = IF HasClaimed(n, id)' THEN ShareOf(n, id, e)' ELSE 0
    BY DEF ClaimedShare
  <2>7. CASE HasClaimed(n, id)
    BY <2>1, <2>2, <2>3, <2>4, <2>6, <2>7
  <2>8. CASE ~HasClaimed(n, id)
    BY <2>1, <2>2, <2>3, <2>5, <2>6, <2>8
  <2> QED BY <2>7, <2>8
<1>6. ASSUME NEW id \in DOMAIN pools
      PROVE  PoolClaims(id, e) \in Nat /\ PoolClaims(id, e)' \in Nat /\ PoolClaims(id, e) <= PoolClaims(id, e)'
  <2> DEFINE f == [n \in Managers |-> ClaimedShare(n, id, e)]
             k == [n \in Managers |-> ClaimedShare(n, id, e)']
  <2>1. \A n \in Managers : f[n] \in Nat /\ k[n] \in Nat /\ f[n] <= k[n]
    BY <1>5
  <2>2. PoolClaims(id, e) = SumOver(f, Managers) /\ PoolClaims(id, e)' = SumOver(k, Managers)
    BY DEF PoolClaims
  <2> HIDE DEF f, k
  <2>3. SumOver(f, Managers) \in Nat /\ SumOver(k, Managers) \in Nat
    BY <1>1, <2>1, SumNat
  <2>4. SumOver(f, Managers) <= SumOver(k, Managers)
    BY <1>1, <2>1, SumMonotonic
  <2> QED BY <2>2, <2>3, <2>4
<1>7. ASSUME NEW id \in DOMAIN pools, id \in R
      PROVE  h[id] \in Nat /\ PoolClaims(id, e) + h[id] <= PoolClaims(id, e)'
  <2> DEFINE f == [n \in Managers |-> ClaimedShare(n, id, e)]
             k == [n \in Managers |-> ClaimedShare(n, id, e)']
  <2>1. id \in C /\ epochSum[m][id].epoch + 1 = c /\ id \in PoolIds
    BY <1>1, <1>7 DEF Completed
  <2>2. epochSum[m][id].epoch \in Nat
    BY <2>1 DEF MetricsInv, MetricsTypeOK, Totals
  <2>3. ~HasClaimed(m, id) /\ HasClaimed(m, id)'
    BY <1>1, <1>4, <2>1, <2>2 DEF HasClaimed
  <2>4. h[id] = ShareOf(m, id, e) /\ h[id] \in Nat
    BY <1>5, <1>7
  <2>5. f[m] = 0 /\ k[m] = h[id]
    <3>1. ClaimedShare(m, id, e) = 0 /\ ClaimedShare(m, id, e)' = ShareOf(m, id, e)'
      BY <2>3 DEF ClaimedShare
    <3> QED BY <1>5, <2>4, <3>1
  <2>6. \A n \in Managers : f[n] \in Nat /\ k[n] \in Nat
    BY <1>5
  <2>7. \A n \in Managers : n # m => k[n] = f[n]
    BY <1>5
  <2>8. PoolClaims(id, e) = SumOver(f, Managers) /\ PoolClaims(id, e)' = SumOver(k, Managers)
    BY DEF PoolClaims
  <2> HIDE DEF f, k, h
  <2>9. \A n \in Managers : f[n] \in Int
    BY <2>6
  <2>10. SumOver(k, Managers) = SumOver(f, Managers) - f[m] + k[m]
    <3>1. k[m] \in Int
      BY <2>6
    <3> QED BY <1>1, <2>7, <2>9, <3>1, SumChange
  <2>11. SumOver(f, Managers) \in Int
    BY <1>1, <2>9, SumInt
  <2> QED BY <2>4, <2>5, <2>8, <2>10, <2>11
<1>8. ClaimedShares(e) = SumOver(F, DOMAIN pools) /\ ClaimedShares(e)' = SumOver(G, DOMAIN pools)
  <2>1. ClaimedShares(e) = SumOver(F, DOMAIN pools)
    BY DEF ClaimedShares
  <2>2. ClaimedShares(e)' = SumOver([id \in DOMAIN pools' |-> PoolClaims(id, e)'], DOMAIN pools')
    BY DEF ClaimedShares
  <2>3. [id \in DOMAIN pools' |-> PoolClaims(id, e)'] = G
    BY <1>3
  <2> QED BY <1>3, <2>1, <2>2, <2>3
<1>9. \A id \in DOMAIN pools : F[id] \in Nat /\ G[id] \in Nat /\ F[id] <= G[id]
  BY <1>6
<1>10. \A id \in DOMAIN pools : id \in R => h[id] \in Nat /\ F[id] + h[id] <= G[id]
  <2>1. \A id \in DOMAIN pools : F[id] = PoolClaims(id, e) /\ G[id] = PoolClaims(id, e)'
    OBVIOUS
  <2> HIDE DEF F, G, h, R
  <2> QED BY <1>7, <2>1
<1> HIDE DEF F, G, h, R
<1>11. ClaimedShares(e) <= ClaimedShares(e)'
  <2>1. \A id \in DOMAIN pools : F[id] \in Int /\ G[id] \in Int /\ F[id] <= G[id]
    BY <1>9
  <2> QED BY <1>1, <1>8, <2>1, SumMonotonic
<1>12. ASSUME R \subseteq DOMAIN pools PROVE ClaimedShares(e) + SumOver(h, R) <= ClaimedShares(e)'
  <2>1. R \in SUBSET DOMAIN pools /\ \A id \in R : h[id] \in Nat /\ F[id] + h[id] <= G[id]
    BY <1>10, <1>12
  <2>2. SumOver(F, DOMAIN pools) + SumOver(h, R) <= SumOver(G, DOMAIN pools)
    BY <1>1, <1>9, <2>1, SumGains
  <2> QED BY <1>8, <2>2
<1> QED BY <1>11, <1>12 DEF h, R

\* The epoch before this one, if there is one.
LEMMA LastEpoch ==
    ASSUME cycle.epoch \in Nat
    PROVE  /\ last_epoch \in Nat
           /\ cycle.epoch # 0 => last_epoch = cycle.epoch - 1
  BY DEF last_epoch

\* What a commit grants for the last epoch is within the shares it claims.
LEMMA GrantedKeeps ==
    ASSUME MetricsInv, NEW m \in Managers, NEW C \in SUBSET PoolIds, NEW g \in [C -> Nat],
           NEW bonus \in BOOLEAN, Added(m, g, bonus), MetricsTypeOK',
           NEW amount, NEW n \in {0, metrics_reward},
           amount = do_claim(pools', last_epoch,
                             [id \in Completed(m, C) |-> SumOf(m, id, last_epoch)], n),
           claimed' = [claimed EXCEPT ![last_epoch] = @ + amount]
    PROVE  ClaimsInv'
<1> DEFINE c == cycle.epoch
           R == Completed(m, C)
           sums == [id \in R |-> SumOf(m, id, last_epoch)]
           h == [id \in R |-> Share(pools'[id], last_epoch, SumOf(m, id, last_epoch))]
<1>1. /\ c \in Nat /\ cycle' = cycle /\ disturbed' = disturbed /\ Amounts
      /\ claimed \in [0 .. MaxBlock -> Nat] /\ MaxBlock \in Nat /\ Accuracy \in Nat \ {0}
  BY AmountsType, MetricsAssumption DEF MetricsInv, MetricsTypeOK, Added
<1>2. Amounts'
  <2>1. MetricsTypeOK' => Amounts'
    BY AmountsType, PTL
  <2> QED BY <2>1
<1>3. /\ last_epoch \in Nat /\ n \in Nat /\ n <= metrics_reward /\ metrics_reward \in Nat
      /\ metrics_reward' = metrics_reward
  <2>1. last_epoch \in Nat
    BY <1>1, LastEpoch
  <2>2. metrics_reward' = metrics_reward
    BY DEF metrics_reward, Part
  <2>3. metrics_reward \in Nat
    BY RewardNat
  <2> HIDE DEF c
  <2>4. n \in Nat /\ n <= metrics_reward
    BY <2>3
  <2> QED BY <2>1, <2>2, <2>3, <2>4
<1>4. R \subseteq C /\ sums \in [R -> Metric]
  <2>1. R \subseteq C
    BY DEF Completed
  <2>2. \A id \in R : SumOf(m, id, last_epoch) \in Metric
    BY <1>1, <1>3, <2>1 DEF Amounts
  <2> QED BY <2>1, <2>2
<1>5. /\ amount \in Nat
      /\ ~(R \subseteq DOMAIN pools) => amount = 0
      /\ R \subseteq DOMAIN pools =>
            SumOver(h, R) \in Nat /\ Accuracy * amount <= SumOver(h, R) * n
  <2>1. pools' \in Seq(Pools) /\ Len(pools') <= MaxPools /\ DOMAIN pools' = DOMAIN pools
    <3>1. pools' \in Seq(Pools) /\ Len(pools') = Len(pools) /\ DOMAIN pools' = DOMAIN pools
      BY AddedPools
    <3>2. Len(pools) <= MaxPools
      BY DEF MetricsInv, MetricsTypeOK
    <3> QED BY <3>1, <3>2
  <2> DEFINE k == [id \in R |-> Share(pools'[id], last_epoch, sums[id])]
  <2>2. k = h
    OBVIOUS
  <2>3. amount = do_claim(pools', last_epoch, sums, n)
    OBVIOUS
  <2> HIDE DEF sums, h, R
  <2>4. /\ amount \in Nat
        /\ ~(R \subseteq DOMAIN pools') => amount = 0
        /\ R \subseteq DOMAIN pools' =>
              SumOver(k, R) \in Nat /\ Accuracy * amount <= SumOver(k, R) * n
    <3> DEFINE a == do_claim(pools', last_epoch, sums, n)
    <3>1. /\ a \in Nat
          /\ ~(R \subseteq DOMAIN pools') => a = 0
          /\ R \subseteq DOMAIN pools' =>
                SumOver(k, R) \in Nat /\ Accuracy * a <= SumOver(k, R) * n
      BY <1>3, <1>4, <2>1, ClaimBounds, Zenon
    <3> HIDE DEF a, k
    <3> QED BY <2>3, <3>1 DEF a
  <2> HIDE DEF k
  <2> QED BY <2>1, <2>2, <2>4
<1>6. /\ DOMAIN claimed' = DOMAIN claimed
      /\ \A e \in DOMAIN claimed : e # last_epoch => claimed'[e] = claimed[e]
      /\ last_epoch \in DOMAIN claimed => claimed'[last_epoch] = claimed[last_epoch] + amount
  BY <1>1
<1> HIDE DEF sums
<1> SUFFICES ASSUME NEW e \in DOMAIN claimed
             PROVE  /\ e >= c => claimed'[e] = 0
                    /\ e + 1 = c /\ e \notin disturbed =>
                          Accuracy * claimed'[e] <= ClaimedShares(e)' * metrics_reward
                    /\ e + 1 < c /\ e \notin disturbed => claimed'[e] <= metrics_reward
  BY <1>1, <1>3, <1>6 DEF ClaimsInv
<1>7. e \in Nat /\ claimed[e] \in Nat
  BY <1>1
<1>8. /\ e >= c => claimed[e] = 0
      /\ e + 1 = c /\ e \notin disturbed =>
            Accuracy * claimed[e] <= ClaimedShares(e) * metrics_reward
      /\ e + 1 < c /\ e \notin disturbed => claimed[e] <= metrics_reward
  BY DEF MetricsInv, ClaimsInv
<1>9. ASSUME e >= c PROVE claimed'[e] = 0
  <2>1. CASE c = 0
    <3>1. R = {}
      <4>1. \A id \in PoolIds : epochSum[m][id].epoch \in Nat
        BY DEF MetricsInv, MetricsTypeOK, Totals
      <4> QED BY <1>4, <2>1, <4>1 DEF Completed
    <3>2. R \subseteq DOMAIN pools /\ SumOver(h, R) = 0
      <4> HIDE DEF h, R
      <4> QED BY <3>1, SumEmpty
    <3> HIDE DEF h, R
    <3>3. Accuracy * amount <= 0
      BY <1>3, <1>5, <3>2
    <3>4. amount = 0
      BY <1>1, <1>5, <3>3, FactorOut
    <3> QED BY <1>6, <1>7, <1>8, <1>9, <3>4
  <2>2. CASE c # 0
    <3>1. e # last_epoch
      BY <1>1, <1>7, <1>9, <2>2, LastEpoch
    <3> QED BY <1>6, <1>8, <1>9, <3>1
  <2> QED BY <2>1, <2>2
<1>10. ASSUME e + 1 = c, e \notin disturbed
       PROVE  Accuracy * claimed'[e] <= ClaimedShares(e)' * metrics_reward
  <2>1. e = last_epoch
    BY <1>1, <1>7, <1>10, LastEpoch
  <2>2. /\ ClaimedShares(e) <= ClaimedShares(e)'
        /\ R \subseteq DOMAIN pools => ClaimedShares(e) + SumOver(h, R) <= ClaimedShares(e)'
    BY <1>7, <1>10, <2>1, AddedClaims
  <2>3. ClaimedShares(e) \in Nat /\ ClaimedShares(e)' \in Nat
    BY <1>1, <1>2, <1>7 DEF Amounts
  <2>4. Accuracy * claimed[e] <= ClaimedShares(e) * metrics_reward
    BY <1>8, <1>10
  <2>5. claimed'[e] = claimed[e] + amount
    BY <1>6, <2>1
  <2> DEFINE x == ClaimedShares(e)
             y == ClaimedShares(e)'
             s == SumOver(h, R)
             b == claimed[e]
             r == metrics_reward
  <2>6. CASE R \subseteq DOMAIN pools
    <3>1. s \in Nat /\ Accuracy * amount <= s * n /\ x + s <= y
      BY <1>5, <2>2, <2>6
    <3> HIDE DEF x, y, s, b, r, c, h, R
    <3>2. x \in Nat /\ y \in Nat /\ b \in Nat /\ r \in Nat /\ n <= r /\ n \in Nat /\ Accuracy \in Nat
      BY <1>1, <1>3, <1>7, <2>3 DEF x, y, b, r
    <3>3. s * n <= s * r /\ s * n \in Nat /\ s * r \in Nat
      BY <3>1, <3>2
    <3>4. (x + s) * r <= y * r
      BY <3>1, <3>2
    <3>5. (x + s) * r = x * r + s * r /\ x * r \in Nat
      BY <3>1, <3>2
    <3>6. Accuracy * (b + amount) = Accuracy * b + Accuracy * amount
      BY <1>5, <3>2
    <3>7. Accuracy * b <= x * r
      BY <2>4 DEF x, b, r
    <3>8. Accuracy * (b + amount) <= y * r
      <4>1. Accuracy * b \in Nat /\ Accuracy * amount \in Nat /\ y * r \in Nat
        BY <1>5, <3>2
      <4> QED BY <3>1, <3>3, <3>4, <3>5, <3>6, <3>7, <4>1
    <3> QED BY <2>5, <3>8 DEF b, y, r
  <2>7. CASE ~(R \subseteq DOMAIN pools)
    <3>1. amount = 0
      BY <1>5, <2>7
    <3>2. claimed'[e] = claimed[e]
      BY <1>7, <2>5, <3>1
    <3> HIDE DEF x, y, s, b, r, c, h, R
    <3>3. x \in Nat /\ y \in Nat /\ b \in Nat /\ r \in Nat /\ Accuracy \in Nat /\ x <= y
      BY <1>1, <1>3, <1>7, <2>2, <2>3 DEF x, y, b, r
    <3>4. x * r <= y * r /\ x * r \in Nat /\ y * r \in Nat /\ Accuracy * b \in Nat
      BY <3>3
    <3>5. Accuracy * b <= x * r
      BY <2>4 DEF x, b, r
    <3>6. Accuracy * b <= y * r
      BY <3>4, <3>5
    <3> QED BY <3>2, <3>6 DEF b, y, r
  <2> QED BY <2>6, <2>7
<1>11. ASSUME e + 1 < c, e \notin disturbed PROVE claimed'[e] <= metrics_reward
  <2>1. e # last_epoch
    BY <1>1, <1>7, <1>11, LastEpoch
  <2> QED BY <1>6, <1>8, <1>11, <2>1
<1> QED BY <1>9, <1>10, <1>11

\* A heartbeat with metrics.
LEMMA CommitKeeps ==
    ASSUME MetricsInv, NEW p \in Processors, NEW input \in Inputs, commit(p, input)
    PROVE  MetricsInv'
<1> DEFINE m == manager[p]
           g == Counted(p, input)
           bonus == input = <<>>
           n == At(rewards, last_epoch, 0)
<1>1. PICK C \in SUBSET PoolIds : g \in [C -> Nat]
  BY CountedType DEF MetricsInv
<1>2. m \in Managers /\ bonus \in BOOLEAN /\ DOMAIN g = C /\ cycle.epoch \in Nat /\ last_epoch \in Nat
  <2>1. cycle.epoch \in Nat
    BY DEF MetricsInv, MetricsTypeOK
  <2>2. last_epoch \in Nat
    BY <2>1, LastEpoch
  <2>3. DOMAIN g = C
    BY <1>1
  <2>4. m \in Managers
    BY DEF MetricsInv, MetricsTypeOK
  <2> QED BY <2>1, <2>2, <2>3, <2>4
<1>3. n \in {0, metrics_reward}
  <2>1. rewards \in Budgets
    BY DEF MetricsInv, MetricsTypeOK
  <2> QED BY <2>1 DEF Budgets, At
<1>4. metrics' \in [Processors -> [PoolIds -> {None} \cup [epoch : Nat, metric : Nat]]]
  <2> DEFINE M == [id \in PoolIds |->
                 IF id \in C THEN [epoch |-> cycle.epoch, metric |-> g[id]] ELSE metrics[p][id]]
  <2>1. metrics \in [Processors -> [PoolIds -> {None} \cup [epoch : Nat, metric : Nat]]]
    BY DEF MetricsInv, MetricsTypeOK
  <2>2. metrics' = [metrics EXCEPT ![p] = M]
    BY <1>2, <2>1 DEF commit
  <2>3. M \in [PoolIds -> {None} \cup [epoch : Nat, metric : Nat]]
    BY <1>1, <1>2, <2>1
  <2> HIDE DEF M
  <2> QED BY <2>1, <2>2, <2>3
<1>5. UNCHANGED <<block, cycle, rewards, manager, disturbed>>
  BY DEF commit, rewardVars
<1>6. Budgets' = Budgets /\ Pools' = Pools /\ Totals' = Totals
  BY DEF Budgets, metrics_reward, Part, Pools, Provisions, Totals, Metric
<1>7. ASSUME pools' \in Seq(Pools), Len(pools') <= MaxPools,
             epochSum' \in [Managers -> [PoolIds -> Totals]], claimed' \in [0 .. MaxBlock -> Nat]
      PROVE  MetricsTypeOK'
  <2>1. /\ block' \in Nat /\ cycle' \in [epoch : Nat, epoch_start : Nat] /\ rewards' \in Budgets
        /\ manager' \in [Processors -> Managers]
    BY <1>5, Zenon DEF MetricsInv, MetricsTypeOK
  <2> QED BY <1>4, <1>6, <1>7, <2>1 DEF MetricsTypeOK
<1>8. CASE Warmed(p) = Active
  <2> DEFINE sums == [id \in Completed(m, C) |-> SumOf(m, id, last_epoch)]
             amount == do_claim(pools', last_epoch, sums, n)
  <2>1. Added(m, g, bonus)
    BY <1>5, <1>8 DEF commit, Added
  <2>2. claimed' = [claimed EXCEPT ![last_epoch] = @ + amount]
    <3>1. \A id : At(epochSum[m][id], last_epoch, NoMetric) = SumOf(m, id, last_epoch)
      BY DEF SumOf
    <3>2. claimed' = [claimed EXCEPT ![last_epoch] = @ +
             do_claim(pools', last_epoch,
                      [id \in Completed(m, DOMAIN g) |-> At(epochSum[m][id], last_epoch, NoMetric)], n)]
      BY <1>8 DEF commit
    <3>3. [id \in Completed(m, DOMAIN g) |-> At(epochSum[m][id], last_epoch, NoMetric)] = sums
      BY <1>2, <3>1
    <3> QED BY <3>2, <3>3
  <2> HIDE DEF g, bonus, m
  <2>3. pools' \in Seq(Pools) /\ Len(pools') = Len(pools) /\ Len(pools) <= MaxPools
    <3>1. pools' \in Seq(Pools) /\ Len(pools') = Len(pools)
      BY <1>1, <1>2, <2>1, AddedPools
    <3>2. Len(pools) <= MaxPools
      BY DEF MetricsInv, MetricsTypeOK
    <3> QED BY <3>1, <3>2
  <2>4. epochSum' \in [Managers -> [PoolIds -> Totals]]
    BY <1>1, <1>2, <2>1, AddedSums
  <2>5. amount \in Nat
    <3>1. n \in Nat
      BY <1>3, RewardNat
    <3>2. sums \in [Completed(m, C) -> Metric]
      <4>1. Completed(m, C) \subseteq PoolIds
        BY DEF Completed
      <4>2. \A id \in Completed(m, C) : SumOf(m, id, last_epoch) \in Metric
        BY <1>2, <4>1, AmountsType DEF Amounts, MetricsInv
      <4> QED BY <4>2
    <3> HIDE DEF sums, n
    <3> QED BY <1>2, <2>3, <3>1, <3>2, ClaimBounds
  <2>6. claimed' \in [0 .. MaxBlock -> Nat]
    <3>1. claimed \in [0 .. MaxBlock -> Nat]
      BY DEF MetricsInv, MetricsTypeOK
    <3> HIDE DEF amount
    <3>2. DOMAIN claimed' = 0 .. MaxBlock /\ claimed' = [e \in 0 .. MaxBlock |-> claimed'[e]]
      BY <2>2, <3>1
    <3>3. \A e \in 0 .. MaxBlock : claimed'[e] \in Nat
      BY <2>2, <2>5, <3>1
    <3> QED BY <3>2, <3>3
  <2>7. MetricsTypeOK'
    BY <1>7, <2>3, <2>4, <2>6
  <2>8. RatiosInv' /\ SumsInv'
    BY <1>1, <1>2, <2>1, <2>7, AddedKeeps
  <2>9. ClaimsInv'
    <3>1. amount = do_claim(pools', last_epoch,
                            [id \in Completed(m, C) |-> SumOf(m, id, last_epoch)], n)
      OBVIOUS
    <3> HIDE DEF amount, n
    <3> QED BY <1>1, <1>2, <1>3, <2>1, <2>2, <2>7, <3>1, GrantedKeeps
  <2> QED BY <2>7, <2>8, <2>9 DEF MetricsInv
<1>9. CASE Warmed(p) # Active
  <2>1. UNCHANGED <<pools, epochSum, claimed>>
    BY <1>9 DEF commit
  <2>2. MetricsTypeOK'
    <3>1. /\ pools' \in Seq(Pools) /\ epochSum' \in [Managers -> [PoolIds -> Totals]]
          /\ claimed' \in [0 .. MaxBlock -> Nat] /\ Len(pools') <= MaxPools
      BY <2>1, Zenon DEF MetricsInv, MetricsTypeOK
    <3> QED BY <1>7, <3>1
  <2> QED BY <1>5, <2>1, <2>2, IdleKeeps
<1> QED BY <1>8, <1>9

-----------------------------------------------------------------------------
(***************************************************************************)
(* The invariant, and what it says.                                        *)
(***************************************************************************)
LEMMA MetricsNextInv == MetricsInv /\ [MetricsNext]_metricsVars => MetricsInv'
<1> SUFFICES ASSUME MetricsInv, [MetricsNext]_metricsVars PROVE MetricsInv'
  OBVIOUS
<1>1. CASE on_initialize
  BY <1>1, BlockKeeps
<1>2. ASSUME NEW name \in Names, NEW ratio \in Ratios, create_pool(name, ratio) PROVE MetricsInv'
  BY <1>2, CreateKeeps
<1>3. ASSUME NEW id \in DOMAIN pools, NEW name \in Names, rename_pool(id, name) PROVE MetricsInv'
  BY <1>3, RenameKeeps
<1>4. ASSUME NEW id \in DOMAIN pools, NEW from \in FromEpochs, NEW ratio \in Ratios,
             modify_pool(id, from, ratio)
      PROVE  MetricsInv'
  BY <1>4, ModifyKeeps
<1>5. CASE enable_inflation
  BY <1>5, OthersKeep
<1>6. ASSUME NEW p \in Processors, NEW input \in Inputs, commit(p, input) PROVE MetricsInv'
  BY <1>6, CommitKeeps
<1>7. CASE \E p \in Processors, m \in Managers : Pair(p, m)
  BY <1>7, OthersKeep
<1>8. CASE UNCHANGED metricsVars
  BY <1>8, OthersKeep
<1> QED BY <1>1, <1>2, <1>3, <1>4, <1>5, <1>6, <1>7, <1>8 DEF MetricsNext, Govern

\* The inductive invariant holds in every reachable state: types, ratios of all
\* epochs to come, managers' sums against totals, claims against shares.
THEOREM MetricsInvCorrect == MetricsSpec => []MetricsInv
  BY MetricsInitInv, MetricsNextInv, PTL DEF MetricsSpec

\* validate_metric_pools looks at a few epochs only; still the pools never get
\* more than the whole reward, in this or a later epoch.
THEOREM RatiosAddUpCorrect == MetricsSpec => []RatiosAddUp
<1>1. MetricsInv => RatiosAddUp
  <2>1. MetricsInv => cycle.epoch \in Nat
    BY DEF MetricsInv, MetricsTypeOK
  <2>2. MaxAhead \in Nat
    BY MetricsAssumption
  <2> QED BY <2>1, <2>2 DEF MetricsInv, RatiosInv, RatiosAddUp
<1> QED BY <1>1, MetricsInvCorrect, PTL

\* do_claim grants for the metrics of an epoch no more than was minted for it,
\* unless governance changed the ratios of that epoch afterwards.
THEOREM ClaimsWithinBudgetCorrect == MetricsSpec => []ClaimsWithinBudget
<1>1. MetricsInv => ClaimsWithinBudget
  <2> SUFFICES ASSUME MetricsInv, NEW e \in DOMAIN claimed \ disturbed
               PROVE  claimed[e] <= metrics_reward
    BY DEF ClaimsWithinBudget
  <2>1. e \in Nat /\ cycle.epoch \in Nat /\ metrics_reward \in Nat
    <3>1. claimed \in [0 .. MaxBlock -> Nat] /\ cycle.epoch \in Nat
      BY DEF MetricsInv, MetricsTypeOK
    <3> QED BY <3>1, RewardNat, MetricsAssumption
  <2>2. CASE e >= cycle.epoch
    BY <2>1, <2>2 DEF MetricsInv, ClaimsInv
  <2>3. CASE e + 1 = cycle.epoch
    BY <2>3, LastWithinReward
  <2>4. CASE e + 1 < cycle.epoch
    BY <2>4 DEF MetricsInv, ClaimsInv
  <2> QED BY <2>1, <2>2, <2>3, <2>4
<1> QED BY <1>1, MetricsInvCorrect, PTL
=============================================================================
