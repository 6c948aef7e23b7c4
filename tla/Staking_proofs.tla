--------------------------- MODULE Staking_proofs ---------------------------
(***************************************************************************)
(* Proofs about Staking, for any number of committers and delegators, any  *)
(* amounts, periods and ratios: locks and totals are the sums they stand   *)
(* for, the weights of a pool are those of the delegations in it, stake    *)
(* leaves only after notice, and whoever has waited gets out.              *)
(*                                                                         *)
(* The helpers of the pallet take a store and return one.  The invariant   *)
(* is therefore a predicate of a store: every helper that succeeds         *)
(* preserves it, and a transaction is a sequence of helpers.               *)
(***************************************************************************)
EXTENDS Staking, Balances_proofs

(***************************************************************************)
(* Types.                                                                  *)
(***************************************************************************)
Keys == Delegators \X Committers

Typed(s) ==
    /\ s = [commitments |-> s.commitments, delegations |-> s.delegations,
            delegator_total |-> s.delegator_total, total_stake |-> s.total_stake,
            locks |-> s.locks, ledger |-> s.ledger, unrecorded |-> s.unrecorded,
            overslashed |-> s.overslashed, reward |-> s.reward, ok |-> s.ok]
    /\ s.commitments \in [Committers -> Commitments \cup {None}]
    /\ s.delegations \in [DOMAIN s.delegations -> Delegations]
    /\ DOMAIN s.delegations \subseteq Keys /\ IsFiniteSet(DOMAIN s.delegations)
    /\ s.delegator_total \in [Accounts -> Nat]
    /\ s.total_stake \in Nat /\ s.overslashed \in Nat /\ s.reward \in Nat
    /\ s.locks \in [Accounts -> Nat]
    /\ s.unrecorded \in [Accounts -> Nat]
    /\ s.ledger \in Ledgers /\ \A a \in Accounts : s.ledger.held[a] = 0
    /\ s.ok \in BOOLEAN

(***************************************************************************)
(* Sums: the locks and the totals.                                         *)
(***************************************************************************)
AmountsOf(s) == [k \in DOMAIN s.delegations |-> s.delegations[k].stake.amount]

OwnStakes(s) == [c \in Committers |-> OwnStake(s, c)]

KeysOf(s, a) == {k \in DOMAIN s.delegations : k[1] = a}

AccountAddsUp(s, a) ==
    /\ s.delegator_total[a] = SumOver(AmountsOf(s), KeysOf(s, a))
    /\ s.locks[a] = OwnStake(s, a) + s.delegator_total[a]
    /\ s.locks[a] <= s.ledger.free[a] + s.overslashed

TotalAddsUp(s) ==
    s.total_stake + s.overslashed =
        SumOver(OwnStakes(s), Committers) + SumOver(AmountsOf(s), DOMAIN s.delegations)

SumsInv(s) == TotalAddsUp(s) /\ \A a \in Accounts : AccountAddsUp(s, a)

(***************************************************************************)
(* Weights: those of a pool are those of the fresh delegations to it.      *)
(***************************************************************************)
RewardWeights(s) == [k \in DOMAIN s.delegations |-> s.delegations[k].reward_weight]

SlashWeights(s) == [k \in DOMAIN s.delegations |-> s.delegations[k].slash_weight]

FreshKeys(s, c) ==
    {k \in DOMAIN s.delegations : k[2] = c /\ Fresh(s.commitments[c], s.delegations[k])}

PoolWeighs(s, c) ==
    LET w == CurrentWeights(s.commitments[c])
    IN  /\ w.delegations_reward = SumOver(RewardWeights(s), FreshKeys(s, c))
        /\ w.delegations_slash = SumOver(SlashWeights(s), FreshKeys(s, c))

WeightsInv(s) == \A c \in Committers : Staked(s, c) => PoolWeighs(s, c)

(***************************************************************************)
(* A commitment: its pool of rewards is the one of its stake, which began  *)
(* when the stake did; without a stake it is older than this block.  Here  *)
(* and below, A are the blocks at which a cooldown of the commitment was   *)
(* announced, and n is the current block.                                  *)
(***************************************************************************)
StakeTimed(st, A, n) ==
    /\ st.created <= n /\ st.cooldown_period >= 1
    /\ st.cooldown_started # None =>
        /\ st.cooldown_started \in A
        /\ st.created <= st.cooldown_started /\ st.cooldown_started <= n

CommitmentTimed(cm, A, n) ==
    LET b == cm.pool_rewards
    IN  /\ b.past # None => b.past.at < b.current.at
        /\ cm.stake = None => b.current.at < n
        /\ cm.stake # None => b.current.at = cm.stake.created /\ StakeTimed(cm.stake, A, n)

(***************************************************************************)
(* A delegation: what is rewarded of it follows from what is staked, its   *)
(* weights too while it is fresh; its slash debt is not more than its pool *)
(* has lost; it is not longer than its commitment and not made in its      *)
(* cooldown; and it is stale only after a cooldown of its commitment that  *)
(* was as long as its own.                                                 *)
(***************************************************************************)
Rewardable(st) ==
    IF st.cooldown_started = None THEN st.amount ELSE Part(CooldownRewardRatio, st.amount)

Weighed(d) ==
    /\ d.reward_weight = Weight(d.stake.rewardable_amount, d.stake.cooldown_period)
    /\ d.slash_weight = Weight(d.stake.amount, d.stake.cooldown_period)

DebtBounded(d, r) == r # None => d.slash_debt <= PerWeight(d.slash_weight, r.slash_per_weight)

Joined(d, st) ==
    /\ d.cooldown_period <= st.cooldown_period
    /\ st.cooldown_started # None => d.created <= st.cooldown_started

Outlived(d, A, n) == \E t \in A : d.created <= t /\ t + d.cooldown_period <= n

StakeHolds(st, n) ==
    /\ st.rewardable_amount = Rewardable(st)
    /\ st.created <= n /\ st.cooldown_period >= 1
    /\ st.cooldown_started # None => st.created <= st.cooldown_started

DelegationHolds(d, cm, A, n) ==
    /\ StakeHolds(d.stake, n)
    /\ DebtBounded(d, get_latest(cm.pool_rewards, d.stake.created))
    /\ Fresh(cm, d) => Weighed(d) /\ Joined(d.stake, cm.stake)
    /\ ~Fresh(cm, d) => Outlived(d.stake, A, n)

CommitmentsInv(s, ann, n) ==
    \A c \in Committers :
        s.commitments[c] # None => CommitmentTimed(s.commitments[c], ann[c], n)

DelegationsInv(s, ann, n) ==
    \A k \in DOMAIN s.delegations :
        /\ s.commitments[k[2]] # None
        /\ DelegationHolds(s.delegations[k], s.commitments[k[2]], ann[k[2]], n)

StoreInv(s, ann, n) ==
    /\ Typed(s)
    /\ SumsInv(s)
    /\ WeightsInv(s)
    /\ CommitmentsInv(s, ann, n)
    /\ DelegationsInv(s, ann, n)

Clock == block \in Nat /\ announced \in [Committers -> SUBSET Nat]

Sliding(V) == [epoch : Nat, prev : V, cur : V]

RewardsTyped ==
    /\ metrics \in [Committers -> Sliding(BOOLEAN)]
    /\ scores \in [Committers -> Sliding(Nat)]
    /\ budget \in Sliding([total : Nat, total_score : Nat])

StakingInv == Clock /\ RewardsTyped /\ StoreInv(Store, announced, block)

-----------------------------------------------------------------------------
(***************************************************************************)
(* Arithmetic.                                                             *)
(***************************************************************************)
\* The constants one by one.
LEMMA Constants ==
    /\ Committers \subseteq Accounts /\ Delegators \subseteq Accounts
    /\ Slashers \subseteq Accounts /\ Distribution \in Accounts
    /\ Distribution \notin Committers /\ Distribution \notin Delegators
    /\ Distribution \notin Slashers
    /\ IsFiniteSet(Committers)
    /\ Epoch \in Nat \ {0} /\ MaxCooldownPeriod \in Nat \ {0}
    /\ PER_TOKEN_DECIMALS \in Nat \ {0} /\ MinCooldownPeriod \in Nat \ {0}
    /\ MinStake \in Nat \ {0} /\ MinDelegation \in Nat \ {0}
    /\ MaxDelegationRatio \in 0 .. 100 /\ CooldownRewardRatio \in 0 .. 100
    /\ BaseSlashRation \in 0 .. 100 /\ SlashRewardRatio \in 0 .. 100 /\ Commission \in 0 .. 100
    /\ ScoreLimit \in Nat /\ Inflation \in Nat /\ MaxBlock \in Nat
    /\ Amounts \subseteq Nat /\ StakePeriods \subseteq Nat /\ DelegationPeriods \subseteq Nat
    /\ InitialBalances \in [Accounts -> Nat]
BY StakingAssumption

\* None is none of the values that it stands beside.
LEMMA NoneIsNone ==
    /\ None \notin Nat /\ None \notin Stakes /\ None \notin Commitments
    /\ None \notin Weights /\ None \notin Entries(Weights)
    /\ None \notin PoolReward /\ None \notin Entries(PoolReward)
BY NoneAssumption

\* A quotient rounded down, and its monotonicity.
LEMMA QuotientType ==
    ASSUME NEW n \in Nat, NEW d \in Nat \ {0}
    PROVE  n \div d \in Nat
  OBVIOUS

LEMMA QuotientMonotonic ==
    ASSUME NEW m \in Nat, NEW n \in Nat, NEW d \in Nat \ {0}, m <= n
    PROVE  m \div d <= n \div d
<1> DEFINE x == m \div d
           y == n \div d
<1>1. x \in Nat /\ y \in Nat
  OBVIOUS
<1>2. d * x <= m /\ n < d * (y + 1)
  OBVIOUS
<1> HIDE DEF x, y
<1>3. d * x < d * (y + 1) /\ d * (y + 1) \in Nat /\ d * x \in Nat
  BY <1>1, <1>2
<1>4. x < y + 1
  <2> SUFFICES ASSUME x >= y + 1 PROVE FALSE
    BY <1>1
  <2>1. PICK z \in Nat : x = y + 1 + z
    <3>1. x - (y + 1) \in Nat /\ x = y + 1 + (x - (y + 1))
      BY <1>1
    <3> QED BY <3>1
  <2>2. d * x = d * (y + 1) + d * z /\ d * z \in Nat
    BY <2>1, <1>1
  <2> QED BY <2>2, <1>3
<1> QED BY <1>1, <1>4 DEF x, y

LEMMA ProductMonotonic ==
    ASSUME NEW m \in Nat, NEW n \in Nat, NEW p \in Nat, m <= n
    PROVE  m * p \in Nat /\ n * p \in Nat /\ p * m \in Nat /\ p * n \in Nat
           /\ m * p <= n * p /\ p * m <= p * n
<1>1. PICK z \in Nat : n = m + z
  <2>1. n - m \in Nat /\ n = m + (n - m)
    OBVIOUS
  <2> QED BY <2>1
<1>2. n * p = m * p + z * p /\ p * n = p * m + p * z
  BY <1>1
<1>3. z * p \in Nat /\ m * p \in Nat /\ p * z \in Nat /\ p * m \in Nat
  OBVIOUS
<1> QED BY <1>2, <1>3

\* A part of a whole that is the quotient of a smaller by a larger weight.
LEMMA ShareWithin ==
    ASSUME NEW a \in Nat, NEW b \in Nat, NEW n \in Nat, a + b # 0
    PROVE  (a * n) \div (a + b) \in Nat /\ (a * n) \div (a + b) <= n
<1> DEFINE d == a + b
           x == a * n
<1>1. d \in Nat \ {0} /\ x \in Nat /\ x <= d * n
  BY ProductMonotonic
<1>2. (d * n) \div d = n
  BY <1>1
<1>3. d * n \in Nat
  BY <1>1
<1>4. x \div d <= (d * n) \div d
  <2> HIDE DEF d, x
  <2> QED BY <1>1, <1>3, QuotientMonotonic
<1>5. x \div d \in Nat
  BY <1>1
<1> QED BY <1>2, <1>4, <1>5

\* mul_floor of a ratio.
LEMMA PartType ==
    ASSUME NEW p \in 0 .. 100, NEW n \in Nat
    PROVE  Part(p, n) \in Nat /\ Part(p, n) <= n
<1>1. p \in Nat /\ p <= 100 /\ 100 - p \in Nat /\ p + (100 - p) = 100
  OBVIOUS
<1>2. (p * n) \div (p + (100 - p)) \in Nat /\ (p * n) \div (p + (100 - p)) <= n
  BY <1>1, ShareWithin
<1> QED BY <1>1, <1>2 DEF Part

LEMMA PartMonotonic ==
    ASSUME NEW p \in 0 .. 100, NEW m \in Nat, NEW n \in Nat, m <= n
    PROVE  Part(p, m) <= Part(p, n)
<1>1. p \in Nat
  OBVIOUS
<1>2. p * m \in Nat /\ p * n \in Nat /\ p * m <= p * n
  BY <1>1, ProductMonotonic
<1>3. 100 \in Nat \ {0}
  OBVIOUS
<1> DEFINE x == p * m
           y == p * n
<1>4. x \in Nat /\ y \in Nat /\ x <= y
  BY <1>2
<1> HIDE DEF x, y
<1>5. x \div 100 <= y \div 100
  BY <1>3, <1>4, QuotientMonotonic
<1> QED BY <1>5 DEF Part, x, y

LEMMA WeightType ==
    ASSUME NEW n \in Nat, NEW p \in Nat
    PROVE  Weight(n, p) \in Nat
<1>1. n * p \in Nat
  OBVIOUS
<1> QED BY <1>1, QuotientType, Constants DEF Weight

LEMMA WeightMonotonic ==
    ASSUME NEW m \in Nat, NEW n \in Nat, NEW p \in Nat, m <= n
    PROVE  Weight(m, p) <= Weight(n, p)
<1> DEFINE x == m * p
           y == n * p
<1>4. x \in Nat /\ y \in Nat /\ x <= y
  BY ProductMonotonic
<1> HIDE DEF x, y
<1>5. x \div MaxCooldownPeriod <= y \div MaxCooldownPeriod
  BY Constants, <1>4, QuotientMonotonic
<1> QED BY <1>5 DEF Weight, x, y

LEMMA PerWeightType ==
    ASSUME NEW n \in Nat, NEW w \in Nat
    PROVE  PerWeight(w, n) \in Nat
<1>1. w * n \in Nat
  OBVIOUS
<1> QED BY <1>1, QuotientType, Constants DEF PerWeight

LEMMA PerWeightMonotonic ==
    ASSUME NEW m \in Nat, NEW n \in Nat, NEW w \in Nat, m <= n
    PROVE  PerWeight(w, m) <= PerWeight(w, n)
<1> DEFINE x == w * m
           y == w * n
<1>4. x \in Nat /\ y \in Nat /\ x <= y
  BY ProductMonotonic
<1> HIDE DEF x, y
<1>5. x \div PER_TOKEN_DECIMALS <= y \div PER_TOKEN_DECIMALS
  BY Constants, <1>4, QuotientMonotonic
<1> QED BY <1>5 DEF PerWeight, x, y

LEMMA RewardDebtType ==
    ASSUME NEW w \in Nat, NEW r \in PoolReward
    PROVE  RewardDebt(w, r) \in Nat
<1>1. r.reward_per_weight \in Nat
  BY DEF PoolReward
<1>2. w * r.reward_per_weight \in Nat
  BY <1>1
<1> DEFINE x == w * r.reward_per_weight + PER_TOKEN_DECIMALS - 1
<1>3. x \in Nat
  BY <1>2, Constants
<1> HIDE DEF x
<1>4. x \div PER_TOKEN_DECIMALS \in Nat
  BY <1>3, Constants, QuotientType
<1> QED BY <1>4 DEF RewardDebt, DivCeil, x

LEMMA MinusType ==
    ASSUME NEW m \in Nat, NEW n \in Nat
    PROVE  Minus(m, n) \in Nat /\ Minus(m, n) <= m /\ (n <= m => Minus(m, n) = m - n)
BY DEF Minus

LEMMA SmallerOf ==
    ASSUME NEW m \in Nat, NEW n \in Nat
    PROVE  /\ Min({m, n}) \in {m, n} /\ Min({m, n}) <= m /\ Min({m, n}) <= n
           /\ Min({m, n}) \in Nat
<1>1. \E x \in {m, n} : \A y \in {m, n} : x <= y
  OBVIOUS
<1>2. Min({m, n}) \in {m, n} /\ \A y \in {m, n} : Min({m, n}) <= y
  BY <1>1, Zenon DEF Min
<1> QED BY <1>2

LEMMA LargerOf ==
    ASSUME NEW m \in Nat, NEW n \in Nat
    PROVE  Max({m, n}) \in {m, n}
<1>1. \E x \in {m, n} : \A y \in {m, n} : x >= y
  OBVIOUS
<1> QED BY <1>1, Zenon DEF Max

LEMMA EpochType == ASSUME block \in Nat PROVE epoch \in Nat
BY Constants, QuotientType DEF epoch

-----------------------------------------------------------------------------
(***************************************************************************)
(* Buffers and the parts of commitments.                                   *)
(***************************************************************************)
\* Writing a memory buffer.
LEMMA RememberType ==
    ASSUME NEW V, NEW b \in MemoryBuffers(V), NEW t \in Nat, NEW v \in V
    PROVE  /\ Remember(b, t, v) \in MemoryBuffers(V)
           /\ Remember(b, t, v).current = [at |-> t, value |-> v]
           /\ Remember(b, t, v).past = (IF t = b.current.at THEN b.past ELSE b.current)
BY DEF MemoryBuffers, Entries, Remember

LEMMA MemoryBufferType ==
    ASSUME NEW V, NEW t \in Nat, NEW v \in V
    PROVE  /\ MemoryBuffer(t, v) \in MemoryBuffers(V)
           /\ MemoryBuffer(t, v).current = [at |-> t, value |-> v]
           /\ MemoryBuffer(t, v).past = None
BY DEF MemoryBuffers, Entries, MemoryBuffer

\* Reading one.
LEMMA LatestType ==
    ASSUME NEW V, NEW b \in MemoryBuffers(V), NEW t
    PROVE  /\ get_latest(b, t) \in V \cup {None}
           /\ t >= b.current.at => get_latest(b, t) = b.current.value
           /\ b.current.value \in V /\ b.current.at \in Nat
BY DEF MemoryBuffers, Entries, get_latest

LEMMA StakeType ==
    ASSUME NEW st \in Stakes
    PROVE  /\ st = [amount |-> st.amount, rewardable_amount |-> st.rewardable_amount,
                    created |-> st.created, cooldown_period |-> st.cooldown_period,
                    cooldown_started |-> st.cooldown_started,
                    accrued_reward |-> st.accrued_reward, accrued_slash |-> st.accrued_slash]
           /\ st.amount \in Nat /\ st.rewardable_amount \in Nat /\ st.created \in Nat
           /\ st.cooldown_period \in Nat /\ st.cooldown_started \in Nat \cup {None}
           /\ st.accrued_reward \in Nat /\ st.accrued_slash \in Nat
           /\ st # None
BY NoneIsNone DEF Stakes

LEMMA DelegationType ==
    ASSUME NEW d \in Delegations
    PROVE  /\ d = [stake |-> d.stake, reward_weight |-> d.reward_weight,
                   slash_weight |-> d.slash_weight, reward_debt |-> d.reward_debt,
                   slash_debt |-> d.slash_debt]
           /\ d.stake \in Stakes
           /\ d.reward_weight \in Nat /\ d.slash_weight \in Nat
           /\ d.reward_debt \in Nat /\ d.slash_debt \in Nat
BY DEF Delegations

LEMMA CommitmentType ==
    ASSUME NEW cm \in Commitments
    PROVE  /\ cm = [stake |-> cm.stake, delegations_total_amount |-> cm.delegations_total_amount,
                    delegations_total_rewardable_amount |-> cm.delegations_total_rewardable_amount,
                    weights |-> cm.weights, pool_rewards |-> cm.pool_rewards,
                    last_scoring_epoch |-> cm.last_scoring_epoch,
                    last_slashing_epoch |-> cm.last_slashing_epoch]
           /\ cm.stake \in Stakes \cup {None}
           /\ cm.delegations_total_amount \in Nat
           /\ cm.delegations_total_rewardable_amount \in Nat
           /\ cm.weights \in MemoryBuffers(Weights)
           /\ cm.pool_rewards \in MemoryBuffers(PoolReward)
           /\ cm.last_scoring_epoch \in Nat /\ cm.last_slashing_epoch \in Nat
           /\ cm # None
           /\ CurrentWeights(cm) \in Weights
<1>1. CurrentWeights(cm) \in Weights
  BY DEF Commitments, MemoryBuffers, Entries, CurrentWeights
<1> QED BY <1>1, NoneIsNone DEF Commitments

\* What is assembled from parts of the right types is a commitment.
LEMMA MakeCommitment ==
    ASSUME NEW st \in Stakes \cup {None}, NEW n \in Nat, NEW m \in Nat,
           NEW w \in MemoryBuffers(Weights), NEW r \in MemoryBuffers(PoolReward),
           NEW i \in Nat, NEW j \in Nat
    PROVE  [stake |-> st, delegations_total_amount |-> n,
            delegations_total_rewardable_amount |-> m, weights |-> w, pool_rewards |-> r,
            last_scoring_epoch |-> i, last_slashing_epoch |-> j] \in Commitments
BY DEF Commitments

\* Shrink reduces the totals and the weights of the delegations.
LEMMA ShrinkType ==
    ASSUME block \in Nat, NEW cm, NEW n, NEW m, NEW v, NEW w,
           cm \in Commitments, n \in Nat, m \in Nat, v \in Nat, w \in Nat
    PROVE  LET t == Shrink(cm, n, m, v, w)
           IN  /\ t \in Commitments
               /\ t.stake = cm.stake /\ t.pool_rewards = cm.pool_rewards
               /\ CurrentWeights(t).delegations_reward
                    = Minus(CurrentWeights(cm).delegations_reward, v)
               /\ CurrentWeights(t).delegations_slash
                    = Minus(CurrentWeights(cm).delegations_slash, w)
<1> DEFINE x == [CurrentWeights(cm) EXCEPT
                   !.delegations_reward = Minus(@, v), !.delegations_slash = Minus(@, w)]
           b == Remember(cm.weights, epoch, x)
           t == Shrink(cm, n, m, v, w)
<1>1. CurrentWeights(cm) \in Weights
  BY CommitmentType
<1>2. /\ x \in Weights
      /\ x.delegations_reward = Minus(CurrentWeights(cm).delegations_reward, v)
      /\ x.delegations_slash = Minus(CurrentWeights(cm).delegations_slash, w)
  BY <1>1, MinusType DEF Weights
<1>3. b \in MemoryBuffers(Weights) /\ b.current.value = x
  <2>1. cm.weights \in MemoryBuffers(Weights) /\ epoch \in Nat
    BY CommitmentType, EpochType
  <2> HIDE DEF x
  <2>2. b \in MemoryBuffers(Weights) /\ b.current = [at |-> epoch, value |-> x]
    BY <1>2, <2>1, RememberType
  <2> QED BY <2>2
<1>4. t = [stake |-> cm.stake,
           delegations_total_amount |-> Minus(cm.delegations_total_amount, n),
           delegations_total_rewardable_amount
               |-> Minus(cm.delegations_total_rewardable_amount, m),
           weights |-> b, pool_rewards |-> cm.pool_rewards,
           last_scoring_epoch |-> cm.last_scoring_epoch,
           last_slashing_epoch |-> cm.last_slashing_epoch]
  <2> HIDE DEF x
  <2>1. t = [cm EXCEPT !.delegations_total_amount = Minus(@, n),
                       !.delegations_total_rewardable_amount = Minus(@, m), !.weights = b]
    BY DEF Shrink, x
  <2> HIDE DEF t, b
  <2> QED BY <2>1 DEF Commitments
<1> HIDE DEF b, x
<1>5. t \in Commitments
  <2>1. Minus(cm.delegations_total_amount, n) \in Nat
        /\ Minus(cm.delegations_total_rewardable_amount, m) \in Nat
    BY CommitmentType, MinusType
  <2> QED BY <1>3, <1>4, <2>1, CommitmentType, MakeCommitment
<1> HIDE DEF t
<1>6. CurrentWeights(t) = x
  BY <1>3, <1>4 DEF CurrentWeights
<1> QED BY <1>2, <1>4, <1>5, <1>6 DEF t

\* Reweigh changes the committer's own weights only.
LEMMA ReweighType ==
    ASSUME block \in Nat, NEW cm, cm \in Commitments, cm.stake # None
    PROVE  LET t == Reweigh(cm)
           IN  /\ t \in Commitments
               /\ t.stake = cm.stake /\ t.pool_rewards = cm.pool_rewards
               /\ CurrentWeights(t).delegations_reward = CurrentWeights(cm).delegations_reward
               /\ CurrentWeights(t).delegations_slash = CurrentWeights(cm).delegations_slash
<1> DEFINE v == Weight(cm.stake.rewardable_amount, cm.stake.cooldown_period)
           x == [CurrentWeights(cm) EXCEPT !.self_reward = v, !.self_slash = v]
           b == Remember(cm.weights, epoch, x)
           t == Reweigh(cm)
<1>1. CurrentWeights(cm) \in Weights
  BY CommitmentType
<1>2. v \in Nat
  <2>1. cm.stake \in Stakes
    BY CommitmentType
  <2> QED BY <2>1, StakeType, WeightType
<1>3. /\ x \in Weights
      /\ x.delegations_reward = CurrentWeights(cm).delegations_reward
      /\ x.delegations_slash = CurrentWeights(cm).delegations_slash
  <2> HIDE DEF v
  <2> QED BY <1>1, <1>2 DEF Weights
<1>4. b \in MemoryBuffers(Weights) /\ b.current.value = x
  <2>1. cm.weights \in MemoryBuffers(Weights) /\ epoch \in Nat
    BY CommitmentType, EpochType
  <2> HIDE DEF x
  <2>2. b \in MemoryBuffers(Weights) /\ b.current = [at |-> epoch, value |-> x]
    BY <1>3, <2>1, RememberType
  <2> QED BY <2>2
<1>5. t = [stake |-> cm.stake,
           delegations_total_amount |-> cm.delegations_total_amount,
           delegations_total_rewardable_amount |-> cm.delegations_total_rewardable_amount,
           weights |-> b, pool_rewards |-> cm.pool_rewards,
           last_scoring_epoch |-> cm.last_scoring_epoch,
           last_slashing_epoch |-> cm.last_slashing_epoch]
  <2>1. t = [cm EXCEPT !.weights = b]
    BY DEF Reweigh
  <2> HIDE DEF t, b
  <2> QED BY <2>1, CommitmentType
<1> HIDE DEF b, x
<1>6. t \in Commitments
  BY <1>4, <1>5, CommitmentType, MakeCommitment
<1> HIDE DEF t
<1>7. CurrentWeights(t) = x
  BY <1>4, <1>5 DEF CurrentWeights
<1> QED BY <1>3, <1>5, <1>6, <1>7 DEF t

-----------------------------------------------------------------------------
(***************************************************************************)
(* How the sums follow when delegations change, come or go.                *)
(***************************************************************************)
\* The sum of the delegations of account a, and of all, changes by m.
AmountsMove(s, t, a, m) ==
    /\ \A b \in Accounts :
        SumOver(AmountsOf(t), KeysOf(t, b))
            = SumOver(AmountsOf(s), KeysOf(s, b)) + (IF b = a THEN m ELSE 0)
    /\ SumOver(AmountsOf(t), DOMAIN t.delegations)
        = SumOver(AmountsOf(s), DOMAIN s.delegations) + m

\* Facts about a typed store that every argument about sums needs.
LEMMA StoreFacts ==
    ASSUME NEW s, Typed(s)
    PROVE  /\ IsFiniteSet(DOMAIN s.delegations)
           /\ \A a : IsFiniteSet(KeysOf(s, a)) /\ KeysOf(s, a) \subseteq DOMAIN s.delegations
           /\ \A c : IsFiniteSet(FreshKeys(s, c)) /\ FreshKeys(s, c) \subseteq DOMAIN s.delegations
           /\ \A k \in DOMAIN s.delegations :
                /\ k \in Keys /\ k[1] \in Delegators /\ k[2] \in Committers
                /\ k[1] \in Accounts /\ k[1] # Distribution /\ k[2] \in Accounts
                /\ s.delegations[k] \in Delegations
                /\ AmountsOf(s)[k] = s.delegations[k].stake.amount /\ AmountsOf(s)[k] \in Nat
                /\ RewardWeights(s)[k] = s.delegations[k].reward_weight
                /\ RewardWeights(s)[k] \in Nat
                /\ SlashWeights(s)[k] = s.delegations[k].slash_weight
                /\ SlashWeights(s)[k] \in Nat
<1>1. IsFiniteSet(DOMAIN s.delegations)
  BY DEF Typed
<1>2. ASSUME NEW a
      PROVE  IsFiniteSet(KeysOf(s, a)) /\ KeysOf(s, a) \subseteq DOMAIN s.delegations
  BY <1>1, FS_Subset DEF KeysOf
<1>3. ASSUME NEW c
      PROVE  IsFiniteSet(FreshKeys(s, c)) /\ FreshKeys(s, c) \subseteq DOMAIN s.delegations
  BY <1>1, FS_Subset DEF FreshKeys
<1>4. ASSUME NEW k \in DOMAIN s.delegations
      PROVE  /\ k \in Keys /\ k[1] \in Delegators /\ k[2] \in Committers
             /\ k[1] \in Accounts /\ k[1] # Distribution /\ k[2] \in Accounts
  BY Constants DEF Typed, Keys
<1>5. ASSUME NEW k \in DOMAIN s.delegations
      PROVE  /\ s.delegations[k] \in Delegations
             /\ AmountsOf(s)[k] = s.delegations[k].stake.amount /\ AmountsOf(s)[k] \in Nat
             /\ RewardWeights(s)[k] = s.delegations[k].reward_weight
             /\ RewardWeights(s)[k] \in Nat
             /\ SlashWeights(s)[k] = s.delegations[k].slash_weight
             /\ SlashWeights(s)[k] \in Nat
  <2>1. s.delegations[k] \in Delegations
    BY DEF Typed
  <2>2. s.delegations[k].stake.amount \in Nat
    BY <2>1, DelegationType, StakeType
  <2> QED BY <2>1, <2>2, DelegationType DEF AmountsOf, RewardWeights, SlashWeights
<1> QED BY <1>1, <1>2, <1>3, <1>4, <1>5

\* What an account has staked itself.
LEMMA OwnStakesType ==
    ASSUME NEW s, Typed(s)
    PROVE  /\ \A a : OwnStake(s, a) \in Nat
           /\ \A c \in Committers : OwnStakes(s)[c] \in Nat
<1>1. ASSUME NEW a PROVE OwnStake(s, a) \in Nat
  <2>1. CASE Staked(s, a)
    <3>1. s.commitments[a] \in Commitments /\ s.commitments[a].stake # None
      BY <2>1 DEF Typed, Staked
    <3>2. s.commitments[a].stake \in Stakes
      BY <3>1, CommitmentType
    <3> QED BY <2>1, <3>2, StakeType DEF OwnStake
  <2>2. CASE ~Staked(s, a)
    BY <2>2 DEF OwnStake
  <2> QED BY <2>1, <2>2
<1> QED BY <1>1 DEF OwnStakes

\* A delegation's amount is part of what its delegator has delegated.
LEMMA PartOfDelegated ==
    ASSUME NEW s, Typed(s), SumsInv(s), NEW k \in DOMAIN s.delegations
    PROVE  /\ s.delegations[k].stake.amount <= s.delegator_total[k[1]]
           /\ s.delegations[k].stake.amount <= s.total_stake + s.overslashed
<1>1. AmountsOf(s)[k] <= SumOver(AmountsOf(s), KeysOf(s, k[1]))
  <2>1. k \in KeysOf(s, k[1])
    BY DEF KeysOf
  <2>2. \A l \in KeysOf(s, k[1]) : AmountsOf(s)[l] \in Nat
    BY StoreFacts
  <2>3. IsFiniteSet(KeysOf(s, k[1]))
    BY StoreFacts
  <2> QED BY <2>1, <2>2, <2>3, SumBounds
<1>2. AmountsOf(s)[k] <= SumOver(AmountsOf(s), DOMAIN s.delegations)
  BY StoreFacts, SumBounds
<1>3. SumOver(OwnStakes(s), Committers) \in Nat
  BY OwnStakesType, SumNat, Constants
<1>4. SumOver(AmountsOf(s), DOMAIN s.delegations) \in Nat
  BY StoreFacts, SumNat
<1>5. k[1] \in Accounts /\ AmountsOf(s)[k] = s.delegations[k].stake.amount /\ AmountsOf(s)[k] \in Nat
  BY StoreFacts
<1>6. s.delegator_total[k[1]] = SumOver(AmountsOf(s), KeysOf(s, k[1]))
  BY <1>5 DEF SumsInv, AccountAddsUp
<1>7. s.total_stake + s.overslashed
        = SumOver(OwnStakes(s), Committers) + SumOver(AmountsOf(s), DOMAIN s.delegations)
  BY DEF SumsInv, TotalAddsUp
<1> QED BY <1>1, <1>2, <1>3, <1>4, <1>5, <1>6, <1>7

\* One delegation loses n.
LEMMA AmountChanges ==
    ASSUME NEW s, NEW t, Typed(s), Typed(t), NEW k \in DOMAIN s.delegations,
           DOMAIN t.delegations = DOMAIN s.delegations, NEW m \in Int,
           t.delegations[k].stake.amount = s.delegations[k].stake.amount + m,
           \A l \in DOMAIN s.delegations :
               l # k => t.delegations[l].stake.amount = s.delegations[l].stake.amount
    PROVE  AmountsMove(s, t, k[1], m)
<1> DEFINE f == AmountsOf(s)
           g == AmountsOf(t)
<1>1. /\ \A l \in DOMAIN s.delegations : f[l] \in Nat /\ g[l] \in Nat
      /\ g[k] = f[k] + m
      /\ \A l \in DOMAIN s.delegations : l # k => g[l] = f[l]
  BY StoreFacts
<1> HIDE DEF f, g
<1>2. \A b : KeysOf(t, b) = KeysOf(s, b) /\ KeysOf(s, b) \subseteq DOMAIN s.delegations
  BY DEF KeysOf
<1>3. ASSUME NEW S \in SUBSET (DOMAIN s.delegations), IsFiniteSet(S)
      PROVE  SumOver(g, S) = SumOver(f, S) + (IF k \in S THEN m ELSE 0)
  <2>1. SumOver(f, S) \in Int
    BY <1>1, <1>3, SumInt
  <2>2. CASE k \in S
    <3>1. SumOver(g, S) = SumOver(f, S) - f[k] + g[k]
      <4>1. \A y \in S : f[y] \in Int
        BY <1>1
      <4>2. g[k] \in Int /\ \A y \in S : y # k => g[y] = f[y]
        BY <1>1
      <4> QED BY <4>1, <4>2, <1>3, <2>2, SumChange
    <3> QED BY <3>1, <2>1, <2>2, <1>1
  <2>3. CASE k \notin S
    <3>1. \A x \in S : g[x] = f[x]
      BY <1>1, <2>3
    <3>2. SumOver(g, S) = SumOver(f, S)
      BY <3>1, <1>3, SumSame
    <3> QED BY <3>2, <2>1, <2>3
  <2> QED BY <2>2, <2>3
<1>4. ASSUME NEW b \in Accounts
      PROVE  SumOver(g, KeysOf(t, b)) = SumOver(f, KeysOf(s, b)) + (IF b = k[1] THEN m ELSE 0)
  <2>1. IsFiniteSet(KeysOf(s, b))
    BY StoreFacts
  <2>2. (k \in KeysOf(s, b)) <=> (b = k[1])
    BY DEF KeysOf
  <2>3. SumOver(g, KeysOf(s, b)) = SumOver(f, KeysOf(s, b)) + (IF k \in KeysOf(s, b) THEN m ELSE 0)
    BY <1>2, <1>3, <2>1
  <2> QED BY <1>2, <2>2, <2>3
<1>5. SumOver(g, DOMAIN t.delegations) = SumOver(f, DOMAIN s.delegations) + m
  <2>1. IsFiniteSet(DOMAIN s.delegations)
    BY StoreFacts
  <2> QED BY <2>1, <1>3
<1> QED BY <1>4, <1>5 DEF AmountsMove, f, g

\* The sum without k.
SumLess(f, S, k) == SumOver(f, S) + (IF k \in S THEN 0 - f[k] ELSE 0)

LEMMA SumWithout ==
    ASSUME NEW f, NEW g, NEW S, IsFiniteSet(S), NEW T, NEW k, T = S \ {k},
           \A y \in S : f[y] \in Nat,
           \A y \in S : y # k => g[y] = f[y]
    PROVE  SumOver(g, T) = SumLess(f, S, k)
<1>1. SumOver(f, S) \in Nat
  BY SumNat
<1>2. CASE k \in S
  <2>1. \A y \in S : f[y] \in Int
    OBVIOUS
  <2>2. SumOver(g, S \ {k}) = SumOver(f, S) - f[k]
    BY <1>2, <2>1, SumRemove
  <2> QED BY <1>1, <1>2, <2>2 DEF SumLess
<1>3. CASE k \notin S
  <2>1. S \ {k} = S
    BY <1>3
  <2>2. \A y \in S : g[y] = f[y]
    BY <1>3
  <2>3. SumOver(g, S) = SumOver(f, S)
    BY <2>2, SumSame
  <2>4. SumOver(g, S \ {k}) = SumOver(f, S)
    BY <2>1, <2>3, Zenon
  <2> QED BY <1>1, <1>3, <2>4 DEF SumLess
<1> QED BY <1>2, <1>3

\* A delegation leaves.
LEMMA AmountLeaves ==
    ASSUME NEW s, NEW t, Typed(s), Typed(t), NEW k \in DOMAIN s.delegations,
           DOMAIN t.delegations = DOMAIN s.delegations \ {k},
           \A l \in DOMAIN t.delegations :
               t.delegations[l].stake.amount = s.delegations[l].stake.amount
    PROVE  AmountsMove(s, t, k[1], 0 - s.delegations[k].stake.amount)
<1> DEFINE f == AmountsOf(s)
           g == AmountsOf(t)
<1>1. /\ \A l \in DOMAIN s.delegations : f[l] \in Nat
      /\ \A l \in DOMAIN s.delegations : l # k => g[l] = f[l]
      /\ f[k] = s.delegations[k].stake.amount
  BY StoreFacts
<1> HIDE DEF f, g
<1>2. ASSUME NEW S, NEW T, IsFiniteSet(S), S \subseteq DOMAIN s.delegations, T = S \ {k}
      PROVE  SumOver(g, T) = SumLess(f, S, k)
  <2>1. \A y \in S : f[y] \in Nat
    BY <1>1, <1>2
  <2>2. \A y \in S : y # k => g[y] = f[y]
    BY <1>1, <1>2
  <2> QED BY <2>1, <2>2, <1>2, SumWithout
<1>3. \A b : KeysOf(t, b) = KeysOf(s, b) \ {k} /\ KeysOf(s, b) \subseteq DOMAIN s.delegations
  BY DEF KeysOf
<1>4. ASSUME NEW b \in Accounts
      PROVE  SumOver(g, KeysOf(t, b))
                = SumOver(f, KeysOf(s, b)) + (IF b = k[1] THEN 0 - f[k] ELSE 0)
  <2>1. IsFiniteSet(KeysOf(s, b))
    BY StoreFacts
  <2>2. (k \in KeysOf(s, b)) <=> (b = k[1])
    BY DEF KeysOf
  <2>3. SumOver(g, KeysOf(t, b)) = SumLess(f, KeysOf(s, b), k)
    BY <1>2, <1>3, <2>1, Zenon
  <2> QED BY <2>2, <2>3 DEF SumLess
<1>5. SumOver(g, DOMAIN t.delegations) = SumOver(f, DOMAIN s.delegations) + (0 - f[k])
  <2>1. IsFiniteSet(DOMAIN s.delegations)
    BY StoreFacts
  <2>2. SumOver(g, DOMAIN t.delegations) = SumLess(f, DOMAIN s.delegations, k)
    BY <1>2, <2>1, Zenon
  <2> QED BY <2>2 DEF SumLess
<1> QED BY <1>1, <1>4, <1>5 DEF AmountsMove, f, g

\* A delegation comes.
LEMMA AmountJoins ==
    ASSUME NEW s, NEW t, Typed(s), Typed(t), NEW k, k \notin DOMAIN s.delegations,
           DOMAIN t.delegations = DOMAIN s.delegations \cup {k},
           \A l \in DOMAIN s.delegations :
               t.delegations[l].stake.amount = s.delegations[l].stake.amount
    PROVE  AmountsMove(s, t, k[1], t.delegations[k].stake.amount)
<1> DEFINE f == AmountsOf(s)
           g == AmountsOf(t)
<1>1. /\ \A l \in DOMAIN s.delegations : f[l] \in Nat /\ g[l] = f[l]
      /\ g[k] = t.delegations[k].stake.amount /\ g[k] \in Nat
  BY StoreFacts
<1> HIDE DEF f, g
<1>2. ASSUME NEW b
      PROVE  /\ KeysOf(t, b) = IF b = k[1] THEN KeysOf(s, b) \cup {k} ELSE KeysOf(s, b)
             /\ KeysOf(s, b) \subseteq DOMAIN s.delegations
  BY DEF KeysOf
<1>3. ASSUME NEW S \in SUBSET (DOMAIN s.delegations), IsFiniteSet(S)
      PROVE  /\ SumOver(g, S \cup {k}) = SumOver(f, S) + g[k]
             /\ SumOver(g, S) = SumOver(f, S) + 0
  <2>1. SumOver(f, S) \in Int
    BY <1>1, <1>3, SumInt
  <2>2. k \notin S /\ g[k] \in Int /\ \A y \in S : f[y] \in Int /\ g[y] = f[y]
    BY <1>1
  <2>3. SumOver(g, S \cup {k}) = SumOver(f, S) + g[k]
    BY <2>2, <1>3, SumInsert
  <2>4. SumOver(g, S) = SumOver(f, S)
    <3>1. \A y \in S : g[y] = f[y]
      BY <2>2
    <3> QED BY <3>1, <1>3, SumSame
  <2> QED BY <2>1, <2>3, <2>4
<1>4. ASSUME NEW b \in Accounts
      PROVE  SumOver(g, KeysOf(t, b)) = SumOver(f, KeysOf(s, b)) + (IF b = k[1] THEN g[k] ELSE 0)
  <2>1. IsFiniteSet(KeysOf(s, b)) /\ KeysOf(s, b) \in SUBSET (DOMAIN s.delegations)
    BY StoreFacts
  <2>2. /\ SumOver(g, KeysOf(s, b) \cup {k}) = SumOver(f, KeysOf(s, b)) + g[k]
        /\ SumOver(g, KeysOf(s, b)) = SumOver(f, KeysOf(s, b)) + 0
    BY <1>3, <2>1
  <2>3. CASE b = k[1]
    BY <2>2, <2>3, <1>2
  <2>4. CASE b # k[1]
    BY <2>2, <2>4, <1>2
  <2> QED BY <2>3, <2>4
<1>5. SumOver(g, DOMAIN t.delegations) = SumOver(f, DOMAIN s.delegations) + g[k]
  <2>1. IsFiniteSet(DOMAIN s.delegations)
    BY StoreFacts
  <2> QED BY <2>1, <1>3
<1> QED BY <1>1, <1>4, <1>5 DEF AmountsMove, f, g

\* The locks and totals follow the delegations of account a, and the stakes
\* stay as they are.
LEMMA SumsFollow ==
    ASSUME NEW s, NEW t, Typed(s), Typed(t), SumsInv(s), NEW a \in Accounts, NEW m \in Int,
           AmountsMove(s, t, a, m),
           \A b \in Accounts : OwnStake(t, b) = OwnStake(s, b),
           \A b \in Accounts :
               /\ t.delegator_total[b] = s.delegator_total[b] + (IF b = a THEN m ELSE 0)
               /\ t.locks[b] = s.locks[b] + (IF b = a THEN m ELSE 0)
               /\ t.locks[b] <= t.ledger.free[b] + t.overslashed,
           t.total_stake = s.total_stake + m, t.overslashed = s.overslashed
    PROVE  SumsInv(t)
<1>1. OwnStakes(t) = OwnStakes(s)
  BY Constants DEF OwnStakes
<1>2. TotalAddsUp(t)
  <2>1. s.total_stake + s.overslashed
          = SumOver(OwnStakes(s), Committers) + SumOver(AmountsOf(s), DOMAIN s.delegations)
    BY DEF SumsInv, TotalAddsUp
  <2>2. SumOver(AmountsOf(t), DOMAIN t.delegations)
          = SumOver(AmountsOf(s), DOMAIN s.delegations) + m
    BY DEF AmountsMove
  <2>3. SumOver(AmountsOf(s), DOMAIN s.delegations) \in Nat
    BY StoreFacts, SumNat
  <2>4. SumOver(OwnStakes(s), Committers) \in Nat
    BY OwnStakesType, SumNat, Constants
  <2>5. s.total_stake \in Nat /\ s.overslashed \in Nat
    BY DEF Typed
  <2> DEFINE x == SumOver(AmountsOf(s), DOMAIN s.delegations)
             y == SumOver(AmountsOf(t), DOMAIN t.delegations)
             z == SumOver(OwnStakes(s), Committers)
  <2>6. s.total_stake + s.overslashed = z + x /\ y = x + m /\ x \in Nat /\ z \in Nat
    BY <2>1, <2>2, <2>3, <2>4
  <2> HIDE DEF x, y, z
  <2>7. t.total_stake + t.overslashed = z + y
    BY <2>5, <2>6
  <2> QED BY <2>7, <1>1 DEF TotalAddsUp, x, y, z
<1>3. ASSUME NEW b \in Accounts PROVE AccountAddsUp(t, b)
  <2>1. /\ s.delegator_total[b] = SumOver(AmountsOf(s), KeysOf(s, b))
        /\ s.locks[b] = OwnStake(s, b) + s.delegator_total[b]
    BY DEF SumsInv, AccountAddsUp
  <2>2. SumOver(AmountsOf(t), KeysOf(t, b))
          = SumOver(AmountsOf(s), KeysOf(s, b)) + (IF b = a THEN m ELSE 0)
    BY DEF AmountsMove
  <2>3. t.delegator_total[b] = SumOver(AmountsOf(t), KeysOf(t, b))
    BY <2>1, <2>2
  <2>4. OwnStake(s, b) \in Nat /\ s.delegator_total[b] \in Nat
    BY OwnStakesType DEF Typed
  <2>5. t.locks[b] = OwnStake(t, b) + t.delegator_total[b]
    BY <2>1, <2>4
  <2> QED BY <2>3, <2>5 DEF AccountAddsUp
<1> QED BY <1>2, <1>3 DEF SumsInv

\* The lock and the total follow the stake of committer c, and the delegations
\* stay as they are; n is what a slash takes beyond the stake.
LEMMA SumsFollowStake ==
    ASSUME NEW s, NEW t, Typed(s), Typed(t), SumsInv(s), NEW c \in Committers,
           NEW m \in Int, NEW n \in Nat,
           AmountsOf(t) = AmountsOf(s),
           \A b \in Accounts : OwnStake(t, b) = OwnStake(s, b) + (IF b = c THEN m ELSE 0),
           \A b \in Accounts :
               /\ t.delegator_total[b] = s.delegator_total[b]
               /\ t.locks[b] = s.locks[b] + (IF b = c THEN m ELSE 0)
               /\ t.locks[b] <= t.ledger.free[b] + t.overslashed,
           t.total_stake = s.total_stake + m - n, t.overslashed = s.overslashed + n
    PROVE  SumsInv(t)
<1> DEFINE f == OwnStakes(s)
           g == OwnStakes(t)
<1>1. DOMAIN t.delegations = DOMAIN s.delegations
  <2>1. DOMAIN AmountsOf(t) = DOMAIN t.delegations /\ DOMAIN AmountsOf(s) = DOMAIN s.delegations
    BY DEF AmountsOf
  <2> QED BY <2>1
<1>2. \A b : KeysOf(t, b) = KeysOf(s, b)
  BY <1>1 DEF KeysOf
<1>3. SumOver(g, Committers) = SumOver(f, Committers) + m
  <2>1. \A b \in Committers : f[b] \in Nat /\ g[b] \in Nat
    BY OwnStakesType
  <2>2. g[c] = f[c] + m /\ \A b \in Committers : b # c => g[b] = f[b]
    <3>1. \A b \in Committers : f[b] = OwnStake(s, b) /\ g[b] = OwnStake(t, b)
      BY DEF OwnStakes
    <3>2. c \in Accounts
      BY Constants
    <3>3. ASSUME NEW b \in Committers, b # c PROVE g[b] = f[b]
      <4>1. b \in Accounts
        BY Constants
      <4>2. OwnStake(t, b) = OwnStake(s, b) + 0
        BY <3>3, <4>1
      <4> HIDE DEF f, g
      <4> QED BY <4>2, <3>1, <2>1
    <3>4. OwnStake(t, c) = OwnStake(s, c) + m
      BY <3>2
    <3> HIDE DEF f, g
    <3> QED BY <3>1, <3>3, <3>4
  <2> HIDE DEF f, g
  <2>3. SumOver(g, Committers) = SumOver(f, Committers) - f[c] + g[c]
    <3>1. \A i \in Nat : i \in Int
      OBVIOUS
    <3>2. g[c] \in Int /\ \A b \in Committers : f[b] \in Int
      BY <2>1, <3>1, Zenon
    <3> QED BY <3>1, <3>2, <2>2, SumChange, Constants
  <2>4. SumOver(f, Committers) \in Nat
    BY <2>1, SumNat, Constants
  <2> QED BY <2>1, <2>2, <2>3, <2>4
<1>4. TotalAddsUp(t)
  <2> DEFINE x == SumOver(AmountsOf(s), DOMAIN s.delegations)
             z == SumOver(f, Committers)
             y == SumOver(g, Committers)
  <2>1. s.total_stake + s.overslashed = z + x
    BY DEF SumsInv, TotalAddsUp
  <2>2. x \in Nat
    BY StoreFacts, SumNat
  <2>3. z \in Nat /\ y = z + m
    BY OwnStakesType, SumNat, Constants, <1>3
  <2>5. s.total_stake \in Nat /\ s.overslashed \in Nat
    BY DEF Typed
  <2> HIDE DEF x, y, z
  <2>6. t.total_stake + t.overslashed = y + x
    BY <2>1, <2>2, <2>3, <2>5
  <2> QED BY <2>6, <1>1 DEF TotalAddsUp, x, y
<1>5. ASSUME NEW b \in Accounts PROVE AccountAddsUp(t, b)
  <2>1. /\ s.delegator_total[b] = SumOver(AmountsOf(s), KeysOf(s, b))
        /\ s.locks[b] = OwnStake(s, b) + s.delegator_total[b]
    BY DEF SumsInv, AccountAddsUp
  <2>2. t.delegator_total[b] = SumOver(AmountsOf(t), KeysOf(t, b))
    BY <2>1, <1>2
  <2>3. OwnStake(s, b) \in Nat /\ s.delegator_total[b] \in Nat
    BY OwnStakesType DEF Typed
  <2>4. t.locks[b] = OwnStake(t, b) + t.delegator_total[b]
    BY <2>1, <2>3
  <2> QED BY <2>2, <2>4 DEF AccountAddsUp
<1> QED BY <1>4, <1>5 DEF SumsInv

-----------------------------------------------------------------------------
(***************************************************************************)
(* How the weights of a pool follow its fresh delegations.                 *)
(***************************************************************************)
\* The weights of commitment c's delegations are v and w more than in s.
WeightsMove(s, t, c, v, w) ==
    /\ SumOver(RewardWeights(t), FreshKeys(t, c)) = SumOver(RewardWeights(s), FreshKeys(s, c)) + v
    /\ SumOver(SlashWeights(t), FreshKeys(t, c)) = SumOver(SlashWeights(s), FreshKeys(s, c)) + w

\* The sums are natural numbers.
LEMMA PoolType ==
    ASSUME NEW s, Typed(s), NEW c
    PROVE  /\ SumOver(RewardWeights(s), FreshKeys(s, c)) \in Nat
           /\ SumOver(SlashWeights(s), FreshKeys(s, c)) \in Nat
           /\ \A k \in FreshKeys(s, c) :
                /\ s.delegations[k].reward_weight <= SumOver(RewardWeights(s), FreshKeys(s, c))
                /\ s.delegations[k].slash_weight <= SumOver(SlashWeights(s), FreshKeys(s, c))
<1> DEFINE K == FreshKeys(s, c)
<1>1. IsFiniteSet(K) /\ K \subseteq DOMAIN s.delegations
  BY StoreFacts
<1> HIDE DEF K
<1>2. \A k \in K : RewardWeights(s)[k] \in Nat /\ SlashWeights(s)[k] \in Nat
                   /\ RewardWeights(s)[k] = s.delegations[k].reward_weight
                   /\ SlashWeights(s)[k] = s.delegations[k].slash_weight
  BY <1>1, StoreFacts
<1>3. SumOver(RewardWeights(s), K) \in Nat /\ SumOver(SlashWeights(s), K) \in Nat
  BY <1>1, <1>2, SumNat
<1>4. ASSUME NEW k \in K
      PROVE  /\ s.delegations[k].reward_weight <= SumOver(RewardWeights(s), K)
             /\ s.delegations[k].slash_weight <= SumOver(SlashWeights(s), K)
  <2>1. RewardWeights(s)[k] <= SumOver(RewardWeights(s), K)
    BY <1>1, <1>2, SumBounds
  <2>2. SlashWeights(s)[k] <= SumOver(SlashWeights(s), K)
    BY <1>1, <1>2, SumBounds
  <2> QED BY <2>1, <2>2, <1>2
<1> QED BY <1>3, <1>4 DEF K

\* Nothing about the pool changes.
LEMMA PoolStays ==
    ASSUME NEW s, NEW t, Typed(s), Typed(t), NEW c, FreshKeys(t, c) = FreshKeys(s, c),
           \A k \in FreshKeys(s, c) :
               /\ t.delegations[k].reward_weight = s.delegations[k].reward_weight
               /\ t.delegations[k].slash_weight = s.delegations[k].slash_weight
    PROVE  WeightsMove(s, t, c, 0, 0)
<1> DEFINE K == FreshKeys(s, c)
<1>1. IsFiniteSet(K) /\ K \subseteq DOMAIN s.delegations /\ K \subseteq DOMAIN t.delegations
  BY StoreFacts
<1>2. \A k \in K : RewardWeights(t)[k] = RewardWeights(s)[k]
                   /\ SlashWeights(t)[k] = SlashWeights(s)[k]
  BY <1>1, StoreFacts
<1> HIDE DEF K
<1>3. SumOver(RewardWeights(t), K) = SumOver(RewardWeights(s), K)
  BY <1>1, <1>2, SumSame
<1>4. SumOver(SlashWeights(t), K) = SumOver(SlashWeights(s), K)
  BY <1>1, <1>2, SumSame
<1>5. SumOver(RewardWeights(s), K) \in Nat /\ SumOver(SlashWeights(s), K) \in Nat
  BY PoolType DEF K
<1> QED BY <1>3, <1>4, <1>5 DEF WeightsMove, K

\* One delegation's weights change.
LEMMA PoolChanges ==
    ASSUME NEW s, NEW t, Typed(s), Typed(t), NEW c, FreshKeys(t, c) = FreshKeys(s, c),
           NEW k \in FreshKeys(s, c), NEW v \in Int, NEW w \in Int,
           t.delegations[k].reward_weight = s.delegations[k].reward_weight + v,
           t.delegations[k].slash_weight = s.delegations[k].slash_weight + w,
           \A l \in FreshKeys(s, c) : l # k =>
               /\ t.delegations[l].reward_weight = s.delegations[l].reward_weight
               /\ t.delegations[l].slash_weight = s.delegations[l].slash_weight
    PROVE  WeightsMove(s, t, c, v, w)
<1> DEFINE K == FreshKeys(s, c)
           f == RewardWeights(s)
           g == RewardWeights(t)
           h == SlashWeights(s)
           j == SlashWeights(t)
<1>1. IsFiniteSet(K) /\ K \subseteq DOMAIN s.delegations /\ K \subseteq DOMAIN t.delegations
  BY StoreFacts
<1>2. /\ \A l \in K : f[l] \in Nat /\ g[l] \in Nat /\ h[l] \in Nat /\ j[l] \in Nat
      /\ g[k] = f[k] + v /\ j[k] = h[k] + w
      /\ \A l \in K : l # k => g[l] = f[l]
      /\ \A l \in K : l # k => j[l] = h[l]
  BY <1>1, StoreFacts
<1> HIDE DEF K, f, g, h, j
<1>3. k \in K
  BY DEF K
<1>4. \A l \in K : f[l] \in Int /\ g[l] \in Int /\ h[l] \in Int /\ j[l] \in Int
  <2>1. \A i \in Nat : i \in Int
    OBVIOUS
  <2> QED BY <1>2, <2>1, Zenon
<1>5. SumOver(g, K) = SumOver(f, K) - f[k] + g[k]
  <2>1. (\A l \in K : f[l] \in Int) /\ g[k] \in Int /\ \A l \in K : l # k => g[l] = f[l]
    BY <1>2, <1>3, <1>4
  <2> QED BY <1>1, <1>3, <2>1, SumChange
<1>6. SumOver(j, K) = SumOver(h, K) - h[k] + j[k]
  <2>1. (\A l \in K : h[l] \in Int) /\ j[k] \in Int /\ \A l \in K : l # k => j[l] = h[l]
    BY <1>2, <1>3, <1>4
  <2> QED BY <1>1, <1>3, <2>1, SumChange
<1>7. SumOver(f, K) \in Nat /\ SumOver(h, K) \in Nat
  BY PoolType DEF K, f, h
<1>8. SumOver(g, K) = SumOver(f, K) + v /\ SumOver(j, K) = SumOver(h, K) + w
  BY <1>2, <1>3, <1>4, <1>5, <1>6, <1>7
<1> QED BY <1>8 DEF WeightsMove, K, f, g, h, j

\* A fresh delegation leaves.
LEMMA PoolLeft ==
    ASSUME NEW s, NEW t, Typed(s), Typed(t), NEW c, NEW k \in FreshKeys(s, c),
           FreshKeys(t, c) = FreshKeys(s, c) \ {k},
           \A l \in FreshKeys(t, c) :
               /\ t.delegations[l].reward_weight = s.delegations[l].reward_weight
               /\ t.delegations[l].slash_weight = s.delegations[l].slash_weight
    PROVE  WeightsMove(s, t, c, 0 - s.delegations[k].reward_weight,
                                0 - s.delegations[k].slash_weight)
<1> DEFINE K == FreshKeys(s, c)
           L == FreshKeys(t, c)
           f == RewardWeights(s)
           g == RewardWeights(t)
           h == SlashWeights(s)
           j == SlashWeights(t)
<1>1. /\ IsFiniteSet(K) /\ K \subseteq DOMAIN s.delegations /\ L \subseteq DOMAIN t.delegations
      /\ k \in K /\ L = K \ {k}
  BY StoreFacts
<1>2. /\ \A l \in K : f[l] \in Nat
      /\ \A l \in K : h[l] \in Nat
      /\ \A l \in K : l # k => g[l] = f[l]
      /\ \A l \in K : l # k => j[l] = h[l]
      /\ f[k] = s.delegations[k].reward_weight /\ h[k] = s.delegations[k].slash_weight
  BY <1>1, StoreFacts
<1> HIDE DEF K, L, f, g, h, j
<1>3. SumOver(g, L) = SumLess(f, K, k)
  BY <1>1, <1>2, SumWithout
<1>4. SumOver(j, L) = SumLess(h, K, k)
  BY <1>1, <1>2, SumWithout
<1>5. SumOver(g, L) = SumOver(f, K) + (0 - f[k]) /\ SumOver(j, L) = SumOver(h, K) + (0 - h[k])
  BY <1>1, <1>3, <1>4 DEF SumLess
<1> QED BY <1>2, <1>5 DEF WeightsMove, K, L, f, g, h, j

\* A delegation joins the pool.
LEMMA PoolJoined ==
    ASSUME NEW s, NEW t, Typed(s), Typed(t), NEW c, NEW k, k \notin FreshKeys(s, c),
           FreshKeys(t, c) = FreshKeys(s, c) \cup {k},
           \A l \in FreshKeys(s, c) :
               /\ t.delegations[l].reward_weight = s.delegations[l].reward_weight
               /\ t.delegations[l].slash_weight = s.delegations[l].slash_weight
    PROVE  WeightsMove(s, t, c, t.delegations[k].reward_weight, t.delegations[k].slash_weight)
<1> DEFINE K == FreshKeys(s, c)
           L == FreshKeys(t, c)
           f == RewardWeights(s)
           g == RewardWeights(t)
           h == SlashWeights(s)
           j == SlashWeights(t)
<1>1. /\ IsFiniteSet(K) /\ K \subseteq DOMAIN s.delegations /\ L \subseteq DOMAIN t.delegations
      /\ k \notin K /\ L = K \cup {k} /\ k \in DOMAIN t.delegations
  BY StoreFacts
<1>2. /\ \A l \in K : f[l] \in Nat /\ g[l] = f[l]
      /\ \A l \in K : h[l] \in Nat /\ j[l] = h[l]
      /\ g[k] = t.delegations[k].reward_weight /\ g[k] \in Nat
      /\ j[k] = t.delegations[k].slash_weight /\ j[k] \in Nat
  BY <1>1, StoreFacts
<1> HIDE DEF K, L, f, g, h, j
<1>3. SumOver(g, K \cup {k}) = SumOver(f, K) + g[k]
  <2>1. g[k] \in Int /\ \A l \in K : f[l] \in Int /\ g[l] = f[l]
    BY <1>2
  <2> QED BY <1>1, <2>1, SumInsert
<1>4. SumOver(j, K \cup {k}) = SumOver(h, K) + j[k]
  <2>1. j[k] \in Int /\ \A l \in K : h[l] \in Int /\ j[l] = h[l]
    BY <1>2
  <2> QED BY <1>1, <2>1, SumInsert
<1> QED BY <1>1, <1>2, <1>3, <1>4 DEF WeightsMove, K, L, f, g, h, j

\* The stored weights follow.
LEMMA PoolFollows ==
    ASSUME NEW s, NEW t, Typed(s), Typed(t), NEW c, PoolWeighs(s, c), NEW v \in Int, NEW w \in Int,
           WeightsMove(s, t, c, v, w),
           CurrentWeights(t.commitments[c]).delegations_reward
               = CurrentWeights(s.commitments[c]).delegations_reward + v,
           CurrentWeights(t.commitments[c]).delegations_slash
               = CurrentWeights(s.commitments[c]).delegations_slash + w
    PROVE  PoolWeighs(t, c)
BY DEF PoolWeighs, WeightsMove

-----------------------------------------------------------------------------
(***************************************************************************)
(* What stays when nothing that the invariant reads is changed.            *)
(***************************************************************************)
\* The distribution account has nothing locked: it neither stakes nor delegates.
LEMMA NothingLocked ==
    ASSUME NEW s, Typed(s), SumsInv(s)
    PROVE  s.locks[Distribution] = 0
<1>1. KeysOf(s, Distribution) = {}
  BY StoreFacts DEF KeysOf
<1>2. SumOver(AmountsOf(s), KeysOf(s, Distribution)) = 0
  BY <1>1, SumEmpty
<1>3. OwnStake(s, Distribution) = 0
  BY Constants DEF OwnStake, Staked
<1> QED BY <1>2, <1>3, Constants DEF SumsInv, AccountAddsUp

\* Locks, totals, stakes and amounts are the same, and no balance but that of
\* the distribution account falls.
LEMMA SumsStay ==
    ASSUME NEW s, NEW t, Typed(s), Typed(t), SumsInv(s),
           AmountsOf(t) = AmountsOf(s), \A c \in Committers : OwnStake(t, c) = OwnStake(s, c),
           t.delegator_total = s.delegator_total, t.locks = s.locks,
           t.total_stake = s.total_stake, t.overslashed = s.overslashed,
           \A a \in Accounts : a # Distribution => t.ledger.free[a] >= s.ledger.free[a]
    PROVE  SumsInv(t)
<1>1. DOMAIN t.delegations = DOMAIN s.delegations
  <2>1. DOMAIN AmountsOf(t) = DOMAIN t.delegations /\ DOMAIN AmountsOf(s) = DOMAIN s.delegations
    BY DEF AmountsOf
  <2> QED BY <2>1
<1>2. OwnStakes(t) = OwnStakes(s)
  BY DEF OwnStakes
<1>3. TotalAddsUp(t)
  <2>1. TotalAddsUp(s)
    BY DEF SumsInv
  <2> QED BY <1>1, <1>2, <2>1 DEF TotalAddsUp
<1>4. ASSUME NEW a \in Accounts PROVE AccountAddsUp(t, a)
  <2>1. AccountAddsUp(s, a)
    BY DEF SumsInv
  <2>2. KeysOf(t, a) = KeysOf(s, a)
    BY <1>1 DEF KeysOf
  <2>3. OwnStake(t, a) = OwnStake(s, a)
    <3>1. CASE a \in Committers
      BY <3>1
    <3>2. CASE a \notin Committers
      BY <3>2 DEF OwnStake, Staked
    <3> QED BY <3>1, <3>2
  <2>4. t.locks[a] <= t.ledger.free[a] + t.overslashed
    <3>1. /\ t.ledger.free[a] \in Nat /\ s.ledger.free[a] \in Nat
          /\ s.overslashed \in Nat /\ t.overslashed = s.overslashed
      BY DEF Typed, Ledgers
    <3>2. CASE a = Distribution
      BY <3>1, <3>2, NothingLocked
    <3>3. CASE a # Distribution
      <4>1. s.locks[a] <= s.ledger.free[a] + s.overslashed
        BY <2>1 DEF AccountAddsUp
      <4>2. s.locks[a] \in Nat
        BY DEF Typed
      <4> QED BY <3>1, <3>3, <4>1, <4>2
    <3> QED BY <3>2, <3>3
  <2> QED BY <2>1, <2>2, <2>3, <2>4 DEF AccountAddsUp
<1> QED BY <1>3, <1>4 DEF SumsInv

\* The fresh delegations of c stay the same.
LEMMA FreshStays ==
    ASSUME NEW s, NEW t, NEW c, DOMAIN t.delegations = DOMAIN s.delegations,
           t.commitments[c].stake # None <=> s.commitments[c].stake # None,
           s.commitments[c].stake # None =>
               t.commitments[c].stake.created = s.commitments[c].stake.created,
           \A k \in DOMAIN s.delegations :
               t.delegations[k].stake.created = s.delegations[k].stake.created
    PROVE  FreshKeys(t, c) = FreshKeys(s, c)
BY DEF FreshKeys, Fresh

\* No pool and no weight of a delegation changes.
LEMMA WeightsStay ==
    ASSUME NEW s, NEW t, Typed(s), Typed(t), WeightsInv(s),
           DOMAIN t.delegations = DOMAIN s.delegations,
           \A k \in DOMAIN s.delegations :
               /\ t.delegations[k].stake.created = s.delegations[k].stake.created
               /\ t.delegations[k].reward_weight = s.delegations[k].reward_weight
               /\ t.delegations[k].slash_weight = s.delegations[k].slash_weight,
           \A c \in Committers : Staked(t, c) =>
               /\ Staked(s, c)
               /\ t.commitments[c].stake.created = s.commitments[c].stake.created
               /\ CurrentWeights(t.commitments[c]).delegations_reward
                    = CurrentWeights(s.commitments[c]).delegations_reward
               /\ CurrentWeights(t.commitments[c]).delegations_slash
                    = CurrentWeights(s.commitments[c]).delegations_slash
    PROVE  WeightsInv(t)
<1> SUFFICES ASSUME NEW c \in Committers, Staked(t, c) PROVE PoolWeighs(t, c)
  BY DEF WeightsInv
<1>1. /\ Staked(s, c) /\ PoolWeighs(s, c)
      /\ t.commitments[c].stake.created = s.commitments[c].stake.created
  BY DEF WeightsInv
<1>2. FreshKeys(t, c) = FreshKeys(s, c)
  <2>1. t.commitments[c].stake # None /\ s.commitments[c].stake # None
    BY <1>1 DEF Staked
  <2> QED BY <1>1, <2>1, FreshStays
<1>3. WeightsMove(s, t, c, 0, 0)
  <2>1. FreshKeys(s, c) \subseteq DOMAIN s.delegations
    BY DEF FreshKeys
  <2> QED BY <1>2, <2>1, PoolStays
<1>4. /\ CurrentWeights(s.commitments[c]).delegations_reward \in Nat
      /\ CurrentWeights(s.commitments[c]).delegations_slash \in Nat
  BY <1>1, PoolType DEF PoolWeighs
<1>5. /\ CurrentWeights(t.commitments[c]).delegations_reward
           = CurrentWeights(s.commitments[c]).delegations_reward + 0
      /\ CurrentWeights(t.commitments[c]).delegations_slash
           = CurrentWeights(s.commitments[c]).delegations_slash + 0
  BY <1>4
<1> QED BY <1>1, <1>3, <1>5, PoolFollows

\* A pool that only loses, for a stake that only becomes longer or cools down,
\* keeps what is known of a delegation.
PoolEvolves(old, new, n) ==
    /\ new.pool_rewards.current.at = old.pool_rewards.current.at
    /\ new.pool_rewards.past = old.pool_rewards.past
    /\ old.pool_rewards.current.value.slash_per_weight
        <= new.pool_rewards.current.value.slash_per_weight
    /\ (new.stake = None) <=> (old.stake = None)
    /\ old.stake # None =>
        /\ new.stake.created = old.stake.created
        /\ old.stake.cooldown_period <= new.stake.cooldown_period
        /\ \/ new.stake.cooldown_started = old.stake.cooldown_started
           \/ old.stake.cooldown_started = None /\ new.stake.cooldown_started = n

LEMMA DelegationStays ==
    ASSUME NEW old \in Commitments, NEW new \in Commitments, NEW n \in Nat,
           PoolEvolves(old, new, n), NEW d \in Delegations, NEW A,
           DelegationHolds(d, old, A, n)
    PROVE  DelegationHolds(d, new, A, n)
<1> DEFINE t == d.stake.created
           r == get_latest(old.pool_rewards, t)
           q == get_latest(new.pool_rewards, t)
<1>1. /\ old.pool_rewards \in MemoryBuffers(PoolReward)
      /\ new.pool_rewards \in MemoryBuffers(PoolReward)
  BY CommitmentType
<1>2. d.stake \in Stakes /\ d.slash_weight \in Nat /\ d.slash_debt \in Nat /\ t \in Nat
  BY DelegationType, StakeType
<1>3. DebtBounded(d, q)
  <2> SUFFICES ASSUME q # None
               PROVE  d.slash_debt <= PerWeight(d.slash_weight, q.slash_per_weight)
    BY DEF DebtBounded
  <2>1. \/ q = r
        \/ q = new.pool_rewards.current.value /\ r = old.pool_rewards.current.value
    BY DEF PoolEvolves, get_latest
  <2>2. r \in PoolReward
    <3>1. r \in PoolReward \cup {None} /\ old.pool_rewards.current.value \in PoolReward
      BY <1>1, LatestType
    <3> QED BY <2>1, <3>1
  <2>3. q \in PoolReward
    <3>1. q \in PoolReward \cup {None}
      BY <1>1, LatestType
    <3> QED BY <3>1
  <2>4. r.slash_per_weight \in Nat /\ q.slash_per_weight \in Nat
        /\ r.slash_per_weight <= q.slash_per_weight
    <3>1. r.slash_per_weight \in Nat /\ q.slash_per_weight \in Nat
      BY <2>2, <2>3 DEF PoolReward
    <3> QED BY <2>1, <3>1 DEF PoolEvolves
  <2>5. d.slash_debt <= PerWeight(d.slash_weight, r.slash_per_weight)
    <3>1. r # None
      BY <2>2, NoneIsNone
    <3> QED BY <3>1 DEF DelegationHolds, DebtBounded
  <2> HIDE DEF q, r
  <2>6. PerWeight(d.slash_weight, r.slash_per_weight) <= PerWeight(d.slash_weight, q.slash_per_weight)
    BY <2>4, <1>2, PerWeightMonotonic
  <2>7. /\ PerWeight(d.slash_weight, r.slash_per_weight) \in Nat
        /\ PerWeight(d.slash_weight, q.slash_per_weight) \in Nat
    BY <2>4, <1>2, PerWeightType
  <2> QED BY <1>2, <2>5, <2>6, <2>7
<1>4. Fresh(new, d) <=> Fresh(old, d)
  BY DEF PoolEvolves, Fresh
<1>5. Fresh(old, d) => Joined(d.stake, new.stake)
  <2> SUFFICES ASSUME Fresh(old, d) PROVE Joined(d.stake, new.stake)
    OBVIOUS
  <2>1. Joined(d.stake, old.stake) /\ d.stake.created <= n
    BY DEF DelegationHolds, StakeHolds
  <2>2. old.stake \in Stakes /\ new.stake \in Stakes
    BY CommitmentType DEF Fresh, PoolEvolves
  <2>3. /\ old.stake.cooldown_period \in Nat /\ new.stake.cooldown_period \in Nat
        /\ d.stake.cooldown_period \in Nat
    BY <2>2, <1>2, StakeType
  <2>4. d.stake.cooldown_period <= new.stake.cooldown_period
    BY <2>1, <2>3 DEF Joined, PoolEvolves, Fresh
  <2>5. new.stake.cooldown_started # None => d.stake.created <= new.stake.cooldown_started
    BY <2>1 DEF Joined, PoolEvolves, Fresh
  <2> QED BY <2>4, <2>5 DEF Joined
<1> HIDE DEF q, r, t
<1> QED BY <1>3, <1>4, <1>5 DEF DelegationHolds, q, t

-----------------------------------------------------------------------------
(***************************************************************************)
(* Operations on a delegation.                                             *)
(***************************************************************************)
\* A store from its parts.
LEMMA MakeStore ==
    ASSUME NEW cs \in [Committers -> Commitments \cup {None}],
           NEW D, IsFiniteSet(D), D \subseteq Keys, NEW ds \in [D -> Delegations],
           NEW dt \in [Accounts -> Nat], NEW total \in Nat, NEW lk \in [Accounts -> Nat],
           NEW l \in Ledgers, \A a \in Accounts : l.held[a] = 0,
           NEW un \in [Accounts -> Nat], NEW os \in Nat, NEW r \in Nat, NEW ok \in BOOLEAN
    PROVE  Typed([commitments |-> cs, delegations |-> ds, delegator_total |-> dt,
                  total_stake |-> total, locks |-> lk, ledger |-> l, unrecorded |-> un,
                  overslashed |-> os, reward |-> r, ok |-> ok])
BY DEF Typed

\* The same, in the words of the fields.
LEMMA TypedFields ==
    ASSUME NEW s, Typed(s)
    PROVE  /\ s.commitments \in [Committers -> Commitments \cup {None}]
           /\ s.delegations \in [DOMAIN s.delegations -> Delegations]
           /\ DOMAIN s.delegations \subseteq Keys /\ IsFiniteSet(DOMAIN s.delegations)
           /\ s.delegator_total \in [Accounts -> Nat]
           /\ s.total_stake \in Nat /\ s.overslashed \in Nat /\ s.reward \in Nat
           /\ s.locks \in [Accounts -> Nat]
           /\ s.unrecorded \in [Accounts -> Nat]
           /\ s.ledger \in Ledgers /\ \A a \in Accounts : s.ledger.held[a] = 0
           /\ s.ok \in BOOLEAN
           /\ \A a \in Accounts : s.ledger.free[a] \in Nat
BY DEF Typed, Ledgers

SameTerms(d, e) ==
    /\ e.stake.amount = d.stake.amount /\ e.stake.rewardable_amount = d.stake.rewardable_amount
    /\ e.stake.created = d.stake.created /\ e.stake.cooldown_period = d.stake.cooldown_period
    /\ e.stake.cooldown_started = d.stake.cooldown_started
    /\ e.reward_weight = d.reward_weight /\ e.slash_weight = d.slash_weight

\* Replacing fields of a delegation.
Accrued(d, a, b, y, z) ==
    [d EXCEPT !.stake.accrued_reward = a, !.stake.accrued_slash = b,
              !.reward_debt = y, !.slash_debt = z]

LEMMA AccruedType ==
    ASSUME NEW d, NEW a, NEW b, NEW y, NEW z,
           d \in Delegations, a \in Nat, b \in Nat, y \in Nat, z \in Nat
    PROVE  LET e == Accrued(d, a, b, y, z)
           IN  /\ e \in Delegations /\ SameTerms(d, e)
               /\ e.slash_debt = z /\ e.reward_debt = y
               /\ e.stake.accrued_reward = a /\ e.stake.accrued_slash = b
<1> DEFINE st == d.stake
           v == [st EXCEPT !.accrued_reward = a]
           x == [v EXCEPT !.accrued_slash = b]
           e == Accrued(d, a, b, y, z)
<1>1. st \in Stakes
  BY DelegationType
<1>2. /\ v \in Stakes /\ v.amount = st.amount /\ v.rewardable_amount = st.rewardable_amount
      /\ v.created = st.created /\ v.cooldown_period = st.cooldown_period
      /\ v.cooldown_started = st.cooldown_started /\ v.accrued_reward = a
  <2> HIDE DEF st
  <2> QED BY <1>1 DEF Stakes
<1>3. /\ x \in Stakes /\ x.amount = v.amount /\ x.rewardable_amount = v.rewardable_amount
      /\ x.created = v.created /\ x.cooldown_period = v.cooldown_period
      /\ x.cooldown_started = v.cooldown_started /\ x.accrued_reward = v.accrued_reward
      /\ x.accrued_slash = b
  <2> HIDE DEF v
  <2> QED BY <1>2 DEF Stakes
<1>4. e = [[[d EXCEPT !.stake = x] EXCEPT !.reward_debt = y] EXCEPT !.slash_debt = z]
  <2>1. [d EXCEPT !.stake = v].stake = v
    BY DEF Delegations
  <2> QED BY <2>1 DEF Delegations, Accrued
<1> HIDE DEF x, e, v
<1>6. e = [stake |-> x, reward_weight |-> d.reward_weight, slash_weight |-> d.slash_weight,
           reward_debt |-> y, slash_debt |-> z]
  BY <1>4 DEF Delegations
<1>7. e \in Delegations
  BY <1>3, <1>6, DelegationType DEF Delegations
<1>8. SameTerms(d, e)
  BY <1>2, <1>3, <1>6 DEF SameTerms
<1> QED BY <1>2, <1>3, <1>6, <1>7, <1>8 DEF e

\* A delegation and its commitment, as the invariant knows them.
LEMMA DelegationFacts ==
    ASSUME Clock, NEW s, StoreInv(s, announced, block), NEW k \in DOMAIN s.delegations
    PROVE  /\ k \in Keys /\ k[1] \in Accounts /\ k[1] # Distribution /\ k[2] \in Committers
           /\ s.commitments[k[2]] \in Commitments
           /\ s.delegations[k] \in Delegations
           /\ s.delegations[k].stake \in Stakes
           /\ DelegationHolds(s.delegations[k], s.commitments[k[2]], announced[k[2]], block)
           /\ CommitmentTimed(s.commitments[k[2]], announced[k[2]], block)
           /\ PoolRewards(s, k) \in PoolReward \cup {None}
<1>1. /\ k \in Keys /\ k[1] \in Accounts /\ k[1] # Distribution /\ k[2] \in Committers
      /\ s.delegations[k] \in Delegations
  BY StoreFacts DEF StoreInv
<1>2. s.commitments[k[2]] \in Commitments
  BY <1>1 DEF StoreInv, Typed, DelegationsInv
<1>3. DelegationHolds(s.delegations[k], s.commitments[k[2]], announced[k[2]], block)
  BY DEF StoreInv, DelegationsInv
<1>4. CommitmentTimed(s.commitments[k[2]], announced[k[2]], block)
  BY <1>1, <1>2, NoneIsNone DEF StoreInv, CommitmentsInv
<1>5. PoolRewards(s, k) \in PoolReward \cup {None}
  BY <1>2, CommitmentType, LatestType DEF PoolRewards
<1> QED BY <1>1, <1>2, <1>3, <1>4, <1>5, DelegationType

\* Accruing and paying a reward leaves the terms of the delegation alone.
LEMMA TermsStay ==
    ASSUME Clock, NEW s, NEW t, StoreInv(s, announced, block), Typed(t),
           NEW k \in DOMAIN s.delegations, NEW e \in Delegations,
           t.commitments = s.commitments, t.delegations = [s.delegations EXCEPT ![k] = e],
           SameTerms(s.delegations[k], e), DebtBounded(e, PoolRewards(s, k)),
           t.delegator_total = s.delegator_total, t.locks = s.locks,
           t.total_stake = s.total_stake, t.overslashed = s.overslashed,
           \A a \in Accounts : a # Distribution => t.ledger.free[a] >= s.ledger.free[a]
    PROVE  StoreInv(t, announced, block)
<1> DEFINE d == s.delegations[k]
           cm == s.commitments[k[2]]
<1>1. Typed(s) /\ SumsInv(s) /\ WeightsInv(s)
  BY DEF StoreInv
<1>2. /\ DOMAIN t.delegations = DOMAIN s.delegations
      /\ t.delegations[k] = e
      /\ \A l \in DOMAIN s.delegations : l # k => t.delegations[l] = s.delegations[l]
  OBVIOUS
<1>3. \A l \in DOMAIN s.delegations :
        /\ t.delegations[l].stake.amount = s.delegations[l].stake.amount
        /\ t.delegations[l].stake.created = s.delegations[l].stake.created
        /\ t.delegations[l].reward_weight = s.delegations[l].reward_weight
        /\ t.delegations[l].slash_weight = s.delegations[l].slash_weight
  BY <1>2 DEF SameTerms
<1>4. SumsInv(t)
  <2>1. AmountsOf(t) = AmountsOf(s)
    BY <1>2, <1>3 DEF AmountsOf
  <2>2. \A c \in Committers : OwnStake(t, c) = OwnStake(s, c)
    BY DEF OwnStake, Staked
  <2> QED BY <1>1, <2>1, <2>2, SumsStay
<1>5. WeightsInv(t)
  <2>1. \A c \in Committers : Staked(t, c) =>
               /\ Staked(s, c)
               /\ t.commitments[c].stake.created = s.commitments[c].stake.created
               /\ CurrentWeights(t.commitments[c]).delegations_reward
                    = CurrentWeights(s.commitments[c]).delegations_reward
               /\ CurrentWeights(t.commitments[c]).delegations_slash
                    = CurrentWeights(s.commitments[c]).delegations_slash
    BY DEF Staked
  <2> QED BY <1>1, <1>2, <1>3, <2>1, WeightsStay
<1>6. CommitmentsInv(t, announced, block)
  BY DEF StoreInv, CommitmentsInv
<1>7. DelegationsInv(t, announced, block)
  <2>1. DelegationHolds(e, cm, announced[k[2]], block)
    <3>1. DelegationHolds(d, cm, announced[k[2]], block)
      BY DelegationFacts
    <3>2. StakeHolds(e.stake, block)
      BY <3>1 DEF SameTerms, DelegationHolds, StakeHolds, Rewardable
    <3>3. DebtBounded(e, get_latest(cm.pool_rewards, e.stake.created))
      BY DEF SameTerms, PoolRewards
    <3>4. Fresh(cm, e) <=> Fresh(cm, d)
      BY DEF Fresh, SameTerms
    <3>5. Fresh(cm, d) => Weighed(e) /\ Joined(e.stake, cm.stake)
      BY <3>1 DEF DelegationHolds, Weighed, Joined, SameTerms
    <3>6. ~Fresh(cm, d) => Outlived(e.stake, announced[k[2]], block)
      BY <3>1 DEF DelegationHolds, Outlived, SameTerms
    <3> HIDE DEF cm, d
    <3> QED BY <3>2, <3>3, <3>4, <3>5, <3>6 DEF DelegationHolds
  <2>2. ASSUME NEW l \in DOMAIN t.delegations
        PROVE  /\ t.commitments[l[2]] # None
               /\ DelegationHolds(t.delegations[l], t.commitments[l[2]], announced[l[2]], block)
    <3>1. /\ s.commitments[l[2]] # None
          /\ DelegationHolds(s.delegations[l], s.commitments[l[2]], announced[l[2]], block)
      BY <1>2 DEF StoreInv, DelegationsInv
    <3>2. CASE l = k
      BY <2>1, <3>1, <3>2, <1>2
    <3>3. CASE l # k
      BY <3>1, <3>3, <1>2
    <3> QED BY <3>2, <3>3
  <2> QED BY <2>2 DEF DelegationsInv
<1> QED BY <1>4, <1>5, <1>6, <1>7 DEF StoreInv

\* What the operations on a delegation leave alone: which delegations there
\* are, their periods, and the stakes of the commitments.
Kept(s, t) ==
    /\ t.commitments \in [Committers -> Commitments \cup {None}]
    /\ \A c \in Committers :
        /\ t.commitments[c] = None <=> s.commitments[c] = None
        /\ t.commitments[c] # None => t.commitments[c].stake = s.commitments[c].stake
    /\ DOMAIN t.delegations = DOMAIN s.delegations
    /\ \A k \in DOMAIN s.delegations :
        /\ t.delegations[k].stake.created = s.delegations[k].stake.created
        /\ t.delegations[k].stake.cooldown_period = s.delegations[k].stake.cooldown_period
        /\ t.delegations[k].stake.cooldown_started = s.delegations[k].stake.cooldown_started
    /\ t.overslashed = s.overslashed

LEMMA KeptTransitive ==
    ASSUME NEW s, NEW t, NEW u, Kept(s, t), Kept(t, u)
    PROVE  Kept(s, u)
BY DEF Kept

\* accrue_delegator always succeeds: the debt is within what the pool has lost.
LEMMA AccrueHolds ==
    ASSUME Clock, NEW s, StoreInv(s, announced, block), NEW k \in DOMAIN s.delegations
    PROVE  LET t == accrue_delegator(s, k)
           IN  /\ StoreInv(t, announced, block)
               /\ Kept(s, t)
               /\ t.ok = s.ok /\ t.reward = s.reward /\ t.ledger = s.ledger
               /\ t.total_stake = s.total_stake
               /\ t.delegations[k].stake.amount = s.delegations[k].stake.amount
<1> DEFINE d == s.delegations[k]
           r == PoolRewards(s, k)
           slash == PerWeight(d.slash_weight, r.slash_per_weight)
           e == [d EXCEPT !.stake.accrued_reward = @ + Earned(d, r),
                          !.stake.accrued_slash = @ + slash - d.slash_debt,
                          !.reward_debt = RewardDebt(d.reward_weight, r),
                          !.slash_debt = slash]
           t == accrue_delegator(s, k)
<1>1. CASE r = None
  <2>1. t = s
    BY <1>1 DEF accrue_delegator
  <2>2. Kept(s, s)
    BY DEF Kept, StoreInv, Typed
  <2> QED BY <2>1, <2>2
<1>2. CASE r # None
  <2>1. r \in PoolReward /\ d \in Delegations /\ d.stake \in Stakes
    BY <1>2, DelegationFacts
  <2>2. /\ d.slash_weight \in Nat /\ d.reward_weight \in Nat /\ d.slash_debt \in Nat
        /\ d.reward_debt \in Nat /\ r.slash_per_weight \in Nat /\ r.reward_per_weight \in Nat
    BY <2>1, DelegationType DEF PoolReward
  <2>3. slash \in Nat /\ slash >= d.slash_debt
    <3>1. slash \in Nat
      BY <2>2, PerWeightType
    <3>2. DebtBounded(d, r)
      BY DelegationFacts DEF DelegationHolds, PoolRewards
    <3> QED BY <3>1, <3>2, <2>2, <1>2 DEF DebtBounded
  <2>4. Earned(d, r) \in Nat /\ RewardDebt(d.reward_weight, r) \in Nat
    <3>1. PerWeight(d.reward_weight, r.reward_per_weight) \in Nat
      BY <2>2, PerWeightType
    <3> QED BY <2>1, <2>2, <3>1, MinusType, RewardDebtType DEF Earned
  <2>5. t = [s EXCEPT !.ok = @ /\ slash >= d.slash_debt, !.delegations[k] = e]
    BY <1>2 DEF accrue_delegator
  <2>6. d.stake.accrued_reward + Earned(d, r) \in Nat
        /\ d.stake.accrued_slash + slash - d.slash_debt \in Nat
    BY <2>1, <2>2, <2>3, <2>4, StakeType
  <2>7. e \in Delegations /\ SameTerms(d, e) /\ e.slash_weight = d.slash_weight /\ e.slash_debt = slash
    <3> DEFINE x == d.stake.accrued_reward + Earned(d, r)
               y == d.stake.accrued_slash + slash - d.slash_debt
               z == RewardDebt(d.reward_weight, r)
    <3>1. e = Accrued(d, x, y, z, slash)
      BY DEF Accrued
    <3>2. x \in Nat /\ y \in Nat /\ z \in Nat /\ slash \in Nat /\ d \in Delegations
      BY <2>1, <2>3, <2>4, <2>6
    <3> HIDE DEF e, slash, r, d, x, y, z
    <3>3. e \in Delegations /\ SameTerms(d, e) /\ e.slash_debt = slash
      BY <3>1, <3>2, AccruedType
    <3> QED BY <3>3 DEF SameTerms
  <2> HIDE DEF e
  <2>8. t = [commitments |-> s.commitments, delegations |-> [s.delegations EXCEPT ![k] = e],
             delegator_total |-> s.delegator_total, total_stake |-> s.total_stake,
             locks |-> s.locks, ledger |-> s.ledger, unrecorded |-> s.unrecorded,
             overslashed |-> s.overslashed, reward |-> s.reward, ok |-> s.ok]
    <3>1. (s.ok /\ slash >= d.slash_debt) = s.ok
      BY <2>3 DEF StoreInv, Typed
    <3>2. t = [s EXCEPT !.ok = s.ok, !.delegations[k] = e]
      BY <2>5, <3>1
    <3> HIDE DEF t
    <3> QED BY <3>2 DEF StoreInv, Typed
  <2> HIDE DEF t
  <2>9. Typed(t)
    <3>1. [s.delegations EXCEPT ![k] = e] \in [DOMAIN s.delegations -> Delegations]
      BY <2>7, TypedFields DEF StoreInv
    <3> QED BY <2>8, <3>1, TypedFields, MakeStore DEF StoreInv
  <2>10. DebtBounded(e, PoolRewards(s, k))
    BY <2>7, <2>3 DEF DebtBounded
  <2>11. \A a \in Accounts : t.ledger.free[a] >= s.ledger.free[a]
    BY <2>8, TypedFields DEF StoreInv
  <2>12. /\ t.commitments = s.commitments /\ t.delegations = [s.delegations EXCEPT ![k] = e]
         /\ t.delegator_total = s.delegator_total /\ t.locks = s.locks
         /\ t.total_stake = s.total_stake /\ t.overslashed = s.overslashed
         /\ t.ok = s.ok /\ t.reward = s.reward /\ t.ledger = s.ledger
    BY <2>8
  <2>13. StoreInv(t, announced, block)
    BY <2>7, <2>9, <2>10, <2>11, <2>12, TermsStay
  <2>14. Kept(s, t)
    BY <2>7, <2>12, TypedFields DEF Kept, SameTerms, StoreInv
  <2> QED BY <2>7, <2>12, <2>13, <2>14 DEF SameTerms, t
<1> QED BY <1>1, <1>2

\* A store made of its fields.
Rec(cs, ds, dt, total, lk, l, un, os, r, ok) ==
    [commitments |-> cs, delegations |-> ds, delegator_total |-> dt, total_stake |-> total,
     locks |-> lk, ledger |-> l, unrecorded |-> un, overslashed |-> os, reward |-> r, ok |-> ok]

LEMMA RecTyped ==
    ASSUME NEW cs, NEW ds, NEW dt, NEW total, NEW lk, NEW l, NEW un, NEW os, NEW r, NEW ok,
           cs \in [Committers -> Commitments \cup {None}],
           IsFiniteSet(DOMAIN ds), DOMAIN ds \subseteq Keys, ds \in [DOMAIN ds -> Delegations],
           dt \in [Accounts -> Nat], total \in Nat, lk \in [Accounts -> Nat],
           l \in Ledgers, \A a \in Accounts : l.held[a] = 0,
           un \in [Accounts -> Nat], os \in Nat, r \in Nat, ok \in BOOLEAN
    PROVE  Typed(Rec(cs, ds, dt, total, lk, l, un, os, r, ok))
BY DEF Typed, Rec

LEMMA RecFields ==
    ASSUME NEW cs, NEW ds, NEW dt, NEW total, NEW lk, NEW l, NEW un, NEW os, NEW r, NEW ok
    PROVE  LET t == Rec(cs, ds, dt, total, lk, l, un, os, r, ok)
           IN  /\ t.commitments = cs /\ t.delegations = ds /\ t.delegator_total = dt
               /\ t.total_stake = total /\ t.locks = lk /\ t.ledger = l /\ t.unrecorded = un
               /\ t.overslashed = os /\ t.reward = r /\ t.ok = ok
BY DEF Rec

LEMMA TypedIsRec ==
    ASSUME NEW s, Typed(s)
    PROVE  s = Rec(s.commitments, s.delegations, s.delegator_total, s.total_stake, s.locks,
                   s.ledger, s.unrecorded, s.overslashed, s.reward, s.ok)
BY DEF Typed, Rec

\* A payment that the distribution account can make.
Credited(u, a, n) == [u EXCEPT ![a] = @ + n]

LEMMA PayFields ==
    ASSUME NEW s, Typed(s), NEW a, a \in Accounts, a # Distribution, NEW n, n \in Nat,
           CanTransfer(s.ledger, Distribution, a, n)
    PROVE  LET l == Transfer(s.ledger, Distribution, a, n)
               u == Credited(s.unrecorded, a, n)
           IN  /\ Pay(s, a, n) = Rec(s.commitments, s.delegations, s.delegator_total,
                                     s.total_stake, s.locks, l, u, s.overslashed, s.reward, s.ok)
               /\ l \in Ledgers /\ (\A b \in Accounts : l.held[b] = 0)
               /\ \A b \in Accounts : b # Distribution => l.free[b] >= s.ledger.free[b]
               /\ u \in [Accounts -> Nat]
               /\ [u EXCEPT ![a] = @ - n] = s.unrecorded
<1> DEFINE l == Transfer(s.ledger, Distribution, a, n)
           u == Credited(s.unrecorded, a, n)
<1>1. /\ s.ledger \in [free : [Accounts -> Nat], held : [Accounts -> Nat]]
      /\ Distribution \in Accounts /\ ExistentialDeposit \in Nat
      /\ \A b \in Accounts : s.ledger.held[b] = 0
      /\ \A b \in Accounts : s.ledger.free[b] \in Nat
  BY Constants, TypedFields, ExistentialDepositAssumption DEF Ledgers
<1>2. s.ledger.free[Distribution] - n \in Nat
  BY <1>1 DEF CanTransfer, CanWithdraw
<1>3. /\ l \in [free : [Accounts -> Nat], held : [Accounts -> Nat]]
      /\ l.held = s.ledger.held /\ l.free[a] = s.ledger.free[a] + n
      /\ \A c \in Accounts : c # Distribution /\ c # a => l.free[c] = s.ledger.free[c]
  BY <1>1, <1>2, TransferMoves
<1>4. \A b \in Accounts : b # Distribution => l.free[b] >= s.ledger.free[b]
  BY <1>1, <1>3
<1>5. s.unrecorded \in [Accounts -> Nat]
  BY TypedFields
<1>6. u \in [Accounts -> Nat] /\ [u EXCEPT ![a] = @ - n] = s.unrecorded
  BY <1>5 DEF Credited
<1>7. Pay(s, a, n) = [s EXCEPT !.ok = s.ok, !.ledger = l, !.unrecorded = u]
  <2>1. (s.ok /\ CanTransfer(s.ledger, Distribution, a, n)) = s.ok
    BY TypedFields
  <2> QED BY <2>1 DEF Pay, Credited
<1> HIDE DEF l, u
<1>8. Pay(s, a, n) = Rec(s.commitments, s.delegations, s.delegator_total,
                         s.total_stake, s.locks, l, u, s.overslashed, s.reward, s.ok)
  BY <1>7 DEF Typed, Rec
<1> QED BY <1>1, <1>3, <1>4, <1>6, <1>8 DEF l, u, Ledgers

\* A payment succeeds if it can be made.
LEMMA PayOk ==
    ASSUME NEW s, Typed(s), NEW a, NEW n
    PROVE  Pay(s, a, n).ok => s.ok /\ CanTransfer(s.ledger, Distribution, a, n)
<1>1. Pay(s, a, n).ok = (s.ok /\ CanTransfer(s.ledger, Distribution, a, n))
  BY DEF Pay, Typed
<1> QED BY <1>1

\* A second payment of the reward changes nothing that the invariant reads.
LEMMA PayHolds ==
    ASSUME Clock, NEW s, StoreInv(s, announced, block), NEW a, a \in Accounts, a # Distribution,
           NEW n, n \in Nat, CanTransfer(s.ledger, Distribution, a, n)
    PROVE  LET t == Pay(s, a, n)
           IN  /\ StoreInv(t, announced, block) /\ t.ok = s.ok
               /\ t.commitments = s.commitments /\ t.delegations = s.delegations
               /\ t.overslashed = s.overslashed
<1> DEFINE t == Pay(s, a, n)
           l == Transfer(s.ledger, Distribution, a, n)
           u == Credited(s.unrecorded, a, n)
<1>1. Typed(s)
  BY DEF StoreInv
<1>2. /\ t = Rec(s.commitments, s.delegations, s.delegator_total,
                 s.total_stake, s.locks, l, u, s.overslashed, s.reward, s.ok)
      /\ l \in Ledgers /\ (\A b \in Accounts : l.held[b] = 0)
      /\ \A b \in Accounts : b # Distribution => l.free[b] >= s.ledger.free[b]
      /\ u \in [Accounts -> Nat] /\ [u EXCEPT ![a] = @ - n] = s.unrecorded
  BY <1>1, PayFields
<1> HIDE DEF t, l, u
<1>3. Typed(t)
  BY <1>1, <1>2, TypedFields, RecTyped
<1>4. /\ t.commitments = s.commitments /\ t.delegations = s.delegations
      /\ t.delegator_total = s.delegator_total /\ t.locks = s.locks
      /\ t.total_stake = s.total_stake /\ t.overslashed = s.overslashed /\ t.ledger = l
      /\ t.ok = s.ok
  BY <1>2, RecFields
<1>5. SumsInv(t)
  <2>1. AmountsOf(t) = AmountsOf(s)
    BY <1>4 DEF AmountsOf
  <2>2. \A c \in Committers : OwnStake(t, c) = OwnStake(s, c)
    BY <1>4 DEF OwnStake, Staked
  <2> QED BY <1>1, <1>2, <1>3, <1>4, <2>1, <2>2, SumsStay DEF StoreInv
<1>6. WeightsInv(t)
  BY <1>4 DEF StoreInv, WeightsInv, PoolWeighs, Staked, FreshKeys, RewardWeights, SlashWeights
<1>7. CommitmentsInv(t, announced, block) /\ DelegationsInv(t, announced, block)
  BY <1>4 DEF StoreInv, CommitmentsInv, DelegationsInv
<1> QED BY <1>1, <1>3, <1>4, <1>5, <1>6, <1>7 DEF StoreInv, t

\* A stake of which the reward was taken.
Unrewarded(d) == [d EXCEPT !.stake.accrued_reward = 0]

LEMMA UnrewardedType ==
    ASSUME NEW d, d \in Delegations
    PROVE  LET e == Unrewarded(d)
           IN  /\ e \in Delegations /\ SameTerms(d, e) /\ e.slash_debt = d.slash_debt
               /\ e.stake.accrued_slash = d.stake.accrued_slash
<1> DEFINE st == d.stake
           v == [st EXCEPT !.accrued_reward = 0]
           e == Unrewarded(d)
<1>1. st \in Stakes
  BY DelegationType
<1>2. /\ v \in Stakes /\ v.amount = st.amount /\ v.rewardable_amount = st.rewardable_amount
      /\ v.created = st.created /\ v.cooldown_period = st.cooldown_period
      /\ v.cooldown_started = st.cooldown_started /\ v.accrued_slash = st.accrued_slash
  <2> HIDE DEF st
  <2> QED BY <1>1 DEF Stakes
<1>3. e = [d EXCEPT !.stake = v]
  BY DEF Unrewarded
<1> HIDE DEF v, e
<1>4. e = [stake |-> v, reward_weight |-> d.reward_weight, slash_weight |-> d.slash_weight,
           reward_debt |-> d.reward_debt, slash_debt |-> d.slash_debt]
  BY <1>3 DEF Delegations
<1>5. e \in Delegations
  BY <1>2, <1>4, DelegationType DEF Delegations
<1> QED BY <1>2, <1>4, <1>5 DEF SameTerms, e

\* withdraw_delegator_accrued pays the reward if it can be paid.
LEMMA WithdrawHolds ==
    ASSUME Clock, NEW s, StoreInv(s, announced, block), NEW k, k \in DOMAIN s.delegations,
           CanTransfer(s.ledger, Distribution, k[1], s.delegations[k].stake.accrued_reward)
    PROVE  LET t == withdraw_delegator_accrued(s, k)
           IN  /\ StoreInv(t, announced, block)
               /\ Kept(s, t)
               /\ t.ok = s.ok
               /\ t.reward = s.delegations[k].stake.accrued_reward
               /\ t.total_stake = s.total_stake
               /\ t.delegations[k].stake.amount = s.delegations[k].stake.amount
               /\ t.delegations[k].stake.accrued_slash = s.delegations[k].stake.accrued_slash
<1> DEFINE d == s.delegations[k]
           r == d.stake.accrued_reward
           a == k[1]
           l == Transfer(s.ledger, Distribution, a, r)
           u == Credited(s.unrecorded, a, r)
           p == Pay(s, a, r)
           t == withdraw_delegator_accrued(s, k)
           e == Unrewarded(d)
<1>1. /\ Typed(s) /\ a \in Accounts /\ a # Distribution /\ r \in Nat /\ d \in Delegations
      /\ DebtBounded(d, PoolRewards(s, k))
  BY DelegationFacts, StakeType DEF StoreInv, DelegationHolds, PoolRewards
<1>2. /\ p = Rec(s.commitments, s.delegations, s.delegator_total, s.total_stake, s.locks,
                 l, u, s.overslashed, s.reward, s.ok)
      /\ l \in Ledgers /\ (\A b \in Accounts : l.held[b] = 0)
      /\ \A b \in Accounts : b # Distribution => l.free[b] >= s.ledger.free[b]
      /\ u \in [Accounts -> Nat] /\ [u EXCEPT ![a] = @ - r] = s.unrecorded
  <2> HIDE DEF r, a
  <2> QED BY <1>1, PayFields DEF r, a
<1>3. t = [p EXCEPT !.delegations[k] = Unrewarded(@), !.unrecorded[a] = @ - r, !.reward = r]
  BY DEF withdraw_delegator_accrued, Unrewarded
<1>4. e \in Delegations /\ SameTerms(d, e) /\ e.slash_debt = d.slash_debt
      /\ e.stake.accrued_slash = d.stake.accrued_slash
  BY <1>1, UnrewardedType
<1> HIDE DEF t, p, l, u, e
<1>5. t = Rec(s.commitments, [s.delegations EXCEPT ![k] = e], s.delegator_total, s.total_stake,
              s.locks, l, s.unrecorded, s.overslashed, r, s.ok)
  <2>1. p.delegations = s.delegations /\ p.unrecorded = u
    BY <1>2, RecFields
  <2>2. t = [p EXCEPT !.delegations = [s.delegations EXCEPT ![k] = e],
                      !.unrecorded = s.unrecorded, !.reward = r]
    BY <1>2, <1>3, <2>1 DEF e
  <2> QED BY <1>2, <2>2 DEF Rec
<1>6. Typed(t)
  <2>1. [s.delegations EXCEPT ![k] = e] \in [DOMAIN s.delegations -> Delegations]
    BY <1>1, <1>4, TypedFields
  <2> HIDE DEF r
  <2> QED BY <1>1, <1>2, <1>5, <2>1, TypedFields, RecTyped
<1>7. /\ t.commitments = s.commitments /\ t.delegations = [s.delegations EXCEPT ![k] = e]
      /\ t.delegator_total = s.delegator_total /\ t.locks = s.locks
      /\ t.total_stake = s.total_stake /\ t.overslashed = s.overslashed /\ t.ledger = l
      /\ t.ok = s.ok /\ t.reward = r
  BY <1>5, RecFields
<1>8. DebtBounded(e, PoolRewards(s, k))
  BY <1>1, <1>4 DEF DebtBounded, SameTerms
<1>9. StoreInv(t, announced, block)
  BY <1>2, <1>4, <1>6, <1>7, <1>8, TermsStay
<1>10. Kept(s, t)
  BY <1>1, <1>4, <1>7, TypedFields DEF Kept, SameTerms
<1> QED BY <1>4, <1>7, <1>9, <1>10 DEF SameTerms, t

LEMMA WithdrawOk ==
    ASSUME Clock, NEW s, StoreInv(s, announced, block), NEW k, k \in DOMAIN s.delegations,
           withdraw_delegator_accrued(s, k).ok
    PROVE  s.ok /\ CanTransfer(s.ledger, Distribution, k[1], s.delegations[k].stake.accrued_reward)
<1> DEFINE r == s.delegations[k].stake.accrued_reward
           p == Pay(s, k[1], r)
<1>1. withdraw_delegator_accrued(s, k).ok = p.ok
  <2>1. p = [p EXCEPT !.ok = p.ok] /\ DOMAIN p = DOMAIN s
    BY DEF Pay, StoreInv, Typed
  <2>2. "ok" \in DOMAIN p /\ "delegations" \in DOMAIN p /\ "unrecorded" \in DOMAIN p
        /\ "reward" \in DOMAIN p
    BY <2>1 DEF StoreInv, Typed
  <2> QED BY <2>2 DEF withdraw_delegator_accrued
<1> QED BY <1>1, PayOk DEF StoreInv

-----------------------------------------------------------------------------
(***************************************************************************)
(* One delegation changes, and with it the totals of its commitment.       *)
(***************************************************************************)
\* Delegation k becomes e and its commitment new, of which the weights change
\* by v and w.
Updated(s, t, k, e, new, v, w) ==
    /\ new \in Commitments
    /\ t.commitments = [s.commitments EXCEPT ![k[2]] = new]
    /\ t.delegations = [s.delegations EXCEPT ![k] = e]
    /\ new.stake = s.commitments[k[2]].stake
    /\ new.pool_rewards = s.commitments[k[2]].pool_rewards
    /\ e.stake.created = s.delegations[k].stake.created
    /\ v \in Int /\ w \in Int
    /\ new.stake # None =>
        /\ CurrentWeights(new).delegations_reward
            = CurrentWeights(s.commitments[k[2]]).delegations_reward + v
        /\ CurrentWeights(new).delegations_slash
            = CurrentWeights(s.commitments[k[2]]).delegations_slash + w
    /\ IF Fresh(s.commitments[k[2]], s.delegations[k])
       THEN /\ e.reward_weight = s.delegations[k].reward_weight + v
            /\ e.slash_weight = s.delegations[k].slash_weight + w
       ELSE v = 0 /\ w = 0

\* The weights of the pools follow.
LEMMA WeightsFollow ==
    ASSUME NEW s, NEW t, Typed(s), Typed(t), WeightsInv(s), NEW k, k \in DOMAIN s.delegations,
           s.commitments[k[2]] \in Commitments,
           NEW e, NEW new, NEW v, NEW w, Updated(s, t, k, e, new, v, w)
    PROVE  WeightsInv(t)
<1> USE DEF Updated
<1> DEFINE d == s.delegations[k]
           cm == s.commitments[k[2]]
<1>1. /\ k[2] \in Committers /\ DOMAIN t.delegations = DOMAIN s.delegations
      /\ t.delegations[k] = e /\ t.commitments[k[2]] = new
      /\ \A l \in DOMAIN s.delegations : l # k => t.delegations[l] = s.delegations[l]
      /\ \A c \in Committers : c # k[2] => t.commitments[c] = s.commitments[c]
  BY StoreFacts, TypedFields
<1>2. \A l \in DOMAIN s.delegations :
        t.delegations[l].stake.created = s.delegations[l].stake.created
  BY <1>1
<1>3. \A c \in Committers : t.commitments[c].stake = s.commitments[c].stake
  BY <1>1
<1>4. \A c \in Committers : FreshKeys(t, c) = FreshKeys(s, c)
  <2> TAKE c \in Committers
  <2>1. t.commitments[c].stake = s.commitments[c].stake
    BY <1>3
  <2>2. DOMAIN t.delegations = DOMAIN s.delegations
    BY <1>1
  <2> QED BY <1>2, <2>1, <2>2 DEF FreshKeys, Fresh
<1> SUFFICES ASSUME NEW c \in Committers, Staked(t, c) PROVE PoolWeighs(t, c)
  BY DEF WeightsInv
<1>5. Staked(s, c)
  <2>1. CASE c = k[2]
    <3>1. cm # None
      BY NoneIsNone
    <3> QED BY <2>1, <3>1, <1>1, <1>3 DEF Staked
  <2>2. CASE c # k[2]
    BY <2>2, <1>1 DEF Staked
  <2> QED BY <2>1, <2>2
<1>6. PoolWeighs(s, c)
  BY <1>5 DEF WeightsInv
<1>7. CASE c # k[2]
  <2>1. k \notin FreshKeys(s, c)
    BY <1>7 DEF FreshKeys
  <2>2. \A l \in FreshKeys(s, c) : t.delegations[l] = s.delegations[l]
    BY <1>1, <2>1 DEF FreshKeys
  <2>3. WeightsMove(s, t, c, 0, 0)
    BY <1>4, <2>2, PoolStays
  <2>4. /\ SumOver(RewardWeights(s), FreshKeys(s, c)) \in Nat
        /\ SumOver(SlashWeights(s), FreshKeys(s, c)) \in Nat
    BY PoolType
  <2>5. t.commitments[c] = s.commitments[c]
    BY <1>1, <1>7
  <2> QED BY <1>6, <2>3, <2>4, <2>5 DEF PoolWeighs, WeightsMove
<1>8. CASE c = k[2] /\ Fresh(cm, d)
  <2>1. k \in FreshKeys(s, c)
    BY <1>8 DEF FreshKeys
  <2>2. \A l \in FreshKeys(s, c) : l # k => t.delegations[l] = s.delegations[l]
    BY <1>1 DEF FreshKeys
  <2>3. WeightsMove(s, t, c, v, w)
    <3>1. /\ t.delegations[k].reward_weight = s.delegations[k].reward_weight + v
          /\ t.delegations[k].slash_weight = s.delegations[k].slash_weight + w
      BY <1>1, <1>8
    <3>2. FreshKeys(t, c) = FreshKeys(s, c)
      BY <1>4
    <3> QED BY <2>1, <2>2, <3>1, <3>2, PoolChanges
  <2>4. new.stake # None
    BY <1>8 DEF Fresh
  <2> QED BY <1>1, <1>6, <1>8, <2>3, <2>4, PoolFollows
<1>9. CASE c = k[2] /\ ~Fresh(cm, d)
  <2>1. k \notin FreshKeys(s, c)
    BY <1>9 DEF FreshKeys
  <2>2. \A l \in FreshKeys(s, c) : t.delegations[l] = s.delegations[l]
    BY <1>1, <2>1 DEF FreshKeys
  <2>3. WeightsMove(s, t, c, v, w)
    <3>1. WeightsMove(s, t, c, 0, 0)
      BY <1>4, <2>2, PoolStays
    <3>2. v = 0 /\ w = 0
      BY <1>9
    <3> QED BY <3>1, <3>2
  <2>4. new.stake # None
    BY <1>1, <1>9 DEF Staked
  <2> QED BY <1>1, <1>6, <1>9, <2>3, <2>4, PoolFollows
<1> QED BY <1>7, <1>8, <1>9

\* The invariant holds if the delegation that changed holds, and the sums do.
LEMMA UpdateHolds ==
    ASSUME Clock, NEW s, NEW t, StoreInv(s, announced, block), Typed(t), SumsInv(t),
           NEW k, k \in DOMAIN s.delegations, NEW e, NEW new, NEW v, NEW w,
           Updated(s, t, k, e, new, v, w), DelegationHolds(e, new, announced[k[2]], block)
    PROVE  StoreInv(t, announced, block)
<1>1. /\ Typed(s) /\ WeightsInv(s) /\ s.commitments[k[2]] \in Commitments /\ k[2] \in Committers
      /\ new # None /\ s.commitments[k[2]] # None
      /\ CommitmentTimed(s.commitments[k[2]], announced[k[2]], block)
  BY DelegationFacts, NoneIsNone DEF StoreInv, Updated
<1>2. WeightsInv(t)
  BY <1>1, WeightsFollow
<1> USE DEF Updated
<1>3. /\ DOMAIN t.delegations = DOMAIN s.delegations
      /\ t.delegations[k] = e /\ t.commitments[k[2]] = new
      /\ \A l \in DOMAIN s.delegations : l # k => t.delegations[l] = s.delegations[l]
      /\ \A c \in Committers : c # k[2] => t.commitments[c] = s.commitments[c]
  BY <1>1, TypedFields
<1>4. CommitmentsInv(t, announced, block)
  <2>1. CommitmentTimed(new, announced[k[2]], block)
    BY <1>1 DEF CommitmentTimed
  <2> QED BY <1>3, <2>1 DEF StoreInv, CommitmentsInv
<1>5. DelegationsInv(t, announced, block)
  <2> SUFFICES ASSUME NEW l \in DOMAIN s.delegations
               PROVE  /\ t.commitments[l[2]] # None
                      /\ DelegationHolds(t.delegations[l], t.commitments[l[2]], announced[l[2]], block)
    BY <1>3 DEF DelegationsInv
  <2>1. /\ s.commitments[l[2]] # None /\ l[2] \in Committers
        /\ DelegationHolds(s.delegations[l], s.commitments[l[2]], announced[l[2]], block)
    BY <1>1, StoreFacts DEF StoreInv, DelegationsInv
  <2>2. CASE l = k
    BY <2>2, <1>1, <1>3
  <2>3. CASE l # k /\ l[2] # k[2]
    BY <2>1, <2>3, <1>3
  <2>4. CASE l # k /\ l[2] = k[2]
    <3>1. DelegationHolds(s.delegations[l], new, announced[k[2]], block)
      BY <2>1, <2>4 DEF DelegationHolds, Fresh
    <3> QED BY <2>4, <3>1, <1>1, <1>3
  <2> QED BY <2>2, <2>3, <2>4
<1> QED BY <1>2, <1>4, <1>5 DEF StoreInv

\* It keeps the terms if the delegation keeps its own.
LEMMA UpdateKeeps ==
    ASSUME NEW s, NEW t, Typed(s), Typed(t),
           NEW k, k \in DOMAIN s.delegations, NEW e, NEW new, new \in Commitments,
           s.commitments[k[2]] \in Commitments,
           t.commitments = [s.commitments EXCEPT ![k[2]] = new],
           t.delegations = [s.delegations EXCEPT ![k] = e],
           new.stake = s.commitments[k[2]].stake,
           e.stake.created = s.delegations[k].stake.created,
           e.stake.cooldown_period = s.delegations[k].stake.cooldown_period,
           e.stake.cooldown_started = s.delegations[k].stake.cooldown_started,
           t.overslashed = s.overslashed
    PROVE  Kept(s, t)
<1>1. /\ k[2] \in Committers /\ DOMAIN t.delegations = DOMAIN s.delegations
      /\ t.delegations[k] = e /\ t.commitments[k[2]] = new
      /\ \A l \in DOMAIN s.delegations : l # k => t.delegations[l] = s.delegations[l]
      /\ \A c \in Committers : c # k[2] => t.commitments[c] = s.commitments[c]
      /\ new # None /\ s.commitments[k[2]] # None
  BY StoreFacts, TypedFields, NoneIsNone
<1>2. \A c \in Committers :
        /\ t.commitments[c] = None <=> s.commitments[c] = None
        /\ t.commitments[c] # None => t.commitments[c].stake = s.commitments[c].stake
  BY <1>1
<1>3. \A l \in DOMAIN s.delegations :
        /\ t.delegations[l].stake.created = s.delegations[l].stake.created
        /\ t.delegations[l].stake.cooldown_period = s.delegations[l].stake.cooldown_period
        /\ t.delegations[l].stake.cooldown_started = s.delegations[l].stake.cooldown_started
  BY <1>1
<1>4. t.commitments \in [Committers -> Commitments \cup {None}]
  BY TypedFields
<1> QED BY <1>1, <1>2, <1>3, <1>4 DEF Kept

(***************************************************************************)
(* The accrued slash is taken from a delegation.                           *)
(***************************************************************************)
Burnt(d, x, y, z, v, w, p, q) ==
    [stake |-> [amount |-> x, rewardable_amount |-> y, created |-> d.stake.created,
                cooldown_period |-> d.stake.cooldown_period,
                cooldown_started |-> d.stake.cooldown_started,
                accrued_reward |-> d.stake.accrued_reward, accrued_slash |-> z],
     reward_weight |-> v, slash_weight |-> w, reward_debt |-> p, slash_debt |-> q]

LEMMA BurntType ==
    ASSUME NEW d, NEW x, NEW y, NEW z, NEW v, NEW w, NEW p, NEW q, d \in Delegations,
           x \in Nat, y \in Nat, z \in Nat, v \in Nat, w \in Nat, p \in Nat, q \in Nat
    PROVE  Burnt(d, x, y, z, v, w, p, q) \in Delegations
<1>1. d.stake \in Stakes
  BY DelegationType
<1>2. d.stake.created \in Nat /\ d.stake.cooldown_period \in Nat
      /\ d.stake.cooldown_started \in Nat \cup {None} /\ d.stake.accrued_reward \in Nat
  BY <1>1, StakeType
<1> QED BY <1>2 DEF Burnt, Delegations, Stakes

LEMMA BurntFields ==
    ASSUME NEW d, NEW x, NEW y, NEW z, NEW v, NEW w, NEW p, NEW q
    PROVE  LET e == Burnt(d, x, y, z, v, w, p, q)
           IN  /\ e.stake.amount = x /\ e.stake.rewardable_amount = y
               /\ e.stake.created = d.stake.created
               /\ e.stake.cooldown_period = d.stake.cooldown_period
               /\ e.stake.cooldown_started = d.stake.cooldown_started
               /\ e.stake.accrued_slash = z
               /\ e.reward_weight = v /\ e.slash_weight = w /\ e.slash_debt = q
BY DEF Burnt

\* The two ways a delegation is lessened, before the slash is paid off.
Lessened(d, x, y) == [d EXCEPT !.stake.amount = x, !.stake.rewardable_amount = y]

Reweighed(d, v, w, p, q) ==
    [d EXCEPT !.reward_weight = v, !.slash_weight = w, !.reward_debt = p, !.slash_debt = q]

PaidOff(d, n) == [d EXCEPT !.stake.accrued_slash = @ - n]

LEMMA LessenedIs ==
    ASSUME NEW d, NEW x, NEW y, d \in Delegations
    PROVE  Lessened(d, x, y) = Burnt(d, x, y, d.stake.accrued_slash, d.reward_weight,
                                     d.slash_weight, d.reward_debt, d.slash_debt)
<1> DEFINE st == d.stake
           v == [st EXCEPT !.amount = x]
           u == [v EXCEPT !.rewardable_amount = y]
           e == [d EXCEPT !.stake = v]
<1>1. st \in Stakes
  BY DelegationType
<1>2. v = [amount |-> x, rewardable_amount |-> st.rewardable_amount, created |-> st.created,
           cooldown_period |-> st.cooldown_period, cooldown_started |-> st.cooldown_started,
           accrued_reward |-> st.accrued_reward, accrued_slash |-> st.accrued_slash]
  <2> HIDE DEF st
  <2> QED BY <1>1 DEF Stakes
<1>3. u = [amount |-> x, rewardable_amount |-> y, created |-> st.created,
           cooldown_period |-> st.cooldown_period, cooldown_started |-> st.cooldown_started,
           accrued_reward |-> st.accrued_reward, accrued_slash |-> st.accrued_slash]
  <2> HIDE DEF v
  <2> QED BY <1>2
<1>4. Lessened(d, x, y) = [d EXCEPT !.stake = u]
  <2>1. e.stake = v
    BY DEF Delegations
  <2> QED BY <2>1 DEF Lessened, Delegations
<1> HIDE DEF u
<1>5. [d EXCEPT !.stake = u] = [stake |-> u, reward_weight |-> d.reward_weight,
        slash_weight |-> d.slash_weight, reward_debt |-> d.reward_debt, slash_debt |-> d.slash_debt]
  BY DEF Delegations
<1> QED BY <1>3, <1>4, <1>5 DEF Burnt

LEMMA ReweighedIs ==
    ASSUME NEW d, NEW x, NEW y, NEW z, NEW v, NEW w, NEW p, NEW q,
           NEW v1, NEW w1, NEW p1, NEW q1
    PROVE  Reweighed(Burnt(d, x, y, z, v1, w1, p1, q1), v, w, p, q) = Burnt(d, x, y, z, v, w, p, q)
<1> DEFINE st == [amount |-> x, rewardable_amount |-> y, created |-> d.stake.created,
                cooldown_period |-> d.stake.cooldown_period,
                cooldown_started |-> d.stake.cooldown_started,
                accrued_reward |-> d.stake.accrued_reward, accrued_slash |-> z]
           b == Burnt(d, x, y, z, v1, w1, p1, q1)
           b1 == [b EXCEPT !.reward_weight = v]
           b2 == [b1 EXCEPT !.slash_weight = w]
           b3 == [b2 EXCEPT !.reward_debt = p]
           b4 == [b3 EXCEPT !.slash_debt = q]
<1>1. b = [stake |-> st, reward_weight |-> v1, slash_weight |-> w1, reward_debt |-> p1,
           slash_debt |-> q1]
  BY DEF Burnt
<1>2. Burnt(d, x, y, z, v, w, p, q)
        = [stake |-> st, reward_weight |-> v, slash_weight |-> w, reward_debt |-> p,
           slash_debt |-> q]
  BY DEF Burnt
<1>3. Reweighed(b, v, w, p, q) = b4
  BY DEF Reweighed
<1> HIDE DEF st, b
<1>4. b1 = [stake |-> st, reward_weight |-> v, slash_weight |-> w1, reward_debt |-> p1,
            slash_debt |-> q1]
  BY <1>1
<1> HIDE DEF b1
<1>5. b2 = [stake |-> st, reward_weight |-> v, slash_weight |-> w, reward_debt |-> p1,
            slash_debt |-> q1]
  BY <1>4
<1> HIDE DEF b2
<1>6. b3 = [stake |-> st, reward_weight |-> v, slash_weight |-> w, reward_debt |-> p,
            slash_debt |-> q1]
  BY <1>5
<1> HIDE DEF b3
<1>7. b4 = [stake |-> st, reward_weight |-> v, slash_weight |-> w, reward_debt |-> p,
            slash_debt |-> q]
  BY <1>6
<1> HIDE DEF b4
<1> QED BY <1>2, <1>3, <1>7 DEF b

LEMMA PaidOffIs ==
    ASSUME NEW d, NEW x, NEW y, NEW z, NEW v, NEW w, NEW p, NEW q, NEW n
    PROVE  PaidOff(Burnt(d, x, y, z, v, w, p, q), n) = Burnt(d, x, y, z - n, v, w, p, q)
<1> DEFINE st == [amount |-> x, rewardable_amount |-> y, created |-> d.stake.created,
                cooldown_period |-> d.stake.cooldown_period,
                cooldown_started |-> d.stake.cooldown_started,
                accrued_reward |-> d.stake.accrued_reward, accrued_slash |-> z]
           b == [stake |-> st, reward_weight |-> v, slash_weight |-> w, reward_debt |-> p,
                 slash_debt |-> q]
<1>1. b = Burnt(d, x, y, z, v, w, p, q)
  BY DEF Burnt
<1>2. PaidOff(b, n) = [b EXCEPT !.stake = [st EXCEPT !.accrued_slash = z - n]]
  BY DEF PaidOff
<1>3. [st EXCEPT !.accrued_slash = z - n]
        = [amount |-> x, rewardable_amount |-> y, created |-> d.stake.created,
                cooldown_period |-> d.stake.cooldown_period,
                cooldown_started |-> d.stake.cooldown_started,
                accrued_reward |-> d.stake.accrued_reward, accrued_slash |-> z - n]
  OBVIOUS
<1> QED BY <1>1, <1>2, <1>3 DEF Burnt

\* lock_funds, and the fields it leaves.
LEMMA LockFields ==
    ASSUME NEW s, Typed(s), NEW a, NEW n
    PROVE  lock_funds(s, a, n)
             = Rec(s.commitments, s.delegations, s.delegator_total, s.total_stake,
                   [s.locks EXCEPT ![a] = n], s.ledger, s.unrecorded, s.overslashed, s.reward,
                   s.ok /\ n <= Balance(s, a))
<1> DEFINE ok == s.ok /\ n <= Balance(s, a)
           lk == [s.locks EXCEPT ![a] = n]
           x == [s EXCEPT !.ok = ok]
<1>1. lock_funds(s, a, n) = [x EXCEPT !.locks = lk]
  BY DEF lock_funds, Typed
<1> HIDE DEF ok, lk
<1>2. s = Rec(s.commitments, s.delegations, s.delegator_total, s.total_stake, s.locks,
              s.ledger, s.unrecorded, s.overslashed, s.reward, s.ok)
  BY TypedIsRec
<1>3. x
        = Rec(s.commitments, s.delegations, s.delegator_total, s.total_stake, s.locks,
              s.ledger, s.unrecorded, s.overslashed, s.reward, ok)
  BY <1>2 DEF Rec
<1> HIDE DEF x
<1>4. [x EXCEPT !.locks = lk]
        = Rec(s.commitments, s.delegations, s.delegator_total, s.total_stake, lk,
              s.ledger, s.unrecorded, s.overslashed, s.reward, ok)
  BY <1>3 DEF Rec
<1> QED BY <1>1, <1>4 DEF ok, lk

\* What decrease_delegator_stake leaves of a delegation and of its commitment.
LeftRewardable(st, n) ==
    IF st.cooldown_started = None THEN st.amount - n ELSE Part(CooldownRewardRatio, st.amount - n)

LeftReward(st, n) == Weight(LeftRewardable(st, n), st.cooldown_period)

LeftSlash(st, n) == Weight(st.amount - n, st.cooldown_period)

DelegationLess(d, cm, r, n) ==
    LET less == Lessened(d, d.stake.amount - n, LeftRewardable(d.stake, n))
    IN  IF ~Fresh(cm, d) THEN less
        ELSE Reweighed(less, LeftReward(d.stake, n), LeftSlash(d.stake, n),
                       RewardDebt(LeftReward(d.stake, n), r),
                       PerWeight(LeftSlash(d.stake, n), r.slash_per_weight))

PoolLess(d, cm, n) ==
    IF cm.stake = None THEN cm
    ELSE Shrink(cm, n, Minus(d.stake.rewardable_amount, LeftRewardable(d.stake, n)),
                IF Fresh(cm, d) THEN d.reward_weight - LeftReward(d.stake, n) ELSE 0,
                IF Fresh(cm, d) THEN d.slash_weight - LeftSlash(d.stake, n) ELSE 0)

LockLess(s, k, n) == DelegationLock(s, k[1], k[2], s.delegations[k].stake.amount - n)

CanDecrease(s, k, n) ==
    /\ s.ok /\ LockLess(s, k, n) <= Balance(s, k[1])
    /\ n <= Min({s.total_stake, s.delegator_total[k[1]]})

LEMMA DecreaseFields ==
    ASSUME NEW s, Typed(s), NEW k, NEW n
    PROVE  decrease_delegator_stake(s, k, n)
             = Rec([s.commitments EXCEPT ![k[2]] =
                        PoolLess(s.delegations[k], s.commitments[k[2]], n)],
                   [s.delegations EXCEPT ![k] =
                        DelegationLess(s.delegations[k], s.commitments[k[2]], PoolRewards(s, k), n)],
                   [s.delegator_total EXCEPT ![k[1]] = @ - n], s.total_stake - n,
                   [s.locks EXCEPT ![k[1]] = LockLess(s, k, n)], s.ledger, s.unrecorded,
                   s.overslashed, s.reward, CanDecrease(s, k, n))
<1> DEFINE d == s.delegations[k]
           cm == s.commitments[k[2]]
           e == DelegationLess(d, cm, PoolRewards(s, k), n)
           new == PoolLess(d, cm, n)
           b == n <= Min({s.total_stake, s.delegator_total[k[1]]})
           lk == [s.locks EXCEPT ![k[1]] = LockLess(s, k, n)]
           ok == s.ok /\ LockLess(s, k, n) <= Balance(s, k[1])
           t == lock_funds(s, k[1], LockLess(s, k, n))
           a == k[1]
           c == k[2]
<1>1. decrease_delegator_stake(s, k, n)
        = [t EXCEPT !.ok = @ /\ b, !.delegations[k] = e, !.commitments[c] = new,
                    !.total_stake = @ - n, !.delegator_total[a] = @ - n]
  BY DEF decrease_delegator_stake, DelegationLess, PoolLess, LeftRewardable, LeftReward,
         LeftSlash, Lessened, Reweighed, LockLess
<1>2. t = Rec(s.commitments, s.delegations, s.delegator_total, s.total_stake, lk, s.ledger,
              s.unrecorded, s.overslashed, s.reward, ok)
  BY LockFields
<1>3. CanDecrease(s, k, n) = (ok /\ b)
  BY DEF CanDecrease
<1> HIDE DEF d, cm, e, new, b, lk, ok, t, a, c
<1> DEFINE x1 == [t EXCEPT !.ok = ok /\ b]
           x2 == [x1 EXCEPT !.delegations = [s.delegations EXCEPT ![k] = e]]
           x3 == [x2 EXCEPT !.commitments = [s.commitments EXCEPT ![c] = new]]
           x4 == [x3 EXCEPT !.total_stake = s.total_stake - n]
           x5 == [x4 EXCEPT !.delegator_total = [s.delegator_total EXCEPT ![a] = @ - n]]
<1>4. decrease_delegator_stake(s, k, n) = x5
  <2>1. /\ t.ok = ok /\ t.delegations = s.delegations /\ t.commitments = s.commitments
        /\ t.total_stake = s.total_stake /\ t.delegator_total = s.delegator_total
    BY <1>2, RecFields
  <2> QED BY <1>1, <1>2, <2>1 DEF Rec
<1>5. x1 = Rec(s.commitments, s.delegations, s.delegator_total, s.total_stake, lk, s.ledger,
               s.unrecorded, s.overslashed, s.reward, ok /\ b)
  BY <1>2 DEF Rec
<1> HIDE DEF x1
<1> DEFINE ds == [s.delegations EXCEPT ![k] = e]
           cs == [s.commitments EXCEPT ![c] = new]
           dt == [s.delegator_total EXCEPT ![a] = @ - n]
<1>6. x2 = Rec(s.commitments, ds, s.delegator_total, s.total_stake, lk, s.ledger,
               s.unrecorded, s.overslashed, s.reward, ok /\ b)
  <2> HIDE DEF ds
  <2> QED BY <1>5 DEF Rec, ds
<1> HIDE DEF x2, ds
<1>7. x3 = Rec(cs, ds, s.delegator_total, s.total_stake, lk, s.ledger,
               s.unrecorded, s.overslashed, s.reward, ok /\ b)
  BY <1>6 DEF Rec
<1> HIDE DEF x3, cs
<1>8. x4 = Rec(cs, ds, s.delegator_total, s.total_stake - n, lk, s.ledger,
               s.unrecorded, s.overslashed, s.reward, ok /\ b)
  BY <1>7 DEF Rec
<1> HIDE DEF x4
<1>9. x5 = Rec(cs, ds, dt, s.total_stake - n, lk, s.ledger,
               s.unrecorded, s.overslashed, s.reward, ok /\ b)
  BY <1>8 DEF Rec
<1> HIDE DEF x5, dt
<1> QED BY <1>3, <1>4, <1>9 DEF ds, cs, dt, a, c, d, cm, e, new, lk

DelegationBurnt(s, k, n) ==
    PaidOff(DelegationLess(s.delegations[k], s.commitments[k[2]], PoolRewards(s, k), n), n)

LEMMA BurnFields ==
    ASSUME NEW s, Typed(s), NEW k, k \in DOMAIN s.delegations, NEW n,
           n = Slashed(s.delegations[k].stake), s.delegations[k].stake.accrued_slash # 0
    PROVE  BurnSlash(s, k)
             = Rec([s.commitments EXCEPT ![k[2]] =
                        PoolLess(s.delegations[k], s.commitments[k[2]], n)],
                   [s.delegations EXCEPT ![k] = DelegationBurnt(s, k, n)],
                   [s.delegator_total EXCEPT ![k[1]] = @ - n], s.total_stake - n,
                   [s.locks EXCEPT ![k[1]] = LockLess(s, k, n)], Withdraw(s.ledger, k[1], n),
                   s.unrecorded, s.overslashed, s.reward,
                   CanDecrease(s, k, n) /\ n <= s.ledger.free[k[1]])
<1> DEFINE e == DelegationLess(s.delegations[k], s.commitments[k[2]], PoolRewards(s, k), n)
           cs == [s.commitments EXCEPT ![k[2]] =
                        PoolLess(s.delegations[k], s.commitments[k[2]], n)]
           dt == [s.delegator_total EXCEPT ![k[1]] = @ - n]
           lk == [s.locks EXCEPT ![k[1]] = LockLess(s, k, n)]
           ok == CanDecrease(s, k, n)
           ds == [s.delegations EXCEPT ![k] = e]
           b == n <= s.ledger.free[k[1]]
           t == decrease_delegator_stake(s, k, n)
           l == Withdraw(s.ledger, k[1], n)
           total == s.total_stake - n
<1>1. t = Rec(cs, ds, dt, total, lk, s.ledger, s.unrecorded, s.overslashed, s.reward, ok)
  BY DecreaseFields
<1>2. BurnSlash(s, k)
        = [t EXCEPT !.ok = @ /\ b, !.ledger = Withdraw(@, k[1], n), !.delegations[k] = PaidOff(@, n)]
  BY DEF BurnSlash, PaidOff
<1>3. ds[k] = e /\ [ds EXCEPT ![k] = PaidOff(e, n)] = [s.delegations EXCEPT ![k] = PaidOff(e, n)]
  <2> HIDE DEF e
  <2> QED BY TypedFields
<1> DEFINE ds2 == [ds EXCEPT ![k] = PaidOff(e, n)]
<1>4. ds2 = [s.delegations EXCEPT ![k] = DelegationBurnt(s, k, n)]
  BY <1>3 DEF DelegationBurnt
<1> HIDE DEF e, cs, dt, lk, ok, ds, b, t, l, total
<1> DEFINE x1 == [t EXCEPT !.ok = ok /\ b]
           x2 == [x1 EXCEPT !.ledger = l]
           x3 == [x2 EXCEPT !.delegations = ds2]
<1>5. BurnSlash(s, k) = x3
  <2>1. t.ok = ok /\ t.delegations = ds /\ t.ledger = s.ledger
    BY <1>1, RecFields
  <2> QED BY <1>1, <1>2, <1>3, <2>1 DEF Rec, l
<1> HIDE DEF ds2
<1>6. x1 = Rec(cs, ds, dt, total, lk, s.ledger, s.unrecorded, s.overslashed, s.reward, ok /\ b)
  BY <1>1 DEF Rec
<1> HIDE DEF x1
<1>7. x2 = Rec(cs, ds, dt, total, lk, l, s.unrecorded, s.overslashed, s.reward, ok /\ b)
  BY <1>6 DEF Rec
<1> HIDE DEF x2
<1>8. x3 = Rec(cs, ds2, dt, total, lk, l, s.unrecorded, s.overslashed, s.reward, ok /\ b)
  BY <1>7 DEF Rec
<1> HIDE DEF x3
<1> QED BY <1>4, <1>5, <1>8 DEF cs, dt, lk, ok, b, l, total

\* The slash that a stake can bear.
LEMMA SlashedType ==
    ASSUME NEW st, st \in Stakes
    PROVE  /\ Slashed(st) \in Nat /\ Slashed(st) <= st.amount /\ Slashed(st) <= st.accrued_slash
           /\ st.accrued_slash - Slashed(st) = 0 \/ st.amount - Slashed(st) = 0
<1>1. st.amount \in Nat /\ st.accrued_slash \in Nat
  BY StakeType
<1>2. Slashed(st) \in {st.accrued_slash, st.amount} /\ Slashed(st) <= st.accrued_slash
      /\ Slashed(st) <= st.amount /\ Slashed(st) \in Nat
  BY <1>1, SmallerOf DEF Slashed
<1> QED BY <1>1, <1>2

\* The weights of what is left are not more than those before.
LEMMA LeftType ==
    ASSUME NEW st, st \in Stakes, NEW n, n \in Nat, n <= st.amount
    PROVE  /\ st.amount - n \in Nat
           /\ LeftRewardable(st, n) \in Nat /\ LeftReward(st, n) \in Nat /\ LeftSlash(st, n) \in Nat
           /\ LeftSlash(st, n) <= Weight(st.amount, st.cooldown_period)
           /\ LeftReward(st, n) <= Weight(Rewardable(st), st.cooldown_period)
<1> DEFINE x == st.amount - n
<1>1. /\ st.amount \in Nat /\ st.cooldown_period \in Nat /\ x \in Nat /\ x <= st.amount
      /\ CooldownRewardRatio \in 0 .. 100
  BY StakeType, Constants
<1> HIDE DEF x
<1>2. LeftRewardable(st, n) \in Nat /\ Rewardable(st) \in Nat
      /\ LeftRewardable(st, n) <= Rewardable(st)
  <2>1. Part(CooldownRewardRatio, x) \in Nat /\ Part(CooldownRewardRatio, st.amount) \in Nat
    BY <1>1, PartType
  <2>2. Part(CooldownRewardRatio, x) <= Part(CooldownRewardRatio, st.amount)
    BY <1>1, PartMonotonic
  <2>3. LeftRewardable(st, n) = IF st.cooldown_started = None THEN x ELSE Part(CooldownRewardRatio, x)
    BY DEF LeftRewardable, x
  <2> QED BY <1>1, <2>1, <2>2, <2>3 DEF Rewardable
<1>3. LeftReward(st, n) \in Nat /\ LeftReward(st, n) <= Weight(Rewardable(st), st.cooldown_period)
  BY <1>1, <1>2, WeightType, WeightMonotonic DEF LeftReward
<1>4. Weight(x, st.cooldown_period) \in Nat
      /\ Weight(x, st.cooldown_period) <= Weight(st.amount, st.cooldown_period)
  BY <1>1, WeightType, WeightMonotonic
<1> QED BY <1>1, <1>2, <1>3, <1>4 DEF LeftSlash, x

\* The commitment's totals lose what the delegation does.
LEMMA PoolLessType ==
    ASSUME Clock, NEW s, StoreInv(s, announced, block), NEW k, k \in DOMAIN s.delegations,
           NEW n, n \in Nat, n <= s.delegations[k].stake.amount
    PROVE  LET d == s.delegations[k]
               cm == s.commitments[k[2]]
               new == PoolLess(d, cm, n)
               v == IF Fresh(cm, d) THEN LeftReward(d.stake, n) - d.reward_weight ELSE 0
               w == IF Fresh(cm, d) THEN LeftSlash(d.stake, n) - d.slash_weight ELSE 0
           IN  /\ new \in Commitments /\ new.stake = cm.stake
               /\ new.pool_rewards = cm.pool_rewards
               /\ v \in Int /\ w \in Int
               /\ new.stake # None =>
                    /\ CurrentWeights(new).delegations_reward
                        = CurrentWeights(cm).delegations_reward + v
                    /\ CurrentWeights(new).delegations_slash
                        = CurrentWeights(cm).delegations_slash + w
<1> DEFINE d == s.delegations[k]
           cm == s.commitments[k[2]]
           st == d.stake
           new == PoolLess(d, cm, n)
           v == IF Fresh(cm, d) THEN LeftReward(st, n) - d.reward_weight ELSE 0
           w == IF Fresh(cm, d) THEN LeftSlash(st, n) - d.slash_weight ELSE 0
           v2 == IF Fresh(cm, d) THEN d.reward_weight - LeftReward(st, n) ELSE 0
           w2 == IF Fresh(cm, d) THEN d.slash_weight - LeftSlash(st, n) ELSE 0
           m == Minus(st.rewardable_amount, LeftRewardable(st, n))
<1>1. /\ Typed(s) /\ WeightsInv(s) /\ cm \in Commitments /\ d \in Delegations /\ st \in Stakes
      /\ k[2] \in Committers
      /\ DelegationHolds(d, cm, announced[k[2]], block) /\ block \in Nat
  BY DelegationFacts DEF StoreInv, Clock
<1>2. /\ d.reward_weight \in Nat /\ d.slash_weight \in Nat /\ st.rewardable_amount \in Nat
  BY <1>1, DelegationType, StakeType
<1>3. /\ LeftRewardable(st, n) \in Nat /\ LeftReward(st, n) \in Nat /\ LeftSlash(st, n) \in Nat
      /\ LeftSlash(st, n) <= Weight(st.amount, st.cooldown_period)
      /\ LeftReward(st, n) <= Weight(Rewardable(st), st.cooldown_period)
  <2> HIDE DEF st
  <2> QED BY <1>1, LeftType DEF st
<1>4. Fresh(cm, d) => LeftReward(st, n) <= d.reward_weight /\ LeftSlash(st, n) <= d.slash_weight
  BY <1>1, <1>3 DEF DelegationHolds, Weighed, StakeHolds
<1>5. v2 \in Nat /\ w2 \in Nat /\ v \in Int /\ w \in Int /\ v = 0 - v2 /\ w = 0 - w2
      /\ v2 <= d.reward_weight /\ w2 <= d.slash_weight
  BY <1>2, <1>3, <1>4
<1>6. m \in Nat
  BY <1>2, <1>3, MinusType
<1>7. CASE cm.stake = None
  <2>1. new = cm
    BY <1>7 DEF PoolLess
  <2> QED BY <1>1, <1>5, <1>7, <2>1
<1>8. CASE cm.stake # None
  <2>1. new = Shrink(cm, n, m, v2, w2)
    BY <1>8 DEF PoolLess
  <2> DEFINE cw == CurrentWeights(cm)
  <2>2. /\ new \in Commitments /\ new.stake = cm.stake /\ new.pool_rewards = cm.pool_rewards
        /\ CurrentWeights(new).delegations_reward = Minus(cw.delegations_reward, v2)
        /\ CurrentWeights(new).delegations_slash = Minus(cw.delegations_slash, w2)
    <3> HIDE DEF d, cm, st, new, v2, w2, m, cw
    <3> QED BY <1>1, <1>5, <1>6, <2>1, ShrinkType DEF cw
  <2>3. cw \in Weights
    BY <1>1, CommitmentType
  <2>4. cw.delegations_reward \in Nat /\ cw.delegations_slash \in Nat
    <3> HIDE DEF cw
    <3> QED BY <2>3 DEF Weights
  <2>5. v2 <= cw.delegations_reward /\ w2 <= cw.delegations_slash
    <3>1. CASE ~Fresh(cm, d)
      BY <3>1, <2>4
    <3>2. CASE Fresh(cm, d)
      <4>1. k \in FreshKeys(s, k[2])
        BY <3>2 DEF FreshKeys
      <4>2. Staked(s, k[2])
        BY <1>1, <1>8, NoneIsNone DEF Staked
      <4>3. PoolWeighs(s, k[2])
        BY <1>1, <4>2 DEF WeightsInv
      <4>4. /\ d.reward_weight <= SumOver(RewardWeights(s), FreshKeys(s, k[2]))
            /\ d.slash_weight <= SumOver(SlashWeights(s), FreshKeys(s, k[2]))
        BY <1>1, <4>1, PoolType
      <4>5. d.reward_weight <= cw.delegations_reward /\ d.slash_weight <= cw.delegations_slash
        BY <4>3, <4>4 DEF PoolWeighs
      <4> HIDE DEF cw, v2, w2, d
      <4> QED BY <4>5, <1>2, <1>5, <2>4
    <3> QED BY <3>1, <3>2
  <2>6. /\ CurrentWeights(new).delegations_reward = cw.delegations_reward + v
        /\ CurrentWeights(new).delegations_slash = cw.delegations_slash + w
    <3> HIDE DEF cw, v2, w2, v, w, new, d, cm
    <3> QED BY <1>5, <2>2, <2>4, <2>5 DEF Minus
  <2> QED BY <1>5, <2>2, <2>6
<1> QED BY <1>7, <1>8

\* The delegation that is left.
LEMMA DelegationBurntHolds ==
    ASSUME Clock, NEW s, StoreInv(s, announced, block), NEW k, k \in DOMAIN s.delegations,
           NEW n, n \in Nat, n <= s.delegations[k].stake.amount,
           n <= s.delegations[k].stake.accrued_slash,
           NEW new, new.stake = s.commitments[k[2]].stake,
           new.pool_rewards = s.commitments[k[2]].pool_rewards
    PROVE  LET d == s.delegations[k]
               cm == s.commitments[k[2]]
               e == DelegationBurnt(s, k, n)
           IN  /\ e \in Delegations
               /\ DelegationHolds(e, new, announced[k[2]], block)
               /\ e.stake.amount = d.stake.amount - n
               /\ e.stake.accrued_slash = d.stake.accrued_slash - n
               /\ e.stake.created = d.stake.created
               /\ e.stake.cooldown_period = d.stake.cooldown_period
               /\ e.stake.cooldown_started = d.stake.cooldown_started
               /\ Fresh(cm, d) => e.reward_weight = LeftReward(d.stake, n)
                                  /\ e.slash_weight = LeftSlash(d.stake, n)
<1> DEFINE d == s.delegations[k]
           cm == s.commitments[k[2]]
           st == d.stake
           r == PoolRewards(s, k)
           e == DelegationBurnt(s, k, n)
           x == st.amount - n
           y == LeftRewardable(st, n)
           z == st.accrued_slash - n
           v == LeftReward(st, n)
           w == LeftSlash(st, n)
           p == RewardDebt(v, r)
           q == PerWeight(w, r.slash_per_weight)
<1>1. /\ cm \in Commitments /\ d \in Delegations /\ st \in Stakes
      /\ DelegationHolds(d, cm, announced[k[2]], block)
      /\ CommitmentTimed(cm, announced[k[2]], block)
      /\ r \in PoolReward \cup {None}
  BY DelegationFacts
<1>2. x \in Nat /\ y \in Nat /\ v \in Nat /\ w \in Nat
  <2> HIDE DEF st
  <2> QED BY <1>1, LeftType DEF st
<1>3. z \in Nat
  BY <1>1, StakeType
<1>4. r = get_latest(new.pool_rewards, st.created)
  BY DEF PoolRewards
<1>5. y = IF st.cooldown_started = None THEN x ELSE Part(CooldownRewardRatio, x)
  BY DEF LeftRewardable
<1>6. StakeHolds(st, block)
  BY <1>1 DEF DelegationHolds
<1>7. CASE ~Fresh(cm, d)
  <2>1. e = Burnt(d, x, y, z, d.reward_weight, d.slash_weight, d.reward_debt, d.slash_debt)
    <3>1. e = PaidOff(Lessened(d, x, y), n)
      BY <1>7 DEF DelegationBurnt, DelegationLess
    <3> HIDE DEF d, x, y, z
    <3>2. e = PaidOff(Burnt(d, x, y, d.stake.accrued_slash, d.reward_weight, d.slash_weight,
                            d.reward_debt, d.slash_debt), n)
      BY <1>1, <3>1, LessenedIs
    <3> QED BY <3>2, PaidOffIs DEF z
  <2>2. d.reward_weight \in Nat /\ d.slash_weight \in Nat /\ d.reward_debt \in Nat /\ d.slash_debt \in Nat
    BY <1>1, DelegationType
  <2> HIDE DEF e, d, x, y, z, v, w, p, q, r, cm
  <2>3. e \in Delegations
    BY <1>1, <1>2, <1>3, <2>1, <2>2, BurntType
  <2>4. /\ e.stake.amount = x /\ e.stake.rewardable_amount = y
        /\ e.stake.created = d.stake.created
        /\ e.stake.cooldown_period = d.stake.cooldown_period
        /\ e.stake.cooldown_started = d.stake.cooldown_started
        /\ e.stake.accrued_slash = z
        /\ e.reward_weight = d.reward_weight /\ e.slash_weight = d.slash_weight
        /\ e.slash_debt = d.slash_debt
    BY <2>1, BurntFields
  <2>5. StakeHolds(e.stake, block)
    BY <1>5, <1>6, <2>4 DEF StakeHolds, Rewardable, st
  <2>6. DebtBounded(e, r)
    BY <1>1, <2>4 DEF DelegationHolds, DebtBounded, r, PoolRewards, d, cm
  <2>7. ~Fresh(new, e) /\ Outlived(e.stake, announced[k[2]], block)
    BY <1>1, <1>7, <2>4 DEF DelegationHolds, Fresh, Outlived, cm
  <2>8. DelegationHolds(e, new, announced[k[2]], block)
    BY <1>4, <2>4, <2>5, <2>6, <2>7 DEF DelegationHolds, st
  <2> QED BY <1>7, <2>3, <2>4, <2>8 DEF e, d, x, z, cm
<1>8. CASE Fresh(cm, d)
  <2>1. r \in PoolReward
    <3>1. cm.pool_rewards \in MemoryBuffers(PoolReward) /\ cm.stake # None
      BY <1>1, <1>8, CommitmentType DEF Fresh
    <3>2. st.created >= cm.pool_rewards.current.at
      BY <1>1, <1>8, <3>1 DEF CommitmentTimed, Fresh
    <3>3. r = cm.pool_rewards.current.value
      BY <3>2 DEF PoolRewards, get_latest
    <3> HIDE DEF cm, r
    <3> QED BY <3>1, <3>3, LatestType
  <2>2. p \in Nat /\ q \in Nat
    <3>1. r.slash_per_weight \in Nat
      BY <2>1 DEF PoolReward
    <3> HIDE DEF r, v, w
    <3> QED BY <1>2, <2>1, <3>1, RewardDebtType, PerWeightType
  <2>3. e = Burnt(d, x, y, z, v, w, p, q)
    <3>1. e = PaidOff(Reweighed(Lessened(d, x, y), v, w, p, q), n)
      BY <1>8 DEF DelegationBurnt, DelegationLess
    <3> HIDE DEF d, x, y, z, v, w, p, q
    <3>2. Lessened(d, x, y) = Burnt(d, x, y, d.stake.accrued_slash, d.reward_weight,
                                    d.slash_weight, d.reward_debt, d.slash_debt)
      BY <1>1, LessenedIs
    <3>3. Reweighed(Lessened(d, x, y), v, w, p, q)
            = Burnt(d, x, y, d.stake.accrued_slash, v, w, p, q)
      BY <3>2, ReweighedIs
    <3> QED BY <3>1, <3>3, PaidOffIs DEF z
  <2> HIDE DEF e, d, x, y, z, v, w, p, q, r, cm
  <2>4. e \in Delegations
    BY <1>1, <1>2, <1>3, <2>2, <2>3, BurntType
  <2>5. /\ e.stake.amount = x /\ e.stake.rewardable_amount = y
        /\ e.stake.created = d.stake.created
        /\ e.stake.cooldown_period = d.stake.cooldown_period
        /\ e.stake.cooldown_started = d.stake.cooldown_started
        /\ e.stake.accrued_slash = z
        /\ e.reward_weight = v /\ e.slash_weight = w /\ e.slash_debt = q
    BY <2>3, BurntFields
  <2>6. StakeHolds(e.stake, block)
    BY <1>5, <1>6, <2>5 DEF StakeHolds, Rewardable, st
  <2>7. DebtBounded(e, r)
    BY <2>2, <2>5 DEF DebtBounded, q
  <2>8. Fresh(new, e) /\ Joined(e.stake, new.stake)
    BY <1>1, <1>8, <2>5 DEF DelegationHolds, Fresh, Joined, cm
  <2>9. Weighed(e)
    BY <2>5 DEF Weighed, v, w, x, y, LeftReward, LeftSlash, st
  <2>10. DelegationHolds(e, new, announced[k[2]], block)
    BY <1>4, <2>5, <2>6, <2>7, <2>8, <2>9 DEF DelegationHolds, st
  <2> QED BY <1>8, <2>4, <2>5, <2>10 DEF e, d, x, z, cm, v, w
<1> QED BY <1>7, <1>8

\* The lock falls by what is taken.
LEMMA LockLessIs ==
    ASSUME NEW s, Typed(s), SumsInv(s), NEW k, k \in DOMAIN s.delegations, NEW n, n \in Nat,
           n <= s.delegations[k].stake.amount
    PROVE  /\ LockLess(s, k, n) = s.locks[k[1]] - n
           /\ n <= s.delegator_total[k[1]] /\ n <= s.locks[k[1]]
<1> DEFINE d == s.delegations[k]
           a == k[1]
           m == d.stake.amount
<1>1. /\ a \in Accounts /\ k = <<k[1], k[2]>> /\ m \in Nat /\ s.delegator_total[a] \in Nat
      /\ s.locks[a] \in Nat /\ OwnStake(s, a) \in Nat
  <2>1. k \in Keys /\ a \in Accounts /\ d \in Delegations
    BY StoreFacts
  <2>2. k = <<k[1], k[2]>>
    BY <2>1 DEF Keys
  <2>3. m \in Nat
    BY <2>1, DelegationType, StakeType
  <2> QED BY <2>1, <2>2, <2>3, TypedFields, OwnStakesType
<1>2. m <= s.delegator_total[a]
  BY PartOfDelegated
<1>3. s.locks[a] = OwnStake(s, a) + s.delegator_total[a]
  BY <1>1 DEF SumsInv, AccountAddsUp
<1>4. LockLess(s, k, n) = Minus(s.delegator_total[a], m) + OwnStake(s, a) + (m - n)
  <2>1. <<k[1], k[2]>> \in DOMAIN s.delegations /\ s.delegations[<<k[1], k[2]>>] = d
    BY <1>1
  <2> QED BY <2>1 DEF LockLess, DelegationLock
<1> HIDE DEF m, a, d
<1>5. Minus(s.delegator_total[a], m) = s.delegator_total[a] - m
  BY <1>1, <1>2 DEF Minus
<1> QED BY <1>1, <1>2, <1>3, <1>4, <1>5 DEF m, a, d

\* When the accrued slash can be taken.
CanBurn(s, k) ==
    LET n == Slashed(s.delegations[k].stake)
    IN  s.delegations[k].stake.accrued_slash # 0 =>
            /\ LockLess(s, k, n) <= Balance(s, k[1])
            /\ n <= s.total_stake /\ n <= s.delegator_total[k[1]] /\ n <= s.ledger.free[k[1]]

LEMMA BurnOk ==
    ASSUME Clock, NEW s, StoreInv(s, announced, block), NEW k, k \in DOMAIN s.delegations
    PROVE  /\ BurnSlash(s, k).ok => s.ok /\ CanBurn(s, k)
           /\ s.ok /\ CanBurn(s, k) => BurnSlash(s, k).ok
           /\ s.overslashed = 0 => CanBurn(s, k)
<1> DEFINE d == s.delegations[k]
           st == d.stake
           n == Slashed(st)
           t == BurnSlash(s, k)
<1>1. /\ Typed(s) /\ SumsInv(s) /\ st \in Stakes /\ k[1] \in Accounts
  BY DelegationFacts DEF StoreInv
<1>2. n \in Nat /\ n <= st.amount
  <2> HIDE DEF st
  <2> QED BY <1>1, SlashedType
<1>3. CASE st.accrued_slash = 0
  <2>1. t = s
    BY <1>3 DEF BurnSlash
  <2>2. CanBurn(s, k)
    BY <1>3 DEF CanBurn
  <2> QED BY <2>1, <2>2
<1>4. CASE st.accrued_slash # 0
  <2>1. t.ok = (CanDecrease(s, k, n) /\ n <= s.ledger.free[k[1]])
    <3> DEFINE cs == [s.commitments EXCEPT ![k[2]] = PoolLess(d, s.commitments[k[2]], n)]
               ds == [s.delegations EXCEPT ![k] = DelegationBurnt(s, k, n)]
               dt == [s.delegator_total EXCEPT ![k[1]] = @ - n]
               lk == [s.locks EXCEPT ![k[1]] = LockLess(s, k, n)]
               l == Withdraw(s.ledger, k[1], n)
               ok == CanDecrease(s, k, n) /\ n <= s.ledger.free[k[1]]
               total == s.total_stake - n
    <3>1. t = Rec(cs, ds, dt, total, lk, l, s.unrecorded, s.overslashed, s.reward, ok)
      <4> HIDE DEF n
      <4> QED BY <1>1, <1>4, BurnFields DEF n
    <3> HIDE DEF cs, ds, dt, lk, l, ok, total, t
    <3>2. t.ok = ok
      BY <3>1, RecFields
    <3> QED BY <3>2 DEF ok
  <2>2. s.total_stake \in Nat /\ s.delegator_total[k[1]] \in Nat /\ s.ledger.free[k[1]] \in Nat
        /\ s.ledger.held[k[1]] = 0 /\ s.overslashed \in Nat /\ s.locks[k[1]] \in Nat
    BY <1>1, TypedFields
  <2>3. n <= Min({s.total_stake, s.delegator_total[k[1]]})
          <=> n <= s.total_stake /\ n <= s.delegator_total[k[1]]
    <3> HIDE DEF n
    <3>1. LET m == Min({s.total_stake, s.delegator_total[k[1]]})
          IN  /\ m \in {s.total_stake, s.delegator_total[k[1]]} /\ m <= s.total_stake
              /\ m <= s.delegator_total[k[1]] /\ m \in Nat
      BY <2>2, SmallerOf
    <3> QED BY <1>2, <2>2, <3>1
  <2>4. t.ok <=> s.ok /\ CanBurn(s, k)
    BY <1>4, <2>1, <2>3 DEF CanDecrease, CanBurn
  <2>5. s.overslashed = 0 => CanBurn(s, k)
    <3> SUFFICES ASSUME s.overslashed = 0 PROVE CanBurn(s, k)
      OBVIOUS
    <3>1. LockLess(s, k, n) = s.locks[k[1]] - n
          /\ n <= s.delegator_total[k[1]] /\ n <= s.locks[k[1]]
      <4> HIDE DEF n
      <4> QED BY <1>1, <1>2, LockLessIs
    <3>2. st.amount <= s.total_stake + s.overslashed
      BY <1>1, PartOfDelegated
    <3>3. s.locks[k[1]] <= s.ledger.free[k[1]] + s.overslashed
      BY <1>1 DEF SumsInv, AccountAddsUp
    <3>4. st.amount \in Nat
      BY <1>1, StakeType
    <3>5. n <= s.total_stake /\ n <= s.ledger.free[k[1]] /\ LockLess(s, k, n) <= Balance(s, k[1])
      <4> HIDE DEF n, st
      <4> QED BY <1>2, <2>2, <3>1, <3>2, <3>3, <3>4 DEF Balance
    <3> QED BY <3>1, <3>5 DEF CanBurn
  <2> QED BY <2>4, <2>5
<1> QED BY <1>3, <1>4

\* The slash is taken: the invariant holds, and nothing more can be taken.
LEMMA BurnHolds ==
    ASSUME Clock, NEW s, StoreInv(s, announced, block), NEW k, k \in DOMAIN s.delegations,
           CanBurn(s, k)
    PROVE  LET t == BurnSlash(s, k)
           IN  /\ StoreInv(t, announced, block)
               /\ Kept(s, t)
               /\ t.reward = s.reward
               /\ Slashed(t.delegations[k].stake) = 0
               /\ t.delegations[k].stake.amount <= s.delegations[k].stake.amount
<1> DEFINE d == s.delegations[k]
           cm == s.commitments[k[2]]
           st == d.stake
           n == Slashed(st)
           t == BurnSlash(s, k)
           a == k[1]
<1>1. /\ Typed(s) /\ SumsInv(s) /\ st \in Stakes /\ a \in Accounts /\ k[2] \in Committers
      /\ cm \in Commitments /\ d \in Delegations
  BY DelegationFacts DEF StoreInv
<1>2. /\ n \in Nat /\ n <= st.amount /\ n <= st.accrued_slash
      /\ st.accrued_slash - n = 0 \/ st.amount - n = 0
      /\ st.amount \in Nat /\ st.accrued_slash \in Nat
  <2> HIDE DEF st
  <2> QED BY <1>1, SlashedType, StakeType
<1>3. CASE st.accrued_slash = 0
  <2>1. t = s
    BY <1>3 DEF BurnSlash
  <2>2. Kept(s, s)
    BY <1>1 DEF Kept, Typed
  <2>3. n = 0
    BY <1>2, <1>3
  <2> QED BY <1>2, <2>1, <2>2, <2>3
<1>4. CASE st.accrued_slash # 0
  <2> DEFINE e == DelegationBurnt(s, k, n)
             new == PoolLess(d, cm, n)
             v == IF Fresh(cm, d) THEN LeftReward(st, n) - d.reward_weight ELSE 0
             w == IF Fresh(cm, d) THEN LeftSlash(st, n) - d.slash_weight ELSE 0
             cs == [s.commitments EXCEPT ![k[2]] = new]
             ds == [s.delegations EXCEPT ![k] = e]
             dt == [s.delegator_total EXCEPT ![a] = @ - n]
             lk == [s.locks EXCEPT ![a] = LockLess(s, k, n)]
             l == Withdraw(s.ledger, a, n)
             ok == CanDecrease(s, k, n) /\ n <= s.ledger.free[a]
             total == s.total_stake - n
  <2>1. t = Rec(cs, ds, dt, total, lk, l, s.unrecorded, s.overslashed, s.reward, ok)
    <3> HIDE DEF n
    <3> QED BY <1>1, <1>4, BurnFields DEF n
  <2>2. /\ n <= s.total_stake /\ n <= s.delegator_total[a] /\ n <= s.ledger.free[a]
    BY <1>4 DEF CanBurn
  <2>3. LockLess(s, k, n) = s.locks[a] - n /\ n <= s.locks[a]
    <3> HIDE DEF n
    <3> QED BY <1>1, <1>2, LockLessIs
  <2>4. /\ new \in Commitments /\ new.stake = cm.stake /\ new.pool_rewards = cm.pool_rewards
        /\ v \in Int /\ w \in Int
        /\ new.stake # None =>
             /\ CurrentWeights(new).delegations_reward = CurrentWeights(cm).delegations_reward + v
             /\ CurrentWeights(new).delegations_slash = CurrentWeights(cm).delegations_slash + w
    <3> HIDE DEF n
    <3> QED BY <1>2, PoolLessType
  <2>5. /\ e \in Delegations
        /\ DelegationHolds(e, new, announced[k[2]], block)
        /\ e.stake.amount = d.stake.amount - n
        /\ e.stake.accrued_slash = d.stake.accrued_slash - n
        /\ e.stake.created = d.stake.created
        /\ e.stake.cooldown_period = d.stake.cooldown_period
        /\ e.stake.cooldown_started = d.stake.cooldown_started
        /\ Fresh(cm, d) => e.reward_weight = LeftReward(st, n) /\ e.slash_weight = LeftSlash(st, n)
    <3> HIDE DEF n, new
    <3> QED BY <1>2, <2>4, DelegationBurntHolds
  <2>6. IF Fresh(cm, d) THEN e.reward_weight = d.reward_weight + v /\ e.slash_weight = d.slash_weight + w
        ELSE v = 0 /\ w = 0
    <3>1. d.reward_weight \in Nat /\ d.slash_weight \in Nat /\ LeftReward(st, n) \in Nat
          /\ LeftSlash(st, n) \in Nat
      <4> HIDE DEF n, st, d
      <4> QED BY <1>1, <1>2, DelegationType, LeftType
    <3> HIDE DEF e, d
    <3> QED BY <2>5, <3>1
  <2>7. l \in Ledgers /\ (\A b \in Accounts : l.held[b] = 0)
        /\ \A b \in Accounts : l.free[b] = s.ledger.free[b] - (IF b = a THEN n ELSE 0)
    <3>1. s.ledger \in Ledgers /\ (\A b \in Accounts : s.ledger.held[b] = 0)
          /\ \A b \in Accounts : s.ledger.free[b] \in Nat
      BY <1>1, TypedFields
    <3> HIDE DEF n, a
    <3>2. l \in Ledgers /\ l.held = s.ledger.held
          /\ \A b \in Accounts : l.free[b] = s.ledger.free[b] - (IF b = a THEN n ELSE 0)
      BY <1>1, <1>2, <2>2, <3>1, WithdrawMoves
    <3> QED BY <3>1, <3>2
  <2>8. /\ total \in Nat
        /\ dt \in [Accounts -> Nat] /\ lk \in [Accounts -> Nat]
        /\ \A b \in Accounts : dt[b] = s.delegator_total[b] + (IF b = a THEN 0 - n ELSE 0)
        /\ \A b \in Accounts : lk[b] = s.locks[b] + (IF b = a THEN 0 - n ELSE 0)
    <3>1. /\ s.delegator_total \in [Accounts -> Nat] /\ s.locks \in [Accounts -> Nat]
          /\ s.total_stake \in Nat
      BY <1>1, TypedFields
    <3> HIDE DEF n, a
    <3> QED BY <1>1, <1>2, <2>2, <2>3, <3>1
  <2>9. cs \in [Committers -> Commitments \cup {None}] /\ ds \in [DOMAIN s.delegations -> Delegations]
        /\ DOMAIN ds = DOMAIN s.delegations
    <3> HIDE DEF e, new
    <3> QED BY <1>1, <2>4, <2>5, TypedFields
  <2>10. ok \in BOOLEAN
    BY DEF CanDecrease
  <2> HIDE DEF cs, ds, dt, lk, l, ok, e, new, v, w, n, t, a, total
  <2>11. Typed(t)
    BY <1>1, <2>1, <2>7, <2>8, <2>9, <2>10, TypedFields, RecTyped
  <2>12. /\ t.commitments = cs /\ t.delegations = ds /\ t.delegator_total = dt
         /\ t.total_stake = total /\ t.locks = lk /\ t.ledger = l
         /\ t.overslashed = s.overslashed /\ t.reward = s.reward
    BY <2>1, RecFields
  <2>13. t.delegations[k] = e /\ \A j \in DOMAIN s.delegations : j # k => t.delegations[j] = s.delegations[j]
    BY <1>1, <2>12, TypedFields DEF ds
  <2>14. SumsInv(t)
    <3>1. 0 - n \in Int
      BY <1>2
    <3>2. AmountsMove(s, t, k[1], 0 - n)
      <4>1. t.delegations[k].stake.amount = s.delegations[k].stake.amount + (0 - n)
        BY <1>2, <2>5, <2>13
      <4>2. DOMAIN t.delegations = DOMAIN s.delegations
        BY <2>9, <2>12
      <4> QED BY <1>1, <2>11, <2>13, <3>1, <4>1, <4>2, AmountChanges
    <3>3. \A b \in Accounts : OwnStake(t, b) = OwnStake(s, b)
      <4>1. new # None /\ cm # None
        BY <1>1, <2>4, NoneIsNone
      <4>2. \A c \in Committers : c # k[2] => t.commitments[c] = s.commitments[c]
        BY <1>1, <2>12, TypedFields DEF cs
      <4>3. t.commitments[k[2]] = new
        BY <1>1, <2>12, TypedFields DEF cs
      <4> QED BY <1>1, <2>4, <4>1, <4>2, <4>3 DEF OwnStake, Staked
    <3>4. \A b \in Accounts :
            /\ t.delegator_total[b] = s.delegator_total[b] + (IF b = a THEN 0 - n ELSE 0)
            /\ t.locks[b] = s.locks[b] + (IF b = a THEN 0 - n ELSE 0)
      BY <2>8, <2>12
    <3>5. \A b \in Accounts : t.locks[b] <= t.ledger.free[b] + t.overslashed
      <4> TAKE b \in Accounts
      <4>1. s.locks[b] <= s.ledger.free[b] + s.overslashed
        BY <1>1 DEF SumsInv, AccountAddsUp
      <4>2. s.locks[b] \in Nat /\ s.ledger.free[b] \in Nat /\ s.overslashed \in Nat
        BY <1>1, TypedFields
      <4>3. t.ledger.free[b] = s.ledger.free[b] - (IF b = a THEN n ELSE 0)
        BY <2>7, <2>12
      <4>4. t.overslashed = s.overslashed /\ t.locks[b] = s.locks[b] + (IF b = a THEN 0 - n ELSE 0)
        BY <2>12, <3>4
      <4> QED BY <1>2, <4>1, <4>2, <4>3, <4>4
    <3>6. t.total_stake = s.total_stake + (0 - n) /\ t.overslashed = s.overslashed
      BY <1>1, <1>2, <2>12, TypedFields DEF total
    <3> QED BY <1>1, <2>11, <3>1, <3>2, <3>3, <3>4, <3>5, <3>6, SumsFollow DEF a
  <2>15. StoreInv(t, announced, block)
    <3>1. /\ t.commitments = [s.commitments EXCEPT ![k[2]] = new]
          /\ t.delegations = [s.delegations EXCEPT ![k] = e]
      BY <2>12 DEF cs, ds
    <3>2. /\ new \in Commitments /\ new.stake = s.commitments[k[2]].stake
          /\ new.pool_rewards = s.commitments[k[2]].pool_rewards
          /\ v \in Int /\ w \in Int
      BY <2>4
    <3>3. new.stake # None =>
             /\ CurrentWeights(new).delegations_reward
                    = CurrentWeights(s.commitments[k[2]]).delegations_reward + v
             /\ CurrentWeights(new).delegations_slash
                    = CurrentWeights(s.commitments[k[2]]).delegations_slash + w
      BY <2>4
    <3>4. IF Fresh(s.commitments[k[2]], s.delegations[k])
           THEN /\ e.reward_weight = s.delegations[k].reward_weight + v
                /\ e.slash_weight = s.delegations[k].slash_weight + w
           ELSE v = 0 /\ w = 0
      BY <2>6
    <3>5. e.stake.created = s.delegations[k].stake.created
          /\ DelegationHolds(e, new, announced[k[2]], block)
      BY <2>5
    <3>6. Updated(s, t, k, e, new, v, w)
      BY <3>1, <3>2, <3>3, <3>4, <3>5 DEF Updated
    <3> QED BY <2>11, <2>14, <3>5, <3>6, UpdateHolds
  <2>16. Kept(s, t)
    <3>1. /\ t.commitments = [s.commitments EXCEPT ![k[2]] = new]
          /\ t.delegations = [s.delegations EXCEPT ![k] = e]
      BY <2>12 DEF cs, ds
    <3> QED BY <1>1, <2>4, <2>5, <2>11, <2>12, <3>1, UpdateKeeps
  <2>17. Slashed(t.delegations[k].stake) = 0
    <3>1. e.stake \in Stakes
      BY <2>5, DelegationType
    <3>2. Slashed(e.stake) \in Nat /\ Slashed(e.stake) <= e.stake.amount
          /\ Slashed(e.stake) <= e.stake.accrued_slash
      BY <3>1, SlashedType
    <3>3. e.stake.amount = 0 \/ e.stake.accrued_slash = 0
      BY <1>2, <2>5
    <3> QED BY <2>13, <3>2, <3>3
  <2>18. t.delegations[k].stake.amount <= st.amount
    BY <1>2, <2>5, <2>13
  <2> QED BY <2>12, <2>15, <2>16, <2>17, <2>18 DEF t
<1> QED BY <1>3, <1>4

\* apply_delegator_slash.
LEMMA ApplyHolds ==
    ASSUME Clock, NEW s, StoreInv(s, announced, block), NEW k, k \in DOMAIN s.delegations
    PROVE  LET t == apply_delegator_slash(s, k)
           IN  /\ t.ok => /\ StoreInv(t, announced, block) /\ Kept(s, t) /\ s.ok
                          /\ t.reward = s.reward /\ Slashed(t.delegations[k].stake) = 0
                          /\ t.delegations[k].stake.amount <= s.delegations[k].stake.amount
               /\ s.ok /\ s.overslashed = 0 => t.ok
<1> DEFINE u == accrue_delegator(s, k)
           t == BurnSlash(u, k)
<1>1. /\ StoreInv(u, announced, block) /\ Kept(s, u) /\ u.ok = s.ok /\ u.reward = s.reward
      /\ u.delegations[k].stake.amount = s.delegations[k].stake.amount
  BY AccrueHolds
<1>2. apply_delegator_slash(s, k) = t
  BY DEF apply_delegator_slash
<1>3. k \in DOMAIN u.delegations /\ u.overslashed = s.overslashed
  BY <1>1 DEF Kept
<1> HIDE DEF u
<1>4. /\ t.ok => u.ok /\ CanBurn(u, k)
      /\ u.ok /\ CanBurn(u, k) => t.ok
      /\ u.overslashed = 0 => CanBurn(u, k)
  BY <1>1, <1>3, BurnOk
<1>5. CanBurn(u, k) => /\ StoreInv(t, announced, block) /\ Kept(u, t) /\ t.reward = u.reward
                       /\ Slashed(t.delegations[k].stake) = 0
                       /\ t.delegations[k].stake.amount <= u.delegations[k].stake.amount
  BY <1>1, <1>3, BurnHolds
<1> HIDE DEF t
<1>6. CanBurn(u, k) => Kept(s, t)
  BY <1>1, <1>5, KeptTransitive
<1> QED BY <1>1, <1>2, <1>3, <1>4, <1>5, <1>6

\* withdraw_delegation_for.
LEMMA WithdrawForHolds ==
    ASSUME Clock, NEW s, StoreInv(s, announced, block), NEW k, k \in DOMAIN s.delegations
    PROVE  LET t == withdraw_delegation_for(s, k)
           IN  /\ t.ok => /\ StoreInv(t, announced, block) /\ Kept(s, t) /\ s.ok
                          /\ t.reward \in Nat /\ Slashed(t.delegations[k].stake) = 0
                          /\ t.delegations[k].stake.amount <= s.delegations[k].stake.amount
               /\ (s.ok /\ s.overslashed = 0 /\
                   CanTransfer(apply_delegator_slash(s, k).ledger, Distribution, k[1], t.reward))
                      => t.ok
<1> DEFINE u == apply_delegator_slash(s, k)
           r == u.delegations[k].stake.accrued_reward
           t == withdraw_delegator_accrued(u, k)
<1>1. withdraw_delegation_for(s, k) = t
  BY DEF withdraw_delegation_for
<1>2. /\ u.ok => /\ StoreInv(u, announced, block) /\ Kept(s, u) /\ s.ok
                 /\ Slashed(u.delegations[k].stake) = 0
                 /\ u.delegations[k].stake.amount <= s.delegations[k].stake.amount
      /\ s.ok /\ s.overslashed = 0 => u.ok
  BY ApplyHolds
<1>3. u.ok => k \in DOMAIN u.delegations /\ u.overslashed = s.overslashed
  BY <1>2 DEF Kept
<1>4. t.ok => u.ok
  <2>1. DOMAIN u = DOMAIN s /\ Typed(s)
    <3>1. Typed(s)
      BY DEF StoreInv
    <3>2. DOMAIN accrue_delegator(s, k) = DOMAIN s /\ Typed(accrue_delegator(s, k))
      <4>1. Typed(accrue_delegator(s, k))
        BY AccrueHolds DEF StoreInv
      <4> QED BY <3>1, <4>1 DEF Typed
    <3>3. DOMAIN BurnSlash(accrue_delegator(s, k), k) = DOMAIN accrue_delegator(s, k)
      BY DEF BurnSlash, decrease_delegator_stake, lock_funds
    <3> QED BY <3>1, <3>2, <3>3 DEF apply_delegator_slash
  <2>2. "ok" \in DOMAIN u
    BY <2>1 DEF Typed
  <2> HIDE DEF u
  <2>3. t.ok => u.ok
    BY <2>1, <2>2 DEF withdraw_delegator_accrued, Pay, Typed
  <2> QED BY <2>3
<1> HIDE DEF u
<1>5. ASSUME u.ok, CanTransfer(u.ledger, Distribution, k[1], r)
      PROVE  /\ StoreInv(t, announced, block) /\ Kept(u, t) /\ t.ok = u.ok /\ t.reward = r
             /\ t.delegations[k].stake.amount = u.delegations[k].stake.amount
             /\ t.delegations[k].stake.accrued_slash = u.delegations[k].stake.accrued_slash
  BY <1>2, <1>3, <1>5, WithdrawHolds
<1>6. t.ok => CanTransfer(u.ledger, Distribution, k[1], r)
  BY <1>2, <1>3, <1>4, WithdrawOk
<1>7. u.ok => r \in Nat
  BY <1>2, <1>3, DelegationFacts, StakeType
<1>8. u.ok => t.reward = r
  <2> SUFFICES ASSUME u.ok PROVE t.reward = r
    OBVIOUS
  <2>1. Typed(u)
    BY <1>2 DEF StoreInv
  <2> HIDE DEF r
  <2>2. t = [Pay(u, k[1], r) EXCEPT !.delegations[k].stake.accrued_reward = 0,
                                    !.unrecorded[k[1]] = @ - r, !.reward = r]
    BY DEF withdraw_delegator_accrued, r
  <2>3. "reward" \in DOMAIN Pay(u, k[1], r)
    BY <2>1 DEF Pay, Typed
  <2> HIDE DEF t
  <2> QED BY <2>2, <2>3
<1>9. ASSUME t.ok
      PROVE  /\ StoreInv(t, announced, block) /\ Kept(s, t) /\ s.ok
             /\ t.reward \in Nat /\ Slashed(t.delegations[k].stake) = 0
             /\ t.delegations[k].stake.amount <= s.delegations[k].stake.amount
  <2>1. u.ok /\ CanTransfer(u.ledger, Distribution, k[1], r)
    BY <1>4, <1>6, <1>9
  <2>2. /\ StoreInv(t, announced, block) /\ Kept(u, t) /\ t.reward = r
        /\ t.delegations[k].stake.amount = u.delegations[k].stake.amount
        /\ t.delegations[k].stake.accrued_slash = u.delegations[k].stake.accrued_slash
    BY <1>5, <2>1
  <2> HIDE DEF t, r
  <2>3. Kept(s, t)
    BY <1>2, <2>1, <2>2, KeptTransitive
  <2>4. Slashed(t.delegations[k].stake) = 0
    BY <1>2, <2>1, <2>2 DEF Slashed
  <2> QED BY <1>2, <1>7, <2>1, <2>2, <2>3, <2>4
<1>10. ASSUME s.ok, s.overslashed = 0, CanTransfer(u.ledger, Distribution, k[1], t.reward)
       PROVE  t.ok
  <2>1. u.ok /\ t.reward = r
    BY <1>2, <1>8, <1>10
  <2>2. CanTransfer(u.ledger, Distribution, k[1], r)
    BY <1>10, <2>1
  <2> QED BY <1>5, <2>1, <2>2
<1> QED BY <1>1, <1>9, <1>10 DEF u

-----------------------------------------------------------------------------
(***************************************************************************)
(* A delegation ends.                                                      *)
(***************************************************************************)
\* All that is left of s without delegation k.
Without(s, t, k) ==
    /\ t.commitments \in [Committers -> Commitments \cup {None}]
    /\ \A c \in Committers :
        /\ t.commitments[c] = None <=> s.commitments[c] = None
        /\ t.commitments[c] # None => t.commitments[c].stake = s.commitments[c].stake
    /\ DOMAIN t.delegations = DOMAIN s.delegations \ {k}
    /\ t.overslashed = s.overslashed

Remaining(s, k) == [l \in DOMAIN s.delegations \ {k} |-> s.delegations[l]]

LEMMA TakeFields ==
    ASSUME NEW s, Typed(s), NEW k
    PROVE  TakeDelegation(s, k)
             = Rec([s.commitments EXCEPT ![k[2]] =
                        LeaveCommitment(s.commitments[k[2]], s.delegations[k])],
                   Remaining(s, k),
                   [s.delegator_total EXCEPT ![k[1]] = @ - s.delegations[k].stake.amount],
                   s.total_stake - s.delegations[k].stake.amount,
                   [s.locks EXCEPT ![k[1]] = Minus(@, s.delegations[k].stake.amount)],
                   Withdraw(s.ledger, k[1], Slashed(s.delegations[k].stake)),
                   s.unrecorded, s.overslashed, s.reward,
                   s.ok /\ s.delegations[k].stake.amount
                            <= Min({s.total_stake, s.delegator_total[k[1]]}))
<1> DEFINE d == s.delegations[k]
           m == d.stake.amount
           a == k[1]
           c == k[2]
           new == LeaveCommitment(s.commitments[c], d)
           b == m <= Min({s.total_stake, s.delegator_total[a]})
           ok == s.ok /\ b
           ds == Remaining(s, k)
           cs == [s.commitments EXCEPT ![c] = new]
           total == s.total_stake - m
           dt == [s.delegator_total EXCEPT ![a] = @ - m]
           lk == [s.locks EXCEPT ![a] = Minus(@, m)]
           l == Withdraw(s.ledger, a, Slashed(d.stake))
           x1 == [s EXCEPT !.ok = ok]
           x2 == [x1 EXCEPT !.delegations = ds]
           x3 == [x2 EXCEPT !.commitments = cs]
           x4 == [x3 EXCEPT !.total_stake = total]
           x5 == [x4 EXCEPT !.delegator_total = dt]
           x6 == [x5 EXCEPT !.locks = lk]
           x7 == [x6 EXCEPT !.ledger = l]
<1>1. TakeDelegation(s, k)
        = [s EXCEPT !.ok = @ /\ b, !.delegations = ds, !.commitments[c] = new,
                    !.total_stake = @ - m, !.delegator_total[a] = @ - m,
                    !.locks[a] = Minus(@, m), !.ledger = l]
  BY DEF TakeDelegation, Remaining
<1>2. s = Rec(s.commitments, s.delegations, s.delegator_total, s.total_stake, s.locks, s.ledger,
              s.unrecorded, s.overslashed, s.reward, s.ok)
  BY TypedIsRec
<1> HIDE DEF d, m, a, c, new, b, ds, l
<1>3. TakeDelegation(s, k) = x7
  BY <1>1, <1>2 DEF Rec
<1> HIDE DEF ok, cs, total, dt, lk
<1>4. x1 = Rec(s.commitments, s.delegations, s.delegator_total, s.total_stake, s.locks, s.ledger,
               s.unrecorded, s.overslashed, s.reward, ok)
  BY <1>2 DEF Rec
<1> HIDE DEF x1
<1>5. x2 = Rec(s.commitments, ds, s.delegator_total, s.total_stake, s.locks, s.ledger,
               s.unrecorded, s.overslashed, s.reward, ok)
  BY <1>4 DEF Rec
<1> HIDE DEF x2
<1>6. x3 = Rec(cs, ds, s.delegator_total, s.total_stake, s.locks, s.ledger,
               s.unrecorded, s.overslashed, s.reward, ok)
  BY <1>5 DEF Rec
<1> HIDE DEF x3
<1>7. x4 = Rec(cs, ds, s.delegator_total, total, s.locks, s.ledger,
               s.unrecorded, s.overslashed, s.reward, ok)
  BY <1>6 DEF Rec
<1> HIDE DEF x4
<1>8. x5 = Rec(cs, ds, dt, total, s.locks, s.ledger, s.unrecorded, s.overslashed, s.reward, ok)
  BY <1>7 DEF Rec
<1> HIDE DEF x5
<1>9. x6 = Rec(cs, ds, dt, total, lk, s.ledger, s.unrecorded, s.overslashed, s.reward, ok)
  BY <1>8 DEF Rec
<1> HIDE DEF x6
<1>10. x7 = Rec(cs, ds, dt, total, lk, l, s.unrecorded, s.overslashed, s.reward, ok)
  BY <1>9 DEF Rec
<1> HIDE DEF x7
<1> QED BY <1>3, <1>10 DEF cs, ds, dt, total, lk, l, ok, b, new, a, c, m, d

\* What a commitment loses with a delegation.
LEMMA LeaveType ==
    ASSUME Clock, NEW s, StoreInv(s, announced, block), NEW k, k \in DOMAIN s.delegations
    PROVE  LET d == s.delegations[k]
               cm == s.commitments[k[2]]
               new == LeaveCommitment(cm, d)
           IN  /\ new \in Commitments /\ new.stake = cm.stake
               /\ new.pool_rewards = cm.pool_rewards
               /\ ~Fresh(cm, d) => new = cm
               /\ Fresh(cm, d) =>
                    /\ CurrentWeights(new).delegations_reward
                        = CurrentWeights(cm).delegations_reward + (0 - d.reward_weight)
                    /\ CurrentWeights(new).delegations_slash
                        = CurrentWeights(cm).delegations_slash + (0 - d.slash_weight)
<1> DEFINE d == s.delegations[k]
           cm == s.commitments[k[2]]
           st == d.stake
           new == LeaveCommitment(cm, d)
           cw == CurrentWeights(cm)
<1>1. /\ Typed(s) /\ WeightsInv(s) /\ cm \in Commitments /\ d \in Delegations /\ st \in Stakes
      /\ k[2] \in Committers /\ block \in Nat
  BY DelegationFacts DEF StoreInv, Clock
<1>2. /\ d.reward_weight \in Nat /\ d.slash_weight \in Nat /\ st.rewardable_amount \in Nat
      /\ st.amount \in Nat
  BY <1>1, DelegationType, StakeType
<1>3. CASE ~Fresh(cm, d)
  <2>1. new = cm
    BY <1>3 DEF LeaveCommitment
  <2> QED BY <1>1, <1>3, <2>1
<1>4. CASE Fresh(cm, d)
  <2>1. new = Shrink(cm, st.amount, st.rewardable_amount, d.reward_weight, d.slash_weight)
    BY <1>4 DEF LeaveCommitment
  <2>2. /\ new \in Commitments /\ new.stake = cm.stake /\ new.pool_rewards = cm.pool_rewards
        /\ CurrentWeights(new).delegations_reward = Minus(cw.delegations_reward, d.reward_weight)
        /\ CurrentWeights(new).delegations_slash = Minus(cw.delegations_slash, d.slash_weight)
    <3> HIDE DEF d, cm, st, new, cw
    <3> QED BY <1>1, <1>2, <2>1, ShrinkType DEF cw
  <2>3. cw \in Weights
    BY <1>1, CommitmentType
  <2>4. cw.delegations_reward \in Nat /\ cw.delegations_slash \in Nat
    <3> HIDE DEF cw
    <3> QED BY <2>3 DEF Weights
  <2>5. d.reward_weight <= cw.delegations_reward /\ d.slash_weight <= cw.delegations_slash
    <3>1. k \in FreshKeys(s, k[2])
      BY <1>4 DEF FreshKeys
    <3>2. Staked(s, k[2])
      BY <1>1, <1>4, NoneIsNone DEF Staked, Fresh
    <3>3. PoolWeighs(s, k[2])
      BY <1>1, <3>2 DEF WeightsInv
    <3>4. /\ d.reward_weight <= SumOver(RewardWeights(s), FreshKeys(s, k[2]))
          /\ d.slash_weight <= SumOver(SlashWeights(s), FreshKeys(s, k[2]))
      BY <1>1, <3>1, PoolType
    <3> QED BY <3>3, <3>4 DEF PoolWeighs
  <2>6. /\ CurrentWeights(new).delegations_reward = cw.delegations_reward + (0 - d.reward_weight)
        /\ CurrentWeights(new).delegations_slash = cw.delegations_slash + (0 - d.slash_weight)
    <3> HIDE DEF cw, new, d, cm
    <3> QED BY <1>2, <2>2, <2>4, <2>5 DEF Minus
  <2> QED BY <1>4, <2>2, <2>6
<1> QED BY <1>3, <1>4

\* TakeDelegation when the slash has been taken.
LEMMA TakeHolds ==
    ASSUME Clock, NEW s, StoreInv(s, announced, block), NEW k, k \in DOMAIN s.delegations,
           Slashed(s.delegations[k].stake) = 0, s.delegations[k].stake.amount <= s.total_stake
    PROVE  LET t == TakeDelegation(s, k)
           IN  /\ StoreInv(t, announced, block) /\ Without(s, t, k) /\ t.reward = s.reward
               /\ t.ok = s.ok
<1> DEFINE d == s.delegations[k]
           cm == s.commitments[k[2]]
           m == d.stake.amount
           a == k[1]
           t == TakeDelegation(s, k)
           new == LeaveCommitment(cm, d)
           cs == [s.commitments EXCEPT ![k[2]] = new]
           ds == Remaining(s, k)
           dt == [s.delegator_total EXCEPT ![a] = @ - m]
           lk == [s.locks EXCEPT ![a] = Minus(@, m)]
           l == Withdraw(s.ledger, a, Slashed(d.stake))
           ok == s.ok /\ m <= Min({s.total_stake, s.delegator_total[a]})
           total == s.total_stake - m
<1>1. /\ Typed(s) /\ SumsInv(s) /\ WeightsInv(s) /\ a \in Accounts /\ k[2] \in Committers
      /\ cm \in Commitments /\ d \in Delegations /\ m \in Nat
  BY DelegationFacts, StakeType DEF StoreInv
<1>2. /\ new \in Commitments /\ new.stake = cm.stake /\ new.pool_rewards = cm.pool_rewards
      /\ ~Fresh(cm, d) => new = cm
      /\ Fresh(cm, d) =>
           /\ CurrentWeights(new).delegations_reward
               = CurrentWeights(cm).delegations_reward + (0 - d.reward_weight)
           /\ CurrentWeights(new).delegations_slash
               = CurrentWeights(cm).delegations_slash + (0 - d.slash_weight)
      /\ d.reward_weight \in Nat /\ d.slash_weight \in Nat
  BY <1>1, LeaveType, DelegationType
<1>3. t = Rec(cs, ds, dt, total, lk, l, s.unrecorded, s.overslashed, s.reward, ok)
  BY <1>1, TakeFields
<1>4. /\ s.delegator_total \in [Accounts -> Nat] /\ s.locks \in [Accounts -> Nat]
      /\ s.total_stake \in Nat /\ s.ok \in BOOLEAN /\ s.overslashed \in Nat
      /\ s.ledger \in Ledgers /\ (\A b \in Accounts : s.ledger.held[b] = 0)
      /\ \A b \in Accounts : s.ledger.free[b] \in Nat
  BY <1>1, TypedFields
<1>5. m <= s.delegator_total[a] /\ m <= s.locks[a]
  <2>1. m <= s.delegator_total[a]
    BY <1>1, PartOfDelegated
  <2>2. s.locks[a] = OwnStake(s, a) + s.delegator_total[a] /\ OwnStake(s, a) \in Nat
    BY <1>1, OwnStakesType DEF SumsInv, AccountAddsUp
  <2> HIDE DEF m, a
  <2> QED BY <1>1, <1>4, <2>1, <2>2
<1>6. ok = s.ok
  <2> HIDE DEF m, a
  <2>1. LET x == Min({s.total_stake, s.delegator_total[a]})
        IN  x \in {s.total_stake, s.delegator_total[a]}
    BY <1>1, <1>4, SmallerOf
  <2>2. m <= Min({s.total_stake, s.delegator_total[a]})
    BY <1>5, <2>1 DEF m
  <2> QED BY <1>4, <2>2 DEF ok
<1>7. /\ total \in Nat
      /\ dt \in [Accounts -> Nat] /\ lk \in [Accounts -> Nat]
      /\ \A b \in Accounts : dt[b] = s.delegator_total[b] + (IF b = a THEN 0 - m ELSE 0)
      /\ \A b \in Accounts : lk[b] = s.locks[b] + (IF b = a THEN 0 - m ELSE 0)
  <2>1. m <= s.total_stake
    OBVIOUS
  <2> HIDE DEF m, a
  <2>2. Minus(s.locks[a], m) = s.locks[a] - m
    BY <1>1, <1>4, <1>5 DEF Minus
  <2> QED BY <1>1, <1>4, <1>5, <2>1, <2>2
<1>8. l \in Ledgers /\ (\A b \in Accounts : l.held[b] = 0)
      /\ \A b \in Accounts : l.free[b] = s.ledger.free[b]
  <2>1. l = Withdraw(s.ledger, a, 0)
    OBVIOUS
  <2> HIDE DEF a, l
  <2>2. l \in Ledgers /\ l.held = s.ledger.held
        /\ \A b \in Accounts : l.free[b] = s.ledger.free[b] - (IF b = a THEN 0 ELSE 0)
    BY <1>1, <1>4, <2>1, WithdrawMoves
  <2> QED BY <1>4, <2>2
<1>9. cs \in [Committers -> Commitments \cup {None}]
  <2> HIDE DEF new
  <2> QED BY <1>1, <1>2, TypedFields
<1>10. /\ DOMAIN ds \subseteq DOMAIN s.delegations /\ DOMAIN ds \subseteq Keys
       /\ IsFiniteSet(DOMAIN ds) /\ ds \in [DOMAIN ds -> Delegations]
       /\ \A j \in DOMAIN ds : ds[j] = s.delegations[j]
  <2>1. DOMAIN ds = DOMAIN s.delegations \ {k}
    BY DEF Remaining
  <2>2. IsFiniteSet(DOMAIN s.delegations)
    BY <1>1, TypedFields
  <2>3. IsFiniteSet(DOMAIN ds)
    BY <2>1, <2>2, FS_Subset
  <2>4. \A j \in DOMAIN s.delegations : s.delegations[j] \in Delegations
    BY <1>1, TypedFields
  <2>5. DOMAIN s.delegations \subseteq Keys
    BY <1>1, TypedFields
  <2> QED BY <2>1, <2>3, <2>4, <2>5 DEF Remaining
<1>11. DOMAIN ds = DOMAIN s.delegations \ {k}
  BY DEF Remaining
<1> HIDE DEF cs, ds, dt, lk, l, ok, new, t, total
<1>12. Typed(t)
  BY <1>1, <1>3, <1>4, <1>6, <1>7, <1>8, <1>9, <1>10, TypedFields, RecTyped
<1>13. /\ t.commitments = cs /\ t.delegations = ds /\ t.delegator_total = dt
       /\ t.total_stake = total /\ t.locks = lk /\ t.ledger = l
       /\ t.overslashed = s.overslashed /\ t.reward = s.reward /\ t.ok = s.ok
  BY <1>3, <1>6, RecFields
<1>14. /\ t.commitments[k[2]] = new /\ new # None /\ cm # None
       /\ \A c \in Committers : c # k[2] => t.commitments[c] = s.commitments[c]
  BY <1>1, <1>2, <1>13, TypedFields, NoneIsNone DEF cs
<1>15. SumsInv(t)
  <2>1. AmountsMove(s, t, k[1], 0 - m)
    <3>1. DOMAIN t.delegations = DOMAIN s.delegations \ {k}
      BY <1>11, <1>13
    <3>2. \A j \in DOMAIN t.delegations :
            t.delegations[j].stake.amount = s.delegations[j].stake.amount
      BY <1>10, <1>13
    <3> QED BY <1>1, <1>12, <3>1, <3>2, AmountLeaves
  <2> HIDE DEF m, a
  <2>2. 0 - m \in Int
    BY <1>1
  <2>3. \A b \in Accounts : OwnStake(t, b) = OwnStake(s, b)
    BY <1>2, <1>14 DEF OwnStake, Staked
  <2>4. \A b \in Accounts :
          /\ t.delegator_total[b] = s.delegator_total[b] + (IF b = a THEN 0 - m ELSE 0)
          /\ t.locks[b] = s.locks[b] + (IF b = a THEN 0 - m ELSE 0)
    BY <1>7, <1>13
  <2>5. \A b \in Accounts : t.locks[b] <= t.ledger.free[b] + t.overslashed
    <3> TAKE b \in Accounts
    <3>1. s.locks[b] <= s.ledger.free[b] + s.overslashed
      BY <1>1 DEF SumsInv, AccountAddsUp
    <3>2. t.ledger.free[b] = s.ledger.free[b] /\ t.overslashed = s.overslashed
      BY <1>8, <1>13
    <3>3. t.locks[b] = s.locks[b] + (IF b = a THEN 0 - m ELSE 0)
      BY <2>4
    <3>4. s.locks[b] \in Nat /\ s.ledger.free[b] \in Nat
      BY <1>4
    <3> QED BY <1>1, <1>4, <3>1, <3>2, <3>3, <3>4
  <2>6. t.total_stake = s.total_stake + (0 - m) /\ t.overslashed = s.overslashed
    BY <1>1, <1>4, <1>13 DEF total
  <2> QED BY <1>1, <1>12, <2>1, <2>2, <2>3, <2>4, <2>5, <2>6, SumsFollow DEF a
<1>16. WeightsInv(t)
  <2> SUFFICES ASSUME NEW c \in Committers, Staked(t, c) PROVE PoolWeighs(t, c)
    BY DEF WeightsInv
  <2>1. Staked(s, c)
    BY <1>2, <1>14 DEF Staked
  <2>2. PoolWeighs(s, c)
    BY <1>1, <2>1 DEF WeightsInv
  <2>3. t.commitments[c].stake = s.commitments[c].stake
    BY <1>2, <1>14
  <2>4. FreshKeys(t, c) = FreshKeys(s, c) \ {k}
    <3>1. \A j : j \in DOMAIN t.delegations <=> j \in DOMAIN s.delegations /\ j # k
      BY <1>11, <1>13
    <3>2. \A j \in DOMAIN t.delegations : t.delegations[j] = s.delegations[j]
      BY <1>10, <1>13
    <3> QED BY <2>3, <3>1, <3>2 DEF FreshKeys, Fresh
  <2>5. \A j \in FreshKeys(t, c) : t.delegations[j] = s.delegations[j]
    BY <1>10, <1>13 DEF FreshKeys
  <2>6. CASE k \in FreshKeys(s, c)
    <3>1. c = k[2] /\ Fresh(cm, d)
      BY <2>6 DEF FreshKeys
    <3>2. WeightsMove(s, t, c, 0 - d.reward_weight, 0 - d.slash_weight)
      BY <1>1, <1>12, <2>4, <2>5, <2>6, PoolLeft
    <3>3. 0 - d.reward_weight \in Int /\ 0 - d.slash_weight \in Int
      BY <1>2
    <3>4. /\ CurrentWeights(t.commitments[c]).delegations_reward
               = CurrentWeights(s.commitments[c]).delegations_reward + (0 - d.reward_weight)
          /\ CurrentWeights(t.commitments[c]).delegations_slash
               = CurrentWeights(s.commitments[c]).delegations_slash + (0 - d.slash_weight)
      BY <1>2, <1>14, <3>1
    <3> QED BY <1>1, <1>12, <2>2, <3>2, <3>3, <3>4, PoolFollows
  <2>7. CASE k \notin FreshKeys(s, c)
    <3>1. FreshKeys(t, c) = FreshKeys(s, c)
      BY <2>4, <2>7
    <3>2. \A j \in FreshKeys(s, c) : t.delegations[j] = s.delegations[j]
      BY <2>5, <3>1
    <3>3. WeightsMove(s, t, c, 0, 0)
      BY <1>1, <1>12, <3>1, <3>2, PoolStays
    <3>4. t.commitments[c] = s.commitments[c]
      <4>1. CASE c = k[2]
        <5>1. ~Fresh(cm, d)
          BY <2>7, <4>1 DEF FreshKeys
        <5> QED BY <1>2, <1>14, <4>1, <5>1
      <4> QED BY <1>14, <4>1
    <3>5. /\ SumOver(RewardWeights(s), FreshKeys(s, c)) \in Nat
          /\ SumOver(SlashWeights(s), FreshKeys(s, c)) \in Nat
      BY <1>1, PoolType
    <3> QED BY <2>2, <3>3, <3>4, <3>5 DEF PoolWeighs, WeightsMove
  <2> QED BY <2>6, <2>7
<1>17. CommitmentsInv(t, announced, block)
  <2>1. CommitmentTimed(cm, announced[k[2]], block)
    BY DelegationFacts
  <2>2. CommitmentTimed(new, announced[k[2]], block)
    BY <1>2, <2>1 DEF CommitmentTimed
  <2> QED BY <1>14, <2>2 DEF StoreInv, CommitmentsInv
<1>18. DelegationsInv(t, announced, block)
  <2> SUFFICES ASSUME NEW j \in DOMAIN t.delegations
               PROVE  /\ t.commitments[j[2]] # None
                      /\ DelegationHolds(t.delegations[j], t.commitments[j[2]], announced[j[2]], block)
    BY DEF DelegationsInv
  <2>1. j \in DOMAIN s.delegations /\ t.delegations[j] = s.delegations[j]
    BY <1>10, <1>13
  <2>2. /\ s.commitments[j[2]] # None /\ j[2] \in Committers
        /\ DelegationHolds(s.delegations[j], s.commitments[j[2]], announced[j[2]], block)
    BY <1>1, <2>1, StoreFacts DEF StoreInv, DelegationsInv
  <2>3. CASE j[2] # k[2]
    BY <1>14, <2>1, <2>2, <2>3
  <2>4. CASE j[2] = k[2]
    <3>1. DelegationHolds(s.delegations[j], new, announced[k[2]], block)
      BY <1>2, <2>2, <2>4 DEF DelegationHolds, Fresh
    <3> QED BY <1>14, <2>1, <2>4, <3>1
  <2> QED BY <2>3, <2>4
<1>19. StoreInv(t, announced, block)
  BY <1>12, <1>15, <1>16, <1>17, <1>18 DEF StoreInv
<1>20. Without(s, t, k)
  <2>1. \A c \in Committers :
          /\ t.commitments[c] = None <=> s.commitments[c] = None
          /\ t.commitments[c] # None => t.commitments[c].stake = s.commitments[c].stake
    BY <1>2, <1>14
  <2> QED BY <1>9, <1>11, <1>13, <2>1 DEF Without
<1> QED BY <1>13, <1>19, <1>20 DEF t

\* Helpers only go on after success; the record keeps its fields.
LEMMA Chained ==
    ASSUME NEW s, "ok" \in DOMAIN s, "reward" \in DOMAIN s
    PROVE  /\ \A k : /\ DOMAIN accrue_delegator(s, k) = DOMAIN s
                     /\ DOMAIN BurnSlash(s, k) = DOMAIN s
                     /\ DOMAIN withdraw_delegator_accrued(s, k) = DOMAIN s
                     /\ DOMAIN TakeDelegation(s, k) = DOMAIN s
                     /\ TakeDelegation(s, k).ok =>
                            /\ s.ok
                            /\ s.delegations[k].stake.amount
                                <= Min({s.total_stake, s.delegator_total[k[1]]})
                     /\ TakeDelegation(s, k).reward = s.reward
           /\ \A a, n : DOMAIN Pay(s, a, n) = DOMAIN s /\ (Pay(s, a, n).ok => s.ok)
<1>1. ASSUME NEW a, NEW n
      PROVE  DOMAIN Pay(s, a, n) = DOMAIN s /\ (Pay(s, a, n).ok => s.ok)
  BY DEF Pay
<1>2. ASSUME NEW k
      PROVE  /\ DOMAIN accrue_delegator(s, k) = DOMAIN s
             /\ DOMAIN BurnSlash(s, k) = DOMAIN s
    BY DEF accrue_delegator, BurnSlash, decrease_delegator_stake, lock_funds
<1>3. ASSUME NEW k
      PROVE  DOMAIN withdraw_delegator_accrued(s, k) = DOMAIN s
    BY <1>1 DEF withdraw_delegator_accrued
<1>4. ASSUME NEW k
      PROVE  /\ DOMAIN TakeDelegation(s, k) = DOMAIN s
             /\ TakeDelegation(s, k).ok =>
                    /\ s.ok
                    /\ s.delegations[k].stake.amount
                        <= Min({s.total_stake, s.delegator_total[k[1]]})
             /\ TakeDelegation(s, k).reward = s.reward
  BY DEF TakeDelegation
<1> QED BY <1>1, <1>2, <1>3, <1>4

LEMMA TypedDomain == ASSUME NEW s, Typed(s) PROVE "ok" \in DOMAIN s /\ "reward" \in DOMAIN s
BY DEF Typed

LEMMA WithoutKept ==
    ASSUME NEW s, NEW t, NEW u, NEW k, Kept(s, t), Without(t, u, k)
    PROVE  Without(s, u, k)
BY DEF Kept, Without

\* end_delegation_for.
LEMMA EndHolds ==
    ASSUME Clock, NEW s, StoreInv(s, announced, block), NEW k, k \in DOMAIN s.delegations
    PROVE  LET t == end_delegation_for(s, k)
           IN  /\ t.ok => /\ StoreInv(t, announced, block) /\ Without(s, t, k) /\ s.ok
                          /\ t.reward \in Nat
               /\ (s.ok /\ s.overslashed = 0 /\
                   CanTransfer(apply_delegator_slash(s, k).ledger, Distribution, k[1], t.reward))
                      => t.ok
               /\ "ok" \in DOMAIN t /\ "reward" \in DOMAIN t
<1> DEFINE w == withdraw_delegation_for(s, k)
           t == TakeDelegation(w, k)
<1>1. end_delegation_for(s, k) = t
  BY DEF end_delegation_for
<1>2. /\ w.ok => /\ StoreInv(w, announced, block) /\ Kept(s, w) /\ s.ok
                 /\ w.reward \in Nat /\ Slashed(w.delegations[k].stake) = 0
                 /\ w.delegations[k].stake.amount <= s.delegations[k].stake.amount
      /\ (s.ok /\ s.overslashed = 0 /\
          CanTransfer(apply_delegator_slash(s, k).ledger, Distribution, k[1], w.reward)) => w.ok
  BY WithdrawForHolds
<1>3. "ok" \in DOMAIN w /\ "reward" \in DOMAIN w
  <2>1. "ok" \in DOMAIN s /\ "reward" \in DOMAIN s
    BY TypedDomain DEF StoreInv
  <2> DEFINE u == accrue_delegator(s, k)
             x == BurnSlash(u, k)
  <2>2. "ok" \in DOMAIN u /\ "reward" \in DOMAIN u
    BY <2>1, Chained
  <2> HIDE DEF u
  <2>3. "ok" \in DOMAIN x /\ "reward" \in DOMAIN x
    BY <2>2, Chained
  <2> HIDE DEF x
  <2>4. "ok" \in DOMAIN withdraw_delegator_accrued(x, k)
        /\ "reward" \in DOMAIN withdraw_delegator_accrued(x, k)
    BY <2>3, Chained
  <2> QED BY <2>4 DEF withdraw_delegation_for, apply_delegator_slash, x, u
<1>4. (t.ok => w.ok) /\ t.reward = w.reward /\ "ok" \in DOMAIN t /\ "reward" \in DOMAIN t
  <2> HIDE DEF w
  <2> QED BY <1>3, Chained
<1> HIDE DEF w
<1>5. w.ok => k \in DOMAIN w.delegations /\ w.overslashed = s.overslashed
  BY <1>2 DEF Kept
<1>6. ASSUME w.ok, w.delegations[k].stake.amount <= w.total_stake
      PROVE  StoreInv(t, announced, block) /\ Without(w, t, k) /\ t.ok = w.ok
  BY <1>2, <1>5, <1>6, TakeHolds
<1>7. ASSUME t.ok PROVE w.delegations[k].stake.amount <= w.total_stake
  <2>1. w.ok
    BY <1>4, <1>7
  <2>2. Typed(w) /\ k \in DOMAIN w.delegations
    BY <1>2, <1>5, <2>1 DEF StoreInv
  <2> DEFINE m == w.delegations[k].stake.amount
             x == Min({w.total_stake, w.delegator_total[k[1]]})
  <2>3. m <= x
    BY <1>3, <1>7, Chained
  <2>4. w.total_stake \in Nat /\ w.delegator_total[k[1]] \in Nat /\ m \in Nat
    <3>1. k[1] \in Accounts /\ w.delegations[k] \in Delegations
      BY <2>2, StoreFacts
    <3> QED BY <2>2, <3>1, TypedFields, DelegationType, StakeType
  <2>5. x <= w.total_stake /\ x \in Nat
    BY <2>4, SmallerOf
  <2> HIDE DEF m, x
  <2>6. m <= w.total_stake
    BY <1>7, <2>3, <2>4, <2>5
  <2> QED BY <2>6 DEF m
<1>8. ASSUME t.ok
      PROVE  StoreInv(t, announced, block) /\ Without(s, t, k) /\ s.ok /\ t.reward \in Nat
  <2>1. w.ok /\ w.delegations[k].stake.amount <= w.total_stake
    BY <1>4, <1>7, <1>8
  <2>2. StoreInv(t, announced, block) /\ Without(w, t, k)
    BY <1>6, <2>1
  <2> HIDE DEF t
  <2> QED BY <1>2, <1>4, <2>1, <2>2, WithoutKept
<1>9. ASSUME s.ok, s.overslashed = 0,
             CanTransfer(apply_delegator_slash(s, k).ledger, Distribution, k[1], t.reward)
      PROVE  t.ok
  <2>1. w.ok
    BY <1>2, <1>4, <1>9
  <2>2. Typed(w) /\ SumsInv(w) /\ k \in DOMAIN w.delegations /\ w.overslashed = 0
    BY <1>2, <1>5, <1>9, <2>1 DEF StoreInv
  <2>3. w.delegations[k].stake.amount <= w.total_stake
    <3>1. w.delegations[k].stake.amount <= w.total_stake + w.overslashed
      BY <2>2, PartOfDelegated
    <3>2. w.total_stake \in Nat
      BY <2>2, TypedFields
    <3> QED BY <2>2, <3>1, <3>2
  <2> QED BY <1>6, <2>1, <2>3
<1> QED BY <1>1, <1>4, <1>8, <1>9

\* Moved: the delegation ends, and the reward is paid again.
LEMMA MovedHolds ==
    ASSUME Clock, NEW s, StoreInv(s, announced, block), NEW k, k \in DOMAIN s.delegations,
           Moved(s, k).ok
    PROVE  LET t == Moved(s, k)
           IN  StoreInv(t, announced, block) /\ Without(s, t, k) /\ s.ok
<1> DEFINE u == end_delegation_for(s, k)
           r == u.reward
           t == Pay(u, k[1], r)
<1>1. Moved(s, k) = t
  BY DEF Moved, PayAgain
<1>2. /\ u.ok => /\ StoreInv(u, announced, block) /\ Without(s, u, k) /\ s.ok /\ r \in Nat
      /\ "ok" \in DOMAIN u /\ "reward" \in DOMAIN u
  BY EndHolds
<1>3. k[1] \in Accounts /\ k[1] # Distribution
  BY DelegationFacts
<1> HIDE DEF u, r
<1>4. u.ok
  BY <1>1, <1>2, Chained
<1>5. CanTransfer(u.ledger, Distribution, k[1], r)
  BY <1>1, <1>2, <1>4, PayOk DEF StoreInv
<1>6. /\ StoreInv(t, announced, block) /\ t.commitments = u.commitments
      /\ t.delegations = u.delegations /\ t.overslashed = u.overslashed
  BY <1>2, <1>3, <1>4, <1>5, PayHolds
<1> HIDE DEF t
<1>7. Without(s, t, k)
  BY <1>2, <1>4, <1>6 DEF Without
<1> QED BY <1>1, <1>2, <1>4, <1>6, <1>7

-----------------------------------------------------------------------------
(***************************************************************************)
(* A delegation begins.                                                    *)
(***************************************************************************)
\* What a new delegation adds to its commitment, and what it is.
PoolMore(cm, n, w) ==
    [cm EXCEPT
        !.delegations_total_amount = @ + n,
        !.delegations_total_rewardable_amount = @ + n,
        !.weights = Remember(@, epoch,
            [CurrentWeights(cm) EXCEPT !.delegations_reward = @ + w,
                                       !.delegations_slash = @ + w])]

NewDelegation(cm, n, p) ==
    LET w == Weight(n, p)
        r == get_latest(cm.pool_rewards, block)
    IN  [stake |-> NewStake(n, p), reward_weight |-> w, slash_weight |-> w,
         reward_debt |-> RewardDebt(w, r), slash_debt |-> PerWeight(w, r.slash_per_weight)]

More(s, k, d) == [l \in DOMAIN s.delegations \cup {k} |-> IF l = k THEN d ELSE s.delegations[l]]

LEMMA PoolMoreType ==
    ASSUME block \in Nat, NEW cm, NEW n, NEW w, cm \in Commitments, n \in Nat, w \in Nat
    PROVE  LET t == PoolMore(cm, n, w)
           IN  /\ t \in Commitments
               /\ t.stake = cm.stake /\ t.pool_rewards = cm.pool_rewards
               /\ CurrentWeights(t).delegations_reward = CurrentWeights(cm).delegations_reward + w
               /\ CurrentWeights(t).delegations_slash = CurrentWeights(cm).delegations_slash + w
<1> DEFINE x == [CurrentWeights(cm) EXCEPT
                   !.delegations_reward = @ + w, !.delegations_slash = @ + w]
           b == Remember(cm.weights, epoch, x)
           t == PoolMore(cm, n, w)
<1>1. CurrentWeights(cm) \in Weights
  BY CommitmentType
<1>2. /\ x \in Weights
      /\ x.delegations_reward = CurrentWeights(cm).delegations_reward + w
      /\ x.delegations_slash = CurrentWeights(cm).delegations_slash + w
  <2> DEFINE cw == CurrentWeights(cm)
             v == [cw EXCEPT !.delegations_reward = cw.delegations_reward + w]
  <2>1. cw.delegations_reward + w \in Nat /\ cw.delegations_slash + w \in Nat
    BY <1>1 DEF Weights
  <2>2. x = [v EXCEPT !.delegations_slash = cw.delegations_slash + w]
    BY <1>1 DEF Weights
  <2>3. v \in Weights /\ v.delegations_reward = cw.delegations_reward + w
    BY <1>1, <2>1 DEF Weights
  <2> HIDE DEF x, v
  <2> QED BY <2>1, <2>2, <2>3 DEF Weights
<1>3. b \in MemoryBuffers(Weights) /\ b.current.value = x
  <2>1. cm.weights \in MemoryBuffers(Weights) /\ epoch \in Nat
    BY CommitmentType, EpochType
  <2> HIDE DEF x
  <2>2. b \in MemoryBuffers(Weights) /\ b.current = [at |-> epoch, value |-> x]
    BY <1>2, <2>1, RememberType
  <2> QED BY <2>2
<1>4. t = [stake |-> cm.stake,
           delegations_total_amount |-> cm.delegations_total_amount + n,
           delegations_total_rewardable_amount |-> cm.delegations_total_rewardable_amount + n,
           weights |-> b, pool_rewards |-> cm.pool_rewards,
           last_scoring_epoch |-> cm.last_scoring_epoch,
           last_slashing_epoch |-> cm.last_slashing_epoch]
  <2> HIDE DEF x
  <2>1. t = [cm EXCEPT !.delegations_total_amount = @ + n,
                       !.delegations_total_rewardable_amount = @ + n, !.weights = b]
    BY DEF PoolMore, x
  <2> HIDE DEF t, b
  <2> QED BY <2>1 DEF Commitments
<1> HIDE DEF b, x
<1>5. t \in Commitments
  BY <1>3, <1>4, CommitmentType, MakeCommitment
<1> QED BY <1>2, <1>3, <1>4, <1>5 DEF CurrentWeights

LEMMA NewStakeType ==
    ASSUME block \in Nat, NEW n, NEW p, n \in Nat, p \in Nat
    PROVE  LET st == NewStake(n, p)
           IN  /\ st \in Stakes /\ st.amount = n /\ st.rewardable_amount = n /\ st.created = block
               /\ st.cooldown_period = p /\ st.cooldown_started = None
               /\ st.accrued_reward = 0 /\ st.accrued_slash = 0
BY DEF NewStake, Stakes

LEMMA NewDelegationType ==
    ASSUME Clock, NEW cm, cm \in Commitments, NEW n, NEW p, n \in Nat, p \in Nat, p >= 1,
           Joinable(cm, p), NEW A, CommitmentTimed(cm, A, block),
           NEW new, new.stake = cm.stake, new.pool_rewards = cm.pool_rewards
    PROVE  LET d == NewDelegation(cm, n, p)
           IN  /\ d \in Delegations /\ DelegationHolds(d, new, A, block) /\ Fresh(new, d)
               /\ d.stake.amount = n /\ d.stake.created = block
               /\ d.reward_weight = Weight(n, p) /\ d.slash_weight = Weight(n, p)
<1> DEFINE w == Weight(n, p)
           r == get_latest(cm.pool_rewards, block)
           st == NewStake(n, p)
           d == NewDelegation(cm, n, p)
           y == RewardDebt(w, r)
           z == PerWeight(w, r.slash_per_weight)
<1>1. block \in Nat /\ cm.stake # None /\ cm.stake \in Stakes
      /\ cm.pool_rewards \in MemoryBuffers(PoolReward)
  BY CommitmentType DEF Clock, Joinable
<1>2. cm.stake.created <= block /\ cm.pool_rewards.current.at = cm.stake.created
      /\ cm.stake.created \in Nat
  BY <1>1, StakeType DEF CommitmentTimed, StakeTimed
<1>3. r \in PoolReward
  <2>1. r = cm.pool_rewards.current.value
    BY <1>1, <1>2 DEF get_latest
  <2> HIDE DEF r
  <2> QED BY <1>1, <2>1, LatestType
<1>4. w \in Nat
  BY WeightType
<1>5. y \in Nat /\ z \in Nat
  <2>1. r.slash_per_weight \in Nat
    BY <1>3 DEF PoolReward
  <2> HIDE DEF r, w
  <2> QED BY <1>3, <1>4, <2>1, RewardDebtType, PerWeightType
<1>6. /\ st \in Stakes /\ st.amount = n /\ st.rewardable_amount = n /\ st.created = block
      /\ st.cooldown_period = p /\ st.cooldown_started = None
  BY <1>1, NewStakeType
<1>7. d = [stake |-> st, reward_weight |-> w, slash_weight |-> w, reward_debt |-> y,
           slash_debt |-> z]
  BY DEF NewDelegation
<1> HIDE DEF st, w, y, z, d
<1>8. /\ d \in Delegations /\ d.stake = st /\ d.reward_weight = w /\ d.slash_weight = w
      /\ d.slash_debt = z
  BY <1>4, <1>5, <1>6, <1>7 DEF Delegations
<1>9. Fresh(new, d)
  BY <1>1, <1>2, <1>6, <1>8 DEF Fresh
<1>10. StakeHolds(d.stake, block)
  BY <1>1, <1>6, <1>8 DEF StakeHolds, Rewardable
<1>11. DebtBounded(d, get_latest(new.pool_rewards, d.stake.created))
  BY <1>5, <1>6, <1>8 DEF DebtBounded, z
<1>12. Weighed(d)
  BY <1>6, <1>8 DEF Weighed, w
<1>13. Joined(d.stake, new.stake)
  BY <1>6, <1>8 DEF Joined, Joinable
<1>14. DelegationHolds(d, new, A, block)
  BY <1>9, <1>10, <1>11, <1>12, <1>13 DEF DelegationHolds
<1> QED BY <1>6, <1>8, <1>9, <1>14 DEF d, w

\* Checks only decide about success.
LEMMA SameHolds ==
    ASSUME NEW A, NEW n, NEW s, NEW t, StoreInv(s, A, n), Typed(t),
           t.commitments = s.commitments, t.delegations = s.delegations,
           t.delegator_total = s.delegator_total, t.locks = s.locks,
           t.total_stake = s.total_stake, t.overslashed = s.overslashed,
           \A a \in Accounts : a # Distribution => t.ledger.free[a] >= s.ledger.free[a]
    PROVE  StoreInv(t, A, n)
<1>1. SumsInv(t)
  <2>1. AmountsOf(t) = AmountsOf(s)
    BY DEF AmountsOf
  <2>2. \A c \in Committers : OwnStake(t, c) = OwnStake(s, c)
    BY DEF OwnStake, Staked
  <2> QED BY <2>1, <2>2, SumsStay DEF StoreInv
<1>2. WeightsInv(t)
  BY DEF StoreInv, WeightsInv, PoolWeighs, Staked, FreshKeys, RewardWeights, SlashWeights
<1>3. CommitmentsInv(t, A, n) /\ DelegationsInv(t, A, n)
  BY DEF StoreInv, CommitmentsInv, DelegationsInv
<1> QED BY <1>1, <1>2, <1>3 DEF StoreInv

LEMMA EnsureHolds ==
    ASSUME NEW A, NEW n, NEW s, NEW x, StoreInv(s, A, n)
    PROVE  LET t == Ensure(s, x)
           IN  /\ StoreInv(t, A, n)
               /\ t.commitments = s.commitments /\ t.delegations = s.delegations
               /\ t.overslashed = s.overslashed /\ t.reward = s.reward /\ t.ledger = s.ledger
               /\ t.ok = (s.ok /\ x)
<1> DEFINE t == Ensure(s, x)
           b == s.ok /\ x
<1>1. Typed(s)
  BY DEF StoreInv
<1>2. t = [s EXCEPT !.ok = b]
  BY DEF Ensure
<1>3. b \in BOOLEAN
  OBVIOUS
<1> HIDE DEF b
<1>4. t = Rec(s.commitments, s.delegations, s.delegator_total, s.total_stake, s.locks,
              s.ledger, s.unrecorded, s.overslashed, s.reward, b)
  BY <1>1, <1>2 DEF Typed, Rec
<1> HIDE DEF t
<1>5. Typed(t)
  BY <1>1, <1>3, <1>4, TypedFields, RecTyped
<1>6. /\ t.commitments = s.commitments /\ t.delegations = s.delegations
      /\ t.delegator_total = s.delegator_total /\ t.locks = s.locks
      /\ t.total_stake = s.total_stake /\ t.overslashed = s.overslashed /\ t.ledger = s.ledger
      /\ t.reward = s.reward /\ t.ok = b
  BY <1>4, RecFields
<1>7. \A a \in Accounts : t.ledger.free[a] >= s.ledger.free[a]
  BY <1>1, <1>6, TypedFields
<1>8. StoreInv(t, A, n)
  BY <1>5, <1>6, <1>7, SameHolds
<1> QED BY <1>6, <1>8 DEF t, b

LEMMA OverstakedHolds ==
    ASSUME NEW A, NEW n, NEW s, NEW c, StoreInv(s, A, n)
    PROVE  LET t == NotOverstaked(s, c)
           IN  /\ StoreInv(t, A, n)
               /\ t.commitments = s.commitments /\ t.delegations = s.delegations
               /\ t.overslashed = s.overslashed
<1> DEFINE x == ~is_commitment_overstaked(s, c)
<1>1. NotOverstaked(s, c) = Ensure(s, x)
  BY DEF NotOverstaked
<1> HIDE DEF x
<1> QED BY <1>1, EnsureHolds

LEMMA LimitsHold ==
    ASSUME NEW A, NEW n, NEW s, NEW c, StoreInv(s, A, n)
    PROVE  LET t == WithinLimits(s, c)
           IN  /\ StoreInv(t, A, n)
               /\ t.commitments = s.commitments /\ t.delegations = s.delegations
               /\ t.overslashed = s.overslashed
<1> DEFINE x == WithinDelegationRatio(CurrentWeights(s.commitments[c]))
           u == Ensure(s, x)
<1>1. WithinLimits(s, c) = NotOverstaked(u, c)
  BY DEF WithinLimits
<1>2. /\ StoreInv(u, A, n) /\ u.commitments = s.commitments
      /\ u.delegations = s.delegations /\ u.overslashed = s.overslashed
  <2> HIDE DEF x
  <2> QED BY EnsureHolds
<1> HIDE DEF u
<1> QED BY <1>1, <1>2, OverstakedHolds

LEMMA LimitsChained ==
    ASSUME NEW s, NEW c, "ok" \in DOMAIN s
    PROVE  (WithinLimits(s, c).ok => s.ok) /\ (NotOverstaked(s, c).ok => s.ok)
<1>1. ASSUME NEW t, NEW x, "ok" \in DOMAIN t
      PROVE  "ok" \in DOMAIN Ensure(t, x) /\ (Ensure(t, x).ok => t.ok)
  BY <1>1 DEF Ensure
<1>2. ASSUME NEW t, "ok" \in DOMAIN t PROVE NotOverstaked(t, c).ok => t.ok
  BY <1>1, <1>2 DEF NotOverstaked
<1> DEFINE x == WithinDelegationRatio(CurrentWeights(s.commitments[c]))
           u == Ensure(s, x)
<1>3. WithinLimits(s, c) = NotOverstaked(u, c)
  BY DEF WithinLimits
<1>4. "ok" \in DOMAIN u /\ (u.ok => s.ok)
  <2> HIDE DEF x
  <2> QED BY <1>1
<1> HIDE DEF u
<1> QED BY <1>2, <1>3, <1>4

\* What delegate_for makes before it checks the limits.
DelegateOk(s, k, n, p) ==
    /\ n >= MinDelegation
    /\ p \in MinCooldownPeriod .. MaxCooldownPeriod
    /\ k \notin DOMAIN s.delegations
    /\ Joinable(s.commitments[k[2]], p)

Delegating(s, k, n, p) ==
    LET cm == s.commitments[k[2]]
        lock == DelegationLock(s, k[1], k[2], n)
    IN  Rec([s.commitments EXCEPT ![k[2]] = PoolMore(cm, n, Weight(n, p))],
            More(s, k, NewDelegation(cm, n, p)),
            [s.delegator_total EXCEPT ![k[1]] = @ + n], s.total_stake + n,
            [s.locks EXCEPT ![k[1]] = lock], s.ledger, s.unrecorded, s.overslashed, s.reward,
            (s.ok /\ lock <= Balance(s, k[1])) /\ DelegateOk(s, k, n, p))

LEMMA DelegateFields ==
    ASSUME NEW s, Typed(s), NEW k, NEW n, NEW p
    PROVE  delegate_for(s, k, n, p) = WithinLimits(Delegating(s, k, n, p), k[2])
<1> DEFINE cm == s.commitments[k[2]]
           w == Weight(n, p)
           a == k[1]
           c == k[2]
           d == NewDelegation(cm, n, p)
           new == PoolMore(cm, n, w)
           lock == DelegationLock(s, a, c, n)
           ok == s.ok /\ lock <= Balance(s, a)
           b == DelegateOk(s, k, n, p)
           lk == [s.locks EXCEPT ![a] = lock]
           t == lock_funds(s, a, lock)
           ds == More(s, k, d)
           cs == [s.commitments EXCEPT ![c] = new]
           dt == [s.delegator_total EXCEPT ![a] = @ + n]
           total == s.total_stake + n
           e == [t EXCEPT
                !.ok = /\ @
                       /\ n >= MinDelegation
                       /\ p \in MinCooldownPeriod .. MaxCooldownPeriod
                       /\ k \notin DOMAIN s.delegations
                       /\ Joinable(cm, p),
                !.delegations = [l \in DOMAIN @ \cup {k} |-> IF l = k THEN d ELSE @[l]],
                !.commitments[c] = new,
                !.total_stake = @ + n,
                !.delegator_total[a] = @ + n]
<1>1. delegate_for(s, k, n, p) = WithinLimits(e, c)
  BY DEF delegate_for, NewDelegation, PoolMore
<1>2. t = Rec(s.commitments, s.delegations, s.delegator_total, s.total_stake, lk, s.ledger,
              s.unrecorded, s.overslashed, s.reward, ok)
  BY LockFields
<1> DEFINE f == [t EXCEPT !.ok = @ /\ b, !.delegations = ds, !.commitments[c] = new,
                          !.total_stake = @ + n, !.delegator_total[a] = @ + n]
<1>3. e = f
  <2>1. t.delegations = s.delegations /\ t.ok = ok
    <3> HIDE DEF lk, ok, t
    <3> QED BY <1>2, RecFields
  <2>2. [l \in DOMAIN t.delegations \cup {k} |-> IF l = k THEN d ELSE t.delegations[l]] = ds
    BY <2>1 DEF More
  <2>3. (/\ t.ok
         /\ n >= MinDelegation
         /\ p \in MinCooldownPeriod .. MaxCooldownPeriod
         /\ k \notin DOMAIN s.delegations
         /\ Joinable(cm, p)) = (t.ok /\ b)
    BY DEF DelegateOk
  <2> HIDE DEF t, ds, b, d, new
  <2> QED BY <2>2, <2>3
<1> HIDE DEF cm, w, a, c, d, new, lock, ok, b, lk, t, ds, e
<1> DEFINE x1 == [t EXCEPT !.ok = ok /\ b]
           x2 == [x1 EXCEPT !.delegations = ds]
           x3 == [x2 EXCEPT !.commitments = cs]
           x4 == [x3 EXCEPT !.total_stake = total]
           x5 == [x4 EXCEPT !.delegator_total = dt]
<1>4. f = x5
  <2>1. /\ t.ok = ok /\ t.commitments = s.commitments
        /\ t.total_stake = s.total_stake /\ t.delegator_total = s.delegator_total
    BY <1>2, RecFields
  <2> QED BY <1>2, <2>1 DEF Rec
<1> HIDE DEF cs, dt, total, f
<1>5. x1 = Rec(s.commitments, s.delegations, s.delegator_total, s.total_stake, lk, s.ledger,
               s.unrecorded, s.overslashed, s.reward, ok /\ b)
  BY <1>2 DEF Rec
<1> HIDE DEF x1
<1>6. x2 = Rec(s.commitments, ds, s.delegator_total, s.total_stake, lk, s.ledger,
               s.unrecorded, s.overslashed, s.reward, ok /\ b)
  BY <1>5 DEF Rec
<1> HIDE DEF x2
<1>7. x3 = Rec(cs, ds, s.delegator_total, s.total_stake, lk, s.ledger,
               s.unrecorded, s.overslashed, s.reward, ok /\ b)
  BY <1>6 DEF Rec
<1> HIDE DEF x3
<1>8. x4 = Rec(cs, ds, s.delegator_total, total, lk, s.ledger,
               s.unrecorded, s.overslashed, s.reward, ok /\ b)
  BY <1>7 DEF Rec
<1> HIDE DEF x4
<1>9. x5 = Rec(cs, ds, dt, total, lk, s.ledger,
               s.unrecorded, s.overslashed, s.reward, ok /\ b)
  BY <1>8 DEF Rec
<1> HIDE DEF x5
<1>10. x5 = Delegating(s, k, n, p)
  BY <1>9 DEF Delegating, cs, ds, dt, total, lk, lock, ok, b, new, d, cm, w, a, c
<1> QED BY <1>1, <1>3, <1>4, <1>10 DEF c

\* All of s, and delegation k as well.
WithKey(s, t, k) ==
    /\ t.commitments \in [Committers -> Commitments \cup {None}]
    /\ \A c \in Committers :
        /\ t.commitments[c] = None <=> s.commitments[c] = None
        /\ t.commitments[c] # None => t.commitments[c].stake = s.commitments[c].stake
    /\ DOMAIN t.delegations = DOMAIN s.delegations \cup {k}
    /\ t.overslashed = s.overslashed

LEMMA DelegatingHolds ==
    ASSUME Clock, NEW s, StoreInv(s, announced, block), NEW k, k \in Keys,
           s.commitments[k[2]] # None, NEW n, NEW p, n \in Nat, p \in Nat,
           DelegateOk(s, k, n, p), DelegationLock(s, k[1], k[2], n) <= Balance(s, k[1])
    PROVE  LET t == Delegating(s, k, n, p)
           IN  StoreInv(t, announced, block) /\ WithKey(s, t, k)
<1> DEFINE cm == s.commitments[k[2]]
           a == k[1]
           w == Weight(n, p)
           d == NewDelegation(cm, n, p)
           new == PoolMore(cm, n, w)
           lock == DelegationLock(s, a, k[2], n)
           cs == [s.commitments EXCEPT ![k[2]] = new]
           ds == More(s, k, d)
           dt == [s.delegator_total EXCEPT ![a] = @ + n]
           lk == [s.locks EXCEPT ![a] = lock]
           ok == (s.ok /\ lock <= Balance(s, a)) /\ DelegateOk(s, k, n, p)
           total == s.total_stake + n
           t == Delegating(s, k, n, p)
<1>1. /\ Typed(s) /\ SumsInv(s) /\ WeightsInv(s) /\ a \in Delegators /\ a \in Accounts
      /\ k[2] \in Committers /\ k = <<a, k[2]>> /\ block \in Nat
  BY Constants DEF StoreInv, Keys, Clock
<1>2. cm \in Commitments /\ CommitmentTimed(cm, announced[k[2]], block)
  BY <1>1, TypedFields DEF StoreInv, CommitmentsInv
<1>3. k \notin DOMAIN s.delegations /\ p >= 1 /\ Joinable(cm, p)
  BY Constants DEF DelegateOk
<1>4. w \in Nat
  BY WeightType
<1>5. /\ new \in Commitments /\ new.stake = cm.stake /\ new.pool_rewards = cm.pool_rewards
      /\ CurrentWeights(new).delegations_reward = CurrentWeights(cm).delegations_reward + w
      /\ CurrentWeights(new).delegations_slash = CurrentWeights(cm).delegations_slash + w
  <2> HIDE DEF w, cm
  <2> QED BY <1>1, <1>2, <1>4, PoolMoreType
<1>6. /\ d \in Delegations /\ DelegationHolds(d, new, announced[k[2]], block) /\ Fresh(new, d)
      /\ d.stake.amount = n /\ d.reward_weight = w /\ d.slash_weight = w
  <2> HIDE DEF new, cm
  <2> QED BY <1>2, <1>3, <1>5, NewDelegationType
<1>7. t = Rec(cs, ds, dt, total, lk, s.ledger, s.unrecorded, s.overslashed, s.reward, ok)
  BY DEF Delegating
<1>8. /\ s.delegator_total \in [Accounts -> Nat] /\ s.locks \in [Accounts -> Nat]
      /\ s.total_stake \in Nat /\ s.ok \in BOOLEAN /\ s.overslashed \in Nat
      /\ s.ledger \in Ledgers /\ (\A b \in Accounts : s.ledger.held[b] = 0)
      /\ \A b \in Accounts : s.ledger.free[b] \in Nat
  BY <1>1, TypedFields
<1>9. lock = s.locks[a] + n /\ lock <= s.ledger.free[a]
  <2>1. lock = Minus(s.delegator_total[a], 0) + OwnStake(s, a) + n
    BY <1>1, <1>3 DEF DelegationLock
  <2>2. s.locks[a] = OwnStake(s, a) + s.delegator_total[a] /\ OwnStake(s, a) \in Nat
    BY <1>1, OwnStakesType DEF SumsInv, AccountAddsUp
  <2>3. s.delegator_total[a] \in Nat
    BY <1>1, <1>8
  <2>4. Minus(s.delegator_total[a], 0) = s.delegator_total[a]
    BY <2>3 DEF Minus
  <2>5. lock <= s.ledger.free[a] + s.ledger.held[a]
    BY DEF Balance
  <2> HIDE DEF lock, a
  <2> QED BY <1>1, <1>8, <2>1, <2>2, <2>3, <2>4, <2>5
<1>10. /\ total \in Nat
       /\ dt \in [Accounts -> Nat] /\ lk \in [Accounts -> Nat]
       /\ \A b \in Accounts : dt[b] = s.delegator_total[b] + (IF b = a THEN n ELSE 0)
       /\ \A b \in Accounts : lk[b] = s.locks[b] + (IF b = a THEN n ELSE 0)
  <2> HIDE DEF a, lock
  <2> QED BY <1>1, <1>8, <1>9
<1>11. cs \in [Committers -> Commitments \cup {None}]
  <2> HIDE DEF new
  <2> QED BY <1>1, <1>5, TypedFields
<1>12. /\ DOMAIN ds \subseteq Keys
       /\ IsFiniteSet(DOMAIN ds) /\ ds \in [DOMAIN ds -> Delegations]
       /\ ds[k] = d
       /\ \A j \in DOMAIN s.delegations : ds[j] = s.delegations[j]
  <2>1. DOMAIN ds = DOMAIN s.delegations \cup {k}
    BY DEF More
  <2>2. IsFiniteSet(DOMAIN s.delegations) /\ DOMAIN s.delegations \subseteq Keys
    BY <1>1, TypedFields
  <2>3. IsFiniteSet(DOMAIN ds)
    BY <2>1, <2>2, FS_AddElement
  <2>4. \A j \in DOMAIN s.delegations : s.delegations[j] \in Delegations
    BY <1>1, TypedFields
  <2> HIDE DEF d
  <2> QED BY <1>3, <1>6, <2>1, <2>2, <2>3, <2>4 DEF More
<1>13. DOMAIN ds = DOMAIN s.delegations \cup {k}
  BY DEF More
<1>14. ok \in BOOLEAN
  OBVIOUS
<1> HIDE DEF cs, ds, dt, lk, ok, new, t, total, d, lock, w
<1>15. Typed(t)
  BY <1>1, <1>7, <1>8, <1>10, <1>11, <1>12, <1>14, TypedFields, RecTyped
<1>16. /\ t.commitments = cs /\ t.delegations = ds /\ t.delegator_total = dt
       /\ t.total_stake = total /\ t.locks = lk /\ t.ledger = s.ledger
       /\ t.overslashed = s.overslashed
  BY <1>7, RecFields
<1>17. /\ t.commitments[k[2]] = new /\ new # None
       /\ \A c \in Committers : c # k[2] => t.commitments[c] = s.commitments[c]
  BY <1>1, <1>5, <1>16, TypedFields, NoneIsNone DEF cs
<1>18. SumsInv(t)
  <2>1. AmountsMove(s, t, k[1], n)
    <3>1. DOMAIN t.delegations = DOMAIN s.delegations \cup {k}
      BY <1>13, <1>16
    <3>2. \A j \in DOMAIN s.delegations :
            t.delegations[j].stake.amount = s.delegations[j].stake.amount
      BY <1>12, <1>16
    <3>3. AmountsMove(s, t, k[1], t.delegations[k].stake.amount)
      BY <1>1, <1>3, <1>15, <3>1, <3>2, AmountJoins
    <3>4. t.delegations[k].stake.amount = n
      BY <1>6, <1>12, <1>16
    <3> QED BY <3>3, <3>4
  <2> HIDE DEF a
  <2>2. n \in Int
    OBVIOUS
  <2>3. \A b \in Accounts : OwnStake(t, b) = OwnStake(s, b)
    BY <1>5, <1>17 DEF OwnStake, Staked
  <2>4. \A b \in Accounts :
          /\ t.delegator_total[b] = s.delegator_total[b] + (IF b = a THEN n ELSE 0)
          /\ t.locks[b] = s.locks[b] + (IF b = a THEN n ELSE 0)
    BY <1>10, <1>16
  <2>5. \A b \in Accounts : t.locks[b] <= t.ledger.free[b] + t.overslashed
    <3> TAKE b \in Accounts
    <3>1. s.locks[b] <= s.ledger.free[b] + s.overslashed
      BY <1>1 DEF SumsInv, AccountAddsUp
    <3>2. t.ledger.free[b] = s.ledger.free[b] /\ t.overslashed = s.overslashed
      BY <1>16
    <3>3. t.locks[b] = s.locks[b] + (IF b = a THEN n ELSE 0)
      BY <2>4
    <3>4. s.locks[b] \in Nat /\ s.ledger.free[b] \in Nat
      BY <1>8
    <3> QED BY <1>8, <1>9, <3>1, <3>2, <3>3, <3>4
  <2>6. t.total_stake = s.total_stake + n /\ t.overslashed = s.overslashed
    BY <1>16 DEF total
  <2> QED BY <1>1, <1>15, <2>1, <2>2, <2>3, <2>4, <2>5, <2>6, SumsFollow DEF a
<1>19. WeightsInv(t)
  <2> SUFFICES ASSUME NEW c \in Committers, Staked(t, c) PROVE PoolWeighs(t, c)
    BY DEF WeightsInv
  <2>1. Staked(s, c)
    BY <1>5, <1>17 DEF Staked
  <2>2. PoolWeighs(s, c)
    BY <1>1, <2>1 DEF WeightsInv
  <2>3. t.commitments[c].stake = s.commitments[c].stake
    BY <1>5, <1>17
  <2>4. \A j : j \in DOMAIN t.delegations <=> j \in DOMAIN s.delegations \/ j = k
    BY <1>13, <1>16
  <2>5. \A j \in DOMAIN s.delegations : t.delegations[j] = s.delegations[j]
    BY <1>12, <1>16
  <2>6. t.delegations[k] = d
    BY <1>12, <1>16
  <2>7. k \notin FreshKeys(s, c) /\ FreshKeys(s, c) \subseteq DOMAIN s.delegations
    BY <1>3 DEF FreshKeys
  <2>8. CASE c = k[2]
    <3>1. FreshKeys(t, c) = FreshKeys(s, c) \cup {k}
      <4>1. Fresh(t.commitments[c], d)
        BY <1>6, <1>17, <2>8
      <4> QED BY <2>3, <2>4, <2>5, <2>6, <2>8, <4>1 DEF FreshKeys, Fresh
    <3>2. WeightsMove(s, t, c, t.delegations[k].reward_weight, t.delegations[k].slash_weight)
      BY <1>1, <1>15, <2>5, <2>7, <3>1, PoolJoined
    <3>3. WeightsMove(s, t, c, w, w)
      BY <1>6, <2>6, <3>2
    <3>4. w \in Int
      BY <1>4
    <3>5. /\ CurrentWeights(t.commitments[c]).delegations_reward
               = CurrentWeights(s.commitments[c]).delegations_reward + w
          /\ CurrentWeights(t.commitments[c]).delegations_slash
               = CurrentWeights(s.commitments[c]).delegations_slash + w
      BY <1>5, <1>17, <2>8
    <3> QED BY <1>1, <1>15, <2>2, <3>3, <3>4, <3>5, PoolFollows
  <2>9. CASE c # k[2]
    <3>1. FreshKeys(t, c) = FreshKeys(s, c)
      BY <2>3, <2>4, <2>5, <2>9 DEF FreshKeys, Fresh
    <3>2. \A j \in FreshKeys(s, c) : t.delegations[j] = s.delegations[j]
      BY <2>5, <2>7
    <3>3. WeightsMove(s, t, c, 0, 0)
      BY <1>1, <1>15, <3>1, <3>2, PoolStays
    <3>4. t.commitments[c] = s.commitments[c]
      BY <1>17, <2>9
    <3>5. /\ SumOver(RewardWeights(s), FreshKeys(s, c)) \in Nat
          /\ SumOver(SlashWeights(s), FreshKeys(s, c)) \in Nat
      BY <1>1, PoolType
    <3> QED BY <2>2, <3>3, <3>4, <3>5 DEF PoolWeighs, WeightsMove
  <2> QED BY <2>8, <2>9
<1>20. CommitmentsInv(t, announced, block)
  <2>1. CommitmentTimed(new, announced[k[2]], block)
    BY <1>2, <1>5 DEF CommitmentTimed
  <2> QED BY <1>17, <2>1 DEF StoreInv, CommitmentsInv
<1>21. DelegationsInv(t, announced, block)
  <2> SUFFICES ASSUME NEW j \in DOMAIN t.delegations
               PROVE  /\ t.commitments[j[2]] # None
                      /\ DelegationHolds(t.delegations[j], t.commitments[j[2]], announced[j[2]], block)
    BY DEF DelegationsInv
  <2>1. CASE j = k
    BY <1>6, <1>12, <1>16, <1>17, <2>1
  <2>2. CASE j # k
    <3>1. j \in DOMAIN s.delegations
      BY <1>13, <1>16, <2>2
    <3>2. t.delegations[j] = s.delegations[j]
      BY <1>12, <1>16, <3>1
    <3>3. /\ s.commitments[j[2]] # None /\ j[2] \in Committers
          /\ DelegationHolds(s.delegations[j], s.commitments[j[2]], announced[j[2]], block)
      BY <1>1, <3>1, StoreFacts DEF StoreInv, DelegationsInv
    <3>4. CASE j[2] # k[2]
      BY <1>17, <3>2, <3>3, <3>4
    <3>5. CASE j[2] = k[2]
      <4>1. DelegationHolds(s.delegations[j], new, announced[k[2]], block)
        BY <1>5, <3>3, <3>5 DEF DelegationHolds, Fresh
      <4> QED BY <1>17, <3>2, <3>5, <4>1
    <3> QED BY <3>4, <3>5
  <2> QED BY <2>1, <2>2
<1>22. StoreInv(t, announced, block)
  BY <1>15, <1>18, <1>19, <1>20, <1>21 DEF StoreInv
<1>23. WithKey(s, t, k)
  <2>1. \A c \in Committers :
          /\ t.commitments[c] = None <=> s.commitments[c] = None
          /\ t.commitments[c] # None => t.commitments[c].stake = s.commitments[c].stake
    BY <1>5, <1>17
  <2> QED BY <1>11, <1>13, <1>16, <2>1 DEF WithKey
<1> QED BY <1>22, <1>23 DEF t

\* delegate_for.
LEMMA DelegateHolds ==
    ASSUME Clock, NEW s, StoreInv(s, announced, block), NEW k, k \in Keys,
           s.commitments[k[2]] # None, NEW n, NEW p, n \in Nat, p \in Nat,
           delegate_for(s, k, n, p).ok
    PROVE  LET t == delegate_for(s, k, n, p)
           IN  /\ StoreInv(t, announced, block) /\ WithKey(s, t, k) /\ s.ok
               /\ k \notin DOMAIN s.delegations
<1> DEFINE u == Delegating(s, k, n, p)
           t == WithinLimits(u, k[2])
<1>1. Typed(s)
  BY DEF StoreInv
<1>2. delegate_for(s, k, n, p) = t
  BY <1>1, DelegateFields
<1>3. "ok" \in DOMAIN u
  BY DEF Delegating, Rec
<1>4. u.ok => /\ s.ok /\ DelegateOk(s, k, n, p)
              /\ DelegationLock(s, k[1], k[2], n) <= Balance(s, k[1])
  BY DEF Delegating, Rec
<1> HIDE DEF u
<1>5. u.ok
  BY <1>2, <1>3, LimitsChained
<1>6. StoreInv(u, announced, block) /\ WithKey(s, u, k)
  BY <1>4, <1>5, DelegatingHolds DEF u
<1>7. /\ StoreInv(t, announced, block) /\ t.commitments = u.commitments
      /\ t.delegations = u.delegations /\ t.overslashed = u.overslashed
  BY <1>6, LimitsHold
<1> HIDE DEF t
<1>8. WithKey(s, t, k)
  BY <1>6, <1>7 DEF WithKey
<1>9. k \notin DOMAIN s.delegations
  BY <1>4, <1>5 DEF DelegateOk
<1> QED BY <1>2, <1>4, <1>5, <1>7, <1>8, <1>9

\* A delegation is ended and another begins, for the same or another commitment.
LEMMA DelegateChained ==
    ASSUME NEW s, "ok" \in DOMAIN s, NEW k, NEW n, NEW p, delegate_for(s, k, n, p).ok
    PROVE  s.ok
<1> DEFINE t == lock_funds(s, k[1], DelegationLock(s, k[1], k[2], n))
<1>1. "ok" \in DOMAIN t /\ (t.ok => s.ok)
  BY DEF lock_funds
<1> HIDE DEF t
<1>2. PICK e : /\ delegate_for(s, k, n, p) = WithinLimits(e, k[2])
               /\ "ok" \in DOMAIN e /\ (e.ok => t.ok)
  <2> DEFINE cm == s.commitments[k[2]]
             d == NewDelegation(cm, n, p)
             new == PoolMore(cm, n, Weight(n, p))
             ok == /\ t.ok
                   /\ n >= MinDelegation
                   /\ p \in MinCooldownPeriod .. MaxCooldownPeriod
                   /\ k \notin DOMAIN s.delegations
                   /\ Joinable(cm, p)
             ds == [l \in DOMAIN t.delegations \cup {k} |-> IF l = k THEN d ELSE t.delegations[l]]
             e == [t EXCEPT !.ok = ok, !.delegations = ds, !.commitments[k[2]] = new,
                            !.total_stake = @ + n, !.delegator_total[k[1]] = @ + n]
  <2>1. delegate_for(s, k, n, p) = WithinLimits(e, k[2])
    BY DEF delegate_for, NewDelegation, PoolMore, t
  <2>2. ok => t.ok
    OBVIOUS
  <2> HIDE DEF ok, ds, new
  <2>3. "ok" \in DOMAIN e /\ (e.ok => t.ok)
    BY <1>1, <2>2
  <2> HIDE DEF e
  <2> QED BY <2>1, <2>3
<1> QED BY <1>1, <1>2, LimitsChained

LEMMA MovedChained ==
    ASSUME Clock, NEW s, StoreInv(s, announced, block), NEW k, k \in DOMAIN s.delegations
    PROVE  "ok" \in DOMAIN Moved(s, k)
<1> DEFINE u == end_delegation_for(s, k)
<1>1. "ok" \in DOMAIN u /\ "reward" \in DOMAIN u
  BY EndHolds
<1>2. Moved(s, k) = Pay(u, k[1], u.reward)
  BY DEF Moved, PayAgain
<1> HIDE DEF u
<1> QED BY <1>1, <1>2, Chained

LEMMA MoveHolds ==
    ASSUME Clock, NEW s, StoreInv(s, announced, block), NEW k, k \in DOMAIN s.delegations,
           NEW j, j \in Keys, s.commitments[j[2]] # None, NEW n, NEW p, n \in Nat, p \in Nat,
           delegate_for(Moved(s, k), j, n, p).ok
    PROVE  LET t == delegate_for(Moved(s, k), j, n, p)
           IN  /\ StoreInv(t, announced, block) /\ s.ok
               /\ DOMAIN t.delegations = (DOMAIN s.delegations \ {k}) \cup {j}
               /\ \A c \in Committers : Staked(s, c) => Staked(t, c)
               /\ t.overslashed = s.overslashed
<1> DEFINE u == Moved(s, k)
           t == delegate_for(u, j, n, p)
<1>1. "ok" \in DOMAIN u
  BY MovedChained
<1>2. u.ok
  <2> HIDE DEF u
  <2> QED BY <1>1, DelegateChained DEF u
<1>3. StoreInv(u, announced, block) /\ Without(s, u, k) /\ s.ok
  BY <1>2, MovedHolds
<1> HIDE DEF u
<1>4. j[2] \in Committers
  BY DEF Keys
<1>5. u.commitments[j[2]] # None
  BY <1>3, <1>4 DEF Without
<1>6. t.ok
  BY DEF u
<1>7. StoreInv(t, announced, block) /\ WithKey(u, t, j)
  BY <1>3, <1>5, <1>6, DelegateHolds
<1> HIDE DEF t
<1>8. \A c \in Committers : Staked(s, c) => Staked(t, c)
  BY <1>3, <1>7 DEF Without, WithKey, Staked
<1>9. DOMAIN t.delegations = (DOMAIN s.delegations \ {k}) \cup {j} /\ t.overslashed = s.overslashed
  BY <1>3, <1>7 DEF Without, WithKey
<1> QED BY <1>3, <1>7, <1>8, <1>9 DEF t, u

\* delegate_more_for.
LEMMA DelegateMoreHolds ==
    ASSUME Clock, NEW s, StoreInv(s, announced, block), NEW k, k \in DOMAIN s.delegations,
           NEW n, NEW p, n \in Nat, p \in Nat, delegate_more_for(s, k, n, p).ok
    PROVE  LET t == delegate_more_for(s, k, n, p)
           IN  /\ StoreInv(t, announced, block) /\ s.ok
               /\ DOMAIN t.delegations = DOMAIN s.delegations
               /\ \A c \in Committers : Staked(s, c) => Staked(t, c)
               /\ t.overslashed = s.overslashed
<1> DEFINE d == s.delegations[k]
           x == /\ d.stake.cooldown_started = None
                /\ Fresh(s.commitments[k[2]], d)
                /\ p >= d.stake.cooldown_period
           u == Ensure(s, x)
           m == d.stake.amount + n
           t == delegate_for(Moved(u, k), k, m, p)
<1>1. delegate_more_for(s, k, n, p) = t
  BY DEF delegate_more_for
<1>2. /\ StoreInv(u, announced, block) /\ u.commitments = s.commitments
      /\ u.delegations = s.delegations /\ u.overslashed = s.overslashed /\ u.ok = (s.ok /\ x)
  <2> HIDE DEF x
  <2> QED BY EnsureHolds
<1>3. k \in Keys /\ s.commitments[k[2]] # None /\ m \in Nat
  BY DelegationFacts, StakeType, NoneIsNone
<1> HIDE DEF u, m, x
<1>4. t.ok
  BY <1>1
<1>5. /\ StoreInv(t, announced, block) /\ u.ok
      /\ DOMAIN t.delegations = (DOMAIN u.delegations \ {k}) \cup {k}
      /\ \A c \in Committers : Staked(u, c) => Staked(t, c)
      /\ t.overslashed = u.overslashed
  <2>1. k \in DOMAIN u.delegations /\ u.commitments[k[2]] # None
    BY <1>2, <1>3
  <2> QED BY <1>2, <1>3, <1>4, <2>1, MoveHolds
<1> HIDE DEF t
<1>6. \A c \in Committers : Staked(s, c) => Staked(t, c)
  BY <1>2, <1>5 DEF Staked
<1>7. DOMAIN t.delegations = DOMAIN s.delegations
  BY <1>2, <1>5
<1> QED BY <1>1, <1>2, <1>5, <1>6, <1>7

\* compound_delegation.
LEMMA CompoundDelegationHolds ==
    ASSUME Clock, NEW s, StoreInv(s, announced, block), NEW k, k \in DOMAIN s.delegations,
           delegate_reward(withdraw_delegation_for(s, k), k).ok
    PROVE  LET t == delegate_reward(withdraw_delegation_for(s, k), k)
           IN  /\ StoreInv(t, announced, block)
               /\ DOMAIN t.delegations = DOMAIN s.delegations
               /\ \A c \in Committers : Staked(s, c) => Staked(t, c)
               /\ t.overslashed = s.overslashed
<1> DEFINE w == withdraw_delegation_for(s, k)
           r == w.reward
           p == w.delegations[k].stake.cooldown_period
           t == delegate_more_for(w, k, r, p)
<1>1. delegate_reward(w, k) = t
  BY DEF delegate_reward
<1>2. w.ok => /\ StoreInv(w, announced, block) /\ Kept(s, w) /\ r \in Nat
  BY WithdrawForHolds
<1>3. w.ok
  <2>1. "ok" \in DOMAIN w /\ "reward" \in DOMAIN w
    <3>1. "ok" \in DOMAIN s /\ "reward" \in DOMAIN s
      BY TypedDomain DEF StoreInv
    <3> DEFINE u == accrue_delegator(s, k)
               x == BurnSlash(u, k)
    <3>2. "ok" \in DOMAIN u /\ "reward" \in DOMAIN u
      BY <3>1, Chained
    <3> HIDE DEF u
    <3>3. "ok" \in DOMAIN x /\ "reward" \in DOMAIN x
      BY <3>2, Chained
    <3> HIDE DEF x
    <3>4. "ok" \in DOMAIN withdraw_delegator_accrued(x, k)
          /\ "reward" \in DOMAIN withdraw_delegator_accrued(x, k)
      BY <3>3, Chained
    <3> QED BY <3>4 DEF withdraw_delegation_for, apply_delegator_slash, x, u
  <2> HIDE DEF w
  <2> DEFINE d == w.delegations[k]
             y == /\ d.stake.cooldown_started = None
                  /\ Fresh(w.commitments[k[2]], d)
                  /\ p >= d.stake.cooldown_period
             e == Ensure(w, y)
             m == d.stake.amount + r
  <2>2. t = delegate_for(Moved(e, k), k, m, p)
    BY DEF delegate_more_for
  <2> HIDE DEF y, m, p
  <2>3. "ok" \in DOMAIN e /\ "reward" \in DOMAIN e /\ (e.ok => w.ok)
    BY <2>1 DEF Ensure
  <2> HIDE DEF e
  <2> DEFINE u == accrue_delegator(e, k)
             x == BurnSlash(u, k)
             z == withdraw_delegator_accrued(x, k)
             f == TakeDelegation(z, k)
             g == Pay(f, k[1], f.reward)
  <2>4. Moved(e, k) = g
    BY DEF Moved, PayAgain, end_delegation_for, withdraw_delegation_for, apply_delegator_slash
  <2>5. "ok" \in DOMAIN u /\ "reward" \in DOMAIN u /\ (u.ok => e.ok)
    BY <2>3, Chained DEF accrue_delegator
  <2> HIDE DEF u
  <2>6. "ok" \in DOMAIN x /\ "reward" \in DOMAIN x /\ (x.ok => u.ok)
    BY <2>5, Chained DEF BurnSlash, decrease_delegator_stake, lock_funds
  <2> HIDE DEF x
  <2>7. "ok" \in DOMAIN z /\ "reward" \in DOMAIN z /\ (z.ok => x.ok)
    <3>1. "ok" \in DOMAIN z /\ "reward" \in DOMAIN z
      BY <2>6, Chained
    <3> DEFINE n == x.delegations[k].stake.accrued_reward
               q == Pay(x, k[1], n)
    <3>2. "ok" \in DOMAIN q /\ (q.ok => x.ok)
      BY <2>6, Chained
    <3>3. z = [q EXCEPT !.delegations[k].stake.accrued_reward = 0,
                        !.unrecorded[k[1]] = @ - n, !.reward = n]
      BY DEF withdraw_delegator_accrued
    <3> HIDE DEF q, z, n
    <3>4. z.ok = q.ok
      BY <3>2, <3>3
    <3> QED BY <3>1, <3>2, <3>4
  <2> HIDE DEF z
  <2>8. "ok" \in DOMAIN f /\ "reward" \in DOMAIN f /\ (f.ok => z.ok)
    BY <2>7, Chained
  <2> HIDE DEF f
  <2>9. "ok" \in DOMAIN g /\ (g.ok => f.ok)
    BY <2>8, Chained
  <2> HIDE DEF g
  <2>10. g.ok
    <3>1. delegate_for(g, k, m, p).ok
      BY <1>1, <2>2, <2>4 DEF w
    <3> QED BY <2>9, <3>1, DelegateChained
  <2> QED BY <2>3, <2>5, <2>6, <2>7, <2>8, <2>9, <2>10
<1> HIDE DEF w
<1>4. k \in DOMAIN w.delegations /\ w.overslashed = s.overslashed
      /\ DOMAIN w.delegations = DOMAIN s.delegations
  BY <1>2, <1>3 DEF Kept
<1>5. p \in Nat
  BY <1>2, <1>3, <1>4, DelegationFacts, StakeType
<1>6. t.ok
  BY <1>1 DEF w
<1> HIDE DEF p
<1>7. /\ StoreInv(t, announced, block)
      /\ DOMAIN t.delegations = DOMAIN w.delegations
      /\ \A c \in Committers : Staked(w, c) => Staked(t, c)
      /\ t.overslashed = w.overslashed
  BY <1>2, <1>3, <1>4, <1>5, <1>6, DelegateMoreHolds
<1>8. \A c \in Committers : Staked(s, c) => Staked(w, c)
  BY <1>2, <1>3 DEF Kept, Staked
<1> QED BY <1>1, <1>4, <1>7, <1>8 DEF w

-----------------------------------------------------------------------------
(***************************************************************************)
(* cooldown_delegation_for.                                                *)
(***************************************************************************)
\* A delegation whose cooldown began in block x, with y of it rewarded.
Cooled(d, x, y, v, p) ==
    [stake |-> [amount |-> d.stake.amount, rewardable_amount |-> y, created |-> d.stake.created,
                cooldown_period |-> d.stake.cooldown_period, cooldown_started |-> x,
                accrued_reward |-> d.stake.accrued_reward,
                accrued_slash |-> d.stake.accrued_slash],
     reward_weight |-> v, slash_weight |-> d.slash_weight, reward_debt |-> p,
     slash_debt |-> d.slash_debt]

Cooling(d, x, y, v, p) ==
    [d EXCEPT !.stake.cooldown_started = x, !.stake.rewardable_amount = y,
              !.reward_weight = v, !.reward_debt = p]

LEMMA CooledIs ==
    ASSUME NEW d, d \in Delegations, NEW x, NEW y, NEW v, NEW p
    PROVE  Cooling(d, x, y, v, p) = Cooled(d, x, y, v, p)
<1> DEFINE st == d.stake
           d1 == [d EXCEPT !.stake.cooldown_started = x]
           d2 == [d1 EXCEPT !.stake.rewardable_amount = y]
           d3 == [d2 EXCEPT !.reward_weight = v]
           st1 == [st EXCEPT !.cooldown_started = x]
           st2 == [st1 EXCEPT !.rewardable_amount = y]
<1>1. /\ d = [stake |-> st, reward_weight |-> d.reward_weight, slash_weight |-> d.slash_weight,
              reward_debt |-> d.reward_debt, slash_debt |-> d.slash_debt]
      /\ st = [amount |-> st.amount, rewardable_amount |-> st.rewardable_amount,
               created |-> st.created, cooldown_period |-> st.cooldown_period,
               cooldown_started |-> st.cooldown_started, accrued_reward |-> st.accrued_reward,
               accrued_slash |-> st.accrued_slash]
  BY DelegationType, StakeType
<1>2. Cooling(d, x, y, v, p) = [d3 EXCEPT !.reward_debt = p]
  BY DEF Cooling
<1>3. d1 = [stake |-> st1, reward_weight |-> d.reward_weight, slash_weight |-> d.slash_weight,
            reward_debt |-> d.reward_debt, slash_debt |-> d.slash_debt]
  BY <1>1
<1>4. st1 = [amount |-> st.amount, rewardable_amount |-> st.rewardable_amount,
             created |-> st.created, cooldown_period |-> st.cooldown_period,
             cooldown_started |-> x, accrued_reward |-> st.accrued_reward,
             accrued_slash |-> st.accrued_slash]
  <2> HIDE DEF st
  <2> QED BY <1>1
<1> HIDE DEF st1, d1
<1>5. d2 = [stake |-> st2, reward_weight |-> d.reward_weight, slash_weight |-> d.slash_weight,
            reward_debt |-> d.reward_debt, slash_debt |-> d.slash_debt]
  BY <1>3
<1>6. st2 = [amount |-> st.amount, rewardable_amount |-> y,
             created |-> st.created, cooldown_period |-> st.cooldown_period,
             cooldown_started |-> x, accrued_reward |-> st.accrued_reward,
             accrued_slash |-> st.accrued_slash]
  BY <1>4
<1> HIDE DEF st2, d2
<1>7. d3 = [stake |-> st2, reward_weight |-> v, slash_weight |-> d.slash_weight,
            reward_debt |-> d.reward_debt, slash_debt |-> d.slash_debt]
  BY <1>5
<1> HIDE DEF d3
<1>8. [d3 EXCEPT !.reward_debt = p]
        = [stake |-> st2, reward_weight |-> v, slash_weight |-> d.slash_weight,
           reward_debt |-> p, slash_debt |-> d.slash_debt]
  BY <1>7
<1> QED BY <1>2, <1>6, <1>8 DEF Cooled, d1, d2, d3

LEMMA CooledType ==
    ASSUME NEW d, d \in Delegations, NEW x, NEW y, NEW v, NEW p,
           x \in Nat \cup {None}, y \in Nat, v \in Nat, p \in Nat
    PROVE  Cooled(d, x, y, v, p) \in Delegations
<1>1. /\ d.stake \in Stakes /\ d.slash_weight \in Nat /\ d.slash_debt \in Nat
  BY DelegationType
<1>2. /\ d.stake.amount \in Nat /\ d.stake.created \in Nat /\ d.stake.cooldown_period \in Nat
      /\ d.stake.accrued_reward \in Nat /\ d.stake.accrued_slash \in Nat
  BY <1>1, StakeType
<1> QED BY <1>1, <1>2 DEF Cooled, Delegations, Stakes

LEMMA CooledFields ==
    ASSUME NEW d, NEW x, NEW y, NEW v, NEW p
    PROVE  LET e == Cooled(d, x, y, v, p)
           IN  /\ e.stake.amount = d.stake.amount /\ e.stake.rewardable_amount = y
               /\ e.stake.created = d.stake.created
               /\ e.stake.cooldown_period = d.stake.cooldown_period
               /\ e.stake.cooldown_started = x
               /\ e.reward_weight = v /\ e.slash_weight = d.slash_weight
               /\ e.slash_debt = d.slash_debt
BY DEF Cooled

CoolingFrom(cm) == IF cm.stake.cooldown_started = None THEN block ELSE cm.stake.cooldown_started

CoolingPart(d) == Part(CooldownRewardRatio, d.stake.amount)

CoolingWeight(d) == Weight(CoolingPart(d), d.stake.cooldown_period)

PoolCooled(cm, d) ==
    Shrink(cm, 0, d.stake.amount - CoolingPart(d), d.reward_weight - CoolingWeight(d), 0)

LEMMA StartFields ==
    ASSUME NEW s, Typed(s), NEW k, k \in DOMAIN s.delegations
    PROVE  LET d == s.delegations[k]
               cm == s.commitments[k[2]]
               e == Cooled(d, CoolingFrom(cm), CoolingPart(d), CoolingWeight(d),
                           RewardDebt(CoolingWeight(d), PoolRewards(s, k)))
           IN  StartCooldown(s, k)
                 = Rec([s.commitments EXCEPT ![k[2]] = PoolCooled(cm, d)],
                       [s.delegations EXCEPT ![k] = e], s.delegator_total, s.total_stake, s.locks,
                       s.ledger, s.unrecorded, s.overslashed, s.reward, s.ok)
<1> DEFINE d == s.delegations[k]
           cm == s.commitments[k[2]]
           x == CoolingFrom(cm)
           y == CoolingPart(d)
           v == CoolingWeight(d)
           p == RewardDebt(v, PoolRewards(s, k))
           e == Cooling(d, x, y, v, p)
           new == PoolCooled(cm, d)
           t1 == [s EXCEPT !.delegations[k] = e]
           t2 == [t1 EXCEPT !.commitments[k[2]] = new]
<1>1. StartCooldown(s, k) = t2
  BY DEF StartCooldown, CoolingFrom, CoolingPart, CoolingWeight, PoolCooled, Cooling
<1>2. d \in Delegations
  BY StoreFacts
<1>3. e = Cooled(d, x, y, v, p)
  <2> HIDE DEF d, x, y, v, p
  <2> QED BY <1>2, CooledIs
<1> HIDE DEF e, new
<1>4. t1 = Rec(s.commitments, [s.delegations EXCEPT ![k] = e], s.delegator_total, s.total_stake,
               s.locks, s.ledger, s.unrecorded, s.overslashed, s.reward, s.ok)
  <2>1. s = Rec(s.commitments, s.delegations, s.delegator_total, s.total_stake, s.locks,
                s.ledger, s.unrecorded, s.overslashed, s.reward, s.ok)
    BY TypedIsRec
  <2> QED BY <2>1 DEF Rec
<1> HIDE DEF t1
<1>5. t2 = Rec([s.commitments EXCEPT ![k[2]] = new], [s.delegations EXCEPT ![k] = e],
               s.delegator_total, s.total_stake, s.locks, s.ledger, s.unrecorded, s.overslashed,
               s.reward, s.ok)
  BY <1>4 DEF Rec
<1> HIDE DEF t2
<1> QED BY <1>1, <1>3, <1>5 DEF new

\* The cooldown of a delegation starts.
LEMMA StartHolds ==
    ASSUME Clock, NEW s, StoreInv(s, announced, block), NEW k, k \in DOMAIN s.delegations,
           Fresh(s.commitments[k[2]], s.delegations[k]),
           s.delegations[k].stake.cooldown_started = None
    PROVE  LET t == StartCooldown(s, k)
           IN  /\ StoreInv(t, announced, block) /\ t.ok = s.ok
               /\ DOMAIN t.delegations = DOMAIN s.delegations
               /\ \A c \in Committers : Staked(s, c) => Staked(t, c)
<1> DEFINE d == s.delegations[k]
           cm == s.commitments[k[2]]
           st == d.stake
           r == PoolRewards(s, k)
           x == CoolingFrom(cm)
           y == CoolingPart(d)
           w == CoolingWeight(d)
           p == RewardDebt(w, r)
           e == Cooled(d, x, y, w, p)
           new == PoolCooled(cm, d)
           v == w - d.reward_weight
           cs == [s.commitments EXCEPT ![k[2]] = new]
           ds == [s.delegations EXCEPT ![k] = e]
           t == StartCooldown(s, k)
<1>1. /\ cm \in Commitments /\ d \in Delegations /\ st \in Stakes /\ k[2] \in Committers
      /\ DelegationHolds(d, cm, announced[k[2]], block)
      /\ CommitmentTimed(cm, announced[k[2]], block)
      /\ r \in PoolReward \cup {None} /\ block \in Nat
      /\ Typed(s) /\ SumsInv(s) /\ WeightsInv(s)
  BY DelegationFacts DEF Clock, StoreInv
<1>2. /\ st.amount \in Nat /\ st.cooldown_period \in Nat /\ st.created \in Nat
      /\ d.reward_weight \in Nat /\ d.slash_weight \in Nat
      /\ cm.stake \in Stakes /\ cm.stake # None
  BY <1>1, DelegationType, StakeType, CommitmentType DEF Fresh
<1>3. y \in Nat /\ y <= st.amount
  BY <1>2, PartType, Constants DEF CoolingPart
<1>4. w \in Nat /\ w <= d.reward_weight
  <2>1. w = Weight(y, st.cooldown_period) /\ d.reward_weight = Weight(st.amount, st.cooldown_period)
    <3>1. Weighed(d) /\ st.rewardable_amount = st.amount
      BY <1>1 DEF DelegationHolds, StakeHolds, Rewardable
    <3> QED BY <3>1 DEF Weighed, CoolingWeight
  <2> DEFINE n == st.amount
             q == st.cooldown_period
  <2>2. n \in Nat /\ q \in Nat /\ y \in Nat /\ y <= n
    BY <1>2, <1>3
  <2>3. w = Weight(y, q) /\ d.reward_weight = Weight(n, q)
    BY <2>1
  <2> HIDE DEF y, n, q, w, d
  <2> QED BY <2>2, <2>3, WeightType, WeightMonotonic
<1>5. r \in PoolReward /\ r = get_latest(cm.pool_rewards, st.created)
  <2>1. cm.pool_rewards \in MemoryBuffers(PoolReward)
    BY <1>1, CommitmentType
  <2>2. st.created >= cm.pool_rewards.current.at
    BY <1>1, <1>2 DEF CommitmentTimed, Fresh
  <2>3. r = cm.pool_rewards.current.value
    BY <2>2 DEF PoolRewards, get_latest
  <2>4. r = get_latest(cm.pool_rewards, st.created)
    BY DEF PoolRewards
  <2> HIDE DEF cm, r
  <2> QED BY <2>1, <2>3, <2>4, LatestType
<1>6. p \in Nat
  <2> HIDE DEF r, w
  <2> QED BY <1>4, <1>5, RewardDebtType
<1>7. /\ x \in Nat /\ x # None /\ st.created <= x
      /\ StakeHolds(st, block) /\ Joined(st, cm.stake)
      /\ DebtBounded(d, r) /\ Weighed(d)
  <2>1. StakeHolds(st, block) /\ Joined(st, cm.stake) /\ DebtBounded(d, r) /\ Weighed(d)
    BY <1>1, <1>5 DEF DelegationHolds
  <2>2. cm.stake.cooldown_started \in Nat \cup {None}
    BY <1>2, StakeType
  <2>3. x \in Nat /\ st.created <= x
    BY <1>1, <2>1, <2>2 DEF CoolingFrom, Joined, StakeHolds
  <2> QED BY <2>1, <2>3, NoneIsNone
<1>8. /\ e \in Delegations
      /\ e.stake.amount = d.stake.amount /\ e.stake.rewardable_amount = y
      /\ e.stake.created = d.stake.created
      /\ e.stake.cooldown_period = d.stake.cooldown_period
      /\ e.stake.cooldown_started = x
      /\ e.reward_weight = w /\ e.slash_weight = d.slash_weight
      /\ e.slash_debt = d.slash_debt
  <2> HIDE DEF d, x, y, w, p
  <2> QED BY <1>1, <1>3, <1>4, <1>6, <1>7, CooledType, CooledFields
<1>9. CurrentWeights(cm) \in Weights /\ k \in FreshKeys(s, k[2]) /\ Staked(s, k[2])
  BY <1>1, <1>2, CommitmentType DEF FreshKeys, Staked
<1>10. /\ d.reward_weight <= CurrentWeights(cm).delegations_reward
       /\ CurrentWeights(cm).delegations_reward \in Nat
       /\ CurrentWeights(cm).delegations_slash \in Nat
  <2>1. PoolWeighs(s, k[2])
    BY <1>1, <1>9 DEF WeightsInv
  <2>2. CurrentWeights(cm).delegations_reward = SumOver(RewardWeights(s), FreshKeys(s, k[2]))
    BY <2>1 DEF PoolWeighs
  <2>3. d.reward_weight <= SumOver(RewardWeights(s), FreshKeys(s, k[2]))
    BY <1>1, <1>9, PoolType
  <2> QED BY <1>9, <2>2, <2>3 DEF Weights
<1>11. /\ new \in Commitments /\ new.stake = cm.stake /\ new.pool_rewards = cm.pool_rewards
       /\ CurrentWeights(new).delegations_reward = CurrentWeights(cm).delegations_reward + v
       /\ CurrentWeights(new).delegations_slash = CurrentWeights(cm).delegations_slash + 0
  <2> DEFINE m == st.amount - y
             u == d.reward_weight - w
             z == 0
  <2>1. m \in Nat /\ u \in Nat /\ z \in Nat
    BY <1>2, <1>3, <1>4
  <2>2. new = Shrink(cm, z, m, u, z)
    BY DEF PoolCooled
  <2> HIDE DEF m, u, new, cm, z
  <2>3. /\ new \in Commitments /\ new.stake = cm.stake /\ new.pool_rewards = cm.pool_rewards
        /\ CurrentWeights(new).delegations_reward = Minus(CurrentWeights(cm).delegations_reward, u)
        /\ CurrentWeights(new).delegations_slash = Minus(CurrentWeights(cm).delegations_slash, z)
    BY <1>1, <2>1, <2>2, ShrinkType
  <2>4. u = d.reward_weight - w /\ z = 0
    BY DEF u, z
  <2> HIDE DEF w, d
  <2>5. u <= CurrentWeights(cm).delegations_reward
    BY <1>2, <1>4, <1>10, <2>4
  <2>6. /\ Minus(CurrentWeights(cm).delegations_reward, u)
            = CurrentWeights(cm).delegations_reward - u
        /\ Minus(CurrentWeights(cm).delegations_slash, z) = CurrentWeights(cm).delegations_slash + 0
    BY <1>10, <2>1, <2>4, <2>5 DEF Minus
  <2> QED BY <1>2, <1>4, <1>10, <2>3, <2>4, <2>6
<1>12. t = Rec(cs, ds, s.delegator_total, s.total_stake, s.locks,
               s.ledger, s.unrecorded, s.overslashed, s.reward, s.ok)
  BY <1>1, StartFields
<1>13. cs \in [Committers -> Commitments \cup {None}] /\ ds \in [DOMAIN s.delegations -> Delegations]
       /\ DOMAIN ds = DOMAIN s.delegations
  <2> HIDE DEF e, new
  <2> QED BY <1>1, <1>8, <1>11, TypedFields
<1>14. DelegationHolds(e, new, announced[k[2]], block)
  <2> HIDE DEF e, new, d, x, y, w, r, cm
  <2>1. StakeHolds(e.stake, block)
    BY <1>7, <1>8 DEF StakeHolds, Rewardable, st, y, CoolingPart
  <2>2. DebtBounded(e, r)
    BY <1>7, <1>8 DEF DebtBounded
  <2>3. Fresh(new, e) /\ Joined(e.stake, new.stake)
    BY <1>2, <1>7, <1>8, <1>11 DEF Fresh, Joined, cm, d, st
  <2>4. Weighed(e)
    BY <1>7, <1>8 DEF Weighed, st, w, y, CoolingWeight
  <2> QED BY <1>5, <1>8, <1>11, <2>1, <2>2, <2>3, <2>4 DEF DelegationHolds, st
<1> HIDE DEF cs, ds, e, new, w, t
<1>15. Typed(t)
  BY <1>1, <1>12, <1>13, TypedFields, RecTyped
<1>16. /\ t.commitments = cs /\ t.delegations = ds /\ t.delegator_total = s.delegator_total
       /\ t.total_stake = s.total_stake /\ t.locks = s.locks /\ t.ledger = s.ledger
       /\ t.overslashed = s.overslashed /\ t.ok = s.ok
  BY <1>12, RecFields
<1>17. /\ t.commitments[k[2]] = new /\ new # None
       /\ \A c \in Committers : c # k[2] => t.commitments[c] = s.commitments[c]
       /\ t.delegations[k] = e
       /\ \A j \in DOMAIN s.delegations : j # k => t.delegations[j] = s.delegations[j]
  BY <1>1, <1>11, <1>16, TypedFields, NoneIsNone DEF cs, ds
<1>18. SumsInv(t)
  <2>1. AmountsOf(t) = AmountsOf(s)
    <3>1. DOMAIN t.delegations = DOMAIN s.delegations
      BY <1>13, <1>16
    <3>2. \A j \in DOMAIN s.delegations :
            t.delegations[j].stake.amount = s.delegations[j].stake.amount
      BY <1>8, <1>17
    <3> QED BY <3>1, <3>2 DEF AmountsOf
  <2>2. \A c \in Committers : OwnStake(t, c) = OwnStake(s, c)
    BY <1>1, <1>2, <1>11, <1>17, NoneIsNone DEF OwnStake, Staked
  <2>3. \A a \in Accounts : a # Distribution => t.ledger.free[a] >= s.ledger.free[a]
    <3>1. \A a \in Accounts : s.ledger.free[a] \in Nat
      BY <1>1, TypedFields
    <3> QED BY <1>16, <3>1
  <2> QED BY <1>1, <1>15, <1>16, <2>1, <2>2, <2>3, SumsStay
<1>19. Updated(s, t, k, e, new, v, 0)
  <2>1. v \in Int /\ 0 \in Int /\ e.reward_weight = d.reward_weight + v
        /\ e.slash_weight = d.slash_weight + 0
    BY <1>2, <1>4, <1>8
  <2>2. /\ t.commitments = [s.commitments EXCEPT ![k[2]] = new]
        /\ t.delegations = [s.delegations EXCEPT ![k] = e]
    BY <1>16 DEF cs, ds
  <2> QED BY <1>8, <1>11, <2>1, <2>2 DEF Updated
<1>20. StoreInv(t, announced, block)
  BY <1>14, <1>15, <1>18, <1>19, UpdateHolds
<1>21. \A c \in Committers : Staked(s, c) => Staked(t, c)
  BY <1>2, <1>11, <1>17 DEF Staked
<1> QED BY <1>13, <1>16, <1>20, <1>21 DEF t

-----------------------------------------------------------------------------
(***************************************************************************)
(* Committers: a commitment changes, and the delegations stay.             *)
(***************************************************************************)
\* What is known stays known in later blocks and after more cooldowns.
LEMMA LaterHolds ==
    ASSUME NEW A, NEW B, A \in [Committers -> SUBSET Nat], B \in [Committers -> SUBSET Nat],
           \A c \in Committers : A[c] \subseteq B[c],
           NEW m, NEW n, m \in Nat, n \in Nat, m <= n, NEW s, StoreInv(s, A, m)
    PROVE  StoreInv(s, B, n)
<1>1. ASSUME NEW c \in Committers, s.commitments[c] # None
      PROVE  CommitmentTimed(s.commitments[c], B[c], n)
  <2> DEFINE cm == s.commitments[c]
  <2>1. cm \in Commitments /\ CommitmentTimed(cm, A[c], m)
    BY <1>1, TypedFields DEF StoreInv, CommitmentsInv
  <2>2. cm.stake \in Stakes \cup {None} /\ cm.pool_rewards.current.at \in Nat
    BY <2>1, CommitmentType, LatestType
  <2>3. cm.stake # None => StakeTimed(cm.stake, B[c], n)
    <3> SUFFICES ASSUME cm.stake # None PROVE StakeTimed(cm.stake, B[c], n)
      OBVIOUS
    <3>1. cm.stake.created \in Nat /\ cm.stake.cooldown_started \in Nat \cup {None}
      BY <2>2, StakeType
    <3> QED BY <2>1, <3>1 DEF CommitmentTimed, StakeTimed
  <2> QED BY <2>1, <2>2, <2>3 DEF CommitmentTimed
<1>2. ASSUME NEW k \in DOMAIN s.delegations
      PROVE  /\ s.commitments[k[2]] # None
             /\ DelegationHolds(s.delegations[k], s.commitments[k[2]], B[k[2]], n)
  <2> DEFINE cm == s.commitments[k[2]]
             d == s.delegations[k]
  <2>1. cm # None /\ DelegationHolds(d, cm, A[k[2]], m) /\ k[2] \in Committers /\ d \in Delegations
    BY StoreFacts DEF StoreInv, DelegationsInv
  <2>2. d.stake \in Stakes /\ d.stake.created \in Nat /\ d.stake.cooldown_period \in Nat
    BY <2>1, DelegationType, StakeType
  <2>3. StakeHolds(d.stake, n)
    BY <2>1, <2>2 DEF DelegationHolds, StakeHolds
  <2>4. Outlived(d.stake, A[k[2]], m) => Outlived(d.stake, B[k[2]], n)
    BY <2>1, <2>2 DEF Outlived
  <2> QED BY <2>1, <2>3, <2>4 DEF DelegationHolds
<1> QED BY <1>1, <1>2 DEF StoreInv, CommitmentsInv, DelegationsInv

\* The commitment of c changes without its delegators' weights.
Recommitted(s, t, c, new) ==
    /\ new \in Commitments
    /\ s.commitments[c] \in Commitments
    /\ t.commitments = [s.commitments EXCEPT ![c] = new]
    /\ t.delegations = s.delegations
    /\ PoolEvolves(s.commitments[c], new, block)
    /\ CurrentWeights(new).delegations_reward = CurrentWeights(s.commitments[c]).delegations_reward
    /\ CurrentWeights(new).delegations_slash = CurrentWeights(s.commitments[c]).delegations_slash

LEMMA RecommitHolds ==
    ASSUME block \in Nat, NEW A, NEW s, NEW t, StoreInv(s, A, block), Typed(t), SumsInv(t),
           NEW c, c \in Committers, NEW new, Recommitted(s, t, c, new),
           CommitmentTimed(new, A[c], block)
    PROVE  StoreInv(t, A, block)
<1> DEFINE cm == s.commitments[c]
<1>1. /\ Typed(s) /\ WeightsInv(s) /\ cm # None /\ new # None
      /\ new \in Commitments /\ cm \in Commitments
      /\ t.delegations = s.delegations /\ PoolEvolves(cm, new, block)
      /\ CurrentWeights(new).delegations_reward = CurrentWeights(cm).delegations_reward
      /\ CurrentWeights(new).delegations_slash = CurrentWeights(cm).delegations_slash
  BY NoneIsNone DEF StoreInv, Recommitted
<1>2. t.commitments[c] = new /\ \A b \in Committers : b # c => t.commitments[b] = s.commitments[b]
  BY <1>1, TypedFields DEF Recommitted
<1>3. WeightsInv(t)
  <2>1. ASSUME NEW b \in Committers, Staked(t, b)
        PROVE  /\ Staked(s, b)
               /\ t.commitments[b].stake.created = s.commitments[b].stake.created
               /\ CurrentWeights(t.commitments[b]).delegations_reward
                    = CurrentWeights(s.commitments[b]).delegations_reward
               /\ CurrentWeights(t.commitments[b]).delegations_slash
                    = CurrentWeights(s.commitments[b]).delegations_slash
    <3>1. CASE b = c
      BY <1>1, <1>2, <2>1, <3>1 DEF PoolEvolves, Staked
    <3>2. CASE b # c
      BY <1>2, <2>1, <3>2 DEF Staked
    <3> QED BY <3>1, <3>2
  <2> QED BY <1>1, <2>1, WeightsStay
<1>4. CommitmentsInv(t, A, block)
  BY <1>2 DEF StoreInv, CommitmentsInv
<1>5. DelegationsInv(t, A, block)
  <2> SUFFICES ASSUME NEW k \in DOMAIN s.delegations
               PROVE  /\ t.commitments[k[2]] # None
                      /\ DelegationHolds(s.delegations[k], t.commitments[k[2]], A[k[2]], block)
    BY <1>1 DEF DelegationsInv
  <2>1. /\ s.commitments[k[2]] # None /\ k[2] \in Committers /\ s.delegations[k] \in Delegations
        /\ DelegationHolds(s.delegations[k], s.commitments[k[2]], A[k[2]], block)
    BY StoreFacts DEF StoreInv, DelegationsInv
  <2>2. CASE k[2] = c
    <3> DEFINE d == s.delegations[k]
    <3>1. d \in Delegations /\ DelegationHolds(d, cm, A[c], block)
      BY <2>1, <2>2
    <3> HIDE DEF d, cm
    <3>2. DelegationHolds(d, new, A[c], block)
      BY <1>1, <3>1, DelegationStays
    <3> QED BY <1>1, <1>2, <2>2, <3>2 DEF d
  <2>3. CASE k[2] # c
    BY <1>2, <2>1, <2>3
  <2> QED BY <2>2, <2>3
<1> QED BY <1>3, <1>4, <1>5 DEF StoreInv

\* A commitment with another stake, and a stake with other terms.
StakedAs(cm, st) ==
    [stake |-> st, delegations_total_amount |-> cm.delegations_total_amount,
     delegations_total_rewardable_amount |-> cm.delegations_total_rewardable_amount,
     weights |-> cm.weights, pool_rewards |-> cm.pool_rewards,
     last_scoring_epoch |-> cm.last_scoring_epoch,
     last_slashing_epoch |-> cm.last_slashing_epoch]

TermsAs(st, x, y, p, q, z) ==
    [amount |-> x, rewardable_amount |-> y, created |-> st.created, cooldown_period |-> p,
     cooldown_started |-> q, accrued_reward |-> z, accrued_slash |-> st.accrued_slash]

LEMMA TermsAsType ==
    ASSUME NEW st, NEW x, NEW y, NEW p, NEW q, NEW z, st \in Stakes, x \in Nat, y \in Nat,
           p \in Nat, q \in Nat \cup {None}, z \in Nat
    PROVE  LET u == TermsAs(st, x, y, p, q, z)
           IN  /\ u \in Stakes /\ u.amount = x /\ u.rewardable_amount = y
               /\ u.created = st.created /\ u.cooldown_period = p /\ u.cooldown_started = q
               /\ u.accrued_reward = z
<1>1. st.created \in Nat /\ st.accrued_slash \in Nat
  BY StakeType
<1> QED BY <1>1 DEF TermsAs, Stakes

LEMMA StakedAsType ==
    ASSUME NEW cm, cm \in Commitments, NEW st, st \in Stakes
    PROVE  LET u == StakedAs(cm, st)
           IN  /\ u \in Commitments /\ u.stake = st /\ u.stake # None
               /\ u.pool_rewards = cm.pool_rewards /\ u.weights = cm.weights
               /\ CurrentWeights(u) = CurrentWeights(cm)
<1>1. StakedAs(cm, st) \in Commitments
  BY CommitmentType, MakeCommitment DEF StakedAs
<1>2. st # None
  BY NoneIsNone
<1> QED BY <1>1, <1>2 DEF StakedAs, CurrentWeights

\* What a stake changed so must satisfy.
LEMMA TermsEvolve ==
    ASSUME block \in Nat, NEW cm, cm \in Commitments, cm.stake # None,
           NEW A, CommitmentTimed(cm, A, block), NEW new, new \in Commitments,
           NEW x, NEW y, NEW p, NEW q, NEW z, x \in Nat, y \in Nat, p \in Nat,
           q \in Nat \cup {None}, z \in Nat,
           new.stake = TermsAs(cm.stake, x, y, p, q, z), new.pool_rewards = cm.pool_rewards,
           cm.stake.cooldown_period <= p,
           q = cm.stake.cooldown_started \/ (cm.stake.cooldown_started = None /\ q = block /\ q \in A)
    PROVE  PoolEvolves(cm, new, block) /\ CommitmentTimed(new, A, block)
<1> DEFINE st == cm.stake
<1>1. st \in Stakes /\ cm.pool_rewards \in MemoryBuffers(PoolReward)
  BY CommitmentType
<1>2. st.created \in Nat /\ st.cooldown_period \in Nat
  BY <1>1, StakeType
<1>3. /\ new.stake \in Stakes /\ new.stake.created = st.created /\ new.stake.cooldown_period = p
      /\ new.stake.cooldown_started = q
  <2> HIDE DEF st
  <2> QED BY <1>1, TermsAsType DEF st
<1>4. new.stake # None
  BY <1>3, NoneIsNone
<1>5. cm.pool_rewards.current.value.slash_per_weight \in Nat
  <2>1. cm.pool_rewards.current.value \in PoolReward
    BY <1>1, LatestType
  <2> QED BY <2>1 DEF PoolReward
<1>6. PoolEvolves(cm, new, block)
  BY <1>2, <1>3, <1>4, <1>5 DEF PoolEvolves
<1>7. StakeTimed(st, A, block)
  BY DEF CommitmentTimed
<1>8. StakeTimed(new.stake, A, block)
  BY <1>2, <1>3, <1>7 DEF StakeTimed
<1>9. CommitmentTimed(new, A, block)
  BY <1>3, <1>4, <1>8 DEF CommitmentTimed
<1> QED BY <1>6, <1>9

\* The stake of a commitment with parts of its terms replaced.
LEMMA StakeReplaced ==
    ASSUME NEW st, st \in Stakes
    PROVE  /\ \A z : [st EXCEPT !.accrued_reward = z]
                = TermsAs(st, st.amount, st.rewardable_amount, st.cooldown_period,
                          st.cooldown_started, z)
           /\ \A x, y : [[st EXCEPT !.amount = x] EXCEPT !.rewardable_amount = y]
                = TermsAs(st, x, y, st.cooldown_period, st.cooldown_started, st.accrued_reward)
           /\ \A y, q : [[st EXCEPT !.cooldown_started = q] EXCEPT !.rewardable_amount = y]
                = TermsAs(st, st.amount, y, st.cooldown_period, q, st.accrued_reward)
<1> SUFFICES ASSUME NEW x, NEW y, NEW q, NEW z
    PROVE  /\ [st EXCEPT !.accrued_reward = z]
                = TermsAs(st, st.amount, st.rewardable_amount, st.cooldown_period,
                          st.cooldown_started, z)
           /\ [[st EXCEPT !.amount = x] EXCEPT !.rewardable_amount = y]
                = TermsAs(st, x, y, st.cooldown_period, st.cooldown_started, st.accrued_reward)
           /\ [[st EXCEPT !.cooldown_started = q] EXCEPT !.rewardable_amount = y]
                = TermsAs(st, st.amount, y, st.cooldown_period, q, st.accrued_reward)
  OBVIOUS
<1>1. st = [amount |-> st.amount, rewardable_amount |-> st.rewardable_amount,
            created |-> st.created, cooldown_period |-> st.cooldown_period,
            cooldown_started |-> st.cooldown_started, accrued_reward |-> st.accrued_reward,
            accrued_slash |-> st.accrued_slash]
  BY StakeType
<1>2. [st EXCEPT !.accrued_reward = z]
        = TermsAs(st, st.amount, st.rewardable_amount, st.cooldown_period, st.cooldown_started, z)
  BY <1>1 DEF TermsAs
<1> DEFINE u == [st EXCEPT !.amount = x]
           v == [st EXCEPT !.cooldown_started = q]
<1>3. u = [amount |-> x, rewardable_amount |-> st.rewardable_amount,
           created |-> st.created, cooldown_period |-> st.cooldown_period,
           cooldown_started |-> st.cooldown_started, accrued_reward |-> st.accrued_reward,
           accrued_slash |-> st.accrued_slash]
  BY <1>1
<1>4. v = [amount |-> st.amount, rewardable_amount |-> st.rewardable_amount,
           created |-> st.created, cooldown_period |-> st.cooldown_period,
           cooldown_started |-> q, accrued_reward |-> st.accrued_reward,
           accrued_slash |-> st.accrued_slash]
  BY <1>1
<1> HIDE DEF u, v
<1>6. [u EXCEPT !.rewardable_amount = y]
        = TermsAs(st, x, y, st.cooldown_period, st.cooldown_started, st.accrued_reward)
  BY <1>3 DEF TermsAs
<1>7. [v EXCEPT !.rewardable_amount = y]
        = TermsAs(st, st.amount, y, st.cooldown_period, q, st.accrued_reward)
  BY <1>4 DEF TermsAs
<1> QED BY <1>2, <1>6, <1>7 DEF u, v

Longer(st, x, p, y) ==
    [[[st EXCEPT !.amount = x] EXCEPT !.cooldown_period = p] EXCEPT !.rewardable_amount = y]

LEMMA StakeLonger ==
    ASSUME NEW st, st \in Stakes, NEW x, NEW p, NEW y
    PROVE  Longer(st, x, p, y) = TermsAs(st, x, y, p, st.cooldown_started, st.accrued_reward)
<1> DEFINE u == [st EXCEPT !.amount = x]
           w == [u EXCEPT !.cooldown_period = p]
<1>1. st = [amount |-> st.amount, rewardable_amount |-> st.rewardable_amount,
            created |-> st.created, cooldown_period |-> st.cooldown_period,
            cooldown_started |-> st.cooldown_started, accrued_reward |-> st.accrued_reward,
            accrued_slash |-> st.accrued_slash]
  BY StakeType
<1>2. u = [amount |-> x, rewardable_amount |-> st.rewardable_amount,
           created |-> st.created, cooldown_period |-> st.cooldown_period,
           cooldown_started |-> st.cooldown_started, accrued_reward |-> st.accrued_reward,
           accrued_slash |-> st.accrued_slash]
  BY <1>1
<1> HIDE DEF u
<1>3. w = [amount |-> x, rewardable_amount |-> st.rewardable_amount,
           created |-> st.created, cooldown_period |-> p,
           cooldown_started |-> st.cooldown_started, accrued_reward |-> st.accrued_reward,
           accrued_slash |-> st.accrued_slash]
  BY <1>2
<1> HIDE DEF w
<1>4. [w EXCEPT !.rewardable_amount = y]
        = TermsAs(st, x, y, p, st.cooldown_started, st.accrued_reward)
  BY <1>3 DEF TermsAs
<1> QED BY <1>4 DEF u, w, Longer

\* The commitment whose reward is paid, whose stake is changed, and whose
\* cooldown begins.
PaidCommitment(cm) == [cm EXCEPT !.stake.accrued_reward = 0]

Resized(cm, x, y) == [cm EXCEPT !.stake.amount = x, !.stake.rewardable_amount = y]

Extended(cm, x, p, y) ==
    [cm EXCEPT !.stake.amount = x, !.stake.cooldown_period = p, !.stake.rewardable_amount = y]

LEMMA CommitmentReplaced ==
    ASSUME NEW cm, cm \in Commitments, cm.stake # None, NEW x, NEW y, NEW p
    PROVE  LET st == cm.stake
           IN  /\ PaidCommitment(cm)
                    = StakedAs(cm, TermsAs(st, st.amount, st.rewardable_amount,
                                           st.cooldown_period, st.cooldown_started, 0))
               /\ Resized(cm, x, y)
                    = StakedAs(cm, TermsAs(st, x, y, st.cooldown_period, st.cooldown_started,
                                           st.accrued_reward))
               /\ Extended(cm, x, p, y)
                    = StakedAs(cm, TermsAs(st, x, y, p, st.cooldown_started, st.accrued_reward))
<1> DEFINE st == cm.stake
           s1 == [st EXCEPT !.accrued_reward = 0]
           s2 == [[st EXCEPT !.amount = x] EXCEPT !.rewardable_amount = y]
           s3 == Longer(st, x, p, y)
<1>1. st \in Stakes
  BY CommitmentType
<1>2. cm = StakedAs(cm, st)
  BY CommitmentType DEF StakedAs
<1>3. /\ PaidCommitment(cm) = [cm EXCEPT !.stake = s1]
      /\ Resized(cm, x, y) = [cm EXCEPT !.stake = s2]
      /\ Extended(cm, x, p, y) = [cm EXCEPT !.stake = s3]
  <2>1. PaidCommitment(cm) = [cm EXCEPT !.stake = s1]
    BY DEF PaidCommitment
  <2>2. Resized(cm, x, y) = [cm EXCEPT !.stake = s2]
    <3> DEFINE u == [st EXCEPT !.amount = x]
               c1 == [cm EXCEPT !.stake = u]
    <3>1. Resized(cm, x, y) = [c1 EXCEPT !.stake = [c1.stake EXCEPT !.rewardable_amount = y]]
      BY DEF Resized
    <3> HIDE DEF u
    <3>2. c1 = StakedAs(cm, u)
      BY <1>2 DEF StakedAs
    <3>3. c1.stake = u
      BY <3>2 DEF StakedAs
    <3> HIDE DEF c1
    <3>4. Resized(cm, x, y) = [c1 EXCEPT !.stake = s2]
      BY <3>1, <3>3 DEF u
    <3> HIDE DEF s2
    <3>5. [c1 EXCEPT !.stake = s2] = StakedAs(cm, s2)
      BY <3>2 DEF StakedAs
    <3>6. [cm EXCEPT !.stake = s2] = StakedAs(cm, s2)
      BY <1>2 DEF StakedAs
    <3> QED BY <3>4, <3>5, <3>6
  <2>3. Extended(cm, x, p, y) = [cm EXCEPT !.stake = s3]
    <3> DEFINE u == [st EXCEPT !.amount = x]
               v == [u EXCEPT !.cooldown_period = p]
               c1 == [cm EXCEPT !.stake = u]
               c2 == [c1 EXCEPT !.stake = [c1.stake EXCEPT !.cooldown_period = p]]
    <3>1. Extended(cm, x, p, y) = [c2 EXCEPT !.stake = [c2.stake EXCEPT !.rewardable_amount = y]]
      BY DEF Extended
    <3> HIDE DEF u
    <3>2. c1 = StakedAs(cm, u)
      BY <1>2 DEF StakedAs
    <3>3. c1.stake = u
      BY <3>2 DEF StakedAs
    <3> HIDE DEF c1
    <3>4. c2 = [c1 EXCEPT !.stake = v]
      BY <3>3
    <3> HIDE DEF v
    <3>5. c2 = StakedAs(cm, v)
      BY <3>2, <3>4 DEF StakedAs
    <3>6. c2.stake = v
      BY <3>5 DEF StakedAs
    <3> HIDE DEF c2
    <3>7. Extended(cm, x, p, y) = [c2 EXCEPT !.stake = s3]
      BY <3>1, <3>6 DEF u, v, Longer
    <3> HIDE DEF s3
    <3>8. [c2 EXCEPT !.stake = s3] = StakedAs(cm, s3)
      BY <3>5 DEF StakedAs
    <3>9. [cm EXCEPT !.stake = s3] = StakedAs(cm, s3)
      BY <1>2 DEF StakedAs
    <3> QED BY <3>7, <3>8, <3>9
  <2> QED BY <2>1, <2>2, <2>3
<1> HIDE DEF s1, s2, s3
<1>4. /\ [cm EXCEPT !.stake = s1] = StakedAs(cm, s1)
      /\ [cm EXCEPT !.stake = s2] = StakedAs(cm, s2)
      /\ [cm EXCEPT !.stake = s3] = StakedAs(cm, s3)
  BY <1>2 DEF StakedAs
<1>5. /\ s1 = TermsAs(st, st.amount, st.rewardable_amount, st.cooldown_period,
                      st.cooldown_started, 0)
      /\ s2 = TermsAs(st, x, y, st.cooldown_period, st.cooldown_started, st.accrued_reward)
      /\ s3 = TermsAs(st, x, y, p, st.cooldown_started, st.accrued_reward)
  <2> HIDE DEF st
  <2>1. s1 = TermsAs(st, st.amount, st.rewardable_amount, st.cooldown_period,
                     st.cooldown_started, 0)
    BY <1>1, StakeReplaced DEF s1
  <2>2. s2 = TermsAs(st, x, y, st.cooldown_period, st.cooldown_started, st.accrued_reward)
    BY <1>1, StakeReplaced DEF s2
  <2>3. s3 = TermsAs(st, x, y, p, st.cooldown_started, st.accrued_reward)
    BY <1>1, StakeLonger DEF s3
  <2> QED BY <2>1, <2>2, <2>3
<1> QED BY <1>3, <1>4, <1>5

\* withdraw_committer_for: the reward is paid.
LEMMA WithdrawCommitterOk ==
    ASSUME NEW s, Typed(s), NEW c
    PROVE  LET t == withdraw_committer_for(s, c)
           IN  /\ "ok" \in DOMAIN t
               /\ t.ok => /\ s.ok
                          /\ CanTransfer(s.ledger, Distribution, c,
                                         s.commitments[c].stake.accrued_reward)
<1> DEFINE r == s.commitments[c].stake.accrued_reward
           p == Pay(s, c, r)
           t == withdraw_committer_for(s, c)
<1>1. t.ok = p.ok /\ "ok" \in DOMAIN t
  <2>1. DOMAIN p = DOMAIN s
    BY DEF Pay
  <2>2. "ok" \in DOMAIN p /\ "commitments" \in DOMAIN p /\ "unrecorded" \in DOMAIN p
        /\ "reward" \in DOMAIN p
    BY <2>1 DEF Typed
  <2> HIDE DEF p
  <2>3. t = [p EXCEPT !.commitments[c].stake.accrued_reward = 0, !.unrecorded[c] = @ - r,
                      !.reward = r]
    BY DEF withdraw_committer_for, p
  <2> QED BY <2>2, <2>3
<1> HIDE DEF r
<1>2. p.ok => s.ok /\ CanTransfer(s.ledger, Distribution, c, r)
  BY PayOk
<1> QED BY <1>1, <1>2 DEF r

LEMMA WithdrawCommitterFields ==
    ASSUME NEW s, Typed(s), NEW c, c \in Committers, Staked(s, c),
           withdraw_committer_for(s, c).ok
    PROVE  LET cm == s.commitments[c]
               r == cm.stake.accrued_reward
               l == Transfer(s.ledger, Distribution, c, r)
           IN  /\ withdraw_committer_for(s, c)
                    = Rec([s.commitments EXCEPT ![c] = PaidCommitment(cm)], s.delegations,
                          s.delegator_total, s.total_stake, s.locks, l, s.unrecorded,
                          s.overslashed, r, s.ok)
               /\ l \in Ledgers /\ (\A b \in Accounts : l.held[b] = 0)
               /\ \A b \in Accounts : b # Distribution => l.free[b] >= s.ledger.free[b]
               /\ r \in Nat
<1> DEFINE cm == s.commitments[c]
           r == cm.stake.accrued_reward
           l == Transfer(s.ledger, Distribution, c, r)
           u == Credited(s.unrecorded, c, r)
           p == Pay(s, c, r)
           t == withdraw_committer_for(s, c)
<1>1. /\ c \in Accounts /\ c # Distribution /\ cm \in Commitments /\ r \in Nat
      /\ CanTransfer(s.ledger, Distribution, c, r)
  <2>1. cm \in Commitments /\ cm.stake \in Stakes
    BY TypedFields, CommitmentType DEF Staked
  <2> QED BY <2>1, Constants, StakeType, WithdrawCommitterOk
<1>2. /\ p = Rec(s.commitments, s.delegations, s.delegator_total, s.total_stake, s.locks,
                 l, u, s.overslashed, s.reward, s.ok)
      /\ l \in Ledgers /\ (\A b \in Accounts : l.held[b] = 0)
      /\ \A b \in Accounts : b # Distribution => l.free[b] >= s.ledger.free[b]
      /\ u \in [Accounts -> Nat] /\ [u EXCEPT ![c] = @ - r] = s.unrecorded
  <2> HIDE DEF r
  <2> QED BY <1>1, PayFields DEF r
<1>3. t = [p EXCEPT !.commitments[c] = PaidCommitment(@), !.unrecorded[c] = @ - r, !.reward = r]
  BY DEF withdraw_committer_for, PaidCommitment
<1> HIDE DEF t, p, l, u
<1>4. t = Rec([s.commitments EXCEPT ![c] = PaidCommitment(cm)], s.delegations,
              s.delegator_total, s.total_stake, s.locks, l, s.unrecorded, s.overslashed, r, s.ok)
  <2>1. p.commitments = s.commitments /\ p.unrecorded = u
    BY <1>2, RecFields
  <2>2. t = [p EXCEPT !.commitments = [s.commitments EXCEPT ![c] = PaidCommitment(cm)],
                      !.unrecorded = s.unrecorded, !.reward = r]
    BY <1>2, <1>3, <2>1
  <2> QED BY <1>2, <2>2 DEF Rec
<1> QED BY <1>1, <1>2, <1>4 DEF t, l

\* The terms of all stakes but for the reward of c, and all sums, stay.
PaidOut(s, t, c) ==
    /\ t.commitments = [s.commitments EXCEPT ![c] = PaidCommitment(s.commitments[c])]
    /\ t.delegations = s.delegations /\ t.delegator_total = s.delegator_total
    /\ t.total_stake = s.total_stake /\ t.locks = s.locks /\ t.overslashed = s.overslashed

LEMMA PaidTerms ==
    ASSUME NEW cm, cm \in Commitments, cm.stake # None
    PROVE  LET u == PaidCommitment(cm)
           IN  /\ u \in Commitments /\ u.stake \in Stakes /\ u.stake # None
               /\ u.stake.amount = cm.stake.amount
               /\ u.stake.created = cm.stake.created
               /\ u.stake.cooldown_period = cm.stake.cooldown_period
               /\ u.stake.cooldown_started = cm.stake.cooldown_started
               /\ u.pool_rewards = cm.pool_rewards
               /\ CurrentWeights(u) = CurrentWeights(cm)
<1> DEFINE st == cm.stake
           z == 0
           e == TermsAs(st, st.amount, st.rewardable_amount, st.cooldown_period,
                        st.cooldown_started, z)
           u == PaidCommitment(cm)
<1>1. /\ st \in Stakes /\ st.amount \in Nat /\ st.rewardable_amount \in Nat
      /\ st.cooldown_period \in Nat /\ st.cooldown_started \in Nat \cup {None} /\ z \in Nat
  BY CommitmentType, StakeType
<1>2. u = StakedAs(cm, e)
  BY CommitmentReplaced
<1>3. /\ e \in Stakes /\ e.amount = st.amount /\ e.created = st.created
      /\ e.cooldown_period = st.cooldown_period /\ e.cooldown_started = st.cooldown_started
  <2> HIDE DEF st, z
  <2> QED BY <1>1, TermsAsType
<1> HIDE DEF e, u
<1>4. /\ u \in Commitments /\ u.stake = e /\ u.stake # None
      /\ u.pool_rewards = cm.pool_rewards /\ CurrentWeights(u) = CurrentWeights(cm)
  BY <1>2, <1>3, StakedAsType
<1> QED BY <1>3, <1>4 DEF u

LEMMA WithdrawCommitterHolds ==
    ASSUME Clock, NEW s, StoreInv(s, announced, block), NEW c, c \in Committers, Staked(s, c),
           withdraw_committer_for(s, c).ok
    PROVE  LET t == withdraw_committer_for(s, c)
           IN  /\ StoreInv(t, announced, block) /\ s.ok /\ PaidOut(s, t, c)
               /\ t.reward \in Nat
<1> DEFINE cm == s.commitments[c]
           st == cm.stake
           r == st.accrued_reward
           l == Transfer(s.ledger, Distribution, c, r)
           t == withdraw_committer_for(s, c)
           new == PaidCommitment(cm)
           cs == [s.commitments EXCEPT ![c] = new]
<1>1. /\ Typed(s) /\ SumsInv(s) /\ cm \in Commitments /\ st # None
      /\ CommitmentTimed(cm, announced[c], block) /\ block \in Nat
  BY TypedFields, NoneIsNone DEF StoreInv, CommitmentsInv, Staked, Clock
<1>2. /\ t = Rec(cs, s.delegations, s.delegator_total, s.total_stake, s.locks, l,
                 s.unrecorded, s.overslashed, r, s.ok)
      /\ l \in Ledgers /\ (\A b \in Accounts : l.held[b] = 0)
      /\ \A b \in Accounts : b # Distribution => l.free[b] >= s.ledger.free[b]
      /\ r \in Nat
  BY <1>1, WithdrawCommitterFields
<1>3. /\ new \in Commitments /\ new.stake \in Stakes /\ new.stake # None
      /\ new.stake.amount = st.amount /\ new.pool_rewards = cm.pool_rewards
      /\ CurrentWeights(new) = CurrentWeights(cm)
  <2> HIDE DEF cm
  <2> QED BY <1>1, PaidTerms DEF cm
<1>4. PoolEvolves(cm, new, block) /\ CommitmentTimed(new, announced[c], block)
  <2> DEFINE z == 0
             x == st.amount
             y == st.rewardable_amount
             p == st.cooldown_period
             q == st.cooldown_started
             A == announced[c]
  <2>1. new = StakedAs(cm, TermsAs(st, x, y, p, q, z))
    BY <1>1, CommitmentReplaced
  <2>2. new.stake = TermsAs(st, x, y, p, q, z)
    BY <2>1 DEF StakedAs
  <2>3. x \in Nat /\ y \in Nat /\ p \in Nat /\ q \in Nat \cup {None} /\ z \in Nat /\ p <= p
    BY <1>1, CommitmentType, StakeType
  <2> HIDE DEF x, y, z, new, A
  <2>4. CommitmentTimed(cm, A, block)
    BY <1>1 DEF A
  <2>5. PoolEvolves(cm, new, block) /\ CommitmentTimed(new, A, block)
    <3>1. st.cooldown_period <= p /\ q = st.cooldown_started
      BY <2>3
    <3> HIDE DEF p, q
    <3> QED BY <1>1, <1>3, <2>2, <2>3, <2>4, <3>1, TermsEvolve
  <2> QED BY <2>5 DEF A
<1>5. cs \in [Committers -> Commitments \cup {None}]
  <2> HIDE DEF new
  <2> QED BY <1>1, <1>3, TypedFields
<1> HIDE DEF t, cs, l, new, r
<1>6. Typed(t)
  BY <1>1, <1>2, <1>5, TypedFields, RecTyped
<1>7. /\ t.commitments = cs /\ t.delegations = s.delegations
      /\ t.delegator_total = s.delegator_total /\ t.total_stake = s.total_stake
      /\ t.locks = s.locks /\ t.ledger = l /\ t.overslashed = s.overslashed
      /\ t.reward = r /\ t.ok = s.ok
  BY <1>2, RecFields
<1>8. SumsInv(t)
  <2>1. AmountsOf(t) = AmountsOf(s)
    BY <1>7 DEF AmountsOf
  <2>2. \A b \in Committers : OwnStake(t, b) = OwnStake(s, b)
    <3>1. t.commitments[c] = new /\ \A b \in Committers : b # c => t.commitments[b] = s.commitments[b]
      BY <1>1, <1>7, TypedFields DEF cs
    <3>2. new # None /\ cm # None
      BY <1>1, <1>3, NoneIsNone
    <3> QED BY <1>1, <1>3, <3>1, <3>2 DEF OwnStake, Staked
  <2> QED BY <1>1, <1>2, <1>6, <1>7, <2>1, <2>2, SumsStay
<1>9. Recommitted(s, t, c, new)
  BY <1>1, <1>3, <1>4, <1>7 DEF Recommitted, cs
<1>10. StoreInv(t, announced, block)
  BY <1>1, <1>4, <1>6, <1>8, <1>9, RecommitHolds
<1>11. s.ok
  BY <1>1, WithdrawCommitterOk DEF t
<1>12. PaidOut(s, t, c)
  BY <1>7 DEF PaidOut, cs, new
<1> QED BY <1>2, <1>7, <1>10, <1>11, <1>12 DEF t

\* The stake of c changes by m, with its lock and the totals; n is what a slash
\* takes beyond the stake.
ResizedBy(s, t, c, new, m, n) ==
    /\ Recommitted(s, t, c, new)
    /\ m \in Int /\ n \in Nat
    /\ new.stake # None /\ new.stake.amount = s.commitments[c].stake.amount + m
    /\ t.delegator_total = s.delegator_total
    /\ \A b \in Accounts : t.locks[b] = s.locks[b] + (IF b = c THEN m ELSE 0)
    /\ \A b \in Accounts : t.locks[b] <= t.ledger.free[b] + t.overslashed
    /\ t.total_stake = s.total_stake + m - n /\ t.overslashed = s.overslashed + n

LEMMA ResizeHolds ==
    ASSUME Clock, NEW s, StoreInv(s, announced, block), NEW c, c \in Committers, Staked(s, c),
           NEW t, Typed(t), NEW new, NEW m, NEW n, ResizedBy(s, t, c, new, m, n),
           CommitmentTimed(new, announced[c], block)
    PROVE  StoreInv(t, announced, block)
<1> USE DEF ResizedBy
<1> DEFINE cm == s.commitments[c]
<1>1. /\ Typed(s) /\ SumsInv(s) /\ cm \in Commitments /\ new \in Commitments
      /\ block \in Nat /\ cm # None /\ new # None
      /\ t.delegations = s.delegations
  BY NoneIsNone DEF StoreInv, Recommitted, Clock
<1>2. t.commitments[c] = new /\ \A b \in Committers : b # c => t.commitments[b] = s.commitments[b]
  BY <1>1, TypedFields DEF Recommitted
<1>3. \A b \in Accounts : OwnStake(t, b) = OwnStake(s, b) + (IF b = c THEN m ELSE 0)
  <2> TAKE b \in Accounts
  <2>1. OwnStake(s, b) \in Nat
    BY <1>1, OwnStakesType
  <2>2. CASE b = c
    <3>1. OwnStake(t, c) = new.stake.amount /\ OwnStake(s, c) = cm.stake.amount
      BY <1>1, <1>2 DEF OwnStake, Staked
    <3> QED BY <2>2, <3>1
  <2>3. CASE b # c
    <3>1. OwnStake(t, b) = OwnStake(s, b)
      BY <1>2, <2>3 DEF OwnStake, Staked
    <3> QED BY <2>1, <2>3, <3>1
  <2> QED BY <2>2, <2>3
<1>4. AmountsOf(t) = AmountsOf(s)
  BY <1>1 DEF AmountsOf
<1>5. SumsInv(t)
  BY <1>1, <1>3, <1>4, SumsFollowStake
<1> QED BY <1>1, <1>5, RecommitHolds

CanLock(l, a, n, ok) == ok /\ n <= l.free[a] + l.held[a]

LEMMA LockRec ==
    ASSUME NEW cs, NEW ds, NEW dt, NEW total, NEW lk, NEW l, NEW un, NEW os, NEW r, NEW ok,
           NEW a, NEW n
    PROVE  lock_funds(Rec(cs, ds, dt, total, lk, l, un, os, r, ok), a, n)
             = Rec(cs, ds, dt, total, [lk EXCEPT ![a] = n], l, un, os, r, CanLock(l, a, n, ok))
<1> DEFINE s == Rec(cs, ds, dt, total, lk, l, un, os, r, ok)
           s1 == [s EXCEPT !.ok = @ /\ n <= Balance(s, a)]
           x == ok /\ n <= l.free[a] + l.held[a]
<1>1. lock_funds(s, a, n) = [s1 EXCEPT !.locks[a] = n]
  BY DEF lock_funds
<1>2. s.ok = ok /\ Balance(s, a) = l.free[a] + l.held[a]
  BY DEF Rec, Balance
<1>3. s1 = [s EXCEPT !.ok = x]
  BY <1>2
<1> HIDE DEF s1, x
<1>4. s1 = Rec(cs, ds, dt, total, lk, l, un, os, r, x)
  BY <1>3 DEF Rec
<1>5. [s1 EXCEPT !.locks[a] = n]
        = Rec(cs, ds, dt, total, [lk EXCEPT ![a] = n], l, un, os, r, x)
  BY <1>4 DEF Rec
<1> QED BY <1>1, <1>5 DEF x, CanLock

\* stake_more_for: the new stake, and the store before the checks.
MoreRewardable(st, e) == IF e = 0 THEN st.rewardable_amount ELSE st.amount + e

Restaked(cm, e, p) ==
    Reweigh(Extended(cm, cm.stake.amount + e, p, MoreRewardable(cm.stake, e)))

CanRestake(s, c, p) ==
    /\ s.ok
    /\ s.commitments[c].stake.cooldown_started = None
    /\ p >= s.commitments[c].stake.cooldown_period

Restaking(s, c, e, p) ==
    Rec([s.commitments EXCEPT ![c] = Restaked(s.commitments[c], e, p)], s.delegations,
        s.delegator_total, s.total_stake + e, s.locks, s.ledger, s.unrecorded, s.overslashed,
        s.reward, CanRestake(s, c, p))

LEMMA StakeMoreFields ==
    ASSUME NEW s, Typed(s), NEW c, c \in Committers, Staked(s, c), NEW e, NEW p
    PROVE  stake_more_for(s, c, e, p)
             = IF e = 0 THEN Restaking(s, c, e, p)
               ELSE NotOverstaked(lock_funds(Restaking(s, c, e, p), c,
                        s.delegator_total[c] + (s.commitments[c].stake.amount + e)), c)
<1> DEFINE cm == s.commitments[c]
           st == cm.stake
           n == st.amount + e
           b1 == [cm EXCEPT !.stake.amount = n, !.stake.cooldown_period = p]
           x == [cm EXCEPT !.stake.amount = n, !.stake.cooldown_period = p,
                           !.stake.rewardable_amount = IF e = 0 THEN @ ELSE n]
           t == [s EXCEPT
                  !.ok = @ /\ cm.stake.cooldown_started = None
                           /\ p >= cm.stake.cooldown_period,
                  !.total_stake = @ + e,
                  !.commitments[c] = Reweigh(x)]
<1>1. stake_more_for(s, c, e, p)
        = IF e = 0 THEN t ELSE NotOverstaked(lock_funds(t, c, s.delegator_total[c] + n), c)
  BY DEF stake_more_for
<1>2. cm \in Commitments /\ st \in Stakes
  BY TypedFields, CommitmentType DEF Staked
<1>3. x = Extended(cm, n, p, MoreRewardable(st, e))
  <2>1. cm = StakedAs(cm, st)
    BY <1>2, CommitmentType DEF StakedAs
  <2>2. b1.stake.rewardable_amount = st.rewardable_amount
    <3> DEFINE u == [st EXCEPT !.amount = n]
               v == [u EXCEPT !.cooldown_period = p]
               c1 == [cm EXCEPT !.stake = u]
               c2 == [c1 EXCEPT !.stake = [c1.stake EXCEPT !.cooldown_period = p]]
    <3>1. b1 = c2
      OBVIOUS
    <3>2. u.rewardable_amount = st.rewardable_amount /\ v.rewardable_amount = st.rewardable_amount
      <4>1. st = [amount |-> st.amount, rewardable_amount |-> st.rewardable_amount,
                  created |-> st.created, cooldown_period |-> st.cooldown_period,
                  cooldown_started |-> st.cooldown_started,
                  accrued_reward |-> st.accrued_reward, accrued_slash |-> st.accrued_slash]
        BY <1>2, StakeType
      <4> HIDE DEF st, n
      <4> QED BY <4>1
    <3> HIDE DEF u
    <3>3. c1 = StakedAs(cm, u)
      BY <2>1 DEF StakedAs
    <3>4. c1.stake = u
      BY <3>3 DEF StakedAs
    <3> HIDE DEF c1
    <3>5. c2 = [c1 EXCEPT !.stake = v]
      BY <3>4
    <3> HIDE DEF v
    <3>6. c2 = StakedAs(cm, v)
      BY <3>3, <3>5 DEF StakedAs
    <3>7. c2.stake = v
      BY <3>6 DEF StakedAs
    <3> HIDE DEF c2, b1
    <3> QED BY <3>1, <3>2, <3>7 DEF c1, u
  <2>3. x = [b1 EXCEPT !.stake.rewardable_amount = MoreRewardable(st, e)]
    BY <2>2 DEF MoreRewardable
  <2> QED BY <2>3 DEF Extended
<1>4. Reweigh(x) = Restaked(cm, e, p)
  BY <1>3 DEF Restaked
<1> DEFINE new == Restaked(cm, e, p)
           ok == CanRestake(s, c, p)
           s1 == [s EXCEPT !.ok = ok]
           s2 == [s1 EXCEPT !.total_stake = @ + e]
<1>5. t = [s2 EXCEPT !.commitments[c] = new]
  BY <1>4 DEF CanRestake
<1>6. s = Rec(s.commitments, s.delegations, s.delegator_total, s.total_stake, s.locks,
              s.ledger, s.unrecorded, s.overslashed, s.reward, s.ok)
  BY TypedIsRec
<1> HIDE DEF new, ok, t
<1>7. s1 = Rec(s.commitments, s.delegations, s.delegator_total, s.total_stake, s.locks,
               s.ledger, s.unrecorded, s.overslashed, s.reward, ok)
  BY <1>6 DEF Rec
<1> HIDE DEF s1
<1>8. s2 = Rec(s.commitments, s.delegations, s.delegator_total, s.total_stake + e, s.locks,
               s.ledger, s.unrecorded, s.overslashed, s.reward, ok)
  BY <1>7 DEF Rec
<1> HIDE DEF s2
<1>9. t = Rec([s.commitments EXCEPT ![c] = new], s.delegations, s.delegator_total,
              s.total_stake + e, s.locks, s.ledger, s.unrecorded, s.overslashed, s.reward, ok)
  BY <1>5, <1>8 DEF Rec
<1>10. t = Restaking(s, c, e, p)
  BY <1>9 DEF Restaking, new, ok
<1> QED BY <1>1, <1>10

LEMMA RestakedType ==
    ASSUME block \in Nat, NEW cm, cm \in Commitments, cm.stake # None,
           NEW A, CommitmentTimed(cm, A, block), NEW e, NEW p, e \in Nat, p \in Nat,
           cm.stake.cooldown_period <= p
    PROVE  LET u == Restaked(cm, e, p)
           IN  /\ u \in Commitments /\ u.stake # None /\ u.stake.amount = cm.stake.amount + e
               /\ PoolEvolves(cm, u, block) /\ CommitmentTimed(u, A, block)
               /\ CurrentWeights(u).delegations_reward = CurrentWeights(cm).delegations_reward
               /\ CurrentWeights(u).delegations_slash = CurrentWeights(cm).delegations_slash
<1> DEFINE st == cm.stake
           x == st.amount + e
           y == MoreRewardable(st, e)
           q == st.cooldown_started
           z == st.accrued_reward
           new == TermsAs(st, x, y, p, q, z)
           ext == Extended(cm, x, p, y)
           u == Restaked(cm, e, p)
<1>1. st \in Stakes
  BY CommitmentType
<1>2. x \in Nat /\ y \in Nat /\ q \in Nat \cup {None} /\ z \in Nat
  BY <1>1, StakeType DEF MoreRewardable
<1>3. ext = StakedAs(cm, new)
  <2> HIDE DEF x, y
  <2> QED BY CommitmentReplaced
<1>4. new \in Stakes /\ new.amount = x
  <2> HIDE DEF st, x, y, q, z
  <2> QED BY <1>1, <1>2, TermsAsType
<1>5. u = Reweigh(ext)
  BY DEF Restaked
<1> HIDE DEF new, ext, u
<1>6. /\ ext \in Commitments /\ ext.stake = new /\ ext.stake # None
      /\ ext.pool_rewards = cm.pool_rewards /\ CurrentWeights(ext) = CurrentWeights(cm)
  BY <1>3, <1>4, StakedAsType
<1>7. /\ u \in Commitments /\ u.stake = ext.stake /\ u.pool_rewards = ext.pool_rewards
      /\ CurrentWeights(u).delegations_reward = CurrentWeights(ext).delegations_reward
      /\ CurrentWeights(u).delegations_slash = CurrentWeights(ext).delegations_slash
  BY <1>5, <1>6, ReweighType
<1>8. u.stake = TermsAs(st, x, y, p, q, z) /\ u.pool_rewards = cm.pool_rewards
  BY <1>6, <1>7 DEF new
<1>9. PoolEvolves(cm, u, block) /\ CommitmentTimed(u, A, block)
  <2>1. q = st.cooldown_started
    OBVIOUS
  <2> HIDE DEF x, y, q, z
  <2> QED BY <1>2, <1>7, <1>8, <2>1, TermsEvolve
<1> QED BY <1>4, <1>6, <1>7, <1>9 DEF u

LEMMA RestakeHolds ==
    ASSUME Clock, NEW s, StoreInv(s, announced, block), NEW c, c \in Committers, Staked(s, c),
           NEW e, NEW p, e \in Nat, p \in Nat, p >= s.commitments[c].stake.cooldown_period,
           NEW t, NEW ok, ok \in BOOLEAN,
           LET lk == [s.locks EXCEPT ![c] = @ + e]
           IN  /\ t = Rec([s.commitments EXCEPT ![c] = Restaked(s.commitments[c], e, p)],
                          s.delegations, s.delegator_total, s.total_stake + e, lk, s.ledger,
                          s.unrecorded, s.overslashed, s.reward, ok)
               /\ e = 0 \/ lk[c] <= s.ledger.free[c]
    PROVE  StoreInv(t, announced, block)
<1> DEFINE cm == s.commitments[c]
           new == Restaked(cm, e, p)
           cs == [s.commitments EXCEPT ![c] = new]
           lk == [s.locks EXCEPT ![c] = @ + e]
           total == s.total_stake + e
<1>1. /\ Typed(s) /\ SumsInv(s) /\ cm \in Commitments /\ cm.stake # None
      /\ CommitmentTimed(cm, announced[c], block) /\ block \in Nat /\ c \in Accounts
      /\ cm.stake \in Stakes
  BY TypedFields, NoneIsNone, Constants, CommitmentType
     DEF StoreInv, CommitmentsInv, Staked, Clock
<1>2. /\ new \in Commitments /\ new.stake # None /\ new.stake.amount = cm.stake.amount + e
      /\ PoolEvolves(cm, new, block) /\ CommitmentTimed(new, announced[c], block)
      /\ CurrentWeights(new).delegations_reward = CurrentWeights(cm).delegations_reward
      /\ CurrentWeights(new).delegations_slash = CurrentWeights(cm).delegations_slash
  <2> DEFINE A == announced[c]
  <2>1. cm.stake.cooldown_period <= p /\ CommitmentTimed(cm, A, block)
    BY <1>1, StakeType
  <2> HIDE DEF cm, A
  <2> QED BY <1>1, <2>1, RestakedType DEF A
<1>3. /\ s.locks \in [Accounts -> Nat] /\ s.total_stake \in Nat /\ s.overslashed \in Nat
      /\ \A b \in Accounts : s.ledger.free[b] \in Nat
  BY <1>1, TypedFields
<1>4. /\ lk \in [Accounts -> Nat] /\ total \in Nat
      /\ \A b \in Accounts : lk[b] = s.locks[b] + (IF b = c THEN e ELSE 0)
  BY <1>1, <1>3
<1>5. cs \in [Committers -> Commitments \cup {None}]
  <2> HIDE DEF new
  <2> QED BY <1>1, <1>2, TypedFields
<1>6. t = Rec(cs, s.delegations, s.delegator_total, total, lk, s.ledger, s.unrecorded,
              s.overslashed, s.reward, ok)
  OBVIOUS
<1>7. e = 0 \/ lk[c] <= s.ledger.free[c]
  OBVIOUS
<1> HIDE DEF cs, lk, total, new
<1>8. Typed(t)
  BY <1>1, <1>4, <1>5, <1>6, TypedFields, RecTyped
<1>9. /\ t.commitments = cs /\ t.delegations = s.delegations
      /\ t.delegator_total = s.delegator_total /\ t.total_stake = total /\ t.locks = lk
      /\ t.ledger = s.ledger /\ t.overslashed = s.overslashed
  BY <1>6, RecFields
<1>10. Recommitted(s, t, c, new)
  BY <1>1, <1>2, <1>9 DEF Recommitted, cs
<1>11. \A b \in Accounts : t.locks[b] <= t.ledger.free[b] + t.overslashed
  <2> TAKE b \in Accounts
  <2>1. s.locks[b] <= s.ledger.free[b] + s.overslashed
    BY <1>1 DEF SumsInv, AccountAddsUp
  <2>2. s.locks[b] \in Nat /\ s.ledger.free[b] \in Nat /\ lk[b] \in Nat
    BY <1>3, <1>4
  <2>3. lk[b] = s.locks[b] + (IF b = c THEN e ELSE 0)
    BY <1>4
  <2>4. lk[b] <= s.ledger.free[b] + s.overslashed
    BY <1>3, <1>7, <2>1, <2>2, <2>3
  <2> QED BY <1>9, <2>4
<1>12. t.total_stake = s.total_stake + e - 0 /\ t.overslashed = s.overslashed + 0
  BY <1>3, <1>9 DEF total
<1>13. \A b \in Accounts : t.locks[b] = s.locks[b] + (IF b = c THEN e ELSE 0)
  BY <1>4, <1>9
<1> DEFINE z == 0
<1>14. e \in Int /\ z \in Nat /\ t.total_stake = s.total_stake + e - z
       /\ t.overslashed = s.overslashed + z
  BY <1>12
<1> HIDE DEF z
<1>15. t.delegator_total = s.delegator_total
  BY <1>9
<1>16. ResizedBy(s, t, c, new, e, z)
  BY <1>2, <1>10, <1>11, <1>13, <1>14, <1>15 DEF ResizedBy
<1> QED BY <1>2, <1>8, <1>16, ResizeHolds

LEMMA StakeMoreHolds ==
    ASSUME Clock, NEW s, StoreInv(s, announced, block), NEW c, c \in Committers, Staked(s, c),
           NEW e, NEW p, e \in Nat, p \in Nat, stake_more_for(s, c, e, p).ok
    PROVE  LET t == stake_more_for(s, c, e, p)
           IN  /\ StoreInv(t, announced, block) /\ s.ok /\ t.delegations = s.delegations
               /\ \A b \in Committers : Staked(s, b) => Staked(t, b)
<1> DEFINE cm == s.commitments[c]
           new == Restaked(cm, e, p)
           cs == [s.commitments EXCEPT ![c] = new]
           total == s.total_stake + e
           u == Restaking(s, c, e, p)
           n == s.delegator_total[c] + (cm.stake.amount + e)
           lk == [s.locks EXCEPT ![c] = @ + e]
           t == stake_more_for(s, c, e, p)
<1>1. /\ Typed(s) /\ SumsInv(s) /\ c \in Accounts /\ cm \in Commitments /\ cm.stake \in Stakes
      /\ block \in Nat /\ CommitmentTimed(cm, announced[c], block)
  BY Constants, TypedFields, CommitmentType, NoneIsNone
     DEF StoreInv, Staked, Clock, CommitmentsInv
<1>2. t = IF e = 0 THEN u ELSE NotOverstaked(lock_funds(u, c, n), c)
  BY <1>1, StakeMoreFields
<1>3. u = Rec(cs, s.delegations, s.delegator_total, total, s.locks, s.ledger, s.unrecorded,
              s.overslashed, s.reward, CanRestake(s, c, p))
  BY DEF Restaking
<1>4. /\ s.locks \in [Accounts -> Nat] /\ s.delegator_total[c] \in Nat
      /\ s.ledger.free[c] \in Nat /\ s.ledger.held[c] = 0 /\ cm.stake.amount \in Nat
      /\ s.locks[c] = cm.stake.amount + s.delegator_total[c] /\ s.locks[c] \in Nat
  <2>1. s.locks[c] = OwnStake(s, c) + s.delegator_total[c]
    BY <1>1 DEF SumsInv, AccountAddsUp
  <2>2. OwnStake(s, c) = cm.stake.amount
    BY DEF OwnStake
  <2> QED BY <1>1, <2>1, <2>2, TypedFields, StakeType
<1>5. n = s.locks[c] + e
  BY <1>4
<1>6. CanRestake(s, c, p) \in BOOLEAN
  BY DEF CanRestake
<1> DEFINE ok == IF e = 0 THEN CanRestake(s, c, p)
                 ELSE CanRestake(s, c, p) /\ n <= s.ledger.free[c] + s.ledger.held[c]
           v == Rec(cs, s.delegations, s.delegator_total, total, lk, s.ledger, s.unrecorded,
                    s.overslashed, s.reward, ok)
<1>7. t = IF e = 0 THEN v ELSE NotOverstaked(v, c)
  <2>1. CASE e = 0
    <3>1. lk = s.locks
      BY <1>1, <1>4, <2>1
    <3> HIDE DEF lk
    <3> QED BY <1>2, <1>3, <2>1, <3>1
  <2>2. CASE e # 0
    <3>1. lk = [s.locks EXCEPT ![c] = n]
      BY <1>1, <1>4, <1>5
    <3> DEFINE can == CanRestake(s, c, p)
    <3> HIDE DEF n, cs, total, lk, u, can
    <3>2. lock_funds(u, c, n)
            = Rec(cs, s.delegations, s.delegator_total, total, [s.locks EXCEPT ![c] = n],
                  s.ledger, s.unrecorded, s.overslashed, s.reward,
                  CanLock(s.ledger, c, n, can))
      <4>1. u = Rec(cs, s.delegations, s.delegator_total, total, s.locks, s.ledger, s.unrecorded,
                    s.overslashed, s.reward, can)
        BY <1>3 DEF can
      <4> QED BY <4>1, LockRec
    <3>3. CanLock(s.ledger, c, n, can) = ok
      BY <2>2 DEF can, CanLock
    <3>4. lock_funds(u, c, n) = v
      BY <3>1, <3>2, <3>3
    <3> QED BY <1>2, <2>2, <3>4
  <2> QED BY <2>1, <2>2
<1>8. v.ok = ok /\ "ok" \in DOMAIN v
  BY DEF Rec
<1>9. ok
  <2> HIDE DEF v, ok
  <2>1. CASE e = 0
    BY <1>7, <1>8, <2>1
  <2>2. CASE e # 0
    BY <1>7, <1>8, <2>2, LimitsChained
  <2> QED BY <2>1, <2>2
<1>10. s.ok /\ p >= cm.stake.cooldown_period
  BY <1>9 DEF CanRestake
<1>11. StoreInv(v, announced, block)
  <2>1. e = 0 \/ lk[c] <= s.ledger.free[c]
    <3>1. lk[c] = n
      BY <1>1, <1>4, <1>5
    <3> QED BY <1>4, <1>9, <3>1
  <2>2. ok \in BOOLEAN
    BY <1>6
  <2>3. /\ v = Rec([s.commitments EXCEPT ![c] = Restaked(s.commitments[c], e, p)],
                   s.delegations, s.delegator_total, s.total_stake + e, lk, s.ledger,
                   s.unrecorded, s.overslashed, s.reward, ok)
        /\ e = 0 \/ lk[c] <= s.ledger.free[c]
    BY <2>1
  <2> HIDE DEF v, ok
  <2> QED BY <1>10, <2>2, <2>3, RestakeHolds
<1>12. /\ v.commitments = cs /\ v.delegations = s.delegations
  <2> HIDE DEF cs, total, lk, ok
  <2> QED BY RecFields
<1> HIDE DEF v
<1>13. /\ StoreInv(t, announced, block) /\ t.commitments = cs /\ t.delegations = s.delegations
  <2> HIDE DEF t, cs
  <2>1. CASE e = 0
    BY <1>7, <1>11, <1>12, <2>1
  <2>2. CASE e # 0
    <3>1. t = NotOverstaked(v, c)
      BY <1>7, <2>2
    <3> QED BY <1>11, <1>12, <3>1, OverstakedHolds
  <2> QED BY <2>1, <2>2
<1>14. new # None /\ new.stake # None
  <2> DEFINE A == announced[c]
  <2>1. cm.stake.cooldown_period <= p /\ CommitmentTimed(cm, A, block)
        /\ cm.stake # None
    BY <1>1, <1>10, StakeType, NoneIsNone
  <2> HIDE DEF cm, A
  <2>2. new \in Commitments /\ new.stake # None
    BY <1>1, <2>1, RestakedType
  <2> QED BY <2>2, NoneIsNone
<1>15. \A b \in Committers : Staked(s, b) => Staked(t, b)
  <2>1. cs[c] = new /\ \A b \in Committers : b # c => cs[b] = s.commitments[b]
    BY <1>1, TypedFields
  <2> HIDE DEF cs, new, t
  <2> QED BY <1>13, <1>14, <2>1 DEF Staked
<1> QED BY <1>10, <1>13, <1>15

LEMMA StakeMoreChained ==
    ASSUME NEW s, "ok" \in DOMAIN s, NEW c, NEW e, NEW p, stake_more_for(s, c, e, p).ok
    PROVE  s.ok
<1> DEFINE cm == s.commitments[c]
           n == cm.stake.amount + e
           new == Reweigh([cm EXCEPT !.stake.amount = n, !.stake.cooldown_period = p,
                                     !.stake.rewardable_amount = IF e = 0 THEN @ ELSE n])
           t == [s EXCEPT
                  !.ok = @ /\ cm.stake.cooldown_started = None
                           /\ p >= cm.stake.cooldown_period,
                  !.total_stake = @ + e, !.commitments[c] = new]
           l == lock_funds(t, c, s.delegator_total[c] + n)
<1>1. stake_more_for(s, c, e, p) = IF e = 0 THEN t ELSE NotOverstaked(l, c)
  BY DEF stake_more_for
<1> HIDE DEF new
<1>2. (t.ok => s.ok) /\ "ok" \in DOMAIN t
  OBVIOUS
<1> HIDE DEF t
<1>3. (l.ok => t.ok) /\ "ok" \in DOMAIN l
  BY <1>2 DEF lock_funds
<1> HIDE DEF l
<1>4. NotOverstaked(l, c).ok => l.ok
  BY <1>3, LimitsChained
<1> QED BY <1>1, <1>2, <1>3, <1>4

LEMMA PaidOutStaked ==
    ASSUME NEW s, Typed(s), NEW t, NEW c, c \in Committers, Staked(s, c), PaidOut(s, t, c)
    PROVE  /\ \A b \in Committers : Staked(s, b) <=> Staked(t, b)
           /\ t.commitments[c].stake.amount = s.commitments[c].stake.amount
           /\ t.commitments[c].stake.created = s.commitments[c].stake.created
           /\ t.commitments[c].stake.cooldown_period = s.commitments[c].stake.cooldown_period
           /\ t.commitments[c].stake.cooldown_started = s.commitments[c].stake.cooldown_started
<1> DEFINE cm == s.commitments[c]
           u == PaidCommitment(cm)
<1>1. cm \in Commitments /\ cm.stake # None /\ cm # None
  BY TypedFields DEF Staked
<1>2. /\ u \in Commitments /\ u.stake # None
      /\ u.stake.amount = cm.stake.amount
      /\ u.stake.created = cm.stake.created
      /\ u.stake.cooldown_period = cm.stake.cooldown_period
      /\ u.stake.cooldown_started = cm.stake.cooldown_started
  <2> HIDE DEF cm
  <2> QED BY <1>1, PaidTerms
<1>3. t.commitments[c] = u /\ \A b \in Committers : b # c => t.commitments[b] = s.commitments[b]
  BY TypedFields DEF PaidOut
<1>4. u # None
  BY <1>2, NoneIsNone
<1> HIDE DEF u
<1> QED BY <1>1, <1>2, <1>3, <1>4 DEF Staked

LEMMA CompoundStakeHolds ==
    ASSUME Clock, NEW s, StoreInv(s, announced, block), NEW c, c \in Committers, Staked(s, c),
           NEW p, p \in Nat,
           LET u == withdraw_committer_for(s, c) IN stake_more_for(u, c, u.reward, p).ok
    PROVE  LET u == withdraw_committer_for(s, c)
               t == stake_more_for(u, c, u.reward, p)
           IN  /\ StoreInv(t, announced, block) /\ t.delegations = s.delegations
               /\ \A b \in Committers : Staked(s, b) => Staked(t, b)
<1> DEFINE u == withdraw_committer_for(s, c)
           r == u.reward
           t == stake_more_for(u, c, r, p)
<1>1. Typed(s) /\ "ok" \in DOMAIN u
  BY WithdrawCommitterOk DEF StoreInv
<1>2. u.ok
  <2>1. stake_more_for(u, c, r, p).ok
    OBVIOUS
  <2> HIDE DEF u, r
  <2> QED BY <1>1, <2>1, StakeMoreChained
<1>3. StoreInv(u, announced, block) /\ PaidOut(s, u, c) /\ r \in Nat
  BY <1>2, WithdrawCommitterHolds
<1>4. \A b \in Committers : Staked(s, b) <=> Staked(u, b)
  <2> HIDE DEF u
  <2> QED BY <1>1, <1>3, PaidOutStaked
<1>5. u.delegations = s.delegations
  BY <1>3 DEF PaidOut
<1>6. t.ok
  OBVIOUS
<1> HIDE DEF u, r
<1>7. StoreInv(t, announced, block) /\ t.delegations = u.delegations
      /\ \A b \in Committers : Staked(u, b) => Staked(t, b)
  BY <1>3, <1>4, <1>6, StakeMoreHolds
<1> QED BY <1>4, <1>5, <1>7 DEF u, r

\* end_commitment_for: the commitment is paid and closed.
ClosedCommitment(cm) ==
    [cm EXCEPT !.stake = None, !.delegations_total_amount = 0,
               !.delegations_total_rewardable_amount = 0,
               !.weights = MemoryBuffer(epoch, NoWeights)]

LEMMA ClosedType ==
    ASSUME block \in Nat, NEW cm, cm \in Commitments
    PROVE  LET u == ClosedCommitment(cm)
           IN  u \in Commitments /\ u.stake = None /\ u.pool_rewards = cm.pool_rewards
<1> DEFINE u == ClosedCommitment(cm)
           b == MemoryBuffer(epoch, NoWeights)
           z == 0
           c1 == [cm EXCEPT !.stake = None]
           c2 == [c1 EXCEPT !.delegations_total_amount = z]
           c3 == [c2 EXCEPT !.delegations_total_rewardable_amount = z]
<1>1. b \in MemoryBuffers(Weights)
  <2>1. NoWeights \in Weights /\ epoch \in Nat
    BY EpochType DEF NoWeights, Weights
  <2> QED BY <2>1, MemoryBufferType
<1>2. u = [c3 EXCEPT !.weights = b]
  BY DEF ClosedCommitment
<1> HIDE DEF b, z
<1>3. cm = [stake |-> cm.stake, delegations_total_amount |-> cm.delegations_total_amount,
            delegations_total_rewardable_amount |-> cm.delegations_total_rewardable_amount,
            weights |-> cm.weights, pool_rewards |-> cm.pool_rewards,
            last_scoring_epoch |-> cm.last_scoring_epoch,
            last_slashing_epoch |-> cm.last_slashing_epoch]
  BY CommitmentType
<1>4. c1 = [stake |-> None, delegations_total_amount |-> cm.delegations_total_amount,
            delegations_total_rewardable_amount |-> cm.delegations_total_rewardable_amount,
            weights |-> cm.weights, pool_rewards |-> cm.pool_rewards,
            last_scoring_epoch |-> cm.last_scoring_epoch,
            last_slashing_epoch |-> cm.last_slashing_epoch]
  BY <1>3
<1> HIDE DEF c1
<1>5. c2 = [stake |-> None, delegations_total_amount |-> z,
            delegations_total_rewardable_amount |-> cm.delegations_total_rewardable_amount,
            weights |-> cm.weights, pool_rewards |-> cm.pool_rewards,
            last_scoring_epoch |-> cm.last_scoring_epoch,
            last_slashing_epoch |-> cm.last_slashing_epoch]
  BY <1>4
<1> HIDE DEF c2
<1>6. c3 = [stake |-> None, delegations_total_amount |-> z,
            delegations_total_rewardable_amount |-> z,
            weights |-> cm.weights, pool_rewards |-> cm.pool_rewards,
            last_scoring_epoch |-> cm.last_scoring_epoch,
            last_slashing_epoch |-> cm.last_slashing_epoch]
  BY <1>5
<1> HIDE DEF c3
<1>7. u = [stake |-> None, delegations_total_amount |-> z,
           delegations_total_rewardable_amount |-> z,
           weights |-> b, pool_rewards |-> cm.pool_rewards,
           last_scoring_epoch |-> cm.last_scoring_epoch,
           last_slashing_epoch |-> cm.last_slashing_epoch]
  BY <1>2, <1>6
<1>8. /\ z \in Nat /\ None \in Stakes \cup {None}
      /\ cm.pool_rewards \in MemoryBuffers(PoolReward)
      /\ cm.last_scoring_epoch \in Nat /\ cm.last_slashing_epoch \in Nat
  BY CommitmentType DEF z
<1>9. u \in Commitments
  BY <1>1, <1>7, <1>8, MakeCommitment
<1> HIDE DEF u
<1> QED BY <1>7, <1>9 DEF u

Closing(s, c, n, ok) ==
    Rec([s.commitments EXCEPT ![c] = ClosedCommitment(@)], s.delegations, s.delegator_total,
        s.total_stake - n, [s.locks EXCEPT ![c] = Minus(@, n)], s.ledger, s.unrecorded,
        s.overslashed, s.reward, ok)

LEMMA EndCommitmentFields ==
    ASSUME NEW s, Typed(s), NEW c, Typed(withdraw_committer_for(s, c))
    PROVE  LET u == withdraw_committer_for(s, c)
               n == s.commitments[c].stake.amount
           IN  end_commitment_for(s, c) = Closing(u, c, n, u.ok /\ n <= s.total_stake)
<1> DEFINE u == withdraw_committer_for(s, c)
           n == s.commitments[c].stake.amount
           ok == u.ok /\ n <= s.total_stake
           t1 == [u EXCEPT !.ok = ok]
           t2 == [t1 EXCEPT !.commitments[c] = ClosedCommitment(@)]
           t3 == [t2 EXCEPT !.total_stake = @ - n]
           t4 == [t3 EXCEPT !.locks[c] = Minus(@, n)]
<1>1. end_commitment_for(s, c) = t4
  BY DEF end_commitment_for, ClosedCommitment
<1> HIDE DEF u, n, ok
<1>2. u = Rec(u.commitments, u.delegations, u.delegator_total, u.total_stake, u.locks,
              u.ledger, u.unrecorded, u.overslashed, u.reward, u.ok)
  BY TypedIsRec DEF u
<1>3. t1 = Rec(u.commitments, u.delegations, u.delegator_total, u.total_stake, u.locks,
               u.ledger, u.unrecorded, u.overslashed, u.reward, ok)
  BY <1>2 DEF Rec
<1> HIDE DEF t1
<1>4. t2 = Rec([u.commitments EXCEPT ![c] = ClosedCommitment(@)], u.delegations,
               u.delegator_total, u.total_stake, u.locks,
               u.ledger, u.unrecorded, u.overslashed, u.reward, ok)
  BY <1>3 DEF Rec
<1> HIDE DEF t2
<1>5. t3 = Rec([u.commitments EXCEPT ![c] = ClosedCommitment(@)], u.delegations,
               u.delegator_total, u.total_stake - n, u.locks,
               u.ledger, u.unrecorded, u.overslashed, u.reward, ok)
  BY <1>4 DEF Rec
<1> HIDE DEF t3
<1>6. t4 = Closing(u, c, n, ok)
  BY <1>5 DEF Rec, Closing
<1> HIDE DEF t4
<1> QED BY <1>1, <1>6 DEF u, n, ok

LEMMA ClosingHolds ==
    ASSUME Clock, NEW s, StoreInv(s, announced, block), NEW c, c \in Committers, Staked(s, c),
           s.commitments[c].stake.cooldown_started # None,
           s.commitments[c].stake.cooldown_started + s.commitments[c].stake.cooldown_period
               <= block,
           NEW n, n = s.commitments[c].stake.amount, n <= s.total_stake,
           NEW ok, ok \in BOOLEAN
    PROVE  LET t == Closing(s, c, n, ok)
           IN  /\ StoreInv(t, announced, block) /\ t.delegations = s.delegations
               /\ \A b \in Committers : b # c => (Staked(s, b) => Staked(t, b))
<1> DEFINE cm == s.commitments[c]
           st == cm.stake
           A == announced[c]
           new == ClosedCommitment(cm)
           cs == [s.commitments EXCEPT ![c] = new]
           lk == [s.locks EXCEPT ![c] = Minus(@, n)]
           total == s.total_stake - n
           t == Closing(s, c, n, ok)
<1>1. /\ Typed(s) /\ SumsInv(s) /\ WeightsInv(s) /\ cm \in Commitments /\ st \in Stakes
      /\ CommitmentTimed(cm, A, block) /\ block \in Nat /\ c \in Accounts /\ cm # None
      /\ st # None
  BY TypedFields, Constants, CommitmentType DEF StoreInv, CommitmentsInv, Staked, Clock
<1>2. /\ n \in Nat /\ st.created \in Nat /\ st.cooldown_started \in Nat
      /\ st.cooldown_period \in Nat
  BY <1>1, StakeType
<1>3. new \in Commitments /\ new.stake = None /\ new.pool_rewards = cm.pool_rewards
  <2> HIDE DEF cm
  <2> QED BY <1>1, ClosedType
<1>4. /\ StakeTimed(st, A, block) /\ cm.pool_rewards.current.at = st.created
      /\ st.cooldown_started \in A /\ st.created <= st.cooldown_started
      /\ st.cooldown_period >= 1
  BY <1>1 DEF CommitmentTimed, StakeTimed
<1>5. CommitmentTimed(new, A, block)
  <2>1. new.pool_rewards.current.at < block
    BY <1>1, <1>2, <1>3, <1>4
  <2> QED BY <1>1, <1>3, <2>1 DEF CommitmentTimed
<1>6. /\ s.locks \in [Accounts -> Nat] /\ s.total_stake \in Nat /\ s.overslashed \in Nat
      /\ s.delegator_total[c] \in Nat
      /\ \A b \in Accounts : s.ledger.free[b] \in Nat
  BY <1>1, TypedFields
<1>7. s.locks[c] = n + s.delegator_total[c]
  <2>1. OwnStake(s, c) = n
    BY DEF OwnStake
  <2> QED BY <1>1, <2>1 DEF SumsInv, AccountAddsUp
<1>8. /\ lk \in [Accounts -> Nat] /\ total \in Nat
      /\ \A b \in Accounts : lk[b] = s.locks[b] + (IF b = c THEN 0 - n ELSE 0)
  <2>1. Minus(s.locks[c], n) = s.locks[c] - n /\ s.locks[c] - n \in Nat
    BY <1>2, <1>6, <1>7 DEF Minus
  <2> QED BY <1>1, <1>2, <1>6, <2>1
<1>9. cs \in [Committers -> Commitments \cup {None}]
  <2> HIDE DEF new
  <2> QED BY <1>1, <1>3, TypedFields
<1>10. t = Rec(cs, s.delegations, s.delegator_total, total, lk, s.ledger, s.unrecorded,
               s.overslashed, s.reward, ok)
  BY DEF Closing
<1> HIDE DEF cs, lk, total, new, t
<1>11. Typed(t)
  BY <1>1, <1>8, <1>9, <1>10, TypedFields, RecTyped
<1>12. /\ t.commitments = cs /\ t.delegations = s.delegations
       /\ t.delegator_total = s.delegator_total /\ t.total_stake = total /\ t.locks = lk
       /\ t.ledger = s.ledger /\ t.overslashed = s.overslashed
  BY <1>10, RecFields
<1>13. t.commitments[c] = new /\ \A b \in Committers : b # c => t.commitments[b] = s.commitments[b]
  BY <1>1, <1>12, TypedFields DEF cs
<1>14. SumsInv(t)
  <2> DEFINE m == 0 - n
             z == 0
  <2>1. m \in Int /\ z \in Nat
    BY <1>2
  <2>2. \A b \in Accounts : OwnStake(t, b) = OwnStake(s, b) + (IF b = c THEN m ELSE 0)
    <3> TAKE b \in Accounts
    <3>1. OwnStake(s, b) \in Nat
      BY <1>1, OwnStakesType
    <3>2. CASE b = c
      <4>1. OwnStake(t, c) = 0 /\ OwnStake(s, c) = n
        BY <1>3, <1>13 DEF OwnStake, Staked
      <4> QED BY <1>2, <3>2, <4>1
    <3>3. CASE b # c
      <4>1. OwnStake(t, b) = OwnStake(s, b)
        BY <1>13, <3>3 DEF OwnStake, Staked
      <4> QED BY <3>1, <3>3, <4>1
    <3> QED BY <3>2, <3>3
  <2>3. \A b \in Accounts : t.delegator_total[b] = s.delegator_total[b]
    BY <1>12
  <2>4. \A b \in Accounts : t.locks[b] = s.locks[b] + (IF b = c THEN m ELSE 0)
    BY <1>8, <1>12
  <2>5. \A b \in Accounts : t.locks[b] <= t.ledger.free[b] + t.overslashed
    <3> TAKE b \in Accounts
    <3>1. s.locks[b] <= s.ledger.free[b] + s.overslashed
      BY <1>1 DEF SumsInv, AccountAddsUp
    <3>2. s.locks[b] \in Nat /\ s.ledger.free[b] \in Nat
      BY <1>6
    <3>3. t.ledger.free[b] = s.ledger.free[b] /\ t.overslashed = s.overslashed
      BY <1>12
    <3>4. t.locks[b] = s.locks[b] + (IF b = c THEN m ELSE 0)
      BY <2>4
    <3> QED BY <1>2, <1>6, <3>1, <3>2, <3>3, <3>4
  <2>6. t.total_stake = s.total_stake + m - z /\ t.overslashed = s.overslashed + z
    BY <1>2, <1>6, <1>12 DEF total
  <2>7. AmountsOf(t) = AmountsOf(s)
    BY <1>12 DEF AmountsOf
  <2> HIDE DEF m, z
  <2>8. \A b \in Accounts :
          /\ t.delegator_total[b] = s.delegator_total[b]
          /\ t.locks[b] = s.locks[b] + (IF b = c THEN m ELSE 0)
          /\ t.locks[b] <= t.ledger.free[b] + t.overslashed
    BY <2>3, <2>4, <2>5
  <2> QED BY <1>1, <1>11, <2>1, <2>2, <2>6, <2>7, <2>8, SumsFollowStake
<1>15. WeightsInv(t)
  <2>1. ASSUME NEW b \in Committers, Staked(t, b)
        PROVE  /\ Staked(s, b)
               /\ t.commitments[b].stake.created = s.commitments[b].stake.created
               /\ CurrentWeights(t.commitments[b]).delegations_reward
                    = CurrentWeights(s.commitments[b]).delegations_reward
               /\ CurrentWeights(t.commitments[b]).delegations_slash
                    = CurrentWeights(s.commitments[b]).delegations_slash
    <3>1. b # c
      BY <1>3, <1>13, <2>1 DEF Staked
    <3> QED BY <1>13, <2>1, <3>1 DEF Staked
  <2>2. /\ DOMAIN t.delegations = DOMAIN s.delegations
        /\ \A k \in DOMAIN s.delegations :
               /\ t.delegations[k].stake.created = s.delegations[k].stake.created
               /\ t.delegations[k].reward_weight = s.delegations[k].reward_weight
               /\ t.delegations[k].slash_weight = s.delegations[k].slash_weight
    BY <1>12
  <2> QED BY <1>1, <1>11, <2>1, <2>2, WeightsStay
<1>16. new # None
  BY <1>3, NoneIsNone
<1>17. CommitmentsInv(t, announced, block)
  BY <1>5, <1>13 DEF StoreInv, CommitmentsInv
<1>18. DelegationsInv(t, announced, block)
  <2> SUFFICES ASSUME NEW k \in DOMAIN s.delegations
               PROVE  /\ t.commitments[k[2]] # None
                      /\ DelegationHolds(s.delegations[k], t.commitments[k[2]],
                                         announced[k[2]], block)
    BY <1>12 DEF DelegationsInv
  <2> DEFINE d == s.delegations[k]
  <2>1. /\ s.commitments[k[2]] # None /\ k[2] \in Committers /\ d \in Delegations
        /\ DelegationHolds(d, s.commitments[k[2]], announced[k[2]], block)
    BY <1>1, StoreFacts DEF StoreInv, DelegationsInv
  <2>2. CASE k[2] = c
    <3>1. DelegationHolds(d, cm, A, block)
      BY <2>1, <2>2
    <3>2. d.stake \in Stakes /\ d.stake.cooldown_period \in Nat /\ d.stake.created \in Nat
      BY <2>1, DelegationType, StakeType
    <3>3. Outlived(d.stake, A, block)
      <4>1. CASE Fresh(cm, d)
        <5>1. Joined(d.stake, st)
          BY <3>1, <4>1 DEF DelegationHolds
        <5>2. /\ d.stake.created <= st.cooldown_started
              /\ st.cooldown_started + d.stake.cooldown_period <= block
          BY <1>1, <1>2, <3>2, <5>1 DEF Joined
        <5> QED BY <1>4, <5>2 DEF Outlived
      <4>2. CASE ~Fresh(cm, d)
        BY <3>1, <4>2 DEF DelegationHolds
      <4> QED BY <4>1, <4>2
    <3>4. ~Fresh(new, d)
      BY <1>3 DEF Fresh
    <3>5. DelegationHolds(d, new, A, block)
      <4>1. StakeHolds(d.stake, block) /\ DebtBounded(d, get_latest(cm.pool_rewards, d.stake.created))
        BY <3>1 DEF DelegationHolds
      <4> QED BY <1>3, <3>3, <3>4, <4>1 DEF DelegationHolds
    <3> QED BY <1>13, <1>16, <2>2, <3>5
  <2>3. CASE k[2] # c
    BY <1>13, <2>1, <2>3
  <2> QED BY <2>2, <2>3
<1>19. \A b \in Committers : b # c => (Staked(s, b) => Staked(t, b))
  BY <1>13 DEF Staked
<1>20. StoreInv(t, announced, block)
  BY <1>11, <1>14, <1>15, <1>17, <1>18 DEF StoreInv
<1> QED BY <1>12, <1>19, <1>20 DEF t

LEMMA EndCommitmentHolds ==
    ASSUME Clock, NEW s, StoreInv(s, announced, block), NEW c, c \in Committers, Staked(s, c),
           s.commitments[c].stake.cooldown_started # None,
           s.commitments[c].stake.cooldown_started + s.commitments[c].stake.cooldown_period
               <= block,
           end_commitment_for(s, c).ok
    PROVE  LET t == end_commitment_for(s, c)
           IN  /\ StoreInv(t, announced, block) /\ t.delegations = s.delegations
               /\ \A b \in Committers : b # c => (Staked(s, b) => Staked(t, b))
<1> DEFINE u == withdraw_committer_for(s, c)
           n == s.commitments[c].stake.amount
           ok == u.ok /\ n <= s.total_stake
           t == end_commitment_for(s, c)
<1>1. Typed(s) /\ "ok" \in DOMAIN u
  BY WithdrawCommitterOk DEF StoreInv
<1>2. u.ok /\ n <= s.total_stake
  <2> DEFINE t1 == [u EXCEPT !.ok = @ /\ n <= s.total_stake]
             t2 == [t1 EXCEPT !.commitments[c] =
                        [@ EXCEPT !.stake = None, !.delegations_total_amount = 0,
                                  !.delegations_total_rewardable_amount = 0,
                                  !.weights = MemoryBuffer(epoch, NoWeights)]]
             t3 == [t2 EXCEPT !.total_stake = @ - n]
             t4 == [t3 EXCEPT !.locks[c] = Minus(@, n)]
  <2>1. t = t4
    BY DEF end_commitment_for
  <2> HIDE DEF u, n
  <2>2. (t1.ok <=> u.ok /\ n <= s.total_stake) /\ "ok" \in DOMAIN t1
    BY <1>1
  <2> HIDE DEF t1
  <2>3. t2.ok = t1.ok /\ "ok" \in DOMAIN t2
    BY <2>2
  <2> HIDE DEF t2
  <2>4. t3.ok = t2.ok /\ "ok" \in DOMAIN t3
    BY <2>3
  <2> HIDE DEF t3
  <2>5. t4.ok = t3.ok
    BY <2>4
  <2> HIDE DEF t4
  <2> QED BY <2>1, <2>2, <2>3, <2>4, <2>5
<1>3. StoreInv(u, announced, block) /\ PaidOut(s, u, c)
  BY <1>2, WithdrawCommitterHolds
<1>4. /\ \A b \in Committers : Staked(s, b) <=> Staked(u, b)
      /\ u.commitments[c].stake.amount = n
      /\ u.commitments[c].stake.cooldown_period = s.commitments[c].stake.cooldown_period
      /\ u.commitments[c].stake.cooldown_started = s.commitments[c].stake.cooldown_started
  <2> HIDE DEF u
  <2> QED BY <1>1, <1>3, PaidOutStaked
<1>5. u.delegations = s.delegations /\ u.total_stake = s.total_stake
  BY <1>3 DEF PaidOut
<1>6. t = Closing(u, c, n, ok)
  <2>1. Typed(u)
    BY <1>3 DEF StoreInv
  <2> QED BY <1>1, <2>1, EndCommitmentFields
<1>7. ok \in BOOLEAN
  BY <1>2
<1> HIDE DEF u, n, ok, t
<1>8. /\ StoreInv(t, announced, block) /\ t.delegations = u.delegations
      /\ \A b \in Committers : b # c => (Staked(u, b) => Staked(t, b))
  <2>1. /\ Staked(u, c) /\ u.commitments[c].stake.cooldown_started # None
        /\ u.commitments[c].stake.cooldown_started + u.commitments[c].stake.cooldown_period
               <= block
        /\ n = u.commitments[c].stake.amount /\ n <= u.total_stake
    BY <1>2, <1>4, <1>5
  <2> QED BY <1>3, <1>6, <1>7, <2>1, ClosingHolds
<1> QED BY <1>4, <1>5, <1>8 DEF t

\* stake_for: a new commitment, in the place of a closed one or not.
NewCommitment(old, n, p) ==
    LET w == Weight(n, p)
        new == [stake |-> NewStake(n, p),
                delegations_total_amount |-> 0, delegations_total_rewardable_amount |-> 0,
                weights |-> MemoryBuffer(epoch,
                   [NoWeights EXCEPT !.self_reward = w, !.self_slash = w]),
                pool_rewards |-> MemoryBuffer(block, NoRewards),
                last_scoring_epoch |-> 0, last_slashing_epoch |-> 0]
    IN  IF old = None THEN new
        ELSE [new EXCEPT !.pool_rewards = Remember(old.pool_rewards, block, NoRewards),
                         !.last_scoring_epoch = old.last_scoring_epoch,
                         !.last_slashing_epoch = old.last_slashing_epoch]

LEMMA NewCommitmentType ==
    ASSUME block \in Nat, NEW old, old \in Commitments \cup {None},
           NEW n, NEW p, n \in Nat, p \in Nat
    PROVE  LET new == NewCommitment(old, n, p)
           IN  /\ new \in Commitments /\ new.stake = NewStake(n, p)
               /\ CurrentWeights(new).delegations_reward = 0
               /\ CurrentWeights(new).delegations_slash = 0
               /\ new.pool_rewards = IF old = None THEN MemoryBuffer(block, NoRewards)
                                     ELSE Remember(old.pool_rewards, block, NoRewards)
<1> DEFINE w == Weight(n, p)
           x == [NoWeights EXCEPT !.self_reward = w, !.self_slash = w]
           b == MemoryBuffer(epoch, x)
           r == IF old = None THEN MemoryBuffer(block, NoRewards)
                ELSE Remember(old.pool_rewards, block, NoRewards)
           i == IF old = None THEN 0 ELSE old.last_scoring_epoch
           j == IF old = None THEN 0 ELSE old.last_slashing_epoch
           st == NewStake(n, p)
           z == 0
           new == NewCommitment(old, n, p)
<1>1. w \in Nat
  BY WeightType
<1>2. x \in Weights /\ x.delegations_reward = 0 /\ x.delegations_slash = 0
  <2> HIDE DEF w
  <2> QED BY <1>1 DEF NoWeights, Weights
<1>3. b \in MemoryBuffers(Weights) /\ b.current.value = x
  <2>1. epoch \in Nat
    BY EpochType
  <2> HIDE DEF x
  <2>2. b \in MemoryBuffers(Weights) /\ b.current = [at |-> epoch, value |-> x]
    BY <1>2, <2>1, MemoryBufferType
  <2> QED BY <2>2
<1>4. NoRewards \in PoolReward
  BY DEF NoRewards, PoolReward
<1>5. r \in MemoryBuffers(PoolReward) /\ i \in Nat /\ j \in Nat
  <2>1. CASE old = None
    BY <1>4, <2>1, MemoryBufferType
  <2>2. CASE old # None
    <3>1. old.pool_rewards \in MemoryBuffers(PoolReward) /\ old.last_scoring_epoch \in Nat
          /\ old.last_slashing_epoch \in Nat
      BY <2>2, CommitmentType
    <3> QED BY <1>4, <2>2, <3>1, RememberType
  <2> QED BY <2>1, <2>2
<1>6. st \in Stakes
  BY NewStakeType
<1>7. new = [stake |-> st, delegations_total_amount |-> z,
             delegations_total_rewardable_amount |-> z, weights |-> b, pool_rewards |-> r,
             last_scoring_epoch |-> i, last_slashing_epoch |-> j]
  <2> DEFINE f == [stake |-> st, delegations_total_amount |-> z,
                   delegations_total_rewardable_amount |-> z, weights |-> b,
                   pool_rewards |-> MemoryBuffer(block, NoRewards),
                   last_scoring_epoch |-> z, last_slashing_epoch |-> z]
             q == Remember(old.pool_rewards, block, NoRewards)
  <2>1. new = IF old = None THEN f
              ELSE [f EXCEPT !.pool_rewards = q,
                             !.last_scoring_epoch = old.last_scoring_epoch,
                             !.last_slashing_epoch = old.last_slashing_epoch]
    BY DEF NewCommitment
  <2> HIDE DEF st, b, q
  <2>2. CASE old = None
    BY <2>1, <2>2
  <2>3. CASE old # None
    <3>1. new = [stake |-> st, delegations_total_amount |-> z,
                 delegations_total_rewardable_amount |-> z, weights |-> b, pool_rewards |-> q,
                 last_scoring_epoch |-> old.last_scoring_epoch,
                 last_slashing_epoch |-> old.last_slashing_epoch]
      BY <2>1, <2>3
    <3>2. r = q /\ i = old.last_scoring_epoch /\ j = old.last_slashing_epoch
      BY <2>3 DEF q
    <3> QED BY <3>1, <3>2
  <2> QED BY <2>2, <2>3
<1>8. z \in Nat /\ st \in Stakes \cup {None}
  BY <1>6
<1> HIDE DEF st, b, r, i, j, z, new, x
<1>9. new \in Commitments
  BY <1>3, <1>5, <1>7, <1>8, MakeCommitment
<1>10. CurrentWeights(new) = x /\ new.stake = st /\ new.pool_rewards = r
  BY <1>3, <1>7 DEF CurrentWeights
<1> QED BY <1>2, <1>9, <1>10 DEF new, st, r

Committing(s, c, n, p, ok) ==
    Rec([s.commitments EXCEPT ![c] = NewCommitment(@, n, p)], s.delegations, s.delegator_total,
        s.total_stake + n, [s.locks EXCEPT ![c] = s.delegator_total[c] + n], s.ledger,
        s.unrecorded, s.overslashed, s.reward, ok)

LEMMA StakeForFields ==
    ASSUME NEW s, Typed(s), NEW c, NEW n, NEW p
    PROVE  stake_for(s, c, n, p)
             = Committing(s, c, n, p, s.ok /\ s.delegator_total[c] + n <= Balance(s, c))
<1> DEFINE m == s.delegator_total[c] + n
           ok == s.ok /\ m <= Balance(s, c)
           new == NewCommitment(s.commitments[c], n, p)
           t1 == lock_funds(s, c, m)
           t2 == [t1 EXCEPT !.total_stake = @ + n]
           t3 == [t2 EXCEPT !.commitments[c] = new]
<1>1. stake_for(s, c, n, p) = t3
  BY DEF stake_for, NewCommitment
<1>2. t1 = Rec(s.commitments, s.delegations, s.delegator_total, s.total_stake,
               [s.locks EXCEPT ![c] = m], s.ledger, s.unrecorded, s.overslashed, s.reward, ok)
  <2> HIDE DEF m
  <2> QED BY LockFields
<1> HIDE DEF t1, ok, new
<1>3. t2 = Rec(s.commitments, s.delegations, s.delegator_total, s.total_stake + n,
               [s.locks EXCEPT ![c] = m], s.ledger, s.unrecorded, s.overslashed, s.reward, ok)
  <2> HIDE DEF m
  <2> QED BY <1>2 DEF Rec
<1> HIDE DEF t2
<1>4. t3 = Rec([s.commitments EXCEPT ![c] = new], s.delegations, s.delegator_total,
               s.total_stake + n, [s.locks EXCEPT ![c] = m], s.ledger, s.unrecorded,
               s.overslashed, s.reward, ok)
  <2> HIDE DEF m
  <2> QED BY <1>3 DEF Rec
<1> HIDE DEF t3
<1> QED BY <1>1, <1>4 DEF Committing, m, ok, new

\* The delegations to the commitment before it are stale, and their pool is the
\* past of the new one.
LEMMA NewCommitmentHolds ==
    ASSUME block \in Nat, NEW old, old \in Commitments \cup {None}, NEW A, A \subseteq Nat,
           old # None => old.stake = None /\ CommitmentTimed(old, A, block),
           NEW n, NEW p, n \in Nat, p \in Nat, p >= 1
    PROVE  /\ CommitmentTimed(NewCommitment(old, n, p), A, block)
           /\ old # None => \A d \in Delegations :
                DelegationHolds(d, old, A, block) =>
                    /\ ~Fresh(NewCommitment(old, n, p), d)
                    /\ DelegationHolds(d, NewCommitment(old, n, p), A, block)
<1> DEFINE new == NewCommitment(old, n, p)
           st == NewStake(n, p)
           b == new.pool_rewards
           a == old.pool_rewards
<1>1. /\ new \in Commitments /\ new.stake = st
      /\ b = IF old = None THEN MemoryBuffer(block, NoRewards)
                           ELSE Remember(a, block, NoRewards)
  BY NewCommitmentType
<1>2. /\ st \in Stakes /\ st # None /\ st.created = block /\ st.cooldown_period = p
      /\ st.cooldown_started = None
  <2>1. st \in Stakes
    BY NewStakeType
  <2> QED BY <2>1, StakeType DEF NewStake
<1>3. NoRewards \in PoolReward
  BY DEF NoRewards, PoolReward
<1>4. old # None =>
        /\ a \in MemoryBuffers(PoolReward) /\ a.current.at < block
        /\ b.current = [at |-> block, value |-> NoRewards] /\ b.past = a.current
  <2> SUFFICES ASSUME old # None
               PROVE  /\ a \in MemoryBuffers(PoolReward) /\ a.current.at < block
                      /\ b.current = [at |-> block, value |-> NoRewards] /\ b.past = a.current
    OBVIOUS
  <2>1. a \in MemoryBuffers(PoolReward) /\ a.current.at < block
    BY CommitmentType DEF CommitmentTimed
  <2>2. a.current.at \in Nat
    BY <2>1, LatestType
  <2>3. /\ Remember(a, block, NoRewards).current = [at |-> block, value |-> NoRewards]
        /\ Remember(a, block, NoRewards).past
              = (IF block = a.current.at THEN a.past ELSE a.current)
    BY <1>3, <2>1, RememberType
  <2> HIDE DEF a, new, b
  <2> QED BY <1>1, <2>1, <2>2, <2>3
<1>5. old = None => b.current = [at |-> block, value |-> NoRewards] /\ b.past = None
  <2>1. /\ MemoryBuffer(block, NoRewards).current = [at |-> block, value |-> NoRewards]
        /\ MemoryBuffer(block, NoRewards).past = None
    BY <1>3, MemoryBufferType
  <2> HIDE DEF b
  <2> QED BY <1>1, <2>1
<1>6. CommitmentTimed(new, A, block)
  <2>1. StakeTimed(st, A, block)
    BY <1>2 DEF StakeTimed
  <2>2. b.current.at = block
    BY <1>4, <1>5
  <2>3. b.past # None => b.past.at < b.current.at
    BY <1>4, <1>5, <2>2
  <2> HIDE DEF new, st
  <2> QED BY <1>1, <1>2, <2>1, <2>2, <2>3 DEF CommitmentTimed
<1>7. ASSUME old # None, NEW d \in Delegations, DelegationHolds(d, old, A, block)
      PROVE  ~Fresh(new, d) /\ DelegationHolds(d, new, A, block)
  <2> DEFINE t == d.stake.created
  <2>1. d.stake \in Stakes /\ t \in Nat /\ d.stake.cooldown_period \in Nat
    BY DelegationType, StakeType
  <2>2. Outlived(d.stake, A, block) /\ StakeHolds(d.stake, block)
        /\ DebtBounded(d, get_latest(a, t))
    <3>1. ~Fresh(old, d)
      BY <1>7 DEF Fresh
    <3> QED BY <1>7, <3>1 DEF DelegationHolds
  <2>3. t < block
    <3>1. PICK u \in A : t <= u /\ u + d.stake.cooldown_period <= block
      BY <2>2 DEF Outlived
    <3>2. u \in Nat /\ d.stake.cooldown_period >= 1
      BY <2>2 DEF StakeHolds
    <3> HIDE DEF t
    <3> QED BY <2>1, <3>1, <3>2
  <2>4. ~Fresh(new, d)
    <3> HIDE DEF new, st
    <3> QED BY <1>1, <1>2, <2>1, <2>3 DEF Fresh
  <2>5. get_latest(b, t) \in {get_latest(a, t), None}
    <3> HIDE DEF a, b
    <3>1. b.current.at = block /\ b.past = a.current /\ a.current.at \in Nat
      BY <1>4, <1>7, LatestType
    <3> QED BY <2>1, <2>3, <3>1 DEF get_latest
  <2>6. DebtBounded(d, get_latest(b, t))
    BY <2>2, <2>5 DEF DebtBounded
  <2> HIDE DEF new
  <2> QED BY <2>2, <2>4, <2>6 DEF DelegationHolds
<1> HIDE DEF new
<1> QED BY <1>6, <1>7 DEF new

Affordable(s, c, n) == s.delegator_total[c] + n <= Balance(s, c)

LEMMA CommittingHolds ==
    ASSUME Clock, NEW s, StoreInv(s, announced, block), NEW c, c \in Committers, ~Staked(s, c),
           NEW n, NEW p, n \in Nat, p \in Nat, p >= 1,
           Affordable(s, c, n), NEW ok, ok \in BOOLEAN
    PROVE  LET t == Committing(s, c, n, p, ok)
           IN  /\ StoreInv(t, announced, block) /\ t.delegations = s.delegations
               /\ \A b \in Committers : Staked(s, b) => Staked(t, b)
<1> DEFINE old == s.commitments[c]
           A == announced[c]
           new == NewCommitment(old, n, p)
           cs == [s.commitments EXCEPT ![c] = new]
           lk == [s.locks EXCEPT ![c] = s.delegator_total[c] + n]
           total == s.total_stake + n
           t == Committing(s, c, n, p, ok)
<1>1. /\ Typed(s) /\ SumsInv(s) /\ WeightsInv(s) /\ old \in Commitments \cup {None}
      /\ block \in Nat /\ c \in Accounts /\ A \subseteq Nat
      /\ old # None => old.stake = None /\ CommitmentTimed(old, A, block)
  BY TypedFields, Constants DEF StoreInv, CommitmentsInv, Staked, Clock
<1>2. /\ new \in Commitments /\ new.stake = NewStake(n, p)
      /\ CurrentWeights(new).delegations_reward = 0
      /\ CurrentWeights(new).delegations_slash = 0
  <2> HIDE DEF old
  <2> QED BY <1>1, NewCommitmentType
<1>3. /\ CommitmentTimed(new, A, block)
      /\ old # None => \A d \in Delegations : DelegationHolds(d, old, A, block) =>
            ~Fresh(new, d) /\ DelegationHolds(d, new, A, block)
  <2> HIDE DEF old, A
  <2> QED BY <1>1, NewCommitmentHolds
<1>4. new # None /\ new.stake # None /\ new.stake.amount = n
  BY <1>1, <1>2, NewStakeType, NoneIsNone
<1>5. /\ s.locks \in [Accounts -> Nat] /\ s.total_stake \in Nat /\ s.overslashed \in Nat
      /\ s.delegator_total[c] \in Nat
      /\ \A b \in Accounts : s.ledger.free[b] \in Nat /\ s.ledger.held[b] = 0
  BY <1>1, TypedFields
<1>6. s.locks[c] = s.delegator_total[c] /\ OwnStake(s, c) = 0
  <2>1. OwnStake(s, c) = 0
    BY DEF OwnStake
  <2> QED BY <1>1, <1>5, <2>1 DEF SumsInv, AccountAddsUp
<1>7. /\ lk \in [Accounts -> Nat] /\ total \in Nat
      /\ \A b \in Accounts : lk[b] = s.locks[b] + (IF b = c THEN n ELSE 0)
  BY <1>1, <1>5, <1>6
<1>8. cs \in [Committers -> Commitments \cup {None}]
  <2> HIDE DEF new
  <2> QED BY <1>1, <1>2, TypedFields
<1>9. t = Rec(cs, s.delegations, s.delegator_total, total, lk, s.ledger, s.unrecorded,
              s.overslashed, s.reward, ok)
  BY DEF Committing
<1> HIDE DEF cs, lk, total, new, t
<1>10. Typed(t)
  BY <1>1, <1>7, <1>8, <1>9, TypedFields, RecTyped
<1>11. /\ t.commitments = cs /\ t.delegations = s.delegations
       /\ t.delegator_total = s.delegator_total /\ t.total_stake = total /\ t.locks = lk
       /\ t.ledger = s.ledger /\ t.overslashed = s.overslashed
  BY <1>9, RecFields
<1>12. t.commitments[c] = new /\ \A b \in Committers : b # c => t.commitments[b] = s.commitments[b]
  BY <1>1, <1>11, TypedFields DEF cs
<1>13. SumsInv(t)
  <2> DEFINE z == 0
  <2>1. n \in Int /\ z \in Nat
    OBVIOUS
  <2>2. \A b \in Accounts : OwnStake(t, b) = OwnStake(s, b) + (IF b = c THEN n ELSE 0)
    <3> TAKE b \in Accounts
    <3>1. OwnStake(s, b) \in Nat
      BY <1>1, OwnStakesType
    <3>2. CASE b = c
      <4>1. OwnStake(t, c) = n
        BY <1>4, <1>12 DEF OwnStake, Staked
      <4> QED BY <1>6, <3>2, <4>1
    <3>3. CASE b # c
      <4>1. OwnStake(t, b) = OwnStake(s, b)
        BY <1>12, <3>3 DEF OwnStake, Staked
      <4> QED BY <3>1, <3>3, <4>1
    <3> QED BY <3>2, <3>3
  <2>5. \A b \in Accounts : t.locks[b] <= t.ledger.free[b] + t.overslashed
    <3> TAKE b \in Accounts
    <3>1. s.locks[b] <= s.ledger.free[b] + s.overslashed
      BY <1>1 DEF SumsInv, AccountAddsUp
    <3>2. s.locks[b] \in Nat /\ s.ledger.free[b] \in Nat
      BY <1>5
    <3>3. t.ledger.free[b] = s.ledger.free[b] /\ t.overslashed = s.overslashed
      BY <1>11
    <3>4. t.locks[b] = s.locks[b] + (IF b = c THEN n ELSE 0)
      BY <1>7, <1>11
    <3>5. b = c => s.locks[b] + n <= s.ledger.free[b]
      <4>1. s.ledger.held[c] = 0 /\ s.ledger.free[c] \in Nat
        BY <1>1, <1>5
      <4> QED BY <1>6, <4>1 DEF Balance, Affordable
    <3> QED BY <1>5, <3>1, <3>2, <3>3, <3>4, <3>5
  <2>6. t.total_stake = s.total_stake + n - z /\ t.overslashed = s.overslashed + z
    BY <1>5, <1>11 DEF total
  <2>7. AmountsOf(t) = AmountsOf(s)
    BY <1>11 DEF AmountsOf
  <2> HIDE DEF z
  <2>8. \A b \in Accounts :
          /\ t.delegator_total[b] = s.delegator_total[b]
          /\ t.locks[b] = s.locks[b] + (IF b = c THEN n ELSE 0)
          /\ t.locks[b] <= t.ledger.free[b] + t.overslashed
    BY <1>7, <1>11, <2>5
  <2> QED BY <1>1, <1>10, <2>1, <2>2, <2>6, <2>7, <2>8, SumsFollowStake
<1>14. \A k \in DOMAIN s.delegations : k[2] = c =>
          /\ old # None /\ ~Fresh(new, s.delegations[k])
          /\ DelegationHolds(s.delegations[k], new, A, block)
  <2> TAKE k \in DOMAIN s.delegations
  <2> HAVE k[2] = c
  <2> DEFINE d == s.delegations[k]
  <2>1. old # None /\ d \in Delegations /\ DelegationHolds(d, old, A, block)
    BY <1>1, StoreFacts DEF StoreInv, DelegationsInv
  <2> HIDE DEF d, old, A
  <2>2. ~Fresh(new, d) /\ DelegationHolds(d, new, A, block)
    BY <1>3, <2>1
  <2> QED BY <2>1, <2>2 DEF d
<1>15. WeightsInv(t)
  <2> SUFFICES ASSUME NEW b \in Committers, Staked(t, b) PROVE PoolWeighs(t, b)
    BY DEF WeightsInv
  <2>1. CASE b = c
    <3>1. FreshKeys(t, c) = {}
      BY <1>11, <1>12, <1>14 DEF FreshKeys
    <3>2. /\ SumOver(RewardWeights(t), FreshKeys(t, c)) = 0
          /\ SumOver(SlashWeights(t), FreshKeys(t, c)) = 0
      BY <3>1, SumEmpty
    <3> QED BY <1>2, <1>12, <2>1, <3>2 DEF PoolWeighs
  <2>2. CASE b # c
    <3>1. t.commitments[b] = s.commitments[b]
      BY <1>12, <2>2
    <3>2. Staked(s, b)
      BY <3>1 DEF Staked
    <3>3. PoolWeighs(s, b)
      BY <1>1, <3>2 DEF WeightsInv
    <3>4. FreshKeys(t, b) = FreshKeys(s, b)
      BY <1>11, <3>1 DEF FreshKeys
    <3>5. RewardWeights(t) = RewardWeights(s) /\ SlashWeights(t) = SlashWeights(s)
      BY <1>11 DEF RewardWeights, SlashWeights
    <3> QED BY <3>1, <3>3, <3>4, <3>5 DEF PoolWeighs
  <2> QED BY <2>1, <2>2
<1>16. CommitmentsInv(t, announced, block)
  BY <1>3, <1>12 DEF StoreInv, CommitmentsInv
<1>17. DelegationsInv(t, announced, block)
  <2> SUFFICES ASSUME NEW k \in DOMAIN s.delegations
               PROVE  /\ t.commitments[k[2]] # None
                      /\ DelegationHolds(s.delegations[k], t.commitments[k[2]],
                                         announced[k[2]], block)
    BY <1>11 DEF DelegationsInv
  <2>1. /\ s.commitments[k[2]] # None /\ k[2] \in Committers
        /\ DelegationHolds(s.delegations[k], s.commitments[k[2]], announced[k[2]], block)
    BY <1>1, StoreFacts DEF StoreInv, DelegationsInv
  <2>2. CASE k[2] = c
    BY <1>4, <1>12, <1>14, <2>2
  <2>3. CASE k[2] # c
    BY <1>12, <2>1, <2>3
  <2> QED BY <2>2, <2>3
<1>18. \A b \in Committers : Staked(s, b) => Staked(t, b)
  BY <1>12 DEF Staked
<1>19. StoreInv(t, announced, block)
  BY <1>10, <1>13, <1>15, <1>16, <1>17 DEF StoreInv
<1> QED BY <1>11, <1>18, <1>19 DEF t

LEMMA StakeForHolds ==
    ASSUME Clock, NEW s, StoreInv(s, announced, block), NEW c, c \in Committers, ~Staked(s, c),
           NEW n, NEW p, n \in Nat, p \in Nat, p >= 1, stake_for(s, c, n, p).ok
    PROVE  LET t == stake_for(s, c, n, p)
           IN  /\ StoreInv(t, announced, block) /\ t.delegations = s.delegations
               /\ \A b \in Committers : Staked(s, b) => Staked(t, b)
<1> DEFINE ok == s.ok /\ s.delegator_total[c] + n <= Balance(s, c)
           t == stake_for(s, c, n, p)
<1>1. t = Committing(s, c, n, p, ok)
  BY StakeForFields DEF StoreInv
<1>2. ok \in BOOLEAN
  OBVIOUS
<1> HIDE DEF ok, t
<1>3. ok
  <2>1. t.ok
    BY DEF t
  <2> QED BY <1>1, <2>1, RecFields DEF Committing
<1>4. Affordable(s, c, n)
  BY <1>3 DEF ok, Affordable
<1>5. /\ StoreInv(t, announced, block) /\ t.delegations = s.delegations
      /\ \A b \in Committers : Staked(s, b) => Staked(t, b)
  BY <1>1, <1>2, <1>4, CommittingHolds
<1> QED BY <1>5 DEF t

\* A commitment changes, and neither its amount nor anything else.
SameTotals(s, t) ==
    /\ t.delegator_total = s.delegator_total /\ t.locks = s.locks
    /\ t.total_stake = s.total_stake /\ t.overslashed = s.overslashed /\ t.ledger = s.ledger

SameAmount(old, new) == old.stake # None => new.stake.amount = old.stake.amount

LEMMA EvolveHolds ==
    ASSUME block \in Nat, NEW A, NEW s, NEW t, StoreInv(s, A, block), Typed(t),
           NEW c, c \in Committers, NEW new, Recommitted(s, t, c, new),
           CommitmentTimed(new, A[c], block), SameTotals(s, t),
           SameAmount(s.commitments[c], new)
    PROVE  /\ StoreInv(t, A, block) /\ t.delegations = s.delegations
           /\ \A b \in Committers : Staked(t, b) <=> Staked(s, b)
<1> DEFINE cm == s.commitments[c]
<1>1. /\ Typed(s) /\ SumsInv(s) /\ cm \in Commitments /\ new \in Commitments
      /\ cm # None /\ new # None /\ t.delegations = s.delegations
      /\ (new.stake = None) <=> (cm.stake = None)
  BY NoneIsNone DEF StoreInv, Recommitted, PoolEvolves
<1>2. t.commitments[c] = new /\ \A b \in Committers : b # c => t.commitments[b] = s.commitments[b]
  BY <1>1, TypedFields DEF Recommitted
<1>3. \A b \in Committers : Staked(t, b) <=> Staked(s, b)
  <2> TAKE b \in Committers
  <2>1. CASE b = c
    BY <1>1, <1>2, <2>1 DEF Staked
  <2>2. CASE b # c
    BY <1>2, <2>2 DEF Staked
  <2> QED BY <2>1, <2>2
<1>4. \A b \in Committers : OwnStake(t, b) = OwnStake(s, b)
  <2> TAKE b \in Committers
  <2>1. CASE b = c
    BY <1>2, <1>3, <2>1 DEF OwnStake, Staked, SameAmount
  <2>2. CASE b # c
    BY <1>2, <1>3, <2>2 DEF OwnStake
  <2> QED BY <2>1, <2>2
<1>5. AmountsOf(t) = AmountsOf(s)
  BY <1>1 DEF AmountsOf
<1>6. \A a \in Accounts : t.ledger.free[a] >= s.ledger.free[a]
  <2>1. \A a \in Accounts : s.ledger.free[a] \in Nat
    BY <1>1, TypedFields
  <2>2. t.ledger = s.ledger
    BY DEF SameTotals
  <2> TAKE a \in Accounts
  <2>3. t.ledger.free[a] = s.ledger.free[a] /\ s.ledger.free[a] \in Nat
    BY <2>1, <2>2
  <2> QED BY <2>3
<1>7. SumsInv(t)
  BY <1>1, <1>4, <1>5, <1>6, SumsStay DEF SameTotals
<1>8. StoreInv(t, A, block)
  BY <1>7, RecommitHolds
<1> QED BY <1>1, <1>3, <1>8

\* cooldown_commitment_for.
OnNotice(cm) ==
    [cm EXCEPT
        !.stake.cooldown_started = block,
        !.stake.rewardable_amount = Part(CooldownRewardRatio, cm.stake.amount),
        !.weights = Remember(@, epoch,
            [CurrentWeights(cm) EXCEPT
                !.self_reward = Weight(Part(CooldownRewardRatio, cm.stake.amount),
                                       cm.stake.cooldown_period)])]

LEMMA OnNoticeType ==
    ASSUME block \in Nat, NEW cm, cm \in Commitments, cm.stake # None,
           NEW A, CommitmentTimed(cm, A, block), block \in A, cm.stake.cooldown_started = None
    PROVE  LET u == OnNotice(cm)
           IN  /\ u \in Commitments /\ SameAmount(cm, u)
               /\ PoolEvolves(cm, u, block) /\ CommitmentTimed(u, A, block)
               /\ CurrentWeights(u).delegations_reward = CurrentWeights(cm).delegations_reward
               /\ CurrentWeights(u).delegations_slash = CurrentWeights(cm).delegations_slash
<1> DEFINE st == cm.stake
           x == st.amount
           y == Part(CooldownRewardRatio, cm.stake.amount)
           p == st.cooldown_period
           q == block
           z == st.accrued_reward
           v == Weight(y, p)
           w == [CurrentWeights(cm) EXCEPT !.self_reward = v]
           b == Remember(cm.weights, epoch, w)
           new == TermsAs(st, x, y, p, q, z)
           s1 == [st EXCEPT !.cooldown_started = q]
           s2 == [s1 EXCEPT !.rewardable_amount = y]
           c1 == [cm EXCEPT !.stake = [cm.stake EXCEPT !.cooldown_started = q]]
           c2 == [c1 EXCEPT !.stake = [c1.stake EXCEPT !.rewardable_amount = y]]
           u == OnNotice(cm)
<1>1. st \in Stakes
  BY CommitmentType
<1>2. x \in Nat /\ q \in Nat \cup {None} /\ z \in Nat /\ p \in Nat
  BY <1>1, StakeType
<1>3. y \in Nat
  BY <1>2, PartType, Constants
<1>4. v \in Nat
  <2> HIDE DEF y, p
  <2> QED BY <1>2, <1>3, WeightType
<1>5. /\ w \in Weights
      /\ w.delegations_reward = CurrentWeights(cm).delegations_reward
      /\ w.delegations_slash = CurrentWeights(cm).delegations_slash
  <2>1. CurrentWeights(cm) \in Weights
    BY CommitmentType
  <2> HIDE DEF v
  <2> QED BY <1>4, <2>1 DEF Weights
<1>6. b \in MemoryBuffers(Weights) /\ b.current.value = w
  <2>1. cm.weights \in MemoryBuffers(Weights) /\ epoch \in Nat
    BY CommitmentType, EpochType
  <2> HIDE DEF w
  <2>2. b \in MemoryBuffers(Weights) /\ b.current = [at |-> epoch, value |-> w]
    BY <1>5, <2>1, RememberType
  <2> QED BY <2>2
<1>7. u = [c2 EXCEPT !.weights = Remember(c2.weights, epoch, w)]
  BY DEF OnNotice
<1>8. s2 = new
  <2> HIDE DEF st, y, q
  <2> QED BY <1>1, StakeReplaced
<1>9. new \in Stakes /\ new.amount = x
  <2> HIDE DEF st, x, y, p, q, z
  <2> QED BY <1>1, <1>2, <1>3, TermsAsType
<1>10. cm = StakedAs(cm, st)
  BY CommitmentType DEF StakedAs
<1>11. c1 = StakedAs(cm, s1) /\ c1.stake = s1
  <2>1. c1 = [cm EXCEPT !.stake = s1]
    OBVIOUS
  <2> HIDE DEF s1, c1
  <2> QED BY <1>10, <2>1 DEF StakedAs
<1> HIDE DEF c1
<1>12. c2 = [c1 EXCEPT !.stake = new]
  BY <1>8, <1>11
<1> HIDE DEF new, c2, s1, s2
<1>13. c2 = StakedAs(cm, new)
  BY <1>11, <1>12 DEF StakedAs
<1>14. u = [stake |-> new,
            delegations_total_amount |-> cm.delegations_total_amount,
            delegations_total_rewardable_amount |-> cm.delegations_total_rewardable_amount,
            weights |-> b, pool_rewards |-> cm.pool_rewards,
            last_scoring_epoch |-> cm.last_scoring_epoch,
            last_slashing_epoch |-> cm.last_slashing_epoch]
  <2>1. c2.weights = cm.weights
    BY <1>13 DEF StakedAs
  <2>2. u = [c2 EXCEPT !.weights = b]
    BY <1>7, <2>1
  <2> HIDE DEF u, b
  <2> QED BY <1>13, <2>2 DEF StakedAs
<1> HIDE DEF b, w, u
<1>15. u \in Commitments
  <2>1. new \in Stakes \cup {None}
    BY <1>9
  <2> QED BY <1>6, <1>14, <2>1, CommitmentType, MakeCommitment
<1>16. CurrentWeights(u) = w /\ u.stake = new /\ u.pool_rewards = cm.pool_rewards
  BY <1>6, <1>14 DEF CurrentWeights
<1>17. PoolEvolves(cm, u, block) /\ CommitmentTimed(u, A, block)
  <2>1. u.stake = TermsAs(cm.stake, x, y, p, q, z) /\ cm.stake.cooldown_period <= p
        /\ q = block /\ q \in A
    BY <1>2, <1>16 DEF new
  <2> HIDE DEF x, y, p, q, z
  <2> QED BY <1>2, <1>3, <1>15, <1>16, <2>1, TermsEvolve
<1>18. SameAmount(cm, u)
  BY <1>9, <1>16 DEF SameAmount
<1> QED BY <1>5, <1>15, <1>16, <1>17, <1>18 DEF u

\* do_slash: what decrease_committer_stake leaves of a commitment, and what is
\* added to the debts of its delegators.
LeftStake(cm, n) ==
    IF n = 0 THEN cm
    ELSE Reweigh(Resized(cm, Minus(cm.stake.amount, n),
                         IF cm.stake.cooldown_started = None THEN Minus(cm.stake.amount, n)
                         ELSE Part(CooldownRewardRatio, Minus(cm.stake.amount, n))))

Penalised(cm, e) ==
    [cm EXCEPT !.pool_rewards.current.value.slash_per_weight = @ + e,
               !.last_slashing_epoch = epoch - 1]

SameWeights(old, new) ==
    /\ CurrentWeights(new).delegations_reward = CurrentWeights(old).delegations_reward
    /\ CurrentWeights(new).delegations_slash = CurrentWeights(old).delegations_slash

LEMMA LeftStakeType ==
    ASSUME block \in Nat, NEW cm, cm \in Commitments, cm.stake # None,
           NEW A, CommitmentTimed(cm, A, block), NEW n, n \in Nat
    PROVE  LET u == LeftStake(cm, n)
           IN  /\ u \in Commitments /\ u.stake # None
               /\ u.stake.amount = Minus(cm.stake.amount, n)
               /\ PoolEvolves(cm, u, block) /\ CommitmentTimed(u, A, block)
               /\ SameWeights(cm, u) /\ u.pool_rewards = cm.pool_rewards
<1> DEFINE st == cm.stake
           x == Minus(st.amount, n)
           y == IF st.cooldown_started = None THEN Minus(st.amount, n)
                ELSE Part(CooldownRewardRatio, Minus(st.amount, n))
           p == st.cooldown_period
           q == st.cooldown_started
           z == st.accrued_reward
           new == TermsAs(st, x, y, p, q, z)
           rsd == Resized(cm, x, y)
           u == LeftStake(cm, n)
<1>1. st \in Stakes
  BY CommitmentType
<1>2. st.amount \in Nat /\ q \in Nat \cup {None} /\ z \in Nat /\ p \in Nat
  BY <1>1, StakeType
<1>3. x \in Nat
  BY <1>2, MinusType
<1>4. y \in Nat
  <2>1. Part(CooldownRewardRatio, x) \in Nat
    <3> HIDE DEF x
    <3> QED BY <1>3, PartType, Constants
  <2> QED BY <1>3, <2>1
<1>5. CASE n = 0
  <2>1. u = cm
    BY <1>5 DEF LeftStake
  <2>2. x = st.amount
    BY <1>2, <1>5 DEF Minus
  <2>3. cm.pool_rewards.current.value.slash_per_weight \in Nat
    <3>1. cm.pool_rewards.current.value \in PoolReward
      BY CommitmentType, LatestType
    <3> QED BY <3>1 DEF PoolReward
  <2>4. PoolEvolves(cm, cm, block)
    BY <1>2, <2>3 DEF PoolEvolves
  <2> QED BY <2>1, <2>2, <2>4 DEF SameWeights
<1>6. CASE n # 0
  <2>1. rsd = StakedAs(cm, new)
    <3> HIDE DEF x, y
    <3> QED BY CommitmentReplaced
  <2>2. new \in Stakes /\ new.amount = x
    <3> HIDE DEF st, x, y, p, q, z
    <3> QED BY <1>1, <1>2, <1>3, <1>4, TermsAsType
  <2>3. u = Reweigh(rsd)
    BY <1>6 DEF LeftStake
  <2> HIDE DEF new, rsd, u
  <2>4. /\ rsd \in Commitments /\ rsd.stake = new /\ rsd.stake # None
        /\ rsd.pool_rewards = cm.pool_rewards /\ CurrentWeights(rsd) = CurrentWeights(cm)
    BY <2>1, <2>2, StakedAsType
  <2>5. /\ u \in Commitments /\ u.stake = rsd.stake /\ u.pool_rewards = rsd.pool_rewards
        /\ CurrentWeights(u).delegations_reward = CurrentWeights(rsd).delegations_reward
        /\ CurrentWeights(u).delegations_slash = CurrentWeights(rsd).delegations_slash
    BY <2>3, <2>4, ReweighType
  <2>6. u.stake = TermsAs(cm.stake, x, y, p, q, z) /\ u.pool_rewards = cm.pool_rewards
    BY <2>4, <2>5 DEF new
  <2>7. PoolEvolves(cm, u, block) /\ CommitmentTimed(u, A, block)
    <3>1. cm.stake.cooldown_period <= p /\ q = cm.stake.cooldown_started
      BY <1>2
    <3> HIDE DEF x, y, p, q, z
    <3> QED BY <1>2, <1>3, <1>4, <2>5, <2>6, <3>1, TermsEvolve
  <2> QED BY <2>2, <2>4, <2>5, <2>6, <2>7 DEF SameWeights, u
<1> QED BY <1>5, <1>6

LEMMA PenalisedType ==
    ASSUME block \in Nat, epoch > 0, NEW cm, cm \in Commitments, NEW e, e \in Nat
    PROVE  LET u == Penalised(cm, e)
           IN  /\ u \in Commitments /\ u.stake = cm.stake /\ SameWeights(cm, u)
               /\ u.pool_rewards.current.at = cm.pool_rewards.current.at
               /\ u.pool_rewards.past = cm.pool_rewards.past
               /\ cm.pool_rewards.current.value.slash_per_weight
                    <= u.pool_rewards.current.value.slash_per_weight
<1> DEFINE u == Penalised(cm, e)
           b == cm.pool_rewards
           v == b.current.value
           v1 == [v EXCEPT !.slash_per_weight = @ + e]
           x1 == [b.current EXCEPT !.value = v1]
           b1 == [b EXCEPT !.current = x1]
           c1 == [cm EXCEPT !.pool_rewards = b1]
           j == epoch - 1
<1>1. b \in MemoryBuffers(PoolReward) /\ v \in PoolReward
  BY CommitmentType, LatestType
<1>2. v.slash_per_weight \in Nat /\ v1 \in PoolReward
      /\ v.slash_per_weight <= v1.slash_per_weight
  BY <1>1 DEF PoolReward
<1>3. j \in Nat
  BY EpochType
<1>4. u = [c1 EXCEPT !.last_slashing_epoch = j]
  BY DEF Penalised
<1> HIDE DEF v1, v, j
<1>5. b1 \in MemoryBuffers(PoolReward) /\ b1.past = b.past /\ b1.current.at = b.current.at
      /\ b1.current.value = v1
  BY <1>1, <1>2 DEF MemoryBuffers, Entries
<1> HIDE DEF b1
<1>6. c1 = [stake |-> cm.stake, delegations_total_amount |-> cm.delegations_total_amount,
            delegations_total_rewardable_amount |-> cm.delegations_total_rewardable_amount,
            weights |-> cm.weights, pool_rewards |-> b1,
            last_scoring_epoch |-> cm.last_scoring_epoch,
            last_slashing_epoch |-> cm.last_slashing_epoch]
  BY CommitmentType
<1> HIDE DEF c1
<1>7. u = [stake |-> cm.stake, delegations_total_amount |-> cm.delegations_total_amount,
           delegations_total_rewardable_amount |-> cm.delegations_total_rewardable_amount,
           weights |-> cm.weights, pool_rewards |-> b1,
           last_scoring_epoch |-> cm.last_scoring_epoch,
           last_slashing_epoch |-> j]
  BY <1>4, <1>6
<1>8. u \in Commitments
  BY <1>3, <1>5, <1>7, CommitmentType, MakeCommitment
<1> HIDE DEF u
<1>9. u.stake = cm.stake /\ u.pool_rewards = b1 /\ CurrentWeights(u) = CurrentWeights(cm)
  BY <1>7 DEF CurrentWeights
<1> QED BY <1>2, <1>5, <1>8, <1>9 DEF SameWeights, u, v

\* The store after a slash.
Penalty(s, c, n, e, a, fee) ==
    LET u == decrease_committer_stake(s, c, n)
    IN  [u EXCEPT !.ledger = Deposit(Withdraw(@, c, n), a, fee),
                  !.commitments[c] = Penalised(u.commitments[c], e)]

SlashTotal(s, n) == IF n = 0 THEN s.total_stake ELSE s.total_stake - n

SlashLocks(s, c, n) ==
    IF n = 0 THEN s.locks
    ELSE [s.locks EXCEPT ![c] = s.delegator_total[c] + Minus(s.commitments[c].stake.amount, n)]

SlashLoss(s, c, n) ==
    IF n = 0 THEN s.overslashed
    ELSE s.overslashed + Minus(n, s.commitments[c].stake.amount)

CanSlash(s, c, n) ==
    IF n = 0 THEN s.ok
    ELSE /\ s.ok
         /\ s.delegator_total[c] + Minus(s.commitments[c].stake.amount, n) <= Balance(s, c)
         /\ n <= s.total_stake

LEMMA DecreaseCommitterFields ==
    ASSUME NEW s, Typed(s), NEW c, c \in Committers, NEW n
    PROVE  decrease_committer_stake(s, c, n)
             = Rec([s.commitments EXCEPT ![c] = LeftStake(s.commitments[c], n)], s.delegations,
                   s.delegator_total, SlashTotal(s, n), SlashLocks(s, c, n), s.ledger,
                   s.unrecorded, SlashLoss(s, c, n), s.reward, CanSlash(s, c, n))
<1> DEFINE cm == s.commitments[c]
           new == LeftStake(cm, n)
           u == decrease_committer_stake(s, c, n)
<1>1. s = Rec(s.commitments, s.delegations, s.delegator_total, s.total_stake, s.locks,
              s.ledger, s.unrecorded, s.overslashed, s.reward, s.ok)
  BY TypedIsRec
<1>2. CASE n = 0
  <2>1. u = s /\ new = cm
    BY <1>2 DEF decrease_committer_stake, LeftStake
  <2>2. [s.commitments EXCEPT ![c] = cm] = s.commitments
    BY TypedFields
  <2>3. /\ SlashTotal(s, n) = s.total_stake /\ SlashLocks(s, c, n) = s.locks
        /\ SlashLoss(s, c, n) = s.overslashed /\ CanSlash(s, c, n) = s.ok
    BY <1>2 DEF SlashTotal, SlashLocks, SlashLoss, CanSlash
  <2> HIDE DEF u, new, cm
  <2> QED BY <1>1, <2>1, <2>2, <2>3 DEF u, new, cm
<1>3. CASE n # 0
  <2> DEFINE x == s.delegator_total[c] + Minus(cm.stake.amount, n)
             z == Minus(n, cm.stake.amount)
             b == x <= Balance(s, c)
             ok == s.ok /\ b
             ok2 == ok /\ n <= s.total_stake
             lk == [s.locks EXCEPT ![c] = x]
             t1 == lock_funds(s, c, x)
             t2 == [t1 EXCEPT !.ok = @ /\ n <= s.total_stake]
             t3 == [t2 EXCEPT !.overslashed = @ + z]
             t4 == [t3 EXCEPT !.commitments[c] = new]
             t5 == [t4 EXCEPT !.total_stake = @ - n]
  <2>1. u = t5
    BY <1>3 DEF decrease_committer_stake, LeftStake, Resized
  <2>2. /\ SlashTotal(s, n) = s.total_stake - n /\ SlashLocks(s, c, n) = lk
        /\ SlashLoss(s, c, n) = s.overslashed + z /\ CanSlash(s, c, n) = ok2
    BY <1>3 DEF SlashTotal, SlashLocks, SlashLoss, CanSlash
  <2>3. t1 = Rec(s.commitments, s.delegations, s.delegator_total, s.total_stake, lk, s.ledger,
                 s.unrecorded, s.overslashed, s.reward, ok)
    <3> HIDE DEF x
    <3> QED BY LockFields
  <2> HIDE DEF x, z, b, ok, lk, t1, new
  <2>4. t2 = Rec(s.commitments, s.delegations, s.delegator_total, s.total_stake, lk, s.ledger,
                 s.unrecorded, s.overslashed, s.reward, ok2)
    <3>1. t1.ok = ok
      BY <2>3, RecFields
    <3>2. t2 = [t1 EXCEPT !.ok = ok2]
      BY <3>1
    <3> HIDE DEF t2, ok2
    <3> QED BY <2>3, <3>2 DEF Rec
  <2> HIDE DEF t2, ok2
  <2>5. t3 = Rec(s.commitments, s.delegations, s.delegator_total, s.total_stake, lk, s.ledger,
                 s.unrecorded, s.overslashed + z, s.reward, ok2)
    BY <2>4 DEF Rec
  <2> HIDE DEF t3
  <2>6. t4 = Rec([s.commitments EXCEPT ![c] = new], s.delegations, s.delegator_total,
                 s.total_stake, lk, s.ledger, s.unrecorded, s.overslashed + z, s.reward, ok2)
    BY <2>5 DEF Rec
  <2> HIDE DEF t4
  <2>7. t5 = Rec([s.commitments EXCEPT ![c] = new], s.delegations, s.delegator_total,
                 s.total_stake - n, lk, s.ledger, s.unrecorded, s.overslashed + z, s.reward, ok2)
    BY <2>6 DEF Rec
  <2> HIDE DEF t5, u
  <2> QED BY <2>1, <2>2, <2>7 DEF u, new
<1> QED BY <1>2, <1>3

LEMMA PenaltyFields ==
    ASSUME NEW s, Typed(s), NEW c, c \in Committers, NEW n, NEW e, NEW a, NEW fee
    PROVE  Penalty(s, c, n, e, a, fee)
             = Rec([s.commitments EXCEPT ![c] = Penalised(LeftStake(s.commitments[c], n), e)],
                   s.delegations, s.delegator_total, SlashTotal(s, n), SlashLocks(s, c, n),
                   Deposit(Withdraw(s.ledger, c, n), a, fee), s.unrecorded,
                   SlashLoss(s, c, n), s.reward, CanSlash(s, c, n))
<1> DEFINE u == decrease_committer_stake(s, c, n)
           new == LeftStake(s.commitments[c], n)
           cs == [s.commitments EXCEPT ![c] = new]
           pen == Penalised(new, e)
           total == SlashTotal(s, n)
           lk == SlashLocks(s, c, n)
           os == SlashLoss(s, c, n)
           ok == CanSlash(s, c, n)
           l == Deposit(Withdraw(s.ledger, c, n), a, fee)
           t1 == [u EXCEPT !.ledger = l]
           t2 == [t1 EXCEPT !.commitments[c] = pen]
<1>1. u = Rec(cs, s.delegations, s.delegator_total, total, lk, s.ledger, s.unrecorded, os,
              s.reward, ok)
  BY DecreaseCommitterFields
<1>2. u.ledger = s.ledger /\ u.commitments = cs
  <2> HIDE DEF u, cs, total, lk, os, ok
  <2> QED BY <1>1, RecFields
<1>3. cs[c] = new /\ [cs EXCEPT ![c] = pen] = [s.commitments EXCEPT ![c] = pen]
  <2> HIDE DEF new, pen
  <2> QED BY TypedFields
<1>4. Penalty(s, c, n, e, a, fee) = t2
  BY <1>2, <1>3 DEF Penalty
<1> HIDE DEF u, new, cs, pen, total, lk, os, ok, l
<1>5. t1 = Rec(cs, s.delegations, s.delegator_total, total, lk, l, s.unrecorded, os, s.reward, ok)
  BY <1>1 DEF Rec
<1> HIDE DEF t1
<1>6. t2 = Rec([cs EXCEPT ![c] = pen], s.delegations, s.delegator_total, total, lk, l,
               s.unrecorded, os, s.reward, ok)
  BY <1>5 DEF Rec
<1> HIDE DEF t2
<1> QED BY <1>3, <1>4, <1>6 DEF new, pen, total, lk, os, ok, l

\* What is burnt of an account, with a reward for the same or another one.
LEMMA BurntLedger ==
    ASSUME NEW l, l \in Ledgers, \A b \in Accounts : l.held[b] = 0,
           NEW c, c \in Accounts, NEW a, a \in Accounts, NEW n, n \in Nat, n <= l.free[c],
           NEW fee, fee \in Nat
    PROVE  LET t == Deposit(Withdraw(l, c, n), a, fee)
           IN  /\ t \in Ledgers /\ \A b \in Accounts : t.held[b] = 0
               /\ \A b \in Accounts : t.free[b] >= l.free[b] - (IF b = c THEN n ELSE 0)
<1> DEFINE f == [l.free EXCEPT ![c] = @ - n]
           g == [f EXCEPT ![a] = @ + fee]
           u == Withdraw(l, c, n)
           t == Deposit(u, a, fee)
<1>1. l = [free |-> l.free, held |-> l.held] /\ l.free \in [Accounts -> Nat]
      /\ l.held \in [Accounts -> Nat]
  BY DEF Ledgers
<1>2. u = [free |-> f, held |-> l.held]
  BY <1>1 DEF Withdraw
<1> HIDE DEF u
<1>3. t = [free |-> g, held |-> l.held]
  BY <1>2 DEF Deposit
<1> HIDE DEF t
<1>4. f \in [Accounts -> Nat] /\ \A b \in Accounts : f[b] = l.free[b] - (IF b = c THEN n ELSE 0)
  BY <1>1
<1> HIDE DEF f
<1>5. g \in [Accounts -> Nat] /\ \A b \in Accounts : g[b] >= f[b]
  BY <1>4
<1> HIDE DEF g
<1>6. t \in Ledgers /\ t.free = g /\ t.held = l.held
  BY <1>1, <1>3, <1>5 DEF Ledgers
<1>7. \A b \in Accounts : t.free[b] >= l.free[b] - (IF b = c THEN n ELSE 0)
  <2> TAKE b \in Accounts
  <2>1. g[b] >= f[b] /\ f[b] = l.free[b] - (IF b = c THEN n ELSE 0)
    BY <1>4, <1>5
  <2> QED BY <1>6, <2>1
<1> QED BY <1>6, <1>7 DEF t, u

\* How lock and totals move when n is taken from a stake of m.
LEMMA SlashArithmetic ==
    ASSUME NEW m, NEW n, m \in Nat, n \in Nat
    PROVE  /\ Minus(m, n) - m \in Int /\ Minus(n, m) \in Nat /\ Minus(m, n) \in Nat
           /\ \A x \in Int : x + (Minus(m, n) - m) - Minus(n, m) = x - n
           /\ \A x, y \in Int : m + x <= y => Minus(m, n) + x <= y - n + Minus(n, m)
BY DEF Minus

LEMMA SlashHolds ==
    ASSUME Clock, epoch > 0, NEW s, StoreInv(s, announced, block),
           NEW c, c \in Committers, Staked(s, c), NEW n, NEW e, NEW a, NEW fee,
           n \in Nat, e \in Nat, fee \in Nat, a \in Accounts, n <= s.ledger.free[c],
           Penalty(s, c, n, e, a, fee).ok
    PROVE  LET t == Penalty(s, c, n, e, a, fee)
           IN  /\ StoreInv(t, announced, block) /\ t.delegations = s.delegations
               /\ \A b \in Committers : Staked(s, b) => Staked(t, b)
<1> DEFINE cm == s.commitments[c]
           A == announced[c]
           amt == cm.stake.amount
           left == LeftStake(cm, n)
           new == Penalised(left, e)
           cs == [s.commitments EXCEPT ![c] = new]
           total == SlashTotal(s, n)
           lk == SlashLocks(s, c, n)
           os == SlashLoss(s, c, n)
           ok == CanSlash(s, c, n)
           l == Deposit(Withdraw(s.ledger, c, n), a, fee)
           m == Minus(amt, n) - amt
           z == Minus(n, amt)
           t == Penalty(s, c, n, e, a, fee)
<1>1. /\ Typed(s) /\ SumsInv(s) /\ cm \in Commitments /\ cm.stake # None
      /\ CommitmentTimed(cm, A, block) /\ block \in Nat /\ c \in Accounts
      /\ cm.stake \in Stakes /\ amt \in Nat
  <2>1. /\ Typed(s) /\ SumsInv(s) /\ cm \in Commitments /\ cm.stake # None
        /\ CommitmentTimed(cm, A, block) /\ block \in Nat /\ c \in Accounts
    BY TypedFields, Constants DEF StoreInv, CommitmentsInv, Staked, Clock
  <2>2. cm.stake \in Stakes
    BY <2>1, CommitmentType
  <2> QED BY <2>1, <2>2, StakeType
<1>2. /\ left \in Commitments /\ left.stake # None /\ left.stake.amount = Minus(amt, n)
      /\ PoolEvolves(cm, left, block) /\ CommitmentTimed(left, A, block)
      /\ SameWeights(cm, left) /\ left.pool_rewards = cm.pool_rewards
  <2> HIDE DEF cm, A
  <2> QED BY <1>1, LeftStakeType DEF amt
<1> HIDE DEF left
<1>3. /\ new \in Commitments /\ new.stake = left.stake /\ SameWeights(left, new)
      /\ new.pool_rewards.current.at = left.pool_rewards.current.at
      /\ new.pool_rewards.past = left.pool_rewards.past
      /\ left.pool_rewards.current.value.slash_per_weight
            <= new.pool_rewards.current.value.slash_per_weight
  BY <1>1, <1>2, PenalisedType
<1>4. t = Rec(cs, s.delegations, s.delegator_total, total, lk, l, s.unrecorded, os, s.reward, ok)
  BY <1>1, PenaltyFields DEF left
<1> HIDE DEF new
<1>5. PoolEvolves(cm, new, block)
  <2> HIDE DEF cm
  <2> QED BY <1>2, <1>3 DEF PoolEvolves
<1>6. CommitmentTimed(new, A, block)
  <2> HIDE DEF cm, A
  <2> QED BY <1>2, <1>3 DEF CommitmentTimed
<1>7. ok
  <2>1. t.ok
    OBVIOUS
  <2> HIDE DEF t, cs, total, lk, os, l, ok
  <2> QED BY <1>4, <2>1, RecFields
<1>8. /\ s.locks \in [Accounts -> Nat] /\ s.total_stake \in Nat /\ s.overslashed \in Nat
      /\ s.delegator_total[c] \in Nat /\ s.ledger \in Ledgers
      /\ \A b \in Accounts : s.ledger.free[b] \in Nat /\ s.ledger.held[b] = 0
  BY <1>1, TypedFields
<1>9. /\ m \in Int /\ z \in Nat /\ Minus(amt, n) \in Nat
      /\ \A x \in Int : x + m - z = x - n
      /\ \A x, y \in Int : amt + x <= y => Minus(amt, n) + x <= y - n + z
  <2> HIDE DEF amt
  <2> QED BY <1>1, SlashArithmetic
<1>10. s.locks[c] = amt + s.delegator_total[c]
  <2>1. OwnStake(s, c) = amt
    BY DEF OwnStake
  <2> QED BY <1>1, <2>1 DEF SumsInv, AccountAddsUp
<1>11. total \in Nat /\ total = s.total_stake + m - z
  <2>1. total = s.total_stake - n /\ total \in Nat
    BY <1>7, <1>8 DEF SlashTotal, CanSlash
  <2> HIDE DEF total, m, z
  <2> QED BY <1>8, <1>9, <2>1
<1>12. os \in Nat /\ os = s.overslashed + z
  <2>1. CASE n = 0
    <3>1. z = 0
      BY <1>1, <2>1 DEF Minus
    <3> QED BY <1>8, <2>1, <3>1 DEF SlashLoss
  <2>2. CASE n # 0
    <3>1. os = s.overslashed + z
      BY <2>2 DEF SlashLoss
    <3>2. z \in Nat
      BY <1>9
    <3> HIDE DEF z, os
    <3> QED BY <1>8, <3>1, <3>2
  <2> QED BY <2>1, <2>2
<1>13. /\ lk \in [Accounts -> Nat]
       /\ \A b \in Accounts : lk[b] = s.locks[b] + (IF b = c THEN m ELSE 0)
       /\ lk[c] = Minus(amt, n) + s.delegator_total[c]
  <2>1. CASE n = 0
    <3>1. Minus(amt, n) = amt
      BY <1>1, <2>1 DEF Minus
    <3>2. lk = s.locks
      BY <2>1 DEF SlashLocks
    <3> HIDE DEF amt, lk
    <3> QED BY <1>1, <1>8, <1>10, <3>1, <3>2
  <2>2. CASE n # 0
    <3> DEFINE x == s.delegator_total[c] + Minus(amt, n)
    <3>1. lk = [s.locks EXCEPT ![c] = x]
      BY <2>2 DEF SlashLocks
    <3>2. x \in Nat /\ x = s.locks[c] + m /\ x = Minus(amt, n) + s.delegator_total[c]
      <4> DEFINE y == Minus(amt, n)
      <4>1. y \in Nat /\ m = y - amt
        BY <1>9
      <4> HIDE DEF amt, y, m
      <4> QED BY <1>1, <1>8, <1>10, <4>1 DEF y
    <3> HIDE DEF amt, lk, x, m
    <3> QED BY <1>1, <1>8, <3>1, <3>2
  <2> QED BY <2>1, <2>2
<1>14. /\ l \in Ledgers /\ \A b \in Accounts : l.held[b] = 0
       /\ \A b \in Accounts : l.free[b] >= s.ledger.free[b] - (IF b = c THEN n ELSE 0)
  <2> DEFINE l0 == s.ledger
  <2>1. l0 \in Ledgers /\ (\A b \in Accounts : l0.held[b] = 0) /\ n <= l0.free[c]
    BY <1>8
  <2> HIDE DEF l0
  <2>2. LET q == Deposit(Withdraw(l0, c, n), a, fee)
        IN  /\ q \in Ledgers /\ \A b \in Accounts : q.held[b] = 0
            /\ \A b \in Accounts : q.free[b] >= l0.free[b] - (IF b = c THEN n ELSE 0)
    BY <1>1, <2>1, BurntLedger
  <2> QED BY <2>2 DEF l0
<1>15. cs \in [Committers -> Commitments \cup {None}]
  BY <1>1, <1>3, TypedFields
<1>16. ok \in BOOLEAN
  BY <1>1, TypedFields DEF CanSlash
<1> HIDE DEF cs, total, lk, os, ok, l, t, m, z
<1>17. Typed(t)
  BY <1>1, <1>4, <1>11, <1>12, <1>13, <1>14, <1>15, <1>16, TypedFields, RecTyped
<1>18. /\ t.commitments = cs /\ t.delegations = s.delegations
       /\ t.delegator_total = s.delegator_total /\ t.total_stake = total /\ t.locks = lk
       /\ t.ledger = l /\ t.overslashed = os
  BY <1>4, RecFields
<1>19. Recommitted(s, t, c, new)
  BY <1>1, <1>2, <1>3, <1>5, <1>18 DEF Recommitted, SameWeights, cs
<1>20. \A b \in Accounts : lk[b] <= l.free[b] + os
  <2> TAKE b \in Accounts
  <2>1. s.locks[b] <= s.ledger.free[b] + s.overslashed
    BY <1>1 DEF SumsInv, AccountAddsUp
  <2>2. /\ s.locks[b] \in Nat /\ s.ledger.free[b] \in Nat /\ lk[b] \in Nat /\ l.free[b] \in Nat
        /\ l.free[b] >= s.ledger.free[b] - (IF b = c THEN n ELSE 0)
    BY <1>8, <1>13, <1>14 DEF Ledgers
  <2>3. CASE b = c
    <3> DEFINE x == s.delegator_total[c]
               y == s.ledger.free[c] + s.overslashed
    <3>1. x \in Int /\ y \in Int /\ amt + x <= y
      BY <1>1, <1>8, <1>10, <2>1, <2>3
    <3>2. Minus(amt, n) + x <= y - n + z
      BY <1>9, <3>1
    <3>3. lk[c] = Minus(amt, n) + x
      BY <1>13
    <3>4. l.free[c] >= s.ledger.free[c] - n /\ l.free[c] \in Nat /\ s.ledger.free[c] \in Nat
      BY <2>2, <2>3
    <3> HIDE DEF x, amt
    <3> QED BY <1>8, <1>9, <1>12, <2>2, <2>3, <3>2, <3>3, <3>4
  <2>4. CASE b # c
    <3>1. lk[b] = s.locks[b] /\ l.free[b] >= s.ledger.free[b]
      BY <1>13, <2>2, <2>4
    <3> QED BY <1>8, <1>9, <1>12, <2>1, <2>2, <3>1
  <2> QED BY <2>3, <2>4
<1>21. ResizedBy(s, t, c, new, m, z)
  <2>1. new.stake # None /\ new.stake.amount = cm.stake.amount + m
    <3>1. new.stake.amount = Minus(amt, n)
      BY <1>2, <1>3
    <3>2. Minus(amt, n) = amt + m
      <4> HIDE DEF amt
      <4> QED BY <1>1, <1>9 DEF m
    <3> QED BY <1>2, <1>3, <3>1, <3>2
  <2> QED BY <1>9, <1>11, <1>12, <1>13, <1>18, <1>19, <1>20, <2>1 DEF ResizedBy
<1>22. StoreInv(t, announced, block)
  BY <1>6, <1>17, <1>21, ResizeHolds
<1>23. \A b \in Committers : Staked(s, b) => Staked(t, b)
  <2>1. t.commitments[c] = new /\ \A b \in Committers : b # c => t.commitments[b] = s.commitments[b]
    BY <1>1, <1>18, TypedFields DEF cs
  <2>2. new # None /\ new.stake # None
    BY <1>2, <1>3, NoneIsNone
  <2> QED BY <2>1, <2>2 DEF Staked
<1> QED BY <1>18, <1>22, <1>23 DEF t

-----------------------------------------------------------------------------
(***************************************************************************)
(* Rewards.                                                                *)
(***************************************************************************)
\* Writing and reading a sliding buffer.
LEMMA SlideType ==
    ASSUME NEW V, NEW b, b \in Sliding(V), NEW e, e \in Nat, NEW v, v \in V,
           NEW default, default \in V
    PROVE  Slide(b, e, v, default) \in Sliding(V)
<1>1. CASE e + 1 = b.epoch
  <2>1. Slide(b, e, v, default) = [b EXCEPT !.prev = v]
    BY <1>1 DEF Slide, Sliding
  <2> QED BY <2>1 DEF Sliding
<1>2. CASE e + 1 # b.epoch /\ e = b.epoch
  <2>1. Slide(b, e, v, default) = [b EXCEPT !.cur = v]
    BY <1>2 DEF Slide
  <2> QED BY <2>1 DEF Sliding
<1>3. CASE e + 1 # b.epoch /\ e # b.epoch
  <2>1. Slide(b, e, v, default)
          = [epoch |-> e, cur |-> v, prev |-> IF e = b.epoch + 1 THEN b.cur ELSE default]
    BY <1>3 DEF Slide
  <2>2. (IF e = b.epoch + 1 THEN b.cur ELSE default) \in V
    BY DEF Sliding
  <2> QED BY <2>1, <2>2 DEF Sliding
<1> QED BY <1>1, <1>2, <1>3

LEMMA AtType ==
    ASSUME NEW V, NEW b, b \in Sliding(V), NEW e, NEW default, default \in V
    PROVE  At(b, e, default) \in V
BY DEF At, Sliding

LEMMA WeightsAtType ==
    ASSUME NEW cm, cm \in Commitments, NEW e
    PROVE  LET w == WeightsAt(cm, e)
           IN  /\ w \in Weights /\ w.self_reward \in Nat /\ w.self_slash \in Nat
               /\ w.delegations_reward \in Nat /\ w.delegations_slash \in Nat
<1> DEFINE w == WeightsAt(cm, e)
<1>1. get_latest(cm.weights, e) \in Weights \cup {None}
  BY CommitmentType, LatestType
<1>2. NoWeights \in Weights
  BY DEF NoWeights, Weights
<1>3. w \in Weights
  BY <1>1, <1>2 DEF WeightsAt
<1> HIDE DEF w
<1>4. /\ w.self_reward \in Nat /\ w.self_slash \in Nat
      /\ w.delegations_reward \in Nat /\ w.delegations_slash \in Nat
  BY <1>3 DEF Weights
<1> QED BY <1>3, <1>4 DEF w

LEMMA ShareType ==
    ASSUME RewardsTyped, NEW c, c \in Committers
    PROVE  Share(c) \in Nat
<1> DEFINE b == At(budget, epoch - 1, NoBudget)
           x == At(scores[c], epoch - 1, 0)
           z == 0
<1>1. b \in [total : Nat, total_score : Nat]
  <2>1. NoBudget \in [total : Nat, total_score : Nat]
    BY DEF NoBudget
  <2> QED BY <2>1, AtType DEF RewardsTyped
<1>2. x \in Nat
  <2>1. z \in Nat /\ scores[c] \in Sliding(Nat)
    BY DEF RewardsTyped
  <2> HIDE DEF z
  <2>2. At(scores[c], epoch - 1, z) \in Nat
    BY <2>1, AtType
  <2> QED BY <2>2 DEF z
<1>3. Share(c) = IF b.total_score = 0 THEN 0 ELSE (x * b.total) \div b.total_score
  BY DEF Share
<1> HIDE DEF b, x
<1>4. x * b.total \in Nat /\ b.total_score \in Nat
  BY <1>1, <1>2
<1>5. CASE b.total_score = 0
  BY <1>3, <1>5
<1>6. CASE b.total_score # 0
  <2> DEFINE y == x * b.total
             d == b.total_score
  <2>1. y \in Nat /\ d \in Nat \ {0} /\ Share(c) = y \div d
    BY <1>3, <1>4, <1>6
  <2> HIDE DEF y, d
  <2> QED BY <2>1, QuotientType
<1> QED BY <1>5, <1>6

LEMMA ScoreType ==
    ASSUME NEW c, commitments[c] \in Commitments
    PROVE  Score(c) \in Nat
<1> DEFINE w == WeightsAt(commitments[c], epoch - 1)
           x == TotalRewardWeight(w)
<1>1. x \in Nat
  BY WeightsAtType DEF TotalRewardWeight
<1> HIDE DEF x
<1>2. Min({ScoreLimit, x}) \in Nat
  BY <1>1, Constants, SmallerOf
<1> QED BY <1>2 DEF Score, x

\* distribute and the end of the heartbeat.
Scored(cm, share) == [distribute(cm, share) EXCEPT !.last_scoring_epoch = epoch]

CreditedCommitment(cm, x, b, e) ==
    [[[cm EXCEPT !.stake.accrued_reward = @ + x] EXCEPT !.pool_rewards = b]
        EXCEPT !.last_scoring_epoch = e]

LEMMA CreditedType ==
    ASSUME NEW cm, cm \in Commitments, cm.stake # None, NEW x, x \in Nat,
           NEW b, b \in MemoryBuffers(PoolReward), NEW e, e \in Nat
    PROVE  LET u == CreditedCommitment(cm, x, b, e)
           IN  /\ u \in Commitments /\ u.pool_rewards = b /\ SameWeights(cm, u)
               /\ u.stake = TermsAs(cm.stake, cm.stake.amount, cm.stake.rewardable_amount,
                                    cm.stake.cooldown_period, cm.stake.cooldown_started,
                                    cm.stake.accrued_reward + x)
<1> DEFINE u == CreditedCommitment(cm, x, b, e)
           st == cm.stake
           z == st.accrued_reward + x
           new == TermsAs(st, st.amount, st.rewardable_amount, st.cooldown_period,
                          st.cooldown_started, z)
           s1 == [st EXCEPT !.accrued_reward = z]
           c1 == [cm EXCEPT !.stake = s1]
           c2 == [c1 EXCEPT !.pool_rewards = b]
<1>1. st \in Stakes
  BY CommitmentType
<1>2. z \in Nat
  BY <1>1, StakeType
<1>3. u = [c2 EXCEPT !.last_scoring_epoch = e]
  BY DEF CreditedCommitment
<1> HIDE DEF u
<1>4. new \in Stakes
  <2>1. /\ st.amount \in Nat /\ st.rewardable_amount \in Nat /\ st.cooldown_period \in Nat
        /\ st.cooldown_started \in Nat \cup {None}
    BY <1>1, StakeType
  <2> HIDE DEF st, z
  <2> QED BY <1>1, <1>2, <2>1, TermsAsType
<1>5. s1 = new
  <2>1. \A y : [st EXCEPT !.accrued_reward = y]
                = TermsAs(st, st.amount, st.rewardable_amount, st.cooldown_period,
                          st.cooldown_started, y)
    <3> HIDE DEF st
    <3> QED BY <1>1, StakeReplaced
  <2> HIDE DEF st, z
  <2> QED BY <2>1
<1> HIDE DEF s1, new
<1>6. c1 = [cm EXCEPT !.stake = new]
  BY <1>5
<1> HIDE DEF c1
<1>7. c1 = StakedAs(cm, new)
  BY <1>6, CommitmentType DEF StakedAs
<1>8. c2 = [stake |-> new, delegations_total_amount |-> cm.delegations_total_amount,
            delegations_total_rewardable_amount |-> cm.delegations_total_rewardable_amount,
            weights |-> cm.weights, pool_rewards |-> b,
            last_scoring_epoch |-> cm.last_scoring_epoch,
            last_slashing_epoch |-> cm.last_slashing_epoch]
  BY <1>7 DEF StakedAs
<1> HIDE DEF c2
<1>9. u = [stake |-> new, delegations_total_amount |-> cm.delegations_total_amount,
           delegations_total_rewardable_amount |-> cm.delegations_total_rewardable_amount,
           weights |-> cm.weights, pool_rewards |-> b,
           last_scoring_epoch |-> e,
           last_slashing_epoch |-> cm.last_slashing_epoch]
  BY <1>3, <1>8
<1>10. u \in Commitments
  <2>1. new \in Stakes \cup {None}
    BY <1>4
  <2> QED BY <1>9, <2>1, CommitmentType, MakeCommitment
<1>11. u.stake = new /\ u.pool_rewards = b /\ CurrentWeights(u) = CurrentWeights(cm)
  BY <1>9 DEF CurrentWeights
<1> QED BY <1>10, <1>11 DEF SameWeights, new, u

LEMMA ScoredType ==
    ASSUME block \in Nat, NEW cm, cm \in Commitments, NEW A, CommitmentTimed(cm, A, block),
           NEW share, share \in Nat
    PROVE  LET u == Scored(cm, share)
           IN  /\ u \in Commitments /\ SameAmount(cm, u) /\ SameWeights(cm, u)
               /\ PoolEvolves(cm, u, block) /\ CommitmentTimed(u, A, block)
<1> DEFINE u == Scored(cm, share)
           w == WeightsAt(cm, epoch - 1)
           a == w.self_reward
           g == w.delegations_reward
           a0 == cm.pool_rewards
<1>1. a \in Nat /\ g \in Nat
  BY WeightsAtType
<1>2. epoch \in Nat
  BY EpochType
<1>3. /\ a0 \in MemoryBuffers(PoolReward) /\ a0.current.value \in PoolReward
      /\ a0.current.value.slash_per_weight \in Nat
  <2>1. a0 \in MemoryBuffers(PoolReward) /\ a0.current.value \in PoolReward
    BY CommitmentType, LatestType
  <2> QED BY <2>1 DEF PoolReward
<1>4. CASE cm.stake = None \/ TotalRewardWeight(w) = 0
  <2> DEFINE i == epoch
  <2>1. u = [cm EXCEPT !.last_scoring_epoch = i]
    BY <1>4 DEF Scored, distribute
  <2> HIDE DEF i, u
  <2>2. u = [stake |-> cm.stake, delegations_total_amount |-> cm.delegations_total_amount,
             delegations_total_rewardable_amount |-> cm.delegations_total_rewardable_amount,
             weights |-> cm.weights, pool_rewards |-> cm.pool_rewards,
             last_scoring_epoch |-> i, last_slashing_epoch |-> cm.last_slashing_epoch]
    BY <2>1, CommitmentType
  <2>3. i \in Nat
    BY <1>2 DEF i
  <2>4. u \in Commitments
    BY <2>2, <2>3, CommitmentType, MakeCommitment
  <2>5. u.stake = cm.stake /\ u.pool_rewards = cm.pool_rewards
        /\ CurrentWeights(u) = CurrentWeights(cm)
    BY <2>2 DEF CurrentWeights
  <2>6. PoolEvolves(cm, u, block)
    <3>1. cm.stake # None => cm.stake.cooldown_period \in Nat
      BY CommitmentType, StakeType
    <3> QED BY <1>3, <2>5, <3>1 DEF PoolEvolves
  <2>7. CommitmentTimed(u, A, block)
    BY <2>5 DEF CommitmentTimed
  <2> QED BY <2>4, <2>5, <2>6, <2>7 DEF SameAmount, SameWeights, u
<1>5. CASE cm.stake # None /\ TotalRewardWeight(w) # 0
  <2> DEFINE self == (a * share) \div (a + g)
             fee == Part(Commission, share - self)
             rest == share - self - fee
             r == get_latest(a0, cm.stake.created)
             q == (rest * PER_TOKEN_DECIMALS) \div g
             v == [r EXCEPT !.reward_per_weight = @ + q]
             b == IF g = 0 THEN a0 ELSE Remember(a0, cm.stake.created, v)
             st == cm.stake
             y == self + fee
             i == epoch
  <2>1. a + g # 0
    BY <1>5 DEF TotalRewardWeight
  <2>2. self \in Nat /\ self <= share
    <3> HIDE DEF a, g
    <3> QED BY <1>1, <2>1, ShareWithin
  <2>3. share - self \in Nat
    <3> HIDE DEF self
    <3> QED BY <2>2
  <2>4. fee \in Nat /\ fee <= share - self
    <3> DEFINE x == share - self
    <3>1. x \in Nat
      BY <2>3
    <3> HIDE DEF x
    <3>2. Part(Commission, x) \in Nat /\ Part(Commission, x) <= x
      BY <3>1, PartType, Constants
    <3> QED BY <3>2 DEF x
  <2>5. rest \in Nat /\ y \in Nat
    <3> HIDE DEF self, fee
    <3> QED BY <2>2, <2>3, <2>4
  <2>6. st \in Stakes /\ st.created \in Nat /\ st.accrued_reward \in Nat
        /\ a0.current.at = st.created
    <3>1. st \in Stakes
      BY <1>5, CommitmentType
    <3> QED BY <1>5, <3>1, StakeType DEF CommitmentTimed
  <2>7. r = a0.current.value
    <3> HIDE DEF a0
    <3> QED BY <1>3, <2>6, LatestType
  <2>8. /\ b \in MemoryBuffers(PoolReward) /\ b.past = a0.past
        /\ b.current.at = a0.current.at
        /\ a0.current.value.slash_per_weight = b.current.value.slash_per_weight
    <3>1. CASE g = 0
      BY <1>3, <3>1
    <3>2. CASE g # 0
      <4>1. q \in Nat
        <5> DEFINE x == rest * PER_TOKEN_DECIMALS
        <5>1. x \in Nat
          <6> HIDE DEF rest
          <6> QED BY <2>5, Constants
        <5>2. q = x \div g /\ g \in Nat \ {0}
          BY <1>1, <3>2
        <5> HIDE DEF x, g, q
        <5> QED BY <5>1, <5>2, QuotientType
      <4> HIDE DEF q
      <4>2. v \in PoolReward /\ v.slash_per_weight = r.slash_per_weight
        <5> HIDE DEF a0
        <5>1. r \in PoolReward
          BY <1>3, <2>7
        <5> HIDE DEF r
        <5> QED BY <4>1, <5>1 DEF PoolReward
      <4> HIDE DEF v, r
      <4> DEFINE x == st.created
      <4>3. x \in Nat /\ x = a0.current.at
        BY <2>6
      <4> HIDE DEF x, a0
      <4>4. /\ Remember(a0, x, v) \in MemoryBuffers(PoolReward)
            /\ Remember(a0, x, v).current = [at |-> x, value |-> v]
            /\ Remember(a0, x, v).past = (IF x = a0.current.at THEN a0.past ELSE a0.current)
        BY <1>3, <4>2, <4>3, RememberType
      <4>5. b = Remember(a0, x, v)
        BY <3>2 DEF x
      <4> HIDE DEF b
      <4> QED BY <2>7, <4>2, <4>3, <4>4, <4>5
    <3> QED BY <3>1, <3>2
  <2>9. u = CreditedCommitment(cm, y, b, i)
    <3>1. ~(cm.stake = None \/ TotalRewardWeight(w) = 0)
      BY <1>5
    <3>2. distribute(cm, share)
            = [cm EXCEPT !.stake.accrued_reward = @ + self + fee,
                         !.pool_rewards = IF g = 0 THEN @ ELSE Remember(@, cm.stake.created, v)]
      BY <3>1 DEF distribute, TotalRewardWeight
    <3> DEFINE k1 == [cm EXCEPT !.stake.accrued_reward = @ + self + fee]
               k2 == [cm EXCEPT !.stake.accrued_reward = @ + y]
    <3>3. k1 = k2
      <4>1. st.accrued_reward + self + fee = st.accrued_reward + y
        <5> HIDE DEF self, fee, st
        <5> QED BY <2>2, <2>4, <2>6
      <4> HIDE DEF self, fee, y
      <4> QED BY <4>1
    <3> HIDE DEF self, fee, y, v
    <3>4. k1.pool_rewards = a0
      BY CommitmentType
    <3>5. distribute(cm, share)
            = [k1 EXCEPT !.pool_rewards = IF g = 0 THEN k1.pool_rewards
                                          ELSE Remember(k1.pool_rewards, cm.stake.created, v)]
      BY <3>2
    <3>6. distribute(cm, share) = [k1 EXCEPT !.pool_rewards = b]
      <4> HIDE DEF k1, a0
      <4> QED BY <3>4, <3>5
    <3> HIDE DEF b
    <3> QED BY <3>3, <3>6 DEF Scored, CreditedCommitment
  <2>10. i \in Nat /\ cm.stake # None
    BY <1>2, <1>5
  <2> HIDE DEF y, b, i, u, self, fee, rest, r, q, v
  <2>11. /\ u \in Commitments /\ u.pool_rewards = b /\ SameWeights(cm, u)
         /\ u.stake = TermsAs(st, st.amount, st.rewardable_amount,
                              st.cooldown_period, st.cooldown_started, st.accrued_reward + y)
    BY <2>5, <2>8, <2>9, <2>10, CreditedType
  <2> DEFINE z == st.accrued_reward + y
  <2>12. /\ st.amount \in Nat /\ st.rewardable_amount \in Nat /\ st.cooldown_period \in Nat
         /\ st.cooldown_started \in Nat \cup {None} /\ z \in Nat
    BY <2>5, <2>6, StakeType
  <2>13. /\ u.stake \in Stakes /\ u.stake.amount = st.amount /\ u.stake.created = st.created
         /\ u.stake.cooldown_period = st.cooldown_period
         /\ u.stake.cooldown_started = st.cooldown_started
    <3> HIDE DEF st, z
    <3> QED BY <2>6, <2>11, <2>12, TermsAsType DEF z
  <2>14. u.stake # None
    BY <2>13, NoneIsNone
  <2>15. PoolEvolves(cm, u, block)
    BY <1>3, <2>8, <2>10, <2>11, <2>12, <2>13, <2>14 DEF PoolEvolves
  <2>16. CommitmentTimed(u, A, block)
    <3>1. StakeTimed(st, A, block)
      BY <2>10 DEF CommitmentTimed
    <3>2. StakeTimed(u.stake, A, block)
      BY <2>13, <3>1 DEF StakeTimed
    <3> QED BY <2>6, <2>8, <2>11, <2>13, <2>14, <3>2 DEF CommitmentTimed
  <2> QED BY <2>11, <2>13, <2>15, <2>16 DEF SameAmount, u
<1> QED BY <1>4, <1>5

-----------------------------------------------------------------------------
(***************************************************************************)
(* Transactions: the store they leave is the next state.                   *)
(***************************************************************************)
\* Nothing is given up.
Retained(s, t) ==
    /\ \A k \in DOMAIN s.delegations : DOMAIN t.delegations # DOMAIN s.delegations \ {k}
    /\ \A b \in Committers : Staked(s, b) => Staked(t, b)

LEMMA RetainedSame ==
    ASSUME NEW s, NEW t, DOMAIN t.delegations = DOMAIN s.delegations,
           \A b \in Committers : Staked(s, b) => Staked(t, b)
    PROVE  Retained(s, t)
<1>1. ASSUME NEW k \in DOMAIN s.delegations PROVE DOMAIN t.delegations # DOMAIN s.delegations \ {k}
  <2>1. k \in DOMAIN t.delegations /\ k \notin DOMAIN s.delegations \ {k}
    OBVIOUS
  <2> QED BY <2>1
<1> QED BY <1>1 DEF Retained

LEMMA RetainedJoined ==
    ASSUME NEW s, NEW t, NEW j, j \in DOMAIN t.delegations, j \notin DOMAIN s.delegations,
           \A b \in Committers : Staked(s, b) => Staked(t, b)
    PROVE  Retained(s, t)
<1>1. ASSUME NEW k \in DOMAIN s.delegations PROVE DOMAIN t.delegations # DOMAIN s.delegations \ {k}
  <2>1. j \notin DOMAIN s.delegations \ {k}
    OBVIOUS
  <2> QED BY <2>1
<1> QED BY <1>1 DEF Retained

\* The storage as a record.
LEMMA StoreIs ==
    /\ Store = Rec(commitments, delegations, delegator_total, total_stake, locks, ledger,
                   unrecorded, overslashed, 0, TRUE)
    /\ Store.commitments = commitments /\ Store.delegations = delegations
    /\ Store.delegator_total = delegator_total /\ Store.total_stake = total_stake
    /\ Store.locks = locks /\ Store.ledger = ledger /\ Store.unrecorded = unrecorded
    /\ Store.overslashed = overslashed /\ Store.reward = 0 /\ Store.ok = TRUE
BY DEF Store, Rec

LEMMA SaveHolds ==
    ASSUME NEW t, Save(t), NEW A, NEW n, StoreInv(t, A, n)
    PROVE  /\ StoreInv(Store', A, n)
           /\ Store'.commitments = t.commitments /\ Store'.delegations = t.delegations
           /\ delegations' = t.delegations
           /\ \A c : Staked(Store', c) <=> Staked(t, c)
<1> DEFINE u == Rec(t.commitments, t.delegations, t.delegator_total, t.total_stake, t.locks,
                    t.ledger, t.unrecorded, t.overslashed, 0, TRUE)
<1>1. Store' = u
  BY DEF Save, Store, Rec
<1>2. Typed(t)
  BY DEF StoreInv
<1>3. Typed(u)
  <2> DEFINE z == 0
             y == TRUE
  <2>1. z \in Nat /\ y \in BOOLEAN
    OBVIOUS
  <2> HIDE DEF z, y
  <2>2. Typed(Rec(t.commitments, t.delegations, t.delegator_total, t.total_stake, t.locks,
                  t.ledger, t.unrecorded, t.overslashed, z, y))
    BY <1>2, <2>1, TypedFields, RecTyped
  <2> QED BY <2>2 DEF z, y
<1>4. /\ u.commitments = t.commitments /\ u.delegations = t.delegations
      /\ u.delegator_total = t.delegator_total /\ u.locks = t.locks
      /\ u.total_stake = t.total_stake /\ u.overslashed = t.overslashed /\ u.ledger = t.ledger
  BY DEF Rec
<1> HIDE DEF u
<1>5. \A a \in Accounts : u.ledger.free[a] >= t.ledger.free[a]
  <2> TAKE a \in Accounts
  <2>1. u.ledger.free[a] = t.ledger.free[a] /\ t.ledger.free[a] \in Nat
    BY <1>2, <1>4, TypedFields
  <2> QED BY <2>1
<1>6. StoreInv(u, A, n)
  BY <1>3, <1>4, <1>5, SameHolds
<1>7. \A c : Staked(u, c) <=> Staked(t, c)
  BY <1>4 DEF Staked
<1>8. delegations' = t.delegations
  BY DEF Save
<1> QED BY <1>1, <1>4, <1>6, <1>7, <1>8

LEMMA TransactionHolds ==
    ASSUME StakingInv, NEW t, Save(t), StoreInv(t, announced, block),
           UNCHANGED <<block, rewardVars, announced>>
    PROVE  StakingInv'
<1>1. StoreInv(Store', announced', block')
  BY SaveHolds
<1>2. Clock'
  BY DEF StakingInv, Clock
<1>3. RewardsTyped'
  BY DEF StakingInv, RewardsTyped, rewardVars
<1> QED BY <1>1, <1>2, <1>3 DEF StakingInv

LEMMA RetainedSaved ==
    ASSUME NEW t, Save(t), NEW A, NEW n, StoreInv(t, A, n), NEW s, Retained(s, t)
    PROVE  Retained(s, Store')
<1>1. Store'.delegations = t.delegations /\ \A c : Staked(Store', c) <=> Staked(t, c)
  BY SaveHolds
<1> QED BY <1>1 DEF Retained

-----------------------------------------------------------------------------
(***************************************************************************)
(* Every action preserves the invariant, and all but two retain every      *)
(* stake.                                                                  *)
(***************************************************************************)
LEMMA Succeeds == ASSUME NEW t, Save(t) PROVE t.ok
BY DEF Save

LEMMA CommitComputeStep ==
    ASSUME StakingInv, NEW c, c \in Committers, NEW n, NEW p, n \in Nat, p \in Nat,
           CommitCompute(c, n, p)
    PROVE  StakingInv' /\ Retained(Store, Store')
<1> DEFINE s == Store
           t == stake_for(s, c, n, p)
<1>1. /\ Clock /\ StoreInv(s, announced, block) /\ ~Staked(s, c) /\ p >= 1
      /\ Save(t) /\ UNCHANGED <<block, rewardVars, announced>>
  BY Constants DEF StakingInv, CommitCompute, SaveValidated
<1>2. t.ok
  BY <1>1, Succeeds
<1> HIDE DEF s
<1>3. /\ StoreInv(t, announced, block) /\ t.delegations = s.delegations
      /\ \A b \in Committers : Staked(s, b) => Staked(t, b)
  BY <1>1, <1>2, StakeForHolds
<1> HIDE DEF t
<1>4. Retained(s, t)
  BY <1>3, RetainedSame
<1> QED BY <1>1, <1>3, <1>4, TransactionHolds, RetainedSaved DEF s

LEMMA StakeMoreStep ==
    ASSUME StakingInv, NEW c, c \in Committers, NEW n, NEW p, n \in Nat, p \in Nat,
           StakeMore(c, n, p)
    PROVE  StakingInv' /\ Retained(Store, Store')
<1> DEFINE s == Store
           t == stake_more_for(s, c, n, p)
<1>1. /\ Clock /\ StoreInv(s, announced, block) /\ Staked(s, c)
      /\ Save(t) /\ UNCHANGED <<block, rewardVars, announced>>
  BY DEF StakingInv, StakeMore, SaveValidated
<1>2. t.ok
  BY <1>1, Succeeds
<1> HIDE DEF s
<1>3. /\ StoreInv(t, announced, block) /\ t.delegations = s.delegations
      /\ \A b \in Committers : Staked(s, b) => Staked(t, b)
  BY <1>1, <1>2, StakeMoreHolds
<1> HIDE DEF t
<1>4. Retained(s, t)
  BY <1>3, RetainedSame
<1> QED BY <1>1, <1>3, <1>4, TransactionHolds, RetainedSaved DEF s

LEMMA WithdrawCommitmentStep ==
    ASSUME StakingInv, NEW c, c \in Committers, WithdrawCommitment(c)
    PROVE  StakingInv' /\ Retained(Store, Store')
<1> DEFINE s == Store
           t == withdraw_committer_for(s, c)
<1>1. /\ Clock /\ StoreInv(s, announced, block) /\ Staked(s, c)
      /\ Save(t) /\ UNCHANGED <<block, rewardVars, announced>>
  BY DEF StakingInv, WithdrawCommitment
<1>2. t.ok /\ Typed(s)
  BY <1>1, Succeeds DEF StoreInv
<1> HIDE DEF s
<1>3. StoreInv(t, announced, block) /\ PaidOut(s, t, c)
  BY <1>1, <1>2, WithdrawCommitterHolds
<1> HIDE DEF t
<1>4. t.delegations = s.delegations /\ \A b \in Committers : Staked(s, b) <=> Staked(t, b)
  BY <1>1, <1>2, <1>3, PaidOutStaked DEF PaidOut
<1>5. Retained(s, t)
  BY <1>4, RetainedSame
<1> QED BY <1>1, <1>3, <1>5, TransactionHolds, RetainedSaved DEF s

LEMMA CompoundStakeStep ==
    ASSUME StakingInv, NEW c, c \in Committers, CompoundStake(c)
    PROVE  StakingInv' /\ Retained(Store, Store')
<1> DEFINE s == Store
           p == commitments[c].stake.cooldown_period
           u == withdraw_committer_for(s, c)
           t == stake_more_for(u, c, u.reward, p)
<1>1. /\ Clock /\ StoreInv(s, announced, block) /\ Staked(s, c)
      /\ Save(t) /\ UNCHANGED <<block, rewardVars, announced>>
  BY DEF StakingInv, CompoundStake
<1>2. t.ok
  BY <1>1, Succeeds
<1>3. p \in Nat
  <2>0. s.commitments = commitments
    BY StoreIs
  <2> HIDE DEF s
  <2>1. /\ s.commitments \in [Committers -> Commitments \cup {None}]
        /\ s.commitments[c] # None /\ s.commitments[c].stake # None
    <3>1. Typed(s)
      BY <1>1 DEF StoreInv
    <3>2. s.commitments[c] # None /\ s.commitments[c].stake # None
      BY <1>1 DEF Staked
    <3> QED BY <3>1, <3>2, TypedFields
  <2>2. commitments[c].stake \in Stakes
    BY <2>0, <2>1, CommitmentType
  <2> QED BY <2>2, StakeType
<1> HIDE DEF s, p
<1>4. /\ StoreInv(t, announced, block) /\ t.delegations = s.delegations
      /\ \A b \in Committers : Staked(s, b) => Staked(t, b)
  BY <1>1, <1>2, <1>3, CompoundStakeHolds
<1> HIDE DEF t
<1>5. Retained(s, t)
  BY <1>4, RetainedSame
<1> QED BY <1>1, <1>4, <1>5, TransactionHolds, RetainedSaved DEF s

LEMMA EndComputeCommitmentStep ==
    ASSUME StakingInv, NEW c, c \in Committers, EndComputeCommitment(c)
    PROVE  /\ StakingInv' /\ delegations' = delegations
           /\ \A b \in Committers : b # c => (Staked(Store, b) => Staked(Store', b))
<1> DEFINE s == Store
           t == end_commitment_for(s, c)
<1>1. /\ Clock /\ StoreInv(s, announced, block) /\ Staked(s, c)
      /\ Save(t) /\ UNCHANGED <<block, rewardVars, announced>>
      /\ s.commitments[c].stake.cooldown_started # None
      /\ s.commitments[c].stake.cooldown_started + s.commitments[c].stake.cooldown_period
            <= block
  BY StoreIs DEF StakingInv, EndComputeCommitment, CommitmentCooldownOver
<1>2. t.ok
  BY <1>1, Succeeds
<1> HIDE DEF s
<1>3. /\ StoreInv(t, announced, block) /\ t.delegations = s.delegations
      /\ \A b \in Committers : b # c => (Staked(s, b) => Staked(t, b))
  BY <1>1, <1>2, EndCommitmentHolds
<1> HIDE DEF t
<1>4. delegations' = t.delegations /\ \A b : Staked(Store', b) <=> Staked(t, b)
  BY <1>1, <1>3, SaveHolds
<1>5. t.delegations = delegations
  BY <1>3, StoreIs DEF s
<1> QED BY <1>1, <1>3, <1>4, <1>5, TransactionHolds DEF s

LEMMA DelegateStep ==
    ASSUME StakingInv, NEW a, a \in Delegators, NEW c, c \in Committers, NEW n, NEW p,
           n \in Nat, p \in Nat, Delegate(a, c, n, p)
    PROVE  StakingInv' /\ Retained(Store, Store')
<1> DEFINE s == Store
           k == <<a, c>>
           t == delegate_for(s, k, n, p)
<1>1. /\ Clock /\ StoreInv(s, announced, block) /\ Staked(s, c)
      /\ Save(t) /\ UNCHANGED <<block, rewardVars, announced>>
  BY DEF StakingInv, Delegate, SaveValidated
<1>2. t.ok
  BY <1>1, Succeeds
<1>3. k \in Keys /\ k[2] = c
  BY DEF Keys
<1>4. s.commitments[k[2]] # None
  BY <1>1, <1>3 DEF Staked
<1> HIDE DEF s, k
<1>5. StoreInv(t, announced, block) /\ WithKey(s, t, k) /\ k \notin DOMAIN s.delegations
  BY <1>1, <1>2, <1>3, <1>4, DelegateHolds
<1> HIDE DEF t
<1>6. k \in DOMAIN t.delegations /\ \A b \in Committers : Staked(s, b) => Staked(t, b)
  BY <1>5 DEF WithKey, Staked
<1>7. Retained(s, t)
  BY <1>5, <1>6, RetainedJoined
<1> QED BY <1>1, <1>5, <1>7, TransactionHolds, RetainedSaved DEF s

LEMMA DelegateMoreStep ==
    ASSUME StakingInv, NEW k, k \in DOMAIN delegations, NEW n, NEW p, n \in Nat, p \in Nat,
           DelegateMore(k, n, p)
    PROVE  StakingInv' /\ Retained(Store, Store')
<1> DEFINE s == Store
           t == delegate_more_for(s, k, n, p)
<1>1. /\ Clock /\ StoreInv(s, announced, block) /\ k \in DOMAIN s.delegations
      /\ Save(t) /\ UNCHANGED <<block, rewardVars, announced>>
  BY StoreIs DEF StakingInv, DelegateMore, SaveValidated
<1>2. t.ok
  BY <1>1, Succeeds
<1> HIDE DEF s
<1>3. /\ StoreInv(t, announced, block) /\ DOMAIN t.delegations = DOMAIN s.delegations
      /\ \A b \in Committers : Staked(s, b) => Staked(t, b)
  BY <1>1, <1>2, DelegateMoreHolds
<1> HIDE DEF t
<1>4. Retained(s, t)
  BY <1>3, RetainedSame
<1> QED BY <1>1, <1>3, <1>4, TransactionHolds, RetainedSaved DEF s

LEMMA WithdrawDelegationStep ==
    ASSUME StakingInv, NEW k, k \in DOMAIN delegations, WithdrawDelegation(k)
    PROVE  StakingInv' /\ Retained(Store, Store')
<1> DEFINE s == Store
           t == withdraw_delegation_for(s, k)
<1>1. /\ Clock /\ StoreInv(s, announced, block) /\ k \in DOMAIN s.delegations
      /\ Save(t) /\ UNCHANGED <<block, rewardVars, announced>>
  BY StoreIs DEF StakingInv, WithdrawDelegation
<1>2. t.ok
  BY <1>1, Succeeds
<1> HIDE DEF s
<1>3. StoreInv(t, announced, block) /\ Kept(s, t)
  BY <1>1, <1>2, WithdrawForHolds
<1> HIDE DEF t
<1>4. /\ DOMAIN t.delegations = DOMAIN s.delegations
      /\ \A b \in Committers : Staked(s, b) => Staked(t, b)
  BY <1>3 DEF Kept, Staked
<1>5. Retained(s, t)
  BY <1>4, RetainedSame
<1> QED BY <1>1, <1>3, <1>5, TransactionHolds, RetainedSaved DEF s

LEMMA CompoundDelegationStep ==
    ASSUME StakingInv, NEW k, k \in DOMAIN delegations, CompoundDelegation(k)
    PROVE  StakingInv' /\ Retained(Store, Store')
<1> DEFINE s == Store
           t == delegate_reward(withdraw_delegation_for(s, k), k)
<1>1. /\ Clock /\ StoreInv(s, announced, block) /\ k \in DOMAIN s.delegations
      /\ Save(t) /\ UNCHANGED <<block, rewardVars, announced>>
  BY StoreIs DEF StakingInv, CompoundDelegation
<1>2. t.ok
  BY <1>1, Succeeds
<1> HIDE DEF s
<1>3. /\ StoreInv(t, announced, block) /\ DOMAIN t.delegations = DOMAIN s.delegations
      /\ \A b \in Committers : Staked(s, b) => Staked(t, b)
  BY <1>1, <1>2, CompoundDelegationHolds
<1> HIDE DEF t
<1>4. Retained(s, t)
  BY <1>3, RetainedSame
<1> QED BY <1>1, <1>3, <1>4, TransactionHolds, RetainedSaved DEF s

LEMMA CooldownDelegationStep ==
    ASSUME StakingInv, NEW k, k \in DOMAIN delegations, CooldownDelegation(k)
    PROVE  StakingInv' /\ Retained(Store, Store')
<1> DEFINE s == Store
           u == apply_delegator_slash(s, k)
           t == StartCooldown(u, k)
<1>1. /\ Clock /\ StoreInv(s, announced, block) /\ k \in DOMAIN s.delegations
      /\ Save(t) /\ UNCHANGED <<block, rewardVars, announced>>
      /\ Fresh(s.commitments[k[2]], s.delegations[k])
      /\ s.delegations[k].stake.cooldown_started = None
  BY StoreIs DEF StakingInv, CooldownDelegation
<1>2. t.ok
  BY <1>1, Succeeds
<1> HIDE DEF s
<1>3. u.ok
  <2>1. "ok" \in DOMAIN u
    <3>1. "ok" \in DOMAIN s /\ "reward" \in DOMAIN s
      BY <1>1, TypedDomain DEF StoreInv
    <3> DEFINE v == accrue_delegator(s, k)
    <3>2. DOMAIN v = DOMAIN s
      BY <3>1, Chained
    <3> HIDE DEF v
    <3>3. "ok" \in DOMAIN v /\ "reward" \in DOMAIN v
      BY <3>1, <3>2
    <3>4. DOMAIN BurnSlash(v, k) = DOMAIN v
      BY <3>3, Chained
    <3> QED BY <3>3, <3>4 DEF v, apply_delegator_slash
  <2> HIDE DEF u
  <2> QED BY <1>2, <2>1 DEF StartCooldown
<1>4. StoreInv(u, announced, block) /\ Kept(s, u)
  BY <1>1, <1>3, ApplyHolds
<1> HIDE DEF u
<1>5. /\ k \in DOMAIN u.delegations /\ u.delegations[k].stake.cooldown_started = None
      /\ Fresh(u.commitments[k[2]], u.delegations[k])
      /\ DOMAIN u.delegations = DOMAIN s.delegations
      /\ \A b \in Committers : Staked(s, b) => Staked(u, b)
  <2>1. k[2] \in Committers /\ s.commitments[k[2]] # None
    BY <1>1, StoreFacts DEF StoreInv, DelegationsInv
  <2>2. u.commitments[k[2]].stake = s.commitments[k[2]].stake
    BY <1>4, <2>1 DEF Kept
  <2>3. /\ k \in DOMAIN u.delegations /\ u.delegations[k].stake.cooldown_started = None
        /\ u.delegations[k].stake.created = s.delegations[k].stake.created
        /\ DOMAIN u.delegations = DOMAIN s.delegations
    BY <1>1, <1>4 DEF Kept
  <2>4. Fresh(u.commitments[k[2]], u.delegations[k])
    BY <1>1, <2>2, <2>3 DEF Fresh
  <2>5. \A b \in Committers : Staked(s, b) => Staked(u, b)
    BY <1>4 DEF Kept, Staked
  <2> QED BY <2>3, <2>4, <2>5
<1>6. /\ StoreInv(t, announced, block) /\ DOMAIN t.delegations = DOMAIN u.delegations
      /\ \A b \in Committers : Staked(u, b) => Staked(t, b)
  BY <1>1, <1>4, <1>5, StartHolds
<1> HIDE DEF t
<1>7. Retained(s, t)
  BY <1>5, <1>6, RetainedSame
<1> QED BY <1>1, <1>6, <1>7, TransactionHolds, RetainedSaved DEF s

LEMMA RedelegateStep ==
    ASSUME StakingInv, NEW k, k \in DOMAIN delegations, NEW c, c \in Committers,
           Redelegate(k[1], k[2], c)
    PROVE  StakingInv' /\ Retained(Store, Store')
<1> DEFINE s == Store
           j == <<k[1], c>>
           n == delegations[k].stake.amount
           p == delegations[k].stake.cooldown_period
           t == delegate_for(Moved(s, k), j, n, p)
<1>1. Clock /\ StoreInv(s, announced, block) /\ k \in DOMAIN s.delegations
  BY StoreIs DEF StakingInv
<1>2. /\ k \in Keys /\ k[1] \in Delegators /\ s.delegations[k] \in Delegations
  BY <1>1, StoreFacts DEF StoreInv
<1>3. <<k[1], k[2]>> = k
  BY <1>2 DEF Keys
<1>4. /\ Save(t) /\ UNCHANGED <<block, rewardVars, announced>>
      /\ j \notin DOMAIN s.delegations /\ Staked(s, c)
  BY <1>3, StoreIs DEF Redelegate
<1>5. t.ok
  BY <1>4, Succeeds
<1>6. j \in Keys /\ j[2] = c /\ s.commitments[j[2]] # None
  BY <1>2, <1>4 DEF Keys, Staked
<1>7. n \in Nat /\ p \in Nat
  <2>1. delegations[k] \in Delegations
    BY <1>2, StoreIs
  <2> QED BY <2>1, DelegationType, StakeType
<1> HIDE DEF s, j, n, p
<1>8. /\ StoreInv(t, announced, block)
      /\ DOMAIN t.delegations = (DOMAIN s.delegations \ {k}) \cup {j}
      /\ \A b \in Committers : Staked(s, b) => Staked(t, b)
  BY <1>1, <1>5, <1>6, <1>7, MoveHolds
<1> HIDE DEF t
<1>9. j \in DOMAIN t.delegations
  BY <1>8
<1>10. Retained(s, t)
  BY <1>4, <1>8, <1>9, RetainedJoined
<1> QED BY <1>1, <1>4, <1>8, <1>10, TransactionHolds, RetainedSaved DEF s

LEMMA EndDelegationStep ==
    ASSUME StakingInv, NEW k, k \in DOMAIN delegations, EndDelegation(k)
    PROVE  /\ StakingInv' /\ DOMAIN delegations' = DOMAIN delegations \ {k}
           /\ \A b \in Committers : Staked(Store, b) => Staked(Store', b)
<1> DEFINE s == Store
           t == end_delegation_for(s, k)
<1>1. /\ Clock /\ StoreInv(s, announced, block) /\ k \in DOMAIN s.delegations
      /\ Save(t) /\ UNCHANGED <<block, rewardVars, announced>>
  BY StoreIs DEF StakingInv, EndDelegation
<1>2. t.ok
  BY <1>1, Succeeds
<1> HIDE DEF s
<1>3. StoreInv(t, announced, block) /\ Without(s, t, k)
  BY <1>1, <1>2, EndHolds
<1> HIDE DEF t
<1>4. delegations' = t.delegations /\ \A b : Staked(Store', b) <=> Staked(t, b)
  BY <1>1, <1>3, SaveHolds
<1>5. DOMAIN t.delegations = DOMAIN delegations \ {k}
  BY <1>3, StoreIs DEF s, Without
<1>6. \A b \in Committers : Staked(s, b) => Staked(t, b)
  BY <1>3 DEF Without, Staked
<1> QED BY <1>1, <1>3, <1>4, <1>5, <1>6, TransactionHolds DEF s

LEMMA SlashStep ==
    ASSUME StakingInv, NEW c, c \in Committers, NEW a, a \in Slashers, Slash(c, a)
    PROVE  StakingInv' /\ Retained(Store, Store')
<1> DEFINE s == Store
           cm == commitments[c]
           w == WeightsAt(commitments[c], epoch - 1)
           x == w.self_slash
           y == w.delegations_slash
           total == SlashAmount(c)
           self == (x * total) \div (x + y)
           extra == IF y = 0 THEN 0 ELSE ((total - self) * PER_TOKEN_DECIMALS) \div y
           fee == Min({Part(SlashRewardRatio, total), self})
           t == Penalty(s, c, self, extra, a, fee)
<1>1. /\ Clock /\ StoreInv(s, announced, block) /\ Staked(s, c) /\ epoch > 0
      /\ UNCHANGED <<block, rewardVars, announced>>
      /\ commitments[c].last_slashing_epoch < epoch - 1
      /\ x + y > 0 /\ self <= ledger.free[c]
  BY DEF StakingInv, Slash
<1>2. Save(t)
  <2> DEFINE u == decrease_committer_stake(Store, c, self)
  <2>1. Save([u EXCEPT
                !.ledger = Deposit(Withdraw(@, c, self), a, fee),
                !.commitments[c] =
                    [u.commitments[c] EXCEPT
                        !.pool_rewards.current.value.slash_per_weight = @ + extra,
                        !.last_slashing_epoch = epoch - 1]])
    BY DEF Slash
  <2> HIDE DEF w, total, self, extra, fee, u
  <2> QED BY <2>1 DEF Penalty, Penalised, u
<1>3. cm \in Commitments /\ epoch \in Nat /\ cm.stake # None /\ metrics[c].epoch \in Nat
      /\ cm.last_slashing_epoch \in Nat /\ cm.delegations_total_amount \in Nat
      /\ cm.stake.amount \in Nat
  <2> HIDE DEF s
  <2>1. s.commitments[c] \in Commitments /\ s.commitments[c].stake # None
    <3>1. Typed(s)
      BY <1>1 DEF StoreInv
    <3> QED BY <1>1, <3>1, TypedFields DEF Staked
  <2>2. s.commitments = commitments
    BY StoreIs DEF s
  <2>3. metrics[c] \in Sliding(BOOLEAN)
    BY DEF StakingInv, RewardsTyped
  <2>4. block \in Nat
    BY <1>1 DEF Clock
  <2>5. cm \in Commitments /\ cm.stake # None
    BY <2>1, <2>2
  <2>6. cm.stake \in Stakes
    BY <2>5, CommitmentType
  <2> QED BY <2>3, <2>4, <2>5, <2>6, EpochType, CommitmentType, StakeType DEF Sliding
<1>4. total \in Nat
  <2>1. MissedEpochs(c) \in Nat
    <3> DEFINE i == metrics[c].epoch
               j == cm.last_slashing_epoch
    <3>1. Max({i, j}) \in {i, j}
      <4>1. i \in Nat /\ j \in Nat
        BY <1>3
      <4> HIDE DEF i, j
      <4> QED BY <4>1, LargerOf
    <3>2. MissedEpochs(c) = IF i < epoch - 1 THEN epoch - 1 - Max({i, j}) ELSE 1
      BY DEF MissedEpochs
    <3>3. j < epoch - 1
      BY <1>1
    <3> DEFINE h == Max({i, j})
    <3>4. h \in {i, j}
      BY <3>1
    <3> HIDE DEF h
    <3> QED BY <1>3, <3>2, <3>3, <3>4 DEF h
  <2>2. Part(BaseSlashRation, cm.stake.amount + cm.delegations_total_amount) \in Nat
    <3> DEFINE h == cm.stake.amount + cm.delegations_total_amount
    <3>1. h \in Nat
      BY <1>3
    <3> HIDE DEF h
    <3>2. Part(BaseSlashRation, h) \in Nat
      BY <3>1, PartType, Constants
    <3> QED BY <3>2 DEF h
  <2>3. total = IF Delivered(c, epoch - 1) THEN 0
                ELSE Part(BaseSlashRation, cm.stake.amount + cm.delegations_total_amount)
                        * MissedEpochs(c)
    BY DEF SlashAmount
  <2> QED BY <2>1, <2>2, <2>3
<1> HIDE DEF total
<1>5. x \in Nat /\ y \in Nat
  BY <1>3, WeightsAtType
<1> HIDE DEF x, y
<1>6. self \in Nat /\ self <= total
  <2>1. x + y # 0
    BY <1>1, <1>5
  <2> QED BY <1>4, <1>5, <2>1, ShareWithin
<1> HIDE DEF self
<1>7. extra \in Nat
  <2>1. CASE y = 0
    BY <2>1
  <2>2. CASE y # 0
    <3> DEFINE h == (total - self) * PER_TOKEN_DECIMALS
    <3>1. h \in Nat
      <4>1. total - self \in Nat
        BY <1>4, <1>6
      <4> QED BY <4>1, Constants
    <3>2. extra = h \div y /\ y \in Nat \ {0}
      BY <1>5, <2>2
    <3> HIDE DEF h, extra
    <3> QED BY <3>1, <3>2, QuotientType
  <2> QED BY <2>1, <2>2
<1> HIDE DEF extra
<1>8. fee \in Nat
  <2>1. Part(SlashRewardRatio, total) \in Nat
    BY <1>4, PartType, Constants
  <2> QED BY <1>6, <2>1, SmallerOf
<1> HIDE DEF fee
<1>9. t.ok /\ self <= s.ledger.free[c] /\ a \in Accounts
  BY <1>1, <1>2, Succeeds, StoreIs, Constants
<1> HIDE DEF s
<1>10. /\ StoreInv(t, announced, block) /\ t.delegations = s.delegations
       /\ \A b \in Committers : Staked(s, b) => Staked(t, b)
  BY <1>1, <1>6, <1>7, <1>8, <1>9, SlashHolds
<1> HIDE DEF t
<1>11. Retained(s, t)
  BY <1>10, RetainedSame
<1> QED BY <1>1, <1>2, <1>10, <1>11, TransactionHolds, RetainedSaved DEF s

\* A step that changes nothing of the store but a commitment.
LEMMA EvolveStep ==
    ASSUME StakingInv, NEW c, c \in Committers, NEW B, B \in [Committers -> SUBSET Nat],
           \A b \in Committers : announced[b] \subseteq B[b],
           NEW new, commitments[c] \in Commitments, new \in Commitments,
           PoolEvolves(commitments[c], new, block), CommitmentTimed(new, B[c], block),
           SameAmount(commitments[c], new), SameWeights(commitments[c], new),
           commitments' = [commitments EXCEPT ![c] = new],
           UNCHANGED <<delegations, delegator_total, total_stake, locks, ledger,
                       unrecorded, overslashed>>
    PROVE  StoreInv(Store', B, block) /\ Retained(Store, Store')
<1> DEFINE s == Store
           t == Store'
           z == 0
           y == TRUE
<1>1. Clock /\ StoreInv(s, announced, block)
  BY DEF StakingInv
<1>2. /\ s.commitments = commitments /\ s.delegations = delegations
      /\ s.delegator_total = delegator_total /\ s.total_stake = total_stake
      /\ s.locks = locks /\ s.ledger = ledger /\ s.unrecorded = unrecorded
      /\ s.overslashed = overslashed
  BY StoreIs
<1>3. t = Rec([commitments EXCEPT ![c] = new], delegations, delegator_total, total_stake,
              locks, ledger, unrecorded, overslashed, z, y)
  BY DEF Store, Rec
<1>4. z \in Nat /\ y \in BOOLEAN
  OBVIOUS
<1> HIDE DEF s, t, z, y
<1>5. Typed(s) /\ block \in Nat
  BY <1>1 DEF StoreInv, Clock
<1>6. StoreInv(s, B, block)
  <2>1. announced \in [Committers -> SUBSET Nat] /\ block <= block
    BY <1>1, <1>5 DEF Clock
  <2> QED BY <1>1, <1>5, <2>1, LaterHolds
<1> DEFINE cs == [s.commitments EXCEPT ![c] = new]
<1>7. t = Rec(cs, s.delegations, s.delegator_total, s.total_stake, s.locks, s.ledger,
              s.unrecorded, s.overslashed, z, y)
  BY <1>2, <1>3
<1>8. cs \in [Committers -> Commitments \cup {None}]
  BY <1>5, TypedFields
<1> HIDE DEF cs
<1>9. Typed(t)
  BY <1>4, <1>5, <1>7, <1>8, TypedFields, RecTyped
<1>10. /\ t.commitments = cs /\ t.delegations = s.delegations
       /\ SameTotals(s, t)
  BY <1>7, RecFields DEF SameTotals
<1>11. Recommitted(s, t, c, new)
  BY <1>2, <1>10 DEF Recommitted, SameWeights, cs
<1>12. SameAmount(s.commitments[c], new)
  BY <1>2
<1>13. /\ StoreInv(t, B, block) /\ t.delegations = s.delegations
       /\ \A b \in Committers : Staked(t, b) <=> Staked(s, b)
  BY <1>5, <1>6, <1>9, <1>10, <1>11, <1>12, EvolveHolds
<1>14. Retained(s, t)
  BY <1>13, RetainedSame
<1> QED BY <1>13, <1>14 DEF s, t

LEMMA CooldownComputeCommitmentStep ==
    ASSUME StakingInv, NEW c, c \in Committers, CooldownComputeCommitment(c)
    PROVE  StakingInv' /\ Retained(Store, Store')
<1> DEFINE cm == commitments[c]
           new == OnNotice(cm)
           B == [announced EXCEPT ![c] = @ \cup {block}]
<1>1. /\ Clock /\ RewardsTyped /\ StoreInv(Store, announced, block)
      /\ Staked(Store, c) /\ cm.stake.cooldown_started = None
      /\ announced' = B
      /\ UNCHANGED <<block, delegations, delegator_total, total_stake, locks, ledger,
                     unrecorded, overslashed, rewardVars>>
  BY DEF StakingInv, CooldownComputeCommitment
<1>2. commitments' = [commitments EXCEPT ![c] = new]
  BY DEF CooldownComputeCommitment, OnNotice
<1>3. /\ block \in Nat /\ block <= block /\ announced \in [Committers -> SUBSET Nat]
      /\ B \in [Committers -> SUBSET Nat] /\ block \in B[c]
      /\ \A b \in Committers : announced[b] \subseteq B[b]
  BY <1>1 DEF Clock
<1>4. Store.commitments = commitments /\ Typed(Store)
  BY <1>1, StoreIs DEF StoreInv
<1>5. cm \in Commitments /\ cm # None /\ cm.stake # None
  BY <1>1, <1>4, TypedFields DEF Staked
<1> HIDE DEF B
<1>6. StoreInv(Store, B, block)
  BY <1>1, <1>3, LaterHolds
<1>7. CommitmentTimed(cm, B[c], block)
  BY <1>4, <1>5, <1>6 DEF StoreInv, CommitmentsInv
<1>8. /\ new \in Commitments /\ SameAmount(cm, new)
      /\ PoolEvolves(cm, new, block) /\ CommitmentTimed(new, B[c], block)
      /\ SameWeights(cm, new)
  <2> HIDE DEF cm
  <2> QED BY <1>1, <1>3, <1>5, <1>7, OnNoticeType DEF SameWeights
<1> HIDE DEF new
<1>9. StoreInv(Store', B, block) /\ Retained(Store, Store')
  BY <1>1, <1>2, <1>3, <1>5, <1>8, EvolveStep
<1>10. Clock'
  BY <1>1, <1>3 DEF Clock
<1>11. RewardsTyped'
  BY <1>1 DEF RewardsTyped, rewardVars
<1> QED BY <1>1, <1>9, <1>10, <1>11 DEF StakingInv

LEMMA HeartbeatStep ==
    ASSUME StakingInv, NEW c, c \in Committers, Heartbeat(c)
    PROVE  StakingInv' /\ Retained(Store, Store')
<1> DEFINE cm == commitments[c]
           new == Scored(cm, Share(c))
           n == Score(c)
           e == epoch
           yes == TRUE
           no == FALSE
           z == 0
<1>1. /\ Clock /\ RewardsTyped /\ StoreInv(Store, announced, block)
      /\ metrics' = [metrics EXCEPT ![c] = Slide(@, e, yes, no)]
      /\ UNCHANGED <<block, delegations, delegator_total, total_stake, locks, ledger,
                     unrecorded, overslashed, announced>>
  BY DEF StakingInv, Heartbeat
<1>2. \/ UNCHANGED <<commitments, scores, budget>>
      \/ /\ cm # None
         /\ commitments' = [commitments EXCEPT ![c] = new]
         /\ scores' = IF n = 0 THEN scores ELSE [scores EXCEPT ![c] = Slide(@, e, n, z)]
         /\ budget' = [budget EXCEPT !.cur.total_score = @ + n]
  BY DEF Heartbeat, Scored
<1>3. block \in Nat /\ e \in Nat /\ announced \in [Committers -> SUBSET Nat]
      /\ yes \in BOOLEAN /\ no \in BOOLEAN /\ z \in Nat
  BY <1>1, EpochType DEF Clock
<1>4. Clock'
  BY <1>1 DEF Clock
<1> HIDE DEF yes, no, z, e
<1>5. metrics' \in [Committers -> Sliding(BOOLEAN)]
  <2>1. metrics \in [Committers -> Sliding(BOOLEAN)]
    BY <1>1 DEF RewardsTyped
  <2>2. metrics[c] \in Sliding(BOOLEAN)
    BY <2>1
  <2>3. Slide(metrics[c], e, yes, no) \in Sliding(BOOLEAN)
    BY <1>3, <2>2, SlideType
  <2> QED BY <1>1, <2>1, <2>3
<1>6. CASE UNCHANGED <<commitments, scores, budget>>
  <2>1. Store' = Store
    BY <1>1, <1>6 DEF Store
  <2>2. StoreInv(Store', announced', block') /\ Retained(Store, Store')
    BY <1>1, <2>1, RetainedSame
  <2>3. RewardsTyped'
    BY <1>1, <1>5, <1>6 DEF RewardsTyped
  <2> QED BY <1>4, <2>2, <2>3 DEF StakingInv
<1>7. CASE /\ cm # None
           /\ commitments' = [commitments EXCEPT ![c] = new]
           /\ scores' = IF n = 0 THEN scores ELSE [scores EXCEPT ![c] = Slide(@, e, n, z)]
           /\ budget' = [budget EXCEPT !.cur.total_score = @ + n]
  <2>1. Store.commitments = commitments /\ Typed(Store)
    BY <1>1, StoreIs DEF StoreInv
  <2>2. cm \in Commitments /\ CommitmentTimed(cm, announced[c], block)
    BY <1>1, <1>7, <2>1, TypedFields DEF StoreInv, CommitmentsInv
  <2>3. Share(c) \in Nat /\ n \in Nat
    BY <1>1, <2>2, ShareType, ScoreType
  <2>4. /\ new \in Commitments /\ SameAmount(cm, new) /\ SameWeights(cm, new)
        /\ PoolEvolves(cm, new, block) /\ CommitmentTimed(new, announced[c], block)
    <3> HIDE DEF cm
    <3> QED BY <1>3, <2>2, <2>3, ScoredType
  <2> HIDE DEF new, n
  <2>5. \A b \in Committers : announced[b] \subseteq announced[b]
    OBVIOUS
  <2>6. StoreInv(Store', announced, block) /\ Retained(Store, Store')
    BY <1>1, <1>3, <1>7, <2>2, <2>4, <2>5, EvolveStep
  <2>7. scores' \in [Committers -> Sliding(Nat)]
    <3>1. scores \in [Committers -> Sliding(Nat)]
      BY <1>1 DEF RewardsTyped
    <3>2. scores[c] \in Sliding(Nat)
      BY <3>1
    <3>3. Slide(scores[c], e, n, z) \in Sliding(Nat)
      BY <1>3, <2>3, <3>2, SlideType
    <3> QED BY <1>7, <3>1, <3>3
  <2>8. budget' \in Sliding([total : Nat, total_score : Nat])
    <3>1. budget \in Sliding([total : Nat, total_score : Nat])
      BY <1>1 DEF RewardsTyped
    <3> QED BY <1>7, <2>3, <3>1 DEF Sliding
  <2>9. RewardsTyped'
    BY <1>5, <2>7, <2>8 DEF RewardsTyped
  <2> QED BY <1>1, <1>4, <2>6, <2>9 DEF StakingInv
<1> QED BY <1>2, <1>6, <1>7

LEMMA NextBlockStep ==
    ASSUME StakingInv, NextBlock
    PROVE  StakingInv' /\ Retained(Store, Store')
<1> DEFINE s == Store
           t == Store'
           n == block + 1
           z == 0
           y == TRUE
<1>1. /\ Clock /\ RewardsTyped /\ StoreInv(s, announced, block) /\ block' = n
      /\ UNCHANGED <<commitments, delegations, delegator_total, total_stake, locks,
                     unrecorded, overslashed, metrics, scores, announced>>
  BY DEF StakingInv, NextBlock
<1>2. \/ UNCHANGED <<budget, ledger>>
      \/ /\ budget' = Slide(budget, epoch + 1, [NoBudget EXCEPT !.total = Inflation], NoBudget)
         /\ ledger' = Deposit(ledger, Distribution, Inflation)
  BY DEF NextBlock
<1>3. /\ block \in Nat /\ n \in Nat /\ block <= n /\ announced \in [Committers -> SUBSET Nat]
      /\ \A c \in Committers : announced[c] \subseteq announced[c]
  BY <1>1 DEF Clock
<1>4. Clock'
  BY <1>1, <1>3 DEF Clock
<1>5. Typed(s)
  BY <1>1 DEF StoreInv
<1>6. /\ s.commitments = commitments /\ s.delegations = delegations
      /\ s.delegator_total = delegator_total /\ s.total_stake = total_stake
      /\ s.locks = locks /\ s.ledger = ledger /\ s.unrecorded = unrecorded
      /\ s.overslashed = overslashed
  BY StoreIs
<1>7. t = Rec(commitments, delegations, delegator_total, total_stake, locks, ledger',
              unrecorded, overslashed, z, y)
  BY <1>1 DEF Store, Rec
<1>8. z \in Nat /\ y \in BOOLEAN
  OBVIOUS
<1> HIDE DEF s, t, z, y, n
<1>9. /\ ledger' \in Ledgers /\ \A a \in Accounts : ledger'.held[a] = 0
      /\ \A a \in Accounts : a # Distribution => ledger'.free[a] >= s.ledger.free[a]
  <2>1. ledger \in Ledgers /\ \A a \in Accounts : ledger.held[a] = 0 /\ ledger.free[a] \in Nat
    BY <1>5, <1>6, TypedFields
  <2>2. \A a \in Accounts : ledger.free[a] >= ledger.free[a]
    <3> TAKE a \in Accounts
    <3>1. ledger.free[a] \in Nat
      BY <2>1
    <3> QED BY <3>1
  <2>3. CASE ledger' = ledger
    BY <1>6, <2>1, <2>2, <2>3
  <2>4. CASE ledger' = Deposit(ledger, Distribution, Inflation)
    <3>1. /\ ledger' \in Ledgers /\ ledger'.held = ledger.held
          /\ \A a \in Accounts : ledger'.free[a]
                = ledger.free[a] + (IF a = Distribution THEN Inflation ELSE 0)
      <4> DEFINE l == Deposit(ledger, Distribution, Inflation)
      <4>1. ledger \in Ledgers /\ Distribution \in Accounts /\ Inflation \in Nat
        BY <2>1, Constants
      <4>2. /\ l \in Ledgers /\ l.held = ledger.held
            /\ \A a \in Accounts : l.free[a]
                  = ledger.free[a] + (IF a = Distribution THEN Inflation ELSE 0)
        BY <4>1, DepositMoves
      <4> HIDE DEF l
      <4>3. ledger' = l
        BY <2>4 DEF l
      <4> QED BY <4>2, <4>3
    <3>2. \A a \in Accounts : a # Distribution => ledger'.free[a] >= ledger.free[a]
      <4> SUFFICES ASSUME NEW a \in Accounts, a # Distribution
                   PROVE  ledger'.free[a] >= ledger.free[a]
        OBVIOUS
      <4>1. ledger'.free[a] = ledger.free[a] + 0 /\ ledger.free[a] \in Nat
        BY <2>1, <3>1
      <4> QED BY <4>1
    <3> QED BY <1>6, <2>1, <3>1, <3>2
  <2> QED BY <1>2, <2>3, <2>4
<1>10. Typed(t)
  <2>1. t = Rec(s.commitments, s.delegations, s.delegator_total, s.total_stake, s.locks,
                ledger', s.unrecorded, s.overslashed, z, y)
    BY <1>6, <1>7
  <2> QED BY <1>5, <1>8, <1>9, <2>1, TypedFields, RecTyped
<1>11. /\ t.commitments = s.commitments /\ t.delegations = s.delegations
       /\ t.delegator_total = s.delegator_total /\ t.locks = s.locks
       /\ t.total_stake = s.total_stake /\ t.overslashed = s.overslashed /\ t.ledger = ledger'
  BY <1>6, <1>7, RecFields
<1>12. StoreInv(s, announced, n)
  BY <1>1, <1>3, LaterHolds
<1>13. StoreInv(t, announced, n)
  BY <1>9, <1>10, <1>11, <1>12, SameHolds
<1>14. Retained(s, t)
  <2>1. \A b \in Committers : Staked(s, b) => Staked(t, b)
    BY <1>11 DEF Staked
  <2> QED BY <1>11, <2>1, RetainedSame
<1>15. RewardsTyped'
  <2> DEFINE V == [total : Nat, total_score : Nat]
             v == [NoBudget EXCEPT !.total = Inflation]
             e == epoch + 1
  <2>1. budget \in Sliding(V) /\ v \in V /\ NoBudget \in V /\ e \in Nat
    BY <1>1, <1>3, EpochType, Constants DEF RewardsTyped, NoBudget
  <2> HIDE DEF V, v, e
  <2>2. Slide(budget, e, v, NoBudget) \in Sliding(V)
    BY <2>1, SlideType
  <2>3. budget' \in Sliding(V)
    BY <1>2, <2>1, <2>2 DEF e, v
  <2> QED BY <1>1, <2>3 DEF RewardsTyped, V
<1>16. StoreInv(Store', announced', block')
  BY <1>1, <1>13 DEF t
<1> QED BY <1>4, <1>14, <1>15, <1>16 DEF StakingInv, s, t

LEMMA StutterStep ==
    ASSUME StakingInv, UNCHANGED stakingVars
    PROVE  StakingInv' /\ Retained(Store, Store')
<1>1. Store' = Store
  BY DEF stakingVars, storeVars, Store
<1>2. UNCHANGED <<block, announced, metrics, scores, budget>>
  BY DEF stakingVars, rewardVars
<1>3. StoreInv(Store', announced', block')
  BY <1>1, <1>2 DEF StakingInv
<1>4. Clock' /\ RewardsTyped'
  BY <1>2 DEF StakingInv, Clock, RewardsTyped
<1> QED BY <1>1, <1>3, <1>4, RetainedSame DEF StakingInv

LEMMA InitHolds == ASSUME StakingInit PROVE StakingInv
<1> DEFINE s == Store
           z == 0
           y == TRUE
<1>1. Clock
  BY DEF StakingInit, Clock
<1>2. RewardsTyped
  BY DEF StakingInit, RewardsTyped, Sliding, SlidingBuffer, NoBudget
<1>3. /\ s = Rec(commitments, delegations, delegator_total, total_stake, locks, ledger,
                 unrecorded, overslashed, z, y)
      /\ s.commitments = commitments /\ s.delegations = delegations
      /\ s.delegator_total = delegator_total /\ s.total_stake = total_stake
      /\ s.locks = locks /\ s.ledger = ledger /\ s.overslashed = overslashed
  BY StoreIs
<1>4. z \in Nat /\ y \in BOOLEAN
  OBVIOUS
<1> HIDE DEF s, z, y
<1>5. /\ DOMAIN delegations = {} /\ delegations \in [DOMAIN delegations -> Delegations]
      /\ DOMAIN delegations \subseteq Keys /\ IsFiniteSet(DOMAIN delegations)
  <2>1. DOMAIN delegations = {} /\ delegations \in [DOMAIN delegations -> Delegations]
    BY DEF StakingInit
  <2> QED BY <2>1, FS_EmptySet
<1>6. /\ commitments \in [Committers -> Commitments \cup {None}]
      /\ delegator_total \in [Accounts -> Nat] /\ total_stake \in Nat /\ overslashed \in Nat
      /\ locks \in [Accounts -> Nat] /\ unrecorded \in [Accounts -> Nat]
      /\ ledger \in Ledgers /\ \A a \in Accounts : ledger.held[a] = 0
  BY Constants DEF StakingInit, Ledgers
<1>7. Typed(s)
  BY <1>3, <1>4, <1>5, <1>6, RecTyped
<1>8. \A c \in Committers : s.commitments[c] = None
  BY <1>3 DEF StakingInit
<1>9. \A c : ~Staked(s, c)
  BY <1>8 DEF Staked
<1>10. \A a : OwnStake(s, a) = 0
  BY <1>9 DEF OwnStake
<1>11. TotalAddsUp(s)
  <2>1. SumOver(OwnStakes(s), Committers) = 0
    BY <1>10, SumZero, Constants DEF OwnStakes
  <2>2. SumOver(AmountsOf(s), DOMAIN s.delegations) = 0
    BY <1>3, <1>5, SumEmpty
  <2> QED BY <1>3, <2>1, <2>2 DEF TotalAddsUp, StakingInit
<1>12. ASSUME NEW a \in Accounts PROVE AccountAddsUp(s, a)
  <2>1. KeysOf(s, a) = {}
    BY <1>3, <1>5 DEF KeysOf
  <2>2. SumOver(AmountsOf(s), KeysOf(s, a)) = 0
    BY <2>1, SumEmpty
  <2>3. s.delegator_total[a] = 0 /\ s.locks[a] = 0 /\ s.overslashed = 0
    BY <1>3 DEF StakingInit
  <2>4. s.ledger.free[a] \in Nat
    BY <1>7, TypedFields
  <2> QED BY <1>10, <2>2, <2>3, <2>4 DEF AccountAddsUp
<1>13. WeightsInv(s) /\ CommitmentsInv(s, announced, block)
  BY <1>8, <1>9 DEF WeightsInv, CommitmentsInv
<1>14. DelegationsInv(s, announced, block)
  BY <1>3, <1>5 DEF DelegationsInv
<1>15. StoreInv(s, announced, block)
  BY <1>7, <1>11, <1>12, <1>13, <1>14 DEF StoreInv, SumsInv
<1> QED BY <1>1, <1>2, <1>15 DEF StakingInv, s

\* The two actions that give up stake, and all others.
LEMMA StepCases ==
    ASSUME StakingInv, [StakingNext]_stakingVars
    PROVE  /\ StakingInv'
           /\ \/ Retained(Store, Store')
              \/ \E c \in Committers : EndComputeCommitment(c)
              \/ \E k \in DOMAIN delegations : EndDelegation(k)
<1>1. CASE NextBlock
  BY <1>1, NextBlockStep
<1>2. CASE UNCHANGED stakingVars
  BY <1>2, StutterStep
<1>3. ASSUME NEW c \in Committers, Heartbeat(c) \/ WithdrawCommitment(c) \/ CompoundStake(c)
                                     \/ CooldownComputeCommitment(c)
      PROVE  StakingInv' /\ Retained(Store, Store')
  BY <1>3, HeartbeatStep, WithdrawCommitmentStep, CompoundStakeStep,
     CooldownComputeCommitmentStep
<1>4. ASSUME NEW c \in Committers, EndComputeCommitment(c)
      PROVE  StakingInv'
  BY <1>4, EndComputeCommitmentStep
<1>5. ASSUME NEW c \in Committers, NEW n \in Amounts, NEW p \in StakePeriods,
             CommitCompute(c, n, p)
      PROVE  StakingInv' /\ Retained(Store, Store')
  <2>1. n \in Nat /\ p \in Nat
    BY Constants
  <2> QED BY <1>5, <2>1, CommitComputeStep
<1>6. ASSUME NEW c \in Committers, NEW n \in Amounts \cup {0}, NEW p \in StakePeriods,
             StakeMore(c, n, p)
      PROVE  StakingInv' /\ Retained(Store, Store')
  <2>1. n \in Nat /\ p \in Nat
    BY Constants
  <2> QED BY <1>6, <2>1, StakeMoreStep
<1>7. ASSUME NEW c \in Committers, NEW a \in Slashers, Slash(c, a)
      PROVE  StakingInv' /\ Retained(Store, Store')
  BY <1>7, SlashStep
<1>8. ASSUME NEW c \in Committers, NEW a \in Delegators, NEW n \in Amounts,
             NEW p \in DelegationPeriods, Delegate(a, c, n, p)
      PROVE  StakingInv' /\ Retained(Store, Store')
  <2>1. n \in Nat /\ p \in Nat
    BY Constants
  <2> QED BY <1>8, <2>1, DelegateStep
<1>9. ASSUME NEW k \in DOMAIN delegations,
             WithdrawDelegation(k) \/ CompoundDelegation(k) \/ CooldownDelegation(k)
      PROVE  StakingInv' /\ Retained(Store, Store')
  BY <1>9, WithdrawDelegationStep, CompoundDelegationStep, CooldownDelegationStep
<1>10. ASSUME NEW k \in DOMAIN delegations, EndDelegation(k)
       PROVE  StakingInv'
  BY <1>10, EndDelegationStep
<1>11. ASSUME NEW k \in DOMAIN delegations, NEW n \in Amounts \cup {0},
              NEW p \in DelegationPeriods, DelegateMore(k, n, p)
       PROVE  StakingInv' /\ Retained(Store, Store')
  <2>1. n \in Nat /\ p \in Nat
    BY Constants
  <2> QED BY <1>11, <2>1, DelegateMoreStep
<1>12. ASSUME NEW k \in DOMAIN delegations, NEW c \in Committers, Redelegate(k[1], k[2], c)
       PROVE  StakingInv' /\ Retained(Store, Store')
  BY <1>12, RedelegateStep
<1>13. CASE \E c \in Committers :
        \/ Heartbeat(c)
        \/ WithdrawCommitment(c)
        \/ CompoundStake(c)
        \/ CooldownComputeCommitment(c)
        \/ EndComputeCommitment(c)
        \/ \E n \in Amounts, p \in StakePeriods : CommitCompute(c, n, p)
        \/ \E n \in Amounts \cup {0}, p \in StakePeriods : StakeMore(c, n, p)
        \/ \E a \in Slashers : Slash(c, a)
        \/ \E a \in Delegators, n \in Amounts, p \in DelegationPeriods : Delegate(a, c, n, p)
  BY <1>3, <1>4, <1>5, <1>6, <1>7, <1>8, <1>13, Zenon
<1>14. CASE \E k \in DOMAIN delegations :
        \/ WithdrawDelegation(k)
        \/ CompoundDelegation(k)
        \/ CooldownDelegation(k)
        \/ EndDelegation(k)
        \/ \E n \in Amounts \cup {0}, p \in DelegationPeriods : DelegateMore(k, n, p)
        \/ \E c \in Committers : Redelegate(k[1], k[2], c)
  BY <1>9, <1>10, <1>11, <1>12, <1>14, Zenon
<1>15. \/ NextBlock \/ UNCHANGED stakingVars
       \/ \E c \in Committers :
            \/ Heartbeat(c)
            \/ WithdrawCommitment(c)
            \/ CompoundStake(c)
            \/ CooldownComputeCommitment(c)
            \/ EndComputeCommitment(c)
            \/ \E n \in Amounts, p \in StakePeriods : CommitCompute(c, n, p)
            \/ \E n \in Amounts \cup {0}, p \in StakePeriods : StakeMore(c, n, p)
            \/ \E a \in Slashers : Slash(c, a)
            \/ \E a \in Delegators, n \in Amounts, p \in DelegationPeriods : Delegate(a, c, n, p)
       \/ \E k \in DOMAIN delegations :
            \/ WithdrawDelegation(k)
            \/ CompoundDelegation(k)
            \/ CooldownDelegation(k)
            \/ EndDelegation(k)
            \/ \E n \in Amounts \cup {0}, p \in DelegationPeriods : DelegateMore(k, n, p)
            \/ \E c \in Committers : Redelegate(k[1], k[2], c)
  BY DEF StakingNext
<1> QED BY <1>1, <1>2, <1>13, <1>14, <1>15

-----------------------------------------------------------------------------
(***************************************************************************)
(* What is never wrong.                                                    *)
(***************************************************************************)
\* The invariant holds in every reachable state: the types, the sums, the
\* weights, and the terms of every stake and delegation.
THEOREM StakingInvCorrect == StakingSpec => []StakingInv
<1>1. StakingInv /\ [StakingNext]_stakingVars => StakingInv'
  BY StepCases
<1> QED BY <1>1, InitHolds, PTL DEF StakingSpec

\* The amounts of some delegations, as the properties and as the invariant add
\* them up.
LEMMA DelegatedIs ==
    ASSUME StakingInv, NEW K, K \subseteq DOMAIN delegations
    PROVE  Delegated(K) = SumOver(AmountsOf(Store), K)
<1>1. Store.delegations = delegations /\ Typed(Store)
  BY StoreIs DEF StakingInv, StoreInv
<1>2. IsFiniteSet(DOMAIN delegations)
  BY <1>1, StoreFacts
<1>3. IsFiniteSet(K)
  BY <1>2, FS_Subset
<1> DEFINE f == [k \in K |-> delegations[k].stake.amount]
           g == AmountsOf(Store)
<1>4. \A k \in K : f[k] = g[k]
  BY <1>1 DEF AmountsOf
<1> HIDE DEF f, g
<1>5. SumOver(f, K) = SumOver(g, K)
  BY <1>3, <1>4, SumSame
<1> QED BY <1>5 DEF Delegated, f, g

\* lock_funds locks exactly the stakes of an account, through slashes, moves
\* and restarts, and an account owns what it has locked but for what a slash
\* took beyond a stake.
THEOREM LocksAreStakesCorrect == StakingSpec => []LocksAreStakes
<1>1. ASSUME StakingInv PROVE LocksAreStakes
  <2> SUFFICES ASSUME NEW a \in Accounts
               PROVE  /\ locks[a] = OwnStake(Store, a) + Delegated(DelegationsOf(a))
                      /\ delegator_total[a] = Delegated(DelegationsOf(a))
                      /\ locks[a] <= Balance(Store, a) + overslashed
    BY DEF LocksAreStakes
  <2>1. /\ Store.delegations = delegations /\ Store.locks = locks /\ Store.ledger = ledger
        /\ Store.delegator_total = delegator_total /\ Store.overslashed = overslashed
    BY StoreIs
  <2>2. Typed(Store) /\ AccountAddsUp(Store, a)
    BY <1>1 DEF StakingInv, StoreInv, SumsInv
  <2>3. DelegationsOf(a) = KeysOf(Store, a) /\ DelegationsOf(a) \subseteq DOMAIN delegations
    BY <2>1 DEF DelegationsOf, KeysOf
  <2>4. Delegated(DelegationsOf(a)) = SumOver(AmountsOf(Store), KeysOf(Store, a))
    BY <1>1, <2>3, DelegatedIs
  <2>5. ledger.held[a] = 0 /\ ledger.free[a] \in Nat
    BY <2>1, <2>2, TypedFields
  <2>6. Balance(Store, a) = ledger.free[a]
    BY <2>1, <2>5 DEF Balance
  <2> QED BY <2>1, <2>2, <2>4, <2>6 DEF AccountAddsUp
<1> QED BY <1>1, StakingInvCorrect, PTL

\* TotalStake is what all stakes and delegations add up to, and the weights of a
\* pool, which decide about its rewards and slashes, are those of the
\* delegations in it.
THEOREM StakesAddUpCorrect == StakingSpec => []StakesAddUp
<1>1. ASSUME StakingInv PROVE TotalStakeIsSum
  <2>1. /\ Store.delegations = delegations /\ Store.total_stake = total_stake
        /\ Store.overslashed = overslashed
    BY StoreIs
  <2>2. TotalAddsUp(Store)
    BY <1>1 DEF StakingInv, StoreInv, SumsInv
  <2>3. Delegated(DOMAIN delegations) = SumOver(AmountsOf(Store), DOMAIN delegations)
    BY <1>1, DelegatedIs
  <2> QED BY <2>1, <2>2, <2>3 DEF TotalStakeIsSum, TotalAddsUp, OwnStakes
<1>2. ASSUME StakingInv PROVE WeightsAreSums
  <2>1. /\ Store.delegations = delegations /\ Store.commitments = commitments
        /\ Typed(Store) /\ WeightsInv(Store)
    BY <1>2, StoreIs DEF StakingInv, StoreInv
  <2> SUFFICES ASSUME NEW c \in Committers, Staked(Store, c), NEW K,
                      K = {k \in DOMAIN delegations :
                            k[2] = c /\ Fresh(commitments[c], delegations[k])},
                      NEW w, w = CurrentWeights(commitments[c])
               PROVE  /\ w.delegations_reward
                            = SumOver([k \in K |-> delegations[k].reward_weight], K)
                      /\ w.delegations_slash
                            = SumOver([k \in K |-> delegations[k].slash_weight], K)
    BY DEF WeightsAreSums
  <2>2. K = FreshKeys(Store, c)
    BY <2>1 DEF FreshKeys
  <2>3. IsFiniteSet(K) /\ K \subseteq DOMAIN delegations
    <3>1. \A b : IsFiniteSet(FreshKeys(Store, b))
      BY <2>1, StoreFacts
    <3>2. IsFiniteSet(K)
      BY <2>2, <3>1
    <3> QED BY <3>2
  <2>4. /\ w.delegations_reward = SumOver(RewardWeights(Store), K)
        /\ w.delegations_slash = SumOver(SlashWeights(Store), K)
    BY <2>1, <2>2 DEF WeightsInv, PoolWeighs
  <2> DEFINE f == [k \in K |-> delegations[k].reward_weight]
             g == [k \in K |-> delegations[k].slash_weight]
             h == RewardWeights(Store)
             i == SlashWeights(Store)
  <2>5. \A k \in K : f[k] = h[k] /\ g[k] = i[k]
    BY <2>1, <2>3 DEF RewardWeights, SlashWeights
  <2> HIDE DEF f, g, h, i
  <2>6. SumOver(f, K) = SumOver(h, K) /\ SumOver(g, K) = SumOver(i, K)
    BY <2>3, <2>5, SumSame
  <2> QED BY <2>4, <2>6 DEF f, g, h, i
<1>3. StakingInv => StakesAddUp
  BY <1>1, <1>2 DEF StakesAddUp
<1> QED BY <1>3, StakingInvCorrect, PTL

\* The same for the weights alone.
THEOREM WeightsAreSumsCorrect == StakingSpec => []WeightsAreSums
<1>1. StakesAddUp => WeightsAreSums
  BY DEF StakesAddUp
<1> QED BY <1>1, StakesAddUpCorrect, PTL

\* end_delegation_for fails for nobody whose reward can be paid: the checked
\* subtractions from the totals, the new locks and the burnt slash succeed as
\* long as no committer lost more than he had staked.
THEOREM ExitNeverBlockedCorrect == StakingSpec => []ExitNeverBlocked
<1>1. ASSUME StakingInv PROVE ExitNeverBlocked
  <2> SUFFICES ASSUME overslashed = 0, NEW k \in DOMAIN delegations,
                      CanTransfer(apply_delegator_slash(Store, k).ledger, Distribution, k[1],
                                  end_delegation_for(Store, k).reward)
               PROVE  end_delegation_for(Store, k).ok
    BY DEF ExitNeverBlocked
  <2> DEFINE s == Store
  <2>1. /\ Clock /\ StoreInv(s, announced, block) /\ k \in DOMAIN s.delegations
        /\ s.ok /\ s.overslashed = 0
        /\ CanTransfer(apply_delegator_slash(s, k).ledger, Distribution, k[1],
                       end_delegation_for(s, k).reward)
    BY <1>1, StoreIs DEF StakingInv
  <2> HIDE DEF s
  <2>2. end_delegation_for(s, k).ok
    BY <2>1, EndHolds
  <2> QED BY <2>2 DEF s
<1> QED BY <1>1, StakingInvCorrect, PTL

\* accrue_delegator first calls sanitize_delegation, which repairs a delegation
\* that is rewarded for more than is staked.  There never is one, so that the
\* repair, left out of the model, never happens.
RewardableWithinStake ==
    \A k \in DOMAIN delegations :
        delegations[k].stake.rewardable_amount <= delegations[k].stake.amount

\* No sequence of slashes, moves and cooldowns makes a delegation rewarded for
\* more than is staked.
THEOREM RewardableWithinStakeCorrect == StakingSpec => []RewardableWithinStake
<1>1. ASSUME StakingInv PROVE RewardableWithinStake
  <2> SUFFICES ASSUME NEW k \in DOMAIN delegations
               PROVE  delegations[k].stake.rewardable_amount <= delegations[k].stake.amount
    BY DEF RewardableWithinStake
  <2> DEFINE st == delegations[k].stake
  <2>1. Store.delegations = delegations /\ Clock /\ StoreInv(Store, announced, block)
    BY <1>1, StoreIs DEF StakingInv
  <2>2. st \in Stakes /\ st.rewardable_amount = Rewardable(st)
    BY <2>1, DelegationFacts DEF DelegationHolds, StakeHolds
  <2> HIDE DEF st
  <2>3. st.amount \in Nat
    BY <2>2, StakeType
  <2>4. Part(CooldownRewardRatio, st.amount) <= st.amount
    BY <2>3, Constants, PartType
  <2>5. st.rewardable_amount <= st.amount
    BY <2>2, <2>3, <2>4 DEF Rewardable
  <2> QED BY <2>5 DEF st
<1> QED BY <1>1, StakingInvCorrect, PTL

\* The notice that was given before a delegation can be given up: the
\* delegator's own, or one of its commitment since it was made.
LEMMA DelegationNotice ==
    ASSUME StakingInv, NEW k, k \in DOMAIN delegations, DelegationCooldownOver(k)
    PROVE  LET d == delegations[k].stake
           IN  \E t \in ({d.cooldown_started} \ {None}) \cup announced[k[2]] :
                    d.created <= t /\ t + d.cooldown_period <= block
<1> DEFINE d == delegations[k]
           cm == commitments[k[2]]
           x == d.stake.cooldown_started
           y == cm.stake.cooldown_started
           S == {x, y} \ {None}
<1>1. /\ Clock /\ StoreInv(Store, announced, block)
      /\ Store.delegations = delegations /\ Store.commitments = commitments
  BY StoreIs DEF StakingInv
<1>2. /\ d.stake \in Stakes /\ cm \in Commitments
      /\ DelegationHolds(d, cm, announced[k[2]], block)
      /\ CommitmentTimed(cm, announced[k[2]], block)
  BY <1>1, DelegationFacts
<1>3. x \in Nat \cup {None}
  BY <1>2, StakeType
<1>4. CASE ~Fresh(cm, d)
  BY <1>2, <1>4 DEF DelegationHolds, Outlived
<1>5. CASE Fresh(cm, d)
  <2>1. cm.stake # None
    BY <1>5 DEF Fresh
  <2>2. y \in Nat \cup {None}
    BY <1>2, <2>1, CommitmentType, StakeType
  <2>3. S # {} /\ Min(S) + d.stake.cooldown_period <= block
    BY <1>5 DEF DelegationCooldownOver
  <2>4. x # None => d.stake.created <= x
    BY <1>2 DEF DelegationHolds, StakeHolds
  <2>5. y # None => y \in announced[k[2]] /\ d.stake.created <= y
    BY <1>2, <1>5, <2>1 DEF DelegationHolds, Joined, CommitmentTimed, StakeTimed
  <2>6. Min(S) \in S
    <3> HIDE DEF x, y
    <3>1. CASE x = None
      <4>1. y \in Nat /\ S = {y, y}
        BY <2>2, <2>3, <3>1
      <4> HIDE DEF S
      <4> QED BY <4>1, SmallerOf
    <3>2. CASE y = None
      <4>1. x \in Nat /\ S = {x, x}
        BY <1>3, <2>3, <3>2
      <4> HIDE DEF S
      <4> QED BY <4>1, SmallerOf
    <3>3. CASE x # None /\ y # None
      <4>1. x \in Nat /\ y \in Nat /\ S = {x, y}
        BY <1>3, <2>2, <3>3
      <4> HIDE DEF S
      <4> QED BY <4>1, SmallerOf
    <3> QED BY <3>1, <3>2, <3>3
  <2>7. CASE Min(S) = x /\ x # None
    BY <2>3, <2>4, <2>7
  <2>8. CASE Min(S) = y /\ y # None
    BY <2>3, <2>5, <2>8
  <2>9. (Min(S) = x /\ x # None) \/ (Min(S) = y /\ y # None)
    <3> DEFINE m == Min(S)
    <3>1. m \in S
      BY <2>6
    <3> HIDE DEF m
    <3> QED BY <3>1 DEF m
  <2> QED BY <2>7, <2>8, <2>9
<1> QED BY <1>4, <1>5

\* The same for the stake of a committer.
LEMMA CommitmentNotice ==
    ASSUME StakingInv, NEW c, c \in Committers, EndComputeCommitment(c)
    PROVE  LET d == commitments[c].stake
           IN  \E t \in announced[c] : d.created <= t /\ t + d.cooldown_period <= block
<1> DEFINE cm == commitments[c]
<1>1. /\ StoreInv(Store, announced, block) /\ Store.commitments = commitments
      /\ Staked(Store, c) /\ CommitmentCooldownOver(c)
  BY StoreIs DEF StakingInv, EndComputeCommitment
<1>2. cm # None /\ cm.stake # None
  BY <1>1 DEF Staked
<1>3. CommitmentTimed(cm, announced[c], block)
  BY <1>1, <1>2 DEF StoreInv, CommitmentsInv
<1> QED BY <1>1, <1>2, <1>3 DEF CommitmentTimed, StakeTimed, CommitmentCooldownOver

\* Stake leaves only after notice: end_delegation, kick_out and
\* end_compute_commitment wait for a cooldown that began after the stake was
\* made and is over, also for delegations whose commitment ended long ago.
THEOREM ReleasedAfterCooldownCorrect == StakingSpec => ReleasedAfterCooldown
<1> DEFINE Noticed(k) ==
               LET d == delegations[k].stake
               IN  \E t \in ({d.cooldown_started} \ {None}) \cup announced[k[2]] :
                        d.created <= t /\ t + d.cooldown_period <= block
           Announced(c) ==
               LET d == commitments[c].stake
               IN  \E t \in announced[c] : d.created <= t /\ t + d.cooldown_period <= block
<1>1. ASSUME StakingInv, [StakingNext]_stakingVars
      PROVE  /\ \A k \in DOMAIN delegations :
                  (DOMAIN delegations' = DOMAIN delegations \ {k}) => Noticed(k)
             /\ \A c \in Committers :
                  (Staked(Store, c) /\ ~Staked(Store', c)) => Announced(c)
  <2> HIDE DEF Noticed, Announced
  <2>1. CASE Retained(Store, Store')
    <3>1. Store.delegations = delegations /\ Store'.delegations = delegations'
      BY DEF Store
    <3> QED BY <2>1, <3>1 DEF Retained
  <2>2. ASSUME NEW c \in Committers, EndComputeCommitment(c)
        PROVE  /\ DOMAIN delegations' = DOMAIN delegations
               /\ \A b \in Committers : Staked(Store, b) /\ ~Staked(Store', b) => Announced(b)
    <3>1. Announced(c)
      BY <1>1, <2>2, CommitmentNotice DEF Announced
    <3>2. /\ delegations' = delegations
          /\ \A b \in Committers : b # c => (Staked(Store, b) => Staked(Store', b))
      BY <1>1, <2>2, EndComputeCommitmentStep
    <3> QED BY <3>1, <3>2
  <2>3. ASSUME NEW k \in DOMAIN delegations, EndDelegation(k)
        PROVE  /\ \A j \in DOMAIN delegations :
                    (DOMAIN delegations' = DOMAIN delegations \ {j}) => Noticed(j)
               /\ \A b \in Committers : Staked(Store, b) => Staked(Store', b)
    <3>1. DelegationCooldownOver(k)
      BY <2>3 DEF EndDelegation
    <3>2. Noticed(k)
      BY <1>1, <2>3, <3>1, DelegationNotice DEF Noticed
    <3>3. /\ DOMAIN delegations' = DOMAIN delegations \ {k}
          /\ \A b \in Committers : Staked(Store, b) => Staked(Store', b)
      BY <1>1, <2>3, EndDelegationStep
    <3>4. ASSUME NEW j \in DOMAIN delegations, DOMAIN delegations' = DOMAIN delegations \ {j}
          PROVE  j = k
      BY <3>3, <3>4
    <3> QED BY <3>2, <3>3, <3>4
  <2>4. CASE \E c \in Committers : EndComputeCommitment(c)
    <3>1. PICK c \in Committers : EndComputeCommitment(c)
      BY <2>4
    <3>2. /\ DOMAIN delegations' = DOMAIN delegations
          /\ \A b \in Committers : Staked(Store, b) /\ ~Staked(Store', b) => Announced(b)
      BY <2>2, <3>1
    <3>3. ASSUME NEW k \in DOMAIN delegations PROVE DOMAIN delegations' # DOMAIN delegations \ {k}
      <4>1. k \notin DOMAIN delegations \ {k}
        OBVIOUS
      <4> QED BY <3>2, <4>1
    <3> QED BY <3>2, <3>3
  <2>5. CASE \E k \in DOMAIN delegations : EndDelegation(k)
    BY <2>3, <2>5
  <2> QED BY <1>1, <2>1, <2>4, <2>5, StepCases
<1>2. StakingInv /\ [StakingNext]_stakingVars
        => [/\ \A k \in DOMAIN delegations :
                 (DOMAIN delegations' = DOMAIN delegations \ {k}) => Noticed(k)
            /\ \A c \in Committers :
                 (Staked(Store, c) /\ ~Staked(Store', c)) => Announced(c)]_stakingVars
  BY <1>1
<1> QED BY <1>2, StakingInvCorrect, PTL DEF StakingSpec, ReleasedAfterCooldown
=============================================================================
