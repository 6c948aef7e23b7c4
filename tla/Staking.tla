------------------------------ MODULE Staking -------------------------------
(***************************************************************************)
(* Staked compute of pallet-acurast-compute: committers stake for the      *)
(* compute they promise, delegators add stake to a commitment, every epoch *)
(* rewards are shared by weight, missed compute is slashed, and stake is   *)
(* released after a cooldown.                                              *)
(*                                                                         *)
(* Every extrinsic is one transaction.  The helpers of the pallet are      *)
(* operators that take the storage and return the storage they leave, so   *)
(* that a handler is the sequence of its calls; the field ok says whether  *)
(* every check and every checked operation on the way has succeeded.       *)
(*                                                                         *)
(* There is one metric pool with all of the reward.  A manager delivers    *)
(* the committed metric in an epoch or nothing, without bonus; managers    *)
(* without commitments deliver too, so that the target weight per compute  *)
(* is positive.  The commission is fixed.  A commitment is named after its *)
(* committer.                                                              *)
(***************************************************************************)
EXTENDS Currency, Buffers, Sums, FiniteSets

CONSTANTS Committers, Delegators, Slashers,        \* accounts
          Distribution,                            \* the pallet's account
          Epoch,                                   \* blocks in an epoch
          MinCooldownPeriod, MaxCooldownPeriod, RedelegationBlockingPeriod,
          MinStake, MinDelegation,
          MaxDelegationRatio, CooldownRewardRatio, \* ratios, in percent
          BaseSlashRation, SlashRewardRatio, Commission,
          PER_TOKEN_DECIMALS,                      \* precision of values per weight
          ScoreLimit,                              \* weight the committed metric can use
          Inflation,                               \* minted for stakers every epoch
          Amounts, StakePeriods, DelegationPeriods, \* inputs
          InitialBalances, MaxBlock

VARIABLES block,             \* the block number
          commitments,       \* Commitments and the presence of ComputeCommitments
          delegations,       \* Delegations: <<delegator, committer>> to delegation
          delegator_total,   \* DelegatorTotal
          total_stake,       \* TotalStake
          locks,             \* the lock under T::LockIdentifier
          ledger,            \* balances
          metrics,           \* MetricsEpochSum: was the metric delivered
          scores,            \* Scores
          budget,            \* StakeBasedRewards
          unrecorded,        \* history: rewards transferred but not counted as paid
          overslashed,       \* history: what committers lost beyond their stakes
          announced          \* history: blocks at which a commitment's cooldown began

rewardVars == <<metrics, scores, budget>>
storeVars == <<commitments, delegations, delegator_total, total_stake, locks, ledger,
               unrecorded, overslashed>>
stakingVars == <<block, storeVars, rewardVars, announced>>

ASSUME StakingAssumption ==
    /\ Committers \cup Delegators \cup Slashers \cup {Distribution} \subseteq Accounts
    /\ Distribution \notin Committers \cup Delegators \cup Slashers
    /\ IsFiniteSet(Committers)
    /\ \A n \in {Epoch, MaxCooldownPeriod, PER_TOKEN_DECIMALS, MinStake, MinDelegation,
                 MinCooldownPeriod} : n \in Nat \ {0}
    /\ \A p \in {MaxDelegationRatio, CooldownRewardRatio, BaseSlashRation,
                 SlashRewardRatio, Commission} : p \in 0 .. 100
    /\ {ScoreLimit, Inflation, MaxBlock, RedelegationBlockingPeriod} \subseteq Nat
    /\ Amounts \cup StakePeriods \cup DelegationPeriods \subseteq Nat
    /\ InitialBalances \in [Accounts -> Nat]

-----------------------------------------------------------------------------
(* Storage *)

epoch == block \div Epoch

\* What a transaction works on: the storage, the reward the last withdrawal
\* returned, and whether every check and checked operation so far succeeded.
Store ==
    [commitments |-> commitments, delegations |-> delegations,
     delegator_total |-> delegator_total, total_stake |-> total_stake, locks |-> locks,
     ledger |-> ledger, unrecorded |-> unrecorded, overslashed |-> overslashed,
     reward |-> 0, ok |-> TRUE]

Ensure(s, condition) == [s EXCEPT !.ok = @ /\ condition]

\* The transaction succeeds and leaves the storage s.
Save(s) ==
    /\ s.ok
    /\ commitments' = s.commitments
    /\ delegations' = s.delegations
    /\ delegator_total' = s.delegator_total
    /\ total_stake' = s.total_stake
    /\ locks' = s.locks
    /\ ledger' = s.ledger
    /\ unrecorded' = s.unrecorded
    /\ overslashed' = s.overslashed

\* saturating_sub, mul_floor and the ceiling of checked_div_ceil.
Minus(m, n) == IF m > n THEN m - n ELSE 0

Part(percent, n) == (percent * n) \div 100

DivCeil(m, n) == (m + n - 1) \div n

Weight(amount, period) == (amount * period) \div MaxCooldownPeriod

Stakes == [amount : Nat, rewardable_amount : Nat, created : Nat, cooldown_period : Nat,
           cooldown_started : Nat \cup {None}, accrued_reward : Nat, accrued_slash : Nat]

Weights == [self_reward : Nat, self_slash : Nat, delegations_reward : Nat,
            delegations_slash : Nat]

PoolReward == [reward_per_weight : Nat, slash_per_weight : Nat]

Commitments == [stake : Stakes \cup {None},
                delegations_total_amount : Nat, delegations_total_rewardable_amount : Nat,
                weights : MemoryBuffers(Weights), pool_rewards : MemoryBuffers(PoolReward),
                last_scoring_epoch : Nat, last_slashing_epoch : Nat]

Delegations == [stake : Stakes, reward_weight : Nat, slash_weight : Nat,
                reward_debt : Nat, slash_debt : Nat]

ASSUME NoneAssumption ==
    None \notin Nat \cup Stakes \cup Commitments \cup Weights \cup Entries(Weights)
                \cup PoolReward \cup Entries(PoolReward)

NoWeights == [self_reward |-> 0, self_slash |-> 0, delegations_reward |-> 0,
              delegations_slash |-> 0]

NoRewards == [reward_per_weight |-> 0, slash_per_weight |-> 0]

\* Stake::new
NewStake(amount, period) ==
    [amount |-> amount, rewardable_amount |-> amount, created |-> block,
     cooldown_period |-> period, cooldown_started |-> None,
     accrued_reward |-> 0, accrued_slash |-> 0]

Staked(s, c) == c \in Committers /\ s.commitments[c] # None /\ s.commitments[c].stake # None

OwnStake(s, a) == IF Staked(s, a) THEN s.commitments[a].stake.amount ELSE 0

Balance(s, a) == s.ledger.free[a] + s.ledger.held[a]

\* A delegation to the commitment that stands, not to an ended one before it.
Fresh(cm, d) == cm.stake # None /\ d.stake.created >= cm.stake.created

WeightsAt(cm, e) ==
    LET w == get_latest(cm.weights, e) IN IF w = None THEN NoWeights ELSE w

CurrentWeights(cm) == cm.weights.current.value

TotalRewardWeight(w) == w.self_reward + w.delegations_reward

\* The committer's weights after a change of his stake.
Reweigh(cm) ==
    LET w == Weight(cm.stake.rewardable_amount, cm.stake.cooldown_period)
    IN  [cm EXCEPT !.weights = Remember(@, epoch,
            [CurrentWeights(cm) EXCEPT !.self_reward = w, !.self_slash = w])]

\* Slip: the weight that is slashed stays.
Shrink_slashWeightKept(cm, amount, rewardable, reward_weight, slash_weight) ==
    [cm EXCEPT
        !.delegations_total_amount = Minus(@, amount),
        !.delegations_total_rewardable_amount = Minus(@, rewardable),
        !.weights = Remember(@, epoch,
            [CurrentWeights(cm) EXCEPT !.delegations_reward = Minus(@, reward_weight)])]

\* What a delegation takes out of the totals of its commitment.
Shrink(cm, amount, rewardable, reward_weight, slash_weight) ==
    [cm EXCEPT
        !.delegations_total_amount = Minus(@, amount),
        !.delegations_total_rewardable_amount = Minus(@, rewardable),
        !.weights = Remember(@, epoch,
            [CurrentWeights(cm) EXCEPT
                !.delegations_reward = Minus(@, reward_weight),
                !.delegations_slash = Minus(@, slash_weight)])]

\* Did the manager of c deliver the committed metric in epoch e?
Delivered(c, e) == At(metrics[c], e, FALSE)

\* More weight than the committed metric can use.
validate_max_stake_metric_ratio(s, c) ==
    TotalRewardWeight(CurrentWeights(s.commitments[c])) <= ScoreLimit

SaveValidated(s, c) == validate_max_stake_metric_ratio(s, c) /\ Save(s)

\* More weight than the metric measured in the last epoch can use.
is_commitment_overstaked(s, c) ==
    TotalRewardWeight(CurrentWeights(s.commitments[c]))
        > IF Delivered(c, epoch - 1) THEN ScoreLimit ELSE 0

NotOverstaked(s, c) == Ensure(s, ~is_commitment_overstaked(s, c))

\* Slip: only delegations are locked.
DelegationLock_stakeForgotten(s, a, c, amount) == s.delegator_total[a] + amount

\* lock_funds for a delegation: all other locks of the pallet and the amount.
DelegationLock(s, a, c, amount) ==
    LET delegated == IF <<a, c>> \in DOMAIN s.delegations
                     THEN s.delegations[<<a, c>>].stake.amount ELSE 0
    IN  Minus(s.delegator_total[a], delegated) + OwnStake(s, a) + amount

\* Pay a reward out of the distribution account.
Pay(s, a, n) ==
    [s EXCEPT !.ok = @ /\ CanTransfer(s.ledger, Distribution, a, n),
              !.ledger = Transfer(@, Distribution, a, n),
              !.unrecorded[a] = @ + n]

\* Set a lock, for which the account owns enough.
lock_funds(s, a, n) == [s EXCEPT !.ok = @ /\ n <= Balance(s, a), !.locks[a] = n]

-----------------------------------------------------------------------------
(* Committers *)

\* stake_for: a new stake starts with fresh totals and weights; the rewards of
\* the commitment before it are kept for its delegators.
stake_for(s, c, amount, period) ==
    LET w    == Weight(amount, period)
        new  == [stake |-> NewStake(amount, period),
                 delegations_total_amount |-> 0, delegations_total_rewardable_amount |-> 0,
                 weights |-> MemoryBuffer(epoch,
                    [NoWeights EXCEPT !.self_reward = w, !.self_slash = w]),
                 pool_rewards |-> MemoryBuffer(block, NoRewards),
                 last_scoring_epoch |-> 0, last_slashing_epoch |-> 0]
        old  == s.commitments[c]
    IN  [lock_funds(s, c, s.delegator_total[c] + amount) EXCEPT
            !.total_stake = @ + amount,
            !.commitments[c] =
                IF old = None THEN new
                ELSE [new EXCEPT !.pool_rewards = Remember(old.pool_rewards, block, NoRewards),
                                 !.last_scoring_epoch = old.last_scoring_epoch,
                                 !.last_slashing_epoch = old.last_slashing_epoch]]

\* commit_compute: the committed metric is limited by what was measured in the
\* last epoch, so there has to be one.
CommitCompute(c, amount, period) ==
    /\ epoch > 0 /\ Delivered(c, epoch - 1)
    /\ amount >= MinStake
    /\ period \in MinCooldownPeriod .. MaxCooldownPeriod
    /\ ~Staked(Store, c)
    /\ SaveValidated(stake_for(Store, c, amount, period), c)
    /\ UNCHANGED <<block, rewardVars, announced>>

\* stake_more_for with an extra amount and a new cooldown period.
stake_more_for(s, c, extra, period) ==
    LET cm == s.commitments[c]
        n  == cm.stake.amount + extra
        t  == [s EXCEPT
                !.ok = @ /\ cm.stake.cooldown_started = None
                         /\ period >= cm.stake.cooldown_period,
                !.total_stake = @ + extra,
                !.commitments[c] = Reweigh([cm EXCEPT
                    !.stake.amount = n, !.stake.cooldown_period = period,
                    !.stake.rewardable_amount = IF extra = 0 THEN @ ELSE n])]
    IN  IF extra = 0 THEN t
        ELSE NotOverstaked(lock_funds(t, c, s.delegator_total[c] + n), c)

\* The extrinsic also validates the ratio of stake and metric.
StakeMore(c, extra, period) ==
    /\ Staked(Store, c)
    /\ SaveValidated(stake_more_for(Store, c, extra, period), c)
    /\ UNCHANGED <<block, rewardVars, announced>>

withdraw_committer_for(s, c) ==
    LET r == s.commitments[c].stake.accrued_reward
    IN  [Pay(s, c, r) EXCEPT !.commitments[c].stake.accrued_reward = 0,
                             !.unrecorded[c] = @ - r,
                             !.reward = r]

WithdrawCommitment(c) ==
    /\ Staked(Store, c)
    /\ Save(withdraw_committer_for(Store, c))
    /\ UNCHANGED <<block, rewardVars, announced>>

\* compound_stake: the reward is paid out and staked.
CompoundStake(c) ==
    /\ Staked(Store, c)
    /\ LET s == withdraw_committer_for(Store, c)
       IN  Save(stake_more_for(s, c, s.reward, commitments[c].stake.cooldown_period))
    /\ UNCHANGED <<block, rewardVars, announced>>

\* cooldown_commitment_for: from now on only part of the stake is rewarded, all
\* of it can be slashed.
CooldownComputeCommitment(c) ==
    /\ Staked(Store, c)
    /\ commitments[c].stake.cooldown_started = None
    /\ LET cm == commitments[c]
           r  == Part(CooldownRewardRatio, cm.stake.amount)
       IN  commitments' = [commitments EXCEPT ![c] =
               [cm EXCEPT
                   !.stake.cooldown_started = block,
                   !.stake.rewardable_amount = r,
                   !.weights = Remember(@, epoch,
                       [CurrentWeights(cm) EXCEPT
                           !.self_reward = Weight(r, cm.stake.cooldown_period)])]]
    /\ announced' = [announced EXCEPT ![c] = @ \cup {block}]
    /\ UNCHANGED <<block, delegations, delegator_total, total_stake, locks, ledger,
                   unrecorded, overslashed, rewardVars>>

\* end_commitment_for: pay, then forget the stake and the totals.  The
\* delegations stay behind, and are stale from now on.
end_commitment_for(s, c) ==
    LET n == s.commitments[c].stake.amount
    IN  [withdraw_committer_for(s, c) EXCEPT
            !.ok = @ /\ n <= s.total_stake,
            !.commitments[c] =
                [@ EXCEPT !.stake = None,
                          !.delegations_total_amount = 0,
                          !.delegations_total_rewardable_amount = 0,
                          !.weights = MemoryBuffer(epoch, NoWeights)],
            !.total_stake = @ - n,
            !.locks[c] = Minus(@, n)]

CommitmentCooldownOver(c) ==
    /\ commitments[c].stake.cooldown_started # None
    /\ commitments[c].stake.cooldown_started + commitments[c].stake.cooldown_period <= block

EndComputeCommitment(c) ==
    /\ Staked(Store, c)
    /\ CommitmentCooldownOver(c)
    /\ Save(end_commitment_for(Store, c))
    /\ UNCHANGED <<block, rewardVars, announced>>

-----------------------------------------------------------------------------
(* Delegators *)

PoolRewards(s, k) == get_latest(s.commitments[k[2]].pool_rewards, s.delegations[k].stake.created)

RewardDebt(weight, r) == DivCeil(weight * r.reward_per_weight, PER_TOKEN_DECIMALS)

PerWeight(weight, n) == (weight * n) \div PER_TOKEN_DECIMALS

\* The reward since the debt was recorded; the debt was rounded up.
Earned(d, r) == Minus(PerWeight(d.reward_weight, r.reward_per_weight), d.reward_debt)

\* accrue_delegator: take over what the pool earned and lost per weight since
\* the last time; nothing if the pool has forgotten the commitment.
accrue_delegator(s, k) ==
    LET d == s.delegations[k]
        r == PoolRewards(s, k)
        slash == PerWeight(d.slash_weight, r.slash_per_weight)
    IN  IF r = None THEN s ELSE
        [s EXCEPT
            !.ok = @ /\ slash >= d.slash_debt,
            !.delegations[k] =
                [d EXCEPT
                    !.stake.accrued_reward = @ + Earned(d, r),
                    !.stake.accrued_slash = @ + slash - d.slash_debt,
                    !.reward_debt = RewardDebt(d.reward_weight, r),
                    !.slash_debt = slash]]

\* decrease_delegator_stake by n, which is at most the stake.  The weights
\* follow if the delegation is not stale; the totals of a commitment that
\* stands are reduced in any case.
decrease_delegator_stake(s, k, n) ==
    LET d  == s.delegations[k]
        cm == s.commitments[k[2]]
        r  == PoolRewards(s, k)
        amount     == d.stake.amount - n
        rewardable == IF d.stake.cooldown_started = None THEN amount
                      ELSE Part(CooldownRewardRatio, amount)
        rw == Weight(rewardable, d.stake.cooldown_period)
        sw == Weight(amount, d.stake.cooldown_period)
        less == [d EXCEPT !.stake.amount = amount, !.stake.rewardable_amount = rewardable]
        t == lock_funds(s, k[1], DelegationLock(s, k[1], k[2], amount))
    IN  [t EXCEPT
            !.ok = @ /\ n <= Min({s.total_stake, s.delegator_total[k[1]]}),
            !.delegations[k] =
                IF ~Fresh(cm, d) THEN less
                ELSE [less EXCEPT !.reward_weight = rw, !.slash_weight = sw,
                                  !.reward_debt = RewardDebt(rw, r),
                                  !.slash_debt = PerWeight(sw, r.slash_per_weight)],
            !.commitments[k[2]] =
                IF cm.stake = None THEN cm
                ELSE Shrink(cm, n, Minus(d.stake.rewardable_amount, rewardable),
                            IF Fresh(cm, d) THEN d.reward_weight - rw ELSE 0,
                            IF Fresh(cm, d) THEN d.slash_weight - sw ELSE 0),
            !.total_stake = @ - n,
            !.delegator_total[k[1]] = @ - n]

\* Slip: all of the accrued slash.
Slashed_unbounded(stake) == stake.accrued_slash

\* The part of the accrued slash that the stake can bear.
Slashed(stake) == Min({stake.accrued_slash, stake.amount})

\* Take the accrued slash from the stake and burn it.
BurnSlash(s, k) ==
    LET n == Slashed(s.delegations[k].stake)
    IN  IF s.delegations[k].stake.accrued_slash = 0 THEN s
        ELSE [decrease_delegator_stake(s, k, n) EXCEPT
                !.ok = @ /\ n <= s.ledger.free[k[1]],
                !.ledger = Withdraw(@, k[1], n),
                !.delegations[k].stake.accrued_slash = @ - n]

apply_delegator_slash(s, k) == BurnSlash(accrue_delegator(s, k), k)

withdraw_delegator_accrued(s, k) ==
    LET r == s.delegations[k].stake.accrued_reward
    IN  [Pay(s, k[1], r) EXCEPT
            !.delegations[k].stake.accrued_reward = 0,
            !.unrecorded[k[1]] = @ - r,
            !.reward = r]

withdraw_delegation_for(s, k) == withdraw_delegator_accrued(apply_delegator_slash(s, k), k)

\* Slip: a stale delegation is taken out of the weights of the commitment that
\* has replaced its own.
LeaveCommitment_stale(cm, d) ==
    IF cm.stake = None THEN cm
    ELSE Shrink(cm, d.stake.amount, d.stake.rewardable_amount, d.reward_weight, d.slash_weight)

LeaveCommitment(cm, d) ==
    IF ~Fresh(cm, d) THEN cm
    ELSE Shrink(cm, d.stake.amount, d.stake.rewardable_amount, d.reward_weight, d.slash_weight)

\* Slip: TotalStake keeps the delegation.
TakeDelegation_totalKept(s, k) ==
    LET d == s.delegations[k]
    IN  [s EXCEPT
            !.delegations = [l \in DOMAIN @ \ {k} |-> @[l]],
            !.commitments[k[2]] = LeaveCommitment(@, d),
            !.delegator_total[k[1]] = @ - d.stake.amount,
            !.locks[k[1]] = Minus(@, d.stake.amount)]

\* A delegation leaves the totals of a commitment that still stands, and the
\* rest of its stake is unlocked.
TakeDelegation(s, k) ==
    LET d  == s.delegations[k]
        cm == s.commitments[k[2]]
    IN  [s EXCEPT
            !.ok = @ /\ d.stake.amount <= Min({s.total_stake, s.delegator_total[k[1]]}),
            !.delegations = [l \in DOMAIN @ \ {k} |-> @[l]],
            !.commitments[k[2]] = LeaveCommitment(cm, d),
            !.total_stake = @ - d.stake.amount,
            !.delegator_total[k[1]] = @ - d.stake.amount,
            !.locks[k[1]] = Minus(@, d.stake.amount),
            !.ledger = Withdraw(@, k[1], Slashed(d.stake))]

\* end_delegation_for without the check of the cooldown.
end_delegation_for(s, k) == TakeDelegation(withdraw_delegation_for(s, k), k)

\* The cooldown of a delegator starts with his own or his committer's.
DelegationCooldownOver(k) ==
    LET cm == commitments[k[2]]
        d  == delegations[k]
        started == {d.stake.cooldown_started, cm.stake.cooldown_started} \ {None}
    IN  Fresh(cm, d) =>
            started # {} /\ Min(started) + d.stake.cooldown_period <= block

\* delegation_weight_ratio against its maximum.
WithinDelegationRatio(w) ==
    100 * w.delegations_reward <= MaxDelegationRatio * (w.self_slash + w.delegations_reward)

\* Not more delegated weight than the ratio allows and the metric can use.
WithinLimits(s, c) ==
    NotOverstaked(Ensure(s, WithinDelegationRatio(CurrentWeights(s.commitments[c]))), c)

\* Slip: delegators may stay longer than their committer has to.
Joinable_anyPeriod(cm, period) == cm.stake # None /\ cm.stake.cooldown_started = None

\* A commitment that stands and is not cooling down can be joined, for not
\* longer than its committer has to stay.
Joinable(cm, period) ==
    /\ cm.stake # None
    /\ cm.stake.cooldown_started = None
    /\ period <= cm.stake.cooldown_period

delegate_for(s, k, amount, period) ==
    LET cm == s.commitments[k[2]]
        w  == Weight(amount, period)
        r  == get_latest(cm.pool_rewards, block)
        d  == [stake |-> NewStake(amount, period), reward_weight |-> w, slash_weight |-> w,
               reward_debt |-> RewardDebt(w, r),
               slash_debt |-> PerWeight(w, r.slash_per_weight)]
    IN  WithinLimits(
            [lock_funds(s, k[1], DelegationLock(s, k[1], k[2], amount)) EXCEPT
                !.ok = /\ @
                       /\ amount >= MinDelegation
                       /\ period \in MinCooldownPeriod .. MaxCooldownPeriod
                       /\ k \notin DOMAIN s.delegations
                       /\ Joinable(cm, period),
                !.delegations = [l \in DOMAIN @ \cup {k} |-> IF l = k THEN d ELSE @[l]],
                !.commitments[k[2]] =
                    [cm EXCEPT
                        !.delegations_total_amount = @ + amount,
                        !.delegations_total_rewardable_amount = @ + amount,
                        !.weights = Remember(@, epoch,
                            [CurrentWeights(cm) EXCEPT !.delegations_reward = @ + w,
                                                       !.delegations_slash = @ + w])],
                !.total_stake = @ + amount,
                !.delegator_total[k[1]] = @ + amount],
            k[2])

Delegate(a, c, amount, period) ==
    /\ Staked(Store, c)
    /\ SaveValidated(delegate_for(Store, <<a, c>>, amount, period), c)
    /\ UNCHANGED <<block, rewardVars, announced>>

\* delegate_more_for and redelegate_for end the delegation and transfer the
\* reward that ending it has already paid once more, to delegate anew.
PayAgain(s, a) == Pay(s, a, s.reward)

Moved(s, k) == PayAgain(end_delegation_for(s, k), k[1])

delegate_more_for(s, k, extra, period) ==
    LET d == s.delegations[k]
    IN  delegate_for(
            Moved(Ensure(s, /\ d.stake.cooldown_started = None
                            /\ Fresh(s.commitments[k[2]], d)
                            /\ period >= d.stake.cooldown_period), k),
            k, d.stake.amount + extra, period)

DelegateMore(k, extra, period) ==
    /\ SaveValidated(delegate_more_for(Store, k, extra, period), k[2])
    /\ UNCHANGED <<block, rewardVars, announced>>

WithdrawDelegation(k) ==
    /\ Save(withdraw_delegation_for(Store, k))
    /\ UNCHANGED <<block, rewardVars, announced>>

\* compound_delegation: the reward is paid out and delegated.
delegate_reward(s, k) ==
    delegate_more_for(s, k, s.reward, s.delegations[k].stake.cooldown_period)

CompoundDelegation(k) ==
    /\ Save(delegate_reward(withdraw_delegation_for(Store, k), k))
    /\ UNCHANGED <<block, rewardVars, announced>>

\* cooldown_delegation_for: what is left after slashing is rewarded in part.
StartCooldown(s, k) ==
    LET cm == s.commitments[k[2]]
        d  == s.delegations[k]
        r  == Part(CooldownRewardRatio, d.stake.amount)
        w  == Weight(r, d.stake.cooldown_period)
        start == cm.stake.cooldown_started
    IN  [s EXCEPT
            !.delegations[k] =
                [d EXCEPT !.stake.cooldown_started = IF start = None THEN block ELSE start,
                          !.stake.rewardable_amount = r,
                          !.reward_weight = w,
                          !.reward_debt = RewardDebt(w, PoolRewards(s, k))],
            !.commitments[k[2]] =
                Shrink(cm, 0, d.stake.amount - r, d.reward_weight - w, 0)]

CooldownDelegation(k) ==
    /\ Fresh(commitments[k[2]], delegations[k])
    /\ delegations[k].stake.cooldown_started = None
    /\ Save(StartCooldown(apply_delegator_slash(Store, k), k))
    /\ UNCHANGED <<block, rewardVars, announced>>

\* redelegate_for: to another commitment, at once if the old one is in cooldown.
Redelegate(a, old, new) ==
    LET k == <<a, old>>
    IN  /\ k \in DOMAIN delegations
        /\ <<a, new>> \notin DOMAIN delegations
        /\ Fresh(commitments[old], delegations[k])
        /\ \/ commitments[old].stake.cooldown_started # None
           \/ block - delegations[k].stake.created >= RedelegationBlockingPeriod * Epoch
        /\ Staked(Store, new)
        /\ Save(delegate_for(Moved(Store, k), <<a, new>>, delegations[k].stake.amount,
                             delegations[k].stake.cooldown_period))
        /\ UNCHANGED <<block, rewardVars, announced>>

\* end_delegation by the delegator, or kick_out of a stale delegation by anyone.
EndDelegation(k) ==
    /\ DelegationCooldownOver(k)
    /\ Save(end_delegation_for(Store, k))
    /\ UNCHANGED <<block, rewardVars, announced>>

-----------------------------------------------------------------------------
(* Rewards and slashes *)

NoBudget == [total |-> 0, total_score |-> 0]

\* distribute: the share of commitment c in the budget of the last epoch.
Share(c) ==
    LET b == At(budget, epoch - 1, NoBudget)
    IN  IF b.total_score = 0 THEN 0
        ELSE (At(scores[c], epoch - 1, 0) * b.total) \div b.total_score

\* distribute: split the share by the weights of the last epoch; the delegators'
\* part goes to everyone who delegates now, per weight.
distribute(cm, share) ==
    LET w    == WeightsAt(cm, epoch - 1)
        self == (w.self_reward * share) \div TotalRewardWeight(w)
        fee  == Part(Commission, share - self)
        rest == share - self - fee
        r    == get_latest(cm.pool_rewards, cm.stake.created)
    IN  IF cm.stake = None \/ TotalRewardWeight(w) = 0 THEN cm
        ELSE [cm EXCEPT
                !.stake.accrued_reward = @ + self + fee,
                !.pool_rewards =
                    IF w.delegations_reward = 0 THEN @
                    ELSE Remember(@, cm.stake.created,
                        [r EXCEPT !.reward_per_weight =
                            @ + (rest * PER_TOKEN_DECIMALS) \div w.delegations_reward])]

\* score: the weight of the last epoch that the delivered metric can use.
Score(c) ==
    IF commitments[c].stake # None /\ Delivered(c, epoch - 1)
    THEN Min({ScoreLimit, TotalRewardWeight(WeightsAt(commitments[c], epoch - 1))})
    ELSE 0

\* The first heartbeat of c's manager in an epoch brings the metric.  If there
\* was one in the epoch before, it distributes the reward of the last epoch and
\* scores for this one, once per epoch.
Heartbeat(c) ==
    /\ ~Delivered(c, epoch)
    /\ metrics' = [metrics EXCEPT ![c] = Slide(@, epoch, TRUE, FALSE)]
    /\ IF /\ metrics[c].epoch + 1 = epoch
          /\ commitments[c] # None
          /\ commitments[c].last_scoring_epoch < epoch
       THEN /\ commitments' = [commitments EXCEPT ![c] =
                   [distribute(@, Share(c)) EXCEPT !.last_scoring_epoch = epoch]]
            /\ scores' = IF Score(c) = 0 THEN scores
                         ELSE [scores EXCEPT ![c] = Slide(@, epoch, Score(c), 0)]
            /\ budget' = [budget EXCEPT !.cur.total_score = @ + Score(c)]
       ELSE UNCHANGED <<commitments, scores, budget>>
    /\ UNCHANGED <<block, delegations, delegator_total, total_stake, locks, ledger,
                   unrecorded, overslashed, announced>>

\* Epochs the manager of c has missed and was not slashed for.
MissedEpochs(c) ==
    IF metrics[c].epoch < epoch - 1
    THEN epoch - 1 - Max({metrics[c].epoch, commitments[c].last_slashing_epoch})
    ELSE 1

SlashAmount(c) ==
    LET cm == commitments[c]
    IN  IF Delivered(c, epoch - 1) THEN 0
        ELSE Part(BaseSlashRation, cm.stake.amount + cm.delegations_total_amount)
                * MissedEpochs(c)

\* decrease_committer_stake: the stake saturates at zero, the total does not.
decrease_committer_stake(s, c, n) ==
    LET cm == s.commitments[c]
        amount == Minus(cm.stake.amount, n)
    IN  IF n = 0 THEN s ELSE
        [lock_funds(s, c, s.delegator_total[c] + amount) EXCEPT
            !.ok = @ /\ n <= s.total_stake,
            !.overslashed = @ + Minus(n, cm.stake.amount),
            !.commitments[c] = Reweigh([cm EXCEPT
                !.stake.amount = amount,
                !.stake.rewardable_amount =
                    IF cm.stake.cooldown_started = None THEN amount
                    ELSE Part(CooldownRewardRatio, amount)]),
            !.total_stake = @ - n]

\* do_slash: the committer's share is burnt at once, except for the reward of
\* the slasher; the delegators' is added to what their weights owe.
Slash(c, slasher) ==
    /\ epoch > 0
    /\ Staked(Store, c)
    /\ commitments[c].last_slashing_epoch < epoch - 1
    /\ SlashAmount(c) > 0
    /\ LET w     == WeightsAt(commitments[c], epoch - 1)
           total == SlashAmount(c)
           self  == (w.self_slash * total) \div (w.self_slash + w.delegations_slash)
           extra == IF w.delegations_slash = 0 THEN 0
                    ELSE ((total - self) * PER_TOKEN_DECIMALS) \div w.delegations_slash
           s     == decrease_committer_stake(Store, c, self)
           cm    == s.commitments[c]
           fee   == Min({Part(SlashRewardRatio, total), self})
       IN  /\ w.self_slash + w.delegations_slash > 0
           /\ self <= ledger.free[c]
           /\ Save([s EXCEPT
                  !.ledger = Deposit(Withdraw(@, c, self), slasher, fee),
                  !.commitments[c] =
                      [cm EXCEPT
                          !.pool_rewards.current.value.slash_per_weight = @ + extra,
                          !.last_slashing_epoch = epoch - 1]])
    /\ UNCHANGED <<block, rewardVars, announced>>

\* on_initialize: a new epoch mints the rewards of the stakers.
NextBlock ==
    /\ block < MaxBlock
    /\ block' = block + 1
    /\ IF block' % Epoch = 0
       THEN /\ budget' = Slide(budget, epoch + 1, [NoBudget EXCEPT !.total = Inflation], NoBudget)
            /\ ledger' = Deposit(ledger, Distribution, Inflation)
       ELSE UNCHANGED <<budget, ledger>>
    /\ UNCHANGED <<commitments, delegations, delegator_total, total_stake, locks,
                   unrecorded, overslashed, metrics, scores, announced>>

-----------------------------------------------------------------------------
StakingInit ==
    /\ block = 0
    /\ commitments = [c \in Committers |-> None]
    /\ delegations = [k \in {} |-> None]
    /\ delegator_total = [a \in Accounts |-> 0]
    /\ total_stake = 0
    /\ locks = [a \in Accounts |-> 0]
    /\ ledger = [free |-> InitialBalances, held |-> [a \in Accounts |-> 0]]
    /\ metrics = [c \in Committers |-> SlidingBuffer(FALSE)]
    /\ scores = [c \in Committers |-> SlidingBuffer(0)]
    /\ budget = SlidingBuffer(NoBudget)
    /\ unrecorded = [a \in Accounts |-> 0]
    /\ overslashed = 0
    /\ announced = [c \in Committers |-> {}]

StakingNext ==
    \/ NextBlock
    \/ \E c \in Committers :
        \/ Heartbeat(c)
        \/ WithdrawCommitment(c)
        \/ CompoundStake(c)
        \/ CooldownComputeCommitment(c)
        \/ EndComputeCommitment(c)
        \/ \E n \in Amounts, p \in StakePeriods : CommitCompute(c, n, p)
        \/ \E n \in Amounts \cup {0}, p \in StakePeriods : StakeMore(c, n, p)
        \/ \E a \in Slashers : Slash(c, a)
        \/ \E a \in Delegators, n \in Amounts, p \in DelegationPeriods : Delegate(a, c, n, p)
    \/ \E k \in DOMAIN delegations :
        \/ WithdrawDelegation(k)
        \/ CompoundDelegation(k)
        \/ CooldownDelegation(k)
        \/ EndDelegation(k)
        \/ \E n \in Amounts \cup {0}, p \in DelegationPeriods : DelegateMore(k, n, p)
        \/ \E c \in Committers : Redelegate(k[1], k[2], c)

StakingSpec == StakingInit /\ [][StakingNext]_stakingVars

-----------------------------------------------------------------------------
(* Properties *)

DelegationsOf(a) == {k \in DOMAIN delegations : k[1] = a}

Delegated(K) == SumOver([k \in K |-> delegations[k].stake.amount], K)

\* What an account has locked is exactly its own stake and its delegations,
\* through slashes, restarts and moves of any of them (lock_funds computes the
\* new lock from three maps that are halfway updated), and it owns that much
\* but for what a slash took beyond a stake.
LocksAreStakes ==
    \A a \in Accounts :
        /\ locks[a] = OwnStake(Store, a) + Delegated(DelegationsOf(a))
        /\ delegator_total[a] = Delegated(DelegationsOf(a))
        /\ locks[a] <= Balance(Store, a) + overslashed

\* TotalStake is the sum of all stakes and delegations, stale ones included,
\* except that a slash for many missed epochs takes more from it than the
\* committer had staked.
TotalStakeIsSum ==
    total_stake + overslashed =
        SumOver([c \in Committers |-> OwnStake(Store, c)], Committers)
            + Delegated(DOMAIN delegations)

\* The weight that decides a delegator pool's share of rewards and slashes is
\* the weight of the delegations in it: stale ones have no part in it.
WeightsAreSums ==
    \A c \in Committers : Staked(Store, c) =>
        LET K == {k \in DOMAIN delegations :
                    k[2] = c /\ Fresh(commitments[c], delegations[k])}
            w == CurrentWeights(commitments[c])
        IN  /\ w.delegations_reward = SumOver([k \in K |-> delegations[k].reward_weight], K)
            /\ w.delegations_slash = SumOver([k \in K |-> delegations[k].slash_weight], K)

\* What is shared is what there is: the total and the weights of the pools both
\* follow the delegations, through slashes, stale delegations and new
\* commitments in the place of old ones.
StakesAddUp == TotalStakeIsSum /\ WeightsAreSums

\* Stake leaves only after notice: when a delegation is given up, a cooldown of
\* its own or of its commitment began at least its cooldown period ago, after
\* it was made.  The same for a committer's stake.
ReleasedAfterCooldown ==
    [][/\ \A k \in DOMAIN delegations :
            (DOMAIN delegations' = DOMAIN delegations \ {k}) =>
                LET d == delegations[k].stake
                IN  \E t \in ({d.cooldown_started} \ {None}) \cup announced[k[2]] :
                        d.created <= t /\ t + d.cooldown_period <= block
       /\ \A c \in Committers :
            (Staked(Store, c) /\ ~Staked(Store', c)) =>
                LET d == commitments[c].stake
                IN  \E t \in announced[c] : d.created <= t /\ t + d.cooldown_period <= block
      ]_stakingVars

\* Whoever has waited for the cooldown gets out: no checked operation on the
\* way fails, unless the distribution account cannot pay the reward to what
\* the slash leaves of the account, or TotalStake has lost what a committer
\* never staked.
ExitNeverBlocked ==
    overslashed = 0 => \A k \in DOMAIN delegations :
        LET s == end_delegation_for(Store, k)
        IN  CanTransfer(apply_delegator_slash(Store, k).ledger, Distribution, k[1], s.reward)
                => s.ok

\* Stake::paid counts "the total amount paid out or compounded": it is what
\* the distribution account has transferred.
PaidIsReceived == \A a \in Accounts : unrecorded[a] = 0
=============================================================================
