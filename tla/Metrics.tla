------------------------------ MODULE Metrics -------------------------------
(***************************************************************************)
(* Metric pools of pallet-acurast-compute.  Processors commit benchmark    *)
(* results per pool with their heartbeats; a pool has a share of the       *)
(* rewards, from an epoch on that governance chooses.  The first commit of *)
(* a manager's processors to a pool in an epoch claims what the manager    *)
(* earned there in the epoch before: his part of the pool's total.         *)
(*                                                                         *)
(* A manager may replace the other: pairing belongs to the processor       *)
(* manager.  Stake-backed rewards are the subject of Staking; here the     *)
(* managers back no commitment.  Left out are the values that nothing but  *)
(* queries and a price estimate read (config of a pool, committed, paid,   *)
(* claimed, reward_contribution).                                          *)
(***************************************************************************)
EXTENDS Currency, Buffers, Sums, FiniteSets, Sequences

CONSTANTS Processors, Managers, Author,   \* Managers and the block author are accounts
          Distribution,                   \* the pallet's account
          Epoch,                          \* blocks in an epoch
          WarmupPeriod, MetricValidity,
          Accuracy,                       \* one whole, for the 10^18 of Perquintill
          BusyWeightBonus,                \* ratios, in parts of Accuracy
          InflationPerEpoch, InflationStakedComputeRatio, InflationMetricsRatio,
          InflationCollatorsRatio,
          MaxPools,
          Names, Ratios,                  \* inputs of governance
          Inputs,                         \* metrics of a heartbeat: pool id -> metric
          GenesisPools,                   \* the pools of genesis, as <<name, ratio>>
          InflationFromStart,             \* inflation is enabled in the first block
          InitialBalances, MaxBlock,
          MaxChanges,                     \* bound on changes of pools and pairings
          MaxAhead                        \* bound on how many epochs ahead they are scheduled

PoolIds == (UNION {DOMAIN i : i \in Inputs}) \cup (1 .. MaxPools)

ASSUME MetricsAssumption ==
    /\ Managers \cup {Author, Distribution} \subseteq Accounts
    /\ {Epoch, Accuracy} \subseteq Nat \ {0}
    /\ {WarmupPeriod, MetricValidity, InflationPerEpoch, MaxPools, MaxBlock,
        MaxChanges, MaxAhead} \subseteq Nat
    /\ Ratios \cup {BusyWeightBonus} \subseteq 0 .. Accuracy
    /\ {InflationStakedComputeRatio, InflationMetricsRatio, InflationCollatorsRatio} \subseteq Nat
    /\ InflationStakedComputeRatio + InflationMetricsRatio + InflationCollatorsRatio <= Accuracy
    /\ \A i \in Inputs : \A id \in DOMAIN i : id \in Nat \ {0} /\ i[id] \in Nat
    /\ InitialBalances \in [Accounts -> Nat]
    /\ InflationFromStart \in BOOLEAN
    /\ IsFiniteSet(Managers)

\* What the pallet expects of the chain specification and does not enforce:
\* do_create_pool inserts a pool before it validates the ratios, and the genesis
\* build logs the error and rolls nothing back, so that pools over the whole
\* would stay.
ASSUME GenesisAssumption ==
    /\ GenesisPools \in Seq(Names \X (0 .. Accuracy))
    /\ Len(GenesisPools) <= MaxPools
    /\ SumOver([id \in DOMAIN GenesisPools |-> GenesisPools[id][2]], DOMAIN GenesisPools) <= Accuracy

VARIABLES block,            \* frame_system block number
          cycle,            \* CurrentCycle
          pools,            \* MetricPools: pool ids count up from 1, no pool is removed
          poolLookup,       \* MetricPoolLookup: name -> pool id, or None
          processors,       \* Processors: Active, the end of warmup, or None
          metrics,          \* Metrics: processor, pool id -> commit, or None
          epochSum,         \* MetricsEpochSum: manager, pool id -> sliding buffer
          rewards,          \* ComputeBasedRewards
          collatorRewards,  \* CollatorRewards
          inflationEnabled, \* InflationEnabled
          manager,          \* the manager of a processor, in the processor manager
          ledger,           \* balances
          changes,          \* number of changes so far
          claimed,          \* history: epoch -> metric rewards granted for it
          disturbed         \* history: epochs whose shares changed after they were earned

poolVars == <<pools, poolLookup>>
commitVars == <<processors, metrics, epochSum>>
rewardVars == <<rewards, collatorRewards, inflationEnabled>>
historyVars == <<claimed, disturbed>>
metricsVars == <<block, cycle, poolVars, commitVars, rewardVars, manager, ledger, changes,
                historyVars>>

\* A change of the pools or of a pairing, within the bound.
Change == changes < MaxChanges /\ changes' = changes + 1

\* ProcessorStatus: Active, or the block at which warmup ends.
Active == 0

\* mul_floor, the product of two ratios, and Perquintill::from_rational.
Part(ratio, n) == (ratio * n) \div Accuracy

Rational(m, n) == (Min({m, n}) * Accuracy) \div n

\* A metric and the metric with the bonus for a busy processor.
NoMetric == <<0, 0>>

AddMetric(sum, metric, bonus) ==
    <<sum[1] + metric,
      sum[2] + metric + IF bonus THEN Part(BusyWeightBonus, metric) ELSE 0>>

AddAt(buffer, epoch, metric, bonus) ==
    Slide(buffer, epoch, AddMetric(At(buffer, epoch, NoMetric), metric, bonus), NoMetric)

-----------------------------------------------------------------------------
(* Pools *)

NewPool(name, ratio) ==
    [name |-> name, reward |-> ProvisionalBuffer(ratio), total |-> SlidingBuffer(NoMetric)]

RatioSum(ps, e) == SumOver([id \in DOMAIN ps |-> ProvidedAt(ps[id].reward, e)], DOMAIN ps)

\* Slip: only the current epoch is tested.
validate_metric_pools_now(ps) == RatioSum(ps, cycle.epoch) <= Accuracy

validate_metric_pools(ps) ==
    \A e \in {cycle.epoch} \cup UNION {next_epoch(ps[id].reward, cycle.epoch) : id \in DOMAIN ps} :
        RatioSum(ps, e) <= Accuracy

\* The shares of the epoch under way if metrics for this pool id came before it.
CommittedEarly(id) == \E m \in Managers : At(epochSum[m][id], cycle.epoch, NoMetric) # NoMetric

create_pool(name, ratio) ==
    LET id == Len(pools) + 1
    IN  /\ Change
        /\ Len(pools) < MaxPools
        /\ poolLookup[name] = None
        /\ pools' = Append(pools, NewPool(name, ratio))
        /\ poolLookup' = [poolLookup EXCEPT ![name] = id]
        /\ validate_metric_pools(pools')
        /\ disturbed' = IF CommittedEarly(id) THEN disturbed \cup {cycle.epoch} ELSE disturbed
        /\ UNCHANGED <<block, cycle, commitVars, rewardVars, manager, ledger, claimed>>

Rename(id, name) ==
    /\ poolLookup[name] \in {None, id}
    /\ poolLookup' = [poolLookup EXCEPT ![pools[id].name] = None, ![name] = id]

\* modify_pool with a new name; a call that changes the ratio too is this call
\* and then the other.
rename_pool(id, name) ==
    /\ Change
    /\ Rename(id, name)
    /\ pools' = [pools EXCEPT ![id].name = name]
    /\ validate_metric_pools(pools')
    /\ UNCHANGED <<block, cycle, commitVars, rewardVars, manager, ledger, historyVars>>

last_epoch == IF cycle.epoch = 0 THEN 0 ELSE cycle.epoch - 1

\* modify_pool with a new reward ratio from an epoch on.
modify_pool(id, from, ratio) ==
    LET reward == pools[id].reward
    IN  /\ Change
        /\ CanProvide(reward, last_epoch, from)
        /\ pools' = [pools EXCEPT ![id].reward = Provide(@, last_epoch, from, ratio)]
        /\ validate_metric_pools(pools')
        /\ disturbed' = IF ProvidedAt(pools'[id].reward, last_epoch) = ProvidedAt(reward, last_epoch)
                        THEN disturbed ELSE disturbed \cup {last_epoch}
        /\ UNCHANGED <<block, cycle, poolLookup, commitVars, rewardVars, manager, ledger, claimed>>

-----------------------------------------------------------------------------
(* Commits *)

\* commit_new_metrics: the first value for an epoch wins.
New(p, input) ==
    {id \in DOMAIN input : metrics[p][id] = None \/ metrics[p][id].epoch < cycle.epoch}

\* reuse_metrics: a busy processor sends none, its last ones count with a bonus.
Reused(p) ==
    {id \in PoolIds : /\ metrics[p][id] # None
                      /\ cycle.epoch > metrics[p][id].epoch
                      /\ cycle.epoch - metrics[p][id].epoch < MetricValidity}

\* The metrics that count for p in this epoch from now on.
Counted(p, input) ==
    IF input # <<>> THEN [id \in New(p, input) |-> input[id]]
    ELSE [id \in Reused(p) |-> metrics[p][id].metric]

\* The share of a sum of metrics in what a pool gives for an epoch.
Share(pool, e, sum) ==
    LET total == At(pool.total, e, NoMetric)[2]
    IN  IF total = 0 THEN 0 ELSE Part(ProvidedAt(pool.reward, e), Rational(sum[2], total))

\* do_claim: the manager's share of the rewards of an epoch in the given pools.
\* One unknown pool among them is an error, and the caller takes it for zero.
do_claim(ps, e, sums, total_reward) ==
    IF total_reward = 0 \/ ~(DOMAIN sums \subseteq DOMAIN ps) THEN 0
    ELSE LET shares == [id \in DOMAIN sums |-> Share(ps[id], e, sums[id])]
         IN  Part(Min({Accuracy, SumOver(shares, DOMAIN sums)}), total_reward)

\* Slip: every commit claims, not only the first of the epoch.
Completed_always(m, ids) == {id \in ids : epochSum[m][id].epoch <= cycle.epoch}

\* The pools in which the manager's epoch before this one is complete only now.
Completed(m, ids) == {id \in ids : epochSum[m][id].epoch + 1 = cycle.epoch}

\* ComputeHooks::commit: the transfer may fail, the commit does not.
PayManager(m, amount) ==
    ledger' = IF CanTransfer(ledger, Distribution, m, amount)
              THEN Transfer(ledger, Distribution, m, amount) ELSE ledger

Warmed(p) ==
    LET end == IF processors[p] = None THEN block + WarmupPeriod ELSE processors[p]
    IN  IF block >= end THEN Active ELSE end

\* do_commit with the heartbeat of p.
commit(p, input) ==
    LET m       == manager[p]
        counted == Counted(p, input)
        bonus   == input = <<>>
        done    == Completed(m, DOMAIN counted)
        sums    == [id \in done |-> At(epochSum[m][id], last_epoch, NoMetric)]
        amount  == do_claim(pools', last_epoch, sums, At(rewards, last_epoch, 0))
    IN  /\ processors' = [processors EXCEPT ![p] = Warmed(p)]
        /\ metrics' = [metrics EXCEPT ![p] = [id \in PoolIds |->
              IF id \in DOMAIN counted THEN [epoch |-> cycle.epoch, metric |-> counted[id]] ELSE @[id]]]
        /\ IF Warmed(p) = Active
           THEN /\ pools' = [id \in DOMAIN pools |->
                       IF id \in DOMAIN counted
                       THEN [pools[id] EXCEPT !.total = AddAt(@, cycle.epoch, counted[id], bonus)]
                       ELSE pools[id]]
                /\ epochSum' = [epochSum EXCEPT ![m] = [id \in PoolIds |->
                       IF id \in DOMAIN counted THEN AddAt(@[id], cycle.epoch, counted[id], bonus)
                       ELSE @[id]]]
                /\ PayManager(m, amount)
                /\ claimed' = [claimed EXCEPT ![last_epoch] = @ + amount]
           ELSE UNCHANGED <<pools, epochSum, ledger, claimed>>
        /\ UNCHANGED <<block, cycle, poolLookup, rewardVars, manager, disturbed, changes>>

-----------------------------------------------------------------------------
(* Blocks *)

metrics_reward == Part(InflationMetricsRatio, InflationPerEpoch)

staked_compute_reward == Part(InflationStakedComputeRatio, InflationPerEpoch)

collators_reward == Part(InflationCollatorsRatio, InflationPerEpoch)

\* inflate: what is minted into the pallet's account; if that would leave it
\* below the existential deposit, the tokens go to the inflation handler.
inflate(l) ==
    LET minted == metrics_reward + staked_compute_reward + collators_reward
    IN  IF inflationEnabled /\ CanDeposit(l, Distribution, minted)
        THEN Deposit(l, Distribution, minted) ELSE l

\* reward_collator: the author of a block gets its part of the epoch's reward.
reward_collator(l, amount) ==
    LET n == amount \div Epoch
    IN  IF CanTransfer(l, Distribution, Author, n) THEN Transfer(l, Distribution, Author, n) ELSE l

\* The reward of the metrics of an epoch is stored when the epoch begins.
store_metrics_reward(e) ==
    IF inflationEnabled /\ metrics_reward # 0 THEN Slide(rewards, e, metrics_reward, 0) ELSE rewards

on_initialize ==
    /\ block < MaxBlock
    /\ block' = block + 1
    /\ IF (block' - cycle.epoch_start) % Epoch = 0
       THEN /\ cycle' = [epoch |-> cycle.epoch + 1, epoch_start |-> block']
            /\ rewards' = store_metrics_reward(cycle'.epoch)
            /\ collatorRewards' = IF inflationEnabled THEN collators_reward ELSE 0
            /\ ledger' = reward_collator(inflate(ledger), collatorRewards')
       ELSE /\ ledger' = reward_collator(ledger, collatorRewards)
            /\ UNCHANGED <<cycle, rewards, collatorRewards>>
    /\ UNCHANGED <<poolVars, commitVars, inflationEnabled, manager, changes, historyVars>>

enable_inflation ==
    /\ inflationEnabled' = TRUE
    /\ UNCHANGED <<block, cycle, poolVars, commitVars, rewards, collatorRewards, manager, ledger,
                   changes, historyVars>>

\* A processor is paired with another manager.
Pair(p, m) ==
    /\ Change
    /\ manager' = [manager EXCEPT ![p] = m]
    /\ UNCHANGED <<block, cycle, poolVars, commitVars, rewardVars, ledger, historyVars>>

-----------------------------------------------------------------------------
\* The state after the first block, with the pools of genesis, and before the
\* first heartbeat.
MetricsInit ==
    /\ block = 1
    /\ cycle = [epoch |-> 1 \div Epoch, epoch_start |-> 1]
    /\ pools = [id \in DOMAIN GenesisPools |-> NewPool(GenesisPools[id][1], GenesisPools[id][2])]
    /\ poolLookup = [n \in Names |->
          IF \E id \in DOMAIN pools : pools[id].name = n
          THEN CHOOSE id \in DOMAIN pools : pools[id].name = n ELSE None]
    /\ changes = 0
    /\ processors = [p \in Processors |-> None]
    /\ metrics = [p \in Processors |-> [id \in PoolIds |-> None]]
    /\ epochSum = [m \in Managers |-> [id \in PoolIds |-> SlidingBuffer(NoMetric)]]
    /\ rewards = SlidingBuffer(0)
    /\ collatorRewards = 0
    /\ inflationEnabled = InflationFromStart
    /\ manager \in [Processors -> Managers]
    /\ ledger = [free |-> InitialBalances, held |-> [a \in Accounts |-> 0]]
    /\ claimed = [e \in 0 .. MaxBlock |-> 0]
    /\ disturbed = {}

\* Epochs to change a ratio from: one that is over, this one, or a later one.
\* Any epoch before the last one has the effect of the last one.
FromEpochs == last_epoch .. cycle.epoch + MaxAhead

Govern ==
    \/ \E name \in Names, ratio \in Ratios : create_pool(name, ratio)
    \/ \E id \in DOMAIN pools, name \in Names : rename_pool(id, name)
    \/ \E id \in DOMAIN pools, from \in FromEpochs, ratio \in Ratios : modify_pool(id, from, ratio)
    \/ enable_inflation

MetricsNext ==
    \/ on_initialize
    \/ Govern
    \/ \E p \in Processors, input \in Inputs : commit(p, input)
    \/ \E p \in Processors, m \in Managers : Pair(p, m)

MetricsSpec == MetricsInit /\ [][MetricsNext]_metricsVars

-----------------------------------------------------------------------------
\* Whatever governance schedules, the pools together never get more than the
\* whole reward: not in this epoch, nor in any later one, although the changes
\* pending at that time were scheduled pool by pool, from different epochs on
\* (validate_metric_pools, ProvisionalBuffer).
RatiosAddUp ==
    \A e \in cycle.epoch .. cycle.epoch + MaxAhead + 1 : RatioSum(pools, e) <= Accuracy

\* The rewards that managers are granted for the metrics of an epoch never
\* exceed what was minted for it, however commits, warmups, changed pairings,
\* reused metrics and new pools fall into the epochs (do_claim,
\* update_metrics_epoch_sum).  It does not hold for an epoch whose ratios were
\* changed afterwards (modify_pool from an epoch that is over), nor for one in
\* which a pool was created after metrics for its id had been counted.
ClaimsWithinBudget ==
    \A e \in DOMAIN claimed \ disturbed : claimed[e] <= metrics_reward
=============================================================================
