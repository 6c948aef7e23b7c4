----------------------------- MODULE Marketplace -----------------------------
(***************************************************************************)
(* The job marketplace: pallet-acurast's job registrations, the matching   *)
(* of jobs with processors, acknowledgement, reports, cleanup and the      *)
(* job budgets of pallet-acurast-marketplace.                              *)
(*                                                                         *)
(* Every extrinsic is one transaction: it succeeds as a whole or changes   *)
(* nothing.  A batch of matches is the sequence of its matches.  Scripts,  *)
(* keys, slots, reputation values and the average reward are left out:     *)
(* they decide nothing but the checks in Capable.                          *)
(***************************************************************************)
EXTENDS Currency, Schedule, Sums, FiniteSets

CONSTANTS Processors, Consumers, Matchers,      \* accounts
          Pallet, FeeManager, Hyperdrive,       \* pallet accounts
          All,                                  \* ExecutionSpecifier::All
          MaxJobs, ProxySequence,               \* local and proxy job numbers
          Registrations, Fees, StartDelays,     \* inputs
          ProposedExecutions,                   \* what matchers propose matches for
          SourceLists,                          \* lists update_allowed_sources makes
          Capable,                              \* who passes the checks on modules, quota,
                                                \* reputation, version and metrics
          CoreProcessors,                       \* whose attestation is of type Core
          ReportTolerance, MatchingCompetingDueDelta, MatchingCompetingMinInterval,
          MaxSlots, MAX_EXECUTIONS_PER_JOB, MatcherPercentage, FeePercentage,
          InitialBalances, LastTime

VARIABLES now,            \* the timestamp of the block
          last_job_id,    \* LocalJobIdSequence
          jobs,           \* StoredJobRegistration
          job_status,     \* StoredJobStatus
          exec_status,    \* StoredJobExecutionStatus, Open by default
          matches,        \* StoredMatches: <<processor, job>> to assignment
          assigned,       \* AssignedProcessors: set of <<job, processor>>
          next_report,    \* NextReportIndex
          job_matcher,    \* JobMatcher
          budgets,        \* JobBudgets
          ads,            \* StoredAdvertisementRestriction: the allowed consumers
          verified,       \* processors with a valid attestation
          ledger,         \* balances
          rewarded,       \* history: how often a processor was rewarded for an
                          \* execution of a registered job
          matched_as      \* history: the kinds of match a registered job had

registry == <<last_job_id, jobs, job_status, exec_status, matched_as>>
assignments == <<matches, assigned, next_report, job_matcher>>
providers == <<ads, verified>>
money == <<budgets, ledger, rewarded>>
marketVars == <<now, registry, assignments, providers, money>>

ASSUME MarketAssumption ==
    /\ Pallet \in Accounts /\ FeeManager \in Accounts /\ Hyperdrive \in Accounts
    /\ Consumers \cup Matchers \subseteq Accounts
    /\ Hyperdrive \notin Consumers
    /\ All \notin Nat /\ None \notin Accounts /\ All # None
    /\ \A n \in {MaxJobs, ReportTolerance, MatchingCompetingDueDelta,
                 MatchingCompetingMinInterval, MaxSlots, MAX_EXECUTIONS_PER_JOB,
                 MatcherPercentage, FeePercentage} : n \in Nat
    /\ MatcherPercentage <= 100 /\ FeePercentage <= 100
    /\ ProxySequence \subseteq Nat /\ Fees \subseteq Nat /\ StartDelays \subseteq Nat
    /\ InitialBalances \in [Accounts -> Nat]
    /\ SourceLists \subseteq SUBSET Processors /\ ProposedExecutions \subseteq Nat \cup {All}
    /\ LastTime \in Times
    /\ IsFiniteSet(Processors) /\ IsFiniteSet(Consumers) /\ IsFiniteSet(ProxySequence)

\* The marketplace's account is derived from the pallet's id: it signs
\* nothing, and it is endowed so that it can pay out every budget.
ASSUME PalletAssumption ==
    /\ Pallet \notin Consumers \cup Matchers \cup {FeeManager, Hyperdrive}
    /\ InitialBalances[Pallet] >= ExistentialDeposit

-----------------------------------------------------------------------------
\* JobId: the origin that registered the job, and a number.  The funds of a
\* job of a proxy chain are those of the hyperdrive account.
Jobs == (Consumers \X (1 .. MaxJobs)) \cup ({Hyperdrive} \X ProxySequence)

\* A job is matched as a whole or one of its executions is: propose_matching
\* and propose_execution_matching.
MatchKinds == {"whole", "execution"}

Indices == 0 .. MAX_EXECUTIONS_PER_JOB - 1

Executions == {All} \cup Indices

Keys == Processors \X Jobs

Statuses == [state : {"Open", "Matched", "Assigned"}, count : Nat]

Open == [state |-> "Open", count |-> 0]

Matched == [state |-> "Matched", count |-> 0]

Assigned(n) == [state |-> "Assigned", count |-> n]

\* A match proposes a start delay for each of its sources.
Plans == UNION {[S -> StartDelays] : S \in SUBSET Processors}

JobRegistrations ==
    [schedule : Schedules, slots : Nat, reward : Nat, strategy : {"Single", "Competing"},
     instant_match : Plans \cup {None}, allow_only_verified_sources : BOOLEAN,
     allowed_sources : SUBSET Processors \cup {None}]

Assignments == [execution : Executions, start_delay : Nat, fee_per_execution : Nat,
                acknowledged : BOOLEAN, total : Nat, met : Nat]

ASSUME RegistrationAssumption == Registrations \subseteq JobRegistrations

AssignedTo(j) == {p \in Processors : <<j, p>> \in assigned}

StatusOf(j) == IF j \in DOMAIN job_status THEN job_status[j] ELSE Open

\* Slip: the reward is locked for one slot only.
total_reward_amount_oneSlot(r) == r.reward * execution_count(r.schedule)

total_reward_amount(r) == r.reward * r.slots * execution_count(r.schedule)

\* Assignment::is_invalid
is_invalid(a, s) ==
    LET nth   == nth_start_time(s, a.start_delay, a.execution)
        start == IF a.execution = All THEN actual_start(s, a.start_delay)
                 ELSE IF nth = None THEN 0 ELSE nth
        end   == IF a.execution = All THEN s.end_time + a.start_delay
                 ELSE start + s.duration
    IN  now > IF a.acknowledged THEN Saturate(end + ReportTolerance) ELSE start

-----------------------------------------------------------------------------
(* Matching *)

\* The checks on a proposed source that do not depend on the time.
Admissible(j, r, p, eligible) ==
    /\ r.allow_only_verified_sources => p \in verified \cap eligible
    /\ p \in DOMAIN ads
    /\ <<r, p>> \in Capable
    /\ r.allowed_sources # None => p \in r.allowed_sources
    /\ ads[p] # None => j[1] \in ads[p]

\* The two schedules never run at the same time; overflow is an error.
DisjointExecutions(s, delay, other, other_delay) ==
    /\ CanIterate(s, delay) /\ CanIterate(other, other_delay)
    /\ \A t \in StartTimes(s, delay), u \in StartTimes(other, other_delay) :
          /\ t + s.duration <= MaxTime /\ u + other.duration <= MaxTime
          /\ t + s.duration <= u \/ u + other.duration <= t

\* Execution index of s, as the interval [start, end).
ExecutionBounds(s, delay, index) ==
    LET start == nth_start_time(s, delay, index) IN <<start, start + s.duration>>

HasBounds(s, delay, index) ==
    /\ nth_start_time(s, delay, index) # None
    /\ nth_start_time(s, delay, index) + s.duration <= MaxTime

\* fits_schedule against one assignment a of the source, to a job with
\* schedule other.
FitsBeside(e, s, delay, a, other) ==
    CASE e = All /\ a.execution = All ->
            DisjointExecutions(s, delay, other, a.start_delay)
      [] e = All /\ a.execution # All ->
            /\ HasBounds(other, a.start_delay, a.execution)
            /\ ~overlaps(s, delay, ExecutionBounds(other, a.start_delay, a.execution))
      [] e # All /\ a.execution = All ->
            /\ HasBounds(s, delay, e)
            /\ ~overlaps(other, delay, ExecutionBounds(s, delay, e))
      [] OTHER ->
            /\ HasBounds(s, delay, e)
            /\ HasBounds(other, a.start_delay, a.execution)
            /\ LET b == ExecutionBounds(s, delay, e)
                   c == ExecutionBounds(other, a.start_delay, a.execution)
               IN  b[2] <= c[1] \/ c[2] <= b[1]

fits_schedule(stored, p, e, s, delay) ==
    \A k \in DOMAIN stored :
        \/ k[1] # p \/ k[2] \notin DOMAIN jobs
        \/ is_invalid(stored[k], jobs[k[2]].schedule)
        \/ ~overlaps(s, delay, range(jobs[k[2]].schedule, stored[k].start_delay))
        \/ FitsBeside(e, s, delay, stored[k], jobs[k[2]].schedule)

NewAssignment(e, delay, fee, total, met) ==
    [execution |-> e, start_delay |-> delay, fee_per_execution |-> fee,
     acknowledged |-> FALSE, total |-> total, met |-> met]

KeysOf(j, sources) == {<<p, j>> : p \in sources}

\* process_matching: the match is accepted.
CanMatch(j, r, plan, fees) ==
    /\ now < r.schedule.start_time
    /\ Cardinality(DOMAIN plan) = r.slots
    /\ \A p \in DOMAIN plan :
          /\ Admissible(j, r, p, CoreProcessors)
          /\ fits_schedule(matches, p, All, r.schedule, plan[p])
          /\ fees[p] <= r.reward
          /\ <<p, j>> \notin DOMAIN matches

\* process_matching: the assignments it stores.
StoreMatch(j, r, plan, fees) ==
    /\ matches' = [k \in DOMAIN matches \cup KeysOf(j, DOMAIN plan) |->
          IF k \in KeysOf(j, DOMAIN plan)
          THEN NewAssignment(All, plan[k[1]], fees[k[1]], execution_count(r.schedule), 0)
          ELSE matches[k]]
    /\ assigned' = assigned \cup ({j} \X DOMAIN plan)

\* propose_matching; a match of a job that is not Open is skipped.
ProposeMatching(m, j, plan, fees) ==
    /\ j \in DOMAIN jobs /\ job_status[j] = Open
    /\ CanMatch(j, jobs[j], plan, fees)
    /\ StoreMatch(j, jobs[j], plan, fees)
    /\ job_matcher' = [job_matcher EXCEPT ![j] = m]
    /\ job_status' = [job_status EXCEPT ![j] = Matched]
    /\ matched_as' = [matched_as EXCEPT ![j] = @ \cup {"whole"}]
    /\ UNCHANGED <<now, last_job_id, jobs, exec_status, next_report, providers, money>>

\* cleanup_previous_execution_matches: what a match of execution i forgets.
PreviousExecutions(j, i) ==
    {k \in DOMAIN matches : /\ i >= 2
                            /\ k[2] = j /\ k[1] \in AssignedTo(j)
                            /\ matches[k].execution # All
                            /\ matches[k].execution <= i - 2}

KeptMatches(j, i) == [k \in DOMAIN matches \ PreviousExecutions(j, i) |-> matches[k]]

\* process_execution_matching: the match is accepted.
CanMatchExecution(j, r, i, plan, fees) ==
    LET start == nth_start_time(r.schedule, 0, i)
        kept  == KeptMatches(j, i)
    IN  /\ start # None
        /\ now < start
        /\ now + MatchingCompetingDueDelta >= start
        /\ Cardinality(DOMAIN plan) = r.slots
        /\ \A p \in DOMAIN plan :
              /\ Admissible(j, r, p, Processors)
              /\ fits_schedule(kept, p, i, r.schedule, plan[p])
              /\ fees[p] <= r.reward
              /\ <<p, j>> \in DOMAIN kept => kept[<<p, j>>].execution # i

ForgottenProcessors(j, i) ==
    {q \in AssignedTo(j) : i >= 2 /\ <<q, j>> \notin DOMAIN KeptMatches(j, i)}

\* Slip: a second match of an execution is not skipped.
ExecutionOpen_unchecked(j, i) == TRUE

ExecutionOpen(j, i) == exec_status[j][i] = Open

\* propose_execution_matching; a match of an execution that is not Open is
\* skipped.
ProposeExecutionMatching(m, j, i, plan, fees) ==
    LET kept == KeptMatches(j, i)
        new  == KeysOf(j, DOMAIN plan)
    IN  /\ j \in DOMAIN jobs
        /\ ExecutionOpen(j, i)
        /\ CanMatchExecution(j, jobs[j], i, plan, fees)
        /\ matches' = [k \in DOMAIN kept \cup new |->
              IF k \notin new THEN kept[k]
              ELSE IF k \in DOMAIN kept
                   THEN NewAssignment(i, plan[k[1]], fees[k[1]], kept[k].total + 1, kept[k].met)
                   ELSE NewAssignment(i, plan[k[1]], fees[k[1]], 1, 0)]
        /\ assigned' = (assigned \ ({j} \X ForgottenProcessors(j, i)))
                          \cup ({j} \X DOMAIN plan)
        /\ job_status' = [job_status EXCEPT ![j] = Matched]
        /\ exec_status' = [exec_status EXCEPT ![j] = [x \in Indices |->
              IF x = i THEN Matched ELSE IF x = i - 2 THEN Open ELSE @[x]]]
        /\ job_matcher' = [job_matcher EXCEPT ![j] = m]
        /\ matched_as' = [matched_as EXCEPT ![j] = @ \cup {"execution"}]
        /\ UNCHANGED <<now, last_job_id, jobs, next_report, providers, money>>

-----------------------------------------------------------------------------
(* Acknowledgement *)

MatcherFee(price_difference) == (MatcherPercentage * price_difference) \div 100

AcurastFee(matcher_fee) == (FeePercentage * matcher_fee) \div 100

\* pay_matcher_reward: unreserve, then two transfers out of the pallet account.
CanPayMatcher(j, m, amount) ==
    LET fee  == AcurastFee(amount)
    IN  /\ budgets[j] >= amount
        /\ CanTransfer(ledger, Pallet, FeeManager, fee)
        /\ CanTransfer(Transfer(ledger, Pallet, FeeManager, fee), Pallet, m, amount - fee)

\* Slip: the fee on the matcher's share is not taken from the budget.
PayMatcher_feeKept(j, m, amount) ==
    LET fee == AcurastFee(amount)
    IN  /\ budgets' = [budgets EXCEPT ![j] = @ - (amount - fee)]
        /\ ledger' = Transfer(Transfer(ledger, Pallet, FeeManager, fee), Pallet, m, amount - fee)

PayMatcher(j, m, amount) ==
    LET fee == AcurastFee(amount)
    IN  /\ budgets' = [budgets EXCEPT ![j] = @ - amount]
        /\ ledger' = Transfer(Transfer(ledger, Pallet, FeeManager, fee), Pallet, m, amount - fee)

\* The share of the matcher when assignment a of job j is acknowledged.
MatcherShare(j, a) ==
    LET price_diff == IF jobs[j].reward > a.fee_per_execution
                      THEN jobs[j].reward - a.fee_per_execution ELSE 0
    IN  MatcherFee(IF a.execution = All
                   THEN price_diff * execution_count(jobs[j].schedule) ELSE price_diff)

\* check_report_is_timely
Timely(s, a, index) ==
    LET start == nth_start_time(s, a.start_delay, index)
    IN  /\ start # None
        /\ now >= start
        /\ now < Saturate(Saturate(start + s.duration) + ReportTolerance)

\* update_next_report_index_on_acknowledge
NextReportOnAcknowledge(j, p, a) ==
    LET old == next_report[j][p]
    IN  IF a.execution = All THEN 0
        ELSE IF old = None THEN a.execution
        ELSE IF Timely(jobs[j].schedule, a, old) THEN old ELSE a.execution

\* process_acknowledge_match; a second acknowledgement only replaces the keys.
AcknowledgeMatch(p, j, e) ==
    LET a        == matches[<<p, j>>]
        s        == jobs[j].schedule
        nth      == nth_start_time(s, a.start_delay, e)
        deadline == IF e = All THEN actual_start(s, a.start_delay)
                    ELSE IF nth = None THEN 0 ELSE nth
        status   == IF e = All THEN StatusOf(j) ELSE exec_status[j][e]
    IN  /\ j \in DOMAIN jobs /\ <<p, j>> \in DOMAIN matches
        /\ now <= deadline
        /\ a.execution = e
        /\ ~a.acknowledged
        /\ status # Open
        /\ matches' = [matches EXCEPT ![<<p, j>>].acknowledged = TRUE]
        /\ job_status' = [job_status EXCEPT ![j] = Assigned(status.count + 1)]
        /\ exec_status' = IF e = All THEN exec_status
                          ELSE [exec_status EXCEPT ![j][e] = Assigned(status.count + 1)]
        /\ next_report' = [next_report EXCEPT ![j][p] = NextReportOnAcknowledge(j, p, a)]
        /\ IF job_matcher[j] = None THEN UNCHANGED <<budgets, ledger>>
           ELSE /\ CanPayMatcher(j, job_matcher[j], MatcherShare(j, a))
                /\ PayMatcher(j, job_matcher[j], MatcherShare(j, a))
        /\ UNCHANGED <<now, last_job_id, jobs, assigned, job_matcher, providers, rewarded,
                       matched_as>>

-----------------------------------------------------------------------------
(* Reports *)

\* handle_reward: the reward leaves the budget and the pallet account.
CanHandleReward(j, reward) == budgets[j] >= reward /\ CanWithdraw(ledger, Pallet, reward)

\* The execution a report stands for: the expected one while it is timely,
\* the current one otherwise.
ReportedIndex(s, a, expected, current) ==
    IF Timely(s, a, expected) THEN expected ELSE current

\* Slip: an execution can be reported again.
NotYetReported_unchecked(current, expected) == TRUE

NotYetReported(current, expected) == current >= expected

\* report by processor p for job j (do_report).
Report(p, j) ==
    LET a        == matches[<<p, j>>]
        s        == jobs[j].schedule
        started  == current_execution_index(s, a.start_delay, now)
        current  == IF started = None THEN 0 ELSE started
        expected == IF next_report[j][p] = None THEN current ELSE next_report[j][p]
        index    == ReportedIndex(s, a, expected, current)
        next     == IF a.execution = All
                    THEN IF index + 1 < a.total THEN index + 1 ELSE None
                    ELSE IF index # a.execution THEN a.execution ELSE None
    IN  /\ <<p, j>> \in DOMAIN matches
        /\ a.acknowledged
        /\ a.met < a.total
        /\ j \in DOMAIN jobs
        /\ NotYetReported(current, expected)
        /\ expected # current =>
              Timely(s, a, expected) \/ Timely(s, a, current)
        /\ CanHandleReward(j, a.fee_per_execution)
        /\ next_report' = [next_report EXCEPT ![j][p] = next]
        /\ budgets' = [budgets EXCEPT ![j] = @ - a.fee_per_execution]
        /\ ledger' = Withdraw(ledger, Pallet, a.fee_per_execution)
        /\ rewarded' = [rewarded EXCEPT ![j][p][index] = @ + 1]
        /\ IF next = None
           THEN /\ matches' = [k \in DOMAIN matches \ {<<p, j>>} |-> matches[k]]
                /\ assigned' = assigned \ {<<j, p>>}
           ELSE /\ matches' = [matches EXCEPT ![<<p, j>>].met = @ + 1]
                /\ UNCHANGED assigned
        /\ UNCHANGED <<now, registry, job_matcher, providers>>

-----------------------------------------------------------------------------
(* Registration *)

\* register_hook: the checks on a registration.
Registrable(r) ==
    /\ r.schedule.duration > 0
    /\ execution_count(r.schedule) \in 1 .. MAX_EXECUTIONS_PER_JOB
    /\ r.schedule.duration < r.schedule.interval
    /\ now <= r.schedule.start_time
    /\ r.schedule.start_time <= r.schedule.end_time
    /\ r.slots \in 1 .. MaxSlots
    /\ r.strategy = "Competing" =>
          \/ execution_count(r.schedule) <= 1
          \/ r.schedule.interval >= MatchingCompetingMinInterval

\* register_for: store the job, match it at once if the registration says
\* so, and lock its whole reward.
register_for(j, r, fees) ==
    LET reward  == total_reward_amount(r)
        instant == r.strategy = "Single" /\ r.instant_match # None
    IN  /\ r.allowed_sources # {}
        /\ Registrable(r)
        /\ StatusOf(j) = Open
        /\ jobs' = [x \in DOMAIN jobs \cup {j} |-> IF x = j THEN r ELSE jobs[x]]
        /\ job_status' = [x \in DOMAIN jobs \cup {j} |->
              IF x = j THEN IF instant THEN Matched ELSE Open ELSE job_status[x]]
        /\ IF instant
           THEN /\ CanMatch(j, r, r.instant_match, fees)
                /\ StoreMatch(j, r, r.instant_match, fees)
           ELSE UNCHANGED <<matches, assigned>>
        /\ CanTransfer(ledger, j[1], Pallet, reward)
        /\ ledger' = Transfer(ledger, j[1], Pallet, reward)
        /\ budgets' = [budgets EXCEPT ![j] = @ + reward]
        /\ matched_as' = [matched_as EXCEPT ![j] = IF instant THEN {"whole"} ELSE {}]
        /\ UNCHANGED <<now, exec_status, next_report, job_matcher, providers, rewarded>>

\* register, register_with_min_metrics and the last step of deploy.
Register(who, r, fees) ==
    /\ last_job_id < MaxJobs
    /\ last_job_id' = last_job_id + 1
    /\ register_for(<<who, last_job_id + 1>>, r, fees)

\* A proxy chain's RegisterJob message, which brings its own job number.
RegisterFromProxy(n, r, fees) ==
    /\ register_for(<<Hyperdrive, n>>, r, fees)
    /\ UNCHANGED last_job_id

\* deregister_hook: an assigned processor that is paid one execution.
Compensated(j, p) ==
    LET a == matches[<<p, j>>]
    IN  /\ <<p, j>> \in DOMAIN matches
        /\ a.acknowledged
        /\ a.execution # All =>
              a.execution = next_execution_index(jobs[j].schedule, a.start_delay, now)

\* Slip: the whole assignment is paid instead of one execution.
Compensation_allExecutions(j) ==
    LET paid == {p \in AssignedTo(j) : Compensated(j, p)}
    IN  IF job_status[j].state # "Assigned" THEN 0
        ELSE SumOver([p \in paid |-> matches[<<p, j>>].fee_per_execution
                                        * matches[<<p, j>>].total], paid)

Compensation(j) ==
    LET paid == {p \in AssignedTo(j) : Compensated(j, p)}
    IN  IF job_status[j].state # "Assigned" THEN 0
        ELSE SumOver([p \in paid |-> matches[<<p, j>>].fee_per_execution], paid)

\* unreserve_remaining
Refund(j) == budgets[j] - Compensation(j)

\* Slip: the matches of a job that nobody acknowledged stay behind.
Drained_onlyAssigned(j) == IF job_status[j].state = "Assigned" THEN AssignedTo(j) ELSE {}

\* The processors whose matching data is removed with the job.
Drained(j) == IF job_status[j] = Open THEN {} ELSE AssignedTo(j)

CanDeregister(j) ==
    /\ CanHandleReward(j, Compensation(j))
    /\ CanTransfer(Withdraw(ledger, Pallet, Compensation(j)), Pallet, j[1], Refund(j))

\* clear_prefix: at least limit stored entries of a map are reset.
Cleared(f, default, limit) ==
    LET stored == {x \in DOMAIN f : f[x] # default}
    IN  {[x \in DOMAIN f |-> IF x \in kept THEN f[x] ELSE default] :
            kept \in {k \in SUBSET stored :
                        k = {} \/ Cardinality(k) <= Cardinality(stored) - limit}}

\* deregister, by the owner or a proxy chain's DeregisterJob message.
Deregister(j) ==
    LET paid  == Compensation(j)
        final == job_status[j].state = "Assigned"
    IN  /\ j \in DOMAIN jobs
        /\ CanDeregister(j)
        /\ ledger' = Transfer(Withdraw(ledger, Pallet, paid), Pallet, j[1], Refund(j))
        /\ budgets' = [budgets EXCEPT ![j] = 0]
        /\ jobs' = [x \in DOMAIN jobs \ {j} |-> jobs[x]]
        /\ job_status' = [x \in DOMAIN jobs \ {j} |-> job_status[x]]
        /\ \E left \in Cleared(exec_status[j], Open,
                               IF final THEN 10 ELSE execution_count(jobs[j].schedule)) :
              exec_status' = [exec_status EXCEPT ![j] = left]
        /\ matches' = [k \in DOMAIN matches \ KeysOf(j, Drained(j)) |-> matches[k]]
        /\ assigned' = assigned \ ({j} \X Drained(j))
        /\ \E left \in IF final THEN Cleared(next_report[j], None, MaxSlots) ELSE {next_report[j]} :
              next_report' = [next_report EXCEPT ![j] = left]
        /\ job_matcher' = IF final THEN [job_matcher EXCEPT ![j] = None] ELSE job_matcher
        /\ rewarded' = [rewarded EXCEPT ![j] = [p \in Processors |-> [i \in Indices |-> 0]]]
        /\ matched_as' = [matched_as EXCEPT ![j] = {}]
        /\ UNCHANGED <<now, last_job_id, providers>>

\* update_allowed_sources: an empty list means any source.
UpdateAllowedSources(j, sources) ==
    /\ j \in DOMAIN jobs /\ j[1] # Hyperdrive
    /\ jobs[j].strategy = "Single" => job_status[j] = Open
    /\ jobs' = [jobs EXCEPT ![j].allowed_sources = IF sources = {} THEN None ELSE sources]
    /\ UNCHANGED <<now, last_job_id, job_status, exec_status, matched_as, assignments, providers,
                   money>>

-----------------------------------------------------------------------------
(* Cleanup *)

\* Slip: the index by job is not maintained.
Unassign_keepsIndex(keys) ==
    /\ matches' = [k \in DOMAIN matches \ keys |-> matches[k]]
    /\ UNCHANGED <<now, registry, assigned, next_report, job_matcher, providers, money>>

Unassign(keys) ==
    /\ matches' = [k \in DOMAIN matches \ keys |-> matches[k]]
    /\ assigned' = assigned \ {<<k[2], k[1]>> : k \in keys}
    /\ UNCHANGED <<now, registry, next_report, job_matcher, providers, money>>

\* do_cleanup_assignment: finalize_job and cleanup_assignments by the
\* processor, cleanup_assignments_for by anyone.
CleanupAssignment(p, j) ==
    /\ <<p, j>> \in DOMAIN matches
    /\ j \in DOMAIN jobs => is_invalid(matches[<<p, j>>], jobs[j].schedule)
    /\ Unassign({<<p, j>>})

ExpiredJob(j) == j \in DOMAIN jobs => is_expired(jobs[j].schedule, now, ReportTolerance)

\* cleanup_storage: the operator removes some assignments of a job that is gone.
CleanupStorage(j, processors) ==
    /\ j \notin DOMAIN jobs
    /\ processors \subseteq AssignedTo(j)
    /\ Unassign(KeysOf(j, processors))

\* cleanup_job_assignments
CleanupJobAssignments(j) ==
    /\ ExpiredJob(j)
    /\ Unassign(KeysOf(j, AssignedTo(j)))

CleanupJobMatcher(j) ==
    /\ ExpiredJob(j)
    /\ job_matcher' = [job_matcher EXCEPT ![j] = None]
    /\ UNCHANGED <<now, registry, matches, assigned, next_report, providers, money>>

-----------------------------------------------------------------------------
(* Processors and time *)

Advertise(p, consumers) ==
    /\ consumers # {}
    /\ ads' = [x \in DOMAIN ads \cup {p} |-> IF x = p THEN consumers ELSE ads[x]]
    /\ UNCHANGED <<now, registry, assignments, verified, money>>

\* Slip: an advertisement can be deleted while its processor is matched.
DeleteAdvertisement_whileMatched(p) ==
    /\ p \in DOMAIN ads
    /\ ads' = [x \in DOMAIN ads \ {p} |-> ads[x]]
    /\ UNCHANGED <<now, registry, assignments, verified, money>>

DeleteAdvertisement(p) ==
    /\ p \in DOMAIN ads
    /\ \A k \in DOMAIN matches : k[1] # p
    /\ ads' = [x \in DOMAIN ads \ {p} |-> ads[x]]
    /\ UNCHANGED <<now, registry, assignments, verified, money>>

\* submit_attestation, or a certificate that is no longer listed as revoked.
Attest(p) ==
    /\ verified' = verified \cup {p}
    /\ UNCHANGED <<now, registry, assignments, ads, money>>

\* update_certificate_revocation_list revokes a certificate behind p; an
\* attestation that expires stays valid here (see Attestation).
RevokeAttestation(p) ==
    /\ verified' = verified \ {p}
    /\ UNCHANGED <<now, registry, assignments, ads, money>>

Tick ==
    /\ now < LastTime
    /\ now' = now + 1
    /\ UNCHANGED <<registry, assignments, providers, money>>

-----------------------------------------------------------------------------
MarketInit ==
    /\ now = 0 /\ last_job_id = 0
    /\ jobs = [j \in {} |-> None] /\ job_status = [j \in {} |-> Open]
    /\ exec_status = [j \in Jobs |-> [i \in Indices |-> Open]]
    /\ matches = [k \in {} |-> None] /\ assigned = {}
    /\ next_report = [j \in Jobs |-> [p \in Processors |-> None]]
    /\ job_matcher = [j \in Jobs |-> None]
    /\ budgets = [j \in Jobs |-> 0]
    /\ ads = [p \in Processors |-> None] /\ verified = Processors
    /\ ledger = [free |-> InitialBalances, held |-> [a \in Accounts |-> 0]]
    /\ rewarded = [j \in Jobs |-> [p \in Processors |-> [i \in Indices |-> 0]]]
    /\ matched_as = [j \in Jobs |-> {}]

\* The prices of the sources of an instant match.
InstantFees(r) == [IF r.instant_match = None THEN {} ELSE DOMAIN r.instant_match -> Fees]

RegisterStep ==
    \E r \in Registrations : \E fees \in InstantFees(r) :
        \/ \E who \in Consumers : Register(who, r, fees)
        \/ \E n \in ProxySequence : RegisterFromProxy(n, r, fees)

MatchStep ==
    \E m \in Matchers, j \in DOMAIN jobs, e \in ProposedExecutions, plan \in Plans :
        \E fees \in [DOMAIN plan -> Fees] :
            \/ e = All /\ ProposeMatching(m, j, plan, fees)
            \/ e # All /\ ProposeExecutionMatching(m, j, e, plan, fees)

MarketNext ==
    \/ RegisterStep
    \/ MatchStep
    \/ \E j \in Jobs : \/ Deregister(j)
                       \/ CleanupJobAssignments(j)
                       \/ CleanupJobMatcher(j)
                       \/ \E s \in SUBSET Processors : CleanupStorage(j, s)
                       \/ \E s \in SourceLists : UpdateAllowedSources(j, s)
    \/ \E p \in Processors, j \in Jobs : \/ \E e \in Executions : AcknowledgeMatch(p, j, e)
                                         \/ Report(p, j)
                                         \/ CleanupAssignment(p, j)
    \/ \E p \in Processors : \/ \E c \in {None} \cup SUBSET Consumers : Advertise(p, c)
                             \/ DeleteAdvertisement(p)
                             \/ Attest(p)
                             \/ RevokeAttestation(p)
    \/ Tick

MarketSpec == MarketInit /\ [][MarketNext]_marketVars

-----------------------------------------------------------------------------
(* Properties *)

\* AssignedProcessors is the index by job of StoredMatches: every match,
\* report, cleanup and deregistration keeps the two in step.
AssignedMirrorsMatches == assigned = {<<k[2], k[1]>> : k \in DOMAIN matches}

\* The comment in fits_schedule: "assignments are cleared whenever a job is
\* removed"; and an Open job has no assignment yet.
NoOrphanAssignments ==
    \A k \in DOMAIN matches : k[2] \in DOMAIN jobs /\ job_status[k[2]] # Open

\* CannotDeleteAdvertisementWhileMatched: whoever holds a match advertises.
MatchedIsAdvertised == \A k \in DOMAIN matches : k[1] \in DOMAIN ads

\* The pallet account holds exactly the job budgets, whatever order
\* registrations, matcher shares, rewards and refunds come in.
PalletBacksBudgets ==
    ledger.free[Pallet] = InitialBalances[Pallet] + SumOver(budgets, Jobs)

\* A processor is rewarded at most once for an execution of a job, however
\* late, early or repeated its reports are.
RewardedOncePerExecution ==
    \A j \in Jobs, p \in Processors, i \in Indices : rewarded[j][p][i] <= 1

\* The rewards paid for a job.
Rewards(j) ==
    SumOver([x \in Processors \X Indices |-> rewarded[j][x[1]][x[2]]], Processors \X Indices)

\* A match of execution i is due once execution i - 2 has begun.
\* register_hook sees to it for Competing jobs, if the two settings fit;
\* nothing does for Single jobs.
Spaced(s) == execution_count(s) <= 1 \/ MatchingCompetingDueDelta <= 2 * s.interval

\* The matches of one kind, as a whole or of executions one by one, pay no more
\* rewards than the job has slots and executions, however processors are
\* overwritten, cleaned up and matched again.  Neither process_matching nor
\* process_execution_matching compares the kind with the job's strategy, so a
\* job may have had both and pay twice as much.  Executions matched one by one
\* must be spaced: cleanup_previous_execution_matches reopens execution i - 2.
RewardsBounded ==
    \A j \in DOMAIN jobs :
        ("execution" \in matched_as[j] => Spaced(jobs[j].schedule)) =>
            Rewards(j) <= Cardinality(matched_as[j])
                             * (jobs[j].slots * execution_count(jobs[j].schedule))

\* Only whole-job matches were made of the job.
NeverExecutionMatched(j) == \A i \in Indices : exec_status[j][i] = Open

\* What a whole-job assignment may still take from the budget of its job.
Outstanding(j, p) ==
    LET a == matches[<<p, j>>]
    IN  a.fee_per_execution * (a.total - a.met)
          + IF a.acknowledged \/ job_matcher[j] = None THEN 0 ELSE MatcherShare(j, a)

\* The reward that register locks covers every fee and matcher share that
\* whole-job matches of the job can still claim, so that no report and no
\* acknowledgement meets "Severe Error: JobBudget::unreserve failed".
SingleJobSolvent ==
    \A j \in DOMAIN jobs : NeverExecutionMatched(j) =>
        budgets[j] >= IF job_status[j] = Open THEN total_reward_amount(jobs[j])
                      ELSE SumOver([p \in AssignedTo(j) |-> Outstanding(j, p)], AssignedTo(j))

\* The owner of a job can always deregister it and get the rest of its
\* budget back, unless executions of it were matched one by one.
DeregisterNeverBlocked ==
    \A j \in DOMAIN jobs : NeverExecutionMatched(j) => CanDeregister(j)
=============================================================================
