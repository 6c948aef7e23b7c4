------------------------- MODULE Marketplace_proofs -------------------------
(***************************************************************************)
(* Proofs about Marketplace, for every market.  First the matches: the     *)
(* index by job is exact, no match outlives its job, and whoever is        *)
(* matched advertises.  Then the money: the pallet's account covers all    *)
(* budgets.  Then the jobs that are matched as a whole: each can pay what  *)
(* it still owes, can be deregistered, and rewards an execution once.      *)
(* Then the number of rewards of a job, however it is matched; and last    *)
(* the operations of a schedule, which do what ScheduleReference says.     *)
(***************************************************************************)
EXTENDS ScheduleReference, Balances_proofs

\* Matches are made by processors with registered jobs; every registered job
\* has a status.
MatchesTyped ==
    /\ DOMAIN job_status = DOMAIN jobs
    /\ DOMAIN matches \subseteq Processors \X DOMAIN jobs

\* The index entries of matches.
Swap(D) == {<<k[2], k[1]>> : k \in D}

MatchInv ==
    /\ MatchesTyped
    /\ AssignedMirrorsMatches
    /\ NoOrphanAssignments
    /\ MatchedIsAdvertised

-----------------------------------------------------------------------------
\* A match plan is a function on processors, also in a registration.
LEMMA PlanSources ==
    ASSUME NEW plan \in Plans
    PROVE  DOMAIN plan \subseteq Processors
BY DEF Plans

\* So is the instant match of a registration.
LEMMA InstantSources ==
    ASSUME NEW r \in Registrations, r.instant_match # None
    PROVE  DOMAIN r.instant_match \subseteq Processors
<1>1. r \in JobRegistrations
  BY RegistrationAssumption
<1>2. r.instant_match \in Plans
  BY <1>1 DEF JobRegistrations
<1> QED BY <1>2, PlanSources

\* Index entries of new matches of one job.
LEMMA SwapUnion ==
    ASSUME NEW D, NEW j, NEW S
    PROVE  Swap(D \cup KeysOf(j, S)) = Swap(D) \cup ({j} \X S)
<1>1. Swap(D \cup KeysOf(j, S)) = Swap(D) \cup Swap(KeysOf(j, S))
  BY DEF Swap
<1>2. Swap(KeysOf(j, S)) = {j} \X S
  <2>1. \A p \in S : <<p, j>> \in KeysOf(j, S) /\ <<p, j>>[1] = p /\ <<p, j>>[2] = j
    BY DEF KeysOf
  <2>2. \A k \in KeysOf(j, S) : \E p \in S : k = <<p, j>>
    BY DEF KeysOf
  <2>3. \A x \in Swap(KeysOf(j, S)) : x \in {j} \X S
    BY <2>1, <2>2 DEF Swap
  <2>4. \A x \in {j} \X S : x \in Swap(KeysOf(j, S))
    <3>1. \A p \in S : <<j, p>> \in Swap(KeysOf(j, S))
      BY <2>1 DEF Swap
    <3> QED BY <3>1
  <2> QED BY <2>3, <2>4
<1> QED BY <1>1, <1>2

\* The keys of the matches of one job.
LEMMA KeysTyped ==
    ASSUME NEW j \in Jobs, NEW S \in SUBSET Processors
    PROVE  KeysOf(j, S) \subseteq Processors \X Jobs
BY DEF KeysOf

\* Whatever keys are removed from both sides, index and matches agree.
LEMMA RemoveKeys ==
    ASSUME MatchInv, NEW keys, keys \subseteq Processors \X Jobs,
           Unassign(keys)
    PROVE  MatchInv'
<1>1. DOMAIN matches' = DOMAIN matches \ keys
  BY DEF Unassign
<1>2. assigned' = assigned \ {<<k[2], k[1]>> : k \in keys}
  BY DEF Unassign
<1>3. UNCHANGED <<jobs, job_status, ads>>
  BY DEF Unassign, registry, providers
<1>4. AssignedMirrorsMatches'
  BY <1>1, <1>2 DEF MatchInv, MatchesTyped, AssignedMirrorsMatches
<1>5. MatchesTyped' /\ NoOrphanAssignments' /\ MatchedIsAdvertised'
  BY <1>1, <1>3 DEF MatchInv, MatchesTyped, NoOrphanAssignments, MatchedIsAdvertised
<1> QED BY <1>4, <1>5 DEF MatchInv

-----------------------------------------------------------------------------
\* There are no jobs and no matches at first.
LEMMA InitMatches == MarketInit => MatchInv
BY DEF MarketInit, MatchInv, MatchesTyped, AssignedMirrorsMatches, NoOrphanAssignments,
       MatchedIsAdvertised

\* propose_matching and the instant match of register, for a job without
\* matches that is registered and not Open afterwards.
LEMMA StoreMatchKeeps ==
    ASSUME MatchInv, NEW j, NEW r, NEW plan, NEW fees,
           DOMAIN plan \subseteq Processors,
           StoreMatch(j, r, plan, fees),
           \A p \in DOMAIN plan : p \in DOMAIN ads,
           UNCHANGED ads,
           DOMAIN jobs' = DOMAIN jobs \cup {j}, DOMAIN job_status' = DOMAIN jobs',
           job_status'[j] # Open,
           \A x \in DOMAIN jobs : x # j => job_status'[x] = job_status[x]
    PROVE  MatchInv'
<1>1. DOMAIN matches' = DOMAIN matches \cup KeysOf(j, DOMAIN plan)
  BY DEF StoreMatch
<1>2. assigned' = assigned \cup ({j} \X DOMAIN plan)
  BY DEF StoreMatch
<1>3. MatchesTyped'
  BY <1>1 DEF MatchInv, MatchesTyped, KeysOf
<1>4. AssignedMirrorsMatches'
  <2>1. assigned = Swap(DOMAIN matches)
    BY DEF MatchInv, AssignedMirrorsMatches, Swap
  <2>2. assigned' = Swap(DOMAIN matches')
    BY <1>1, <1>2, <2>1, SwapUnion
  <2> QED BY <2>2 DEF AssignedMirrorsMatches, Swap
<1>5. NoOrphanAssignments'
  BY <1>1, <1>3 DEF MatchInv, MatchesTyped, NoOrphanAssignments, KeysOf
<1>6. MatchedIsAdvertised'
  BY <1>1 DEF MatchInv, MatchesTyped, MatchedIsAdvertised, KeysOf
<1> QED BY <1>3, <1>4, <1>5, <1>6 DEF MatchInv

\* Statuses other than Open.
LEMMA NotOpen == Matched # Open /\ \A n : Assigned(n) # Open
BY DEF Matched, Assigned, Open

\* propose_matching keeps the invariant.
LEMMA ProposeMatchingKeeps ==
    ASSUME MatchInv, NEW m, NEW j, NEW plan \in Plans, NEW fees,
           ProposeMatching(m, j, plan, fees)
    PROVE  MatchInv'
<1>1. \A p \in DOMAIN plan : p \in DOMAIN ads
  BY DEF ProposeMatching, CanMatch, Admissible
<1>2. /\ StoreMatch(j, jobs[j], plan, fees) /\ UNCHANGED <<jobs, ads>> /\ j \in DOMAIN jobs
      /\ job_status' = [job_status EXCEPT ![j] = Matched]
  BY DEF ProposeMatching, providers
<1>3. /\ DOMAIN jobs' = DOMAIN jobs \cup {j} /\ DOMAIN job_status' = DOMAIN jobs'
      /\ job_status'[j] # Open
      /\ \A x \in DOMAIN jobs : x # j => job_status'[x] = job_status[x]
  BY <1>2, NotOpen DEF MatchInv, MatchesTyped
<1> QED BY <1>1, <1>2, <1>3, PlanSources, StoreMatchKeeps

\* propose_execution_matching forgets earlier executions in three places.
LEMMA ProposeExecutionMatchingKeeps ==
    ASSUME MatchInv, NEW m, NEW j, NEW i, NEW plan \in Plans, NEW fees,
           ProposeExecutionMatching(m, j, i, plan, fees)
    PROVE  MatchInv'
<1> DEFINE kept == DOMAIN matches \ PreviousExecutions(j, i)
<1>1. /\ DOMAIN matches' = kept \cup KeysOf(j, DOMAIN plan)
      /\ assigned' = (assigned \ ({j} \X ForgottenProcessors(j, i))) \cup ({j} \X DOMAIN plan)
      /\ job_status' = [job_status EXCEPT ![j] = Matched]
      /\ j \in DOMAIN jobs /\ UNCHANGED <<jobs, ads>>
  BY DEF ProposeExecutionMatching, KeptMatches, providers
<1>2. DOMAIN plan \subseteq Processors
  BY PlanSources
<1>3. \A p \in DOMAIN plan : p \in DOMAIN ads
  BY DEF ProposeExecutionMatching, CanMatchExecution, Admissible
<1>4. /\ DOMAIN job_status' = DOMAIN jobs' /\ job_status'[j] # Open
      /\ \A x \in DOMAIN jobs : x # j => job_status'[x] = job_status[x]
  BY <1>1, NotOpen DEF MatchInv, MatchesTyped
<1>5. kept \subseteq Processors \X DOMAIN jobs
  BY DEF MatchInv, MatchesTyped
<1>6. assigned \ ({j} \X ForgottenProcessors(j, i)) = {<<k[2], k[1]>> : k \in kept}
  <2>1. assigned = {<<k[2], k[1]>> : k \in DOMAIN matches}
    BY DEF MatchInv, AssignedMirrorsMatches
  <2>2. \A k \in DOMAIN matches : k = <<k[1], k[2]>> /\ k[1] \in Processors
    BY DEF MatchInv, MatchesTyped
  <2>3. \A k \in DOMAIN matches :
            k \in PreviousExecutions(j, i) <=>
               k[2] = j /\ k[1] \in ForgottenProcessors(j, i)
    <3>1. SUFFICES ASSUME NEW k \in DOMAIN matches
                   PROVE  k \in PreviousExecutions(j, i) <=>
                             k[2] = j /\ k[1] \in ForgottenProcessors(j, i)
      OBVIOUS
    <3>2. <<k[2], k[1]>> \in assigned
      BY <2>1
    <3>3. k[2] = j => k[1] \in AssignedTo(j) /\ k = <<k[1], j>>
      BY <2>2, <3>2 DEF AssignedTo
    <3>4. DOMAIN KeptMatches(j, i) = kept
      BY DEF KeptMatches
    <3>5. k \in PreviousExecutions(j, i) => i >= 2 /\ k[2] = j
      BY DEF PreviousExecutions
    <3> QED BY <3>3, <3>4, <3>5 DEF ForgottenProcessors
  <2> QED BY <2>1, <2>2, <2>3
<1>7. MatchesTyped'
  BY <1>1, <1>2, <1>4, <1>5 DEF MatchesTyped, KeysOf
<1>8. AssignedMirrorsMatches'
  <2>1. assigned \ ({j} \X ForgottenProcessors(j, i)) = Swap(kept)
    BY <1>6 DEF Swap
  <2>2. assigned' = Swap(kept \cup KeysOf(j, DOMAIN plan))
    BY <1>1, <2>1, SwapUnion
  <2> QED BY <1>1, <2>2 DEF AssignedMirrorsMatches, Swap
<1>9. NoOrphanAssignments'
  BY <1>1, <1>4, <1>5 DEF MatchInv, NoOrphanAssignments, KeysOf
<1>10. MatchedIsAdvertised'
  BY <1>1, <1>3 DEF MatchInv, MatchedIsAdvertised, KeysOf
<1> QED BY <1>7, <1>8, <1>9, <1>10 DEF MatchInv

\* acknowledge_match changes an assignment and its job's status in place.
LEMMA AcknowledgeMatchKeeps ==
    ASSUME MatchInv, NEW p, NEW j, NEW e, AcknowledgeMatch(p, j, e)
    PROVE  MatchInv'
<1>1. /\ DOMAIN matches' = DOMAIN matches
      /\ \E n : job_status' = [job_status EXCEPT ![j] = Assigned(n)]
      /\ j \in DOMAIN jobs /\ UNCHANGED <<jobs, assigned, ads>>
  BY DEF AcknowledgeMatch, providers
<1>2. DOMAIN job_status' = DOMAIN jobs
  BY <1>1 DEF MatchInv, MatchesTyped
<1>3. \A x \in DOMAIN jobs : job_status[x] # Open => job_status'[x] # Open
  BY <1>1, NotOpen DEF MatchInv, MatchesTyped
<1> QED BY <1>1, <1>2, <1>3 DEF MatchInv, MatchesTyped, AssignedMirrorsMatches,
                                NoOrphanAssignments, MatchedIsAdvertised

\* report removes the match with its last execution, on both sides.
LEMMA ReportKeeps ==
    ASSUME MatchInv, NEW p \in Processors, NEW j \in Jobs, Report(p, j)
    PROVE  MatchInv'
<1>1. /\ UNCHANGED <<jobs, job_status, ads>>
      /\ \/ DOMAIN matches' = DOMAIN matches \ {<<p, j>>} /\ assigned' = assigned \ {<<j, p>>}
         \/ DOMAIN matches' = DOMAIN matches /\ UNCHANGED assigned
  BY DEF Report, registry, providers
<1>2. AssignedMirrorsMatches'
  BY <1>1 DEF MatchInv, MatchesTyped, AssignedMirrorsMatches
<1> QED BY <1>1, <1>2 DEF MatchInv, MatchesTyped, NoOrphanAssignments, MatchedIsAdvertised

\* register: a job that was Open or unknown has no matches.
LEMMA RegisterKeeps ==
    ASSUME MatchInv, NEW j, NEW r \in Registrations, NEW fees, register_for(j, r, fees)
    PROVE  MatchInv'
<1>1. /\ DOMAIN jobs' = DOMAIN jobs \cup {j} /\ DOMAIN job_status' = DOMAIN jobs'
      /\ \A x \in DOMAIN jobs : x # j => job_status'[x] = job_status[x]
      /\ UNCHANGED ads
  BY DEF register_for, providers
<1>2. \A k \in DOMAIN matches : k[2] # j
  BY DEF register_for, StatusOf, MatchInv, MatchesTyped, NoOrphanAssignments
<1>3. CASE r.strategy = "Single" /\ r.instant_match # None
  <2>1. /\ StoreMatch(j, r, r.instant_match, fees) /\ job_status'[j] = Matched
        /\ CanMatch(j, r, r.instant_match, fees)
    BY <1>3 DEF register_for
  <2>2. \A p \in DOMAIN r.instant_match : p \in DOMAIN ads
    BY <2>1 DEF CanMatch, Admissible
  <2>3. DOMAIN r.instant_match \subseteq Processors
    BY <1>3, InstantSources
  <2> QED BY <1>1, <2>1, <2>2, <2>3, NotOpen, StoreMatchKeeps
<1>4. CASE ~(r.strategy = "Single" /\ r.instant_match # None)
  <2>1. UNCHANGED <<matches, assigned>>
    BY <1>4 DEF register_for
  <2> QED BY <1>1, <1>2, <2>1 DEF MatchInv, MatchesTyped, AssignedMirrorsMatches,
                                  NoOrphanAssignments, MatchedIsAdvertised
<1> QED BY <1>3, <1>4

\* deregister, in every status of the job, takes all of its matches away.
LEMMA DeregisterKeeps ==
    ASSUME MatchInv, NEW j \in Jobs, Deregister(j)
    PROVE  MatchInv'
<1>1. /\ DOMAIN matches' = DOMAIN matches \ {<<p, j>> : p \in Drained(j)}
      /\ assigned' = assigned \ ({j} \X Drained(j))
      /\ DOMAIN jobs' = DOMAIN jobs \ {j} /\ DOMAIN job_status' = DOMAIN jobs \ {j}
      /\ \A x \in DOMAIN jobs \ {j} : job_status'[x] = job_status[x]
      /\ j \in DOMAIN jobs /\ UNCHANGED ads
  BY DEF Deregister, KeysOf, providers
<1>2. \A k \in DOMAIN matches : k = <<k[1], k[2]>> /\ k[1] \in Processors /\ k[2] \in DOMAIN jobs
  BY DEF MatchInv, MatchesTyped
<1>3. assigned = {<<k[2], k[1]>> : k \in DOMAIN matches}
  BY DEF MatchInv, AssignedMirrorsMatches
<1>4. \A k \in DOMAIN matches : k[2] = j => k[1] \in Drained(j)
  <2>1. SUFFICES ASSUME NEW k \in DOMAIN matches, k[2] = j PROVE k[1] \in Drained(j)
    OBVIOUS
  <2>2. job_status[j] # Open
    BY <2>1 DEF MatchInv, NoOrphanAssignments
  <2>3. k[1] \in AssignedTo(j)
    BY <1>2, <1>3, <2>1 DEF AssignedTo
  <2> QED BY <2>2, <2>3 DEF Drained
<1>5. \A k : k \in DOMAIN matches' <=> k \in DOMAIN matches /\ k[2] # j
  BY <1>1, <1>2, <1>4
<1>6. AssignedMirrorsMatches'
  <2>1. assigned' = {<<k[2], k[1]>> : k \in {l \in DOMAIN matches : l[2] # j}}
    BY <1>1, <1>2, <1>3, <1>4
  <2>2. DOMAIN matches' = {l \in DOMAIN matches : l[2] # j}
    BY <1>5
  <2> QED BY <2>1, <2>2 DEF AssignedMirrorsMatches
<1>7. MatchesTyped'
  BY <1>1, <1>2, <1>5 DEF MatchesTyped
<1>8. NoOrphanAssignments' /\ MatchedIsAdvertised'
  BY <1>1, <1>2, <1>5 DEF MatchInv, NoOrphanAssignments, MatchedIsAdvertised
<1> QED BY <1>6, <1>7, <1>8 DEF MatchInv

\* update_allowed_sources, advertisements, attestations and time leave the
\* matches alone.
LEMMA OtherKeeps ==
    ASSUME MatchInv,
           \/ \E j, s : UpdateAllowedSources(j, s)
           \/ \E j : CleanupJobMatcher(j)
           \/ \E p, c : Advertise(p, c)
           \/ \E p : DeleteAdvertisement(p) \/ Attest(p) \/ RevokeAttestation(p)
           \/ Tick
           \/ UNCHANGED marketVars
    PROVE  MatchInv'
<1>1. /\ UNCHANGED <<matches, assigned, job_status>> /\ DOMAIN jobs' = DOMAIN jobs
      /\ \A k \in DOMAIN matches : k[1] \in DOMAIN ads => k[1] \in DOMAIN ads'
  BY DEF UpdateAllowedSources, CleanupJobMatcher, Advertise, DeleteAdvertisement, Attest,
         RevokeAttestation, Tick, marketVars, registry, assignments, providers
<1> QED BY <1>1 DEF MatchInv, MatchesTyped, AssignedMirrorsMatches, NoOrphanAssignments,
                    MatchedIsAdvertised

\* Every step of the market keeps the invariant.
LEMMA NextMatches == MatchInv /\ [MarketNext]_marketVars => MatchInv'
<1> SUFFICES ASSUME MatchInv, [MarketNext]_marketVars PROVE MatchInv'
  OBVIOUS
<1>1. CASE RegisterStep
  <2>1. \E j, fees : \E r \in Registrations : register_for(j, r, fees)
    BY <1>1 DEF RegisterStep, Register, RegisterFromProxy
  <2> QED BY <2>1, RegisterKeeps
<1>2. CASE MatchStep
  BY <1>2, ProposeMatchingKeeps, ProposeExecutionMatchingKeeps DEF MatchStep
<1>3. ASSUME NEW j \in Jobs, Deregister(j) PROVE MatchInv'
  BY <1>3, DeregisterKeeps
<1>4. ASSUME NEW j \in Jobs, CleanupJobAssignments(j) PROVE MatchInv'
  <2>1. AssignedTo(j) \in SUBSET Processors
    BY DEF AssignedTo
  <2>2. KeysOf(j, AssignedTo(j)) \subseteq Processors \X Jobs
    BY <2>1, KeysTyped
  <2> QED BY <1>4, <2>2, RemoveKeys DEF CleanupJobAssignments
<1>5. ASSUME NEW j \in Jobs, NEW s \in SUBSET Processors, CleanupStorage(j, s) PROVE MatchInv'
  <2>1. KeysOf(j, s) \subseteq Processors \X Jobs
    BY KeysTyped
  <2> QED BY <1>5, <2>1, RemoveKeys DEF CleanupStorage
<1>6. ASSUME NEW p \in Processors, NEW j \in Jobs, CleanupAssignment(p, j) PROVE MatchInv'
  <2>1. {<<p, j>>} \subseteq Processors \X Jobs
    OBVIOUS
  <2> QED BY <1>6, <2>1, RemoveKeys DEF CleanupAssignment
<1>7. ASSUME NEW p \in Processors, NEW j \in Jobs, Report(p, j) PROVE MatchInv'
  BY <1>7, ReportKeeps
<1>8. ASSUME NEW p \in Processors, NEW j \in Jobs, NEW e \in Executions, AcknowledgeMatch(p, j, e)
      PROVE  MatchInv'
  BY <1>8, AcknowledgeMatchKeeps
<1>9. CASE \/ \E j \in Jobs : \/ CleanupJobMatcher(j)
                              \/ \E s \in SourceLists : UpdateAllowedSources(j, s)
           \/ \E p \in Processors : \/ \E c \in {None} \cup SUBSET Consumers : Advertise(p, c)
                                    \/ DeleteAdvertisement(p)
                                    \/ Attest(p)
                                    \/ RevokeAttestation(p)
           \/ Tick
           \/ UNCHANGED marketVars
  BY <1>9, OtherKeeps
<1> QED BY <1>1, <1>2, <1>3, <1>4, <1>5, <1>6, <1>7, <1>8, <1>9 DEF MarketNext

-----------------------------------------------------------------------------
\* AssignedProcessors is the index by job of StoredMatches, in every market.
THEOREM AssignedMirrors == MarketSpec => []AssignedMirrorsMatches
<1>1. MatchInv => AssignedMirrorsMatches
  BY DEF MatchInv
<1> QED BY InitMatches, NextMatches, <1>1, PTL DEF MarketSpec

\* fits_schedule's "assignments are cleared whenever a job is removed".
THEOREM NoOrphans == MarketSpec => []NoOrphanAssignments
<1>1. MatchInv => NoOrphanAssignments
  BY DEF MatchInv
<1> QED BY InitMatches, NextMatches, <1>1, PTL DEF MarketSpec

\* delete_advertisement: whoever holds a match advertises.
THEOREM MatchedAdvertise == MarketSpec => []MatchedIsAdvertised
<1>1. MatchInv => MatchedIsAdvertised
  BY DEF MatchInv
<1> QED BY InitMatches, NextMatches, <1>1, PTL DEF MarketSpec

-----------------------------------------------------------------------------
(***************************************************************************)
(* Money and reports.  The tables of the market hold what their types say, *)
(* every registered job passed register_hook, and the marketplace's        *)
(* account backs the budgets; whoever has a budget is alive.               *)
(***************************************************************************)
RegisteredWell(r) ==
    /\ r.schedule \in Schedules /\ r.reward \in Nat /\ r.slots \in Nat
    /\ r.schedule.interval > 0
    /\ execution_count(r.schedule) \in 1 .. MAX_EXECUTIONS_PER_JOB

JobsInv ==
    /\ now \in Nat /\ last_job_id \in Nat
    /\ DOMAIN jobs \subseteq Jobs
    /\ \A j \in DOMAIN jobs : RegisteredWell(jobs[j]) /\ job_status[j] \in Statuses
    /\ exec_status \in [Jobs -> [Indices -> Statuses]]

AssignInv ==
    /\ \A k \in DOMAIN matches : matches[k] \in Assignments
    /\ next_report \in [Jobs -> [Processors -> Nat \cup {None}]]
    /\ job_matcher \in [Jobs -> Matchers \cup {None}]
    /\ rewarded \in [Jobs -> [Processors -> [Indices -> Nat]]]

BudgetInv ==
    /\ budgets \in [Jobs -> Nat]
    /\ ledger \in Ledgers
    /\ PalletBacksBudgets
    /\ \A j \in Jobs : budgets[j] > 0 => ledger.free[j[1]] >= ExistentialDeposit

(***************************************************************************)
(* Whole-job matches.  A processor that has not acknowledged was never     *)
(* rewarded; one that has is rewarded for executions before the one its    *)
(* next report is expected for, and has met no more than those.            *)
(***************************************************************************)
WholeMatch(j, p) ==
    LET a == matches[<<p, j>>]
    IN  /\ a.execution = All
        /\ a.total = execution_count(jobs[j].schedule)
        /\ a.acknowledged =>
              /\ next_report[j][p] # None
              /\ a.met <= next_report[j][p]
              /\ next_report[j][p] < a.total
              /\ \A i \in Indices : i >= next_report[j][p] => rewarded[j][p][i] = 0
        /\ ~a.acknowledged => a.met = 0 /\ \A i \in Indices : rewarded[j][p][i] = 0

WholeJob(j) ==
    /\ \A p \in Processors : <<p, j>> \in DOMAIN matches => WholeMatch(j, p)
    /\ \A p \in Processors, i \in Indices : rewarded[j][p][i] <= 1
    /\ StatusOf(j) = Open => \A p \in Processors, i \in Indices : rewarded[j][p][i] = 0

\* The sum of what the assignments of a job may still take.
Claims(j) == SumOver([p \in AssignedTo(j) |-> Outstanding(j, p)], AssignedTo(j))

Solvent(j) ==
    budgets[j] >= IF job_status[j] = Open THEN total_reward_amount(jobs[j]) ELSE Claims(j)

JobWhole(j) == NeverExecutionMatched(j) => WholeJob(j) /\ (j \in DOMAIN jobs => Solvent(j))

WholeInv == \A j \in Jobs : JobWhole(j)

TablesInv == MatchInv /\ JobsInv /\ AssignInv /\ BudgetInv

MarketInv == TablesInv /\ WholeInv

-----------------------------------------------------------------------------
\* There are finitely many jobs.
LEMMA JobsFinite == IsFiniteSet(Jobs)
<1>1. IsFiniteSet(1 .. MaxJobs)
  BY FS_Interval, MarketAssumption
<1>2. IsFiniteSet(Consumers \X (1 .. MaxJobs))
  BY <1>1, FS_Product, MarketAssumption
<1>3. IsFiniteSet({Hyperdrive})
  BY FS_Singleton
<1>4. IsFiniteSet({Hyperdrive} \X ProxySequence)
  BY <1>3, FS_Product, MarketAssumption
<1> QED BY <1>2, <1>4, FS_Union DEF Jobs

\* Whoever registered a job has an account, and it is not the pallet's.
LEMMA JobOwner ==
    ASSUME NEW j \in Jobs
    PROVE  j[1] \in Accounts /\ j[1] # Pallet /\ Pallet \in Accounts /\ FeeManager \in Accounts
BY MarketAssumption, PalletAssumption DEF Jobs

\* So has a matcher.
LEMMA MatcherAccount ==
    ASSUME NEW m \in Matchers
    PROVE  m \in Accounts /\ m # Pallet
BY MarketAssumption, PalletAssumption

\* AssignedTo lists processors, finitely many.
LEMMA AssignedFinite ==
    ASSUME NEW j
    PROVE  AssignedTo(j) \subseteq Processors /\ IsFiniteSet(AssignedTo(j))
BY FS_Subset, MarketAssumption DEF AssignedTo

\* By the index, they are those with a match.
LEMMA AssignedMatched ==
    ASSUME MatchInv, NEW j
    PROVE  AssignedTo(j) = {p \in Processors : <<p, j>> \in DOMAIN matches}
<1>1. assigned = {<<k[2], k[1]>> : k \in DOMAIN matches}
      /\ \A k \in DOMAIN matches : k = <<k[1], k[2]>> /\ k[1] \in Processors
  BY DEF MatchInv, MatchesTyped, AssignedMirrorsMatches
<1>2. \A p \in Processors : <<j, p>> \in assigned <=> <<p, j>> \in DOMAIN matches
  BY <1>1
<1> QED BY <1>2 DEF AssignedTo

\* The number of executions of a schedule.
LEMMA CountType == ASSUME NEW s \in Schedules PROVE execution_count(s) \in Nat
<1>1. /\ s.end_time \in Nat /\ s.start_time \in Nat /\ s.interval \in Nat
  BY TimeAssumption DEF Schedules, Times
<1>2. CASE ~(s.end_time <= s.start_time \/ s.interval = 0)
  <2>1. s.end_time - s.start_time - 1 \in Nat /\ s.interval \in Nat \ {0}
    BY <1>1, <1>2
  <2>2. (s.end_time - s.start_time - 1) \div s.interval \in Nat
    BY <2>1
  <2> QED BY <1>2, <2>2 DEF execution_count
<1> QED BY <1>2 DEF execution_count

\* register_hook lets a registration through.
LEMMA RegistrableWell ==
    ASSUME NEW r \in Registrations, Registrable(r)
    PROVE  RegisteredWell(r) /\ r.instant_match \in Plans \cup {None}
<1>1. r \in JobRegistrations
  BY RegistrationAssumption
<1>2. r.schedule \in Schedules /\ r.reward \in Nat /\ r.slots \in Nat
      /\ r.instant_match \in Plans \cup {None}
  BY <1>1 DEF JobRegistrations
<1>3. r.schedule.duration \in Nat /\ r.schedule.interval \in Nat
  BY <1>2, TimeAssumption DEF Schedules, Times
<1>4. r.schedule.interval > 0
  BY <1>3 DEF Registrable
<1> QED BY <1>2, <1>4 DEF RegisteredWell, Registrable

\* What a job locks.
LEMMA RewardType ==
    ASSUME NEW r, RegisteredWell(r)
    PROVE  total_reward_amount(r) \in Nat
<1>1. execution_count(r.schedule) \in Nat /\ r.reward \in Nat /\ r.slots \in Nat
  BY CountType DEF RegisteredWell
<1>2. r.reward * r.slots \in Nat
  BY <1>1
<1> QED BY <1>1, <1>2 DEF total_reward_amount

\* A share of a natural number in percent.
LEMMA ShareType ==
    ASSUME NEW n \in Nat, NEW x \in Nat, n <= 100
    PROVE  (n * x) \div 100 \in Nat /\ (n * x) \div 100 <= x
<1>1. n * x \in Nat /\ n * x <= 100 * x
  <2>1. 100 * x = n * x + (100 - n) * x
    OBVIOUS
  <2>2. (100 - n) * x \in Nat
    OBVIOUS
  <2>3. n * x \in Nat
    OBVIOUS
  <2> QED BY <2>1, <2>2, <2>3
<1> DEFINE y == n * x
<1> HIDE DEF y
<1>2. y \in Nat /\ y <= 100 * x
  BY <1>1 DEF y
<1>3. y \div 100 \in Nat /\ y \div 100 <= x
  BY <1>2
<1> QED BY <1>3 DEF y

\* The matcher's share of an assignment is at most the part of the reward
\* that its processor does not ask for.
LEMMA MatcherShareType ==
    ASSUME JobsInv, NEW j \in DOMAIN jobs, NEW a \in Assignments
    PROVE  /\ MatcherShare(j, a) \in Nat
           /\ a.execution = All /\ a.fee_per_execution <= jobs[j].reward =>
                 MatcherShare(j, a)
                   <= (jobs[j].reward - a.fee_per_execution) * execution_count(jobs[j].schedule)
<1> DEFINE d == IF jobs[j].reward > a.fee_per_execution
                THEN jobs[j].reward - a.fee_per_execution ELSE 0
           n == execution_count(jobs[j].schedule)
           x == IF a.execution = All THEN d * n ELSE d
<1>1. jobs[j].reward \in Nat /\ a.fee_per_execution \in Nat /\ n \in Nat
  BY CountType DEF JobsInv, RegisteredWell, Assignments
<1>2. d \in Nat /\ (a.fee_per_execution <= jobs[j].reward => d = jobs[j].reward - a.fee_per_execution)
  BY <1>1
<1>3. MatcherShare(j, a) = (MatcherPercentage * x) \div 100
  BY DEF MatcherShare, MatcherFee
<1> HIDE DEF d, n
<1>4. d * n \in Nat
  BY <1>1, <1>2
<1>5. x \in Nat
  BY <1>2, <1>4
<1>6. (MatcherPercentage * x) \div 100 \in Nat /\ (MatcherPercentage * x) \div 100 <= x
  <2> HIDE DEF x
  <2> QED BY <1>5, ShareType, MarketAssumption
<1>7. a.execution = All /\ a.fee_per_execution <= jobs[j].reward =>
         x = (jobs[j].reward - a.fee_per_execution) * n
  BY <1>2
<1> HIDE DEF x
<1>8. n = execution_count(jobs[j].schedule)
  BY DEF n
<1> QED BY <1>3, <1>6, <1>7, <1>8

-----------------------------------------------------------------------------
(***************************************************************************)
(* Every payment changes one budget and the pallet's balance alike.        *)
(***************************************************************************)
\* One budget changes.
LEMMA BudgetSum ==
    ASSUME NEW f \in [Jobs -> Nat], NEW g \in [Jobs -> Nat], NEW j \in Jobs,
           \A i \in Jobs : i # j => g[i] = f[i]
    PROVE  SumOver(g, Jobs) = SumOver(f, Jobs) - f[j] + g[j]
<1>1. (\A i \in Jobs : f[i] \in Int) /\ g[j] \in Int
  OBVIOUS
<1> QED BY <1>1, JobsFinite, SumChange

\* One budget changes, and the pallet's balance with it.
LEMMA BudgetStep ==
    ASSUME BudgetInv, NEW j \in Jobs, NEW b \in Nat, budgets' = [budgets EXCEPT ![j] = b],
           ledger' \in Ledgers,
           ledger'.free[Pallet] = ledger.free[Pallet] - budgets[j] + b,
           \A i \in Jobs : budgets'[i] > 0 => ledger'.free[i[1]] >= ExistentialDeposit
    PROVE  BudgetInv'
<1>1. /\ budgets \in [Jobs -> Nat] /\ budgets' \in [Jobs -> Nat] /\ budgets'[j] = b
      /\ \A i \in Jobs : i # j => budgets'[i] = budgets[i]
  BY DEF BudgetInv
<1>2. SumOver(budgets', Jobs) = SumOver(budgets, Jobs) - budgets[j] + b
  <2>1. SumOver(budgets', Jobs) = SumOver(budgets, Jobs) - budgets[j] + budgets'[j]
    BY <1>1, BudgetSum
  <2> QED BY <1>1, <2>1
<1>3. SumOver(budgets, Jobs) \in Int /\ budgets[j] \in Int /\ InitialBalances[Pallet] \in Int
  <2>1. SumOver(budgets, Jobs) \in Int
    BY <1>1, JobsFinite, SumInt
  <2> QED BY <1>1, <2>1, MarketAssumption
<1>4. PalletBacksBudgets'
  BY <1>2, <1>3 DEF BudgetInv, PalletBacksBudgets
<1> QED BY <1>1, <1>4 DEF BudgetInv

\* No budget exceeds what the pallet's account can pay and stay alive.
LEMMA BudgetCovered ==
    ASSUME BudgetInv, NEW j \in Jobs
    PROVE  ledger.free[Pallet] >= budgets[j] + ExistentialDeposit
<1>1. budgets \in [Jobs -> Nat] /\ ledger.free[Pallet] = InitialBalances[Pallet] + SumOver(budgets, Jobs)
  BY DEF BudgetInv, PalletBacksBudgets
<1>2. budgets[j] <= SumOver(budgets, Jobs) /\ SumOver(budgets, Jobs) \in Nat /\ budgets[j] \in Nat
  BY <1>1, JobsFinite, SumBounds, SumNat
<1>3. InitialBalances[Pallet] \in Nat /\ ExistentialDeposit \in Nat
      /\ InitialBalances[Pallet] >= ExistentialDeposit
  BY MarketAssumption, PalletAssumption, ExistentialDepositAssumption
<1> QED BY <1>1, <1>2, <1>3

\* The pallet pays from the budget of a job, and nobody else loses anything.
LEMMA PayFromBudget ==
    ASSUME BudgetInv, NEW j \in Jobs, NEW n \in Nat, budgets[j] >= n,
           budgets' = [budgets EXCEPT ![j] = @ - n],
           ledger' \in Ledgers,
           ledger'.free[Pallet] = ledger.free[Pallet] - n,
           \A c \in Accounts : c # Pallet => ledger'.free[c] >= ledger.free[c]
    PROVE  BudgetInv'
<1>1. budgets \in [Jobs -> Nat] /\ ledger \in Ledgers
  BY DEF BudgetInv
<1>2. budgets[j] - n \in Nat /\ budgets' = [budgets EXCEPT ![j] = budgets[j] - n]
  BY <1>1
<1>3. ledger'.free[Pallet] = ledger.free[Pallet] - budgets[j] + (budgets[j] - n)
  <2>1. ledger.free[Pallet] \in Nat /\ budgets[j] \in Nat
    BY <1>1, JobOwner DEF Ledgers
  <2> QED BY <2>1
<1>4. ASSUME NEW i \in Jobs, budgets'[i] > 0 PROVE ledger'.free[i[1]] >= ExistentialDeposit
  <2>1. budgets[i] > 0
    BY <1>1, <1>2, <1>4
  <2>2. ledger.free[i[1]] >= ExistentialDeposit
    BY <2>1 DEF BudgetInv
  <2>3. i[1] \in Accounts /\ i[1] # Pallet
    BY JobOwner
  <2>4. ledger.free[i[1]] \in Nat /\ ledger'.free[i[1]] \in Nat /\ ExistentialDeposit \in Nat
    BY <1>1, <2>3, ExistentialDepositAssumption DEF Ledgers
  <2> QED BY <2>2, <2>3, <2>4
<1> QED BY <1>2, <1>3, <1>4, BudgetStep

\* handle_reward: the reward is burned.
LEMMA RewardPaid ==
    ASSUME BudgetInv, NEW j \in Jobs, NEW n \in Nat, budgets[j] >= n,
           budgets' = [budgets EXCEPT ![j] = @ - n], ledger' = Withdraw(ledger, Pallet, n)
    PROVE  BudgetInv'
<1>1. ledger \in Ledgers /\ Pallet \in Accounts /\ ledger.free[Pallet] \in Nat /\ budgets[j] \in Nat
      /\ ExistentialDeposit \in Nat
  BY JobOwner, ExistentialDepositAssumption DEF BudgetInv, Ledgers
<1>2. ledger.free[Pallet] >= n
  BY <1>1, BudgetCovered
<1>3. /\ ledger' \in Ledgers
      /\ \A c \in Accounts : ledger'.free[c] = ledger.free[c] - (IF c = Pallet THEN n ELSE 0)
  BY <1>1, <1>2, WithdrawMoves
<1>4. ledger'.free[Pallet] = ledger.free[Pallet] - n
  BY <1>1, <1>3
<1>5. \A c \in Accounts : c # Pallet => ledger'.free[c] >= ledger.free[c]
  BY <1>1, <1>3 DEF Ledgers
<1> QED BY <1>3, <1>4, <1>5, PayFromBudget

\* pay_matcher_reward: the fee of the chain and the rest for the matcher.
LEMMA MatcherPaid ==
    ASSUME BudgetInv, NEW j \in Jobs, NEW m \in Matchers, NEW n \in Nat, budgets[j] >= n,
           PayMatcher(j, m, n)
    PROVE  BudgetInv'
<1> DEFINE fee == AcurastFee(n)
           t == Transfer(ledger, Pallet, FeeManager, fee)
<1>1. fee \in Nat /\ fee <= n
  BY ShareType, MarketAssumption DEF AcurastFee
<1>2. /\ budgets' = [budgets EXCEPT ![j] = @ - n]
      /\ ledger' = Transfer(t, Pallet, m, n - fee)
  BY DEF PayMatcher
<1>3. ledger \in Ledgers /\ Pallet \in Accounts /\ ledger.free[Pallet] \in Nat /\ budgets[j] \in Nat
      /\ ExistentialDeposit \in Nat /\ FeeManager \in Accounts /\ FeeManager # Pallet
      /\ m \in Accounts /\ m # Pallet
  BY JobOwner, MatcherAccount, ExistentialDepositAssumption, PalletAssumption DEF BudgetInv, Ledgers
<1> HIDE DEF fee
<1>4. ledger.free[Pallet] - n \in Nat /\ ledger.free[Pallet] - fee \in Nat
  BY <1>1, <1>3, BudgetCovered
<1>5. /\ t \in Ledgers /\ t.free[Pallet] = ledger.free[Pallet] - fee
      /\ t.free[FeeManager] = ledger.free[FeeManager] + fee
      /\ \A c \in Accounts : c # Pallet /\ c # FeeManager => t.free[c] = ledger.free[c]
  BY <1>1, <1>3, <1>4, TransferMoves DEF Ledgers
<1> HIDE DEF t
<1>6. n - fee \in Nat /\ t.free[Pallet] - (n - fee) = ledger.free[Pallet] - n
  BY <1>1, <1>3, <1>5
<1>7. /\ ledger' \in Ledgers /\ ledger'.free[Pallet] = t.free[Pallet] - (n - fee)
      /\ ledger'.free[m] = t.free[m] + (n - fee)
      /\ \A c \in Accounts : c # Pallet /\ c # m => ledger'.free[c] = t.free[c]
  BY <1>2, <1>3, <1>4, <1>5, <1>6, TransferMoves DEF Ledgers
<1>8. \A c \in Accounts : c # Pallet => ledger'.free[c] >= ledger.free[c]
  <2> SUFFICES ASSUME NEW c \in Accounts, c # Pallet PROVE ledger'.free[c] >= ledger.free[c]
    OBVIOUS
  <2>1. ledger.free[c] \in Nat /\ t.free[c] \in Nat
    BY <1>3, <1>5 DEF Ledgers
  <2>2. t.free[c] >= ledger.free[c]
    BY <1>1, <1>5, <2>1
  <2>3. ledger'.free[c] >= t.free[c]
    BY <1>6, <1>7, <2>1
  <2>4. ledger'.free[c] \in Nat
    BY <1>7 DEF Ledgers
  <2> QED BY <2>1, <2>2, <2>3, <2>4
<1> QED BY <1>2, <1>6, <1>7, <1>8, PayFromBudget

\* register locks the whole reward; its owner stays alive.
LEMMA RewardLocked ==
    ASSUME BudgetInv, NEW j \in Jobs, NEW n \in Nat, CanTransfer(ledger, j[1], Pallet, n),
           budgets' = [budgets EXCEPT ![j] = @ + n], ledger' = Transfer(ledger, j[1], Pallet, n)
    PROVE  BudgetInv'
<1>1. /\ budgets \in [Jobs -> Nat] /\ ledger \in Ledgers
      /\ j[1] \in Accounts /\ j[1] # Pallet /\ Pallet \in Accounts /\ ExistentialDeposit \in Nat
  BY JobOwner, ExistentialDepositAssumption DEF BudgetInv
<1>2. ledger.free[j[1]] \in Nat /\ ledger.free[Pallet] \in Nat
  BY <1>1 DEF Ledgers
<1>3. n = 0 \/ ledger.free[j[1]] >= n + ExistentialDeposit
  BY DEF CanTransfer, CanWithdraw
<1>4. ledger.free[j[1]] - n \in Nat
  BY <1>1, <1>2, <1>3
<1>5. /\ ledger' \in Ledgers
      /\ ledger'.free[j[1]] = ledger.free[j[1]] - n
      /\ ledger'.free[Pallet] = ledger.free[Pallet] + n
      /\ \A c \in Accounts : c # j[1] /\ c # Pallet => ledger'.free[c] = ledger.free[c]
  BY <1>1, <1>4, TransferMoves DEF Ledgers
<1>6. budgets[j] + n \in Nat /\ budgets' = [budgets EXCEPT ![j] = budgets[j] + n]
  BY <1>1
<1>7. ledger'.free[Pallet] = ledger.free[Pallet] - budgets[j] + (budgets[j] + n)
  <2>1. budgets[j] \in Nat
    BY <1>1
  <2> QED BY <1>2, <1>5, <2>1
<1>8. ASSUME NEW i \in Jobs, budgets'[i] > 0 PROVE ledger'.free[i[1]] >= ExistentialDeposit
  <2>1. i[1] \in Accounts /\ i[1] # Pallet
    BY JobOwner
  <2>2. CASE n # 0 /\ i[1] = j[1]
    BY <1>1, <1>2, <1>3, <1>5, <2>2
  <2>3. CASE n = 0
    <3>1. budgets[i] > 0
      BY <1>1, <1>6, <1>8, <2>3
    <3>2. ledger.free[i[1]] >= ExistentialDeposit
      BY <3>1 DEF BudgetInv
    <3>3. ledger'.free[i[1]] = ledger.free[i[1]]
      BY <1>2, <1>5, <2>1, <2>3
    <3> QED BY <3>2, <3>3
  <2>4. CASE i[1] # j[1]
    <3>1. budgets[i] > 0
      BY <1>1, <1>6, <1>8, <2>4
    <3>2. ledger.free[i[1]] >= ExistentialDeposit
      BY <3>1 DEF BudgetInv
    <3> QED BY <1>5, <2>1, <2>4, <3>2
  <2> QED BY <2>2, <2>3, <2>4
<1> QED BY <1>5, <1>6, <1>7, <1>8, BudgetStep

\* What deregister pays to the processors is a natural number.
LEMMA CompensationType ==
    ASSUME AssignInv, NEW j
    PROVE  Compensation(j) \in Nat
<1> DEFINE paid == {p \in AssignedTo(j) : Compensated(j, p)}
           f == [p \in paid |-> matches[<<p, j>>].fee_per_execution]
<1>1. IsFiniteSet(paid)
  BY AssignedFinite, FS_Subset
<1>2. \A p \in paid : f[p] \in Nat
  BY DEF Compensated, AssignInv, Assignments
<1>3. SumOver(f, paid) \in Nat
  <2> HIDE DEF paid, f
  <2> QED BY <1>1, <1>2, SumNat
<1>4. Compensation(j) = 0 \/ Compensation(j) = SumOver(f, paid)
  BY DEF Compensation
<1> QED BY <1>3, <1>4

\* deregister pays the processors and gives the rest back.
LEMMA BudgetReturned ==
    ASSUME BudgetInv, NEW j \in Jobs, NEW n \in Nat, budgets[j] >= n,
           budgets' = [budgets EXCEPT ![j] = 0],
           ledger' = Transfer(Withdraw(ledger, Pallet, n), Pallet, j[1], budgets[j] - n)
    PROVE  BudgetInv'
<1> DEFINE w == Withdraw(ledger, Pallet, n)
           r == budgets[j] - n
<1>1. /\ budgets \in [Jobs -> Nat] /\ ledger \in Ledgers
      /\ j[1] \in Accounts /\ j[1] # Pallet /\ Pallet \in Accounts /\ ExistentialDeposit \in Nat
  BY JobOwner, ExistentialDepositAssumption DEF BudgetInv
<1>2. ledger.free[Pallet] \in Nat /\ budgets[j] \in Nat /\ r \in Nat
  BY <1>1 DEF Ledgers
<1>3. ledger.free[Pallet] >= n /\ ledger.free[Pallet] >= budgets[j]
  BY <1>1, <1>2, BudgetCovered
<1>4. /\ w \in Ledgers
      /\ \A c \in Accounts : w.free[c] = ledger.free[c] - (IF c = Pallet THEN n ELSE 0)
  BY <1>1, <1>3, WithdrawMoves
<1> HIDE DEF w
<1>5. w.free[Pallet] - r = ledger.free[Pallet] - budgets[j] /\ w.free[Pallet] - r \in Nat
  BY <1>1, <1>2, <1>3, <1>4
<1>6. ledger' = Transfer(w, Pallet, j[1], r)
  BY DEF w
<1> HIDE DEF r
<1>7. /\ ledger' \in Ledgers
      /\ ledger'.free[Pallet] = w.free[Pallet] - r
      /\ ledger'.free[j[1]] = w.free[j[1]] + r
      /\ \A c \in Accounts : c # j[1] /\ c # Pallet => ledger'.free[c] = w.free[c]
  BY <1>1, <1>2, <1>4, <1>5, <1>6, TransferMoves DEF Ledgers
<1>8. ledger'.free[Pallet] = ledger.free[Pallet] - budgets[j] + 0
  BY <1>2, <1>5, <1>7
<1>9. ASSUME NEW i \in Jobs, budgets'[i] > 0 PROVE ledger'.free[i[1]] >= ExistentialDeposit
  <2>1. i[1] \in Accounts /\ i[1] # Pallet
    BY JobOwner
  <2>2. budgets[i] > 0
    BY <1>1, <1>9
  <2>3. ledger.free[i[1]] >= ExistentialDeposit
    BY <2>2 DEF BudgetInv
  <2>4. ledger.free[i[1]] \in Nat /\ w.free[i[1]] = ledger.free[i[1]]
    BY <1>1, <1>4, <2>1 DEF Ledgers
  <2>5. ledger'.free[i[1]] = w.free[i[1]] \/ ledger'.free[i[1]] = w.free[i[1]] + r
    BY <1>7, <2>1
  <2> QED BY <1>1, <1>2, <2>3, <2>4, <2>5
<1> QED BY <1>7, <1>8, <1>9, BudgetStep

-----------------------------------------------------------------------------
(***************************************************************************)
(* Tables and budgets, action by action.                                   *)
(***************************************************************************)
\* The budgets are left alone.
LEMMA BudgetsUnchanged == BudgetInv /\ UNCHANGED <<budgets, ledger>> => BudgetInv'
BY DEF BudgetInv, PalletBacksBudgets

\* An assignment a match makes.
LEMMA NewAssignmentType ==
    ASSUME NEW e \in Executions, NEW d \in Nat, NEW f \in Nat, NEW t \in Nat, NEW m \in Nat
    PROVE  NewAssignment(e, d, f, t, m) \in Assignments
BY DEF NewAssignment, Assignments

\* The delays and prices of a match.
LEMMA PlanTypes ==
    ASSUME NEW plan \in Plans, NEW fees \in [DOMAIN plan -> Fees], NEW p \in DOMAIN plan
    PROVE  plan[p] \in Nat /\ fees[p] \in Nat
<1>1. PICK S \in SUBSET Processors : plan \in [S -> StartDelays]
  BY DEF Plans
<1>2. plan[p] \in StartDelays /\ fees[p] \in Fees
  BY <1>1
<1>3. StartDelays \subseteq Nat /\ Fees \subseteq Nat
  BY MarketAssumption
<1> QED BY <1>2, <1>3

\* StoreMatch: the new assignments, and the others as they were.
LEMMA StoreMatchTypes ==
    ASSUME AssignInv, NEW j \in Jobs, NEW r, RegisteredWell(r), NEW plan \in Plans,
           NEW fees \in [DOMAIN plan -> Fees], StoreMatch(j, r, plan, fees)
    PROVE  \A k \in DOMAIN matches' : matches'[k] \in Assignments
<1> SUFFICES ASSUME NEW k \in DOMAIN matches' PROVE matches'[k] \in Assignments
  OBVIOUS
<1>1. k \in DOMAIN matches \cup KeysOf(j, DOMAIN plan)
  BY DEF StoreMatch
<1>2. CASE k \in KeysOf(j, DOMAIN plan)
  <2>1. k[1] \in DOMAIN plan
    BY <1>2 DEF KeysOf
  <2>2. plan[k[1]] \in Nat /\ fees[k[1]] \in Nat /\ execution_count(r.schedule) \in Nat
        /\ All \in Executions /\ 0 \in Nat
    BY <2>1, PlanTypes, CountType DEF Executions, RegisteredWell
  <2>3. matches'[k] = NewAssignment(All, plan[k[1]], fees[k[1]], execution_count(r.schedule), 0)
    BY <1>2 DEF StoreMatch
  <2> QED BY <2>2, <2>3, NewAssignmentType
<1>3. CASE k \notin KeysOf(j, DOMAIN plan)
  BY <1>1, <1>3 DEF StoreMatch, AssignInv
<1> QED BY <1>2, <1>3

\* register
LEMMA RegisterTables ==
    ASSUME TablesInv, NEW j \in Jobs, NEW r \in Registrations, NEW fees \in InstantFees(r),
           register_for(j, r, fees), last_job_id' \in Nat
    PROVE  JobsInv' /\ AssignInv' /\ BudgetInv'
<1>1. RegisteredWell(r) /\ r.instant_match \in Plans \cup {None}
  BY RegistrableWell DEF register_for
<1>2. JobsInv'
  <2>1. /\ jobs' = [x \in DOMAIN jobs \cup {j} |-> IF x = j THEN r ELSE jobs[x]]
        /\ DOMAIN job_status' = DOMAIN jobs \cup {j}
        /\ \A x \in DOMAIN jobs : x # j => job_status'[x] = job_status[x]
        /\ job_status'[j] \in {Open, Matched}
        /\ UNCHANGED <<now, exec_status>>
    BY DEF register_for
  <2>2. Open \in Statuses /\ Matched \in Statuses
    BY DEF Open, Matched, Statuses
  <2> QED BY <1>1, <2>1, <2>2 DEF TablesInv, JobsInv
<1>3. AssignInv'
  <2>1. UNCHANGED <<next_report, job_matcher, rewarded>>
    BY DEF register_for
  <2>2. \A k \in DOMAIN matches' : matches'[k] \in Assignments
    <3>1. CASE r.strategy = "Single" /\ r.instant_match # None
      <4>1. r.instant_match \in Plans /\ fees \in [DOMAIN r.instant_match -> Fees]
            /\ StoreMatch(j, r, r.instant_match, fees)
        BY <1>1, <3>1 DEF register_for, InstantFees
      <4> QED BY <1>1, <4>1, StoreMatchTypes DEF TablesInv
    <3>2. CASE ~(r.strategy = "Single" /\ r.instant_match # None)
      BY <3>2 DEF register_for, TablesInv, AssignInv
    <3> QED BY <3>1, <3>2
  <2> QED BY <2>1, <2>2 DEF TablesInv, AssignInv
<1>4. BudgetInv'
  <2>1. total_reward_amount(r) \in Nat
    BY <1>1, RewardType
  <2> QED BY <2>1, RewardLocked DEF register_for, TablesInv
<1> QED BY <1>2, <1>3, <1>4

\* propose_matching
LEMMA ProposeMatchingTables ==
    ASSUME TablesInv, NEW m \in Matchers, NEW j \in DOMAIN jobs, NEW plan \in Plans,
           NEW fees \in [DOMAIN plan -> Fees], ProposeMatching(m, j, plan, fees)
    PROVE  JobsInv' /\ AssignInv' /\ BudgetInv'
<1>1. /\ UNCHANGED <<now, last_job_id, jobs, exec_status, next_report, rewarded, budgets, ledger>>
      /\ job_status' = [job_status EXCEPT ![j] = Matched]
      /\ job_matcher' = [job_matcher EXCEPT ![j] = m]
      /\ StoreMatch(j, jobs[j], plan, fees)
  BY DEF ProposeMatching, money
<1>2. DOMAIN job_status = DOMAIN jobs /\ Matched \in Statuses /\ j \in Jobs /\ RegisteredWell(jobs[j])
  BY DEF TablesInv, MatchInv, MatchesTyped, JobsInv, Matched, Statuses
<1>3. JobsInv'
  BY <1>1, <1>2 DEF TablesInv, JobsInv
<1>4. \A k \in DOMAIN matches' : matches'[k] \in Assignments
  BY <1>1, <1>2, StoreMatchTypes DEF TablesInv
<1>5. AssignInv'
  BY <1>1, <1>4 DEF TablesInv, AssignInv
<1> QED BY <1>1, <1>3, <1>5, BudgetsUnchanged DEF TablesInv

\* An execution that has a start time is one of the job's.
LEMMA ExecutionIndex ==
    ASSUME NEW r, RegisteredWell(r), NEW i \in Nat, NEW d, nth_start_time(r.schedule, d, i) # None
    PROVE  i \in Indices /\ i < execution_count(r.schedule)
<1>1. execution_count(r.schedule) \in 1 .. MAX_EXECUTIONS_PER_JOB /\ ~(i >= execution_count(r.schedule))
  BY DEF nth_start_time, RegisteredWell
<1>2. MAX_EXECUTIONS_PER_JOB \in Nat
  BY MarketAssumption
<1> QED BY <1>1, <1>2 DEF Indices

\* propose_execution_matching
LEMMA ProposeExecutionMatchingTables ==
    ASSUME TablesInv, NEW m \in Matchers, NEW j \in DOMAIN jobs, NEW i \in Nat, NEW plan \in Plans,
           NEW fees \in [DOMAIN plan -> Fees], ProposeExecutionMatching(m, j, i, plan, fees)
    PROVE  JobsInv' /\ AssignInv' /\ BudgetInv' /\ i \in Indices
<1>1. /\ UNCHANGED <<now, last_job_id, jobs, next_report, rewarded, budgets, ledger>>
      /\ job_status' = [job_status EXCEPT ![j] = Matched]
      /\ job_matcher' = [job_matcher EXCEPT ![j] = m]
      /\ exec_status' = [exec_status EXCEPT ![j] = [x \in Indices |->
              IF x = i THEN Matched ELSE IF x = i - 2 THEN Open ELSE @[x]]]
  BY DEF ProposeExecutionMatching, money
<1>2. /\ DOMAIN job_status = DOMAIN jobs /\ Matched \in Statuses /\ Open \in Statuses
      /\ j \in Jobs /\ RegisteredWell(jobs[j])
  BY DEF TablesInv, MatchInv, MatchesTyped, JobsInv, Matched, Open, Statuses
<1>3. nth_start_time(jobs[j].schedule, 0, i) # None
  BY DEF ProposeExecutionMatching, CanMatchExecution
<1>4. i \in Indices
  BY <1>2, <1>3, ExecutionIndex
<1>5. JobsInv'
  <2>1. exec_status' \in [Jobs -> [Indices -> Statuses]]
    BY <1>1, <1>2 DEF TablesInv, JobsInv
  <2> QED BY <1>1, <1>2, <2>1 DEF TablesInv, JobsInv
<1>6. ASSUME NEW k \in DOMAIN matches' PROVE matches'[k] \in Assignments
  <2> DEFINE kept == KeptMatches(j, i)
             new == KeysOf(j, DOMAIN plan)
  <2>1. /\ k \in DOMAIN kept \cup new
        /\ matches'[k] = IF k \notin new THEN kept[k]
              ELSE IF k \in DOMAIN kept
                   THEN NewAssignment(i, plan[k[1]], fees[k[1]], kept[k].total + 1, kept[k].met)
                   ELSE NewAssignment(i, plan[k[1]], fees[k[1]], 1, 0)
    BY <1>6 DEF ProposeExecutionMatching
  <2>2. \A x \in DOMAIN kept : kept[x] \in Assignments
    BY DEF KeptMatches, TablesInv, AssignInv
  <2>3. CASE k \notin new
    BY <2>1, <2>2, <2>3
  <2>4. CASE k \in new
    <3>1. k[1] \in DOMAIN plan
      BY <2>4 DEF KeysOf
    <3>2. plan[k[1]] \in Nat /\ fees[k[1]] \in Nat /\ i \in Executions
      BY <1>4, <3>1, PlanTypes DEF Executions
    <3>3. k \in DOMAIN kept => kept[k].total + 1 \in Nat /\ kept[k].met \in Nat
      BY <2>2 DEF Assignments
    <3> HIDE DEF kept, new
    <3>4. CASE k \in DOMAIN kept
      <4>1. NewAssignment(i, plan[k[1]], fees[k[1]], kept[k].total + 1, kept[k].met) \in Assignments
        BY <3>2, <3>3, <3>4, NewAssignmentType
      <4> QED BY <2>1, <2>4, <3>4, <4>1
    <3>5. CASE k \notin DOMAIN kept
      <4>1. NewAssignment(i, plan[k[1]], fees[k[1]], 1, 0) \in Assignments
        BY <3>2, NewAssignmentType
      <4> QED BY <2>1, <2>4, <3>5, <4>1
    <3> QED BY <3>4, <3>5
  <2> QED BY <2>3, <2>4
<1>7. AssignInv'
  BY <1>1, <1>6 DEF TablesInv, AssignInv
<1> QED BY <1>1, <1>4, <1>5, <1>7, BudgetsUnchanged DEF TablesInv

\* Indices of executions are natural numbers.
LEMMA IndexType == Indices \subseteq Nat /\ All \notin Indices /\ None \notin Indices /\ None \notin Nat
BY MarketAssumption, TimeAssumption DEF Indices

\* acknowledge_match
LEMMA AcknowledgeMatchTables ==
    ASSUME TablesInv, NEW p \in Processors, NEW j \in Jobs, NEW e \in Executions,
           AcknowledgeMatch(p, j, e)
    PROVE  JobsInv' /\ AssignInv' /\ BudgetInv'
<1> DEFINE a == matches[<<p, j>>]
           status == IF e = All THEN StatusOf(j) ELSE exec_status[j][e]
           next == NextReportOnAcknowledge(j, p, a)
<1>1. /\ j \in DOMAIN jobs /\ <<p, j>> \in DOMAIN matches
      /\ matches' = [matches EXCEPT ![<<p, j>>].acknowledged = TRUE]
      /\ job_status' = [job_status EXCEPT ![j] = Assigned(status.count + 1)]
      /\ exec_status' = IF e = All THEN exec_status
                        ELSE [exec_status EXCEPT ![j][e] = Assigned(status.count + 1)]
      /\ next_report' = [next_report EXCEPT ![j][p] = next]
      /\ UNCHANGED <<now, last_job_id, jobs, job_matcher, rewarded>>
  BY DEF AcknowledgeMatch
<1>2. a \in Assignments /\ DOMAIN job_status = DOMAIN jobs
  BY <1>1 DEF TablesInv, AssignInv, MatchInv, MatchesTyped
<1>3. status \in Statuses
  BY <1>1, <1>2 DEF StatusOf, TablesInv, JobsInv, Executions
<1>4. Assigned(status.count + 1) \in Statuses
  <2> HIDE DEF status
  <2> QED BY <1>3 DEF Assigned, Statuses
<1>5. JobsInv'
  <2> HIDE DEF status
  <2>1. exec_status' \in [Jobs -> [Indices -> Statuses]]
    BY <1>1, <1>4 DEF TablesInv, JobsInv
  <2> QED BY <1>1, <1>2, <1>4, <2>1 DEF TablesInv, JobsInv
<1>6. next \in Nat \cup {None}
  <2>1. next_report[j][p] \in Nat \cup {None}
    BY DEF TablesInv, AssignInv
  <2>2. a.execution \in {All} \cup Nat
    BY <1>2, IndexType DEF Assignments, Executions
  <2>3. next \in {0, next_report[j][p], a.execution} /\ (a.execution = All => next = 0)
    BY DEF NextReportOnAcknowledge
  <2> HIDE DEF next, a
  <2> QED BY <2>1, <2>2, <2>3
<1>7. AssignInv'
  <2> HIDE DEF next
  <2>1. \A k \in DOMAIN matches' : matches'[k] \in Assignments
    <3>1. [a EXCEPT !.acknowledged = TRUE] \in Assignments
      BY <1>2 DEF Assignments
    <3>2. matches' = [matches EXCEPT ![<<p, j>>] = [a EXCEPT !.acknowledged = TRUE]]
      BY <1>1
    <3> HIDE DEF a
    <3> QED BY <3>1, <3>2 DEF TablesInv, AssignInv
  <2> QED BY <1>1, <1>6, <2>1 DEF TablesInv, AssignInv
<1>8. BudgetInv'
  <2>1. CASE job_matcher[j] = None
    BY <2>1, BudgetsUnchanged DEF AcknowledgeMatch, TablesInv
  <2>2. CASE job_matcher[j] # None
    <3>1. /\ CanPayMatcher(j, job_matcher[j], MatcherShare(j, a))
          /\ PayMatcher(j, job_matcher[j], MatcherShare(j, a))
      BY <2>2 DEF AcknowledgeMatch
    <3>2. job_matcher[j] \in Matchers
      BY <2>2 DEF TablesInv, AssignInv
    <3>3. MatcherShare(j, a) \in Nat
      BY <1>1, <1>2, MatcherShareType DEF TablesInv
    <3>4. budgets[j] >= MatcherShare(j, a)
      BY <3>1 DEF CanPayMatcher
    <3> QED BY <3>1, <3>2, <3>3, <3>4, MatcherPaid DEF TablesInv
  <2> QED BY <2>1, <2>2
<1> QED BY <1>5, <1>7, <1>8

\* The executions that have started by now.
LEMMA CurrentIndexType ==
    ASSUME NEW r, RegisteredWell(r), NEW d \in Nat, NEW t \in Nat
    PROVE  current_execution_index(r.schedule, d, t) = None
             \/ current_execution_index(r.schedule, d, t) \in 0 .. execution_count(r.schedule) - 1
<1> DEFINE s == r.schedule
           start == actual_start(s, d)
           n == execution_count(s)
<1>1. s.start_time \in Nat /\ s.interval \in Nat /\ s.interval > 0 /\ MaxTime \in Nat
      /\ n \in Nat /\ n >= 1
  BY TimeAssumption, CountType DEF RegisteredWell, Schedules, Times
<1>2. start \in Nat
  BY <1>1 DEF actual_start, Saturate
<1> HIDE DEF n, start
<1>3. CASE ~(t < start)
  <2>1. t - start \in Nat
    BY <1>2, <1>3
  <2>2. (t - start) \div s.interval \in Nat
    BY <1>1, <2>1
  <2>3. current_execution_index(s, d, t) = Lesser((t - start) \div s.interval, n - 1)
    BY <1>3 DEF current_execution_index, start, n
  <2>4. Lesser((t - start) \div s.interval, n - 1) \in 0 .. n - 1
    BY <1>1, <2>2 DEF Lesser
  <2> QED BY <2>3, <2>4 DEF n
<1>4. CASE t < start
  BY <1>4 DEF current_execution_index, start
<1> QED BY <1>3, <1>4

\* A report for execution index, after which execution next is expected.
ReportFor(p, j, index, next) ==
    LET a == matches[<<p, j>>]
        n == execution_count(jobs[j].schedule)
    IN  /\ a \in Assignments /\ <<p, j>> \in DOMAIN matches /\ j \in DOMAIN jobs
        /\ a.acknowledged /\ a.met < a.total /\ CanHandleReward(j, a.fee_per_execution)
        /\ next_report[j][p] # None => index >= next_report[j][p]
        /\ next_report[j][p] # None /\ next_report[j][p] < n => index < n
        /\ a.execution = All => next = IF index + 1 < a.total THEN index + 1 ELSE None
        /\ next_report' = [next_report EXCEPT ![j][p] = next]
        /\ rewarded' = [rewarded EXCEPT ![j][p][index] = @ + 1]
        /\ budgets' = [budgets EXCEPT ![j] = @ - a.fee_per_execution]
        /\ ledger' = Withdraw(ledger, Pallet, a.fee_per_execution)
        /\ IF next = None
           THEN matches' = [k \in DOMAIN matches \ {<<p, j>>} |-> matches[k]]
           ELSE matches' = [matches EXCEPT ![<<p, j>>].met = @ + 1]
        /\ UNCHANGED <<now, registry, job_matcher, providers>>

\* A report is for the expected execution or for the current one, and not
\* for an earlier one than expected.
LEMMA ReportIsFor ==
    ASSUME TablesInv, NEW p \in Processors, NEW j \in Jobs, Report(p, j)
    PROVE  \E index \in Nat, next \in Nat \cup {None} : ReportFor(p, j, index, next)
<1> DEFINE a == matches[<<p, j>>]
           s == jobs[j].schedule
           n == execution_count(s)
           started == current_execution_index(s, a.start_delay, now)
           current == IF started = None THEN 0 ELSE started
           expected == IF next_report[j][p] = None THEN current ELSE next_report[j][p]
           index == ReportedIndex(s, a, expected, current)
           next == IF a.execution = All
                   THEN IF index + 1 < a.total THEN index + 1 ELSE None
                   ELSE IF index # a.execution THEN a.execution ELSE None
<1>1. /\ <<p, j>> \in DOMAIN matches /\ j \in DOMAIN jobs /\ a.acknowledged /\ a.met < a.total
      /\ NotYetReported(current, expected) /\ CanHandleReward(j, a.fee_per_execution)
      /\ next_report' = [next_report EXCEPT ![j][p] = next]
      /\ rewarded' = [rewarded EXCEPT ![j][p][index] = @ + 1]
      /\ budgets' = [budgets EXCEPT ![j] = @ - a.fee_per_execution]
      /\ ledger' = Withdraw(ledger, Pallet, a.fee_per_execution)
      /\ IF next = None
         THEN matches' = [k \in DOMAIN matches \ {<<p, j>>} |-> matches[k]]
         ELSE matches' = [matches EXCEPT ![<<p, j>>].met = @ + 1]
      /\ UNCHANGED <<now, registry, job_matcher, providers>>
  BY DEF Report
<1>2. a \in Assignments /\ RegisteredWell(jobs[j]) /\ now \in Nat
      /\ next_report[j][p] \in Nat \cup {None}
  BY <1>1 DEF TablesInv, AssignInv, JobsInv
<1>3. a.start_delay \in Nat /\ a.total \in Nat /\ a.execution \in {All} \cup Indices
  BY <1>2 DEF Assignments, Executions
<1>4. current \in Nat /\ current < n /\ n \in Nat
  <2>1. n \in Nat /\ n >= 1
    BY <1>2, CountType DEF RegisteredWell
  <2>2. started = None \/ started \in 0 .. n - 1
    BY <1>2, <1>3, CurrentIndexType
  <2> HIDE DEF started, n
  <2> QED BY <2>1, <2>2
<1> HIDE DEF current, n
<1>5. expected \in Nat /\ (next_report[j][p] # None => expected = next_report[j][p])
  BY <1>2, <1>4
<1>6. current >= expected
  BY <1>1 DEF NotYetReported
<1> HIDE DEF expected
<1>7. index \in {expected, current}
  BY DEF ReportedIndex
<1> HIDE DEF index
<1>8. /\ index \in Nat
      /\ next_report[j][p] # None => index >= next_report[j][p]
      /\ next_report[j][p] # None /\ next_report[j][p] < n => index < n
  BY <1>4, <1>5, <1>6, <1>7
<1>9. next \in Nat \cup {None}
  <2>1. CASE a.execution = All
    BY <1>8, <2>1
  <2>2. CASE a.execution # All
    <3>1. a.execution \in Nat
      BY <1>3, <2>2, IndexType
    <3> QED BY <2>2, <3>1
  <2> QED BY <2>1, <2>2
<1>10. a.execution = All => next = IF index + 1 < a.total THEN index + 1 ELSE None
  OBVIOUS
<1> HIDE DEF next
<1>11. n = execution_count(jobs[j].schedule)
  BY DEF n
<1>12. ReportFor(p, j, index, next)
  BY <1>1, <1>2, <1>8, <1>10, <1>11 DEF ReportFor
<1> QED BY <1>8, <1>9, <1>12

\* report
LEMMA ReportTables ==
    ASSUME TablesInv, NEW p \in Processors, NEW j \in Jobs, Report(p, j)
    PROVE  JobsInv' /\ AssignInv' /\ BudgetInv'
<1> DEFINE a == matches[<<p, j>>]
<1>1. PICK index \in Nat, next \in Nat \cup {None} : ReportFor(p, j, index, next)
  BY ReportIsFor
<1>2. JobsInv'
  BY <1>1 DEF ReportFor, TablesInv, JobsInv, registry
<1>3. AssignInv'
  <2>1. \A k \in DOMAIN matches' : matches'[k] \in Assignments
    <3>1. [a EXCEPT !.met = @ + 1] \in Assignments
      BY <1>1 DEF ReportFor, Assignments
    <3>2. \/ matches' = [k \in DOMAIN matches \ {<<p, j>>} |-> matches[k]]
          \/ matches' = [matches EXCEPT ![<<p, j>>] = [a EXCEPT !.met = @ + 1]]
      BY <1>1 DEF ReportFor
    <3> HIDE DEF a
    <3> QED BY <3>1, <3>2 DEF TablesInv, AssignInv
  <2>2. next_report' \in [Jobs -> [Processors -> Nat \cup {None}]]
    BY <1>1 DEF ReportFor, TablesInv, AssignInv
  <2>3. rewarded' \in [Jobs -> [Processors -> [Indices -> Nat]]]
    <3>1. rewarded \in [Jobs -> [Processors -> [Indices -> Nat]]]
      BY DEF TablesInv, AssignInv
    <3>2. [rewarded[j][p] EXCEPT ![index] = @ + 1] \in [Indices -> Nat]
      <4>1. rewarded[j][p] \in [Indices -> Nat]
        BY <3>1
      <4>2. CASE index \in Indices
        BY <4>1, <4>2
      <4>3. CASE index \notin Indices
        BY <4>1, <4>3
      <4> QED BY <4>2, <4>3
    <3>3. rewarded' = [rewarded EXCEPT ![j] = [rewarded[j] EXCEPT ![p] =
                          [rewarded[j][p] EXCEPT ![index] = @ + 1]]]
      BY <1>1, <3>1 DEF ReportFor
    <3> QED BY <3>1, <3>2, <3>3
  <2> QED BY <1>1, <2>1, <2>2, <2>3 DEF ReportFor, TablesInv, AssignInv
<1>4. BudgetInv'
  <2>1. a.fee_per_execution \in Nat /\ budgets[j] >= a.fee_per_execution
    BY <1>1 DEF ReportFor, Assignments, CanHandleReward
  <2> QED BY <1>1, <2>1, RewardPaid DEF ReportFor, TablesInv
<1> QED BY <1>2, <1>3, <1>4

\* What clear_prefix leaves of a map.
LEMMA ClearedType ==
    ASSUME NEW S, NEW V, NEW f \in [S -> V], NEW default \in V, NEW limit,
           NEW left \in Cleared(f, default, limit)
    PROVE  left \in [S -> V]
BY DEF Cleared

\* deregister
LEMMA DeregisterTables ==
    ASSUME TablesInv, NEW j \in Jobs, Deregister(j)
    PROVE  JobsInv' /\ AssignInv' /\ BudgetInv'
<1> DEFINE final == job_status[j].state = "Assigned"
<1>1. /\ j \in DOMAIN jobs
      /\ jobs' = [x \in DOMAIN jobs \ {j} |-> jobs[x]]
      /\ job_status' = [x \in DOMAIN jobs \ {j} |-> job_status[x]]
      /\ \E limit : \E left \in Cleared(exec_status[j], Open, limit) :
            exec_status' = [exec_status EXCEPT ![j] = left]
      /\ matches' = [k \in DOMAIN matches \ KeysOf(j, Drained(j)) |-> matches[k]]
      /\ \E left \in Cleared(next_report[j], None, MaxSlots) \cup {next_report[j]} :
            next_report' = [next_report EXCEPT ![j] = left]
      /\ job_matcher' = [job_matcher EXCEPT ![j] = None] \/ job_matcher' = job_matcher
      /\ rewarded' = [rewarded EXCEPT ![j] = [p \in Processors |-> [i \in Indices |-> 0]]]
      /\ UNCHANGED <<now, last_job_id>>
  BY DEF Deregister
<1>2. JobsInv'
  <2>1. Open \in Statuses /\ exec_status[j] \in [Indices -> Statuses]
    BY DEF Open, Statuses, TablesInv, JobsInv
  <2>2. PICK left \in [Indices -> Statuses] : exec_status' = [exec_status EXCEPT ![j] = left]
    BY <1>1, <2>1, ClearedType
  <2> QED BY <1>1, <2>2 DEF TablesInv, JobsInv
<1>3. AssignInv'
  <2>1. next_report[j] \in [Processors -> Nat \cup {None}] /\ None \in Nat \cup {None}
    BY DEF TablesInv, AssignInv
  <2>2. PICK left \in [Processors -> Nat \cup {None}] : next_report' = [next_report EXCEPT ![j] = left]
    BY <1>1, <2>1, ClearedType
  <2>3. \A k \in DOMAIN matches' : matches'[k] \in Assignments
    BY <1>1 DEF TablesInv, AssignInv
  <2> QED BY <1>1, <2>2, <2>3 DEF TablesInv, AssignInv
<1>4. BudgetInv'
  <2>1. Compensation(j) \in Nat
    BY CompensationType DEF TablesInv
  <2>2. budgets[j] >= Compensation(j)
    BY DEF Deregister, CanDeregister, CanHandleReward
  <2>3. /\ budgets' = [budgets EXCEPT ![j] = 0]
        /\ ledger' = Transfer(Withdraw(ledger, Pallet, Compensation(j)), Pallet, j[1],
                              budgets[j] - Compensation(j))
    BY DEF Deregister, Refund
  <2> QED BY <2>1, <2>2, <2>3, BudgetReturned DEF TablesInv
<1> QED BY <1>2, <1>3, <1>4

\* update_allowed_sources changes no term of a job that money depends on.
LEMMA UpdateAllowedSourcesTerms ==
    ASSUME TablesInv, NEW j \in Jobs, NEW sources, UpdateAllowedSources(j, sources)
    PROVE  /\ DOMAIN jobs' = DOMAIN jobs
           /\ \A x \in DOMAIN jobs : /\ jobs'[x].schedule = jobs[x].schedule
                                     /\ jobs'[x].reward = jobs[x].reward
                                     /\ jobs'[x].slots = jobs[x].slots
<1> DEFINE new == IF sources = {} THEN None ELSE sources
<1>1. jobs' = [jobs EXCEPT ![j] = [jobs[j] EXCEPT !.allowed_sources = new]] /\ j \in DOMAIN jobs
  BY DEF UpdateAllowedSources
<1> HIDE DEF new
<1>2. /\ [jobs[j] EXCEPT !.allowed_sources = new].schedule = jobs[j].schedule
      /\ [jobs[j] EXCEPT !.allowed_sources = new].reward = jobs[j].reward
      /\ [jobs[j] EXCEPT !.allowed_sources = new].slots = jobs[j].slots
  OBVIOUS
<1> QED BY <1>1, <1>2

\* Steps that touch neither money nor reports.
LEMMA OtherTables ==
    ASSUME TablesInv,
           \/ \E j \in Jobs, s \in SourceLists : UpdateAllowedSources(j, s)
           \/ \E j \in Jobs : CleanupJobMatcher(j)
           \/ \E keys : Unassign(keys)
           \/ \E p, c : Advertise(p, c)
           \/ \E p : DeleteAdvertisement(p) \/ Attest(p) \/ RevokeAttestation(p)
           \/ Tick
           \/ UNCHANGED marketVars
    PROVE  JobsInv' /\ AssignInv' /\ BudgetInv'
<1>1. UNCHANGED <<budgets, ledger, next_report, rewarded, exec_status, job_status, last_job_id>>
  BY DEF UpdateAllowedSources, CleanupJobMatcher, Unassign, Advertise, DeleteAdvertisement, Attest,
         RevokeAttestation, Tick, marketVars, registry, assignments, providers, money
<1>2. now' \in Nat
  <2>1. now' = now \/ now' = now + 1
    BY DEF UpdateAllowedSources, CleanupJobMatcher, Unassign, Advertise, DeleteAdvertisement, Attest,
           RevokeAttestation, Tick, marketVars
  <2> QED BY <2>1 DEF TablesInv, JobsInv
<1>3. DOMAIN jobs' = DOMAIN jobs /\ \A j \in DOMAIN jobs : RegisteredWell(jobs'[j])
  <2>1. CASE \E j \in Jobs, s \in SourceLists : UpdateAllowedSources(j, s)
    BY <2>1, UpdateAllowedSourcesTerms DEF RegisteredWell, TablesInv, JobsInv
  <2>2. CASE UNCHANGED jobs
    BY <2>2 DEF TablesInv, JobsInv
  <2> QED BY <2>1, <2>2
          DEF CleanupJobMatcher, Unassign, Advertise, DeleteAdvertisement, Attest,
              RevokeAttestation, Tick, marketVars, registry
<1>4. \A k \in DOMAIN matches' : matches'[k] \in Assignments
  <2>1. CASE \E keys : Unassign(keys)
    BY <2>1 DEF Unassign, TablesInv, AssignInv
  <2>2. CASE UNCHANGED matches
    BY <2>2 DEF TablesInv, AssignInv
  <2> QED BY <2>1, <2>2
          DEF UpdateAllowedSources, CleanupJobMatcher, Advertise, DeleteAdvertisement, Attest,
              RevokeAttestation, Tick, marketVars, assignments
<1>5. job_matcher' \in [Jobs -> Matchers \cup {None}]
  BY DEF UpdateAllowedSources, CleanupJobMatcher, Unassign, Advertise, DeleteAdvertisement, Attest,
         RevokeAttestation, Tick, marketVars, assignments, TablesInv, AssignInv
<1>6. JobsInv'
  BY <1>1, <1>2, <1>3 DEF TablesInv, JobsInv
<1>7. AssignInv'
  BY <1>1, <1>4, <1>5 DEF TablesInv, AssignInv
<1> QED BY <1>1, <1>6, <1>7, BudgetsUnchanged DEF TablesInv

-----------------------------------------------------------------------------
\* The tables are empty and no job has a budget at first.
LEMMA InitTables == MarketInit => TablesInv
<1> SUFFICES ASSUME MarketInit PROVE TablesInv
  OBVIOUS
<1>1. JobsInv
  BY DEF MarketInit, JobsInv, Open, Statuses
<1>2. AssignInv
  BY DEF MarketInit, AssignInv
<1>3. BudgetInv
  <2>1. budgets = [j \in Jobs |-> 0] /\ ledger.free = InitialBalances /\ ledger \in Ledgers
    BY MarketAssumption DEF MarketInit, Ledgers
  <2>2. SumOver(budgets, Jobs) = 0
    <3>1. \A j \in Jobs : budgets[j] = 0
      BY <2>1
    <3> QED BY <3>1, JobsFinite, SumZero
  <2>3. InitialBalances[Pallet] \in Nat
    BY MarketAssumption
  <2> QED BY <2>1, <2>2, <2>3 DEF BudgetInv, PalletBacksBudgets
<1> QED BY <1>1, <1>2, <1>3, InitMatches DEF TablesInv

\* Every step of the market keeps tables and budgets.
LEMMA NextTables == TablesInv /\ [MarketNext]_marketVars => TablesInv'
<1> SUFFICES ASSUME TablesInv, [MarketNext]_marketVars PROVE JobsInv' /\ AssignInv' /\ BudgetInv'
  BY NextMatches DEF TablesInv
<1>1. CASE RegisterStep
  <2>1. PICK r \in Registrations : \E fees \in InstantFees(r) :
          \/ \E who \in Consumers : Register(who, r, fees)
          \/ \E n \in ProxySequence : RegisterFromProxy(n, r, fees)
    BY <1>1 DEF RegisterStep
  <2>2. \E fees \in InstantFees(r) : \E j \in Jobs : register_for(j, r, fees) /\ last_job_id' \in Nat
    <3>1. ASSUME NEW fees, NEW who \in Consumers, Register(who, r, fees)
          PROVE  \E j \in Jobs : register_for(j, r, fees) /\ last_job_id' \in Nat
      <4>1. last_job_id + 1 \in 1 .. MaxJobs /\ last_job_id' = last_job_id + 1
        BY <3>1, MarketAssumption DEF Register, TablesInv, JobsInv
      <4>2. <<who, last_job_id + 1>> \in Jobs
        BY <4>1 DEF Jobs
      <4> QED BY <3>1, <4>1, <4>2 DEF Register
    <3>2. ASSUME NEW fees, NEW n \in ProxySequence, RegisterFromProxy(n, r, fees)
          PROVE  \E j \in Jobs : register_for(j, r, fees) /\ last_job_id' \in Nat
      <4>1. <<Hyperdrive, n>> \in Jobs
        BY DEF Jobs
      <4> QED BY <3>2, <4>1 DEF RegisterFromProxy, TablesInv, JobsInv
    <3> QED BY <2>1, <3>1, <3>2
  <2> QED BY <2>2, RegisterTables
<1>2. CASE MatchStep
  <2>1. PICK m \in Matchers, j \in DOMAIN jobs, e \in ProposedExecutions, plan \in Plans :
          \E fees \in [DOMAIN plan -> Fees] :
            \/ e = All /\ ProposeMatching(m, j, plan, fees)
            \/ e # All /\ ProposeExecutionMatching(m, j, e, plan, fees)
    BY <1>2 DEF MatchStep
  <2>2. e # All => e \in Nat
    BY MarketAssumption
  <2> QED BY <2>1, <2>2, ProposeMatchingTables, ProposeExecutionMatchingTables
<1>3. ASSUME NEW j \in Jobs, Deregister(j) PROVE JobsInv' /\ AssignInv' /\ BudgetInv'
  BY <1>3, DeregisterTables
<1>4. ASSUME NEW p \in Processors, NEW j \in Jobs, NEW e \in Executions, AcknowledgeMatch(p, j, e)
      PROVE  JobsInv' /\ AssignInv' /\ BudgetInv'
  BY <1>4, AcknowledgeMatchTables
<1>5. ASSUME NEW p \in Processors, NEW j \in Jobs, Report(p, j)
      PROVE  JobsInv' /\ AssignInv' /\ BudgetInv'
  BY <1>5, ReportTables
<1>6. CASE \/ \E j \in Jobs : \/ CleanupJobMatcher(j)
                              \/ CleanupJobAssignments(j)
                              \/ \E s \in SUBSET Processors : CleanupStorage(j, s)
                              \/ \E s \in SourceLists : UpdateAllowedSources(j, s)
           \/ \E p \in Processors, j \in Jobs : CleanupAssignment(p, j)
           \/ \E p \in Processors : \/ \E c \in {None} \cup SUBSET Consumers : Advertise(p, c)
                                    \/ DeleteAdvertisement(p)
                                    \/ Attest(p)
                                    \/ RevokeAttestation(p)
           \/ Tick
           \/ UNCHANGED marketVars
  BY <1>6, OtherTables DEF CleanupJobAssignments, CleanupStorage, CleanupAssignment
<1> QED BY <1>1, <1>2, <1>3, <1>4, <1>5, <1>6 DEF MarketNext

\* The tables hold what they should, in every market.
THEOREM TablesCorrect == MarketSpec => []TablesInv
<1> QED BY InitTables, NextTables, PTL DEF MarketSpec

\* Registrations, matcher shares, rewards, compensations and refunds change
\* the pallet's balance and the budget of their job by the same amount.
THEOREM PalletBacksBudgetsCorrect == MarketSpec => []PalletBacksBudgets
<1>1. TablesInv => PalletBacksBudgets
  BY DEF TablesInv, BudgetInv
<1> QED BY <1>1, TablesCorrect, PTL

-----------------------------------------------------------------------------
(***************************************************************************)
(* Whole-job matches.                                                      *)
(***************************************************************************)
\* The assigned processors are those with a match, also after a step.
LEMMA AssignedMatchedAlways ==
    MatchInv => \A j : AssignedTo(j) = {p \in Processors : <<p, j>> \in DOMAIN matches}
BY AssignedMatched

\* ... in the state after it.
LEMMA AssignedMatchedNext ==
    ASSUME MatchInv'
    PROVE  (\A j : AssignedTo(j) = {p \in Processors : <<p, j>> \in DOMAIN matches})'
BY AssignedMatchedAlways, PTL

\* Products of natural numbers.
LEMMA ProductType ==
    ASSUME NEW m \in Nat, NEW n \in Nat
    PROVE  m * n \in Nat /\ (n >= 1 => m <= m * n /\ m * n = m * (n - 1) + m)
OBVIOUS

\* The terms of an assignment that is stored for a registered job.
LEMMA StoredTerms ==
    ASSUME TablesInv, NEW j \in DOMAIN jobs, NEW p, <<p, j>> \in DOMAIN matches
    PROVE  /\ matches[<<p, j>>] \in Assignments
           /\ matches[<<p, j>>].fee_per_execution \in Nat /\ matches[<<p, j>>].met \in Nat
           /\ matches[<<p, j>>].total \in Nat
           /\ matches[<<p, j>>].acknowledged \in BOOLEAN
           /\ MatcherShare(j, matches[<<p, j>>]) \in Nat
<1>1. matches[<<p, j>>] \in Assignments
  BY DEF TablesInv, AssignInv
<1> QED BY <1>1, MatcherShareType DEF TablesInv, Assignments

\* What a whole-job assignment may still take is a natural number: fees for
\* the executions it has not met, and the matcher's share until it is
\* acknowledged.
LEMMA OutstandingType ==
    ASSUME TablesInv, NEW j \in DOMAIN jobs, NEW p \in Processors, <<p, j>> \in DOMAIN matches,
           WholeMatch(j, p)
    PROVE  Outstanding(j, p) \in Nat
<1> DEFINE a == matches[<<p, j>>]
           left == a.total - a.met
           share == IF a.acknowledged \/ job_matcher[j] = None THEN 0 ELSE MatcherShare(j, a)
<1>1. a \in Assignments /\ a.fee_per_execution \in Nat /\ a.met \in Nat /\ a.total \in Nat
      /\ MatcherShare(j, a) \in Nat /\ a.acknowledged \in BOOLEAN
  BY StoredTerms
<1>2. left \in Nat
  <2>1. CASE a.acknowledged
    <3>1. next_report[j][p] \in Nat
      <4>1. j \in Jobs /\ next_report[j][p] # None
        BY <2>1 DEF WholeMatch, TablesInv, JobsInv
      <4> QED BY <4>1 DEF TablesInv, AssignInv
    <3>2. a.met <= next_report[j][p] /\ next_report[j][p] < a.total
      BY <2>1 DEF WholeMatch
    <3> QED BY <1>1, <3>1, <3>2
  <2>2. CASE ~a.acknowledged
    BY <1>1, <2>2 DEF WholeMatch
  <2> QED BY <2>1, <2>2
<1>3. share \in Nat
  BY <1>1
<1>4. Outstanding(j, p) = a.fee_per_execution * left + share
  BY DEF Outstanding
<1> HIDE DEF left, share
<1>5. a.fee_per_execution * left \in Nat
  BY <1>1, <1>2, ProductType
<1> QED BY <1>3, <1>4, <1>5

\* The matches of a job are whole-job matches.
AllWhole(j) == \A p \in Processors : <<p, j>> \in DOMAIN matches => WholeMatch(j, p)

\* All claims of a job in one formula.
ClaimsTyped(j) ==
    /\ AssignedTo(j) = {p \in Processors : <<p, j>> \in DOMAIN matches}
    /\ \A p \in AssignedTo(j) : Outstanding(j, p) \in Nat

\* Claims are natural numbers ...
LEMMA ClaimsType ==
    TablesInv => \A j \in DOMAIN jobs : AllWhole(j) => ClaimsTyped(j)
<1> SUFFICES ASSUME TablesInv, NEW j \in DOMAIN jobs, AllWhole(j) PROVE ClaimsTyped(j)
  OBVIOUS
<1>1. AssignedTo(j) = {p \in Processors : <<p, j>> \in DOMAIN matches}
  BY AssignedMatched DEF TablesInv
<1>2. \A p \in AssignedTo(j) : Outstanding(j, p) \in Nat
  BY <1>1, OutstandingType DEF AllWhole
<1> QED BY <1>1, <1>2 DEF ClaimsTyped

\* ... also after a step.
LEMMA ClaimsTypeNext ==
    ASSUME TablesInv'
    PROVE  (\A j \in DOMAIN jobs : AllWhole(j) => ClaimsTyped(j))'
BY ClaimsType, PTL

\* The assignments of a job that remain take no more than before, and that of
\* x at least n less.
LEMMA ClaimsDrop ==
    ASSUME TablesInv, TablesInv', NEW j, j \in DOMAIN jobs, j \in DOMAIN jobs',
           AllWhole(j), AllWhole(j)',
           \A p \in Processors : <<p, j>> \in DOMAIN matches' =>
              <<p, j>> \in DOMAIN matches /\ Outstanding(j, p)' <= Outstanding(j, p),
           NEW x \in Processors, <<x, j>> \in DOMAIN matches,
           NEW n \in Nat, n <= Outstanding(j, x),
           <<x, j>> \in DOMAIN matches' => Outstanding(j, x)' + n <= Outstanding(j, x)
    PROVE  Claims(j)' + n <= Claims(j) /\ Claims(j) \in Nat /\ Claims(j)' \in Nat
<1> DEFINE S == AssignedTo(j)
           R == AssignedTo(j)'
           f == [p \in S |-> Outstanding(j, p)]
           g == [p \in R |-> Outstanding(j, p)']
<1>1. /\ S = {p \in Processors : <<p, j>> \in DOMAIN matches}
      /\ \A p \in S : Outstanding(j, p) \in Nat
  BY ClaimsType DEF ClaimsTyped
<1>2. /\ R = {p \in Processors : <<p, j>> \in DOMAIN matches'}
      /\ \A p \in R : Outstanding(j, p)' \in Nat
  BY ClaimsTypeNext DEF ClaimsTyped
<1>3. Claims(j) = SumOver(f, S) /\ Claims(j)' = SumOver(g, R)
  BY DEF Claims
<1>4. IsFiniteSet(S) /\ IsFiniteSet(R)
  BY <1>1, <1>2, FS_Subset, MarketAssumption
<1>5. /\ \A y \in S : f[y] \in Nat
      /\ R \in SUBSET S
      /\ \A y \in R : g[y] \in Int /\ g[y] <= f[y]
      /\ x \in S /\ n <= f[x] /\ (x \in R => g[x] + n <= f[x])
      /\ \A y \in R : g[y] \in Nat
  BY <1>1, <1>2
<1> HIDE DEF f, g, S, R
<1>6. SumOver(g, R) + n <= SumOver(f, S)
  BY <1>4, <1>5, SumDrop
<1>7. SumOver(g, R) \in Nat /\ SumOver(f, S) \in Nat
  BY <1>4, <1>5, SumNat
<1> QED BY <1>3, <1>6, <1>7

\* The same without such an x.
LEMMA ClaimsShrink ==
    ASSUME TablesInv, TablesInv', NEW j, j \in DOMAIN jobs, j \in DOMAIN jobs',
           AllWhole(j), AllWhole(j)',
           \A p \in Processors : <<p, j>> \in DOMAIN matches' =>
              <<p, j>> \in DOMAIN matches /\ Outstanding(j, p)' <= Outstanding(j, p)
    PROVE  Claims(j)' <= Claims(j) /\ Claims(j) \in Nat /\ Claims(j)' \in Nat
<1> DEFINE S == AssignedTo(j)
           R == AssignedTo(j)'
           f == [p \in S |-> Outstanding(j, p)]
           g == [p \in R |-> Outstanding(j, p)']
<1>1. /\ S = {p \in Processors : <<p, j>> \in DOMAIN matches}
      /\ \A p \in S : Outstanding(j, p) \in Nat
  BY ClaimsType DEF ClaimsTyped
<1>2. /\ R = {p \in Processors : <<p, j>> \in DOMAIN matches'}
      /\ \A p \in R : Outstanding(j, p)' \in Nat
  BY ClaimsTypeNext DEF ClaimsTyped
<1>3. Claims(j) = SumOver(f, S) /\ Claims(j)' = SumOver(g, R)
  BY DEF Claims
<1>4. IsFiniteSet(S) /\ IsFiniteSet(R)
  BY <1>1, <1>2, FS_Subset, MarketAssumption
<1>5. /\ \A y \in S : f[y] \in Nat
      /\ R \in SUBSET S
      /\ \A y \in R : g[y] \in Int /\ g[y] <= f[y]
      /\ \A y \in R : g[y] \in Nat
  BY <1>1, <1>2
<1> HIDE DEF f, g, S, R
<1>6. SumOver(g, R) <= SumOver(f, S)
  BY <1>4, <1>5, SumShrink
<1>7. SumOver(g, R) \in Nat /\ SumOver(f, S) \in Nat
  BY <1>4, <1>5, SumNat
<1> QED BY <1>3, <1>6, <1>7

\* Nothing that money depends on changes for job j, except that some of its
\* matches or its matcher may be forgotten.
Lessened(j) ==
    /\ j \in DOMAIN jobs' <=> j \in DOMAIN jobs
    /\ j \in DOMAIN jobs => /\ jobs'[j].schedule = jobs[j].schedule
                            /\ jobs'[j].reward = jobs[j].reward
                            /\ jobs'[j].slots = jobs[j].slots
                            /\ job_status'[j] = job_status[j]
    /\ exec_status'[j] = exec_status[j]
    /\ next_report'[j] = next_report[j]
    /\ rewarded'[j] = rewarded[j]
    /\ budgets'[j] = budgets[j]
    /\ job_matcher'[j] \in {job_matcher[j], None}
    /\ \A p \in Processors : <<p, j>> \in DOMAIN matches' =>
          <<p, j>> \in DOMAIN matches /\ matches'[<<p, j>>] = matches[<<p, j>>]

\* A job whose claims lessen stays solvent, and its matches whole.
LEMMA LessenedKeeps ==
    ASSUME TablesInv, TablesInv', NEW j \in Jobs, JobWhole(j), Lessened(j)
    PROVE  JobWhole(j)'
<1> SUFFICES ASSUME NeverExecutionMatched(j)'
             PROVE  WholeJob(j)' /\ (j \in DOMAIN jobs' => Solvent(j)')
  BY DEF JobWhole
<1>1. NeverExecutionMatched(j)
  BY DEF NeverExecutionMatched, Lessened
<1>2. WholeJob(j) /\ (j \in DOMAIN jobs => Solvent(j))
  BY <1>1 DEF JobWhole
<1>3. ASSUME NEW p \in Processors, <<p, j>> \in DOMAIN matches' PROVE WholeMatch(j, p)'
  <2>1. j \in DOMAIN jobs'
    BY <1>3 DEF TablesInv, MatchInv, MatchesTyped
  <2>2. <<p, j>> \in DOMAIN matches /\ matches'[<<p, j>>] = matches[<<p, j>>]
        /\ jobs'[j].schedule = jobs[j].schedule /\ next_report'[j] = next_report[j]
        /\ rewarded'[j] = rewarded[j]
    BY <1>3, <2>1 DEF Lessened
  <2>3. WholeMatch(j, p)
    BY <1>2, <2>2 DEF WholeJob
  <2> QED BY <2>2, <2>3 DEF WholeMatch
<1>4. WholeJob(j)'
  <2>1. DOMAIN job_status = DOMAIN jobs /\ DOMAIN job_status' = DOMAIN jobs'
    BY DEF TablesInv, MatchInv, MatchesTyped
  <2>2. StatusOf(j)' = StatusOf(j)
    BY <2>1 DEF StatusOf, Lessened
  <2> QED BY <1>2, <1>3, <2>2 DEF WholeJob, Lessened
<1>5. ASSUME j \in DOMAIN jobs' PROVE Solvent(j)'
  <2>1. /\ j \in DOMAIN jobs /\ jobs'[j].schedule = jobs[j].schedule
        /\ jobs'[j].reward = jobs[j].reward /\ jobs'[j].slots = jobs[j].slots
        /\ job_status'[j] = job_status[j] /\ budgets'[j] = budgets[j]
        /\ job_matcher'[j] \in {job_matcher[j], None}
    BY <1>5 DEF Lessened
  <2>2. CASE job_status[j] = Open
    BY <1>2, <2>1, <2>2 DEF Solvent, total_reward_amount
  <2>3. CASE job_status[j] # Open
    <3>1. AllWhole(j) /\ AllWhole(j)'
      BY <1>2, <1>3 DEF WholeJob, AllWhole
    <3>2. ASSUME NEW p \in Processors, <<p, j>> \in DOMAIN matches'
          PROVE  <<p, j>> \in DOMAIN matches /\ Outstanding(j, p)' <= Outstanding(j, p)
      <4> DEFINE a == matches[<<p, j>>]
                 x == a.fee_per_execution * (a.total - a.met)
      <4>1. <<p, j>> \in DOMAIN matches /\ matches'[<<p, j>>] = a
        BY <3>2 DEF Lessened
      <4>2. MatcherShare(j, a)' = MatcherShare(j, a)
        BY <2>1, <4>1 DEF MatcherShare
      <4>3. /\ Outstanding(j, p) = x + IF a.acknowledged \/ job_matcher[j] = None THEN 0
                                       ELSE MatcherShare(j, a)
            /\ Outstanding(j, p)' = x + IF a.acknowledged \/ job_matcher'[j] = None THEN 0
                                        ELSE MatcherShare(j, a)
        BY <4>1, <4>2 DEF Outstanding
      <4>4. MatcherShare(j, a) \in Nat /\ x \in Int
        BY <2>1, <4>1, StoredTerms
      <4> HIDE DEF x, a
      <4>5. Outstanding(j, p)' <= Outstanding(j, p)
        BY <2>1, <4>3, <4>4
      <4> QED BY <4>1, <4>5
    <3>3. Claims(j)' <= Claims(j) /\ Claims(j) \in Nat /\ Claims(j)' \in Nat
      BY <1>5, <2>1, <3>1, <3>2, ClaimsShrink
    <3>4. budgets[j] >= Claims(j)
      BY <1>2, <2>1, <2>3 DEF Solvent
    <3>5. budgets[j] \in Nat
      BY DEF TablesInv, BudgetInv
    <3> QED BY <2>1, <2>3, <3>3, <3>4, <3>5 DEF Solvent
  <2> QED BY <2>2, <2>3
<1> QED BY <1>4, <1>5

\* Steps that forget matches or matchers, and those that do not touch them.
LEMMA OtherWhole ==
    ASSUME MarketInv, TablesInv',
           \/ \E j \in Jobs, s \in SourceLists : UpdateAllowedSources(j, s)
           \/ \E j \in Jobs : CleanupJobMatcher(j)
           \/ \E keys : Unassign(keys)
           \/ \E p, c : Advertise(p, c)
           \/ \E p : DeleteAdvertisement(p) \/ Attest(p) \/ RevokeAttestation(p)
           \/ Tick
           \/ UNCHANGED marketVars
    PROVE  WholeInv'
<1>1. SUFFICES ASSUME NEW x \in Jobs PROVE Lessened(x)
  BY LessenedKeeps DEF MarketInv, WholeInv
<1>2. UNCHANGED <<budgets, next_report, rewarded, exec_status, job_status>>
  BY DEF UpdateAllowedSources, CleanupJobMatcher, Unassign, Advertise, DeleteAdvertisement, Attest,
         RevokeAttestation, Tick, marketVars, registry, assignments, providers, money
<1>3. /\ DOMAIN jobs' = DOMAIN jobs
      /\ \A j \in DOMAIN jobs : /\ jobs'[j].schedule = jobs[j].schedule
                                /\ jobs'[j].reward = jobs[j].reward
                                /\ jobs'[j].slots = jobs[j].slots
  <2>1. CASE \E j \in Jobs, s \in SourceLists : UpdateAllowedSources(j, s)
    BY <2>1, UpdateAllowedSourcesTerms DEF MarketInv
  <2>2. CASE UNCHANGED jobs
    BY <2>2
  <2> QED BY <2>1, <2>2
          DEF CleanupJobMatcher, Unassign, Advertise, DeleteAdvertisement, Attest,
              RevokeAttestation, Tick, marketVars, registry
<1>4. \A k \in DOMAIN matches' : k \in DOMAIN matches /\ matches'[k] = matches[k]
  BY DEF UpdateAllowedSources, CleanupJobMatcher, Unassign, Advertise, DeleteAdvertisement, Attest,
         RevokeAttestation, Tick, marketVars, assignments
<1>5. job_matcher'[x] \in {job_matcher[x], None}
  BY DEF UpdateAllowedSources, CleanupJobMatcher, Unassign, Advertise, DeleteAdvertisement, Attest,
         RevokeAttestation, Tick, marketVars, assignments, MarketInv, TablesInv, AssignInv
<1> QED BY <1>2, <1>3, <1>4, <1>5 DEF Lessened

\* The bound on the matcher's share (MatcherShareType) ...
LEMMA MatcherShareBound ==
    JobsInv => \A j \in DOMAIN jobs, a \in Assignments :
        /\ MatcherShare(j, a) \in Nat
        /\ a.execution = All /\ a.fee_per_execution <= jobs[j].reward =>
              MatcherShare(j, a)
                <= (jobs[j].reward - a.fee_per_execution) * execution_count(jobs[j].schedule)
BY MatcherShareType

\* ... after a step.
LEMMA MatcherShareBoundNext ==
    ASSUME JobsInv'
    PROVE  (\A j \in DOMAIN jobs, a \in Assignments :
              /\ MatcherShare(j, a) \in Nat
              /\ a.execution = All /\ a.fee_per_execution <= jobs[j].reward =>
                    MatcherShare(j, a)
                      <= (jobs[j].reward - a.fee_per_execution) * execution_count(jobs[j].schedule))'
BY MatcherShareBound, PTL

\* A fee and the rest of the reward, for n executions each.
LEMMA FeeAndRest ==
    ASSUME NEW fee \in Nat, NEW reward \in Nat, fee <= reward, NEW n \in Nat
    PROVE  fee * n + (reward - fee) * n = reward * n /\ reward * n \in Nat
OBVIOUS

\* The reward of the slots is what the job locks.
LEMMA RewardOfSlots ==
    ASSUME NEW r, RegisteredWell(r)
    PROVE  r.slots * (r.reward * execution_count(r.schedule)) = total_reward_amount(r)
<1>1. r.slots \in Nat /\ r.reward \in Nat /\ execution_count(r.schedule) \in Nat
  BY CountType DEF RegisteredWell
<1> DEFINE n == execution_count(r.schedule)
           s == r.slots
           w == r.reward
<1>2. total_reward_amount(r) = w * s * n
  BY DEF total_reward_amount
<1> HIDE DEF n, s, w
<1>3. s \in Nat /\ w \in Nat /\ n \in Nat
  BY <1>1 DEF n, s, w
<1>4. s * (w * n) = w * s * n
  BY <1>3
<1> QED BY <1>2, <1>4 DEF n, s, w

\* A new whole-job match, of a job that locked its whole reward and paid
\* nothing yet.
LEMMA NewMatchWhole ==
    ASSUME TablesInv, TablesInv', NEW j \in Jobs, NEW r, RegisteredWell(r), NEW plan \in Plans,
           NEW fees \in [DOMAIN plan -> Fees], CanMatch(j, r, plan, fees),
           StoreMatch(j, r, plan, fees),
           \A k \in DOMAIN matches : k[2] # j,
           j \in DOMAIN jobs', jobs'[j] = r, job_status'[j] = Matched,
           \A p \in Processors, i \in Indices : rewarded'[j][p][i] = 0,
           budgets'[j] >= total_reward_amount(r)
    PROVE  WholeJob(j)' /\ Solvent(j)'
<1> DEFINE n == execution_count(r.schedule)
           new(p) == NewAssignment(All, plan[p], fees[p], n, 0)
           c == r.reward * n
<1>1. DOMAIN plan \subseteq Processors /\ n \in Nat /\ r.reward \in Nat /\ r.slots \in Nat
  BY PlanSources, CountType DEF RegisteredWell
<1>2. ASSUME NEW p \in Processors, <<p, j>> \in DOMAIN matches'
      PROVE  /\ p \in DOMAIN plan
             /\ matches'[<<p, j>>].execution = All /\ matches'[<<p, j>>].total = n
             /\ matches'[<<p, j>>].met = 0 /\ matches'[<<p, j>>].acknowledged = FALSE
             /\ matches'[<<p, j>>].fee_per_execution = fees[p]
  <2>1. <<p, j>> \in KeysOf(j, DOMAIN plan)
    BY <1>2 DEF StoreMatch
  <2>2. p \in DOMAIN plan
    BY <2>1 DEF KeysOf
  <2>3. matches'[<<p, j>>] = NewAssignment(All, plan[<<p, j>>[1]], fees[<<p, j>>[1]], n, 0)
    BY <1>2, <2>1 DEF StoreMatch
  <2>4. matches'[<<p, j>>] = new(p)
    BY <2>3
  <2>5. /\ new(p).execution = All /\ new(p).total = n /\ new(p).met = 0
        /\ new(p).acknowledged = FALSE /\ new(p).fee_per_execution = fees[p]
    BY DEF NewAssignment
  <2> HIDE DEF new
  <2> QED BY <2>2, <2>4, <2>5
<1> HIDE DEF new
<1>3. \A p \in DOMAIN plan : <<p, j>> \in DOMAIN matches'
  BY DEF StoreMatch, KeysOf
<1>4. ASSUME NEW p \in Processors, <<p, j>> \in DOMAIN matches' PROVE WholeMatch(j, p)'
  BY <1>2, <1>4 DEF WholeMatch
<1>5. AllWhole(j)'
  BY <1>4 DEF AllWhole
<1>6. WholeJob(j)'
  <2>1. \A p \in Processors, i \in Indices : rewarded'[j][p][i] <= 1
    OBVIOUS
  <2> QED BY <1>4, <2>1 DEF WholeJob
<1>7. ASSUME NEW p \in Processors, <<p, j>> \in DOMAIN matches'
      PROVE  Outstanding(j, p)' <= c
  <2> DEFINE a == matches'[<<p, j>>]
             share == MatcherShare(j, matches[<<p, j>>])'
  <2>1. /\ a.fee_per_execution = fees[p] /\ a.total = n /\ a.met = 0 /\ a.execution = All
        /\ ~a.acknowledged
    BY <1>2, <1>7
  <2>2. fees[p] <= r.reward /\ fees[p] \in Nat
    BY <1>2, <1>7, PlanTypes DEF CanMatch
  <2>3. a \in Assignments
    BY <1>7 DEF TablesInv, AssignInv
  <2>4. share \in Nat /\ share <= (r.reward - fees[p]) * n
    BY <2>1, <2>2, <2>3, MatcherShareBoundNext DEF TablesInv
  <2>5. \/ Outstanding(j, p)' = fees[p] * (n - 0) + 0
        \/ Outstanding(j, p)' = fees[p] * (n - 0) + share
    <3>1. Outstanding(j, p)' = a.fee_per_execution * (a.total - a.met)
             + IF a.acknowledged \/ job_matcher'[j] = None THEN 0 ELSE share
      BY DEF Outstanding
    <3> HIDE DEF a, share
    <3> QED BY <2>1, <3>1
  <2>6. n - 0 = n /\ fees[p] * n \in Nat /\ fees[p] * n + (r.reward - fees[p]) * n = c
        /\ (r.reward - fees[p]) * n \in Nat
    BY <1>1, <2>2, FeeAndRest, ProductType
  <2> HIDE DEF share, n, c
  <2> QED BY <2>4, <2>5, <2>6
<1>8. Claims(j)' <= r.slots * c /\ Claims(j)' \in Int /\ r.slots * c \in Int
  <2> DEFINE R == AssignedTo(j)'
             g == [p \in R |-> Outstanding(j, p)']
  <2>1. /\ R = {p \in Processors : <<p, j>> \in DOMAIN matches'}
        /\ \A p \in R : Outstanding(j, p)' \in Nat
    BY <1>5, ClaimsTypeNext DEF ClaimsTyped
  <2>2. R = DOMAIN plan
    BY <1>1, <1>2, <1>3, <2>1
  <2>3. IsFiniteSet(R) /\ Cardinality(R) = r.slots
    BY <1>1, <2>2, FS_Subset, MarketAssumption DEF CanMatch
  <2>4. \A x \in R : g[x] \in Int /\ g[x] <= c
    BY <1>7, <2>1
  <2>5. Claims(j)' = SumOver(g, R)
    BY DEF Claims
  <2>6. c \in Nat
    BY <1>1, ProductType
  <2> HIDE DEF g, R, c
  <2>7. SumOver(g, R) <= Cardinality(R) * c /\ SumOver(g, R) \in Int
    BY <2>3, <2>4, <2>6, SumUpTo, SumInt
  <2> QED BY <1>1, <2>3, <2>5, <2>6, <2>7
<1>9. r.slots * c = total_reward_amount(r)
  BY RewardOfSlots
<1>10. budgets'[j] \in Nat
  BY DEF TablesInv, BudgetInv
<1>11. Solvent(j)'
  <2> HIDE DEF c
  <2> QED BY <1>8, <1>9, <1>10, NotOpen DEF Solvent
<1> QED BY <1>6, <1>11

\* propose_matching: an Open job has its whole reward locked.
LEMMA ProposeMatchingWhole ==
    ASSUME MarketInv, TablesInv', NEW m \in Matchers, NEW j \in DOMAIN jobs, NEW plan \in Plans,
           NEW fees \in [DOMAIN plan -> Fees], ProposeMatching(m, j, plan, fees)
    PROVE  WholeInv'
<1>1. /\ UNCHANGED <<jobs, exec_status, next_report, rewarded, budgets>>
      /\ job_status' = [job_status EXCEPT ![j] = Matched]
      /\ job_matcher' = [job_matcher EXCEPT ![j] = m]
      /\ StoreMatch(j, jobs[j], plan, fees) /\ CanMatch(j, jobs[j], plan, fees)
      /\ job_status[j] = Open
  BY DEF ProposeMatching, money
<1>2. DOMAIN job_status = DOMAIN jobs /\ j \in Jobs /\ RegisteredWell(jobs[j])
      /\ job_matcher \in [Jobs -> Matchers \cup {None}]
  BY DEF MarketInv, TablesInv, MatchInv, MatchesTyped, JobsInv, AssignInv
<1>3. \A k \in DOMAIN matches : k[2] # j
  BY <1>1 DEF MarketInv, TablesInv, MatchInv, NoOrphanAssignments
<1>4. ASSUME NEW x \in Jobs, x # j PROVE JobWhole(x)'
  <2>1. \A p \in Processors : <<p, x>> \in DOMAIN matches' =>
           <<p, x>> \in DOMAIN matches /\ matches'[<<p, x>>] = matches[<<p, x>>]
    BY <1>1, <1>4 DEF StoreMatch, KeysOf
  <2>2. Lessened(x)
    BY <1>1, <1>2, <1>4, <2>1 DEF Lessened
  <2> QED BY <2>2, LessenedKeeps DEF MarketInv, WholeInv
<1>5. JobWhole(j)'
  <2>1. SUFFICES ASSUME NeverExecutionMatched(j)' PROVE WholeJob(j)' /\ Solvent(j)'
    BY DEF JobWhole
  <2>2. NeverExecutionMatched(j)
    BY <1>1, <2>1 DEF NeverExecutionMatched
  <2>3. WholeJob(j) /\ Solvent(j)
    BY <1>2, <2>2 DEF MarketInv, WholeInv, JobWhole
  <2>4. StatusOf(j) = Open
    BY <1>1, <1>2 DEF StatusOf
  <2>5. \A p \in Processors, i \in Indices : rewarded'[j][p][i] = 0
    BY <1>1, <2>3, <2>4 DEF WholeJob
  <2>6. budgets'[j] >= total_reward_amount(jobs[j])
    BY <1>1, <2>3 DEF Solvent
  <2>7. j \in DOMAIN jobs' /\ jobs'[j] = jobs[j] /\ job_status'[j] = Matched
    BY <1>1, <1>2
  <2> QED BY <1>1, <1>2, <1>3, <2>5, <2>6, <2>7, NewMatchWhole DEF MarketInv
<1> QED BY <1>4, <1>5 DEF WholeInv

\* register: likewise, if the registration brings its match.
LEMMA RegisterWhole ==
    ASSUME MarketInv, TablesInv', NEW j \in Jobs, NEW r \in Registrations,
           NEW fees \in InstantFees(r), register_for(j, r, fees)
    PROVE  WholeInv'
<1> DEFINE instant == r.strategy = "Single" /\ r.instant_match # None
<1>1. /\ UNCHANGED <<exec_status, next_report, rewarded, job_matcher>>
      /\ jobs' = [x \in DOMAIN jobs \cup {j} |-> IF x = j THEN r ELSE jobs[x]]
      /\ job_status' = [x \in DOMAIN jobs \cup {j} |->
            IF x = j THEN IF instant THEN Matched ELSE Open ELSE job_status[x]]
      /\ budgets' = [budgets EXCEPT ![j] = @ + total_reward_amount(r)]
      /\ instant => CanMatch(j, r, r.instant_match, fees) /\ StoreMatch(j, r, r.instant_match, fees)
      /\ ~instant => UNCHANGED matches
      /\ StatusOf(j) = Open
  BY DEF register_for
<1>2. RegisteredWell(r) /\ r.instant_match \in Plans \cup {None}
  BY RegistrableWell DEF register_for
<1>3. DOMAIN job_status = DOMAIN jobs /\ budgets \in [Jobs -> Nat]
  BY DEF MarketInv, TablesInv, MatchInv, MatchesTyped, BudgetInv
<1>4. \A k \in DOMAIN matches : k[2] # j
  BY <1>1, <1>3 DEF MarketInv, TablesInv, MatchInv, MatchesTyped, NoOrphanAssignments, StatusOf
<1>5. ASSUME NEW x \in Jobs, x # j PROVE JobWhole(x)'
  <2>1. \A p \in Processors : <<p, x>> \in DOMAIN matches' =>
           <<p, x>> \in DOMAIN matches /\ matches'[<<p, x>>] = matches[<<p, x>>]
    BY <1>1, <1>5 DEF StoreMatch, KeysOf
  <2>2. Lessened(x)
    <3> HIDE DEF instant
    <3> QED BY <1>1, <1>3, <1>5, <2>1 DEF Lessened
  <2> QED BY <2>2, LessenedKeeps DEF MarketInv, WholeInv
<1>6. JobWhole(j)'
  <2>1. SUFFICES ASSUME NeverExecutionMatched(j)' PROVE WholeJob(j)' /\ Solvent(j)'
    BY DEF JobWhole
  <2>2. NeverExecutionMatched(j)
    BY <1>1, <2>1 DEF NeverExecutionMatched
  <2>3. WholeJob(j)
    BY <2>2 DEF MarketInv, WholeInv, JobWhole
  <2>4. \A p \in Processors, i \in Indices : rewarded'[j][p][i] = 0
    BY <1>1, <2>3 DEF WholeJob
  <2>5. budgets'[j] >= total_reward_amount(r)
    BY <1>1, <1>2, <1>3, RewardType
  <2>6. j \in DOMAIN jobs' /\ jobs'[j] = r
    BY <1>1
  <2>7. CASE instant
    <3>1. r.instant_match \in Plans /\ fees \in [DOMAIN r.instant_match -> Fees]
      BY <1>2, <2>7 DEF InstantFees
    <3>2. job_status'[j] = Matched
      BY <1>1, <2>7
    <3> QED BY <1>1, <1>2, <1>4, <2>4, <2>5, <2>6, <2>7, <3>1, <3>2, NewMatchWhole DEF MarketInv
  <2>8. CASE ~instant
    <3>1. job_status'[j] = Open
      BY <1>1, <2>8
    <3>2. Solvent(j)'
      BY <2>5, <2>6, <3>1 DEF Solvent
    <3>3. \A p \in Processors : <<p, j>> \notin DOMAIN matches'
      BY <1>1, <1>4, <2>8
    <3>4. WholeJob(j)'
      <4>1. \A p \in Processors, i \in Indices : rewarded'[j][p][i] <= 1
        BY <2>4
      <4> QED BY <2>4, <3>3, <4>1 DEF WholeJob
    <3> QED BY <3>2, <3>4
  <2> QED BY <2>7, <2>8
<1> QED BY <1>5, <1>6 DEF WholeInv

\* propose_execution_matching: its job is not one of whole-job matches.
LEMMA ProposeExecutionMatchingWhole ==
    ASSUME MarketInv, TablesInv', NEW m, NEW j \in DOMAIN jobs, NEW i \in Indices, NEW plan,
           NEW fees, ProposeExecutionMatching(m, j, i, plan, fees)
    PROVE  WholeInv'
<1>1. /\ UNCHANGED <<jobs, next_report, rewarded, budgets>>
      /\ job_status' = [job_status EXCEPT ![j] = Matched]
      /\ job_matcher' = [job_matcher EXCEPT ![j] = m]
      /\ exec_status' = [exec_status EXCEPT ![j] = [x \in Indices |->
              IF x = i THEN Matched ELSE IF x = i - 2 THEN Open ELSE @[x]]]
      /\ \A k \in DOMAIN matches' : k \notin KeysOf(j, DOMAIN plan) =>
            k \in DOMAIN matches /\ matches'[k] = matches[k]
  BY DEF ProposeExecutionMatching, KeptMatches, money
<1>2. j \in Jobs /\ exec_status \in [Jobs -> [Indices -> Statuses]]
      /\ DOMAIN job_status = DOMAIN jobs /\ job_matcher \in [Jobs -> Matchers \cup {None}]
  BY DEF MarketInv, TablesInv, MatchInv, MatchesTyped, JobsInv, AssignInv
<1>3. ASSUME NEW x \in Jobs, x # j PROVE JobWhole(x)'
  <2>1. \A p \in Processors : <<p, x>> \in DOMAIN matches' =>
           <<p, x>> \in DOMAIN matches /\ matches'[<<p, x>>] = matches[<<p, x>>]
    BY <1>1, <1>3 DEF KeysOf
  <2>2. Lessened(x)
    BY <1>1, <1>2, <1>3, <2>1 DEF Lessened
  <2> QED BY <2>2, LessenedKeeps DEF MarketInv, WholeInv
<1>4. JobWhole(j)'
  <2>1. exec_status'[j][i] = Matched
    BY <1>1, <1>2
  <2> QED BY <2>1, NotOpen DEF JobWhole, NeverExecutionMatched
<1> QED BY <1>3, <1>4 DEF WholeInv

\* acknowledge_match: the matcher is paid what the assignment no longer claims.
LEMMA AcknowledgeMatchWhole ==
    ASSUME MarketInv, TablesInv', NEW p \in Processors, NEW j \in Jobs, NEW e \in Executions,
           AcknowledgeMatch(p, j, e)
    PROVE  WholeInv'
<1> DEFINE a == matches[<<p, j>>]
           share == IF job_matcher[j] = None THEN 0 ELSE MatcherShare(j, a)
<1>1. /\ j \in DOMAIN jobs /\ <<p, j>> \in DOMAIN matches
      /\ a.execution = e /\ ~a.acknowledged
      /\ matches' = [matches EXCEPT ![<<p, j>>].acknowledged = TRUE]
      /\ \E n : job_status' = [job_status EXCEPT ![j] = Assigned(n)]
      /\ \E n : exec_status' = IF e = All THEN exec_status
                               ELSE [exec_status EXCEPT ![j][e] = Assigned(n)]
      /\ next_report' = [next_report EXCEPT ![j][p] = NextReportOnAcknowledge(j, p, a)]
      /\ UNCHANGED <<jobs, job_matcher, rewarded>>
  BY DEF AcknowledgeMatch
<1>2. a \in Assignments /\ a.fee_per_execution \in Nat /\ a.met \in Nat /\ a.total \in Nat
      /\ MatcherShare(j, a) \in Nat
  BY <1>1, StoredTerms DEF MarketInv
<1>3. /\ budgets \in [Jobs -> Nat] /\ exec_status \in [Jobs -> [Indices -> Statuses]]
      /\ next_report \in [Jobs -> [Processors -> Nat \cup {None}]]
      /\ DOMAIN job_status = DOMAIN jobs /\ DOMAIN job_status' = DOMAIN jobs'
  BY DEF MarketInv, TablesInv, MatchInv, MatchesTyped, JobsInv, AssignInv, BudgetInv
<1>4. share \in Nat /\ budgets' = [budgets EXCEPT ![j] = @ - share]
  <2>1. CASE job_matcher[j] = None
    BY <1>3, <2>1 DEF AcknowledgeMatch
  <2>2. CASE job_matcher[j] # None
    BY <1>2, <2>2 DEF AcknowledgeMatch, PayMatcher
  <2> QED BY <2>1, <2>2
<1>5. /\ DOMAIN matches' = DOMAIN matches
      /\ \A k \in DOMAIN matches : k # <<p, j>> => matches'[k] = matches[k]
      /\ matches'[<<p, j>>] = [a EXCEPT !.acknowledged = TRUE]
  BY <1>1
<1>6. /\ matches'[<<p, j>>].acknowledged = TRUE /\ matches'[<<p, j>>].met = a.met
      /\ matches'[<<p, j>>].total = a.total /\ matches'[<<p, j>>].execution = a.execution
      /\ matches'[<<p, j>>].fee_per_execution = a.fee_per_execution
  <2>1. LET b == [a EXCEPT !.acknowledged = TRUE]
        IN  /\ b.acknowledged = TRUE /\ b.met = a.met /\ b.total = a.total
            /\ b.execution = a.execution /\ b.fee_per_execution = a.fee_per_execution
    BY <1>2 DEF Assignments
  <2> QED BY <1>5, <2>1
<1> HIDE DEF a, share
<1>7. ASSUME NEW x \in Jobs, x # j PROVE JobWhole(x)'
  <2>1. \A q \in Processors : <<q, x>> \in DOMAIN matches' =>
           <<q, x>> \in DOMAIN matches /\ matches'[<<q, x>>] = matches[<<q, x>>]
    BY <1>5, <1>7
  <2>2. exec_status'[x] = exec_status[x]
    BY <1>1, <1>3, <1>7
  <2>3. Lessened(x)
    BY <1>1, <1>3, <1>4, <1>7, <2>1, <2>2 DEF Lessened
  <2> QED BY <2>3, LessenedKeeps DEF MarketInv, WholeInv
<1>8. ASSUME e # All PROVE JobWhole(j)'
  <2>1. e \in Indices
    BY <1>8 DEF Executions
  <2>2. \E n : exec_status'[j][e] = Assigned(n)
    BY <1>1, <1>3, <1>8, <2>1
  <2> QED BY <2>1, <2>2, NotOpen DEF JobWhole, NeverExecutionMatched
<1>9. ASSUME e = All PROVE JobWhole(j)'
  <2> SUFFICES ASSUME NeverExecutionMatched(j)' PROVE WholeJob(j)' /\ Solvent(j)'
    BY DEF JobWhole
  <2>1. NeverExecutionMatched(j)
    BY <1>1, <1>9 DEF NeverExecutionMatched
  <2>2. WholeJob(j) /\ Solvent(j)
    BY <1>1, <2>1 DEF MarketInv, WholeInv, JobWhole
  <2>3. job_status[j] # Open /\ job_status'[j] # Open
    <3>1. job_status[j] # Open
      BY <1>1 DEF MarketInv, TablesInv, MatchInv, NoOrphanAssignments
    <3> QED BY <1>1, <1>3, <3>1, NotOpen
  <2>4. next_report'[j][p] = 0 /\ \A q \in Processors : q # p => next_report'[j][q] = next_report[j][q]
    BY <1>1, <1>3, <1>9 DEF NextReportOnAcknowledge
  <2>5. a.total = execution_count(jobs[j].schedule) /\ a.met = 0
        /\ \A i \in Indices : rewarded[j][p][i] = 0
    BY <1>1, <2>2 DEF WholeJob, WholeMatch, a
  <2>6. execution_count(jobs[j].schedule) >= 1 /\ execution_count(jobs[j].schedule) \in Nat
    <3>1. RegisteredWell(jobs[j])
      BY <1>1 DEF MarketInv, TablesInv, JobsInv
    <3> QED BY <3>1, CountType DEF RegisteredWell
  <2>7. ASSUME NEW q \in Processors, <<q, j>> \in DOMAIN matches' PROVE WholeMatch(j, q)'
    <3>1. CASE q = p
      <4>1. None # 0
        BY IndexType
      <4> QED BY <1>1, <1>6, <1>9, <2>4, <2>5, <2>6, <3>1, <4>1 DEF WholeMatch
    <3>2. CASE q # p
      <4>1. WholeMatch(j, q)
        BY <1>5, <2>2, <2>7 DEF WholeJob
      <4>2. matches'[<<q, j>>] = matches[<<q, j>>]
        BY <1>5, <2>7, <3>2
      <4> QED BY <1>1, <2>4, <3>2, <4>1, <4>2 DEF WholeMatch
    <3> QED BY <3>1, <3>2
  <2>8. WholeJob(j)'
    <3>1. StatusOf(j)' # Open
      BY <1>1, <1>3, <2>3 DEF StatusOf
    <3> QED BY <1>1, <2>2, <2>7, <3>1 DEF WholeJob
  <2>9. Solvent(j)'
    <3>1. AllWhole(j) /\ AllWhole(j)'
      BY <2>2, <2>7 DEF AllWhole, WholeJob
    <3> DEFINE x == a.fee_per_execution * (a.total - a.met)
    <3>2. x \in Nat
      <4>1. a.total - a.met \in Nat
        BY <1>2, <2>5
      <4> QED BY <1>2, <4>1, ProductType
    <3>3. Outstanding(j, p) = x + share /\ Outstanding(j, p)' = x + 0
      <4>1. Outstanding(j, p) = x + IF a.acknowledged \/ job_matcher[j] = None THEN 0
                                    ELSE MatcherShare(j, a)
        BY DEF Outstanding, a
      <4>2. Outstanding(j, p)' = matches'[<<p, j>>].fee_per_execution
                * (matches'[<<p, j>>].total - matches'[<<p, j>>].met) + 0
        BY <1>6 DEF Outstanding
      <4>3. Outstanding(j, p)' = x + 0
        BY <1>6, <4>2
      <4> HIDE DEF x
      <4> QED BY <1>1, <4>1, <4>3 DEF share
    <3> HIDE DEF x
    <3>4. share <= Outstanding(j, p) /\ Outstanding(j, p)' + share <= Outstanding(j, p)
          /\ Outstanding(j, p)' <= Outstanding(j, p)
      BY <1>4, <3>2, <3>3
    <3>5. ASSUME NEW q \in Processors, <<q, j>> \in DOMAIN matches'
          PROVE  <<q, j>> \in DOMAIN matches /\ Outstanding(j, q)' <= Outstanding(j, q)
      <4>1. CASE q = p
        BY <1>1, <3>4, <4>1
      <4>2. CASE q # p
        <5>1. matches'[<<q, j>>] = matches[<<q, j>>] /\ <<q, j>> \in DOMAIN matches
          BY <1>5, <3>5, <4>2
        <5>2. MatcherShare(j, matches[<<q, j>>])' = MatcherShare(j, matches[<<q, j>>])
          BY <1>1, <5>1 DEF MatcherShare
        <5>3. Outstanding(j, q)' = Outstanding(j, q)
          BY <1>1, <5>1, <5>2 DEF Outstanding
        <5>4. Outstanding(j, q) \in Nat
          BY <1>1, <3>1, <5>1, OutstandingType DEF AllWhole, MarketInv
        <5> QED BY <5>1, <5>3, <5>4
      <4> QED BY <4>1, <4>2
    <3>6. Claims(j)' + share <= Claims(j) /\ Claims(j) \in Nat /\ Claims(j)' \in Nat
      BY <1>1, <1>4, <3>1, <3>4, <3>5, ClaimsDrop DEF MarketInv
    <3>7. budgets[j] >= Claims(j) /\ budgets'[j] = budgets[j] - share /\ budgets[j] \in Nat
      BY <1>3, <1>4, <2>2, <2>3 DEF Solvent
    <3>8. budgets'[j] >= Claims(j)'
      BY <1>4, <3>6, <3>7
    <3> QED BY <2>3, <3>8 DEF Solvent
  <2> QED BY <2>8, <2>9
<1> QED BY <1>7, <1>8, <1>9 DEF WholeInv

\* report: the execution was not rewarded before, and the fee paid for it is
\* no longer claimed.
LEMMA ReportWhole ==
    ASSUME MarketInv, TablesInv', NEW p \in Processors, NEW j \in Jobs, Report(p, j)
    PROVE  WholeInv'
<1> DEFINE a == matches[<<p, j>>]
           fee == a.fee_per_execution
<1>1. PICK index \in Nat, next \in Nat \cup {None} : ReportFor(p, j, index, next)
  BY ReportIsFor DEF MarketInv
<1>2. /\ j \in DOMAIN jobs /\ <<p, j>> \in DOMAIN matches /\ a \in Assignments
      /\ a.acknowledged /\ a.met < a.total
      /\ next_report' = [next_report EXCEPT ![j][p] = next]
      /\ rewarded' = [rewarded EXCEPT ![j][p][index] = @ + 1]
      /\ budgets' = [budgets EXCEPT ![j] = @ - fee]
      /\ UNCHANGED <<jobs, job_status, exec_status, job_matcher>>
  BY <1>1 DEF ReportFor, registry
<1>3. fee \in Nat /\ a.met \in Nat /\ a.total \in Nat /\ a.acknowledged = TRUE /\ jobs' = jobs
  BY <1>2 DEF Assignments
<1>4. /\ budgets \in [Jobs -> Nat]
      /\ next_report \in [Jobs -> [Processors -> Nat \cup {None}]]
      /\ rewarded \in [Jobs -> [Processors -> [Indices -> Nat]]]
      /\ DOMAIN job_status = DOMAIN jobs
  BY DEF MarketInv, TablesInv, MatchInv, MatchesTyped, AssignInv, BudgetInv
<1>5. \A k \in DOMAIN matches' : k \in DOMAIN matches /\ (k # <<p, j>> => matches'[k] = matches[k])
  BY <1>1 DEF ReportFor
<1>6. /\ next = None => <<p, j>> \notin DOMAIN matches'
      /\ next # None => matches'[<<p, j>>] = [a EXCEPT !.met = @ + 1]
  BY <1>1, <1>2 DEF ReportFor
<1>7. next # None =>
         /\ matches'[<<p, j>>].acknowledged = a.acknowledged /\ matches'[<<p, j>>].met = a.met + 1
         /\ matches'[<<p, j>>].total = a.total /\ matches'[<<p, j>>].execution = a.execution
         /\ matches'[<<p, j>>].fee_per_execution = fee
  <2>1. LET b == [a EXCEPT !.met = @ + 1]
        IN  /\ b.acknowledged = a.acknowledged /\ b.met = a.met + 1 /\ b.total = a.total
            /\ b.execution = a.execution /\ b.fee_per_execution = a.fee_per_execution
    BY <1>2 DEF Assignments
  <2> QED BY <1>6, <2>1
<1>8. /\ next_report[j][p] # None => index >= next_report[j][p]
      /\ next_report[j][p] # None /\ next_report[j][p] < execution_count(jobs[j].schedule) =>
            index < execution_count(jobs[j].schedule)
      /\ a.execution = All => next = IF index + 1 < a.total THEN index + 1 ELSE None
  BY <1>1 DEF ReportFor
<1>a. /\ next_report'[j][p] = next
      /\ \A q \in Processors : q # p => next_report'[j][q] = next_report[j][q]
      /\ \A x \in Jobs : x # j => next_report'[x] = next_report[x]
  BY <1>2, <1>4
<1>b. /\ \A i \in Indices : i # index => rewarded'[j][p][i] = rewarded[j][p][i]
      /\ index \in Indices => rewarded'[j][p][index] = rewarded[j][p][index] + 1
      /\ \A q \in Processors : q # p => rewarded'[j][q] = rewarded[j][q]
      /\ \A x \in Jobs : x # j => rewarded'[x] = rewarded[x]
  BY <1>2, <1>4
<1>c. budgets'[j] = budgets[j] - fee /\ \A x \in Jobs : x # j => budgets'[x] = budgets[x]
  BY <1>2, <1>4
<1> HIDE DEF a, fee
<1>9. ASSUME NEW x \in Jobs, x # j PROVE JobWhole(x)'
  <2>1. \A q \in Processors : <<q, x>> \in DOMAIN matches' =>
           <<q, x>> \in DOMAIN matches /\ matches'[<<q, x>>] = matches[<<q, x>>]
    BY <1>5, <1>9
  <2>2. Lessened(x)
    BY <1>2, <1>9, <1>a, <1>b, <1>c, <2>1 DEF Lessened
  <2> QED BY <2>2, LessenedKeeps DEF MarketInv, WholeInv
<1>10. JobWhole(j)'
  <2> SUFFICES ASSUME NeverExecutionMatched(j)' PROVE WholeJob(j)' /\ Solvent(j)'
    BY DEF JobWhole
  <2>1. NeverExecutionMatched(j)
    BY <1>2 DEF NeverExecutionMatched
  <2>2. WholeJob(j) /\ Solvent(j)
    BY <1>2, <2>1 DEF MarketInv, WholeInv, JobWhole
  <2>3. job_status[j] # Open /\ job_status'[j] # Open
    BY <1>2 DEF MarketInv, TablesInv, MatchInv, NoOrphanAssignments
  <2>4. /\ a.execution = All /\ a.total = execution_count(jobs[j].schedule)
        /\ next_report[j][p] # None /\ a.met <= next_report[j][p] /\ next_report[j][p] < a.total
        /\ \A i \in Indices : i >= next_report[j][p] => rewarded[j][p][i] = 0
    BY <1>2, <2>2 DEF WholeJob, WholeMatch, a
  <2>5. next_report[j][p] \in Nat
    BY <1>4, <2>4
  <2>6. index >= next_report[j][p] /\ index < a.total /\ index \in Indices
    <3>1. index >= next_report[j][p] /\ index < a.total
      BY <1>8, <2>4
    <3>2. a.total \in 1 .. MAX_EXECUTIONS_PER_JOB /\ MAX_EXECUTIONS_PER_JOB \in Nat
      BY <1>2, <2>4, MarketAssumption DEF MarketInv, TablesInv, JobsInv, RegisteredWell
    <3> QED BY <3>1, <3>2 DEF Indices
  <2>7. rewarded'[j][p][index] = 1
    BY <1>b, <2>4, <2>6
  <2>8. next # None => next = index + 1 /\ index + 1 < a.total
    BY <1>8, <2>4
  <2>9. ASSUME NEW q \in Processors, <<q, j>> \in DOMAIN matches' PROVE WholeMatch(j, q)'
    <3>1. CASE q = p
      <4>1. next # None
        BY <1>6, <2>9, <3>1
      <4>2. next = index + 1 /\ next < a.total /\ a.met + 1 <= next
        BY <1>3, <2>4, <2>5, <2>6, <2>8, <4>1
      <4>3. \A i \in Indices : i >= next => rewarded'[j][p][i] = 0
        <5> SUFFICES ASSUME NEW i \in Indices, i >= next PROVE rewarded'[j][p][i] = 0
          OBVIOUS
        <5>1. i \in Nat
          BY IndexType
        <5>2. i # index /\ i >= next_report[j][p]
          BY <2>5, <2>6, <4>2, <5>1
        <5> QED BY <1>b, <2>4, <5>2
      <4>4. /\ matches'[<<p, j>>].acknowledged = TRUE /\ matches'[<<p, j>>].met = a.met + 1
            /\ matches'[<<p, j>>].total = a.total /\ matches'[<<p, j>>].execution = All
            /\ a.total = execution_count(jobs'[j].schedule)
        BY <1>3, <1>7, <2>4, <4>1
      <4> QED BY <1>a, <3>1, <4>1, <4>2, <4>3, <4>4 DEF WholeMatch
    <3>2. CASE q # p
      <4>1. WholeMatch(j, q)
        BY <1>5, <2>2, <2>9 DEF WholeJob
      <4>2. matches'[<<q, j>>] = matches[<<q, j>>]
        BY <1>5, <2>9, <3>2
      <4> QED BY <1>2, <1>a, <1>b, <3>2, <4>1, <4>2 DEF WholeMatch
    <3> QED BY <3>1, <3>2
  <2>10. WholeJob(j)'
    <3>1. StatusOf(j)' # Open
      BY <1>2, <1>4, <2>3 DEF StatusOf
    <3>2. ASSUME NEW q \in Processors, NEW i \in Indices PROVE rewarded'[j][q][i] <= 1
      <4>1. rewarded[j][q][i] <= 1
        BY <2>2 DEF WholeJob
      <4> QED BY <1>b, <2>7, <4>1
    <3> QED BY <2>9, <3>1, <3>2 DEF WholeJob
  <2>11. Solvent(j)'
    <3>1. AllWhole(j) /\ AllWhole(j)'
      BY <2>2, <2>9 DEF AllWhole, WholeJob
    <3> DEFINE left == a.total - a.met
    <3>2. left \in Nat /\ left >= 1 /\ a.total - (a.met + 1) = left - 1
      BY <1>2, <1>3
    <3>3. Outstanding(j, p) = fee * left
      <4>1. Outstanding(j, p) = fee * left + 0
        BY <1>2 DEF Outstanding, a, fee
      <4>2. fee * left \in Nat
        BY <1>3, <3>2, ProductType
      <4> HIDE DEF left
      <4> QED BY <4>1, <4>2
    <3>4. next # None => Outstanding(j, p)' = fee * (left - 1)
      <4>1. SUFFICES ASSUME next # None PROVE Outstanding(j, p)' = fee * (left - 1)
        OBVIOUS
      <4>2. Outstanding(j, p)' = matches'[<<p, j>>].fee_per_execution
                * (matches'[<<p, j>>].total - matches'[<<p, j>>].met) + 0
        BY <1>2, <1>7, <4>1 DEF Outstanding
      <4>3. Outstanding(j, p)' = fee * (a.total - (a.met + 1)) + 0
        BY <1>7, <4>1, <4>2
      <4> HIDE DEF left
      <4>4. left - 1 \in Nat
        BY <3>2
      <4>5. fee * (left - 1) \in Nat
        BY <1>3, <4>4, ProductType
      <4> QED BY <3>2, <4>3, <4>5
    <3> HIDE DEF left
    <3>5. fee * left \in Nat /\ fee <= fee * left /\ fee * left = fee * (left - 1) + fee
          /\ fee * (left - 1) \in Nat
      <4>1. left - 1 \in Nat
        BY <3>2
      <4> QED BY <1>3, <3>2, <4>1, ProductType
    <3>6. /\ fee <= Outstanding(j, p)
          /\ <<p, j>> \in DOMAIN matches' =>
                /\ Outstanding(j, p)' + fee <= Outstanding(j, p)
                /\ Outstanding(j, p)' <= Outstanding(j, p)
      BY <1>3, <1>6, <3>3, <3>4, <3>5
    <3>7. ASSUME NEW q \in Processors, <<q, j>> \in DOMAIN matches'
          PROVE  <<q, j>> \in DOMAIN matches /\ Outstanding(j, q)' <= Outstanding(j, q)
      <4>1. CASE q = p
        BY <1>2, <3>6, <3>7, <4>1
      <4>2. CASE q # p
        <5>1. matches'[<<q, j>>] = matches[<<q, j>>] /\ <<q, j>> \in DOMAIN matches
          BY <1>5, <3>7, <4>2
        <5>2. MatcherShare(j, matches[<<q, j>>])' = MatcherShare(j, matches[<<q, j>>])
          BY <1>2, <5>1 DEF MatcherShare
        <5>3. Outstanding(j, q)' = Outstanding(j, q)
          BY <1>2, <5>1, <5>2 DEF Outstanding
        <5>4. Outstanding(j, q) \in Nat
          BY <1>2, <3>1, <5>1, OutstandingType DEF AllWhole, MarketInv
        <5> QED BY <5>1, <5>3, <5>4
      <4> QED BY <4>1, <4>2
    <3>8. Claims(j)' + fee <= Claims(j) /\ Claims(j) \in Nat /\ Claims(j)' \in Nat
      BY <1>2, <1>3, <3>1, <3>6, <3>7, ClaimsDrop DEF MarketInv
    <3>9. budgets[j] >= Claims(j) /\ budgets[j] \in Nat
      BY <1>4, <2>2, <2>3 DEF Solvent
    <3>10. budgets'[j] >= Claims(j)'
      BY <1>3, <1>c, <3>8, <3>9
    <3> QED BY <2>3, <3>10 DEF Solvent
  <2> QED BY <2>10, <2>11
<1> QED BY <1>9, <1>10 DEF WholeInv

\* deregister: nothing of the job is left, its rewards included.
LEMMA DeregisterWhole ==
    ASSUME MarketInv, TablesInv', NEW j \in Jobs, Deregister(j)
    PROVE  WholeInv'
<1>1. /\ j \in DOMAIN jobs
      /\ jobs' = [x \in DOMAIN jobs \ {j} |-> jobs[x]]
      /\ job_status' = [x \in DOMAIN jobs \ {j} |-> job_status[x]]
      /\ \E left : exec_status' = [exec_status EXCEPT ![j] = left]
      /\ matches' = [k \in DOMAIN matches \ KeysOf(j, Drained(j)) |-> matches[k]]
      /\ \E left : next_report' = [next_report EXCEPT ![j] = left]
      /\ job_matcher' = [job_matcher EXCEPT ![j] = None] \/ job_matcher' = job_matcher
      /\ budgets' = [budgets EXCEPT ![j] = 0]
      /\ rewarded' = [rewarded EXCEPT ![j] = [p \in Processors |-> [i \in Indices |-> 0]]]
  BY DEF Deregister
<1>2. /\ exec_status \in [Jobs -> [Indices -> Statuses]]
      /\ next_report \in [Jobs -> [Processors -> Nat \cup {None}]]
      /\ rewarded \in [Jobs -> [Processors -> [Indices -> Nat]]]
      /\ budgets \in [Jobs -> Nat]
      /\ job_matcher \in [Jobs -> Matchers \cup {None}]
  BY DEF MarketInv, TablesInv, JobsInv, AssignInv, BudgetInv
<1>3. ASSUME NEW x \in Jobs, x # j PROVE JobWhole(x)'
  <2>1. \A p \in Processors : <<p, x>> \in DOMAIN matches' =>
           <<p, x>> \in DOMAIN matches /\ matches'[<<p, x>>] = matches[<<p, x>>]
    BY <1>1
  <2>2. exec_status'[x] = exec_status[x] /\ next_report'[x] = next_report[x]
    BY <1>1, <1>2, <1>3
  <2>3. Lessened(x)
    BY <1>1, <1>2, <1>3, <2>1, <2>2 DEF Lessened
  <2> QED BY <2>3, LessenedKeeps DEF MarketInv, WholeInv
<1>4. JobWhole(j)'
  <2>1. j \notin DOMAIN jobs'
    BY <1>1
  <2>2. \A p \in Processors : <<p, j>> \notin DOMAIN matches'
    BY <2>1 DEF TablesInv, MatchInv, MatchesTyped
  <2>3. \A p \in Processors, i \in Indices : rewarded'[j][p][i] = 0
    BY <1>1, <1>2
  <2>4. \A p \in Processors, i \in Indices : rewarded'[j][p][i] <= 1
    BY <2>3
  <2>5. WholeJob(j)'
    BY <2>2, <2>3, <2>4 DEF WholeJob
  <2> QED BY <2>1, <2>5 DEF JobWhole
<1> QED BY <1>3, <1>4 DEF WholeInv

-----------------------------------------------------------------------------
\* No job claims anything at first.
LEMMA InitWhole == MarketInit => WholeInv
<1> SUFFICES ASSUME MarketInit, NEW j \in Jobs PROVE JobWhole(j)
  BY DEF WholeInv
<1>1. /\ j \notin DOMAIN jobs /\ \A p \in Processors : <<p, j>> \notin DOMAIN matches
      /\ \A p \in Processors, i \in Indices : rewarded[j][p][i] = 0
  BY DEF MarketInit
<1>2. \A p \in Processors, i \in Indices : rewarded[j][p][i] <= 1
  BY <1>1
<1> QED BY <1>1, <1>2 DEF JobWhole, WholeJob

\* Every step of the market keeps jobs solvent and whole.
LEMMA NextWhole == MarketInv /\ [MarketNext]_marketVars => MarketInv'
<1> SUFFICES ASSUME MarketInv, [MarketNext]_marketVars, TablesInv' PROVE WholeInv'
  BY NextTables DEF MarketInv
<1>1. CASE RegisterStep
  <2>1. PICK r \in Registrations : \E fees \in InstantFees(r) :
          \/ \E who \in Consumers : Register(who, r, fees)
          \/ \E n \in ProxySequence : RegisterFromProxy(n, r, fees)
    BY <1>1 DEF RegisterStep
  <2>2. \E fees \in InstantFees(r) : \E j \in Jobs : register_for(j, r, fees)
    <3>1. ASSUME NEW fees, NEW who \in Consumers, Register(who, r, fees)
          PROVE  \E j \in Jobs : register_for(j, r, fees)
      <4>1. last_job_id + 1 \in 1 .. MaxJobs
        BY <3>1, MarketAssumption DEF Register, MarketInv, TablesInv, JobsInv
      <4>2. <<who, last_job_id + 1>> \in Jobs
        BY <4>1 DEF Jobs
      <4> QED BY <3>1, <4>2 DEF Register
    <3>2. ASSUME NEW fees, NEW n \in ProxySequence, RegisterFromProxy(n, r, fees)
          PROVE  \E j \in Jobs : register_for(j, r, fees)
      <4>1. <<Hyperdrive, n>> \in Jobs
        BY DEF Jobs
      <4> QED BY <3>2, <4>1 DEF RegisterFromProxy
    <3> QED BY <2>1, <3>1, <3>2
  <2> QED BY <2>2, RegisterWhole
<1>2. CASE MatchStep
  <2>1. PICK m \in Matchers, j \in DOMAIN jobs, e \in ProposedExecutions, plan \in Plans :
          \E fees \in [DOMAIN plan -> Fees] :
            \/ e = All /\ ProposeMatching(m, j, plan, fees)
            \/ e # All /\ ProposeExecutionMatching(m, j, e, plan, fees)
    BY <1>2 DEF MatchStep
  <2>2. PICK fees \in [DOMAIN plan -> Fees] :
            \/ e = All /\ ProposeMatching(m, j, plan, fees)
            \/ e # All /\ ProposeExecutionMatching(m, j, e, plan, fees)
    BY <2>1
  <2>3. CASE e = All
    BY <2>2, <2>3, ProposeMatchingWhole
  <2>4. CASE e # All
    <3>1. e \in Nat /\ ProposeExecutionMatching(m, j, e, plan, fees)
      BY <2>2, <2>4, MarketAssumption
    <3>2. e \in Indices
      BY <3>1, ProposeExecutionMatchingTables DEF MarketInv
    <3> QED BY <3>1, <3>2, ProposeExecutionMatchingWhole
  <2> QED BY <2>3, <2>4
<1>3. ASSUME NEW j \in Jobs, Deregister(j) PROVE WholeInv'
  BY <1>3, DeregisterWhole
<1>4. ASSUME NEW p \in Processors, NEW j \in Jobs, NEW e \in Executions, AcknowledgeMatch(p, j, e)
      PROVE  WholeInv'
  BY <1>4, AcknowledgeMatchWhole
<1>5. ASSUME NEW p \in Processors, NEW j \in Jobs, Report(p, j) PROVE WholeInv'
  BY <1>5, ReportWhole
<1>6. CASE \/ \E j \in Jobs : \/ CleanupJobMatcher(j)
                              \/ CleanupJobAssignments(j)
                              \/ \E s \in SUBSET Processors : CleanupStorage(j, s)
                              \/ \E s \in SourceLists : UpdateAllowedSources(j, s)
           \/ \E p \in Processors, j \in Jobs : CleanupAssignment(p, j)
           \/ \E p \in Processors : \/ \E c \in {None} \cup SUBSET Consumers : Advertise(p, c)
                                    \/ DeleteAdvertisement(p)
                                    \/ Attest(p)
                                    \/ RevokeAttestation(p)
           \/ Tick
           \/ UNCHANGED marketVars
  BY <1>6, OtherWhole DEF CleanupJobAssignments, CleanupStorage, CleanupAssignment
<1> QED BY <1>1, <1>2, <1>3, <1>4, <1>5, <1>6 DEF MarketNext

\* Tables, budgets and whole-job matches, in every market.
THEOREM MarketInvCorrect == MarketSpec => []MarketInv
<1>1. MarketInit => MarketInv
  BY InitTables, InitWhole DEF MarketInv
<1> QED BY <1>1, NextWhole, PTL DEF MarketSpec

\* The reward that register locks covers every fee and matcher share that
\* whole-job matches can still claim.
THEOREM SingleJobSolventCorrect == MarketSpec => []SingleJobSolvent
<1>1. MarketInv => SingleJobSolvent
  <2> SUFFICES ASSUME MarketInv, NEW j \in DOMAIN jobs, NeverExecutionMatched(j)
               PROVE  budgets[j] >= IF job_status[j] = Open THEN total_reward_amount(jobs[j])
                        ELSE SumOver([p \in AssignedTo(j) |-> Outstanding(j, p)], AssignedTo(j))
    BY DEF SingleJobSolvent
  <2>1. j \in Jobs
    BY DEF MarketInv, TablesInv, JobsInv
  <2>2. Solvent(j)
    BY <2>1 DEF MarketInv, WholeInv, JobWhole
  <2> QED BY <2>2 DEF Solvent, Claims
<1> QED BY <1>1, MarketInvCorrect, PTL

\* What deregister pays is among the claims of the job.
LEMMA CompensationCovered ==
    ASSUME MarketInv, NEW j \in DOMAIN jobs, NeverExecutionMatched(j)
    PROVE  Compensation(j) <= budgets[j]
<1>1. j \in Jobs /\ budgets[j] \in Nat
  BY DEF MarketInv, TablesInv, JobsInv, BudgetInv
<1>2. WholeJob(j) /\ Solvent(j)
  BY <1>1 DEF MarketInv, WholeInv, JobWhole
<1>3. CASE job_status[j].state # "Assigned"
  BY <1>1, <1>3 DEF Compensation
<1>4. CASE job_status[j].state = "Assigned"
  <2> DEFINE S == AssignedTo(j)
             paid == {p \in S : Compensated(j, p)}
             f == [p \in S |-> Outstanding(j, p)]
             g == [p \in paid |-> matches[<<p, j>>].fee_per_execution]
  <2>1. AllWhole(j)
    BY <1>2 DEF WholeJob, AllWhole
  <2>2. /\ S = {p \in Processors : <<p, j>> \in DOMAIN matches}
        /\ \A p \in S : Outstanding(j, p) \in Nat
    BY <2>1, ClaimsType DEF ClaimsTyped, MarketInv
  <2>3. IsFiniteSet(S) /\ paid \in SUBSET S /\ IsFiniteSet(paid)
    BY AssignedFinite, FS_Subset
  <2>4. ASSUME NEW p \in paid PROVE g[p] \in Nat /\ g[p] <= f[p]
    <3> DEFINE a == matches[<<p, j>>]
               left == a.total - a.met
    <3>1. p \in Processors /\ <<p, j>> \in DOMAIN matches /\ a.acknowledged
      BY <2>2, <2>4 DEF Compensated
    <3>2. WholeMatch(j, p)
      BY <2>1, <3>1 DEF AllWhole
    <3>3. a.fee_per_execution \in Nat /\ a.met \in Nat /\ a.total \in Nat
      BY <3>1, StoredTerms DEF MarketInv
    <3>4. next_report[j][p] \in Nat /\ a.met <= next_report[j][p] /\ next_report[j][p] < a.total
      BY <1>1, <3>1, <3>2 DEF WholeMatch, MarketInv, TablesInv, AssignInv
    <3>5. left \in Nat /\ left >= 1
      BY <3>3, <3>4
    <3>6. Outstanding(j, p) = a.fee_per_execution * left + 0
      BY <3>1 DEF Outstanding
    <3> HIDE DEF left
    <3>7. a.fee_per_execution <= a.fee_per_execution * left /\ a.fee_per_execution * left \in Nat
      BY <3>3, <3>5, ProductType
    <3>8. f[p] = Outstanding(j, p) /\ g[p] = a.fee_per_execution
      BY <2>4
    <3> HIDE DEF f, g, a
    <3> QED BY <3>3, <3>6, <3>7, <3>8
  <2>5. job_status[j] # Open
    BY <1>4 DEF Open
  <2>6. budgets[j] >= SumOver(f, S)
    BY <1>2, <2>5 DEF Solvent, Claims
  <2>7. Compensation(j) = SumOver(g, paid)
    BY <1>4 DEF Compensation
  <2>8. \A p \in S : f[p] \in Nat
    BY <2>2
  <2> HIDE DEF f, g, paid, S
  <2>9. SumOver(g, paid) <= SumOver(f, S)
    <3>1. \A p \in paid : g[p] \in Int /\ g[p] <= f[p]
      BY <2>4
    <3> QED BY <2>3, <2>8, <3>1, SumShrink
  <2>10. SumOver(g, paid) \in Nat /\ SumOver(f, S) \in Nat
    BY <2>3, <2>4, <2>8, SumNat
  <2> QED BY <1>1, <2>6, <2>7, <2>9, <2>10
<1> QED BY <1>3, <1>4

\* The owner of a job of whole-job matches can always deregister it: its
\* budget covers the compensation, the pallet's account covers the budget and
\* stays alive, and so does whoever is refunded.
THEOREM DeregisterNeverBlockedCorrect == MarketSpec => []DeregisterNeverBlocked
<1>1. ASSUME MarketInv, NEW j \in DOMAIN jobs, NeverExecutionMatched(j) PROVE CanDeregister(j)
  <2> DEFINE n == Compensation(j)
             w == Withdraw(ledger, Pallet, n)
  <2>1. j \in Jobs /\ budgets[j] \in Nat /\ ledger \in Ledgers /\ n \in Nat /\ n <= budgets[j]
        /\ ExistentialDeposit \in Nat
    BY <1>1, CompensationType, CompensationCovered, ExistentialDepositAssumption
       DEF MarketInv, TablesInv, JobsInv, BudgetInv
  <2>2. j[1] \in Accounts /\ j[1] # Pallet /\ Pallet \in Accounts
        /\ ledger.free[Pallet] \in Nat /\ ledger.free[j[1]] \in Nat
    BY <2>1, JobOwner DEF Ledgers
  <2>3. ledger.free[Pallet] >= budgets[j] + ExistentialDeposit
    BY <1>1, <2>1, BudgetCovered DEF MarketInv, TablesInv
  <2>4. budgets[j] > 0 => ledger.free[j[1]] >= ExistentialDeposit
    BY <1>1, <2>1 DEF MarketInv, TablesInv, BudgetInv
  <2> HIDE DEF n
  <2>5. w.free[Pallet] = ledger.free[Pallet] - n /\ w.free[j[1]] = ledger.free[j[1]]
    <3>1. ledger.free[Pallet] >= n
      BY <2>1, <2>2, <2>3
    <3>2. \A c \in Accounts : w.free[c] = ledger.free[c] - (IF c = Pallet THEN n ELSE 0)
      BY <2>1, <2>2, <3>1, WithdrawMoves
    <3> HIDE DEF w
    <3> QED BY <2>2, <3>2
  <2> HIDE DEF w
  <2>6. CanHandleReward(j, n)
    BY <2>1, <2>2, <2>3 DEF CanHandleReward, CanWithdraw
  <2>7. CanTransfer(w, Pallet, j[1], budgets[j] - n)
    BY <2>1, <2>2, <2>3, <2>4, <2>5 DEF CanTransfer, CanWithdraw, CanDeposit
  <2> QED BY <2>6, <2>7 DEF CanDeregister, Refund, n, w
<1>2. MarketInv => DeregisterNeverBlocked
  BY <1>1 DEF DeregisterNeverBlocked
<1> QED BY <1>2, MarketInvCorrect, PTL

-----------------------------------------------------------------------------
\* Executions are never matched one by one.
OnlyWhole == \A j \in Jobs : NeverExecutionMatched(j)

\* If matchers propose whole-job matches only, no execution gets a status of
\* its own.
LEMMA NextOnlyWhole ==
    ASSUME ProposedExecutions = {All}, MarketInv, OnlyWhole, [MarketNext]_marketVars
    PROVE  OnlyWhole'
<1>0. exec_status \in [Jobs -> [Indices -> Statuses]]
  BY DEF MarketInv, TablesInv, JobsInv
<1>1. ASSUME UNCHANGED exec_status PROVE OnlyWhole'
  BY <1>1 DEF OnlyWhole, NeverExecutionMatched
<1>2. ASSUME NEW j \in Jobs, Deregister(j) PROVE OnlyWhole'
  <2>1. PICK limit : \E left \in Cleared(exec_status[j], Open, limit) :
            exec_status' = [exec_status EXCEPT ![j] = left]
    BY <1>2 DEF Deregister
  <2>2. PICK left \in Cleared(exec_status[j], Open, limit) :
            exec_status' = [exec_status EXCEPT ![j] = left]
    BY <2>1
  <2>3. \A i \in Indices : left[i] = Open
    BY <1>0 DEF Cleared, OnlyWhole, NeverExecutionMatched
  <2> QED BY <1>0, <2>2, <2>3 DEF OnlyWhole, NeverExecutionMatched
<1>3. ASSUME NEW p \in Processors, NEW j \in Jobs, NEW e \in Executions, AcknowledgeMatch(p, j, e)
      PROVE  OnlyWhole'
  <2>1. WholeJob(j) /\ <<p, j>> \in DOMAIN matches /\ matches[<<p, j>>].execution = e
    BY <1>3 DEF AcknowledgeMatch, MarketInv, WholeInv, JobWhole, OnlyWhole
  <2>2. e = All
    BY <2>1 DEF WholeJob, WholeMatch
  <2>3. UNCHANGED exec_status
    BY <1>3, <2>2 DEF AcknowledgeMatch
  <2> QED BY <1>1, <2>3
<1>4. CASE MatchStep
  <2>1. UNCHANGED exec_status
    BY <1>4 DEF MatchStep, ProposeMatching
  <2> QED BY <1>1, <2>1
<1>5. CASE RegisterStep
  <2>1. UNCHANGED exec_status
    <3>1. ASSUME NEW j, NEW r, NEW fees, register_for(j, r, fees) PROVE UNCHANGED exec_status
      BY <3>1 DEF register_for
    <3>2. PICK r \in Registrations : \E fees \in InstantFees(r) :
              \/ \E who \in Consumers : Register(who, r, fees)
              \/ \E n \in ProxySequence : RegisterFromProxy(n, r, fees)
      BY <1>5 DEF RegisterStep
    <3> QED BY <3>1, <3>2 DEF Register, RegisterFromProxy
  <2> QED BY <1>1, <2>1
<1>6. CASE \/ \E j \in Jobs : \/ CleanupJobMatcher(j)
                              \/ CleanupJobAssignments(j)
                              \/ \E s \in SUBSET Processors : CleanupStorage(j, s)
                              \/ \E s \in SourceLists : UpdateAllowedSources(j, s)
           \/ \E p \in Processors, j \in Jobs : CleanupAssignment(p, j)
           \/ \E p \in Processors : \/ \E c \in {None} \cup SUBSET Consumers : Advertise(p, c)
                                    \/ DeleteAdvertisement(p)
                                    \/ Attest(p)
                                    \/ RevokeAttestation(p)
           \/ Tick
           \/ UNCHANGED marketVars
  <2>1. UNCHANGED exec_status
    BY <1>6 DEF CleanupJobMatcher, CleanupJobAssignments, CleanupStorage, UpdateAllowedSources,
                CleanupAssignment, Unassign, Advertise, DeleteAdvertisement, Attest,
                RevokeAttestation, Tick, marketVars, registry
  <2> QED BY <1>1, <2>1
<1>7. ASSUME NEW p \in Processors, NEW j \in Jobs, Report(p, j) PROVE OnlyWhole'
  <2>1. UNCHANGED exec_status
    BY <1>7 DEF Report, registry
  <2> QED BY <1>1, <2>1
<1> QED BY <1>2, <1>3, <1>4, <1>5, <1>6, <1>7 DEF MarketNext

\* Reports are rewarded at most once per execution, as long as matchers
\* propose whole-job matches only.
THEOREM RewardedOnceCorrect ==
    ASSUME ProposedExecutions = {All}
    PROVE  MarketSpec => []RewardedOncePerExecution
<1>1. MarketInit => OnlyWhole
  BY DEF MarketInit, OnlyWhole, NeverExecutionMatched
<1>2. MarketInv /\ OnlyWhole /\ [MarketNext]_marketVars => OnlyWhole'
  BY NextOnlyWhole
<1>3. MarketInv /\ OnlyWhole => RewardedOncePerExecution
  BY DEF MarketInv, WholeInv, JobWhole, OnlyWhole, WholeJob, RewardedOncePerExecution
<1> QED BY <1>1, <1>2, <1>3, MarketInvCorrect, PTL DEF MarketSpec

-----------------------------------------------------------------------------
(***************************************************************************)
(* The number of rewards.  A match grants rewards for the executions it is *)
(* for, and a cleanup may forget them; what counts is that no execution is *)
(* matched twice.  An execution whose match is forgotten, two executions   *)
(* later, has begun by then and is not matched again.                      *)
(***************************************************************************)
\* The rewards a match may still take, and all matches of a job.
DueOf(j, p) ==
    IF <<p, j>> \in DOMAIN matches THEN matches[<<p, j>>].total - matches[<<p, j>>].met ELSE 0

Due(j) == SumOver([p \in Processors |-> DueOf(j, p)], Processors)

\* The executions of a job that were matched one by one or have begun.
Used(j) ==
    LET s == jobs[j].schedule
    IN  {i \in Indices : /\ i < execution_count(s)
                         /\ \/ exec_status[j][i] # Open
                            \/ s.start_time + s.interval * i <= now}

\* The executions granted for a slot of a job: all of them by a whole-job match,
\* and the ones used if there were matches of executions.
Granted(j) ==
    (IF "whole" \in matched_as[j] THEN execution_count(jobs[j].schedule) ELSE 0)
      + (IF "execution" \in matched_as[j] THEN Cardinality(Used(j)) ELSE 0)

Unrewarded(j) == \A p \in Processors, i \in Indices : rewarded[j][p][i] = 0

SpacedJob(j) == "execution" \in matched_as[j] => Spaced(jobs[j].schedule)

JobBounded(j) ==
    /\ \A p \in Processors : DueOf(j, p) \in Nat
    /\ matched_as[j] \in SUBSET MatchKinds
    /\ matched_as[j] = {} <=> StatusOf(j) = Open
    /\ StatusOf(j) = Open => Unrewarded(j)
    /\ j \in DOMAIN jobs /\ SpacedJob(j) => Rewards(j) + Due(j) <= jobs[j].slots * Granted(j)

BoundInv ==
    /\ matched_as \in [Jobs -> SUBSET MatchKinds]
    /\ \A j \in Jobs : JobBounded(j)

\* There are finitely many processors and executions.
LEMMA RewardsFinite == IsFiniteSet(Processors) /\ IsFiniteSet(Processors \X Indices)
<1>1. IsFiniteSet(Indices)
  BY FS_Interval, MarketAssumption DEF Indices
<1> QED BY <1>1, FS_Product, MarketAssumption

\* What is counted of a job is a natural number ...
Counted(j) ==
    /\ Rewards(j) \in Nat
    /\ (\A p \in Processors : DueOf(j, p) \in Nat) => Due(j) \in Nat
    /\ j \in DOMAIN jobs =>
          /\ IsFiniteSet(Used(j)) /\ Cardinality(Used(j)) \in Nat
          /\ Cardinality(Used(j)) <= execution_count(jobs[j].schedule)
          /\ execution_count(jobs[j].schedule) \in Nat /\ jobs[j].slots \in Nat
          /\ Granted(j) \in Nat

LEMMA CountsType == TablesInv => \A j \in Jobs : Counted(j)
<1> SUFFICES ASSUME TablesInv, NEW j \in Jobs PROVE Counted(j)
  OBVIOUS
<1>1. Rewards(j) \in Nat
  <2> DEFINE f == [x \in Processors \X Indices |-> rewarded[j][x[1]][x[2]]]
  <2>1. rewarded \in [Jobs -> [Processors -> [Indices -> Nat]]]
    BY DEF TablesInv, AssignInv
  <2>2. \A x \in Processors \X Indices : f[x] \in Nat
    BY <2>1
  <2> HIDE DEF f
  <2>3. SumOver(f, Processors \X Indices) \in Nat
    BY <2>2, RewardsFinite, SumNat
  <2> QED BY <2>3 DEF Rewards, f
<1>2. ASSUME \A p \in Processors : DueOf(j, p) \in Nat PROVE Due(j) \in Nat
  <2> DEFINE f == [p \in Processors |-> DueOf(j, p)]
  <2>1. \A p \in Processors : f[p] \in Nat
    BY <1>2
  <2> HIDE DEF f
  <2>2. SumOver(f, Processors) \in Nat
    BY <2>1, RewardsFinite, SumNat
  <2> QED BY <2>2 DEF Due, f
<1>3. ASSUME j \in DOMAIN jobs
      PROVE  /\ IsFiniteSet(Used(j)) /\ Cardinality(Used(j)) \in Nat
             /\ Cardinality(Used(j)) <= execution_count(jobs[j].schedule)
             /\ execution_count(jobs[j].schedule) \in Nat /\ jobs[j].slots \in Nat
             /\ Granted(j) \in Nat
  <2> DEFINE n == execution_count(jobs[j].schedule)
  <2>1. n \in Nat /\ jobs[j].slots \in Nat
    BY <1>3, CountType DEF TablesInv, JobsInv, RegisteredWell
  <2>2. Used(j) \subseteq 0 .. n - 1
    <3>1. \A i \in Used(j) : i \in Nat /\ i < n
      BY IndexType DEF Used
    <3> HIDE DEF n
    <3> QED BY <2>1, <3>1
  <2> HIDE DEF n
  <2>3. IsFiniteSet(0 .. n - 1) /\ Cardinality(0 .. n - 1) = n
    <3>1. n - 1 \in Int /\ 0 \in Int
      BY <2>1
    <3>2. Cardinality(0 .. n - 1) = (IF 0 > n - 1 THEN 0 ELSE (n - 1) - 0 + 1)
          /\ IsFiniteSet(0 .. n - 1)
      BY <3>1, FS_Interval
    <3> QED BY <2>1, <3>2
  <2>4. IsFiniteSet(Used(j)) /\ Cardinality(Used(j)) <= n
    BY <2>2, <2>3, FS_Subset
  <2>5. Cardinality(Used(j)) \in Nat
    BY <2>4, FS_CardinalityType
  <2>6. Granted(j) \in Nat
    <3>1. Granted(j) = (IF "whole" \in matched_as[j] THEN n ELSE 0)
                          + (IF "execution" \in matched_as[j] THEN Cardinality(Used(j)) ELSE 0)
      BY DEF Granted, n
    <3> QED BY <2>1, <2>5, <3>1
  <2> QED BY <2>1, <2>4, <2>5, <2>6 DEF n
<1> QED BY <1>1, <1>2, <1>3 DEF Counted

\* ... also after a step.
LEMMA CountsTypeNext == ASSUME TablesInv' PROVE (\A j \in Jobs : Counted(j))'
BY CountsType, PTL

\* A job that nobody was matched with keeps within any bound ...
LEMMA NothingDue ==
    TablesInv => \A j \in Jobs :
        /\ Unrewarded(j) /\ \A p \in Processors : <<p, j>> \notin DOMAIN matches
        /\ matched_as[j] = {} /\ StatusOf(j) = Open
        => JobBounded(j)
<1> SUFFICES ASSUME TablesInv, NEW j \in Jobs,
                    Unrewarded(j), \A p \in Processors : <<p, j>> \notin DOMAIN matches,
                    matched_as[j] = {}, StatusOf(j) = Open
             PROVE  JobBounded(j)
  OBVIOUS
<1>1. \A p \in Processors : DueOf(j, p) = 0
  BY DEF DueOf
<1>2. Rewards(j) = 0
  <2> DEFINE f == [x \in Processors \X Indices |-> rewarded[j][x[1]][x[2]]]
  <2>1. \A x \in Processors \X Indices : f[x] = 0
    BY DEF Unrewarded
  <2> HIDE DEF f
  <2>2. SumOver(f, Processors \X Indices) = 0
    BY <2>1, RewardsFinite, SumZero
  <2> QED BY <2>2 DEF Rewards, f
<1>3. Due(j) = 0
  <2> DEFINE f == [p \in Processors |-> DueOf(j, p)]
  <2>1. \A p \in Processors : f[p] = 0
    BY <1>1
  <2> HIDE DEF f
  <2>2. SumOver(f, Processors) = 0
    BY <2>1, RewardsFinite, SumZero
  <2> QED BY <2>2 DEF Due, f
<1>4. ASSUME j \in DOMAIN jobs PROVE Rewards(j) + Due(j) <= jobs[j].slots * Granted(j)
  <2>1. jobs[j].slots \in Nat /\ Granted(j) \in Nat
    BY <1>4, CountsType DEF Counted
  <2>2. jobs[j].slots * Granted(j) \in Nat
    BY <2>1, ProductType
  <2> QED BY <1>2, <1>3, <2>2
<1> QED BY <1>1, <1>4 DEF JobBounded

\* ... also after a step.
LEMMA NothingDueNext ==
    ASSUME TablesInv'
    PROVE  (\A j \in Jobs :
        /\ Unrewarded(j) /\ \A p \in Processors : <<p, j>> \notin DOMAIN matches
        /\ matched_as[j] = {} /\ StatusOf(j) = Open
        => JobBounded(j))'
BY NothingDue, PTL

\* A factor that grows.
LEMMA ProductGrows ==
    ASSUME NEW m \in Nat, NEW a \in Nat, NEW b \in Nat, a <= b
    PROVE  m * a <= m * b /\ m * (a + 1) = m * a + m
<1>1. PICK k \in Nat : b = a + k
  <2>1. b - a \in Nat /\ b = a + (b - a)
    OBVIOUS
  <2> QED BY <2>1
<1>2. m * (a + k) = m * a + m * k /\ m * k \in Nat /\ m * a \in Nat
  OBVIOUS
<1> QED BY <1>1, <1>2

\* More executions are granted by a match and once time has passed.
LEMMA GrantedGrows ==
    ASSUME TablesInv, TablesInv', NEW j \in Jobs, j \in DOMAIN jobs, j \in DOMAIN jobs',
           jobs'[j].slots = jobs[j].slots, jobs'[j].schedule = jobs[j].schedule,
           matched_as[j] \subseteq matched_as'[j],
           "execution" \in matched_as[j] => Used(j) \subseteq Used(j)'
    PROVE  /\ Granted(j) \in Nat /\ Granted(j)' \in Nat
           /\ jobs[j].slots \in Nat
           /\ jobs[j].slots * Granted(j) <= jobs[j].slots * Granted(j)'
           /\ \A i \in Used(j)' :
                 "execution" \in matched_as'[j] /\ ("execution" \in matched_as[j] => i \notin Used(j)) =>
                 jobs[j].slots * Granted(j) + jobs[j].slots <= jobs[j].slots * Granted(j)'
<1> DEFINE A == Used(j)
           B == Used(j)'
           m == jobs[j].slots
           n == execution_count(jobs[j].schedule)
           g == Granted(j)
           h == Granted(j)'
           w == "whole" \in matched_as[j]
           e == "execution" \in matched_as[j]
           v == "whole" \in matched_as'[j]
           f == "execution" \in matched_as'[j]
<1>1. /\ IsFiniteSet(A) /\ Cardinality(A) \in Nat /\ m \in Nat /\ n \in Nat /\ g \in Nat
  BY CountsType DEF Counted
<1>2. IsFiniteSet(B) /\ Cardinality(B) \in Nat /\ h \in Nat
  BY CountsTypeNext DEF Counted
<1>3. /\ e => A \subseteq B
      /\ w => v
      /\ e => f
      /\ g = (IF w THEN n ELSE 0) + (IF e THEN Cardinality(A) ELSE 0)
      /\ h = (IF v THEN n ELSE 0) + (IF f THEN Cardinality(B) ELSE 0)
  BY DEF Granted
<1> HIDE DEF A, B, m, n, g, h, w, e, v, f
<1>4. e => Cardinality(A) <= Cardinality(B)
  BY <1>2, <1>3, FS_Subset
<1>5. g <= h
  BY <1>1, <1>2, <1>3, <1>4
<1>6. m * g <= m * h
  BY <1>1, <1>2, <1>5, ProductGrows
<1>7. ASSUME NEW i \in B, f, e => i \notin A PROVE m * g + m <= m * h
  <2>1. e => Cardinality(A) + 1 <= Cardinality(B)
    <3> SUFFICES ASSUME e PROVE Cardinality(A) + 1 <= Cardinality(B)
      OBVIOUS
    <3>1. Cardinality(A \cup {i}) = Cardinality(A) + 1
      BY <1>1, <1>7, FS_AddElement
    <3>2. A \cup {i} \subseteq B
      BY <1>3, <1>7
    <3>3. Cardinality(A \cup {i}) <= Cardinality(B)
      BY <1>2, <3>2, FS_Subset
    <3> QED BY <3>1, <3>3
  <2>2. 1 <= Cardinality(B)
    <3>1. Cardinality(B) # 0
      BY <1>2, <1>7, FS_EmptySet
    <3> QED BY <1>2, <3>1
  <2>3. g + 1 \in Nat /\ g + 1 <= h
    BY <1>1, <1>2, <1>3, <1>7, <2>1, <2>2
  <2>4. m * (g + 1) <= m * h
    BY <1>1, <1>2, <2>3, ProductGrows
  <2>5. m * (g + 1) = m * g + m
    BY <1>1, <1>2, <1>5, ProductGrows
  <2> QED BY <2>4, <2>5
<1> QED BY <1>1, <1>2, <1>6, <1>7 DEF B, A, m, g, h, e, f

\* The dues of the matches of a job after a step, those of the processors in
\* S one higher at most, the others no higher.
LEMMA DueGrows ==
    ASSUME NEW j, NEW S \in SUBSET Processors,
           \A p \in Processors : DueOf(j, p) \in Nat /\ DueOf(j, p)' \in Nat,
           \A p \in Processors : DueOf(j, p)' <= DueOf(j, p) + (IF p \in S THEN 1 ELSE 0)
    PROVE  Due(j)' <= Due(j) + Cardinality(S)
<1> DEFINE f == [p \in Processors |-> DueOf(j, p)']
           g == [p \in Processors |-> DueOf(j, p)]
           h == [p \in Processors |-> IF p \in S THEN 1 ELSE 0]
<1>1. \A p \in Processors : f[p] \in Int /\ g[p] \in Int /\ h[p] \in Int /\ f[p] <= g[p] + h[p]
  OBVIOUS
<1>2. Due(j) = SumOver(g, Processors) /\ Due(j)' = SumOver(f, Processors)
  BY DEF Due
<1>3. /\ \A p \in Processors \ S : h[p] = 0
      /\ \A p \in S : h[p] \in Int /\ h[p] <= 1
  OBVIOUS
<1>4. IsFiniteSet(S) /\ Cardinality(S) \in Nat
  BY RewardsFinite, FS_Subset, FS_CardinalityType
<1> HIDE DEF f, g, h
<1>5. SumOver(f, Processors) <= SumOver(g, Processors) + SumOver(h, Processors)
  BY <1>1, RewardsFinite, SumTogether
<1>6. SumOver(h, Processors) = SumOver(h, S)
  BY <1>1, <1>3, RewardsFinite, SumOutside
<1>7. SumOver(h, S) <= Cardinality(S) * 1
  BY <1>3, <1>4, SumUpTo
<1>8. /\ SumOver(f, Processors) \in Int /\ SumOver(g, Processors) \in Int
      /\ SumOver(h, Processors) \in Int
  BY <1>1, RewardsFinite, SumInt
<1> QED BY <1>2, <1>4, <1>5, <1>6, <1>7, <1>8

\* Nothing is rewarded for job j and no execution of it becomes available;
\* some of its matches may be forgotten.
Quiet(j) ==
    /\ rewarded'[j] = rewarded[j]
    /\ j \in DOMAIN jobs' => /\ j \in DOMAIN jobs
                             /\ jobs'[j].slots = jobs[j].slots
                             /\ jobs'[j].schedule = jobs[j].schedule
    /\ StatusOf(j)' = Open <=> StatusOf(j) = Open
    /\ matched_as'[j] = matched_as[j]
    /\ now <= now'
    /\ \A i \in Indices : exec_status[j][i] # Open => exec_status'[j][i] # Open
    /\ \A p \in Processors : <<p, j>> \in DOMAIN matches' =>
          /\ <<p, j>> \in DOMAIN matches
          /\ matches'[<<p, j>>].total = matches[<<p, j>>].total
          /\ matches'[<<p, j>>].met = matches[<<p, j>>].met

\* What is used stays used.
LEMMA UsedStays ==
    ASSUME TablesInv, TablesInv', NEW j \in Jobs, j \in DOMAIN jobs, Quiet(j),
           j \in DOMAIN jobs'
    PROVE  Used(j) \subseteq Used(j)'
<1> DEFINE s == jobs[j].schedule
<1>1. jobs'[j].schedule = s
  BY DEF Quiet
<1>2. now \in Nat /\ now' \in Nat /\ now <= now'
  BY DEF Quiet, TablesInv, JobsInv
<1>3. s.start_time \in Nat /\ s.interval \in Nat
  BY TimeAssumption DEF TablesInv, JobsInv, RegisteredWell, Schedules, Times
<1> SUFFICES ASSUME NEW i \in Used(j) PROVE i \in Used(j)'
  OBVIOUS
<1>4. /\ i \in Indices /\ i < execution_count(s) /\ i \in Nat
      /\ \/ exec_status[j][i] # Open
         \/ s.start_time + s.interval * i <= now
  BY IndexType DEF Used
<1>5. s.start_time + s.interval * i \in Nat
  BY <1>3, <1>4
<1> DEFINE b == s.start_time + s.interval * i
<1>6. b <= now => b <= now'
  <2>1. b \in Nat
    BY <1>5
  <2> HIDE DEF b
  <2> QED BY <1>2, <2>1
<1>7. \/ exec_status'[j][i] # Open
      \/ s.start_time + s.interval * i <= now'
  BY <1>4, <1>6 DEF Quiet
<1>8. i < execution_count(jobs'[j].schedule)
  BY <1>1, <1>4
<1>9. \/ exec_status'[j][i] # Open
      \/ jobs'[j].schedule.start_time + jobs'[j].schedule.interval * i <= now'
  BY <1>1, <1>7
<1> QED BY <1>4, <1>8, <1>9, Zenon DEF Used

\* Such a step keeps the bound.
LEMMA QuietBounded ==
    ASSUME TablesInv, TablesInv', NEW j \in Jobs, JobBounded(j), Quiet(j)
    PROVE  JobBounded(j)'
<1>1. \A p \in Processors : DueOf(j, p)' \in Nat /\ DueOf(j, p)' <= DueOf(j, p)
  <2> SUFFICES ASSUME NEW p \in Processors PROVE DueOf(j, p)' \in Nat /\ DueOf(j, p)' <= DueOf(j, p)
    OBVIOUS
  <2>1. DueOf(j, p) \in Nat
    BY DEF JobBounded
  <2>2. DueOf(j, p)' = 0 \/ DueOf(j, p)' = DueOf(j, p)
    BY DEF DueOf, Quiet
  <2> QED BY <2>1, <2>2
<1>2. StatusOf(j)' = Open => Unrewarded(j)'
  BY DEF JobBounded, Quiet, Unrewarded
<1>3. ASSUME j \in DOMAIN jobs', SpacedJob(j)'
      PROVE  Rewards(j)' + Due(j)' <= jobs'[j].slots * Granted(j)'
  <2>1. /\ j \in DOMAIN jobs /\ jobs'[j].slots = jobs[j].slots
        /\ jobs'[j].schedule = jobs[j].schedule
    BY <1>3 DEF Quiet
  <2>2. Rewards(j)' = Rewards(j)
    BY DEF Rewards, Quiet
  <2>3. Due(j)' <= Due(j) + Cardinality({})
    <3>1. \A p \in Processors : /\ DueOf(j, p) \in Nat /\ DueOf(j, p)' \in Nat
                                /\ DueOf(j, p)' <= DueOf(j, p) + (IF p \in {} THEN 1 ELSE 0)
      BY <1>1 DEF JobBounded
    <3>2. {} \in SUBSET Processors
      OBVIOUS
    <3> QED BY <3>1, <3>2, DueGrows
  <2>4. Cardinality({}) = 0
    BY FS_EmptySet
  <2>5. Rewards(j) \in Nat /\ Due(j) \in Nat
    BY CountsType DEF Counted, JobBounded
  <2>6. Due(j)' \in Nat
    BY <1>1, CountsTypeNext DEF Counted
  <2>7. Rewards(j)' + Due(j)' <= Rewards(j) + Due(j)
    BY <2>2, <2>3, <2>4, <2>5, <2>6
  <2>8. Rewards(j) + Due(j) <= jobs[j].slots * Granted(j)
    <3>1. SpacedJob(j)
      BY <1>3, <2>1 DEF SpacedJob, Quiet, Spaced
    <3> QED BY <2>1, <3>1 DEF JobBounded
  <2>9. Used(j) \subseteq Used(j)'
    BY <1>3, <2>1, UsedStays
  <2>10. /\ jobs[j].slots * Granted(j) <= jobs[j].slots * Granted(j)'
         /\ jobs[j].slots \in Nat /\ Granted(j) \in Nat /\ Granted(j)' \in Nat
    <3>1. matched_as[j] \subseteq matched_as'[j]
      BY DEF Quiet
    <3> QED BY <1>3, <2>1, <2>9, <3>1, GrantedGrows
  <2>11. /\ jobs[j].slots * Granted(j) \in Nat
         /\ jobs[j].slots * Granted(j)' \in Nat
    BY <2>10, ProductType
  <2> DEFINE x == jobs[j].slots * Granted(j)
             y == jobs[j].slots * Granted(j)'
  <2>12. x \in Nat /\ y \in Nat /\ x <= y /\ Rewards(j) + Due(j) <= x
    BY <2>8, <2>10, <2>11
  <2> HIDE DEF x, y
  <2>13. Rewards(j)' + Due(j)' <= y
    BY <2>2, <2>5, <2>6, <2>7, <2>12
  <2> QED BY <2>1, <2>13 DEF y
<1>4. matched_as'[j] \in SUBSET MatchKinds /\ (matched_as'[j] = {} <=> StatusOf(j)' = Open)
  BY DEF JobBounded, Quiet
<1> QED BY <1>1, <1>2, <1>3, <1>4 DEF JobBounded

\* report: a reward more is paid, and the match may take one less.
LEMMA ReportBounded ==
    ASSUME TablesInv, TablesInv', BoundInv, NEW p \in Processors, NEW j \in Jobs, Report(p, j)
    PROVE  BoundInv'
<1> DEFINE a == matches[<<p, j>>]
<1>1. PICK index \in Nat, next \in Nat \cup {None} : ReportFor(p, j, index, next)
  BY ReportIsFor
<1>2. /\ j \in DOMAIN jobs /\ <<p, j>> \in DOMAIN matches /\ a \in Assignments
      /\ a.met < a.total
      /\ rewarded' = [rewarded EXCEPT ![j][p][index] = @ + 1]
      /\ now' = now /\ jobs' = jobs /\ job_status' = job_status /\ exec_status' = exec_status
      /\ matched_as' = matched_as
  BY <1>1 DEF ReportFor, registry
<1>3. a.met \in Nat /\ a.total \in Nat
  BY <1>2 DEF Assignments
<1>4. rewarded \in [Jobs -> [Processors -> [Indices -> Nat]]] /\ now \in Nat
  BY DEF TablesInv, AssignInv, JobsInv
<1>5. \A k \in DOMAIN matches' : k \in DOMAIN matches /\ (k # <<p, j>> => matches'[k] = matches[k])
  BY <1>1 DEF ReportFor
<1>6. /\ next = None => <<p, j>> \notin DOMAIN matches'
      /\ next # None => matches'[<<p, j>>] = [a EXCEPT !.met = @ + 1]
  BY <1>1, <1>2 DEF ReportFor
<1>7. next # None => matches'[<<p, j>>].met = a.met + 1 /\ matches'[<<p, j>>].total = a.total
  <2>1. [a EXCEPT !.met = @ + 1].met = a.met + 1 /\ [a EXCEPT !.met = @ + 1].total = a.total
    BY <1>2 DEF Assignments
  <2> QED BY <1>6, <2>1
<1>8. /\ \A i \in Indices : i # index => rewarded'[j][p][i] = rewarded[j][p][i]
      /\ index \in Indices => rewarded'[j][p][index] = rewarded[j][p][index] + 1
      /\ \A q \in Processors : q # p => rewarded'[j][q] = rewarded[j][q]
      /\ \A x \in Jobs : x # j => rewarded'[x] = rewarded[x]
  BY <1>2, <1>4
<1> HIDE DEF a
<1>9. ASSUME NEW x \in Jobs, x # j PROVE JobBounded(x)'
  <2>1. \A q \in Processors : <<q, x>> \in DOMAIN matches' =>
           <<q, x>> \in DOMAIN matches /\ matches'[<<q, x>>] = matches[<<q, x>>]
    BY <1>5, <1>9
  <2>2. StatusOf(x)' = StatusOf(x)
    BY <1>2 DEF StatusOf
  <2>3. now <= now'
    BY <1>2, <1>4
  <2>4. Quiet(x)
    BY <1>2, <1>8, <1>9, <2>1, <2>2, <2>3 DEF Quiet
  <2> QED BY <2>4, QuietBounded DEF BoundInv
<1>10. JobBounded(j)'
  <2>1. /\ \A q \in Processors : DueOf(j, q) \in Nat
        /\ SpacedJob(j) => Rewards(j) + Due(j) <= jobs[j].slots * Granted(j)
        /\ matched_as[j] \in SUBSET MatchKinds /\ (matched_as[j] = {} <=> StatusOf(j) = Open)
    BY <1>2 DEF BoundInv, JobBounded
  <2>2. DueOf(j, p) = a.total - a.met
    BY <1>2 DEF DueOf, a
  <2>3. DueOf(j, p)' \in Nat /\ DueOf(j, p)' <= DueOf(j, p) - 1
    <3>1. CASE next = None
      <4>1. DueOf(j, p)' = 0
        BY <1>6, <3>1 DEF DueOf
      <4> QED BY <1>2, <1>3, <2>2, <4>1
    <3>2. CASE next # None
      <4>1. DueOf(j, p)' = a.total - (a.met + 1) \/ DueOf(j, p)' = 0
        BY <1>7, <3>2 DEF DueOf
      <4> QED BY <1>2, <1>3, <2>2, <4>1
    <3> QED BY <3>1, <3>2
  <2>4. \A q \in Processors : q # p => DueOf(j, q)' = DueOf(j, q) \/ DueOf(j, q)' = 0
    <3> SUFFICES ASSUME NEW q \in Processors, q # p
                 PROVE  DueOf(j, q)' = DueOf(j, q) \/ DueOf(j, q)' = 0
      OBVIOUS
    <3>1. <<q, j>> # <<p, j>>
      OBVIOUS
    <3>2. <<q, j>> \in DOMAIN matches' =>
             <<q, j>> \in DOMAIN matches /\ matches'[<<q, j>>] = matches[<<q, j>>]
      BY <1>5, <3>1
    <3> QED BY <3>2 DEF DueOf
  <2>5. \A q \in Processors : DueOf(j, q)' \in Nat
    BY <2>1, <2>3, <2>4
  <2>6. Due(j)' + 1 <= Due(j)
    <3> DEFINE f == [q \in Processors |-> DueOf(j, q)']
               g == [q \in Processors |-> DueOf(j, q)]
    <3>1. /\ \A q \in Processors : g[q] \in Nat
          /\ \A q \in Processors : f[q] \in Int /\ f[q] <= g[q]
          /\ 1 <= g[p] /\ f[p] + 1 <= g[p]
      <4>1. \A q \in Processors : DueOf(j, q)' <= DueOf(j, q)
        BY <2>1, <2>3, <2>4
      <4>2. 1 <= DueOf(j, p) /\ DueOf(j, p)' + 1 <= DueOf(j, p)
        BY <2>1, <2>3
      <4> QED BY <2>1, <2>5, <4>1, <4>2
    <3>2. Due(j) = SumOver(g, Processors) /\ Due(j)' = SumOver(f, Processors)
      BY DEF Due
    <3> HIDE DEF f, g
    <3>3. Processors \in SUBSET Processors /\ 1 \in Nat
      OBVIOUS
    <3>4. SumOver(f, Processors) + 1 <= SumOver(g, Processors)
      BY <3>1, <3>3, RewardsFinite, SumDrop
    <3> QED BY <3>2, <3>4
  <2>7. Rewards(j)' <= Rewards(j) + 1
    <3> DEFINE f == [x \in Processors \X Indices |-> rewarded[j][x[1]][x[2]]]
               g == [x \in Processors \X Indices |-> rewarded'[j][x[1]][x[2]]]
               S == Processors \X Indices
               x == <<p, index>>
    <3>1. Rewards(j) = SumOver(f, S) /\ Rewards(j)' = SumOver(g, S)
      BY DEF Rewards
    <3>2. \A y \in S : f[y] \in Int
      BY <1>4
    <3>3. \A y \in S : y # x => g[y] = f[y]
      BY <1>8
    <3>4. IsFiniteSet(S)
      BY RewardsFinite
    <3>5. index \in Indices => x \in S /\ f[x] = rewarded[j][p][index] /\ g[x] = f[x] + 1
      BY <1>8
    <3>6. index \notin Indices => x \notin S
      OBVIOUS
    <3> HIDE DEF f, g, S, x
    <3>7. CASE index \in Indices
      <4>1. g[x] \in Int /\ f[x] \in Int /\ x \in S
        BY <3>2, <3>5, <3>7
      <4>2. SumOver(g, S) = SumOver(f, S) - f[x] + g[x]
        BY <3>2, <3>3, <3>4, <4>1, SumChange
      <4>3. SumOver(f, S) \in Int
        BY <3>2, <3>4, SumInt
      <4> QED BY <3>1, <3>5, <3>7, <4>1, <4>2, <4>3
    <3>8. CASE index \notin Indices
      <4>1. \A y \in S : g[y] = f[y]
        BY <3>3, <3>6, <3>8
      <4>2. SumOver(g, S) = SumOver(f, S)
        BY <3>4, <4>1, SumSame
      <4>3. SumOver(f, S) \in Int
        BY <3>2, <3>4, SumInt
      <4> QED BY <3>1, <4>2, <4>3
    <3> QED BY <3>7, <3>8
  <2>8. Granted(j)' = Granted(j) /\ SpacedJob(j)' = SpacedJob(j) /\ StatusOf(j)' = StatusOf(j)
    <3>1. Used(j)' = Used(j)
      BY <1>2 DEF Used
    <3> QED BY <1>2, <3>1 DEF Granted, SpacedJob, StatusOf
  <2>9. Rewards(j) \in Nat /\ Due(j) \in Nat
    BY <2>1, CountsType DEF Counted
  <2>10. Rewards(j)' \in Nat /\ Due(j)' \in Nat
    BY <2>5, CountsTypeNext DEF Counted
  <2>11. jobs[j].slots \in Nat /\ Granted(j) \in Nat
    BY <1>2, CountsType DEF Counted
  <2> DEFINE y == jobs[j].slots * Granted(j)
  <2>12. y \in Nat
    BY <2>11, ProductType
  <2>13. SpacedJob(j) => Rewards(j) + Due(j) <= y
    BY <2>1
  <2> HIDE DEF y
  <2>14. SpacedJob(j) => Rewards(j)' + Due(j)' <= y
    BY <2>6, <2>7, <2>9, <2>10, <2>12, <2>13
  <2>15. StatusOf(j)' # Open
    BY <1>2 DEF StatusOf, TablesInv, MatchInv, MatchesTyped, NoOrphanAssignments
  <2> QED BY <1>2, <2>1, <2>5, <2>8, <2>14, <2>15 DEF JobBounded, y
<1> QED BY <1>2, <1>9, <1>10 DEF BoundInv

\* A match of execution i is due once execution i - 2 has begun.
LEMMA DueTwoLater ==
    ASSUME NEW s \in Schedules, NEW i \in Nat, Spaced(s), nth_start_time(s, 0, i) # None,
           NEW t \in Nat, t + MatchingCompetingDueDelta >= nth_start_time(s, 0, i), i >= 2
    PROVE  s.start_time + s.interval * (i - 2) <= t
<1>1. s.start_time \in Nat /\ s.interval \in Nat /\ MatchingCompetingDueDelta \in Nat
  BY TimeAssumption, MarketAssumption DEF Schedules, Times
<1>2. execution_count(s) \in Nat
  BY CountType
<1>3. i < execution_count(s) /\ nth_start_time(s, 0, i) = s.start_time + 0 + s.interval * i
  BY <1>2 DEF nth_start_time
<1>4. MatchingCompetingDueDelta <= 2 * s.interval
  BY <1>2, <1>3 DEF Spaced
<1>5. s.interval * (i - 2) = s.interval * i - 2 * s.interval
  BY <1>1
<1> DEFINE b == s.interval * i
           c == s.interval * (i - 2)
<1>6. b \in Int /\ c = b - 2 * s.interval /\ t + MatchingCompetingDueDelta >= s.start_time + b
  BY <1>1, <1>3, <1>5
<1> HIDE DEF b, c
<1>7. s.start_time + c <= t
  BY <1>1, <1>4, <1>6
<1> QED BY <1>7 DEF c

\* What a new assignment may take.
LEMMA NewAssignmentTerms ==
    ASSUME NEW e, NEW delay, NEW fee, NEW total, NEW met
    PROVE  /\ NewAssignment(e, delay, fee, total, met).total = total
           /\ NewAssignment(e, delay, fee, total, met).met = met
BY DEF NewAssignment

\* propose_execution_matching: an execution more is used, and as many
\* rewards more are due as the job has slots.
LEMMA ProposeExecutionMatchingBounded ==
    ASSUME TablesInv, TablesInv', BoundInv,
           NEW m, NEW j \in DOMAIN jobs, NEW i \in Nat, NEW plan \in Plans,
           NEW fees, ProposeExecutionMatching(m, j, i, plan, fees)
    PROVE  BoundInv'
<1> DEFINE kept == KeptMatches(j, i)
           new == KeysOf(j, DOMAIN plan)
           s == jobs[j].schedule
<1>1. /\ exec_status[j][i] = Open
      /\ nth_start_time(s, 0, i) # None
      /\ now < nth_start_time(s, 0, i)
      /\ now + MatchingCompetingDueDelta >= nth_start_time(s, 0, i)
      /\ Cardinality(DOMAIN plan) = jobs[j].slots
  BY DEF ProposeExecutionMatching, CanMatchExecution, ExecutionOpen
<1>2. /\ now' = now /\ jobs' = jobs /\ rewarded' = rewarded
      /\ job_status' = [job_status EXCEPT ![j] = Matched]
      /\ exec_status' = [exec_status EXCEPT ![j] = [x \in Indices |->
              IF x = i THEN Matched ELSE IF x = i - 2 THEN Open ELSE @[x]]]
      /\ matched_as' = [matched_as EXCEPT ![j] = @ \cup {"execution"}]
      /\ matched_as \in [Jobs -> SUBSET MatchKinds]
  BY DEF ProposeExecutionMatching, money, BoundInv
<1>3. /\ j \in Jobs /\ RegisteredWell(jobs[j]) /\ now \in Nat
      /\ DOMAIN job_status = DOMAIN jobs
      /\ exec_status \in [Jobs -> [Indices -> Statuses]]
  BY DEF TablesInv, MatchInv, MatchesTyped, JobsInv
<1>4. i \in Indices /\ i < execution_count(s)
  BY <1>1, <1>3, ExecutionIndex
<1>5. /\ \A k \in DOMAIN matches' : k \notin new => k \in DOMAIN matches /\ matches'[k] = matches[k]
      /\ \A k \in new : k \in DOMAIN matches'
      /\ \A k \in new :
            \/ /\ k \in DOMAIN matches
               /\ matches'[k] = NewAssignment(i, plan[k[1]], fees[k[1]], matches[k].total + 1, matches[k].met)
            \/ matches'[k] = NewAssignment(i, plan[k[1]], fees[k[1]], 1, 0)
  <2>1. matches' = [k \in DOMAIN kept \cup new |->
              IF k \notin new THEN kept[k]
              ELSE IF k \in DOMAIN kept
                   THEN NewAssignment(i, plan[k[1]], fees[k[1]], kept[k].total + 1, kept[k].met)
                   ELSE NewAssignment(i, plan[k[1]], fees[k[1]], 1, 0)]
    BY DEF ProposeExecutionMatching
  <2>2. \A k \in DOMAIN kept : k \in DOMAIN matches /\ kept[k] = matches[k]
    BY DEF KeptMatches
  <2> HIDE DEF kept, new
  <2> QED BY <2>1, <2>2
<1> HIDE DEF kept
<1>6. DOMAIN plan \in SUBSET Processors
  BY PlanSources
<1>7. \A x \in Jobs : x # j => /\ StatusOf(x)' = StatusOf(x) /\ exec_status'[x] = exec_status[x]
                               /\ matched_as'[x] = matched_as[x]
  BY <1>2, <1>3 DEF StatusOf
<1>8. ASSUME NEW x \in Jobs, x # j PROVE JobBounded(x)'
  <2>1. \A p \in Processors : <<p, x>> \notin new
    BY <1>8 DEF KeysOf
  <2> HIDE DEF new
  <2>2. \A p \in Processors : <<p, x>> \in DOMAIN matches' =>
           <<p, x>> \in DOMAIN matches /\ matches'[<<p, x>>] = matches[<<p, x>>]
    BY <1>5, <2>1
  <2>3. now <= now'
    BY <1>2, <1>3
  <2>4. Quiet(x)
    BY <1>2, <1>7, <1>8, <2>2, <2>3 DEF Quiet
  <2> QED BY <2>4, QuietBounded DEF BoundInv
<1>9. JobBounded(j)'
  <2>1. /\ \A p \in Processors : DueOf(j, p) \in Nat
        /\ SpacedJob(j) => Rewards(j) + Due(j) <= jobs[j].slots * Granted(j)
    BY <1>3 DEF BoundInv, JobBounded
  <2>2. \A p \in Processors : <<p, j>> \in new <=> p \in DOMAIN plan
    BY DEF KeysOf
  <2>3. \A p \in Processors : /\ DueOf(j, p)' \in Nat
                              /\ DueOf(j, p)' <= DueOf(j, p) + (IF p \in DOMAIN plan THEN 1 ELSE 0)
    <3> SUFFICES ASSUME NEW p \in Processors
                 PROVE  /\ DueOf(j, p)' \in Nat
                        /\ DueOf(j, p)' <= DueOf(j, p) + (IF p \in DOMAIN plan THEN 1 ELSE 0)
      OBVIOUS
    <3>1. DueOf(j, p) \in Nat
      BY <2>1
    <3> DEFINE k == <<p, j>>
    <3> HIDE DEF new
    <3>2. CASE p \notin DOMAIN plan
      <4>1. DueOf(j, p)' = DueOf(j, p) \/ DueOf(j, p)' = 0
        BY <1>5, <2>2, <3>2 DEF DueOf
      <4> QED BY <3>1, <3>2, <4>1
    <3>3. CASE p \in DOMAIN plan
      <4>1. k \in new /\ k \in DOMAIN matches'
        BY <1>5, <2>2, <3>3
      <4>2. \/ /\ k \in DOMAIN matches
               /\ matches'[k].total = matches[k].total + 1 /\ matches'[k].met = matches[k].met
            \/ matches'[k].total = 1 /\ matches'[k].met = 0
        <5>1. \/ /\ k \in DOMAIN matches
                 /\ matches'[k] = NewAssignment(i, plan[k[1]], fees[k[1]],
                                                matches[k].total + 1, matches[k].met)
              \/ matches'[k] = NewAssignment(i, plan[k[1]], fees[k[1]], 1, 0)
          BY <1>5, <4>1
        <5> QED BY <5>1, NewAssignmentTerms
      <4>3. DueOf(j, p)' = matches'[k].total - matches'[k].met
        BY <4>1 DEF DueOf
      <4>4. k \in DOMAIN matches => /\ matches[k].total \in Nat /\ matches[k].met \in Nat
                                    /\ DueOf(j, p) = matches[k].total - matches[k].met
        BY DEF DueOf, TablesInv, AssignInv, Assignments
      <4>5. DueOf(j, p)' = DueOf(j, p) + 1 \/ DueOf(j, p)' = 1
        <5>1. CASE k \in DOMAIN matches /\ matches'[k].total = matches[k].total + 1
                     /\ matches'[k].met = matches[k].met
          BY <4>3, <4>4, <5>1
        <5>2. CASE matches'[k].total = 1 /\ matches'[k].met = 0
          BY <4>3, <5>2
        <5> QED BY <4>2, <5>1, <5>2
      <4> QED BY <3>1, <3>3, <4>5
    <3> QED BY <3>2, <3>3
  <2>4. Due(j)' <= Due(j) + jobs[j].slots
    <3>1. Due(j)' <= Due(j) + Cardinality(DOMAIN plan)
      BY <1>6, <2>1, <2>3, DueGrows
    <3> QED BY <1>1, <3>1
  <2>5. Rewards(j)' = Rewards(j)
    BY <1>2 DEF Rewards
  <2>6. s \in Schedules /\ s.start_time \in Nat /\ s.interval \in Nat
    BY <1>3, TimeAssumption DEF RegisteredWell, Schedules, Times
  <2>7. /\ exec_status'[j][i] = Matched
        /\ \A x \in Indices : x # i /\ x # i - 2 => exec_status'[j][x] = exec_status[j][x]
    BY <1>2, <1>3, <1>4
  <2>8. i \in Used(j)' /\ (Spaced(s) => Used(j) \subseteq Used(j)')
    <3>1. i \in Used(j)'
      BY <1>2, <1>4, <2>7, NotOpen DEF Used
    <3>2. ASSUME Spaced(s), NEW x \in Used(j) PROVE x \in Used(j)'
      <4>1. x \in Indices /\ x < execution_count(s)
        BY DEF Used
      <4>2. CASE x = i
        BY <3>1, <4>2
      <4>3. CASE x = i - 2
        <5>1. i >= 2
          BY <4>1, <4>3, IndexType
        <5>2. s.start_time + s.interval * x <= now
          BY <1>1, <1>3, <2>6, <3>2, <4>3, <5>1, DueTwoLater
        <5> QED BY <1>2, <4>1, <5>2 DEF Used
      <4>4. CASE x # i /\ x # i - 2
        <5>1. exec_status'[j][x] = exec_status[j][x]
          BY <2>7, <4>1, <4>4
        <5>2. \/ exec_status[j][x] # Open
              \/ s.start_time + s.interval * x <= now
          BY DEF Used
        <5> QED BY <1>2, <4>1, <5>1, <5>2 DEF Used
      <4> QED BY <4>2, <4>3, <4>4
    <3> QED BY <3>1, <3>2
  <2>9. i \notin Used(j)
    <3>1. nth_start_time(s, 0, i) = s.start_time + 0 + s.interval * i
      BY <1>1 DEF nth_start_time
    <3> DEFINE b == s.interval * i
    <3>2. b \in Int /\ now < s.start_time + 0 + b
      BY <1>1, <2>6, <3>1
    <3> HIDE DEF b
    <3>3. ~(s.start_time + b <= now)
      BY <1>3, <2>6, <3>2
    <3>4. ~(s.start_time + s.interval * i <= now)
      BY <3>3 DEF b
    <3> QED BY <1>1, <3>4 DEF Used
  <2>10. /\ matched_as'[j] = matched_as[j] \cup {"execution"}
         /\ matched_as'[j] \in SUBSET MatchKinds /\ matched_as'[j] # {}
    BY <1>2, <1>3 DEF MatchKinds
  <2>11. ASSUME SpacedJob(j)' PROVE Rewards(j)' + Due(j)' <= jobs'[j].slots * Granted(j)'
    <3>1. Spaced(s) /\ SpacedJob(j)
      BY <1>2, <2>10, <2>11 DEF SpacedJob, Spaced
    <3>2. /\ jobs[j].slots * Granted(j) + jobs[j].slots <= jobs[j].slots * Granted(j)'
          /\ jobs[j].slots \in Nat /\ Granted(j) \in Nat /\ Granted(j)' \in Nat
      <4>1. matched_as[j] \subseteq matched_as'[j] /\ "execution" \in matched_as'[j]
        BY <2>10
      <4> QED BY <1>2, <1>3, <2>8, <2>9, <3>1, <4>1, GrantedGrows
    <3>3. jobs[j].slots * Granted(j) \in Nat /\ jobs[j].slots * Granted(j)' \in Nat
      BY <3>2, ProductType
    <3>4. Rewards(j) \in Nat /\ Due(j) \in Nat
      BY <1>3, <2>1, CountsType DEF Counted
    <3>5. Due(j)' \in Nat
      BY <1>3, <2>3, CountsTypeNext DEF Counted
    <3> DEFINE x == jobs[j].slots * Granted(j)
               y == jobs[j].slots * Granted(j)'
               n == jobs[j].slots
    <3>6. x \in Nat /\ y \in Nat /\ n \in Nat /\ x + n <= y
          /\ Rewards(j) + Due(j) <= x /\ Due(j)' <= Due(j) + n
      BY <2>1, <2>4, <3>1, <3>2, <3>3
    <3> HIDE DEF x, y, n
    <3>7. Rewards(j)' + Due(j)' <= y
      BY <2>5, <3>4, <3>5, <3>6
    <3> QED BY <1>2, <3>7 DEF y
  <2>12. StatusOf(j)' # Open
    BY <1>2, <1>3, NotOpen DEF StatusOf
  <2> QED BY <2>3, <2>10, <2>11, <2>12 DEF JobBounded
<1>10. matched_as' \in [Jobs -> SUBSET MatchKinds]
  BY <1>2 DEF MatchKinds
<1> QED BY <1>8, <1>9, <1>10 DEF BoundInv

\* process_matching of a job nobody was matched with: all its executions are
\* used at once.
LEMMA WholeMatchBounded ==
    ASSUME TablesInv, TablesInv', NEW j \in Jobs, JobBounded(j), StatusOf(j) = Open,
           NEW r, NEW plan \in Plans, NEW fees, matched_as'[j] = {"whole"},
           StoreMatch(j, r, plan, fees), Cardinality(DOMAIN plan) = r.slots,
           j \in DOMAIN jobs', jobs'[j] = r, StatusOf(j)' # Open, rewarded'[j] = rewarded[j]
    PROVE  JobBounded(j)'
<1> DEFINE n == execution_count(r.schedule)
<1>1. n \in 1 .. MAX_EXECUTIONS_PER_JOB /\ r.slots \in Nat /\ MAX_EXECUTIONS_PER_JOB \in Nat
  BY MarketAssumption DEF TablesInv, JobsInv, RegisteredWell
<1>2. \A p \in Processors : <<p, j>> \notin DOMAIN matches
  BY DEF TablesInv, MatchInv, MatchesTyped, NoOrphanAssignments, StatusOf
<1>3. DOMAIN plan \in SUBSET Processors
  BY PlanSources
<1>4. \A p \in Processors : DueOf(j, p)' = IF p \in DOMAIN plan THEN n ELSE 0
  <2> SUFFICES ASSUME NEW p \in Processors PROVE DueOf(j, p)' = IF p \in DOMAIN plan THEN n ELSE 0
    OBVIOUS
  <2> DEFINE k == <<p, j>>
  <2>1. k \in KeysOf(j, DOMAIN plan) <=> p \in DOMAIN plan
    BY DEF KeysOf
  <2>2. CASE p \in DOMAIN plan
    <3>1. /\ k \in DOMAIN matches'
          /\ matches'[k] = NewAssignment(All, plan[k[1]], fees[k[1]], n, 0)
      BY <2>1, <2>2 DEF StoreMatch
    <3>2. matches'[k].total = n /\ matches'[k].met = 0
      <4> HIDE DEF n
      <4> QED BY <3>1, NewAssignmentTerms
    <3>3. DueOf(j, p)' = n - 0
      BY <3>1, <3>2 DEF DueOf
    <3> HIDE DEF n
    <3> QED BY <1>1, <2>2, <3>3
  <2>3. CASE p \notin DOMAIN plan
    <3>1. k \notin DOMAIN matches'
      BY <1>2, <2>1, <2>3 DEF StoreMatch
    <3> QED BY <2>3, <3>1 DEF DueOf
  <2> QED BY <2>2, <2>3
<1>5. Granted(j)' = n
  <2>1. Granted(j)' = n + 0
    BY DEF Granted
  <2> HIDE DEF n
  <2> QED BY <1>1, <2>1
<1> HIDE DEF n
<1>7. Due(j)' <= r.slots * n
  <2> DEFINE f == [p \in Processors |-> DueOf(j, p)']
             S == DOMAIN plan
  <2>1. Due(j)' = SumOver(f, Processors)
    BY DEF Due
  <2>2. /\ \A p \in Processors : f[p] \in Int
        /\ \A p \in Processors \ S : f[p] = 0
        /\ \A p \in S : f[p] \in Int /\ f[p] <= n
    BY <1>1, <1>3, <1>4
  <2>3. IsFiniteSet(S) /\ n \in Nat
    BY <1>1, <1>3, RewardsFinite, FS_Subset
  <2> HIDE DEF f
  <2>4. SumOver(f, Processors) = SumOver(f, S)
    BY <1>3, <2>2, RewardsFinite, SumOutside
  <2>5. SumOver(f, S) <= Cardinality(S) * n
    BY <2>2, <2>3, SumUpTo
  <2> QED BY <2>1, <2>4, <2>5
<1>8. Rewards(j)' = 0
  <2> DEFINE f == [x \in Processors \X Indices |-> rewarded'[j][x[1]][x[2]]]
  <2>1. \A x \in Processors \X Indices : f[x] = 0
    BY DEF JobBounded, Unrewarded
  <2> HIDE DEF f
  <2>2. SumOver(f, Processors \X Indices) = 0
    BY <2>1, RewardsFinite, SumZero
  <2> QED BY <2>2 DEF Rewards, f
<1>9. \A p \in Processors : DueOf(j, p)' \in Nat
  BY <1>1, <1>4
<1>10. Due(j)' \in Nat
  BY <1>9, CountsTypeNext DEF Counted
<1>11. Rewards(j)' + Due(j)' <= jobs'[j].slots * Granted(j)'
  BY <1>5, <1>7, <1>8, <1>10
<1> QED BY <1>9, <1>11 DEF JobBounded, MatchKinds

\* propose_matching
LEMMA ProposeMatchingBounded ==
    ASSUME TablesInv, TablesInv', BoundInv,
           NEW m, NEW j \in DOMAIN jobs, NEW plan \in Plans, NEW fees,
           ProposeMatching(m, j, plan, fees)
    PROVE  BoundInv'
<1>1. /\ job_status[j] = Open /\ Cardinality(DOMAIN plan) = jobs[j].slots
      /\ StoreMatch(j, jobs[j], plan, fees)
      /\ job_status' = [job_status EXCEPT ![j] = Matched]
      /\ UNCHANGED <<now, jobs, exec_status, rewarded>>
      /\ matched_as' = [matched_as EXCEPT ![j] = @ \cup {"whole"}]
      /\ matched_as \in [Jobs -> SUBSET MatchKinds]
  BY DEF ProposeMatching, CanMatch, money, BoundInv
<1>2. j \in Jobs /\ now \in Nat /\ DOMAIN job_status = DOMAIN jobs
  BY DEF TablesInv, MatchInv, MatchesTyped, JobsInv
<1>3. /\ StatusOf(j) = Open /\ StatusOf(j)' # Open
      /\ \A x \in Jobs : x # j => StatusOf(x)' = StatusOf(x) /\ matched_as'[x] = matched_as[x]
  BY <1>1, <1>2, NotOpen DEF StatusOf
<1>4. ASSUME NEW x \in Jobs, x # j PROVE JobBounded(x)'
  <2>1. \A p \in Processors : <<p, x>> \in DOMAIN matches' =>
           <<p, x>> \in DOMAIN matches /\ matches'[<<p, x>>] = matches[<<p, x>>]
    BY <1>1, <1>4 DEF StoreMatch, KeysOf
  <2>2. now <= now'
    BY <1>1, <1>2
  <2>3. Quiet(x)
    BY <1>1, <1>3, <1>4, <2>1, <2>2 DEF Quiet
  <2> QED BY <2>3, QuietBounded DEF BoundInv
<1>5. JobBounded(j)'
  <2>1. JobBounded(j) /\ j \in DOMAIN jobs' /\ jobs'[j] = jobs[j] /\ rewarded'[j] = rewarded[j]
    BY <1>1, <1>2 DEF BoundInv
  <2>2. matched_as'[j] = {"whole"}
    BY <1>1, <1>2, <1>3, <2>1 DEF JobBounded
  <2> QED BY <1>1, <1>2, <1>3, <2>1, <2>2, WholeMatchBounded
<1>6. matched_as' \in [Jobs -> SUBSET MatchKinds]
  BY <1>1 DEF MatchKinds
<1> QED BY <1>4, <1>5, <1>6 DEF BoundInv

\* register
LEMMA RegisterBounded ==
    ASSUME TablesInv, TablesInv', BoundInv, NEW j \in Jobs, NEW r \in Registrations,
           NEW fees, register_for(j, r, fees)
    PROVE  BoundInv'
<1> DEFINE instant == r.strategy = "Single" /\ r.instant_match # None
<1>1. /\ Registrable(r) /\ StatusOf(j) = Open
      /\ jobs' = [x \in DOMAIN jobs \cup {j} |-> IF x = j THEN r ELSE jobs[x]]
      /\ job_status' = [x \in DOMAIN jobs \cup {j} |->
            IF x = j THEN IF instant THEN Matched ELSE Open ELSE job_status[x]]
      /\ instant => /\ Cardinality(DOMAIN r.instant_match) = r.slots
                    /\ StoreMatch(j, r, r.instant_match, fees)
      /\ ~instant => matches' = matches
      /\ now' = now /\ exec_status' = exec_status /\ rewarded' = rewarded
      /\ matched_as' = [matched_as EXCEPT ![j] = IF instant THEN {"whole"} ELSE {}]
      /\ matched_as \in [Jobs -> SUBSET MatchKinds]
  BY DEF register_for, CanMatch, BoundInv
<1>2. now \in Nat /\ DOMAIN job_status = DOMAIN jobs /\ JobBounded(j)
  BY DEF TablesInv, MatchInv, MatchesTyped, JobsInv, BoundInv
<1>3. \A x \in Jobs : x # j => /\ StatusOf(x)' = StatusOf(x)
                               /\ x \in DOMAIN jobs' <=> x \in DOMAIN jobs
                               /\ x \in DOMAIN jobs => jobs'[x] = jobs[x]
                               /\ matched_as'[x] = matched_as[x]
  BY <1>1, <1>2 DEF StatusOf
<1>4. ASSUME NEW x \in Jobs, x # j PROVE JobBounded(x)'
  <2>1. \A p \in Processors : <<p, x>> \in DOMAIN matches' =>
           <<p, x>> \in DOMAIN matches /\ matches'[<<p, x>>] = matches[<<p, x>>]
    <3>1. CASE instant
      BY <1>1, <1>4, <3>1 DEF StoreMatch, KeysOf
    <3>2. CASE ~instant
      BY <1>1, <3>2
    <3> QED BY <3>1, <3>2
  <2>2. now <= now'
    BY <1>1, <1>2
  <2>3. Quiet(x)
    BY <1>1, <1>3, <1>4, <2>1, <2>2 DEF Quiet
  <2> QED BY <2>3, QuietBounded DEF BoundInv
<1>5. JobBounded(j)'
  <2>1. j \in DOMAIN jobs' /\ jobs'[j] = r /\ rewarded'[j] = rewarded[j]
    BY <1>1
  <2>2. CASE instant
    <3>1. r.instant_match \in Plans
      BY <1>1, <2>2, RegistrableWell
    <3>2. matched_as'[j] = {"whole"}
      BY <1>1, <2>2
    <3>3. StatusOf(j)' # Open
      BY <1>1, <2>2, NotOpen DEF StatusOf
    <3>4. StoreMatch(j, r, r.instant_match, fees) /\ Cardinality(DOMAIN r.instant_match) = r.slots
      BY <1>1, <2>2
    <3> QED BY <1>1, <1>2, <2>1, <3>1, <3>2, <3>3, <3>4, WholeMatchBounded
  <2>3. CASE ~instant
    <3>1. \A p \in Processors : <<p, j>> \notin DOMAIN matches'
      BY <1>1, <2>3 DEF TablesInv, MatchInv, MatchesTyped, NoOrphanAssignments, StatusOf
    <3>2. Unrewarded(j)'
      BY <1>1, <1>2, <2>1 DEF JobBounded, Unrewarded
    <3>3. matched_as'[j] = {} /\ StatusOf(j)' = Open
      BY <1>1, <2>3 DEF StatusOf
    <3> QED BY <3>1, <3>2, <3>3, NothingDueNext
  <2> QED BY <2>2, <2>3
<1>6. matched_as' \in [Jobs -> SUBSET MatchKinds]
  BY <1>1 DEF MatchKinds
<1> QED BY <1>4, <1>5, <1>6 DEF BoundInv

\* deregister
LEMMA DeregisterBounded ==
    ASSUME TablesInv, TablesInv', BoundInv, NEW j \in Jobs, Deregister(j)
    PROVE  BoundInv'
<1>1. /\ jobs' = [x \in DOMAIN jobs \ {j} |-> jobs[x]]
      /\ job_status' = [x \in DOMAIN jobs \ {j} |-> job_status[x]]
      /\ \E left : exec_status' = [exec_status EXCEPT ![j] = left]
      /\ matches' = [k \in DOMAIN matches \ KeysOf(j, Drained(j)) |-> matches[k]]
      /\ rewarded' = [rewarded EXCEPT ![j] = [p \in Processors |-> [i \in Indices |-> 0]]]
      /\ now' = now
      /\ matched_as' = [matched_as EXCEPT ![j] = {}]
      /\ matched_as \in [Jobs -> SUBSET MatchKinds]
  BY DEF Deregister, BoundInv
<1>2. /\ now \in Nat /\ DOMAIN job_status = DOMAIN jobs
      /\ rewarded \in [Jobs -> [Processors -> [Indices -> Nat]]]
      /\ exec_status \in [Jobs -> [Indices -> Statuses]]
  BY DEF TablesInv, MatchInv, MatchesTyped, JobsInv, AssignInv
<1>3. \A x \in Jobs : x # j => /\ StatusOf(x)' = StatusOf(x)
                               /\ x \in DOMAIN jobs' <=> x \in DOMAIN jobs
                               /\ x \in DOMAIN jobs => jobs'[x] = jobs[x]
                               /\ rewarded'[x] = rewarded[x] /\ exec_status'[x] = exec_status[x]
                               /\ matched_as'[x] = matched_as[x]
  BY <1>1, <1>2 DEF StatusOf
<1>4. ASSUME NEW x \in Jobs, x # j PROVE JobBounded(x)'
  <2>1. \A p \in Processors : <<p, x>> \in DOMAIN matches' =>
           <<p, x>> \in DOMAIN matches /\ matches'[<<p, x>>] = matches[<<p, x>>]
    BY <1>1
  <2>2. now <= now'
    BY <1>1, <1>2
  <2>3. Quiet(x)
    BY <1>3, <1>4, <2>1, <2>2 DEF Quiet
  <2> QED BY <2>3, QuietBounded DEF BoundInv
<1>5. JobBounded(j)'
  <2>1. j \notin DOMAIN jobs'
    BY <1>1
  <2>2. \A p \in Processors : <<p, j>> \notin DOMAIN matches'
    BY <2>1 DEF TablesInv, MatchInv, MatchesTyped
  <2>3. Unrewarded(j)'
    BY <1>1, <1>2 DEF Unrewarded
  <2>4. matched_as'[j] = {} /\ StatusOf(j)' = Open
    BY <1>1 DEF StatusOf
  <2> QED BY <2>2, <2>3, <2>4, NothingDueNext
<1>6. matched_as' \in [Jobs -> SUBSET MatchKinds]
  BY <1>1
<1> QED BY <1>4, <1>5, <1>6 DEF BoundInv

\* acknowledge_match
LEMMA AcknowledgeMatchBounded ==
    ASSUME TablesInv, TablesInv', BoundInv, NEW p \in Processors, NEW j \in Jobs,
           NEW e \in Executions, AcknowledgeMatch(p, j, e)
    PROVE  BoundInv'
<1>1. /\ j \in DOMAIN jobs /\ <<p, j>> \in DOMAIN matches
      /\ matches' = [matches EXCEPT ![<<p, j>>].acknowledged = TRUE]
      /\ \E n : job_status' = [job_status EXCEPT ![j] = Assigned(n)]
      /\ \E n : exec_status' = IF e = All THEN exec_status
                               ELSE [exec_status EXCEPT ![j][e] = Assigned(n)]
      /\ now' = now /\ jobs' = jobs /\ rewarded' = rewarded
      /\ matched_as' = matched_as
  BY DEF AcknowledgeMatch
<1>2. /\ now \in Nat /\ DOMAIN job_status = DOMAIN jobs
      /\ exec_status \in [Jobs -> [Indices -> Statuses]]
      /\ matches[<<p, j>>] \in Assignments
  BY <1>1 DEF TablesInv, MatchInv, MatchesTyped, JobsInv, AssignInv
<1> SUFFICES ASSUME NEW x \in Jobs PROVE JobBounded(x)'
  BY <1>1 DEF BoundInv
<1>3. StatusOf(x)' = Open <=> StatusOf(x) = Open
  <2>1. job_status[j] # Open
    BY <1>1 DEF TablesInv, MatchInv, MatchesTyped, NoOrphanAssignments
  <2> QED BY <1>1, <1>2, <2>1, NotOpen DEF StatusOf
<1>4. \A i \in Indices : exec_status[x][i] # Open => exec_status'[x][i] # Open
  <2>1. PICK n : exec_status' = IF e = All THEN exec_status
                                ELSE [exec_status EXCEPT ![j][e] = Assigned(n)]
    BY <1>1
  <2>2. Assigned(n) # Open
    BY NotOpen
  <2> DEFINE v == Assigned(n)
  <2> HIDE DEF v
  <2>3. CASE e = All
    BY <2>1, <2>3
  <2>4. CASE e # All
    <3>1. exec_status' = [exec_status EXCEPT ![j] = [exec_status[j] EXCEPT ![e] = v]]
      BY <2>1, <2>4 DEF v
    <3>2. \A i \in Indices : exec_status'[x][i] = exec_status[x][i] \/ exec_status'[x][i] = v
      BY <1>2, <3>1
    <3> QED BY <2>2, <3>2 DEF v
  <2> QED BY <2>3, <2>4
<1>5. \A q \in Processors : <<q, x>> \in DOMAIN matches' =>
         /\ <<q, x>> \in DOMAIN matches
         /\ matches'[<<q, x>>].total = matches[<<q, x>>].total
         /\ matches'[<<q, x>>].met = matches[<<q, x>>].met
  <2> DEFINE a == matches[<<p, j>>]
             b == [a EXCEPT !.acknowledged = TRUE]
  <2>1. b.total = a.total /\ b.met = a.met
    BY <1>2 DEF Assignments
  <2>2. matches' = [matches EXCEPT ![<<p, j>>] = b]
    BY <1>1
  <2> HIDE DEF b
  <2> QED BY <1>1, <2>1, <2>2
<1>6. now <= now'
  BY <1>1, <1>2
<1>7. Quiet(x)
  BY <1>1, <1>3, <1>4, <1>5, <1>6 DEF Quiet
<1> QED BY <1>7, QuietBounded DEF BoundInv

\* Steps that reward and match nobody.
LEMMA OtherBounded ==
    ASSUME TablesInv, TablesInv', BoundInv,
           \/ \E j \in Jobs, s \in SourceLists : UpdateAllowedSources(j, s)
           \/ \E j \in Jobs : CleanupJobMatcher(j)
           \/ \E keys : Unassign(keys)
           \/ \E p, c : Advertise(p, c)
           \/ \E p : DeleteAdvertisement(p) \/ Attest(p) \/ RevokeAttestation(p)
           \/ Tick
           \/ UNCHANGED marketVars
    PROVE  BoundInv'
<1>1. UNCHANGED <<rewarded, exec_status, job_status, matched_as>>
  BY DEF UpdateAllowedSources, CleanupJobMatcher, Unassign, Advertise, DeleteAdvertisement, Attest,
         RevokeAttestation, Tick, marketVars, registry, assignments, providers, money
<1>2. now <= now'
  <2>1. now' = now \/ now' = now + 1
    BY DEF UpdateAllowedSources, CleanupJobMatcher, Unassign, Advertise, DeleteAdvertisement, Attest,
           RevokeAttestation, Tick, marketVars
  <2>2. now \in Nat
    BY DEF TablesInv, JobsInv
  <2> QED BY <2>1, <2>2
<1>3. /\ DOMAIN jobs' = DOMAIN jobs
      /\ \A j \in DOMAIN jobs : /\ jobs'[j].schedule = jobs[j].schedule
                                /\ jobs'[j].slots = jobs[j].slots
  <2>1. CASE \E j \in Jobs, s \in SourceLists : UpdateAllowedSources(j, s)
    BY <2>1, UpdateAllowedSourcesTerms
  <2>2. CASE UNCHANGED jobs
    BY <2>2
  <2> QED BY <2>1, <2>2
          DEF CleanupJobMatcher, Unassign, Advertise, DeleteAdvertisement, Attest,
              RevokeAttestation, Tick, marketVars, registry
<1>4. \A k \in DOMAIN matches' : k \in DOMAIN matches /\ matches'[k] = matches[k]
  <2>1. CASE \E keys : Unassign(keys)
    BY <2>1 DEF Unassign
  <2>2. CASE UNCHANGED matches
    BY <2>2
  <2> QED BY <2>1, <2>2
          DEF UpdateAllowedSources, CleanupJobMatcher, Advertise, DeleteAdvertisement, Attest,
              RevokeAttestation, Tick, marketVars, assignments
<1> SUFFICES ASSUME NEW x \in Jobs PROVE JobBounded(x)'
  BY <1>1 DEF BoundInv
<1>5. StatusOf(x)' = StatusOf(x)
  BY <1>1 DEF StatusOf
<1>6. Quiet(x)
  BY <1>1, <1>2, <1>3, <1>4, <1>5 DEF Quiet
<1> QED BY <1>6, QuietBounded DEF BoundInv

\* Nothing is registered, matched or rewarded at first.
LEMMA InitBounded == MarketInit => BoundInv
<1> SUFFICES ASSUME MarketInit, NEW j \in Jobs PROVE JobBounded(j)
  BY DEF BoundInv, MarketInit
<1>1. TablesInv
  BY InitTables
<1>2. Unrewarded(j) /\ j \notin DOMAIN jobs /\ \A p \in Processors : <<p, j>> \notin DOMAIN matches
  BY DEF MarketInit, Unrewarded
<1>3. matched_as[j] = {} /\ StatusOf(j) = Open
  BY DEF MarketInit, StatusOf
<1> QED BY <1>1, <1>2, <1>3, NothingDue

\* Every step keeps the bounds.
LEMMA NextBounded ==
    ASSUME TablesInv, BoundInv, [MarketNext]_marketVars
    PROVE  BoundInv'
<1>0. TablesInv'
  BY NextTables
<1>1. CASE RegisterStep
  <2>1. PICK r \in Registrations : \E fees \in InstantFees(r) :
          \/ \E who \in Consumers : Register(who, r, fees)
          \/ \E n \in ProxySequence : RegisterFromProxy(n, r, fees)
    BY <1>1 DEF RegisterStep
  <2>2. \E fees \in InstantFees(r) : \E j \in Jobs : register_for(j, r, fees)
    <3>1. ASSUME NEW fees, NEW who \in Consumers, Register(who, r, fees)
          PROVE  \E j \in Jobs : register_for(j, r, fees)
      <4>1. last_job_id + 1 \in 1 .. MaxJobs
        BY <3>1, MarketAssumption DEF Register, TablesInv, JobsInv
      <4>2. <<who, last_job_id + 1>> \in Jobs
        BY <4>1 DEF Jobs
      <4> QED BY <3>1, <4>2 DEF Register
    <3>2. ASSUME NEW fees, NEW n \in ProxySequence, RegisterFromProxy(n, r, fees)
          PROVE  \E j \in Jobs : register_for(j, r, fees)
      <4>1. <<Hyperdrive, n>> \in Jobs
        BY DEF Jobs
      <4> QED BY <3>2, <4>1 DEF RegisterFromProxy
    <3> QED BY <2>1, <3>1, <3>2
  <2> QED BY <1>0, <2>2, RegisterBounded
<1>2. CASE MatchStep
  <2>1. PICK m \in Matchers, j \in DOMAIN jobs, e \in ProposedExecutions, plan \in Plans :
          \E fees \in [DOMAIN plan -> Fees] :
            \/ e = All /\ ProposeMatching(m, j, plan, fees)
            \/ e # All /\ ProposeExecutionMatching(m, j, e, plan, fees)
    BY <1>2 DEF MatchStep
  <2>2. e # All => e \in Nat
    BY MarketAssumption
  <2>3. CASE e = All
    BY <1>0, <2>1, <2>3, ProposeMatchingBounded
  <2>4. CASE e # All
    BY <1>0, <2>1, <2>2, <2>4, ProposeExecutionMatchingBounded
  <2> QED BY <2>3, <2>4
<1>3. ASSUME NEW j \in Jobs, Deregister(j) PROVE BoundInv'
  BY <1>0, <1>3, DeregisterBounded
<1>4. ASSUME NEW p \in Processors, NEW j \in Jobs, NEW e \in Executions, AcknowledgeMatch(p, j, e)
      PROVE  BoundInv'
  BY <1>0, <1>4, AcknowledgeMatchBounded
<1>5. ASSUME NEW p \in Processors, NEW j \in Jobs, Report(p, j) PROVE BoundInv'
  BY <1>0, <1>5, ReportBounded
<1>6. CASE \/ \E j \in Jobs : \/ CleanupJobMatcher(j)
                              \/ CleanupJobAssignments(j)
                              \/ \E s \in SUBSET Processors : CleanupStorage(j, s)
                              \/ \E s \in SourceLists : UpdateAllowedSources(j, s)
           \/ \E p \in Processors, j \in Jobs : CleanupAssignment(p, j)
           \/ \E p \in Processors : \/ \E c \in {None} \cup SUBSET Consumers : Advertise(p, c)
                                    \/ DeleteAdvertisement(p)
                                    \/ Attest(p)
                                    \/ RevokeAttestation(p)
           \/ Tick
           \/ UNCHANGED marketVars
  BY <1>0, <1>6, OtherBounded DEF CleanupJobAssignments, CleanupStorage, CleanupAssignment
<1> QED BY <1>1, <1>2, <1>3, <1>4, <1>5, <1>6 DEF MarketNext

\* However processors are matched, overwritten, cleaned up and matched again,
\* each kind of match a job had pays at most one reward for each of its slots
\* and executions, if the executions that are matched one by one are spaced.
THEOREM RewardsBoundedCorrect == MarketSpec => []RewardsBounded
<1>1. MarketInit => TablesInv /\ BoundInv
  BY InitTables, InitBounded
<1>2. TablesInv /\ BoundInv /\ [MarketNext]_marketVars => TablesInv' /\ BoundInv'
  BY NextTables, NextBounded
<1>3. TablesInv /\ BoundInv => RewardsBounded
  <2> SUFFICES ASSUME TablesInv, BoundInv, NEW j \in DOMAIN jobs, SpacedJob(j)
               PROVE  Rewards(j) <= Cardinality(matched_as[j])
                                      * (jobs[j].slots * execution_count(jobs[j].schedule))
    BY DEF RewardsBounded, SpacedJob
  <2> DEFINE c == Cardinality(Used(j))
             n == execution_count(jobs[j].schedule)
             m == jobs[j].slots
             g == Granted(j)
             k == Cardinality(matched_as[j])
  <2>1. j \in Jobs /\ JobBounded(j)
    BY DEF TablesInv, JobsInv, BoundInv
  <2>2. c \in Nat /\ n \in Nat /\ m \in Nat /\ c <= n /\ g \in Nat
    BY <2>1, CountsType DEF Counted
  <2>3. Rewards(j) \in Nat /\ Due(j) \in Nat
    BY <2>1, CountsType DEF Counted, JobBounded
  <2>4. Rewards(j) + Due(j) <= m * g
    BY <2>1 DEF JobBounded
  <2>5. k \in Nat /\ g <= k * n
    <3>1. g = (IF "whole" \in matched_as[j] THEN n ELSE 0)
                + (IF "execution" \in matched_as[j] THEN c ELSE 0)
      BY DEF Granted
    <3>2. \/ matched_as[j] = {} /\ k = 0
          \/ matched_as[j] = {"whole"} /\ k = 1
          \/ matched_as[j] = {"execution"} /\ k = 1
          \/ matched_as[j] = {"whole", "execution"} /\ k = 2
      <4>1. \/ matched_as[j] = {} \/ matched_as[j] = {"whole"} \/ matched_as[j] = {"execution"}
            \/ matched_as[j] = {"whole", "execution"}
        BY <2>1 DEF JobBounded, MatchKinds
      <4>2. Cardinality({}) = 0 /\ Cardinality({"whole"}) = 1 /\ Cardinality({"execution"}) = 1
        BY FS_EmptySet, FS_Singleton
      <4>3. Cardinality({"whole"} \cup {"execution"}) = 2
        <5>1. IsFiniteSet({"whole"}) /\ "execution" \notin {"whole"}
          BY FS_Singleton
        <5>2. Cardinality({"whole"} \cup {"execution"}) = Cardinality({"whole"}) + 1
          BY <5>1, FS_AddElement
        <5> QED BY <4>2, <5>2
      <4>4. {"whole"} \cup {"execution"} = {"whole", "execution"}
        OBVIOUS
      <4> QED BY <4>1, <4>2, <4>3, <4>4
    <3> HIDE DEF c, n, g, k
    <3>3. CASE matched_as[j] = {} /\ k = 0
      BY <2>2, <3>1, <3>3
    <3>4. CASE matched_as[j] = {"whole"} /\ k = 1
      BY <2>2, <3>1, <3>4
    <3>5. CASE matched_as[j] = {"execution"} /\ k = 1
      BY <2>2, <3>1, <3>5
    <3>6. CASE matched_as[j] = {"whole", "execution"} /\ k = 2
      BY <2>2, <3>1, <3>6
    <3> QED BY <3>2, <3>3, <3>4, <3>5, <3>6
  <2> HIDE DEF c, n, m, g, k
  <2>6. k * n \in Nat /\ m * g <= m * (k * n)
    BY <2>2, <2>5, ProductGrows, ProductType
  <2>7. m * (k * n) = k * (m * n)
    BY <2>2, <2>5
  <2>8. m * g \in Nat /\ k * (m * n) \in Nat
    BY <2>2, <2>5, ProductType
  <2>9. Rewards(j) <= k * (m * n)
    BY <2>3, <2>4, <2>6, <2>7, <2>8
  <2> QED BY <2>9 DEF k, m, n
<1> QED BY <1>1, <1>2, <1>3, PTL DEF MarketSpec

-----------------------------------------------------------------------------
(***************************************************************************)
(* Schedules.  The operations of a regular schedule do what they mean: the *)
(* number of executions is the one number n with                           *)
(*    (n - 1) * interval < end_time - start_time <= n * interval,          *)
(* and everything else follows by comparing multiples of the interval.     *)
(***************************************************************************)
\* Multiples of the interval.
LEMMA Multiples ==
    ASSUME NEW m \in Nat, m > 0, NEW i \in Nat, NEW k \in Nat
    PROVE  /\ i * m \in Nat /\ k * m \in Nat /\ (i + 1) * m = i * m + m
           /\ i <= k => i * m <= k * m
           /\ i < k => i * m + m <= k * m
<1>1. i * m \in Nat /\ k * m \in Nat /\ (i + 1) * m = i * m + m
  OBVIOUS
<1>2. ASSUME NEW a \in Nat, NEW b \in Nat, a <= b PROVE a * m <= b * m
  <2>1. m * a <= m * b
    BY <1>2, ProductGrows
  <2>2. m * a = a * m /\ m * b = b * m
    OBVIOUS
  <2> QED BY <2>1, <2>2
<1>3. i <= k => i * m <= k * m
  BY <1>2
<1>4. ASSUME i < k PROVE i * m + m <= k * m
  <2>1. i + 1 \in Nat /\ i + 1 <= k
    BY <1>4
  <2>2. (i + 1) * m <= k * m
    BY <1>2, <2>1
  <2> QED BY <1>1, <2>2
<1> QED BY <1>1, <1>3, <1>4

\* Division with remainder.
LEMMA Division ==
    ASSUME NEW x \in Nat, NEW m \in Nat, m > 0
    PROVE  /\ x \div m \in Nat /\ x % m \in Nat /\ x % m < m
           /\ x = (x \div m) * m + (x % m)
<1>1. x \div m \in Nat /\ x % m \in Nat /\ x % m < m
  OBVIOUS
<1>2. x = m * (x \div m) + (x % m)
  OBVIOUS
<1>3. m * (x \div m) = (x \div m) * m
  BY <1>1
<1> QED BY <1>1, <1>2, <1>3

\* A regular schedule in numbers: its first start time, its interval, its
\* duration, its length and the number of its executions.
LEMMA RegularNumbers ==
    ASSUME NEW s, NEW d, Regular(s, d)
    PROVE  LET b == s.start_time + d
               m == s.interval
               w == s.duration
               l == s.end_time - s.start_time
               n == execution_count(s)
           IN  /\ b \in Nat /\ m \in Nat /\ w \in Nat /\ l \in Nat /\ n \in Nat
               /\ MaxTime \in Nat
               /\ w > 0 /\ w < m /\ m > 0 /\ n >= 1 /\ n - 1 \in Nat
               /\ (n - 1) * m < l /\ l <= (n - 1) * m + m
               /\ b + l + w <= MaxTime
               /\ s.end_time + d = b + l
<1>1. /\ s.end_time \in Nat /\ s.start_time \in Nat /\ s.interval \in Nat /\ s.duration \in Nat
      /\ MaxTime \in Nat /\ d \in Nat /\ s \in Schedules
  BY TimeAssumption DEF Regular, Schedules, Times
<1>2. /\ s.duration > 0 /\ s.duration < s.interval /\ execution_count(s) > 0
      /\ s.end_time + d + s.duration <= MaxTime
  BY DEF Regular
<1>3. ~(s.end_time <= s.start_time \/ s.interval = 0)
  BY <1>2 DEF execution_count
<1> DEFINE x == s.end_time - s.start_time - 1
           q == x \div s.interval
<1>4. execution_count(s) = q + 1
  BY <1>3 DEF execution_count
<1>5. x \in Nat /\ s.interval > 0
  BY <1>1, <1>2, <1>3
<1>6. q \in Nat /\ x % s.interval \in Nat /\ x % s.interval < s.interval
      /\ x = q * s.interval + (x % s.interval)
  <2> HIDE DEF x
  <2> QED BY <1>1, <1>5, Division
<1>7. s.end_time - s.start_time = x + 1
  BY <1>1
<1>8. q * s.interval \in Nat
  BY <1>1, <1>6
<1> DEFINE y == q * s.interval
           z == x % s.interval
<1>9. y \in Nat /\ z \in Nat /\ z < s.interval /\ x = y + z /\ x \in Nat
  BY <1>5, <1>6, <1>8
<1>10. (execution_count(s) - 1) * s.interval = y
  <2>1. execution_count(s) - 1 = q
    <3> HIDE DEF q
    <3> QED BY <1>4, <1>6
  <2> QED BY <2>1
<1> HIDE DEF q, x, y, z
<1>11. execution_count(s) \in Nat /\ execution_count(s) >= 1 /\ execution_count(s) - 1 \in Nat
  BY <1>4, <1>6
<1>12. /\ y < s.end_time - s.start_time
       /\ s.end_time - s.start_time <= y + s.interval
       /\ s.end_time - s.start_time \in Nat
  BY <1>1, <1>7, <1>9
<1>13. /\ s.start_time + d \in Nat
       /\ (s.start_time + d) + (s.end_time - s.start_time) + s.duration <= MaxTime
       /\ s.end_time + d = (s.start_time + d) + (s.end_time - s.start_time)
  BY <1>1, <1>2
<1> QED BY <1>1, <1>2, <1>5, <1>10, <1>11, <1>12, <1>13

\* The start times of a regular schedule do not overflow.
LEMMA RegularStarts ==
    ASSUME NEW s, NEW d, Regular(s, d)
    PROVE  /\ StartTimes(s, d) = {(s.start_time + d) + i * s.interval : i \in 0 .. execution_count(s) - 1}
           /\ \A i \in 0 .. execution_count(s) - 1 :
                 /\ i \in Nat
                 /\ i * s.interval \in Nat
                 /\ i * s.interval <= (execution_count(s) - 1) * s.interval
                 /\ (s.start_time + d) + i * s.interval \in Nat
                 /\ (s.start_time + d) + i * s.interval + s.duration <= MaxTime
<1> DEFINE b == s.start_time + d
           m == s.interval
           w == s.duration
           l == s.end_time - s.start_time
           n == execution_count(s)
<1>1. StartTimes(s, d) = {b + i * m : i \in 0 .. n - 1}
  BY DEF StartTimes
<1>2. /\ b \in Nat /\ m \in Nat /\ w \in Nat /\ l \in Nat /\ n \in Nat /\ MaxTime \in Nat
      /\ m > 0 /\ n - 1 \in Nat /\ (n - 1) * m < l /\ b + l + w <= MaxTime
  BY RegularNumbers
<1> HIDE DEF b, m, w, l, n
<1>3. ASSUME NEW i \in 0 .. n - 1
      PROVE  /\ i \in Nat /\ i * m \in Nat /\ i * m <= (n - 1) * m
             /\ b + i * m \in Nat /\ b + i * m + w <= MaxTime
  <2>1. i \in Nat /\ i <= n - 1
    BY <1>2
  <2> DEFINE k == n - 1
  <2>2. k \in Nat /\ i <= k
    BY <1>2, <2>1
  <2> HIDE DEF k
  <2>3. i * m \in Nat /\ k * m \in Nat /\ i * m <= k * m
    BY <1>2, <2>1, <2>2, Multiples
  <2> DEFINE x == i * m
             y == k * m
  <2>4. x \in Nat /\ y \in Nat /\ x <= y /\ y < l
    BY <1>2, <2>3 DEF k
  <2> HIDE DEF x, y
  <2>5. b + x \in Nat /\ b + x + w <= MaxTime
    BY <1>2, <2>4
  <2> QED BY <2>1, <2>3, <2>5 DEF k, x
<1> QED BY <1>1, <1>3 DEF b, m, w, n

\* The least member of a set of numbers.
LEMMA Least ==
    ASSUME NEW S \in SUBSET Nat, NEW v \in S, \A w \in S : v <= w
    PROVE  (CHOOSE x \in S : \A w \in S : x <= w) = v
<1> DEFINE c == CHOOSE x \in S : \A w \in S : x <= w
<1>1. c \in S /\ \A w \in S : c <= w
  OBVIOUS
<1> HIDE DEF c
<1>2. c <= v /\ v <= c /\ c \in Nat /\ v \in Nat
  BY <1>1
<1>3. c = v
  BY <1>2
<1> QED BY <1>3 DEF c

\* The iterator yields the start times in order.
LEMMA RegularIterates ==
    ASSUME NEW s, NEW d, Regular(s, d)
    PROVE  IteratesStartTimes(s, d)
<1> DEFINE b == s.start_time + d
           m == s.interval
           w == s.duration
           l == s.end_time - s.start_time
           n == execution_count(s)
           T == StartTimes(s, d)
<1>1. /\ b \in Nat /\ m \in Nat /\ w \in Nat /\ l \in Nat /\ n \in Nat /\ MaxTime \in Nat
      /\ w > 0 /\ w < m /\ m > 0 /\ n >= 1 /\ n - 1 \in Nat
      /\ (n - 1) * m < l /\ l <= (n - 1) * m + m
      /\ b + l + w <= MaxTime /\ s.end_time + d = b + l
  BY RegularNumbers
<1>2. T = {b + i * m : i \in 0 .. n - 1}
  BY RegularStarts
<1>3. \A i \in 0 .. n - 1 : /\ i \in Nat /\ i * m \in Nat /\ i * m <= (n - 1) * m
                            /\ b + i * m \in Nat /\ b + i * m + w <= MaxTime
  BY RegularStarts
<1>4. CanIterate(s, d)
  <2> HIDE DEF b, l, w
  <2>1. b + l <= MaxTime
    BY <1>1
  <2> QED BY <1>1, <2>1 DEF CanIterate
<1>5. \A u : IterNext(s, d, u) =
         LET next == IF u = None THEN b ELSE u + m
         IN  IF next <= MaxTime /\ next < s.end_time + d THEN next ELSE None
  BY DEF IterNext
<1>6. None \notin Nat
  BY TimeAssumption
<1> HIDE DEF b, m, w, l, n, T
<1> DEFINE k == n - 1
<1>7. k \in Nat /\ k * m < l /\ l <= k * m + m /\ k * m \in Nat
  BY <1>1, Multiples
<1>8. 0 * m = 0 /\ 0 \in 0 .. n - 1 /\ k \in 0 .. n - 1
  BY <1>1
<1> HIDE DEF k
<1>9. T \in SUBSET Nat
  BY <1>2, <1>3
<1>10. IterNext(s, d, None) = Following(s, d, None)
  <2>1. b \in T /\ \A v \in T : b <= v
    <3>1. b + 0 * m \in T
      BY <1>2, <1>8
    <3>2. ASSUME NEW i \in 0 .. n - 1 PROVE b <= b + i * m
      <4>1. i * m \in Nat
        BY <1>3
      <4> DEFINE x == i * m
      <4>2. x \in Nat
        BY <4>1
      <4> HIDE DEF x
      <4>3. b <= b + x
        BY <1>1, <4>2
      <4> QED BY <4>3 DEF x
    <3>3. b + 0 * m = b
      BY <1>1, <1>8
    <3> QED BY <1>2, <3>1, <3>2, <3>3
  <2>2. Following(s, d, None) = b
    <3>1. {v \in T : None = None \/ v > None} = T
      OBVIOUS
    <3>2. (CHOOSE v \in T : \A x \in T : v <= x) = b
      BY <1>9, <2>1, Least
    <3>3. T # {}
      BY <2>1
    <3>4. Following(s, d, None) = IF {v \in T : None = None \/ v > None} = {} THEN None
             ELSE CHOOSE v \in {q \in T : None = None \/ q > None} :
                     \A x \in {q \in T : None = None \/ q > None} : v <= x
      BY DEF Following, T
    <3> QED BY <3>1, <3>2, <3>3, <3>4
  <2>3. b <= MaxTime /\ b < s.end_time + d
    <3> DEFINE y == k * m
    <3>1. y \in Nat /\ y < l
      BY <1>7
    <3> HIDE DEF y
    <3> QED BY <1>1, <3>1
  <2>4. IterNext(s, d, None) = b
    BY <1>5, <2>3
  <2> QED BY <2>2, <2>4
<1>11. ASSUME NEW u \in T PROVE IterNext(s, d, u) = Following(s, d, u)
  <2>1. PICK i \in 0 .. n - 1 : u = b + i * m
    BY <1>2
  <2> DEFINE x == i * m
             L == {v \in T : v > u}
  <2>2. i \in Nat /\ i <= k /\ x \in Nat /\ u = b + x /\ u \in Nat
    BY <1>1, <1>3, <2>1 DEF k
  <2>3. (i + 1) * m = x + m
    BY <1>1, <2>2, Multiples
  <2>4. \A v : v \in L <=> \E j \in 0 .. n - 1 : v = b + j * m /\ v > u
    BY <1>2
  <2>5. ASSUME NEW j \in 0 .. n - 1
        PROVE  /\ b + j * m > u <=> j > i
               /\ b + j * m > u => u + m <= b + j * m
    <3>1. j \in Nat /\ j * m \in Nat
      BY <1>3
    <3> DEFINE y == j * m
    <3>2. y \in Nat /\ (j <= i => y <= x) /\ (i < j => x + m <= y)
      BY <1>1, <2>2, <3>1, Multiples
    <3> HIDE DEF x, y
    <3>3. /\ b + y > u <=> j > i
          /\ b + y > u => u + m <= b + y
      BY <1>1, <2>2, <3>1, <3>2
    <3> QED BY <3>3 DEF y
  <2>6. Following(s, d, u) = IF L = {} THEN None ELSE CHOOSE v \in L : \A y \in L : v <= y
    <3>1. u # None
      BY <1>6, <2>2
    <3>2. {v \in T : u = None \/ v > u} = L
      BY <3>1
    <3>3. Following(s, d, u) = IF {v \in T : u = None \/ v > u} = {} THEN None
             ELSE CHOOSE v \in {q \in T : u = None \/ q > u} :
                     \A y \in {q \in T : u = None \/ q > u} : v <= y
      BY DEF Following, T
    <3> QED BY <3>2, <3>3
  <2>7. IterNext(s, d, u) = IF u + m <= MaxTime /\ u + m < b + l THEN u + m ELSE None
    <3>1. u # None
      BY <1>6, <2>2
    <3> QED BY <1>1, <1>5, <3>1
  <2> DEFINE z == k * m
  <2>8. z \in Nat /\ z < l /\ l <= z + m /\ (i = k => x = z) /\ (i < k => x + m <= z)
    BY <1>1, <1>7, <2>2, Multiples
  <2>9. CASE i = k
    <3>1. \A j \in 0 .. n - 1 : ~(j > i)
      BY <1>1, <2>9 DEF k
    <3>2. L = {}
      BY <2>4, <2>5, <3>1
    <3> HIDE DEF x, z, L
    <3>3. ~(u + m < b + l)
      BY <1>1, <2>2, <2>8, <2>9
    <3> QED BY <2>6, <2>7, <3>2, <3>3
  <2>10. CASE i # k
    <3>1. i < k /\ i + 1 \in 0 .. n - 1 /\ i + 1 > i
      BY <1>1, <2>2, <2>10 DEF k
    <3>2. u + m = b + (i + 1) * m
      <4> HIDE DEF x
      <4> QED BY <1>1, <2>2, <2>3
    <3>3. u + m \in L
      BY <2>4, <2>5, <3>1, <3>2
    <3>4. \A v \in L : u + m <= v
      BY <2>4, <2>5
    <3>5. L \in SUBSET Nat
      BY <1>9
    <3> HIDE DEF x, z, L
    <3>6. (CHOOSE v \in L : \A y \in L : v <= y) = u + m
      BY <3>3, <3>4, <3>5, Least
    <3>7. u + m <= MaxTime /\ u + m < b + l
      BY <1>1, <2>2, <2>8, <3>1
    <3> QED BY <2>6, <2>7, <3>3, <3>6, <3>7
  <2> QED BY <2>9, <2>10
<1> QED BY <1>4, <1>10, <1>11 DEF IteratesStartTimes, T

\* The first c start times of a schedule with first start time b ...
Starts(b, m, c) == {b + i * m : i \in 0 .. c - 1}

\* ... are c in number.
LEMMA CountStarts ==
    ASSUME NEW b \in Nat, NEW m \in Nat, m > 0, NEW c \in Nat
    PROVE  Cardinality(Starts(b, m, c)) = c
<1> DEFINE S == 0 .. c - 1
           T == {b + i * m : i \in S}
           f == [i \in S |-> b + i * m]
<1>1. IsFiniteSet(S) /\ Cardinality(S) = c
  <2>1. 0 \in Int /\ c - 1 \in Int
    OBVIOUS
  <2>2. IsFiniteSet(0 .. c - 1) /\ Cardinality(0 .. c - 1) = (IF 0 > c - 1 THEN 0 ELSE (c - 1) - 0 + 1)
    BY <2>1, FS_Interval
  <2> QED BY <2>2
<1>2. f \in [S -> T] /\ \A t \in T : \E i \in S : f[i] = t
  OBVIOUS
<1>3. ASSUME NEW i \in S, NEW k \in S, f[i] = f[k] PROVE i = k
  <2> DEFINE x == i * m
             y == k * m
  <2>1. i \in Nat /\ k \in Nat
    OBVIOUS
  <2>2. x \in Nat /\ y \in Nat /\ (i < k => x + m <= y)
    BY <2>1, Multiples
  <2>3. k < i => y + m <= x
    BY <2>1, Multiples
  <2>4. b + x = b + y
    BY <1>3
  <2> HIDE DEF x, y
  <2> QED BY <2>1, <2>2, <2>3, <2>4
<1> HIDE DEF S, T, f
<1>4. f \in Surjection(S, T)
  BY <1>2 DEF Surjection
<1>5. f \in Injection(S, T)
  BY <1>2, <1>3 DEF Injection, IsInjective
<1>6. Cardinality(T) = Cardinality(S)
  BY <1>1, <1>4, <1>5, FS_Surjection
<1> QED BY <1>1, <1>6 DEF T, S, Starts

\* nth_start_time and next_execution_index name and count the start times.
LEMMA RegularIndices ==
    ASSUME NEW s, NEW d, Regular(s, d)
    PROVE  IndicesNameStartTimes(s, d)
<1> DEFINE b == s.start_time + d
           m == s.interval
           w == s.duration
           l == s.end_time - s.start_time
           n == execution_count(s)
           T == StartTimes(s, d)
<1>1. /\ b \in Nat /\ m \in Nat /\ w \in Nat /\ l \in Nat /\ n \in Nat /\ MaxTime \in Nat
      /\ w > 0 /\ m > 0 /\ n >= 1 /\ n - 1 \in Nat /\ b + l + w <= MaxTime
  BY RegularNumbers
<1>2. T = {b + i * m : i \in 0 .. n - 1}
  BY RegularStarts
<1>3. \A i \in 0 .. n - 1 : /\ i \in Nat /\ i * m \in Nat
                            /\ b + i * m \in Nat /\ b + i * m + w <= MaxTime
  BY RegularStarts
<1>4. \A i \in 0 .. n - 1 : nth_start_time(s, d, i) = b + i * m
  <2> SUFFICES ASSUME NEW i \in 0 .. n - 1 PROVE nth_start_time(s, d, i) = b + i * m
    OBVIOUS
  <2>1. nth_start_time(s, d, i) = IF i >= n \/ b + m * i > MaxTime THEN None ELSE b + m * i
    BY DEF nth_start_time
  <2> HIDE DEF b, m, w, l, n
  <2>2. m * i = i * m /\ i \in Nat /\ ~(i >= n)
    BY <1>1, <1>3
  <2> DEFINE x == i * m
  <2>3. x \in Nat /\ b + x + w <= MaxTime
    BY <1>3
  <2> HIDE DEF x
  <2>4. ~(b + x > MaxTime)
    BY <1>1, <2>3
  <2> QED BY <2>1, <2>2, <2>4 DEF x
<1>5. ASSUME NEW t \in Times PROVE next_execution_index(s, d, t) = Cardinality(Started(s, d, t))
  <2>1. t \in Nat
    BY <1>1 DEF Times
  <2>2. actual_start(s, d) = b
    <3>1. ~(b > MaxTime)
      <4> HIDE DEF b, l, w
      <4> QED BY <1>1
    <3> QED BY <3>1 DEF actual_start, Saturate
  <2>3. current_execution_index(s, d, t) =
           IF t < b THEN None ELSE Lesser((t - b) \div m, n - 1)
    BY <2>2 DEF current_execution_index
  <2>4. next_execution_index(s, d, t) =
           IF current_execution_index(s, d, t) = None THEN 0 ELSE current_execution_index(s, d, t) + 1
    BY DEF next_execution_index
  <2>5. Started(s, d, t) = {u \in T : u <= t}
    BY DEF Started
  <2> HIDE DEF b, m, w, l, n, T
  <2>6. CASE t < b
    <3>1. next_execution_index(s, d, t) = 0
      BY <2>3, <2>4, <2>6
    <3>2. ASSUME NEW i \in 0 .. n - 1 PROVE ~(b + i * m <= t)
      <4> DEFINE x == i * m
      <4>1. x \in Nat
        BY <1>3
      <4> HIDE DEF x
      <4>2. ~(b + x <= t)
        BY <1>1, <2>1, <2>6, <4>1
      <4> QED BY <4>2 DEF x
    <3>3. Started(s, d, t) = {}
      BY <1>2, <2>5, <3>2
    <3> QED BY <3>1, <3>3, FS_EmptySet
  <2>7. CASE ~(t < b)
    <3> DEFINE x == t - b
               q == x \div m
               r == x % m
               c == Lesser(q, n - 1)
    <3>1. x \in Nat /\ t = b + x
      BY <1>1, <2>1, <2>7
    <3>2. q \in Nat /\ r \in Nat /\ r < m /\ x = q * m + r
      <4> HIDE DEF x
      <4> QED BY <1>1, <3>1, Division
    <3>3. c \in Nat /\ c <= q /\ c <= n - 1 /\ (c = q \/ c = n - 1)
      <4> HIDE DEF q
      <4> QED BY <1>1, <3>2 DEF Lesser
    <3>4. next_execution_index(s, d, t) = c + 1
      <4>1. c # None
        BY <3>3, TimeAssumption
      <4>2. current_execution_index(s, d, t) = c
        BY <2>3, <2>7
      <4> HIDE DEF c
      <4> QED BY <2>4, <4>1, <4>2
    <3> HIDE DEF x, q, r, c
    <3>5. ASSUME NEW i \in 0 .. n - 1 PROVE b + i * m <= t <=> i <= c
      <4> DEFINE y == i * m
                 z == q * m
      <4>1. i \in Nat /\ i <= n - 1
        BY <1>1
      <4>2. y \in Nat /\ z \in Nat /\ (i <= q => y <= z)
        BY <1>1, <3>2, <4>1, Multiples
      <4>3. q < i => z + m <= y
        BY <1>1, <3>2, <4>1, Multiples
      <4>4. x = z + r
        BY <3>2
      <4> HIDE DEF y, z
      <4>5. b + y <= t <=> i <= q
        BY <1>1, <3>1, <3>2, <4>1, <4>2, <4>3, <4>4
      <4>6. i <= q <=> i <= c
        BY <1>1, <3>2, <3>3, <4>1
      <4> QED BY <4>5, <4>6 DEF y
    <3>6. Started(s, d, t) = {b + i * m : i \in 0 .. c}
      <4>1. 0 .. c \subseteq 0 .. n - 1 /\ \A i \in 0 .. n - 1 : i <= c => i \in 0 .. c
        BY <1>1, <3>3
      <4>2. \A i \in 0 .. c : i <= c
        BY <3>3
      <4> QED BY <1>2, <2>5, <3>5, <4>1, <4>2
    <3>7. c + 1 \in Nat /\ (c + 1) - 1 = c
      BY <3>3
    <3>8. Cardinality(Starts(b, m, c + 1)) = c + 1
      BY <1>1, <3>7, CountStarts
    <3>9. Starts(b, m, c + 1) = {b + i * m : i \in 0 .. c}
      BY <3>7 DEF Starts
    <3> QED BY <3>4, <3>6, <3>8, <3>9
  <2> QED BY <2>6, <2>7
<1>6. T = {nth_start_time(s, d, i) : i \in 0 .. n - 1}
  BY <1>2, <1>4
<1> QED BY <1>5, <1>6 DEF IndicesNameStartTimes

\* The first and the last moment of a regular schedule.
LEMMA RegularRange ==
    ASSUME NEW s, NEW d, Regular(s, d)
    PROVE  /\ actual_start(s, d) = s.start_time + d
           /\ range(s, d)[1] = s.start_time + d
           /\ range(s, d)[2] =
                 (s.start_time + d) + (execution_count(s) - 1) * s.interval + s.duration
<1> DEFINE b == s.start_time + d
           m == s.interval
           w == s.duration
           l == s.end_time - s.start_time
           n == execution_count(s)
           y == (n - 1) * m
<1>1. /\ b \in Nat /\ m \in Nat /\ w \in Nat /\ l \in Nat /\ n \in Nat /\ MaxTime \in Nat
      /\ n >= 1 /\ n - 1 \in Nat /\ b + l + w <= MaxTime /\ y < l
  BY RegularNumbers
<1>2. y \in Nat
  <2> HIDE DEF n, m
  <2> QED BY <1>1
<1>3. ~(b > MaxTime) /\ ~(b + y > MaxTime) /\ ~((b + y) + w > MaxTime) /\ n # 0
  <2> HIDE DEF b, l, w, y, n
  <2> QED BY <1>1, <1>2
<1>4. actual_start(s, d) = b
  BY <1>3 DEF actual_start, Saturate
<1>5. actual_end(s, b) = Saturate(Saturate(b + y) + w)
  BY <1>3 DEF actual_end
<1>6. Saturate(b + y) = b + y
  BY <1>3 DEF Saturate
<1>7. Saturate((b + y) + w) = (b + y) + w
  BY <1>3 DEF Saturate
<1>8. range(s, d) = <<b, (b + y) + w>>
  BY <1>4, <1>5, <1>6, <1>7 DEF range
<1> HIDE DEF b, y, w
<1>9. range(s, d)[1] = b /\ range(s, d)[2] = (b + y) + w
  BY <1>8
<1> QED BY <1>4, <1>9 DEF b, y, w

\* range is the hull of the executions.
LEMMA RegularHull ==
    ASSUME NEW s, NEW d, Regular(s, d)
    PROVE  RangeIsHull(s, d)
<1> DEFINE b == s.start_time + d
           m == s.interval
           w == s.duration
           n == execution_count(s)
           k == n - 1
           y == k * m
           T == StartTimes(s, d)
<1>1. b \in Nat /\ m \in Nat /\ w \in Nat /\ n \in Nat /\ w > 0 /\ m > 0 /\ k \in Nat /\ MaxTime \in Nat
  BY RegularNumbers
<1>2. T = {b + i * m : i \in 0 .. k}
  BY RegularStarts
<1>3. \A i \in 0 .. k : i * m \in Nat /\ i * m <= y
  BY RegularStarts
<1>4. range(s, d)[1] = b /\ range(s, d)[2] = b + y + w
  BY RegularRange
<1>5. \A t : Runs(s, d, t) <=> \E u \in T : u <= t /\ t < u + w
  BY DEF Runs
<1> SUFFICES ASSUME NEW t \in Times
             PROVE  /\ Runs(s, d, t) => range(s, d)[1] <= t /\ t < range(s, d)[2]
                    /\ t = range(s, d)[1] \/ t = range(s, d)[2] - 1 => Runs(s, d, t)
  BY DEF RangeIsHull
<1>6. t \in Nat
  BY <1>1 DEF Times
<1> HIDE DEF b, m, w, n, T
<1>7. y \in Nat /\ k \in 0 .. k /\ 0 \in 0 .. k /\ 0 * m = 0
  <2> HIDE DEF k
  <2> QED BY <1>1
<1> HIDE DEF k
<1>8. ASSUME Runs(s, d, t) PROVE b <= t /\ t < b + y + w
  <2>1. PICK i \in 0 .. k : b + i * m <= t /\ t < b + i * m + w
    BY <1>2, <1>5, <1>8
  <2> DEFINE x == i * m
  <2>2. x \in Nat /\ x <= y /\ b + x <= t /\ t < b + x + w
    BY <1>3, <2>1
  <2> HIDE DEF x, y
  <2> QED BY <1>1, <1>6, <1>7, <2>2
<1>9. b \in T /\ b + y \in T
  <2>1. b + 0 * m \in T /\ b + k * m \in T
    BY <1>2, <1>7
  <2>2. b + 0 * m = b
    BY <1>1, <1>7
  <2> QED BY <2>1, <2>2
<1> HIDE DEF y
<1>10. t = b => Runs(s, d, t)
  <2> SUFFICES ASSUME t = b PROVE b <= t /\ t < b + w
    BY <1>5, <1>9
  <2> QED BY <1>1
<1>11. t = (b + y + w) - 1 => Runs(s, d, t)
  <2> SUFFICES ASSUME t = (b + y + w) - 1 PROVE b + y <= t /\ t < b + y + w
    BY <1>5, <1>9
  <2> QED BY <1>1, <1>7
<1>12. range(s, d)[2] - 1 = (b + y + w) - 1
  BY <1>4
<1> QED BY <1>4, <1>8, <1>10, <1>11, <1>12

\* A query that starts z after an execution and is shorter than the interval
\* m meets an execution of duration w: it starts during one, or it wraps
\* around the interval.
LEMMA RegularOverlaps ==
    ASSUME NEW s, NEW d, Regular(s, d)
    PROVE  OverlapsExact(s, d)
<1> DEFINE b == s.start_time + d
           m == s.interval
           w == s.duration
           n == execution_count(s)
           k == n - 1
           y == k * m
           T == StartTimes(s, d)
<1>1. /\ b \in Nat /\ m \in Nat /\ w \in Nat /\ n \in Nat /\ w > 0 /\ m > 0 /\ w < m
      /\ k \in Nat /\ MaxTime \in Nat
  BY RegularNumbers
<1>2. T = {b + i * m : i \in 0 .. k}
  BY RegularStarts
<1>3. \A i \in 0 .. k : i \in Nat /\ i * m \in Nat /\ i * m <= y
  BY RegularStarts
<1>4. range(s, d)[1] = b /\ range(s, d)[2] = b + y + w /\ actual_start(s, d) = b
  BY RegularRange
<1> SUFFICES ASSUME NEW a \in b .. MaxTime,
                    NEW c \in a + 1 .. Lesser(a + m - 1, MaxTime)
             PROVE  overlaps(s, d, <<a, c>>) <=> OverlapsSome(s, d, a, c)
  BY <1>4 DEF OverlapsExact
<1>5. OverlapsSome(s, d, a, c) <=> \E u \in T : u < c /\ a < u + w
  BY DEF OverlapsSome
<1> DEFINE e == b + y + w
           A == a - b
           C == c - b
           z == A % m
           f == IF C % m = 0 THEN m ELSE C % m
           v == (IF a >= b THEN a - b ELSE b) % m
<1>6. overlaps(s, d, <<a, c>>) <=>
        a < c /\ b # e /\ b < c /\ a < e /\ (f < v \/ v < w \/ f - v >= m)
  <2>1. <<a, c>>[1] = a /\ <<a, c>>[2] = c
    OBVIOUS
  <2> QED BY <1>4, <2>1 DEF overlaps
<1> HIDE DEF b, m, w, n, T
<1>7. a \in Nat /\ b <= a /\ c \in Nat /\ a < c /\ c < a + m
  BY <1>1 DEF Lesser
<1>8. y \in Nat /\ 0 <= y
  <2> HIDE DEF k
  <2> QED BY <1>1
<1>9. A \in Nat /\ C \in Nat /\ a = b + A /\ c = b + C /\ A < C /\ C < A + m
  BY <1>1, <1>7
<1>10. overlaps(s, d, <<a, c>>) <=> A < y + w /\ (f < z \/ z < w \/ f - z >= m)
  <2>1. v = z
    BY <1>1, <1>7
  <2> HIDE DEF y
  <2>2. (a < c /\ b # e /\ b < c /\ a < e) <=> A < y + w
    BY <1>1, <1>7, <1>8, <1>9
  <2> HIDE DEF z, f, e, A, v
  <2> QED BY <1>6, <2>1, <2>2
<1> DEFINE q == A \div m
           p == C \div m
           g == C % m
<1> HIDE DEF A, C
<1>11. q \in Nat /\ z \in Nat /\ z < m /\ A = q * m + z
  BY <1>1, <1>9, Division
<1>12. p \in Nat /\ g \in Nat /\ g < m /\ C = p * m + g
  BY <1>1, <1>9, Division
<1>13. f = IF g = 0 THEN m ELSE g
  OBVIOUS
<1> HIDE DEF q, p, z, g, f
<1> DEFINE Q == q * m
           P == p * m
<1>14. /\ Q \in Nat /\ P \in Nat /\ (q + 1) * m = Q + m
       /\ q <= p => Q <= P
       /\ q < p => Q + m <= P
  BY <1>1, <1>11, <1>12, Multiples
<1>15. p < q => P + m <= Q
  BY <1>1, <1>11, <1>12, Multiples
<1>16. q + 1 < p => (Q + m) + m <= P
  <2>1. q + 1 \in Nat
    BY <1>11
  <2>2. q + 1 < p => (q + 1) * m + m <= P
    BY <1>1, <1>12, <2>1, Multiples
  <2> QED BY <1>14, <2>2
<1>17. A = Q + z /\ C = P + g
  BY <1>11, <1>12
<1>18. p = q \/ p = q + 1
  <2> HIDE DEF Q, P
  <2>1. ~(p < q)
    BY <1>1, <1>9, <1>11, <1>12, <1>14, <1>15, <1>17
  <2>2. ~(q + 1 < p)
    BY <1>1, <1>9, <1>11, <1>12, <1>14, <1>16, <1>17
  <2> QED BY <1>11, <1>12, <2>1, <2>2
<1>19. /\ p = q => P = Q
       /\ p = q + 1 => P = Q + m
  BY <1>14
<1>20. /\ k <= q => y <= Q
       /\ k < q => y + m <= Q
       /\ q < k => Q + m <= y
  BY <1>1, <1>11, Multiples
<1> HIDE DEF Q, P, y
<1>21. ASSUME A < y + w, f < z \/ z < w \/ f - z >= m PROVE \E u \in T : u < c /\ a < u + w
  <2>1. q <= k
    BY <1>1, <1>8, <1>11, <1>14, <1>17, <1>20, <1>21
  <2>2. CASE z < w
    <3>1. b + q * m \in T
      BY <1>1, <1>2, <1>11, <2>1
    <3>2. b + Q < c /\ a < b + Q + w
      BY <1>1, <1>7, <1>9, <1>11, <1>14, <1>17, <2>2
    <3> QED BY <3>1, <3>2 DEF Q
  <2>3. CASE ~(z < w)
    <3>1. f < z /\ g > 0 /\ f = g
      BY <1>1, <1>11, <1>12, <1>13, <1>21, <2>3
    <3>2. p = q + 1
      BY <1>1, <1>9, <1>11, <1>12, <1>14, <1>17, <1>18, <1>19, <3>1
    <3>3. q < k
      BY <1>1, <1>8, <1>11, <1>14, <1>17, <1>20, <1>21, <2>1, <2>3
    <3>4. b + (q + 1) * m \in T
      BY <1>1, <1>2, <1>11, <3>3
    <3>5. b + (Q + m) < c /\ a < b + (Q + m) + w
      BY <1>1, <1>9, <1>11, <1>12, <1>14, <1>17, <1>19, <3>1, <3>2
    <3> QED BY <1>14, <3>4, <3>5
  <2> QED BY <2>2, <2>3
<1>22. ASSUME NEW u \in T, u < c, a < u + w PROVE A < y + w /\ (f < z \/ z < w \/ f - z >= m)
  <2>1. PICK i \in 0 .. k : u = b + i * m
    BY <1>2
  <2> DEFINE x == i * m
  <2>2. i \in Nat /\ x \in Nat /\ x <= y /\ u = b + x
    BY <1>3, <2>1
  <2>3. (i <= q => x <= Q) /\ (q < i => Q + m <= x)
    BY <1>1, <1>11, <2>2, Multiples DEF Q
  <2> HIDE DEF x
  <2>4. x < C /\ A < x + w
    BY <1>1, <1>9, <1>22, <2>2
  <2>5. A < y + w
    BY <1>1, <1>8, <1>9, <2>2, <2>4
  <2>6. CASE i <= q
    BY <1>1, <1>11, <1>14, <1>17, <2>2, <2>3, <2>4, <2>5, <2>6
  <2>7. CASE ~(i <= q)
    <3>1. Q + m <= x
      BY <1>11, <2>2, <2>3, <2>7
    <3>2. Q + m < C /\ C < Q + z + m
      BY <1>1, <1>9, <1>11, <1>14, <1>17, <2>2, <2>4, <3>1
    <3>3. p = q + 1
      BY <1>1, <1>11, <1>12, <1>14, <1>17, <1>18, <1>19, <3>2
    <3>4. 0 < g /\ g < z
      BY <1>1, <1>11, <1>12, <1>14, <1>17, <1>19, <3>2, <3>3
    <3> QED BY <1>12, <1>13, <2>5, <3>4
  <2> QED BY <2>2, <1>11, <2>6, <2>7
<1> QED BY <1>5, <1>10, <1>21, <1>22

\* The executions of every regular schedule are enumerated alike by the
\* iterator, by nth_start_time() and by the execution indices, in particular
\* those of the schedules the market is checked with.
THEOREM ExecutionsAgreeCorrect ==
    /\ \A s, d : Regular(s, d) => IteratesStartTimes(s, d) /\ IndicesNameStartTimes(s, d)
    /\ MarketSpec => []ExecutionsAgree
<1>1. \A s, d : Regular(s, d) => IteratesStartTimes(s, d) /\ IndicesNameStartTimes(s, d)
  BY RegularIterates, RegularIndices
<1>2. ExecutionsAgree
  BY <1>1, SampleAssumption DEF ExecutionsAgree
<1> QED BY <1>1, <1>2, PTL

\* For every regular schedule range() is the tight hull of its executions,
\* and overlaps() is exact for a query shorter than the interval that does
\* not start before the schedule.
THEOREM OverlapsExactCorrect ==
    /\ \A s, d : Regular(s, d) => RangeIsHull(s, d) /\ OverlapsExact(s, d)
    /\ MarketSpec => []OverlapsExactForShortQueries
<1>1. \A s, d : Regular(s, d) => RangeIsHull(s, d) /\ OverlapsExact(s, d)
  BY RegularHull, RegularOverlaps
<1>2. OverlapsExactForShortQueries
  BY <1>1, SampleAssumption DEF OverlapsExactForShortQueries
<1> QED BY <1>1, <1>2, PTL
=============================================================================
