---------------------------- MODULE MCMarketplace ----------------------------
(* Small markets: registrations, price lists and match proposals.            *)
EXTENDS ScheduleReference, TLC

\* Enough for every registration; the pallet account owns more than the
\* budgets, so that only the budgets limit what is paid for a job.
MCBalances == [a \in Accounts |->
    IF a \in Consumers \cup {Hyperdrive} THEN 20 ELSE IF a = Pallet THEN 10 ELSE 1]

Job(schedule, slots, reward, strategy) ==
    [schedule |-> schedule, slots |-> slots, reward |-> reward, strategy |-> strategy,
     instant_match |-> None, allow_only_verified_sources |-> FALSE, allowed_sources |-> None]

From(start, end, interval, duration) ==
    [duration |-> duration, start_time |-> start, end_time |-> end,
     interval |-> interval, max_start_delay |-> 1]

\* Two executions at 1 and 3, for two processors.
TwoSlots == Job(From(1, 4, 2, 1), 2, 3, "Single")

\* The processors differ in nothing.
ProcessorSymmetry == Permutations(Processors)

\* Everything passes the checks that are not modelled one by one.
MCCapable == Registrations \X Processors

\* Three executions at 2, 4 and 6, each matched on its own.
Competing == Job(From(2, 7, 2, 1), 1, 4, "Competing")

CompetingRegistrations == {Competing}

\* Two executions at 2 and 4 for one processor; like every job it can be matched
\* as a whole and one execution at a time.
Single == Job(From(2, 5, 2, 1), 1, 4, "Single")

MixedRegistrations == {Competing, Single}

\* A job that its own registration matches with p, for attested sources only.
Instant(p) ==
    [Job(From(2, 5, 2, 1), 1, 4, "Single")
        EXCEPT !.instant_match = [q \in {p} |-> 0], !.allow_only_verified_sources = TRUE]

WholeRegistrations == {TwoSlots} \cup {Instant(p) : p \in Processors}
-----------------------------------------------------------------------------
\* Every schedule register_hook lets through within small bounds: up to seven
\* executions, every phase of the interval.
SmallSchedules ==
    {s \in [duration : 1 .. 3, start_time : 0 .. 3, end_time : 0 .. 10,
            interval : {2, 3, 4}, max_start_delay : {0}] :
        execution_count(s) > 0 /\ s.duration < s.interval}

SmallDelays == 0 .. 2
=============================================================================
