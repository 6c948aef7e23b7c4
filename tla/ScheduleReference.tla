-------------------------- MODULE ScheduleReference --------------------------
(***************************************************************************)
(* What the operations of a schedule mean, stated through the set of its   *)
(* start times, for sample schedules and start delays.                     *)
(***************************************************************************)
EXTENDS Marketplace

CONSTANTS SampleSchedules, SampleDelays

\* A schedule that register_hook lets through, and no time of it overflows.
Regular(s, d) ==
    /\ s \in Schedules /\ d \in Nat
    /\ s.duration > 0 /\ s.duration < s.interval /\ execution_count(s) > 0
    /\ s.end_time + d + s.duration <= MaxTime

ASSUME SampleAssumption == \A s \in SampleSchedules, d \in SampleDelays : Regular(s, d)

Runs(s, d, t) == \E u \in StartTimes(s, d) : u <= t /\ t < u + s.duration

OverlapsSome(s, d, a, b) == \E u \in StartTimes(s, d) : u < b /\ a < u + s.duration

Started(s, d, t) == {u \in StartTimes(s, d) : u <= t}

\* The start time that follows u in the schedule, None after the last one.
Following(s, d, u) ==
    LET later == {v \in StartTimes(s, d) : u = None \/ v > u}
    IN  IF later = {} THEN None ELSE CHOOSE v \in later : \A w \in later : v <= w

IteratesStartTimes(s, d) ==
    /\ CanIterate(s, d)
    /\ \A u \in StartTimes(s, d) \cup {None} : IterNext(s, d, u) = Following(s, d, u)

IndicesNameStartTimes(s, d) ==
    /\ StartTimes(s, d) = {nth_start_time(s, d, i) : i \in 0 .. execution_count(s) - 1}
    /\ \A t \in Times : next_execution_index(s, d, t) = Cardinality(Started(s, d, t))

RangeIsHull(s, d) ==
    \A t \in Times :
        /\ Runs(s, d, t) => range(s, d)[1] <= t /\ t < range(s, d)[2]
        /\ t = range(s, d)[1] \/ t = range(s, d)[2] - 1 => Runs(s, d, t)

OverlapsExact(s, d) ==
    \A a \in actual_start(s, d) .. MaxTime :
        \A b \in a + 1 .. Lesser(a + s.interval - 1, MaxTime) :
            overlaps(s, d, <<a, b>>) <=> OverlapsSome(s, d, a, b)

-----------------------------------------------------------------------------
(* The operations are pure, so they are looked at only before a job is     *)
(* registered.                                                             *)
Untouched == now = 0 /\ last_job_id = 0

\* The executions of a job are enumerated in four ways that must agree: the
\* iterator over the start times, nth_start_time() below execution_count(),
\* and current_execution_index() and next_execution_index(), which count the
\* executions that have started and stay at the last one for ever after.
ExecutionsAgree ==
    Untouched => \A s \in SampleSchedules, d \in SampleDelays :
        IteratesStartTimes(s, d) /\ IndicesNameStartTimes(s, d)

\* range() is the tight hull of all executions, "from first execution's start to
\* end of last execution, respecting `start_delay`", as the first line of its doc
\* says: it begins with the first delayed execution.  The example below that
\* line, ".range(2) -> (3, 17)", begins with the schedule instead, where the code
\* gives (5, 17).  And overlaps() is exact for a query shorter than the interval
\* that does not start before the schedule.
OverlapsExactForShortQueries ==
    Untouched => \A s \in SampleSchedules, d \in SampleDelays :
        RangeIsHull(s, d) /\ OverlapsExact(s, d)
=============================================================================
