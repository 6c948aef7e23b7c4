------------------------------ MODULE Schedule ------------------------------
(***************************************************************************)
(* The execution schedule of a job: Schedule in acurast-common.  All       *)
(* operations are pure; times are unsigned integers up to MaxTime that     *)
(* saturate or fail (None) exactly where the code does.                    *)
(***************************************************************************)
EXTENDS Integers

CONSTANTS MaxTime,   \* u64::MAX
          None       \* Option::None

ASSUME TimeAssumption == MaxTime \in Nat /\ None \notin Nat

Times == 0 .. MaxTime

Schedules == [duration : Times, start_time : Times, end_time : Times,
              interval : Times, max_start_delay : Times]

Saturate(n) == IF n > MaxTime THEN MaxTime ELSE n

Lesser(a, b) == IF a < b THEN a ELSE b

execution_count(s) ==
    IF s.end_time <= s.start_time \/ s.interval = 0 THEN 0
    ELSE (s.end_time - s.start_time - 1) \div s.interval + 1

nth_start_time(s, start_delay, index) ==
    LET start == s.start_time + start_delay + s.interval * index
    IN  IF index >= execution_count(s) \/ start > MaxTime THEN None ELSE start

actual_start(s, start_delay) == Saturate(s.start_time + start_delay)

\* Only called for schedules with an execution and a positive interval.
current_execution_index(s, start_delay, now) ==
    LET start == actual_start(s, start_delay)
    IN  IF now < start THEN None
        ELSE Lesser((now - start) \div s.interval, execution_count(s) - 1)

next_execution_index(s, start_delay, now) ==
    LET current == current_execution_index(s, start_delay, now)
    IN  IF current = None THEN 0 ELSE current + 1

actual_end(s, start) ==
    IF execution_count(s) = 0 THEN start
    ELSE Saturate(Saturate(start + (execution_count(s) - 1) * s.interval) + s.duration)

is_expired(s, now, report_tolerance) ==
    now > Saturate(actual_end(s, actual_start(s, s.max_start_delay)) + report_tolerance)

\* First instant of the first execution, first instant after the last one.
range(s, start_delay) ==
    LET start == actual_start(s, start_delay) IN <<start, actual_end(s, start)>>

\* Slip: a query that wraps around the interval is not recognised.
overlaps_noWrap(s, start_delay, bounds) ==
    LET start == range(s, start_delay)[1]
        end   == range(s, start_delay)[2]
        a     == (IF bounds[1] >= start THEN bounds[1] - start ELSE start) % s.interval
        b     == IF (bounds[2] - start) % s.interval = 0
                 THEN s.interval ELSE (bounds[2] - start) % s.interval
    IN  /\ bounds[1] < bounds[2] /\ start # end
        /\ start < bounds[2] /\ bounds[1] < end
        /\ a < s.duration \/ b - a >= s.interval

overlaps(s, start_delay, bounds) ==
    LET start == range(s, start_delay)[1]
        end   == range(s, start_delay)[2]
        a     == (IF bounds[1] >= start THEN bounds[1] - start ELSE start) % s.interval
        b     == IF (bounds[2] - start) % s.interval = 0
                 THEN s.interval ELSE (bounds[2] - start) % s.interval
    IN  /\ bounds[1] < bounds[2] /\ start # end
        /\ start < bounds[2] /\ bounds[1] < end
        /\ b < a \/ a < s.duration \/ b - a >= s.interval

-----------------------------------------------------------------------------
(* Schedule::iter: the iterator fails to start if a bound overflows; next() *)
(* yields the following start time or ends.                                 *)
CanIterate(s, start_delay) == s.end_time + start_delay <= MaxTime

\* Slip: the end of the schedule is taken as inclusive.
IterNext_inclusiveEnd(s, start_delay, current) ==
    LET next == IF current = None THEN s.start_time + start_delay ELSE current + s.interval
    IN  IF next <= MaxTime /\ next <= s.end_time + start_delay THEN next ELSE None

IterNext(s, start_delay, current) ==
    LET next == IF current = None THEN s.start_time + start_delay ELSE current + s.interval
    IN  IF next <= MaxTime /\ next < s.end_time + start_delay THEN next ELSE None

\* Everything the iterator yields (see IteratesStartTimes).
StartTimes(s, start_delay) ==
    {s.start_time + start_delay + i * s.interval : i \in 0 .. execution_count(s) - 1}
=============================================================================
