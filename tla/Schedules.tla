----------------------------- MODULE Schedules -----------------------------
(* x/vesting/types/schedule.go: a schedule is a start time and a sequence of *)
(* periods, each releasing an amount when it ends.  Amounts are of the one   *)
(* denomination that is granted.                                             *)
EXTENDS Integers, Sequences, FiniteSetsExt

Period(length, amount) == [length |-> length, amount |-> amount]

TotalLength(periods) == MapThenSumSet(LAMBDA i : periods[i].length, DOMAIN periods)
TotalAmount(periods) == MapThenSumSet(LAMBDA i : periods[i].amount, DOMAIN periods)

Prefix(periods, n) == SubSeq(periods, 1, n)

\* When the i-th period ends.
EndOf(start, periods, i) == start + TotalLength(Prefix(periods, i))

-----------------------------------------------------------------------------
(* Reading a schedule.                                                      *)

\* How many of the leading periods are over.
ReadPastPeriodCount(start, end, periods, readTime) ==
    CASE readTime <= start -> 0
      [] readTime > start /\ readTime >= end -> Len(periods)
      [] OTHER -> Max({n \in 0..Len(periods) : \A i \in 1..n : EndOf(start, periods, i) <= readTime})

\* What has been released: nothing up to the start, all from the end on.
ReadSchedule(start, end, periods, total, readTime) ==
    CASE readTime <= start -> 0
      [] readTime > start /\ readTime >= end -> total
      [] OTHER -> TotalAmount(Prefix(periods, ReadPastPeriodCount(start, end, periods, readTime)))

-----------------------------------------------------------------------------
(* Two schedules walked side by side in the order of their events, the ones *)
(* at the same time taken together.                                         *)

RECURSIVE Events(_, _, _, _)
Events(timeA, timeB, periodsA, periodsB) ==
    IF periodsA = <<>> /\ periodsB = <<>> THEN <<>>
    ELSE LET nextA == timeA + Head(periodsA).length
             nextB == timeB + Head(periodsB).length
             takeA == periodsB = <<>> \/ (periodsA # <<>> /\ nextA <= nextB)
             takeB == periodsA = <<>> \/ (periodsB # <<>> /\ nextB <= nextA)
             event == [time |-> IF takeA THEN nextA ELSE nextB,
                       a |-> IF takeA THEN Head(periodsA).amount ELSE 0,
                       b |-> IF takeB THEN Head(periodsB).amount ELSE 0]
         IN  <<event>> \o Events(IF takeA THEN nextA ELSE timeA, IF takeB THEN nextB ELSE timeB,
                                 IF takeA THEN Tail(periodsA) ELSE periodsA,
                                 IF takeB THEN Tail(periodsB) ELSE periodsB)

\* The periods of a sequence of events [time, amount], the last one ending at "end".
RECURSIVE Emit(_, _)
Emit(last, events) ==
    IF events = <<>> THEN [end |-> last, periods |-> <<>>]
    ELSE LET rest == Emit(Head(events).time, Tail(events)) IN
         [rest EXCEPT !.periods = <<Period(Head(events).time - last, Head(events).amount)>> \o @]

Earlier(s, t) == IF s <= t THEN s ELSE t
Later(s, t) == IF s >= t THEN s ELSE t

\* Fault: of two events at the same time only the first is emitted.
DisjunctPeriods_DropsSecond(startA, startB, periodsA, periodsB) ==
    LET start == Earlier(startA, startB)
        events == Events(startA, startB, periodsA, periodsB)
        union == Emit(start, [i \in DOMAIN events |->
                                 [time |-> events[i].time,
                                  amount |-> IF events[i].a > 0 THEN events[i].a ELSE events[i].b]])
    IN  [start |-> start, end |-> union.end, periods |-> union.periods]

\* The union of the events: both schedules release side by side.
DisjunctPeriods(startA, startB, periodsA, periodsB) ==
    LET start == Earlier(startA, startB)
        events == Events(startA, startB, periodsA, periodsB)
        union == Emit(start, [i \in DOMAIN events |->
                                 [time |-> events[i].time, amount |-> events[i].a + events[i].b]])
    IN  [start |-> start, end |-> union.end, periods |-> union.periods]

\* The smaller of the two totals at every event; events that add nothing to
\* it leave no period.
ConjunctPeriods(startA, startB, periodsA, periodsB) ==
    LET start == Earlier(startA, startB)
        events == Events(startA, startB, periodsA, periodsB)
        smaller(n) == Earlier(MapThenSumSet(LAMBDA i : events[i].a, 1..n),
                              MapThenSumSet(LAMBDA i : events[i].b, 1..n))
        steps == [i \in DOMAIN events |->
                     [time |-> events[i].time, amount |-> smaller(i) - smaller(i - 1)]]
        both == Emit(start, SelectSeq(steps, LAMBDA s : s.amount # 0))
    IN  [start |-> start, end |-> both.end, periods |-> both.periods]

\* The first period of the later schedule is extended back to the common start.
AlignSchedules(startA, startB, periodsA, periodsB) ==
    LET start == Earlier(startA, startB)
        aligned(from, periods) ==
            IF periods = <<>> THEN <<>> ELSE [periods EXCEPT ![1].length = @ + from - start]
        a == aligned(startA, periodsA)
        b == aligned(startB, periodsB)
    IN  [start |-> start, a |-> a, b |-> b,
         end |-> Later(start + TotalLength(a), start + TotalLength(b))]

-----------------------------------------------------------------------------
\* What a schedule promises, from its definition as a step function: the
\* amounts of all periods that have ended.
Released(start, periods, t) ==
    MapThenSumSet(LAMBDA i : periods[i].amount, {i \in DOMAIN periods : EndOf(start, periods, i) <= t})
=============================================================================
