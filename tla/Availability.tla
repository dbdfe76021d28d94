----------------------------- MODULE Availability -----------------------------
(***************************************************************************)
(* The availability arithmetic: planned production time of a shift         *)
(* (oee/domain/shift.go), downtime of state intervals and the ratio        *)
(* (availability/domain/calculator.go), the shift lookup with its wildcard *)
(* fallback (config repository), the on-demand query (query use case and    *)
(* repository) and the snapshot of a live tick (engine.go).                *)
(*                                                                         *)
(* The state is one machine's history: time passes and the machine changes *)
(* state, as UseCase.Apply records it.  In every state the operators are   *)
(* compared with definitions that look at each instant of the window.      *)
(*                                                                         *)
(* Time is discrete.  A zone is a constant offset from UTC (no daylight     *)
(* saving); a shift's minutes are counted from local midnight.             *)
(***************************************************************************)
EXTENDS Integers, Sequences, FiniteSets, Functions

CONSTANTS
    SecondLen,     \* instants per second of the timestamps, written as a fraction
    DayLen,        \* instants per day (1440 minutes in the code)
    WeekLen,       \* days per week (7 in the code)
    Offsets,       \* UTC offsets the events' timestamps are written with
    States,        \* machine states that occur
    ShiftTables,   \* contents of the shifts table to consider
    MaxTime,       \* bound: the clock
    MaxIntervals   \* bound: state changes

\* The fields of a shift, in instants from midnight.
IsShift(s) ==
    /\ s.start \in Int /\ s.end \in Int /\ s.zone \in Int
    /\ s.breaks \in Seq([start : Int, end : Int])

ASSUME AvailabilityAssumption ==
    /\ SecondLen \in 1..10 /\ DayLen \in Nat \ {0} /\ WeekLen \in Nat \ {0}
    /\ Offsets \subseteq Int
    /\ States \subseteq {"running", "stopped", "setup", "idle", "maintenance", "off"}
    /\ MaxTime \in Nat /\ MaxIntervals \in Nat
    /\ \A table \in ShiftTables : \A r \in table : IsShift(r.shift)

VARIABLES
    now,        \* the clock
    shifts,     \* the shifts table: a set of [machine, shift] rows
    intervals   \* the machine's rows of state_intervals, oldest first

vars == <<now, shifts, intervals>>

Machine == "machine"
Open    == -1          \* ended_at IS NULL
Window(from, to) == [from |-> from, to |-> to]
Larger(a, b)  == IF a > b THEN a ELSE b
Smaller(a, b) == IF a < b THEN a ELSE b

-----------------------------------------------------------------------------
(* Shift.PlannedProductionTime                                              *)

Overlap(aStart, aEnd, bStart, bEnd) ==
    LET start == Larger(aStart, bStart)
        end   == Smaller(aEnd, bEnd)
    IN IF end > start THEN end - start ELSE 0

\* The local day of instant t, and the instant a local day starts.
DayOf(t, zone)   == (t + zone) \div DayLen
StartOf(d, zone) == d * DayLen - zone

PlannedTimeOnDay(s, d, w) ==
    LET day        == StartOf(d, s.zone)
        workedFrom == Larger(day + s.start, w.from)
        workedTo   == Smaller(day + s.end, w.to)
        breaks     == [i \in DOMAIN s.breaks |->
                         Overlap(day + s.breaks[i].start, day + s.breaks[i].end,
                                 workedFrom, workedTo)]
    IN IF workedTo <= workedFrom THEN 0
       ELSE Larger(workedTo - workedFrom - SumFunction(breaks), 0)

AppliesOn(s, d) == s.weekdays = {} \/ d % WeekLen \in s.weekdays

\* Faulty variant: the shift that began on the day before the window is missed.
PlannedFromFirstDay(s, w) ==
    IF w.to <= w.from THEN 0
    ELSE SumFunction([d \in {d \in DayOf(w.from, s.zone)..DayOf(w.to, s.zone) :
                               AppliesOn(s, d)} |-> PlannedTimeOnDay(s, d, w)])

PlannedProductionTime(s, w) ==
    LET firstDay == DayOf(w.from, s.zone) - 1
        lastDay  == DayOf(w.to, s.zone) + 1
        days     == {d \in firstDay..lastDay : AppliesOn(s, d)}
    IN IF w.to <= w.from THEN 0
       ELSE SumFunction([d \in days |-> PlannedTimeOnDay(s, d, w)])

\* ShiftRepository.ForMachineWindow: the machine's own shifts, else those of "*".
ForMachineWindow(table, w) ==
    LET own   == {r \in table : r.machine = Machine}
        found == IF own # {} THEN own ELSE {r \in table : r.machine = "*"}
    IN [planned |-> SumFunction([r \in found |-> PlannedProductionTime(r.shift, w)]),
        found   |-> found # {}]

-----------------------------------------------------------------------------
(* Aggregate and Availability                                               *)

IsDowntime(state)    == state \in {"stopped", "setup", "maintenance"}
IsPlannedStop(state) == state \in {"setup", "maintenance"}

\* Faulty variant: the part before the window is counted too.
ClippedAtEnd(iv, w) ==
    LET end == IF iv.end # Open /\ iv.end < w.to THEN iv.end ELSE w.to
    IN IF end > iv.start THEN end - iv.start ELSE 0

\* The part of an interval inside the window; an open one lasts to its end.
Clipped(iv, w) ==
    LET start == Larger(iv.start, w.from)
        end   == IF iv.end # Open /\ iv.end < w.to THEN iv.end ELSE w.to
    IN IF end > start THEN end - start ELSE 0

Aggregate(w, ivs, planned) ==
    LET down  == {i \in DOMAIN ivs : IsDowntime(ivs[i].state)}
        stops == {i \in down : IsPlannedStop(ivs[i].state)}
        dur   == [i \in DOMAIN ivs |-> Clipped(ivs[i], w)]
    IN [planned       |-> planned,
        plannedDown   |-> SumFunctionOnSet(dur, stops),
        unplannedDown |-> SumFunctionOnSet(dur, down \ stops),
        count         |-> Cardinality({i \in DOMAIN ivs : dur[i] > 0})]

\* The ratio is kept as run time over planned time.
Ratio(in) ==
    IF in.planned = 0
      THEN [hasData |-> FALSE, run |-> 0, planned |-> 0, plannedDown |-> 0, unplannedDown |-> 0]
      ELSE [hasData |-> TRUE,
            run |-> Larger(in.planned - (in.plannedDown + in.unplannedDown), 0),
            planned |-> in.planned,
            plannedDown |-> in.plannedDown, unplannedDown |-> in.unplannedDown]

-----------------------------------------------------------------------------
(* Reading the intervals, the query and the live tick                       *)

(* Timestamps are stored as RFC 3339 text in the event's own offset and      *)
(* compared as text with a bound in UTC.  The local second decides, then the *)
(* fraction, which RFC3339Nano leaves out when it is zero, then the zone:    *)
(* "+hh:mm" sorts before ".5" and ".5" before "Z".                           *)
TextRank(t, off) ==
    LET second   == (t + off) \div SecondLen
        fraction == (t + off) % SecondLen
        suffix   == IF fraction = 0 THEN (IF off = 0 THEN 2 * SecondLen ELSE 0)
                    ELSE 2 * fraction - (IF off = 0 THEN 0 ELSE 1)
    IN second * (2 * SecondLen + 1) + suffix

TextBefore(t, off, bound) == TextRank(t, off) < TextRank(bound, 0)
TextAfter(t, off, bound)  == TextRank(t, off) > TextRank(bound, 0)

\* The rows the query selects, by their place in the table.
ByMachineRange(w) ==
    LET Selected(iv) == /\ TextBefore(iv.start, iv.startOff, w.to)
                        /\ iv.end = Open \/ TextAfter(iv.end, iv.endOff, w.from)
    IN Restrict(intervals, {i \in DOMAIN intervals : Selected(intervals[i])})

\* UseCase.Execute, called with from < to.
Execute(w) ==
    LET ivs     == ByMachineRange(w)
        cfg     == ForMachineWindow(shifts, w)
        planned == IF cfg.found THEN cfg.planned ELSE w.to - w.from
        in      == Aggregate(w, ivs, planned)
        result  == Ratio(in)
    IN [result EXCEPT !.hasData = @ /\ in.count > 0]

\* Engine.tick: the window runs from the machine's first event to now, and
\* ForMachineWindow's "found" is ignored.
LiveWindow == Window(intervals[1].start, now)

\* Faulty variant: the interval that is still open is left out.
LiveSnapshotClosedOnly ==
    LET Closed(iv) == iv.end # Open
    IN Ratio(Aggregate(LiveWindow, SelectSeq(intervals, Closed),
                       ForMachineWindow(shifts, LiveWindow).planned))

LiveSnapshot ==
    Ratio(Aggregate(LiveWindow, intervals, ForMachineWindow(shifts, LiveWindow).planned))

-----------------------------------------------------------------------------
(* The machine's history                                                    *)

Init ==
    /\ now = 0
    /\ shifts \in ShiftTables
    /\ intervals = << >>

Tick ==
    /\ now < MaxTime
    /\ now' = now + 1
    /\ UNCHANGED <<shifts, intervals>>

\* A state_change event stamped now, as UseCase.Apply stores it.
Change(state, off) ==
    LET n == Len(intervals) IN
    /\ n < MaxIntervals
    /\ n > 0 => intervals[n].state # state /\ intervals[n].start < now
    /\ intervals' =
         Append(IF n = 0 THEN << >>
                ELSE [intervals EXCEPT ![n].end = now, ![n].endOff = off],
                [state |-> state, start |-> now, startOff |-> off,
                 end |-> Open, endOff |-> off])
    /\ UNCHANGED <<now, shifts>>

Next == Tick \/ \E state \in States, off \in Offsets : Change(state, off)

Spec == Init /\ [][Next]_vars

-----------------------------------------------------------------------------
(* Properties                                                               *)

\* What the theorems need of the configuration, none of which the code checks.
\* A shift ends within the day after the one it begins on, does not run into
\* itself a day later, and no two of its breaks overlap.
WellFormed(s) ==
    /\ s.start >= 0 /\ s.end <= 2 * DayLen /\ s.end - s.start <= DayLen
    /\ \A i, j \in DOMAIN s.breaks :
         i # j => (s.breaks[i].start..(s.breaks[i].end - 1))
                    \cap (s.breaks[j].start..(s.breaks[j].end - 1)) = {}

\* Every shift is well formed; every timestamp is a whole second in UTC.
ShiftsWellFormed == \A table \in ShiftTables : \A r \in table : WellFormed(r.shift)
PlainTimestamps  == SecondLen = 1 /\ Offsets = {0}

Windows == {w \in [from : 0..now, to : 0..now] : w.from < w.to}
Instants(w) == w.from..(w.to - 1)

\* Instant x is planned production time of shift s: in the shift of some day it
\* applies on (an overnight shift may have begun the day before), not in a break.
IsPlanned(s, x) ==
    \E d \in (DayOf(x, s.zone) - 2)..(DayOf(x, s.zone) + 2) :
        LET m == x - StartOf(d, s.zone) IN
        /\ AppliesOn(s, d)
        /\ m \in s.start..(s.end - 1)
        /\ \A i \in DOMAIN s.breaks : m \notin s.breaks[i].start..(s.breaks[i].end - 1)

StateAt(x) == LET i == CHOOSE i \in DOMAIN intervals :
                         /\ intervals[i].start <= x
                         /\ intervals[i].end = Open \/ x < intervals[i].end
              IN intervals[i].state

Known(x) == intervals # << >> /\ intervals[1].start <= x

\* Summing a shift day by day, with clipped overlaps, counts exactly the
\* planned instants of the window: at midnight, across overnight shifts,
\* weekday limits, breaks cut by the window and zones, for every window.
PlannedCountsInstants ==
    \A w \in Windows : \A r \in shifts :
        PlannedProductionTime(r.shift, w) =
            Cardinality({x \in Instants(w) : IsPlanned(r.shift, x)})

\* Reading the rows of a window and clipping them counts exactly the instants
\* the machine was down, for every window ("only the overlapping portion SHALL
\* count toward stop time").
DowntimeCountsInstants ==
    \A w \in Windows :
        LET in == Aggregate(w, ByMachineRange(w), 0)
            down == {x \in Instants(w) : Known(x) /\ IsDowntime(StateAt(x))}
        IN /\ in.plannedDown = Cardinality({x \in down : IsPlannedStop(StateAt(x))})
           /\ in.unplannedDown = Cardinality({x \in down : ~IsPlannedStop(StateAt(x))})

\* The rows that count for the machine: its own, or those of "*" if it has none.
Applicable ==
    {r \in shifts : \/ r.machine = Machine
                    \/ r.machine = "*" /\ \A q \in shifts : q.machine # Machine}

\* What Engine.tick pushes is a count of the instants since the machine's first
\* event: those planned by each applicable shift, those stopped as planned and
\* those failed, with the open interval counted up to now; and there is no data
\* exactly when nothing was planned.  This holds without a shift as well, and
\* whatever offset the events are written with, since no text is compared here.
LiveCountsInstants ==
    (intervals # << >> /\ intervals[1].start < now) =>
        LET seen    == {x \in 0..(now - 1) : Known(x)}
            stops   == {x \in seen : IsPlannedStop(StateAt(x))}
            fails   == {x \in seen : IsDowntime(StateAt(x))} \ stops
            planned == SumFunction([r \in Applicable |->
                                      Cardinality({x \in seen : IsPlanned(r.shift, x)})])
        IN  /\ LiveSnapshot.hasData <=> planned # 0
            /\ LiveSnapshot.hasData =>
                 /\ LiveSnapshot.planned = planned
                 /\ LiveSnapshot.plannedDown = Cardinality(stops)
                 /\ LiveSnapshot.unplannedDown = Cardinality(fails)
                 /\ LiveSnapshot.run = Larger(planned - (Cardinality(stops) + Cardinality(fails)), 0)

\* "the live worker, the REST use case, and any future sink all share identical
\* math", with a fall back to the wall-clock window "WHEN no shift is configured":
\* a live snapshot is what the query answers for the same window.
LiveAgreesWithQuery ==
    (intervals # << >> /\ LiveWindow.from < now) => LiveSnapshot = Execute(LiveWindow)
=============================================================================
