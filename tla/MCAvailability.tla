--------------------------- MODULE MCAvailability ---------------------------
(* Shifts and zones for the availability arithmetic, with days of 4 instants. *)
EXTENDS Availability

Shift(start, end, weekdays, breaks, zone) ==
    [start |-> start, end |-> end, weekdays |-> weekdays, breaks |-> breaks, zone |-> zone]

Brk(start, end) == [start |-> start, end |-> end]

Own(s) == [machine |-> Machine, shift |-> s]
Any(s) == [machine |-> "*", shift |-> s]

DayShift       == Shift(1, 3, {}, << >>, 0)
NightShift     == Shift(3, 6, {}, <<Brk(4, 5)>>, 0)          \* over midnight
WeekdayShift   == Shift(0, 4, {1}, <<Brk(1, 2), Brk(2, 3)>>, 1)
WeekdayNight   == Shift(2, 6, {0}, <<Brk(1, 3)>>, -1)        \* break begins before the shift

NoShift == {}

Configured ==
    {{Own(DayShift)}, {Any(NightShift)}, {Own(WeekdayShift), Any(DayShift)},
     {Own(WeekdayNight), Own(Shift(0, 1, {}, << >>, 0))}, NoShift}

Unconfigured == {NoShift}

UTCOnly == {0}

\* The instance meets the hypotheses of the theorems.
ASSUME InstanceAssumption == ShiftsWellFormed /\ PlainTimestamps
=============================================================================
