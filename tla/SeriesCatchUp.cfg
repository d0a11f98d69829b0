SPECIFICATION ReadSpec
CONSTANTS
    None = None
    Keep = Keep
    NoRow = NoRow
    DaysInWeek = 2
    MaxPeriod = 4
    Id = {a, b, c}
    Request = {r1, r2}
    Rules <- CalendarRules
    StartPeriods <- FirstPeriods
    Patches <- NoPatches
    AllowDelete = FALSE
    AllowReschedule = FALSE
SYMMETRY Symmetry
CHECK_DEADLOCK FALSE
INVARIANTS FollowsCalendar CaughtUp OnePerPeriod
