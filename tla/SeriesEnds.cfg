SPECIFICATION SerialSpec
CONSTANTS
    None = None
    Keep = Keep
    NoRow = NoRow
    DaysInWeek = 2
    MaxPeriod = 3
    Id = {a, b, c}
    Request = {r1}
    Rules <- EditRules
    StartPeriods <- FirstPeriod
    Patches <- Edits
    AllowDelete = TRUE
    AllowReschedule = TRUE
CHECK_DEADLOCK FALSE
PROPERTY EndedSpawnsNothing
