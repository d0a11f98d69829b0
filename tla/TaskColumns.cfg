SPECIFICATION Spec
CONSTANTS
    a = a
    b = b
    c = c
    alice = alice
    bob = bob
    ops = ops
    Task = {a}
    Request = {r1, r2}
    User = {alice, bob}
    Admin = {alice}
    Team = {ops}
    TeamsOf <- MCTeamsOf
    None = None
    NoRow = NoRow
    Keep = Keep
    InitTables <- ColumnTables
    NewTasks <- ColumnNewTasks
    Patches <- ColumnPatches
    MaxWeek = 2
    MaxLog = 2
    AllowDelete = TRUE
    AllowReschedule = TRUE
CHECK_DEADLOCK FALSE
INVARIANTS RowsCoherent PatchSeesCurrentRow LogExplainsStatus RootUndoIsExact
