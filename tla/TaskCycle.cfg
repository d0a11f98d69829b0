SPECIFICATION Spec
CONSTANTS
    a = a
    b = b
    c = c
    alice = alice
    bob = bob
    ops = ops
    Task = {a, b, c}
    Request = {r1, r2}
    User = {alice, bob}
    Admin = {alice}
    Team = {ops}
    TeamsOf <- MCTeamsOf
    None = None
    NoRow = NoRow
    Keep = Keep
    InitTables <- LooseTables
    NewTasks <- NoNewTasks
    Patches <- Moves
    MaxWeek = 1
    MaxLog = 0
    AllowDelete = FALSE
    AllowReschedule = FALSE
CHECK_DEADLOCK FALSE
INVARIANT Acyclic
