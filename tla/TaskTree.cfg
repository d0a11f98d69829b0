SPECIFICATION FairSpec
CONSTANTS
    a = a
    b = b
    c = c
    alice = alice
    bob = bob
    ops = ops
    Task = {a, b, c}
    Request = {r1, r2}
    User = {alice, bob}
    Admin = {alice}
    Team = {ops}
    TeamsOf <- MCTeamsOf
    None = None
    NoRow = NoRow
    Keep = Keep
    InitTables <- TreeTables
    NewTasks <- NewChildren
    Patches <- TreeMoves
    MaxWeek = 1
    MaxLog = 0
    AllowDelete = TRUE
    AllowReschedule = FALSE
CHECK_DEADLOCK FALSE
INVARIANTS ParentExists NoMutualParents
PROPERTY EveryRequestReturns
