SPECIFICATION Spec
CONSTANTS
    Team = {x, y}
    Member = {m, n}
    Task = {t}
    Request = {r1, r2}
    Login = {}
    None = None
SYMMETRY Symmetry
CHECK_DEADLOCK FALSE
INVARIANTS RefsStand MembershipsAsRead OutsidersHaveLeft
