SPECIFICATION Spec
CONSTANTS
    None = None
    a = a
    b = b
    ann = ann
    daily = daily
    other = other
    Task = {a, b}
    Member = {ann}
    Series = {daily, other}
    Occurs <- MCOccurs
    Starts <- MCStarts
    MaxActs = 2
    MaxReloads = 1
INVARIANTS SelectionShown BusyIsLive
PROPERTIES UndoRestores OffersAreAccepted
CHECK_DEADLOCK FALSE
