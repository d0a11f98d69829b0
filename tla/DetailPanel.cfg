SPECIFICATION Spec
CONSTANTS
    top = top
    sub = sub
    memo = memo
    jot = jot
    None = None
    Task = {top, sub}
    Parent <- MCParent
    Horizon <- MCHorizon
    Note = {memo, jot}
    Born <- MCBorn
    Day <- MCDay
    Tables <- MCTables
    Slot <- MCSlot
    MaxWrites = 2
CHECK_DEADLOCK FALSE
INVARIANTS LoadingIsLive OneNoteWrite NotesStayHome OneDelete
PROPERTY NotesNeverMoveThePanel
