SPECIFICATION Spec
CONSTANTS
    Note = {n1, n2}
    Date = {monday, friday}
    Request = {r1, r2, r3}
    None = None
SYMMETRY Symmetry
CHECK_DEADLOCK FALSE
INVARIANTS NotesSurvive ReadersAreCurrent
