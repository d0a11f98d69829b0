SPECIFICATION PhasedSpec
CONSTANTS
    None = None
    ana = ana
    ben = ben
    Member = {ana, ben}
    Me = ana
    MaxCalls = 2
    MaxTokens = 2
    MaxChanges = 1
    MaxOps = 2
    MaxIssued = 2
    Editable = {ana, ben}
    Emails = {TRUE}
CHECK_DEADLOCK FALSE
INVARIANTS SessionsEndWithTheirPassword ShellIsLocked EditsReachTheirMember RevealedPasswordStands
PROPERTY FormsComeBack
