SPECIFICATION Spec
CONSTANTS
    None = None
    sam = sam
    sue = sue
    Member = {sam, sue}
    Means <- MCMeans
    Date = {"may"}
    Day <- MCDay
    Workdays = {1, 2}
    Texts <- MCTexts
    Legend <- MCLegend
    MaxEdits = 5
INVARIANTS OneCreate CallsFit EnterMatchesExpand OverrideIsOfThisTab
PROPERTY QuickTextSurvives
CHECK_DEADLOCK FALSE
