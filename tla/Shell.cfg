SPECIFICATION FairSpec
CONSTANTS
    None = None
    Role = "ADMIN"
    home = home
    Tag = {home}
    Team = {"blue", "red"}
    PeriodTab = {"day", "week"}
    MaxPeriod <- MCMaxPeriod
    MaxAsks = 3
    MaxOps = 1
    MaxTask = 3
    TagsOf <- MCTagsOf
    PAGE = 1
    MAX_LIMIT = 2
    MaxPages = 3
    Date = {1, 2}
    WeekRange <- MCWeekRange
    MaxFetches = 2
CHECK_DEADLOCK FALSE
INVARIANTS ViewsAskForWhatIsViewed HistoryShowsNewestRows AssigneeIsOfTheTeam
PROPERTIES SummaryShowsLatestAnswer SearchesAreAnswered
