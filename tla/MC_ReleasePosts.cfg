\* Pages of two commits, up to four commits; one release listed of up to three.
CONSTANTS
    Logins <- MCLogins
    BotLogins <- MCBotLogins
    NoAuthor = NoAuthor
    PageSize = 2
    MaxCommits = 4
    Names <- MCNames
    BetaNames <- MCBetaNames
    BetaCased <- MCBetaCased
    NoName = NoName
    Times = {1, 2}
    PerPage = 2
    MaxReleases = 3
SPECIFICATION Spec
INVARIANTS ContributorsAreTheAuthors BetaIsLatestListed
\* Each call returns or throws once.
CHECK_DEADLOCK FALSE
