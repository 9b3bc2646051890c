SPECIFICATION Spec
CONSTANTS
    None = None
    team = team
    Jobs = {j1, j2}
    SeverityOf <- MCSeverityOf
    Found <- MCFound
    Starts = {0, 1}
    CvePolicy <- MCCvePolicy
    Exploited = {"severe"}
    Scorable = {"severe"}
    Mixes <- MCMixes
    Maintainers = {"rssi", "chief"}
    Admins = {"chief"}
    Rules <- MCRules
    Choices <- MCChoices
    WarningDays = 1
    MaxTime = 5
    MaxIds = 3
INVARIANTS TypeOK NothingSlipsIn AnnouncedBeforeExpiry
PROPERTY ScoresCatchUp
