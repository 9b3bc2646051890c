\* Two jobs: of all the sources or of a single one.
SPECIFICATION FairSpec
CONSTANTS
    None = None
    Jobs = {1, 2}
    Groups = {"all", "single"}
    Sources = {"ubuntu", "debian", "rocky"}
    SourcesOf <- TwoGroups
    Named = {"single"}
    FormatOf <- SomeFormats
    Permits <- OnePermit
    EnabledSets <- AllOrNone
    Stoppable = {"rpm"}
INVARIANTS TypeOK NothingLeftBehind DoneMeansAll
PROPERTIES JobsEnd
