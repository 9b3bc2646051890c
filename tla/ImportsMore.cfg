\* An upload whose dependency is fetched by another task at the same time.
SPECIFICATION Spec
CONSTANTS
    NoPackage = NoPackage
    NoReplica = NoReplica
    Packages <- Names
    Order <- ByName
    Kind <- KindOf
    Deps <- DependsOn
    Listed <- ListedIn
    Newest <- LastIndex
    Tasks = {1, 2}
    Uploads = {1}
    Plans <- OneDependency
    Replicas = {a, b}
    Unsteady = {a}
    Reports <- Answers
    Configs <- Settings
    MaxDepth = 3
    Limit = 1
    MaxAutoImports = 50
INVARIANTS TypeOK KeptWasCleared CheckedIsNew OneMirror
PROPERTY ImportsEnd
CHECK_DEADLOCK FALSE
