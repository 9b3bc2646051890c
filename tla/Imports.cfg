\* Two tasks in any of two replicas over two generations of the index.
SPECIFICATION Spec
CONSTANTS
    NoPackage = NoPackage
    NoReplica = NoReplica
    Packages <- Names
    Order <- ByName
    Kind <- KindOf
    Deps <- DependsOn
    Listed <- ListedIn
    Newest <- LastIndex
    Tasks = {1, 2}
    Uploads = {1}
    Plans <- Together
    Replicas = {a, b}
    Unsteady = {a}
    Reports <- Answers
    Configs <- Settings
    MaxDepth = 3
    Limit = 1
    MaxAutoImports = 50
INVARIANTS TypeOK KeptWasCleared CheckedIsNew OneMirror
PROPERTY ImportsEnd
CHECK_DEADLOCK FALSE
