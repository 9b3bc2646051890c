\* The upload of a version and an import of it are at work together: the code does not keep InReviewIsKeptIn.
SPECIFICATION Spec
CONSTANTS
    NoPackage = NoPackage
    NoReplica = NoReplica
    Packages <- Names
    Order <- ByName
    Kind <- KindOf
    Deps <- DependsOn
    Listed <- ListedIn
    Newest <- LastIndex
    Tasks = {1, 2}
    Uploads = {1}
    Plans <- Together
    Replicas = {a, b}
    Unsteady = {a}
    Reports <- Answers
    Configs <- Settings
    MaxDepth = 3
    Limit = 1
    MaxAutoImports = 50
INVARIANT InReviewIsKeptIn
CHECK_DEADLOCK FALSE
