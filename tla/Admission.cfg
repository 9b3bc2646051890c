\* Two handlers on one file, any operation of the one beside any of the other, killed anywhere.
SPECIFICATION Spec
CONSTANTS
    None = None
    Handlers = {h1, h2}
    h1 = h1  h2 = h2
    Contents = {"clean", "risky", "infected"}
    Verdict <- ThreeVerdicts
SYMMETRY Alike
INVARIANTS TypeOK PublishedWasCleared QuarantinedIsOut ManifestDescribesPool
CONSTRAINT OneMishap
VIEW Effective
