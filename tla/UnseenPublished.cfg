\* Two uploads of one file name: unseen content is published.
SPECIFICATION Spec
CONSTANTS
    None = None
    Handlers = {h1, h2}
    h1 = h1  h2 = h2
    Contents = {"clean", "risky", "infected"}
    Verdict <- ThreeVerdicts
SYMMETRY Alike
CONSTRAINT OneMishap
VIEW Effective
INVARIANT NothingUnseen
