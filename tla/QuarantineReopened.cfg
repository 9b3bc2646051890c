\* An acceptance publishes again what a quarantine has just withdrawn.
SPECIFICATION Spec
CONSTANTS
    None = None
    Handlers = {h1, h2}
    h1 = h1  h2 = h2
    Contents = {"clean", "risky", "infected"}
    Verdict <- ThreeVerdicts
SYMMETRY Alike
CONSTRAINT OneMishap
VIEW Effective
INVARIANT QuarantineHolds
