\* One handler at a time: a rejected package is uploaded again.
SPECIFICATION Spec
CONSTANTS
    None = None
    Handlers = {h1}
    h1 = h1
    Contents = {"clean", "risky", "infected"}
    Verdict <- ThreeVerdicts
INVARIANTS RejectedStaysOut
