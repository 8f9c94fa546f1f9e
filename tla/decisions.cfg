SPECIFICATION Spec
CONSTANTS
    Root = root
    Children = {c1, c2, c3}
SYMMETRY Symmetry
INVARIANTS
    LegalSettle
    OpenChildrenKeepTheTaskOpen
    NobodyStandsStill
CHECK_DEADLOCK FALSE
