SPECIFICATION Spec
CONSTANTS
    Callers = {c1, c2}
    Tokens = {t}
    RunScopes = {"handoff-target"}
    Bodies = {b1, b2}
    Contents = {x, y}
    Crashable = {c1, c2}
SYMMETRY Symmetry
INVARIANTS
    LaunchedAsPlanned
    ReplayIsFaithful
    ProvenanceMatches
    ReplayFindsItsFiles
PROPERTIES
    ProvenanceIsStable
    ImplementsOnce
