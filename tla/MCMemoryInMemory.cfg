SPECIFICATION Spec
CONSTANTS
    Projects = {p1}
    Contents = {c1, c2}
    Backend = "in_memory"
    Writers = {w1, w2, w3}
SYMMETRY Symmetry
INVARIANTS
    TypeOK
    SupersedesChain
    DuplicateVersionOnlyByRace
    DeprecatedByChange
