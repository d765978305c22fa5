SPECIFICATION Spec
CONSTANTS
    Projects = {p1}
    Contents = {c1, c2}
    Backend = "postgres"
    Writers = {w1, w2, w3}
INVARIANT ChangedIsDeprecated
