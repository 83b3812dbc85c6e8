SPECIFICATION Spec
CHECK_DEADLOCK FALSE
CONSTANTS
    NULL = NULL
    Worker = Worker
    PR = {r1}
    s1 = s1
    s2 = s2
    SHA = {s1, s2}
    h1 = h1
    h2 = h2
    Handler = {h1}
    MaxEvents = 3
    MaxDisorder = 0
    RedeliverOften = FALSE
SYMMETRY Symmetry
INVARIANTS
    NoopMeansQueued
