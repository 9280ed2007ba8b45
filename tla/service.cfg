CONSTANTS
    Workers = {w1, w2}
    Requests <- MCRequests
    Digests <- MCDigests
    Archives = 2
    MaxBuilds = 3
SPECIFICATION Spec
SYMMETRY Symmetry
INVARIANTS
    OneCompiler
    AnswersRight
    PushHappens
PROPERTIES
    NoNeedlessRun
