CONSTANTS
    Workers = {w1, w2}
    Requests <- TagRequests
    Digests <- MCDigests
    Archives = 1
    MaxBuilds = 2
SPECIFICATION Spec
SYMMETRY Symmetry
INVARIANT CompilersApart
