CONSTANTS
    None = None
    Torn = Torn
    c1 = c1
    c2 = c2
    u = u
    p1 = p1
    p2 = p2
    defconfig = defconfig
    fragment = fragment
    k1 = k1
    k2 = k2
    Mounts = {w1}
    Tarballs = {c1, c2}
    Urls = {u}
    Patches = {p1, p2}
    Layers = {defconfig, fragment, k1, k2}
    MergeBases = {}
    Modular = {k1}
    Requests <- LocalRequests
    InitSeeds <- NoSeeds
SPECIFICATION Spec
INVARIANT ConfigureProducesConfig
