CONSTANTS
    Addrs <- TwoAddrs
    Allow <- FirstAddr
    Remote = 2
    MaxTracked = 2
    Requests = {r1, r2, r3}
SYMMETRY RequestSymmetry
SPECIFICATION Spec
INVARIANT MostRecentFirst
