CONSTANTS
    Addrs <- TwoAddrs
    Allow <- FirstAddr
    Remote = 2
    MaxTracked = 1
    Requests = {r1, r2}
SPECIFICATION LiveSpec
INVARIANT LogExact
INVARIANT OnlyAllowedServed
PROPERTY CutOff
