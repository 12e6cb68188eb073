CONSTANTS
    Ports <- TwoPorts
    Shares = {s1, s2}
    EndReasons <- OneReason
SPECIFICATION Spec
INVARIANT NothingSharedAfterQuit
