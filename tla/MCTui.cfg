CONSTANTS
    Ports <- TwoPorts
    Shares = {s1, s2}
    EndReasons <- OneReason
SPECIFICATION LiveSpec
INVARIANT TypeOK
INVARIANT OneSharePerPort
INVARIANT NoShareLost
PROPERTY KeepsPromises
INVARIANT CursorOnRow
INVARIANT ExitWaits
INVARIANT KeysWork
PROPERTY SelectionKept
PROPERTY QuitExits
PROPERTY StopShown
