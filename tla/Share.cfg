SPECIFICATION LiveSpec
INVARIANT TypeOK
INVARIANT EndReasonTrue
INVARIANT NothingLeftBehind
PROPERTY ImplementsContract
PROPERTY StartReturns
PROPERTY StopEnds
PROPERTY HalfShareEnds
PROPERTY ExpiryEnds
