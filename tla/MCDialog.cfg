CONSTANTS
    Bits4 = 2
    Bits6 = 4
    Mapped <- MappedPrefix
    Entries <- AllEntries
    Texts <- Typed
    Bodies <- BothTraces
    Choices = 2
    URLs = {1}
    MaxNotices = 3
SPECIFICATION LiveSpec
INVARIANT TypeOK
INVARIANT OwnIsAllTold
INVARIANT ErrorIsCurrent
PROPERTY AllowsExactly
PROPERTY OwnOnceKnown
PROPERTY NoticeStays
PROPERTY NoticeGoes
PROPERTY CopyArrives
