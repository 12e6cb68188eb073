CONSTANTS
    Bits4 = 2
    Bits6 = 4
    Mapped <- MappedPrefix
    Entries <- AllEntries
    Texts <- Typed
    Bodies <- BothTraces
    Choices = 2
    URLs = {1}
    MaxNotices = 2
SPECIFICATION Spec
INVARIANT AllowsInside
