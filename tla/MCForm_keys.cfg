\* Every key in every state.
SPECIFICATION FormSpec
CONSTANTS
    Texts <- MCTexts
    MaxHistory = 2
    MaxPoints = 2
    None = None
    CoreLists <- MCCores
    Numbers = {0, 12}
    Losses = {123}
    Words <- MCWords
    Wide <- MCWide
    Quoted = Quoted
    NaN = NaN
    Junk = Junk
    Invalid = Invalid
CONSTRAINT OneOfThem
INVARIANTS OverlayOnSetup SelectionExists HistoryShowsEntry TeardownIsVerified
    FormTypeOK EditIsShown DaemonGetsApplied TornIsMixed
PROPERTIES OnlyTheSelected
CHECK_DEADLOCK FALSE
