SPECIFICATION Spec
CONSTANTS
    Starts <- MCStarts
    Empties <- MCEmpties
    Ends <- MCEnds
    Texts <- MCTexts
    MaxChars = 3
    MaxEvents = 5
    Extra = {"ca"}
    Regional <- MCRegional
    Declared = {"none", "uk"}
    Verdicts <- MCVerdicts
    ShortChars = 2
    MaxPlanned = 3
    MaxRuns = 2
INVARIANTS
    RoundTrip
    PairsTogether
    TextAccounted
    MarkupKept
    NothingLeftForeign
CHECK_DEADLOCK FALSE
