CONSTANTS
    Outpoint = {o1, o2}
    Coin = {c1, c2}
    Null = Null
    Absent = Absent
    None = None
SPECIFICATION PartSpec
INVARIANT SanityCheck
INVARIANT NoLogicError
INVARIANT ScanMatchesLookups
INVARIANT CoverageExact
INVARIANT ProgressExact
INVARIANT EscapeEnds
INVARIANT AttestationTrue
INVARIANT AccumulatorExact
INVARIANT OwnBlocksValid
INVARIANT TemplateOutsideGap
PROPERTY ImplementsViews
PROPERTY TransferCompletes
 
 
CHECK_DEADLOCK FALSE
