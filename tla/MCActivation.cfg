\* Two checkpoints above genesis: a first activation, a replacement, and a
\* block between them that a node may connect by itself.
CONSTANTS
    Interval = 2
    MaxHeight = 4
    None = None
    Unknown = Unknown

SPECIFICATION PartSpec

INVARIANTS
    TypeOK
    CurrentResolves
    
    IntactReplacementPasses
    RestartLoadsCurrent
    ValidatedTakesOver
    VerdictConsistent

PROPERTIES
    TipNeverFallsBack
    SnapshotsHandled
    RejectionEnds
