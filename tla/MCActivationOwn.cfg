\* A node that started from the first checkpoint, connected blocks up to the
\* second and wrote its snapshot file.
CONSTANTS
    Interval = 2
    MaxHeight = 4
    None = None
    Unknown = Unknown

SPECIFICATION Spec


INVARIANT OwnSnapshotNotReloaded
