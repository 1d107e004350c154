CONSTANTS
    MaxCommits = 4
    MaxFailures = 0
    None = None

SPECIFICATION Spec

INVARIANT TypeOK
PROPERTY AppSyncSpec
