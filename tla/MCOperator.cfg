CONSTANTS
    RepoCRs = {"r1", "r2"}
    AppCRs = {"a1", "a2"}
    URLs = {"u1", "u2"}
    RepoURL <- MCRepoURL
    AppURL <- MCAppURL
    RawApps = {"a1"}
    MaxFailures = 1
    MaxRestarts = 1

SPECIFICATION Spec

INVARIANT TypeOK
INVARIANT NoLeakedRegistration
PROPERTY OperatorHeals
