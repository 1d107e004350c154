\* Two Repository CRs of one URL, one Application of it, one failing call
\* and one server restart.
CONSTANTS
    RepoCRs = {"r1", "r2"}
    AppCRs = {"a1"}
    URLs = {"u1"}
    RepoURL <- MCRepoURLShared
    AppURL <- MCAppURL
    RawApps = {"a1"}
    MaxFailures = 1
    MaxRestarts = 1

SPECIFICATION Spec

PROPERTY DeletionCleansUp
