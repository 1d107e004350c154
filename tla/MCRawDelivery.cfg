SPECIFICATION Spec
CONSTANTS
    Manifests <- MCManifests
    MaxRevs = 2
    MaxFailures = 1
    None = None
    Absent = Absent
    All = All
INVARIANT TypeOK
PROPERTY LabelsConverge
