SPECIFICATION Spec
CONSTANTS
    Manifests <- MCManifests
    MaxRevs = 2
    MaxFailures = 0
    None = None
    Absent = Absent
    All = All
INVARIANT DeliveryInLine
