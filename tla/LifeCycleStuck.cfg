CONSTANTS
    MaxCommits = 4
    MaxFailures = 1
    None = None

SPECIFICATION Spec

PROPERTY LabelledTipConverges
