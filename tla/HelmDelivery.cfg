SPECIFICATION Spec
\* Two failures: an install or upgrade can fail and Helm's own cleanup
\* after it too.
CONSTANTS
    MaxRevs = 3
    MaxFailures = 2
    None = None
    AtomicOpts = {TRUE}
    CheckValuesOpts = {FALSE}
    ReinstallOpts = {FALSE, TRUE}
    ValueFilesOpts = {"values.yaml"}
INVARIANT TypeOK
PROPERTY AtomicRecovers
 
