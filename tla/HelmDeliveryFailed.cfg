SPECIFICATION Spec
\* Without Atomic a failed release keeps its revision stamp; with Atomic
\* it does when Helm's own uninstall or rollback fails too; and with
\* checkValuesEqual and values.yaml as the value file a templates-only
\* revision has equal values: in each case Delivery skips and returns nil.
CONSTANTS
    MaxRevs = 3
    MaxFailures = 2
    None = None
    AtomicOpts = {FALSE, TRUE}
    CheckValuesOpts = {FALSE, TRUE}
    ReinstallOpts = {FALSE, TRUE}
    ValueFilesOpts = {"values.yaml", "other"}
INVARIANT DeliveredRunsCurrent
