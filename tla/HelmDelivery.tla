----------------------------- MODULE HelmDelivery ----------------------------
(***************************************************************************)
(* provider.HelmProvider (provider/helm.go) of one application, driven by  *)
(* its RunLifeCycle passes: every tick sets CurrentRevision to the tip     *)
(* and calls Delivery (an up-to-date fetch re-runs Delivery; module        *)
(* LifeCycle details the git side).  Nothing else runs Delivery or         *)
(* Uninstall of the same provider concurrently (the application mutex),    *)
(* so one call is one step.                                                *)
(*                                                                         *)
(* The chart directory at revision k has templates and value files, each   *)
(* named by the revision that last changed it.  The release is what        *)
(* getCurrentRelease finds: the newest record named after the application, *)
(* with the chart it carries (Metadata.Description stamped with the         *)
(* revision, its values) and its status.  Every Helm or cluster call may   *)
(* fail, at most MaxFailures times in a behaviour.                         *)
(***************************************************************************)
EXTENDS Integers, Sequences

CONSTANTS
    MaxRevs,         \* revisions upstream may create
    MaxFailures,     \* failing Helm calls in a behaviour
    None,            \* no release; no Delivery result yet
    AtomicOpts,      \* HelmActionOptions.Atomic values declared
    CheckValuesOpts, \* HelmActionOptions.CheckValuesEqual values declared
    ReinstallOpts,   \* HelmActionOptions.ReInstallRelease values declared
    ValueFilesOpts   \* the declared valuesFiles: "values.yaml" alone, or
                     \* "other" files of the chart

ASSUME MaxRevs \in Nat \ {0} /\ MaxFailures \in Nat
ASSUME ValueFilesOpts \subseteq {"values.yaml", "other"}

VARIABLES
    chart,    \* chart[k]: [content, values] of the chart directory at k
    cur,      \* Application.CurrentRevision, read through h.appRevision
    opts,     \* the application's HelmActionOptions and value files
    release,  \* the release getCurrentRelease returns, or None
    good,     \* the newest deployed or superseded record of the release's
              \* history, which an Atomic rollback returns to, or None
    result,   \* what the last Delivery returned: "ok", "err" or None
    fails,    \* failing calls so far
    cleanupFailed, \* history: Helm's own uninstall or rollback after a
                   \* failed Atomic install or upgrade has failed
    gone      \* Uninstall was called: the application is torn down

vars == <<chart, cur, opts, release, good, result, fails, cleanupFailed, gone>>

Revs == 1..MaxRevs

Tip == Len(chart)

(* "failed" stands for every status but deployed: failed, pending-install, *)
(* pending-rollback, uninstalling.                                          *)
Status == {"deployed", "failed"}

Fail ==
    /\ fails < MaxFailures
    /\ fails' = fails + 1
    /\ UNCHANGED cleanupFailed

(* A failed call and the failure of the cleanup Helm runs after it.        *)
FailTwice ==
    /\ fails + 1 < MaxFailures
    /\ fails' = fails + 2
    /\ cleanupFailed' = TRUE
-----------------------------------------------------------------------------
(* Variant of Rec with the chart description left as the chart has it.   *)
RecUnstamped(r, st) ==
    [desc |-> None, content |-> chart[r].content,
     values |-> chart[r].values, status |-> st]

(* The record install or upgrade writes: loadHelmChartWithValues stamps   *)
(* Chart.Metadata.Description with the revision.                           *)
Rec(r, st) ==
    [desc |-> r, content |-> chart[r].content,
     values |-> chart[r].values, status |-> st]

(* A release of revision r that succeeded: the newest record, and the one *)
(* a later rollback returns to.                                            *)
Deployed(r) ==
    /\ release' = Rec(r, "deployed")
    /\ good' = release'
    /\ result' = "ok"
    /\ UNCHANGED <<fails, cleanupFailed>>

(* Variant of Installed whose install action is not given Atomic.         *)
InstalledNotAtomic(r) ==
    \/ Deployed(r)
    \/ /\ Fail
       /\ result' = "err"
       /\ release' \in {None, Rec(r, "failed")}
       /\ good' = None

(* install(): a failed install without Atomic leaves its failed record,   *)
(* unless the failure came before Helm wrote one.  With Atomic, Helm's    *)
(* failRelease uninstalls it again; when that uninstall fails too, the    *)
(* pending record stamped with the revision stays.                         *)
Installed(r) ==
    \/ Deployed(r)
    \/ /\ result' = "err"
       /\ good' = None
       /\ \/ /\ Fail
             /\ release' \in IF opts.atomic THEN {None}
                             ELSE {None, Rec(r, "failed")}
          \/ /\ opts.atomic
             /\ FailTwice
             /\ release' = Rec(r, "failed")

(* A failed upgrade(): Helm records the new release as failed, unless the *)
(* failure came before it wrote one.  With Atomic it then rolls back to   *)
(* the last successful release, a new deployed record of that chart.      *)
(* With none to return to, or when the rollback fails too, the failed     *)
(* record stays newest, or the rollback's own record, not deployed.       *)
UpgradeFailed(r) ==
    \/ /\ Fail
       /\ UNCHANGED <<release, good>>
    \/ /\ Fail
       /\ ~opts.atomic \/ good = None
       /\ release' = Rec(r, "failed")
       /\ UNCHANGED good
    \/ /\ Fail
       /\ opts.atomic /\ good # None
       /\ release' = good
       /\ UNCHANGED good
    \/ /\ FailTwice
       /\ opts.atomic /\ good # None
       /\ release' \in {Rec(r, "failed"), [good EXCEPT !.status = "failed"]}
       /\ UNCHANGED good

Upgraded(r) ==
    \/ Deployed(r)
    \/ /\ result' = "err"
       /\ UpgradeFailed(r)

(* Uninstall() with KeepHistory false: the records are purged, history    *)
(* included.  An error in deleting or waiting for the resources is        *)
(* returned after the purge, so a failed Uninstall may or may not have    *)
(* removed the release.                                                    *)
Uninstalled ==
    /\ release' = None
    /\ good' = None
    /\ UNCHANGED <<fails, cleanupFailed>>

UninstallFailed ==
    /\ Fail
    /\ \/ UNCHANGED <<release, good>>
       \/ release' = None /\ good' = None

(* The skip marker: the chart description of the current release.         *)
AlreadyDelivered(current, r) == current.desc = r

(* The checkValuesEqual skip: reflect.DeepEqual of the released chart's   *)
(* Chart.Values, its values.yaml, and the map merged from the value files *)
(* now.  They are the same file only when values.yaml alone is declared;  *)
(* another file's map is taken never to equal values.yaml's.               *)
ValuesUnchanged(current, r) ==
    /\ opts.checkValues
    /\ opts.valueFiles = "values.yaml"
    /\ current.values = chart[r].values
-----------------------------------------------------------------------------
(* NewApplication: the clone at revision 1 and NewHelmProvider; no         *)
(* release yet.                                                            *)
Init ==
    /\ chart = <<[content |-> 1, values |-> 1]>>
    /\ cur = 0
    /\ opts \in [atomic : AtomicOpts, checkValues : CheckValuesOpts,
                 reinstall : ReinstallOpts, valueFiles : ValueFilesOpts]
    /\ release = None
    /\ good = None
    /\ result = None
    /\ fails = 0
    /\ cleanupFailed = FALSE
    /\ gone = FALSE

(* Upstream: a commit touching the chart changes its templates, its value *)
(* files or both.                                                          *)
Publish ==
    /\ Tip < MaxRevs
    /\ \E c, v \in BOOLEAN :
          /\ c \/ v
          /\ chart' = Append(chart,
                [content |-> IF c THEN Tip + 1 ELSE chart[Tip].content,
                 values |-> IF v THEN Tip + 1 ELSE chart[Tip].values])
    /\ UNCHANGED <<cur, opts, release, good, result, fails, cleanupFailed, gone>>

Deliver ==
    /\ ~gone
    /\ cur' = Tip
    /\ LET r == Tip
           current == release
       IN \/ /\ Fail
             /\ result' = "err"
             /\ UNCHANGED <<release, good>>
          \/ /\ current = None
             /\ Installed(r)
          \/ /\ current # None
             /\ AlreadyDelivered(current, r) \/ ValuesUnchanged(current, r)
             /\ result' = "ok"
             /\ UNCHANGED <<release, good, fails, cleanupFailed>>
          \/ /\ current # None
             /\ ~AlreadyDelivered(current, r) /\ ~ValuesUnchanged(current, r)
             /\ opts.reinstall
             /\ \/ /\ UninstallFailed
                   /\ result' = "err"
                \/ Installed(r)     \* after an Uninstall that succeeded
          \/ /\ current # None
             /\ ~AlreadyDelivered(current, r) /\ ~ValuesUnchanged(current, r)
             /\ ~opts.reinstall
             /\ Upgraded(r)
    /\ UNCHANGED <<chart, opts, gone>>

(* Uninstall by the teardown, whose error the caller only logs.            *)
Uninstall ==
    /\ ~gone
    /\ gone' = TRUE
    /\ Uninstalled \/ UninstallFailed
    /\ UNCHANGED <<chart, cur, opts, result>>

Terminated ==
    /\ gone
    /\ UNCHANGED vars

Next == Publish \/ Deliver \/ Uninstall \/ Terminated

(* The ticker drives the passes; upstream and the teardown owe nothing.    *)
Spec == Init /\ [][Next]_vars /\ WF_vars(Deliver)
-----------------------------------------------------------------------------
Record == [desc : Revs, content : Revs, values : Revs, status : Status]

TypeOK ==
    /\ chart \in Seq([content : Revs, values : Revs]) /\ Tip \in Revs
    /\ cur \in 0..Tip
    /\ opts \in [atomic : BOOLEAN, checkValues : BOOLEAN, reinstall : BOOLEAN,
                 valueFiles : {"values.yaml", "other"}]
    /\ release \in Record \cup {None}
    /\ good \in {g \in Record : g.status = "deployed"} \cup {None}
    /\ result \in {None, "ok", "err"}
    /\ fails \in 0..MaxFailures
    /\ cleanupFailed \in BOOLEAN
    /\ gone \in BOOLEAN

(* The release is settled: the newest record is deployed and carries the *)
(* tip's chart, or one the checkValuesEqual skip keeps (spec.md S4).       *)
Settled ==
    /\ release # None
    /\ release.status = "deployed"
    /\ \/ release.desc = Tip
       \/ ValuesUnchanged(release, Tip)

(* Atomic recovers a release: once upstream stops, the ticks leave the    *)
(* tip's chart deployed after any failed install, upgrade, reinstall or   *)
(* chart reload ("retried on the next tick", spec.md 7), unless Helm's     *)
(* own uninstall or rollback after a failure failed too; that record is   *)
(* stamped with the revision and the description skip keeps it forever    *)
(* (helm_failed_release).                                                  *)
AtomicRecovers == <>[](gone \/ cleanupFailed \/ Settled)

(* Helm delivery contract (spec.md 8.6, 7): a Delivery that returned nil *)
(* has CurrentRevision's chart running, whichever of install, upgrade,     *)
(* reinstall or skip ran: the newest release is deployed and carries that  *)
(* revision's templates and values.  Neither skip in Delivery looks at    *)
(* more than one field of the release: the description skip ignores its   *)
(* status, the checkValuesEqual skip its templates.                        *)
DeliveredRunsCurrent ==
    ~gone /\ result = "ok" =>
        /\ release # None
        /\ release.status = "deployed"
        /\ release.content = chart[cur].content
        /\ release.values = chart[cur].values

(* The content a release runs: its chart's templates and values, when the *)
(* newest record is deployed.                                              *)
Running ==
    IF release = None \/ release.status = "failed" THEN None
    ELSE [content |-> release.content, values |-> release.values]

(* HelmProvider implements the safety part of AppSync: a release only     *)
(* ever runs a chart the application's path has had, a rollback included; *)
(* a failed upgrade or reinstall is an outage; and the teardown removes   *)
(* it or, when Uninstall fails, leaves it, with nothing delivered after.   *)
(* The liveness part holds only as AtomicRecovers states it.              *)
AS == INSTANCE AppSync WITH
        Revs <- [content : Revs, values : Revs], Empty <- None,
        head <- chart[Tip], published <- {chart[k] : k \in 1..Tip},
        deployed <- Running, retired <- gone

====
