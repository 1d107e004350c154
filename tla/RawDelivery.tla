----------------------------- MODULE RawDelivery -----------------------------
(***************************************************************************)
(* provider.RawProvider (provider/raw.go) of one application, driven by    *)
(* its RunLifeCycle passes.  Module LifeCycle details the git side; here   *)
(* a pass checks out the tip, sets CurrentRevision to it and calls         *)
(* Delivery, every tick (an up-to-date fetch re-runs Delivery).            *)
(*                                                                         *)
(* Each manifest is one object of its own kind in the namespace.  The      *)
(* content of a manifest file is named by the revision that last wrote it. *)
(* Delivery applies every parsed manifest in its own goroutine, then       *)
(* starts the prune goroutine under TryLock; cleanResources spawns one     *)
(* List-and-Delete goroutine per resource kind and returns, which runs     *)
(* its deferred Unlock.  Every cluster call may fail, at most MaxFailures  *)
(* times in a behaviour.                                                   *)
(***************************************************************************)
EXTENDS Integers, Sequences, FiniteSets

CONSTANTS
    Manifests,    \* manifest files, each one object in the cluster
    MaxRevs,      \* revisions upstream may create
    MaxFailures,  \* failing cluster calls in a behaviour
    None,         \* no dummy.cd/revision label in r.labels yet
    Absent,       \* no such object in the cluster
    All           \* the selector of cleanResources(true): no revision clause

ASSUME MaxRevs \in Nat \ {0} /\ MaxFailures \in Nat

VARIABLES
    tree,       \* tree[k]: manifest -> content at revision k (the worktree)
    cur,        \* Application.CurrentRevision, read through r.appRevision
    pc,         \* "idle" between passes, "apply" inside Delivery
    labelRev,   \* r.labels["dummy.cd/revision"]
    resources,  \* r.resources: manifest -> the content parsed
    applying,   \* manifests whose Resource.Delivery goroutine is running
    cluster,    \* object -> [rev, content] or Absent
    locked,     \* r.mutex
    pruneReq,   \* a cleanResources call that has the mutex: "prune" or "all"
    listing,    \* List goroutines of cleanResources: [o, sel]
    deleting,   \* listed objects those goroutines will Delete: [o, sel]
    fails,      \* failing calls so far
    gone        \* Uninstall was called: the application is torn down

vars == <<tree, cur, pc, labelRev, resources, applying, cluster, locked,
          pruneReq, listing, deleting, fails, gone>>

Revs == 1..MaxRevs

Object == [rev : Revs, content : Revs]

Task == [o : Manifests, sel : Revs \cup {All}]

Tip == Len(tree)

(* A failing call: logged, and the goroutine moves on.                     *)
Fail ==
    /\ fails < MaxFailures
    /\ fails' = fails + 1
-----------------------------------------------------------------------------
(* NewApplication: a clone at revision 1 and NewRawProvider, which parses  *)
(* the files found there and fails on a tree without any.                  *)
Init ==
    /\ tree \in {<<[o \in S |-> 1]>> : S \in SUBSET Manifests \ {{}}}
    /\ cur = 0
    /\ pc = "idle"
    /\ labelRev = None
    /\ resources = tree[1]
    /\ applying = {}
    /\ cluster = [o \in Manifests |-> Absent]
    /\ locked = FALSE
    /\ pruneReq = None
    /\ listing = {}
    /\ deleting = {}
    /\ fails = 0
    /\ gone = FALSE

(* Upstream: a commit touching the sparse path adds, removes or rewrites  *)
(* manifests.                                                              *)
Publish ==
    /\ Tip < MaxRevs
    /\ \E S \in SUBSET Manifests, W \in SUBSET Manifests :
          LET last == tree[Tip]
              t == [o \in S |-> IF o \in W \/ o \notin DOMAIN last
                                THEN Tip + 1 ELSE last[o]]
          IN /\ t # last
             /\ tree' = Append(tree, t)
    /\ UNCHANGED <<cur, pc, labelRev, resources, applying, cluster, locked,
                   pruneReq, listing, deleting, fails, gone>>

(* Variant of Tick that spawns the goroutines before the revision label   *)
(* is set.                                                                 *)
TickLabelAfter ==
    /\ pc = "idle"
    /\ ~gone
    /\ cur' = Tip
    /\ resources' = IF labelRev # None THEN tree[Tip] ELSE resources
    /\ labelRev' = labelRev
    /\ applying' = DOMAIN resources'
    /\ pc' = "apply"
    /\ UNCHANGED <<tree, cluster, locked, pruneReq, listing, deleting,
                   fails, gone>>

(* A tick: RunLifeCycle sets CurrentRevision to the tip and calls          *)
(* Delivery, which re-reads the files only when the revision label is     *)
(* already set (so the first call applies what the constructor parsed),   *)
(* sets the label, and starts one goroutine per resource.                  *)
Tick ==
    /\ pc = "idle"
    /\ ~gone
    /\ cur' = Tip
    /\ resources' = IF labelRev # None THEN tree[Tip] ELSE resources
    /\ labelRev' = Tip
    /\ applying' = DOMAIN resources'
    /\ pc' = "apply"
    /\ UNCHANGED <<tree, cluster, locked, pruneReq, listing, deleting,
                   fails, gone>>

(* Resource.Delivery: Get the object; Create it when it is not found,     *)
(* Update it when its revision label differs, else skip.  A failing Get,  *)
(* Create or Update is logged and the goroutine ends.                      *)
RDApply(o) ==
    /\ pc = "apply"
    /\ o \in applying
    /\ applying' = applying \ {o}
    /\ \/ /\ Fail
          /\ UNCHANGED cluster
       \/ /\ IF cluster[o] = Absent THEN TRUE ELSE cluster[o].rev # labelRev
          /\ cluster' = [cluster EXCEPT ![o] =
                           [rev |-> labelRev, content |-> resources[o]]]
          /\ UNCHANGED fails
       \/ /\ cluster[o] # Absent
          /\ cluster[o].rev = labelRev
          /\ UNCHANGED <<cluster, fails>>
    /\ UNCHANGED <<tree, cur, pc, labelRev, resources, locked, pruneReq,
                   listing, deleting, gone>>

(* wg.Wait, then the prune goroutine when TryLock succeeds, else the      *)
(* prune is skipped; Delivery returns nil whatever the goroutines did.     *)
RDFinish ==
    /\ pc = "apply"
    /\ applying = {}
    /\ pc' = "idle"
    /\ IF locked
       THEN UNCHANGED <<locked, pruneReq>>
       ELSE /\ locked' = TRUE
            /\ pruneReq' = "prune"
    /\ UNCHANGED <<tree, cur, labelRev, resources, applying, cluster,
                   listing, deleting, fails, gone>>

(* Uninstall: spin on TryLock, then cleanResources(true).  The caller     *)
(* holds the application mutex, so no pass is running.                     *)
Uninstall ==
    /\ pc = "idle"
    /\ ~gone
    /\ ~locked
    /\ locked' = TRUE
    /\ pruneReq' = "all"
    /\ gone' = TRUE
    /\ UNCHANGED <<tree, cur, pc, labelRev, resources, applying, cluster,
                   listing, deleting, fails>>

(* cleanResources: nothing for a zero revision, else ServerGroups, the    *)
(* selector (app, and revision != *r.appRevision read now unless          *)
(* cleanAll), and one List goroutine per kind; then the deferred Unlock.  *)
PruneStart ==
    /\ pruneReq # None
    /\ pruneReq' = None
    /\ locked' = FALSE
    /\ \/ /\ cur = 0
          /\ UNCHANGED <<listing, fails>>
       \/ /\ cur # 0
          /\ Fail
          /\ UNCHANGED listing
       \/ /\ cur # 0
          /\ listing' = listing \cup
               {[o |-> m, sel |-> IF pruneReq = "all" THEN All ELSE cur]
                  : m \in Manifests}
          /\ UNCHANGED fails
    /\ UNCHANGED <<tree, cur, pc, labelRev, resources, applying, cluster,
                   deleting, gone>>

(* Variant of Selected with selection.Equals in the revision clause.     *)
SelectedEquals(t) ==
    IF cluster[t.o] = Absent THEN FALSE
    ELSE t.sel = All \/ cluster[t.o].rev = t.sel

(* The object of t's kind matches t's label selector.                    *)
Selected(t) ==
    IF cluster[t.o] = Absent THEN FALSE
    ELSE t.sel = All \/ cluster[t.o].rev # t.sel

(* A List goroutine: the objects of its kind matching the selector.        *)
PruneList(t) ==
    /\ t \in listing
    /\ listing' = listing \ {t}
    /\ \/ /\ Fail
          /\ UNCHANGED deleting
       \/ /\ deleting' = IF Selected(t) THEN deleting \cup {t} ELSE deleting
          /\ UNCHANGED fails
    /\ UNCHANGED <<tree, cur, pc, labelRev, resources, applying, cluster,
                   locked, pruneReq, gone>>

(* Delete by name, with no precondition on what the object now is.         *)
PruneDelete(t) ==
    /\ t \in deleting
    /\ deleting' = deleting \ {t}
    /\ \/ /\ Fail
          /\ UNCHANGED cluster
       \/ /\ cluster' = [cluster EXCEPT ![t.o] = Absent]
          /\ UNCHANGED fails
    /\ UNCHANGED <<tree, cur, pc, labelRev, resources, applying, locked,
                   pruneReq, listing, gone>>

(* Torn down and every goroutine ended: the application no longer exists. *)
Terminated ==
    /\ gone
    /\ pruneReq = None /\ listing = {} /\ deleting = {}
    /\ UNCHANGED vars

Next ==
    \/ Terminated
    \/ Publish \/ Tick \/ RDFinish \/ Uninstall \/ PruneStart
    \/ \E o \in Manifests : RDApply(o)
    \/ \E t \in Task : PruneList(t) \/ PruneDelete(t)

(* The ticker drives passes; every goroutine runs to its end.  Upstream   *)
(* and the teardown owe nothing.                                           *)
Spec ==
    /\ Init /\ [][Next]_vars
    /\ WF_vars(Tick) /\ WF_vars(RDFinish) /\ WF_vars(PruneStart)
    /\ \A o \in Manifests : WF_vars(RDApply(o))
    /\ \A t \in Task : WF_vars(PruneList(t)) /\ WF_vars(PruneDelete(t))
-----------------------------------------------------------------------------
TypeOK ==
    /\ tree \in Seq(UNION {[S -> Revs] : S \in SUBSET Manifests})
    /\ Len(tree) \in Revs
    /\ cur \in 0..Tip
    /\ pc \in {"idle", "apply"}
    /\ labelRev \in Revs \cup {None}
    /\ resources \in UNION {[S -> Revs] : S \in SUBSET Manifests}
    /\ applying \subseteq DOMAIN resources
    /\ cluster \in [Manifests -> Object \cup {Absent}]
    /\ locked \in BOOLEAN
    /\ pruneReq \in {None, "prune", "all"} /\ (pruneReq # None => locked)
    /\ listing \subseteq Task /\ deleting \subseteq Task
    /\ fails \in 0..MaxFailures
    /\ gone \in BOOLEAN

(* Spec.md 8.5 at revision r: every object of the application is labelled *)
(* r, and every manifest of r is in the cluster.                           *)
LabelsAt(r) ==
    \A o \in Manifests :
        /\ cluster[o] # Absent => cluster[o].rev = r
        /\ o \in DOMAIN tree[r] => cluster[o] # Absent

(* Label contract (spec.md 8.5): once upstream stops, re-delivery on every *)
(* tick and the prune it starts bring the cluster to the tip's manifests,  *)
(* with no object left with another revision label, through failed         *)
(* applies, failed lists, skipped prunes and prunes racing the next        *)
(* delivery.                                                               *)
LabelsConverge == <>[](gone \/ LabelsAt(Tip))

(* Between passes, with the application live and no prune in flight.     *)
Quiescent ==
    /\ pc = "idle" /\ cur # 0 /\ ~gone
    /\ pruneReq = None /\ listing = {} /\ deleting = {}

(* Delivery brings the cluster in line with the on-disk tree (spec.md     *)
(* 4.4): whenever no pass and no prune is running, every manifest of       *)
(* CurrentRevision is in the cluster, labelled with it and with the        *)
(* content it has there.  Neither the first Delivery, which applies what   *)
(* NewRawProvider parsed under the label of a later revision, nor a prune  *)
(* whose selector was read for an earlier revision may break it.           *)
DeliveryInLine ==
    Quiescent =>
        \A o \in DOMAIN tree[cur] :
            cluster[o] = [rev |-> cur, content |-> tree[cur][o]]
====
