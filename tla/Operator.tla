------------------------------- MODULE Operator -------------------------------
(***************************************************************************)
(* The dummy-cd operator (operator/controllers) against the server it      *)
(* drives over gRPC (server/server.go):                                     *)
(*                                                                         *)
(*   - RepositoryReconciler.Reconcile and ApplicationReconciler.Reconcile: *)
(*     Get the custom resource, add the finalizer, call AddRepository or   *)
(*     AddOrUpdateApplication and requeue after a minute; on deletion call *)
(*     DeleteRepository or DeleteApplication and remove the finalizer; an  *)
(*     error requeues with backoff;                                        *)
(*   - the server's registry as those RPCs see it: the repositories        *)
(*     (name, URL) of Handler.Repos, the applications (name, URL) of their *)
(*     Apps, and what the ticks have delivered to the cluster.             *)
(*                                                                         *)
(* controller-runtime never runs two reconciles of one key at once and    *)
(* Update is checked against the resourceVersion read by Get, so a         *)
(* reconcile is one step: a user edit racing it is ordered before (Update  *)
(* conflicts, the reconcile fails) or after it (a new reconcile follows).  *)
(* An RPC is one step as well; module Registry checks its interleavings.   *)
(* A CR is "none" (not created), "live", "deleting" (deletionTimestamp set *)
(* while it still has the finalizer) or "gone".  Restart is the server pod *)
(* starting again (after one of the panics module Registry finds): Repos   *)
(* is in memory only and is lost, the cluster objects are not.             *)
(*                                                                         *)
(* RepositoryConfig.DeleteApplication defers TryLock where it means        *)
(* Unlock: the repository mutex stays held after the call.  Handle's       *)
(* TryLock then skips the repository on every tick, and an RPC that spins *)
(* on that mutex never returns: the reconcile waiting on it (the context   *)
(* has no deadline) stops its controller's single worker for good, and    *)
(* DeleteRepository does so while holding the handler mutex, so no tick    *)
(* runs at all.  Only a server restart ends the hung calls, with an error. *)
(***************************************************************************)
EXTENDS Integers, FiniteSets

CONSTANTS
    RepoCRs,      \* Repository CR names
    AppCRs,       \* Application CR names
    URLs,         \* repository URLs
    RepoURL,      \* RepoURL[n]: Repository.Spec.URL
    AppURL,       \* AppURL[a]: Application.Spec.URL
    RawApps,      \* applications whose path is no Helm chart (RawProvider)
    MaxFailures,  \* failing API server, clone or cluster calls in a behaviour
    MaxRestarts   \* server restarts in a behaviour

ASSUME RepoURL \in [RepoCRs -> URLs] /\ AppURL \in [AppCRs -> URLs]
ASSUME RawApps \subseteq AppCRs
ASSUME MaxFailures \in Nat /\ MaxRestarts \in Nat

VARIABLES
    repoCR,    \* repoCR[n]: [st, fin] of the Repository object
    appCR,     \* appCR[a]: [st, fin] of the Application object
    repos,     \* Handler.Repos as a set of [name, url]
    apps,      \* the Apps of those repositories as a set of [name, url]
    deployed,  \* applications whose objects are in the cluster
    unticked,  \* registered applications no tick has run (CurrentRevision zero)
    wedged,    \* URLs whose repository mutex a DeleteApplication left held
    hLocked,   \* the handler mutex, held by a DeleteRepository that spins
    hung,      \* the controllers ("repo", "app") whose worker waits forever
    repoQ,     \* Repository keys in the controller's workqueue
    appQ,      \* Application keys in the controller's workqueue
    fails,     \* failing calls so far
    restarts   \* server restarts so far

vars == <<repoCR, appCR, repos, apps, deployed, unticked, wedged, hLocked,
          hung, repoQ, appQ, fails, restarts>>

(* What an RPC that never returns leaves unchanged besides hung.          *)
server == <<repos, apps, deployed, unticked, wedged, hLocked>>

CRState == [st : {"none", "live", "deleting", "gone"}, fin : BOOLEAN]

(* Handler.GetRepositoryConfig: the repository registered for a URL.       *)
RegisteredURLs == {r.url : r \in repos}
-----------------------------------------------------------------------------
Init ==
    /\ repoCR = [n \in RepoCRs |-> [st |-> "none", fin |-> FALSE]]
    /\ appCR = [a \in AppCRs |-> [st |-> "none", fin |-> FALSE]]
    /\ repos = {}
    /\ apps = {}
    /\ deployed = {}
    /\ unticked = {}
    /\ wedged = {}
    /\ hLocked = FALSE
    /\ hung = {}
    /\ repoQ = {}
    /\ appQ = {}
    /\ fails = 0
    /\ restarts = 0

(* kubectl apply of a new CR.                                              *)
Create(cr, k) ==
    /\ cr[k].st = "none"
    /\ cr' = [cr EXCEPT ![k].st = "live"]

(* kubectl delete: with a finalizer the object only gets its               *)
(* deletionTimestamp, without one it is removed at once.                   *)
Delete(cr, k) ==
    /\ cr[k].st = "live"
    /\ cr' = [cr EXCEPT ![k].st = IF cr[k].fin THEN "deleting" ELSE "gone"]

(* The watch event of either queues the key.                              *)
UserRepo(n) ==
    /\ Create(repoCR, n) \/ Delete(repoCR, n)
    /\ repoQ' = repoQ \cup {n}
    /\ UNCHANGED <<appCR, server, hung, appQ, fails, restarts>>

UserApp(a) ==
    /\ Create(appCR, a) \/ Delete(appCR, a)
    /\ appQ' = appQ \cup {a}
    /\ UNCHANGED <<repoCR, server, hung, repoQ, fails, restarts>>
-----------------------------------------------------------------------------
(* Failures of k calls: an error logged and dropped still counts.         *)
Spend(k) ==
    /\ fails + k <= MaxFailures
    /\ fails' = fails + k

Errs(failed) == IF failed THEN 1 ELSE 0

(* Variant of AfterSync that returns ctrl.Result{} on success.             *)
AfterSyncNoRequeue(q, k) == q \ {k}

(* A synced reconcile returns RequeueAfter one minute: the key stays.      *)
AfterSync(q, k) == q

(* Variant of WithoutApp that leaves the slice as it was.                  *)
WithoutAppKept(x) == apps

(* RepositoryConfig.DeleteApplication: the swap-pop out of r.Apps.         *)
WithoutApp(x) == apps \ {x}

(* The finalizer step of the live branch: AddFinalizer and Update, unless  *)
(* the CR has it; a failed Update returns the error before the RPC.       *)
AddFinalizer(cr, k) ==
    cr' = [cr EXCEPT ![k].fin = TRUE]

(* Variant of AddRepositoryRPC with the Name and Url fields swapped.     *)
AddRepositoryRPCSwapped(n) ==
    \/ /\ RepoURL[n] \in RegisteredURLs
       /\ UNCHANGED <<repos, fails>>
    \/ /\ RepoURL[n] \notin RegisteredURLs
       /\ repos' = repos \cup {[name |-> RepoURL[n], url |-> n]}
       /\ UNCHANGED fails

(* Server.AddRepository: nil when Handler.GetRepositoryConfig finds the    *)
(* URL; else NewRepositoryConfig (the clone, which may fail) and           *)
(* Handler.AddRepository.                                                  *)
AddRepositoryRPC(n) ==
    \/ /\ RepoURL[n] \in RegisteredURLs
       /\ UNCHANGED <<repos, fails>>
    \/ /\ RepoURL[n] \notin RegisteredURLs
       /\ \/ /\ Spend(1) /\ UNCHANGED repos
          \/ /\ repos' = repos \cup {[name |-> n, url |-> RepoURL[n]]}
             /\ UNCHANGED fails

(* Uninstall deletes the application's objects, unless it is a          *)
(* RawProvider whose appRevision (the application's CurrentRevision) is  *)
(* still zero: cleanResources then returns nil at once.                   *)
UninstallDeletes(a) == a \notin unticked \cap RawApps

(* Server.DeleteRepository then the finalizer removal.  The handler looks *)
(* the repository up by the request's name and returns                    *)
(* ErrRepositoryConfigNotFound when it is not in Repos.  Else it spins on  *)
(* the repository mutex while holding the handler mutex: forever when the *)
(* repository is wedged.  Otherwise every application is uninstalled (an  *)
(* error is only logged: kept stays deployed; a RawProvider whose          *)
(* appRevision is still zero returns nil at once and deletes nothing), the *)
(* repository leaves Repos with its Apps, and the reconciler updates the   *)
(* CR without the finalizer.                                               *)
DeleteRepositoryRPC(n) ==
    LET hit == {r \in repos : r.name = n}
    IN  \/ /\ hit = {}
           /\ UNCHANGED <<repoCR, server, hung, repoQ, fails>>
        \/ \E r \in hit :
              /\ r.url \in wedged
              /\ hLocked' = TRUE
              /\ hung' = hung \cup {"repo"}
              /\ UNCHANGED <<repoCR, repos, apps, deployed, unticked, wedged,
                             repoQ, fails>>
        \/ \E r \in hit, kept \in SUBSET deployed, updateErr \in BOOLEAN :
              LET own == {x.name : x \in {y \in apps : y.url = r.url}}
                  cleaned == {b \in own : UninstallDeletes(b)}
              IN  /\ r.url \notin wedged
                  /\ kept \subseteq cleaned
                  /\ Spend(Cardinality(kept) + Errs(updateErr))
                  /\ repos' = repos \ {r}
                  /\ apps' = {x \in apps : x.url # r.url}
                  /\ deployed' = (deployed \ cleaned) \cup kept
                  /\ unticked' = unticked \ own
                  /\ repoCR' = IF updateErr THEN repoCR
                               ELSE [repoCR EXCEPT ![n] =
                                        [st |-> "gone", fin |-> FALSE]]
                  /\ repoQ' = IF updateErr THEN repoQ ELSE repoQ \ {n}
                  /\ UNCHANGED <<wedged, hLocked, hung>>

ReconcileRepo(n) ==
    /\ "repo" \notin hung
    /\ n \in repoQ
    /\ \/ /\ repoCR[n].st = "gone"
          /\ repoQ' = repoQ \ {n}
          /\ UNCHANGED <<repoCR, server, hung, fails>>
       \/ /\ repoCR[n].st = "live"
          /\ ~repoCR[n].fin
          /\ Spend(1)
          /\ UNCHANGED <<repoCR, server, hung, repoQ>>
       \/ /\ repoCR[n].st = "live"
          /\ AddFinalizer(repoCR, n)
          /\ AddRepositoryRPC(n)
          /\ repoQ' = AfterSync(repoQ, n)
          /\ UNCHANGED <<apps, deployed, unticked, wedged, hLocked, hung>>
       \/ /\ repoCR[n].st = "deleting"
          /\ DeleteRepositoryRPC(n)
    /\ UNCHANGED <<appCR, appQ, restarts>>

(* Server.AddOrUpdateApplication: ErrRepositoryConfigNotFound without a   *)
(* repository for the URL; NoErrAlreadyUpTodate (mapped to nil) when the  *)
(* application is in its Apps with the same declaration; else              *)
(* NewApplication (the clone, which may fail) and the append under the     *)
(* repository mutex, which never comes when the repository is wedged.     *)
AddOrUpdateApplicationRPC(a) ==
    LET x == [name |-> a, url |-> AppURL[a]]
    IN  \/ /\ AppURL[a] \notin RegisteredURLs
           /\ UNCHANGED <<server, hung, fails>>
        \/ /\ AppURL[a] \in RegisteredURLs
           /\ x \in apps
           /\ UNCHANGED <<server, hung, fails>>
        \/ /\ AppURL[a] \in RegisteredURLs
           /\ x \notin apps
           /\ \/ Spend(1) /\ UNCHANGED <<server, hung>>
              \/ /\ AppURL[a] \notin wedged
                 /\ apps' = apps \cup {x}
                 /\ unticked' = unticked \cup {a}
                 /\ UNCHANGED <<repos, deployed, wedged, hLocked, hung, fails>>
              \/ /\ AppURL[a] \in wedged
                 /\ hung' = hung \cup {"app"}
                 /\ UNCHANGED <<server, fails>>

(* RepositoryConfig.DeleteApplication defers TryLock on the repository    *)
(* mutex it has taken: the mutex stays held.                              *)
KeepLocked(u) == wedged' = wedged \cup {u}

(* Server.DeleteApplication then the finalizer removal.  The server walks *)
(* Repos for the URL and calls DeleteApplication on it, which returns nil *)
(* when the name is not in its Apps; with no repository for the URL err   *)
(* stays nil.  Else it spins on the repository mutex (forever when it is  *)
(* wedged), uninstalls (uninstallErr, only logged: the objects stay; a    *)
(* RawProvider with a zero appRevision deletes nothing), swap-pops the     *)
(* entry and leaves the repository mutex held.  updateErr is the failed    *)
(* Update that keeps the finalizer and requeues.                           *)
DeleteApplicationRPC(a) ==
    LET x == [name |-> a, url |-> AppURL[a]]
        cleans == x \in apps /\ UninstallDeletes(a)
    IN  \/ /\ x \in apps /\ AppURL[a] \in wedged
           /\ hung' = hung \cup {"app"}
           /\ UNCHANGED <<appCR, appQ, server, fails>>
        \/ \E uninstallErr, updateErr \in BOOLEAN :
           /\ x \in apps => AppURL[a] \notin wedged
           /\ uninstallErr => cleans /\ a \in deployed
           /\ apps' = IF x \in apps THEN WithoutApp(x) ELSE apps
           /\ deployed' = IF cleans /\ ~uninstallErr
                          THEN deployed \ {a} ELSE deployed
           /\ unticked' = unticked \ {a}
           /\ IF x \in apps THEN KeepLocked(AppURL[a]) ELSE UNCHANGED wedged
           /\ Spend(Errs(uninstallErr) + Errs(updateErr))
           /\ appCR' = IF updateErr THEN appCR
                       ELSE [appCR EXCEPT ![a] = [st |-> "gone", fin |-> FALSE]]
           /\ appQ' = IF updateErr THEN appQ ELSE appQ \ {a}
           /\ UNCHANGED <<repos, hLocked, hung>>

ReconcileApp(a) ==
    /\ "app" \notin hung
    /\ a \in appQ
    /\ \/ /\ appCR[a].st = "gone"
          /\ appQ' = appQ \ {a}
          /\ UNCHANGED <<appCR, server, hung, fails>>
       \/ /\ appCR[a].st = "live"
          /\ ~appCR[a].fin
          /\ Spend(1)
          /\ UNCHANGED <<appCR, server, hung, appQ>>
       \/ /\ appCR[a].st = "live"
          /\ AddFinalizer(appCR, a)
          /\ AddOrUpdateApplicationRPC(a)
          /\ appQ' = AfterSync(appQ, a)
       \/ /\ appCR[a].st = "deleting"
          /\ DeleteApplicationRPC(a)
    /\ UNCHANGED <<repoCR, repos, repoQ, restarts>>

(* A tick of Handle, when its TryLocks of the handler and the repository  *)
(* mutex succeed, runs RunLifeCycle of every registered application; the  *)
(* first one after registration sets CurrentRevision and delivers it      *)
(* (modules LifeCycle, HelmDelivery and RawDelivery detail how).          *)
Deliver(a) ==
    /\ a \in {x.name : x \in apps}
    /\ ~hLocked
    /\ AppURL[a] \notin wedged
    /\ a \notin deployed \/ a \in unticked
    /\ deployed' = deployed \cup {a}
    /\ unticked' = unticked \ {a}
    /\ UNCHANGED <<repoCR, appCR, repos, apps, wedged, hLocked, hung, repoQ,
                   appQ, fails, restarts>>

(* The server pod starts again with an empty RepositoryHandler and no     *)
(* held mutex; the calls that hung on the old one fail and are requeued.  *)
Restart ==
    /\ restarts < MaxRestarts
    /\ restarts' = restarts + 1
    /\ repos' = {}
    /\ apps' = {}
    /\ unticked' = {}
    /\ wedged' = {}
    /\ hLocked' = FALSE
    /\ hung' = {}
    /\ UNCHANGED <<repoCR, appCR, deployed, repoQ, appQ, fails>>

(* Every CR has been deleted and forgotten, or a controller waits on an   *)
(* RPC that never returns: the operator idles.                             *)
Done ==
    /\ \/ /\ \A n \in RepoCRs : repoCR[n].st = "gone"
          /\ \A a \in AppCRs : appCR[a].st = "gone"
       \/ hung # {}
    /\ UNCHANGED vars

Next ==
    \/ \E n \in RepoCRs : UserRepo(n) \/ ReconcileRepo(n)
    \/ \E a \in AppCRs : UserApp(a) \/ ReconcileApp(a) \/ Deliver(a)
    \/ Restart
    \/ Done

(* The workqueue runs every queued key again (RequeueAfter, or the backoff *)
(* of an error) and the ticker runs every minute; users and restarts owe   *)
(* nothing.                                                                *)
Spec ==
    /\ Init /\ [][Next]_vars
    /\ \A n \in RepoCRs : WF_vars(ReconcileRepo(n))
    /\ \A a \in AppCRs : WF_vars(ReconcileApp(a)) /\ WF_vars(Deliver(a))
-----------------------------------------------------------------------------
TypeOK ==
    /\ repoCR \in [RepoCRs -> CRState] /\ appCR \in [AppCRs -> CRState]
    /\ repos \subseteq [name : RepoCRs, url : URLs]
    /\ apps \subseteq [name : AppCRs, url : URLs]
    /\ deployed \subseteq AppCRs /\ unticked \subseteq AppCRs
    /\ wedged \subseteq URLs /\ hLocked \in BOOLEAN /\ hung \subseteq {"repo", "app"}
    /\ repoQ \subseteq RepoCRs /\ appQ \subseteq AppCRs
    /\ fails \in 0..MaxFailures /\ restarts \in 0..MaxRestarts

(* No registration outlives its CR: once the finalizer of a Repository or *)
(* Application is gone, the server holds nothing under its name, whatever *)
(* order the two controllers, the user and a server restart take.  The    *)
(* deletion branches remove the finalizer only after DeleteRepository or  *)
(* DeleteApplication has cut the entry out of Repos or r.Apps.            *)
NoLeakedRegistration ==
    /\ \A r \in repos : repoCR[r.name].st \in {"live", "deleting"}
    /\ \A x \in apps : appCR[x.name].st \in {"live", "deleting"}

RepoWanted(n) == repoCR[n].st = "live"

AppWanted(a) ==
    /\ appCR[a].st = "live"
    /\ \E n \in RepoCRs : RepoWanted(n) /\ RepoURL[n] = AppURL[a]

(* The operator heals the server unless a repository is wedged: a live  *)
(* Repository is eventually registered again, a live Application of a    *)
(* live Repository eventually registered and delivered, even after a      *)
(* restart has emptied Repos (the one-minute RequeueAfter re-sends        *)
(* AddRepository and AddOrUpdateApplication, and an application sent      *)
(* before its repository is retried on ErrRepositoryConfigNotFound); a    *)
(* deleted Application eventually loses its finalizer.  A mutex that       *)
(* DeleteApplication left held stops the ticks and the controllers, so    *)
(* each promise is kept or a wedge is reached first; the restart clears   *)
(* the wedge, and the requeues must then heal what is left.               *)
Wedged == wedged # {}

OperatorHeals ==
    /\ \A n \in RepoCRs :
          RepoWanted(n) ~> (RepoURL[n] \in RegisteredURLs \/ ~RepoWanted(n) \/ Wedged)
    /\ \A a \in AppCRs :
          AppWanted(a) ~> ((a \in deployed /\ [name |-> a, url |-> AppURL[a]] \in apps)
                           \/ ~AppWanted(a) \/ Wedged)
    /\ \A a \in AppCRs :
          appCR[a].st = "deleting" ~> (appCR[a].st = "gone" \/ Wedged)

(* kubectl delete completes and cleans up: a deleted Repository CR         *)
(* eventually loses its finalizer, and a deleted Application CR eventually *)
(* loses its finalizer with none of its objects left in the cluster.  The   *)
(* reconcilers retry every failed deletion RPC, but DeleteRepository looks  *)
(* the repository up by CR name and DeleteApplication by URL,               *)
(* DeleteRepository and DeleteApplication only log a failed Uninstall, a    *)
(* RawProvider that has not delivered since the restart deletes nothing,    *)
(* and a deletion RPC that meets a mutex DeleteApplication left held never  *)
(* returns.                                                                 *)
DeletionCleansUp ==
    /\ \A n \in RepoCRs : repoCR[n].st = "deleting" ~> repoCR[n].st = "gone"
    /\ \A a \in AppCRs :
          appCR[a].st = "deleting" ~> (appCR[a].st = "gone" /\ a \notin deployed)
====
