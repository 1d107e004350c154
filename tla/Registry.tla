------------------------------- MODULE Registry -------------------------------
(***************************************************************************)
(* The control plane of the dummy-cd server and its tick scheduler:        *)
(*                                                                         *)
(*   - RepositoryHandler (instance/handler.go): the Repos slice, its       *)
(*     Mutex, and Handle, the ticker loop that try-locks the handler,      *)
(*     every repository and every application and starts one RunLifeCycle *)
(*     goroutine per application, counted by a sync.WaitGroup;            *)
(*   - the gRPC handlers of server/server.go with the RepositoryConfig     *)
(*     methods they call (instance/repository.go): AddRepository,          *)
(*     DeleteRepository, AddOrUpdateApplication, DeleteApplication.        *)
(*                                                                         *)
(* Go pointers are heap slots: RepoObjs for *RepositoryConfig, AppObjs for *)
(* *Application, Nil for a nil pointer.  A slot no variable refers to is   *)
(* garbage and may be allocated again.  A mutex is a BOOLEAN "held" bit;   *)
(* the spin loops `for !m.TryLock() {}` are a step enabled when the mutex  *)
(* is free.  RunLifeCycle itself is one step here (module LifeCycle        *)
(* refines it); what matters to the registry is that it runs with the      *)
(* application's mutex held and ends with wg.Done() and then Unlock().     *)
(* A Go panic stops the whole process (panicked); Restart is the pod       *)
(* being started again: memory is lost, the storage directories are not.   *)
(***************************************************************************)
EXTENDS Integers, Sequences, FiniteSets, SequencesExt

CONSTANTS
    RepoClients,  \* callers of AddRepository / DeleteRepository
    AppClients,   \* callers of AddOrUpdateApplication / DeleteApplication
    RepoNames,    \* Repository CR names
    URLs,         \* repository URLs
    AppNames,     \* Application CR names
    Decls,        \* the fields cmp.Equal compares (reference, sparse path...)
    RepoObjs,     \* heap slots of *RepositoryConfig
    AppObjs,      \* heap slots of *Application
    Nil,          \* nil pointer, and "no value" in a client's locals
    NoDir         \* Workspace/<name> does not exist

ASSUME Nil \notin RepoObjs \cup AppObjs \cup URLs
ASSUME RepoClients \cap AppClients = {}

VARIABLES
    hLock,      \* RepositoryHandler.Mutex is held
    repos,      \* RepositoryHandler.Repos: sequence of repo slots
    repoName,   \* RepositoryConfig.Name
    repoURL,    \* RepositoryConfig.Settings.URL
    repoLock,   \* RepositoryConfig.Mutex is held
    apps,       \* RepositoryConfig.Apps: sequence of app slots or Nil
    appName,    \* Application.Name
    appURL,     \* Application.URL
    appDecl,    \* the declaration the application was built from
    appLock,    \* Application.mutex is held
    storage,    \* Workspace/<name>: the URL of the clone in it, or NoDir
    sched,      \* the Handle goroutine: pc and index into repos
    wg,         \* the WaitGroup counter of Handle
    task,       \* RunLifeCycle goroutine of a slot: "none", "run", "done"
    cl,         \* the goroutine serving each client's current RPC
    retired,    \* history: app slots uninstalled, replaced or deleted
    panicked    \* "none", or the runtime error that stopped the process

vars == <<hLock, repos, repoName, repoURL, repoLock, apps, appName, appURL,
          appDecl, appLock, storage, sched, wg, task, cl, retired, panicked>>

Clients == RepoClients \cup AppClients

Panics == {"none", "wg", "nil", "index"}

ClientPCs == {"idle", "ar_add", "dr_lock_repo", "dr_wait", "au_cmp", "au_new",
              "au_append", "au_lock_repo", "au_rebuild", "da_lock_repo",
              "da_remove"}

IdleClient == [pc |-> "idle", name |-> Nil, url |-> Nil, decl |-> Nil,
               ro |-> Nil, idx |-> 0, ao |-> Nil, nao |-> Nil,
               pending |-> {}]

IdleSched == [pc |-> "idle", i |-> 0]
-----------------------------------------------------------------------------
(* Reachability of heap slots                                              *)

LiveRepos == ToSet(repos)

ReachableRepos == (LiveRepos \cup {cl[c].ro : c \in Clients}) \ {Nil}

ReachableApps ==
    ( UNION {ToSet(apps[o]) : o \in ReachableRepos}
      \cup {cl[c].ao : c \in Clients} \cup {cl[c].nao : c \in Clients}
      \cup UNION {cl[c].pending : c \in Clients}
      \cup {x \in AppObjs : task[x] # "none"} ) \ {Nil}

LiveApps == UNION {ToSet(apps[o]) : o \in LiveRepos} \ {Nil}

FreeRepoObjs == RepoObjs \ ReachableRepos
FreeAppObjs == AppObjs \ ReachableApps

(* GetRepositoryConfig: the first repository with the URL, or Nil.         *)
GetRepositoryConfig(u) ==
    LET i == SelectInSeq(repos, LAMBDA o : repoURL[o] = u)
    IN IF i = 0 THEN Nil ELSE repos[i]

(* Slice removal of the code: r[i] = r[len-1]; r = r[:len-1].              *)
SwapPop(s, i) == Front(ReplaceAt(s, i, Last(s)))

(* cmp.Equal(r.Apps[appIndex], application, IgnoreUnexported,             *)
(* IgnoreTypes(RepositoryConfig, Hash, HelmProvider)) on the declarations.*)
DeclEqual(x, d) == x # Nil /\ appDecl[x] = d

(* The process has not panicked: every goroutine can still run.          *)
Running == panicked = "none"

Goto(c, pc) == cl' = [cl EXCEPT ![c].pc = pc]
Finish(c) == cl' = [cl EXCEPT ![c] = IdleClient]
-----------------------------------------------------------------------------
Init ==
    /\ hLock = FALSE
    /\ repos = <<>>
    /\ repoName = [o \in RepoObjs |-> Nil]
    /\ repoURL = [o \in RepoObjs |-> Nil]
    /\ repoLock = [o \in RepoObjs |-> FALSE]
    /\ apps = [o \in RepoObjs |-> <<>>]
    /\ appName = [x \in AppObjs |-> Nil]
    /\ appURL = [x \in AppObjs |-> Nil]
    /\ appDecl = [x \in AppObjs |-> Nil]
    /\ appLock = [x \in AppObjs |-> FALSE]
    /\ storage = [n \in AppNames |-> NoDir]
    /\ sched = IdleSched
    /\ wg = 0
    /\ task = [x \in AppObjs |-> "none"]
    /\ cl = [c \in Clients |-> IdleClient]
    /\ retired = {}
    /\ panicked = "none"
-----------------------------------------------------------------------------
(***************************************************************************)
(* Handle: the ticker loop.  A tick that finds the handler mutex held does *)
(* nothing and is not a step.                                              *)
(***************************************************************************)
TickStart ==
    /\ Running
    /\ sched.pc = "idle"
    /\ ~hLock
    /\ hLock' = TRUE
    /\ sched' = [pc |-> "scan", i |-> 1]
    /\ UNCHANGED <<repos, repoName, repoURL, repoLock, apps, appName, appURL,
                   appDecl, appLock, storage, wg, task, cl, retired, panicked>>

(* One iteration of `for _, a := range r.Apps` under a held repo mutex:    *)
(* a free application is locked and gets a goroutine (wg.Add(1)); a busy  *)
(* one gets wg.Done() although nothing was added; a nil entry is a nil    *)
(* dereference.  WaitGroup.Add panics when the counter goes negative.     *)
(* The same iteration if WaitGroup.Add let the counter go below zero.      *)
DispatchApp(st, a) ==
    CASE st.panic # "none" -> st
      [] a = Nil -> [st EXCEPT !.panic = "nil"]
      [] ~st.lock[a] -> [st EXCEPT !.lock[a] = TRUE, !.task[a] = "run",
                                   !.wg = @ + 1]
      [] st.wg = 0 -> [st EXCEPT !.panic = "wg"]
      [] OTHER -> [st EXCEPT !.wg = @ - 1]

(* One iteration of `for _, r := range h.Repos`: try-lock the repository, *)
(* dispatch its applications in order, unlock it.                          *)
ScanRepo ==
    /\ Running
    /\ sched.pc = "scan"
    /\ sched.i <= Len(repos)
    /\ LET o == repos[sched.i]
           st == FoldLeft(DispatchApp,
                          [panic |-> "none", lock |-> appLock, task |-> task,
                           wg |-> wg], apps[o])
       IN IF repoLock[o]
          THEN UNCHANGED <<appLock, task, wg, panicked>>
          ELSE /\ appLock' = st.lock
               /\ task' = st.task
               /\ wg' = st.wg
               /\ panicked' = st.panic
    /\ sched' = [sched EXCEPT !.i = @ + 1]
    /\ UNCHANGED <<hLock, repos, repoName, repoURL, repoLock, apps, appName,
                   appURL, appDecl, storage, cl, retired>>

(* wg.Wait() returns once the counter is zero; the handler is unlocked.   *)
WaitAll ==
    /\ Running
    /\ sched.pc = "scan"
    /\ sched.i > Len(repos)
    /\ wg = 0
    /\ hLock' = FALSE
    /\ sched' = IdleSched
    /\ UNCHANGED <<repos, repoName, repoURL, repoLock, apps, appName, appURL,
                   appDecl, appLock, storage, wg, task, cl, retired, panicked>>

(* The RunLifeCycle goroutine returns; its deferred calls run in reverse  *)
(* order: first wg.Done() ...                                              *)
TaskDone(x) ==
    /\ Running
    /\ task[x] = "run"
    /\ IF wg = 0
       THEN /\ panicked' = "wg"
            /\ UNCHANGED <<wg, task>>
       ELSE /\ wg' = wg - 1
            /\ task' = [task EXCEPT ![x] = "done"]
            /\ UNCHANGED panicked
    /\ UNCHANGED <<hLock, repos, repoName, repoURL, repoLock, apps, appName,
                   appURL, appDecl, appLock, storage, sched, cl, retired>>

(* ... then a.mutex.Unlock().                                              *)
TaskUnlock(x) ==
    /\ Running
    /\ task[x] = "done"
    /\ appLock' = [appLock EXCEPT ![x] = FALSE]
    /\ task' = [task EXCEPT ![x] = "none"]
    /\ UNCHANGED <<hLock, repos, repoName, repoURL, repoLock, apps, appName,
                   appURL, appDecl, storage, sched, wg, cl, retired, panicked>>
(***************************************************************************)
(* AddRepository (server.go): GetRepositoryConfig without a lock, then,    *)
(* under the handler mutex, NewRepositoryConfig (reads the SSH key secret, *)
(* may fail) and RepositoryHandler.AddRepository, which checks the URL     *)
(* again.  Finding the URL in the first check returns at once and is not a *)
(* step.  Taking and releasing the handler mutex is folded into ARAdd: no  *)
(* other goroutine touches Repos without it.                               *)
(***************************************************************************)
ARCheck(c) ==
    /\ Running
    /\ cl[c].pc = "idle"
    /\ \E n \in RepoNames, u \in URLs :
          /\ GetRepositoryConfig(u) = Nil
          /\ cl' = [cl EXCEPT ![c] = [IdleClient EXCEPT !.pc = "ar_add",
                                         !.name = n, !.url = u]]
    /\ UNCHANGED <<hLock, repos, repoName, repoURL, repoLock, apps, appName,
                   appURL, appDecl, appLock, storage, sched, wg, task,
                   retired, panicked>>

(* RepositoryHandler.AddRepository as it would be without its URL check,  *)
(* relying on the unlocked check made by server.go.                        *)
AddRepositoryNoRecheck(c) ==
    \E o \in FreeRepoObjs :
       /\ repos' = Append(repos, o)
       /\ repoName' = [repoName EXCEPT ![o] = cl[c].name]
       /\ repoURL' = [repoURL EXCEPT ![o] = cl[c].url]
       /\ repoLock' = [repoLock EXCEPT ![o] = FALSE]
       /\ apps' = [apps EXCEPT ![o] = <<>>]

(* RepositoryHandler.AddRepository: the URL is checked again under the    *)
(* handler mutex (ErrRepositoryAlreadyExist), then the new repository is   *)
(* appended to Repos.  Its own mutex, taken and released inside, is free. *)
AddRepository(c) ==
    \/ /\ GetRepositoryConfig(cl[c].url) # Nil
       /\ UNCHANGED <<repos, repoName, repoURL, repoLock, apps>>
    \/ /\ GetRepositoryConfig(cl[c].url) = Nil
       /\ \E o \in FreeRepoObjs :
             /\ repos' = Append(repos, o)
             /\ repoName' = [repoName EXCEPT ![o] = cl[c].name]
             /\ repoURL' = [repoURL EXCEPT ![o] = cl[c].url]
             /\ repoLock' = [repoLock EXCEPT ![o] = FALSE]
             /\ apps' = [apps EXCEPT ![o] = <<>>]

ARAdd(c) ==
    /\ Running
    /\ cl[c].pc = "ar_add"
    /\ ~hLock
    /\ \/ \* NewRepositoryConfig fails (secret, key or known_hosts)
          UNCHANGED <<repos, repoName, repoURL, repoLock, apps>>
       \/ AddRepository(c)
    /\ Finish(c)
    /\ UNCHANGED <<hLock, appName, appURL, appDecl, appLock, storage, sched,
                   wg, task, retired, panicked>>

(***************************************************************************)
(* DeleteRepository: handler mutex, the LAST repository with the name,     *)
(* its mutex, one goroutine per application that spins on the application *)
(* mutex (and never unlocks it) and calls Application.Uninstall, wg.Wait, *)
(* swap-and-pop at the index found at the start.  A name that is not      *)
(* found returns an error and is not a step.                               *)
(***************************************************************************)
DRLock(c) ==
    /\ Running
    /\ cl[c].pc = "idle"
    /\ ~hLock
    /\ \E n \in RepoNames :
          LET i == SelectLastInSeq(repos, LAMBDA o : repoName[o] = n)
          IN /\ i # 0
             /\ cl' = [cl EXCEPT ![c] = [IdleClient EXCEPT
                          !.pc = "dr_lock_repo", !.name = n,
                          !.ro = repos[i], !.idx = i]]
    /\ hLock' = TRUE
    /\ UNCHANGED <<repos, repoName, repoURL, repoLock, apps, appName, appURL,
                   appDecl, appLock, storage, sched, wg, task, retired,
                   panicked>>

DRLockRepo(c) ==
    /\ Running
    /\ cl[c].pc = "dr_lock_repo"
    /\ ~repoLock[cl[c].ro]
    /\ repoLock' = [repoLock EXCEPT ![cl[c].ro] = TRUE]
    /\ IF Nil \in ToSet(apps[cl[c].ro])
       THEN /\ panicked' = "nil"
            /\ UNCHANGED cl
       ELSE /\ cl' = [cl EXCEPT ![c].pc = "dr_wait",
                                ![c].pending = ToSet(apps[cl[c].ro])]
            /\ UNCHANGED panicked
    /\ UNCHANGED <<hLock, repos, repoName, repoURL, apps, appName, appURL,
                   appDecl, appLock, storage, sched, wg, task, retired>>

(* Application.Uninstall: the provider's Uninstall, and only when it      *)
(* succeeds os.RemoveAll(storagePath).                                     *)
Uninstall(x) ==
    \/ UNCHANGED storage
    \/ storage' = [storage EXCEPT ![appName[x]] = NoDir]

(* The uninstall goroutine of DeleteRepository if it did not wait for the *)
(* application mutex.                                                      *)
DRUninstallNoWait(c, x) ==
    /\ Running
    /\ cl[c].pc = "dr_wait"
    /\ x \in cl[c].pending
    /\ appLock' = [appLock EXCEPT ![x] = TRUE]
    /\ UNCHANGED storage
    /\ retired' = retired \cup {x}
    /\ cl' = [cl EXCEPT ![c].pending = @ \ {x}]
    /\ UNCHANGED <<hLock, repos, repoName, repoURL, repoLock, apps, appName,
                   appURL, appDecl, sched, wg, task, panicked>>

DRUninstall(c, x) ==
    /\ Running
    /\ cl[c].pc = "dr_wait"
    /\ x \in cl[c].pending
    /\ ~appLock[x]
    /\ appLock' = [appLock EXCEPT ![x] = TRUE]
    /\ Uninstall(x)
    /\ retired' = retired \cup {x}
    /\ cl' = [cl EXCEPT ![c].pending = @ \ {x}]
    /\ UNCHANGED <<hLock, repos, repoName, repoURL, repoLock, apps, appName,
                   appURL, appDecl, sched, wg, task, panicked>>

DRRemove(c) ==
    /\ Running
    /\ cl[c].pc = "dr_wait"
    /\ cl[c].pending = {}
    /\ repos' = SwapPop(repos, cl[c].idx)
    /\ repoLock' = [repoLock EXCEPT ![cl[c].ro] = FALSE]
    /\ hLock' = FALSE
    /\ Finish(c)
    /\ UNCHANGED <<repoName, repoURL, apps, appName, appURL, appDecl, appLock,
                   storage, sched, wg, task, retired, panicked>>
-----------------------------------------------------------------------------
(***************************************************************************)
(* AddOrUpdateApplication: GetRepositoryConfig and the index of the first *)
(* application with the name, both read without a lock.  Not found: build *)
(* the application, then append under the repository mutex.  Found and    *)
(* cmp.Equal: NoErrAlreadyUpTodate, not a step.  Found and different:     *)
(* repository mutex, then the mutex of r.Apps[appIndex], remove its       *)
(* storage and rebuild in place; a failed rebuild stores nil.             *)
(***************************************************************************)
AUStart(c) ==
    /\ Running
    /\ cl[c].pc = "idle"
    /\ \E n \in AppNames, u \in URLs, d \in Decls :
          LET ro == GetRepositoryConfig(u)
              i == SelectInSeq(apps[ro], LAMBDA x : x = Nil \/ appName[x] = n)
              start(pc) == [IdleClient EXCEPT !.pc = pc, !.name = n, !.url = u,
                                              !.decl = d, !.ro = ro, !.idx = i]
          IN /\ ro # Nil
             /\ \/ /\ i # 0 /\ apps[ro][i] = Nil
                   /\ panicked' = "nil"
                   /\ UNCHANGED cl
                \/ /\ i = 0
                   /\ cl' = [cl EXCEPT ![c] = start("au_new")]
                   /\ UNCHANGED panicked
                \/ /\ i # 0 /\ apps[ro][i] # Nil
                   /\ cl' = [cl EXCEPT ![c] = start("au_cmp")]
                   /\ UNCHANGED panicked
    /\ UNCHANGED <<hLock, repos, repoName, repoURL, repoLock, apps, appName,
                   appURL, appDecl, appLock, storage, sched, wg, task, retired>>

(* cmp.Equal(r.Apps[appIndex], application, ...), still without the       *)
(* repository mutex: the index found by the scan is re-read, and r.Apps    *)
(* may have shrunk or changed since.  cmp.Equal of a nil entry is false.   *)
AUCompare(c) ==
    /\ Running
    /\ cl[c].pc = "au_cmp"
    /\ LET ro == cl[c].ro
           i == cl[c].idx
       IN CASE i > Len(apps[ro]) ->
                 /\ panicked' = "index"
                 /\ UNCHANGED cl
            [] DeclEqual(apps[ro][i], cl[c].decl) ->    \* NoErrAlreadyUpTodate
                 /\ Finish(c)
                 /\ UNCHANGED panicked
            [] OTHER ->
                 /\ Goto(c, "au_lock_repo")
                 /\ UNCHANGED panicked
    /\ UNCHANGED <<hLock, repos, repoName, repoURL, repoLock, apps, appName,
                   appURL, appDecl, appLock, storage, sched, wg, task, retired>>

(* NewApplication: PlainClone into Workspace/<name>; when the directory   *)
(* already holds a repository, PlainOpen whatever is there.  Clone,       *)
(* checkout and provider construction may each fail; only a failed clone  *)
(* leaves no directory.                                                    *)
Cloned(n, u) == IF storage[n] = NoDir THEN u ELSE storage[n]

Allocate(x, c) ==
    /\ appName' = [appName EXCEPT ![x] = cl[c].name]
    /\ appURL' = [appURL EXCEPT ![x] = cl[c].url]
    /\ appDecl' = [appDecl EXCEPT ![x] = cl[c].decl]
    /\ appLock' = [appLock EXCEPT ![x] = FALSE]

AUNew(c) ==
    /\ Running
    /\ cl[c].pc = "au_new"
    /\ LET n == cl[c].name
           u == cl[c].url
       IN \/ /\ storage[n] = NoDir    \* clone fails
             /\ Finish(c)
             /\ UNCHANGED <<storage, appName, appURL, appDecl, appLock,
                            retired>>
          \/ /\ storage' = [storage EXCEPT ![n] = Cloned(n, u)]
             /\ Finish(c)             \* checkout or provider fails
             /\ UNCHANGED <<appName, appURL, appDecl, appLock, retired>>
          \/ /\ storage' = [storage EXCEPT ![n] = Cloned(n, u)]
             /\ \E x \in FreeAppObjs :
                   /\ Allocate(x, c)
                   /\ retired' = retired \ {x}
                   /\ cl' = [cl EXCEPT ![c].pc = "au_append", ![c].nao = x]
    /\ UNCHANGED <<hLock, repos, repoName, repoURL, repoLock, apps, sched,
                   wg, task, panicked>>

AUAppend(c) ==
    /\ Running
    /\ cl[c].pc = "au_append"
    /\ ~repoLock[cl[c].ro]
    /\ apps' = [apps EXCEPT ![cl[c].ro] = Append(@, cl[c].nao)]
    /\ Finish(c)
    /\ UNCHANGED <<hLock, repos, repoName, repoURL, repoLock, appName, appURL,
                   appDecl, appLock, storage, sched, wg, task, retired,
                   panicked>>

AULockRepo(c) ==
    /\ Running
    /\ cl[c].pc = "au_lock_repo"
    /\ ~repoLock[cl[c].ro]
    /\ repoLock' = [repoLock EXCEPT ![cl[c].ro] = TRUE]
    /\ Goto(c, "au_rebuild")
    /\ UNCHANGED <<hLock, repos, repoName, repoURL, apps, appName, appURL,
                   appDecl, appLock, storage, sched, wg, task, retired,
                   panicked>>

(* Spin on r.Apps[appIndex].mutex, os.RemoveAll its storage, then         *)
(* r.Apps[appIndex], err = NewApplication(...); the deferred unlocks run  *)
(* on return.                                                              *)
AURebuild(c) ==
    /\ Running
    /\ cl[c].pc = "au_rebuild"
    /\ LET ro == cl[c].ro
           i == cl[c].idx
           x == apps[ro][i]
           n == cl[c].name
           unlock == /\ repoLock' = [repoLock EXCEPT ![ro] = FALSE]
                     /\ Finish(c)
       IN CASE i > Len(apps[ro]) ->
                 /\ panicked' = "index"
                 /\ UNCHANGED <<repoLock, cl, apps, appName, appURL, appDecl,
                                appLock, storage, retired>>
            [] x = Nil ->
                 /\ panicked' = "nil"
                 /\ UNCHANGED <<repoLock, cl, apps, appName, appURL, appDecl,
                                appLock, storage, retired>>
            [] OTHER ->
                 /\ ~appLock[x]
                 /\ unlock
                 /\ UNCHANGED panicked
                 /\ \/ \* os.RemoveAll fails
                       UNCHANGED <<apps, appName, appURL, appDecl, appLock,
                                   storage, retired>>
                    \/ \* NewApplication fails: clone, or checkout/provider
                       /\ \E dir \in {NoDir, cl[c].url} :
                             storage' = [storage EXCEPT ![appName[x]] = NoDir,
                                                        ![n] = dir]
                       /\ apps' = [apps EXCEPT ![ro][i] = Nil]
                       /\ retired' = retired \cup {x}
                       /\ UNCHANGED <<appName, appURL, appDecl, appLock>>
                    \/ /\ storage' = [storage EXCEPT ![appName[x]] = NoDir,
                                                     ![n] = cl[c].url]
                       /\ \E y \in FreeAppObjs :
                             /\ Allocate(y, c)
                             /\ apps' = [apps EXCEPT ![ro][i] = y]
                             /\ retired' = (retired \ {y}) \cup {x}
    /\ UNCHANGED <<hLock, repos, repoName, repoURL, sched, wg, task>>
-----------------------------------------------------------------------------
(***************************************************************************)
(* DeleteApplication: the first repository with the URL; in it the LAST  *)
(* application with the name (the loop reads app.Name of every entry);   *)
(* repository mutex, application mutex, the provider's Uninstall (error   *)
(* ignored), swap-and-pop.  The deferred calls are TryLock, not Unlock:   *)
(* both mutexes stay held.  Nothing found returns nil and is not a step.  *)
(***************************************************************************)
DAStart(c) ==
    /\ Running
    /\ cl[c].pc = "idle"
    /\ \E n \in AppNames, u \in URLs :
          LET ro == GetRepositoryConfig(u)
              i == SelectLastInSeq(apps[ro], LAMBDA x : x # Nil /\ appName[x] = n)
          IN /\ ro # Nil
             /\ IF Nil \in ToSet(apps[ro])
                THEN /\ panicked' = "nil"
                     /\ UNCHANGED cl
                ELSE /\ i # 0
                     /\ cl' = [cl EXCEPT ![c] = [IdleClient EXCEPT
                                  !.pc = "da_lock_repo", !.name = n, !.url = u,
                                  !.ro = ro, !.idx = i, !.ao = apps[ro][i]]]
                     /\ UNCHANGED panicked
    /\ UNCHANGED <<hLock, repos, repoName, repoURL, repoLock, apps, appName,
                   appURL, appDecl, appLock, storage, sched, wg, task, retired>>

DALockRepo(c) ==
    /\ Running
    /\ cl[c].pc = "da_lock_repo"
    /\ ~repoLock[cl[c].ro]
    /\ repoLock' = [repoLock EXCEPT ![cl[c].ro] = TRUE]
    /\ Goto(c, "da_remove")
    /\ UNCHANGED <<hLock, repos, repoName, repoURL, apps, appName, appURL,
                   appDecl, appLock, storage, sched, wg, task, retired,
                   panicked>>

DARemove(c) ==
    /\ Running
    /\ cl[c].pc = "da_remove"
    /\ ~appLock[cl[c].ao]
    /\ appLock' = [appLock EXCEPT ![cl[c].ao] = TRUE]
    /\ retired' = retired \cup {cl[c].ao}
    /\ IF cl[c].idx > Len(apps[cl[c].ro])
       THEN /\ panicked' = "index"
            /\ UNCHANGED <<apps, cl>>
       ELSE /\ apps' = [apps EXCEPT ![cl[c].ro] = SwapPop(@, cl[c].idx)]
            /\ Finish(c)
            /\ UNCHANGED panicked
    /\ UNCHANGED <<hLock, repos, repoName, repoURL, repoLock, appName, appURL,
                   appDecl, storage, sched, wg, task>>
-----------------------------------------------------------------------------
(***************************************************************************)
(* The read RPCs, by any gRPC caller and without a lock: GetApplications  *)
(* builds a pb.Application from every entry of every r.Apps, and          *)
(* GetApplicationRevisions looks up the first entry with the name and URL *)
(* (GetApplication).  Both read a.Name, so a nil entry met on the way     *)
(* panics; a read that meets none changes nothing and is not a step.      *)
(***************************************************************************)
AllApps == FlattenSeq([i \in DOMAIN repos |-> apps[repos[i]]])

GetApplications ==
    /\ Running
    /\ Nil \in ToSet(AllApps)
    /\ panicked' = "nil"
    /\ UNCHANGED <<hLock, repos, repoName, repoURL, repoLock, apps, appName,
                   appURL, appDecl, appLock, storage, sched, wg, task, cl,
                   retired>>

GetApplicationRevisions(n, u) ==
    LET i == SelectInSeq(AllApps, LAMBDA x :
                 x = Nil \/ (appName[x] = n /\ appURL[x] = u))
    IN /\ Running
       /\ i # 0 /\ AllApps[i] = Nil
       /\ panicked' = "nil"
       /\ UNCHANGED <<hLock, repos, repoName, repoURL, repoLock, apps, appName,
                      appURL, appDecl, appLock, storage, sched, wg, task, cl,
                      retired>>
-----------------------------------------------------------------------------
(* The pod is restarted after a panic: everything in memory is gone.      *)
Restart ==
    /\ panicked # "none"
    /\ hLock' = FALSE
    /\ repos' = <<>>
    /\ repoLock' = [o \in RepoObjs |-> FALSE]
    /\ apps' = [o \in RepoObjs |-> <<>>]
    /\ appLock' = [x \in AppObjs |-> FALSE]
    /\ sched' = IdleSched
    /\ wg' = 0
    /\ task' = [x \in AppObjs |-> "none"]
    /\ cl' = [c \in Clients |-> IdleClient]
    /\ panicked' = "none"
    /\ UNCHANGED <<repoName, repoURL, appName, appURL, appDecl, storage,
                   retired>>

Next ==
    \/ TickStart \/ ScanRepo \/ WaitAll
    \/ \E x \in AppObjs : TaskDone(x) \/ TaskUnlock(x)
    \/ \E c \in RepoClients :
          \/ ARCheck(c) \/ ARAdd(c) \/ DRLock(c) \/ DRLockRepo(c)
          \/ DRRemove(c) \/ \E x \in AppObjs : DRUninstall(c, x)
    \/ \E c \in AppClients :
          \/ AUStart(c) \/ AUCompare(c) \/ AUNew(c) \/ AUAppend(c)
          \/ AULockRepo(c) \/ AURebuild(c) \/ DAStart(c) \/ DALockRepo(c) \/ DARemove(c)
    \/ GetApplications
    \/ \E n \in AppNames, u \in URLs : GetApplicationRevisions(n, u)
    \/ Restart

Spec == Init /\ [][Next]_vars
-----------------------------------------------------------------------------
TypeOK ==
    /\ hLock \in BOOLEAN
    /\ repos \in Seq(RepoObjs)
    /\ repoName \in [RepoObjs -> RepoNames \cup {Nil}]
    /\ repoURL \in [RepoObjs -> URLs \cup {Nil}]
    /\ repoLock \in [RepoObjs -> BOOLEAN]
    /\ apps \in [RepoObjs -> Seq(AppObjs \cup {Nil})]
    /\ appName \in [AppObjs -> AppNames \cup {Nil}]
    /\ appURL \in [AppObjs -> URLs \cup {Nil}]
    /\ appDecl \in [AppObjs -> Decls \cup {Nil}]
    /\ appLock \in [AppObjs -> BOOLEAN]
    /\ storage \in [AppNames -> URLs \cup {NoDir}]
    /\ sched.pc \in {"idle", "scan"} /\ sched.i \in Nat
    /\ wg \in Nat
    /\ task \in [AppObjs -> {"none", "run", "done"}]
    /\ \A c \in Clients : cl[c].pc \in ClientPCs
    /\ retired \subseteq AppObjs
    /\ panicked \in Panics
-----------------------------------------------------------------------------
(***************************************************************************)
(* Properties                                                              *)
(***************************************************************************)

(* URL uniqueness: after any interleaving of AddRepository and            *)
(* DeleteRepository calls, no two repositories in Repos have the same     *)
(* URL.  It rests on the second URL check in RepositoryHandler.AddRepository*)
(* made under the handler mutex, since the first check in server.go is    *)
(* made without it.                                                        *)
RepoURLUnique ==
    \A i, j \in DOMAIN repos :
        i # j => repoURL[repos[i]] # repoURL[repos[j]]

(* Single flight against teardown: an application that has been          *)
(* uninstalled by DeleteRepository, replaced by AddOrUpdateApplication or *)
(* removed by DeleteApplication has no RunLifeCycle goroutine in          *)
(* progress, so its worktree and provider are never used after teardown.  *)
(* It rests on every teardown path taking the application mutex that the  *)
(* scheduler try-locks before it starts the goroutine.                    *)
RetiredAppIdle ==
    \A x \in AppObjs : task[x] = "run" => x \notin retired

(* The server never panics: Handle never drives its WaitGroup negative    *)
(* (the busy branch's wg.Done() without wg.Add(1), and a RunLifeCycle     *)
(* goroutine's wg.Done() before its Unlock), and no loop over r.Apps ever *)
(* meets the nil that a failed rebuild in AddOrUpdateApplication stored,  *)
(* nor an appIndex read before a concurrent removal.                       *)
ServerNeverPanics == panicked = "none"

(* Exclusive storage: every live application not yet torn down has, in   *)
(* its directory Workspace/<name>, a clone of its own repository URL.  The *)
(* path is keyed by the application name only, NewGitRepository opens     *)
(* whatever repository is already there, and DeleteApplication leaves the *)
(* directory behind.                                                       *)
StorageExclusive ==
    \A x \in LiveApps \ retired : storage[appName[x]] = appURL[x]
====
