----------------------------- MODULE MCRegistry -----------------------------
(* Model-checking instance of Registry: heap slots and clients are model   *)
(* values and interchangeable, so their permutations are a symmetry.      *)
EXTENDS Registry, TLC

CONSTANTS ro1, ro2, ao1, ao2, ao3

MCRepoObjs == {ro1, ro2}
MCAppObjs == {ao1, ao2, ao3}

Symmetry == Permutations(MCRepoObjs) \cup Permutations(MCAppObjs)

(* Fields of unreachable slots are dead: allocation overwrites every one  *)
(* of them, and no action or property reads them.  States that differ    *)
(* only there are the same program state.                                 *)
View ==
    <<hLock, repos, storage, sched, wg, task, cl, panicked,
      [o \in RepoObjs |-> IF o \in ReachableRepos
                          THEN <<repoName[o], repoURL[o], repoLock[o], apps[o]>>
                          ELSE Nil],
      [x \in AppObjs |-> IF x \in ReachableApps
                         THEN <<appName[x], appURL[x], appDecl[x], appLock[x],
                                x \in retired>>
                         ELSE Nil]>>
====
