\* Two repository callers race AddRepository/DeleteRepository; two
\* application callers: the server ignores the context, so a call still
\* spinning on a mutex keeps running beside the next one after the
\* operator restarts.
CONSTANTS
    RepoClients = {rc1, rc2}
    AppClients = {ac1, ac2}
    RepoNames = {r1}
    URLs = {u1, u2}
    AppNames = {a1}
    Decls = {d1, d2}
    ro1 = ro1
    ro2 = ro2
    ao1 = ao1
    ao2 = ao2
    ao3 = ao3
    RepoObjs <- MCRepoObjs
    AppObjs <- MCAppObjs
    Nil = Nil
    NoDir = NoDir

SPECIFICATION Spec
\* DeleteApplication's deferred TryLock leaves its mutexes held, and every
\* later spin on them never ends: the code itself can stop.
CHECK_DEADLOCK FALSE
SYMMETRY Symmetry
VIEW View

INVARIANT ServerNeverPanics
