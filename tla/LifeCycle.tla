------------------------------ MODULE LifeCycle ------------------------------
(***************************************************************************)
(* Application.RunLifeCycle (instance/application.go): one application's  *)
(* reconciliation pass, run by the tick scheduler at most once at a time   *)
(* (module Registry checks that), against an upstream branch that keeps   *)
(* moving.                                                                 *)
(*                                                                         *)
(* Commits are numbered 1..MaxCommits in the order they are created, so a  *)
(* parent is always smaller than its child; 0 is plumbing.ZeroHash.  The  *)
(* clone keeps two references: rt (refs/remotes/origin/<ref>) and lb      *)
(* (refs/heads/<ref>, which the sparse worktree follows).  What matters    *)
(* of a tree is the content of the sparse path, named by the newest        *)
(* commit that touched it: HeadRev.  The delivery provider is one step     *)
(* that succeeds or fails here (modules HelmDelivery and RawDelivery      *)
(* detail it); live is what the last successful Delivery put in the       *)
(* cluster: the revision it was labelled with and the content it carried. *)
(* Every git or cluster call may fail with no effect, at most MaxFailures  *)
(* times in a behaviour.                                                   *)
(***************************************************************************)
EXTENDS Integers, Sequences, FiniteSets

CONSTANTS
    MaxCommits,   \* commits upstream may create, the clone's included
    MaxFailures,  \* transient git or cluster errors in a behaviour
    None          \* nothing delivered yet

ASSUME MaxCommits \in Nat \ {0} /\ MaxFailures \in Nat

VARIABLES
    up,         \* the commit origin/<ref> points to upstream
    parent,     \* parent[k]: the parent of commit k, 0 for a root
    touch,      \* touch[k]: commit k changes a file under SparsePath
    rt,         \* refs/remotes/origin/<ref> in the clone
    lb,         \* refs/heads/<ref> in the clone, and its worktree
    cur,        \* Application.CurrentRevision
    pc,         \* where the RunLifeCycle pass is; "idle" between ticks
    live,       \* [rev, content] of the last successful Delivery, or None
    fails,      \* transient errors so far
    published   \* history: every content the upstream tip has had

vars == <<up, parent, touch, rt, lb, cur, pc, live, fails, published>>

Revs == 0..MaxCommits

PCs == {"idle", "refs", "checkout", "deliver"}

-----------------------------------------------------------------------------
(***************************************************************************)
(* getApplicationHeadRevision: the first entry of the log from commit k    *)
(* with the PathFilter strings.HasPrefix(s, SparsePath): the first commit *)
(* of the walk that touches the path; ZeroHash when the log is empty.      *)
(* Every commit upstream makes here has one parent, so go-git's walk over  *)
(* all parents is the walk down the parent chain.                          *)
(***************************************************************************)

RECURSIVE HeadRevIn(_, _, _)
HeadRevIn(p, t, k) ==
    IF k = 0 THEN 0
    ELSE IF t[k] THEN k ELSE HeadRevIn(p, t, p[k])

HeadRev(k) == HeadRevIn(parent, touch, k)

(* A transient error: the pass returns it and the next tick starts over.  *)
Fail ==
    /\ fails < MaxFailures
    /\ fails' = fails + 1
    /\ pc' = "idle"
-----------------------------------------------------------------------------
(* The clone NewApplication made: both references at the upstream tip.    *)
Init ==
    /\ up = 1
    /\ parent = <<0>>
    /\ touch \in {<<b>> : b \in BOOLEAN}
    /\ rt = 1
    /\ lb = 1
    /\ cur = 0
    /\ pc = "idle"
    /\ live = None
    /\ fails = 0
    /\ published = {HeadRevIn(parent, touch, 1)}

(* Upstream: a new commit on top of the tip, or the tip amended and       *)
(* force-pushed (a new commit with the tip's parent).                     *)
NewCommit(par) ==
    /\ Len(parent) < MaxCommits
    /\ \E t \in BOOLEAN :
          LET k == Len(parent) + 1
              p2 == Append(parent, par)
              t2 == Append(touch, t)
          IN /\ parent' = p2
             /\ touch' = t2
             /\ up' = k
             /\ published' = published \cup {HeadRevIn(p2, t2, k)}
    /\ UNCHANGED <<rt, lb, cur, pc, live, fails>>

Push == NewCommit(up)

ForcePush == NewCommit(parent[up])

(* Step 1, a.repo.Fetch: the remote-tracking reference follows upstream; *)
(* NoErrAlreadyUpToDate with a CurrentRevision re-runs Delivery.          *)
LCFetch ==
    /\ pc = "idle"
    /\ \/ /\ Fail
          /\ UNCHANGED rt
       \/ /\ rt = up
          /\ pc' = IF cur # 0 THEN "deliver" ELSE "refs"
          /\ UNCHANGED <<rt, fails>>
       \/ /\ rt # up
          /\ rt' = up
          /\ pc' = "refs"
          /\ UNCHANGED fails
    /\ UNCHANGED <<up, parent, touch, lb, cur, live, published>>

(* Variant of LCAlign whose ResetSparsely is given the local hash.        *)
LCAlignResetLocal ==
    /\ pc = "refs"
    /\ \/ /\ Fail
          /\ UNCHANGED <<rt, lb>>
       \/ /\ lb # rt
          /\ pc' = "checkout"
          /\ UNCHANGED <<rt, lb, fails>>
       \/ /\ lb = rt
          /\ up = rt
          /\ pc' = IF cur # 0 THEN "idle" ELSE "checkout"
          /\ UNCHANGED <<rt, lb, fails>>
       \/ /\ lb = rt
          /\ up # rt
          /\ rt' = up
          /\ \/ /\ lb' = up
                /\ pc' = "checkout"
                /\ UNCHANGED fails
             \/ /\ Fail
                /\ UNCHANGED lb
    /\ UNCHANGED <<up, parent, touch, cur, live, published>>

(* Steps 2 and 3: read both references; when they differ ResetSparsely   *)
(* to the remote one, otherwise Checkout and Pull (Force).  Pull fetches  *)
(* again: AlreadyUpToDate with a CurrentRevision ends the pass; a pull    *)
(* that fetched and then failed to move the branch leaves rt ahead.       *)
LCAlign ==
    /\ pc = "refs"
    /\ \/ /\ Fail
          /\ UNCHANGED <<rt, lb>>
       \/ /\ lb # rt
          /\ lb' = rt
          /\ pc' = "checkout"
          /\ UNCHANGED <<rt, fails>>
       \/ /\ lb = rt
          /\ up = rt
          /\ pc' = IF cur # 0 THEN "idle" ELSE "checkout"
          /\ UNCHANGED <<rt, lb, fails>>
       \/ /\ lb = rt
          /\ up # rt
          /\ rt' = up
          /\ \/ /\ lb' = up
                /\ pc' = "checkout"
                /\ UNCHANGED fails
             \/ /\ Fail
                /\ UNCHANGED lb
    /\ UNCHANGED <<up, parent, touch, cur, live, published>>

(* Variant of LCCheckout with the log's PathFilter passing every commit.  *)
LCCheckoutUnfiltered ==
    /\ pc = "checkout"
    /\ \/ /\ Fail
          /\ UNCHANGED cur
       \/ /\ lb = cur
          /\ pc' = "idle"
          /\ UNCHANGED <<cur, fails>>
       \/ /\ lb # cur
          /\ cur' = lb
          /\ pc' = "deliver"
          /\ UNCHANGED fails
    /\ UNCHANGED <<up, parent, touch, rt, lb, live, published>>

(* Steps 4 to 7: Worktree and Checkout, the head revision (zero is an     *)
(* error), skip when it is CurrentRevision, else CurrentRevision is set   *)
(* to it before Delivery is called.                                       *)
LCCheckout ==
    /\ pc = "checkout"
    /\ LET h == HeadRev(lb) IN
       \/ /\ Fail
          /\ UNCHANGED cur
       \/ /\ h = 0 \/ h = cur
          /\ pc' = "idle"
          /\ UNCHANGED <<cur, fails>>
       \/ /\ h # 0 /\ h # cur
          /\ cur' = h
          /\ pc' = "deliver"
          /\ UNCHANGED fails
    /\ UNCHANGED <<up, parent, touch, rt, lb, live, published>>

(* deliveryProvider.Delivery(): what is checked out goes to the cluster,  *)
(* labelled with CurrentRevision.                                          *)
LCDeliver ==
    /\ pc = "deliver"
    /\ \/ /\ Fail
          /\ UNCHANGED live
       \/ /\ live' = [rev |-> cur, content |-> HeadRev(lb)]
          /\ pc' = "idle"
          /\ UNCHANGED fails
    /\ UNCHANGED <<up, parent, touch, rt, lb, cur, published>>

Upstream == Push \/ ForcePush

Pass == LCFetch \/ LCAlign \/ LCCheckout \/ LCDeliver

Next == Upstream \/ Pass

(* The ticker fires every runLifeCycleTimeout seconds and a pass runs to  *)
(* its end; upstream owes nothing.                                        *)
Spec == Init /\ [][Next]_vars /\ WF_vars(Pass)
-----------------------------------------------------------------------------
TypeOK ==
    /\ up \in 1..Len(parent)
    /\ parent \in Seq(Revs) /\ Len(parent) <= MaxCommits
    /\ \A k \in DOMAIN parent : parent[k] < k
    /\ touch \in Seq(BOOLEAN) /\ Len(touch) = Len(parent)
    /\ rt \in 1..Len(parent) /\ lb \in 1..Len(parent)
    \* CurrentRevision is ZeroHash or a commit that touched SparsePath
    /\ cur \in {0} \cup {k \in DOMAIN touch : touch[k]}
    /\ pc \in PCs
    /\ live \in [rev : Revs, content : Revs] \cup {None}
    /\ fails \in 0..MaxFailures
    /\ published \subseteq Revs

(* RunLifeCycle implements AppSync: it only deploys content the branch   *)
(* has had, and when errors stop, the tip's content is deployed ("retried *)
(* on the next tick", spec.md 7).                                          *)
AS == INSTANCE AppSync WITH
        Revs <- Revs, Empty <- 0, None <- None,
        head <- HeadRev(up), published <- published, retired <- FALSE,
        deployed <- IF live = None THEN None ELSE live.content

AppSyncSpec == AS!Spec

(* The cluster ends up running the tip's content under the tip's label:   *)
(* once upstream stops, the ticks leave the last successful Delivery      *)
(* carrying HeadRev of the tip and labelled with it as CurrentRevision,   *)
(* whatever git or cluster call failed once on the way ("retried on the   *)
(* next tick", spec.md 7).  The AlreadyUpToDate re-delivery labels        *)
(* whatever the worktree holds with the CurrentRevision of an earlier     *)
(* pass.                                                                   *)
LabelledTipConverges ==
    <>[](HeadRev(up) # 0 => live = [rev |-> HeadRev(up), content |-> HeadRev(up)])
====
