------------------------------- MODULE AppSync -------------------------------
(***************************************************************************)
(* What the reconciliation of one application promises, stated without    *)
(* git or a delivery provider (spec.md 4.3 and 7):                         *)
(*                                                                         *)
(*   - head: the content of the sparse path at the reference's tip, named  *)
(*     by the newest commit that touched it, or Empty when none did;       *)
(*   - published: every head the reference has had;                        *)
(*   - deployed: the content running in the cluster, or None;              *)
(*   - retired: the application has been torn down.                        *)
(*                                                                         *)
(* Only content the reference has had is ever deployed (Deploy), and      *)
(* while the tip has content that is not deployed the engine eventually    *)
(* deploys it: a failed pass "is retried on the next tick" (Sync).  The    *)
(* teardown (Retire) removes the footprint, or leaves it when the          *)
(* uninstall fails, which callers only log; nothing is delivered after.    *)
(***************************************************************************)
CONSTANTS
    Revs,   \* contents of the sparse path
    Empty,  \* no commit touches the sparse path
    None    \* nothing deployed yet

VARIABLES head, published, deployed, retired

vars == <<head, published, deployed, retired>>

Init ==
    /\ head \in Revs
    /\ published = {head}
    /\ deployed = None
    /\ retired = FALSE

(* Upstream moves the reference; its content may change or not.           *)
Publish ==
    /\ head' \in Revs
    /\ published' = published \cup {head'}
    /\ UNCHANGED <<deployed, retired>>

(* A delivery of some content the reference has had.                      *)
Deploy ==
    /\ ~retired
    /\ deployed' \in published
    /\ UNCHANGED <<head, published, retired>>

(* A delivery that brings the cluster to the tip's content.               *)
Sync ==
    /\ ~retired
    /\ head # Empty
    /\ deployed # head
    /\ deployed' = head
    /\ UNCHANGED <<head, published, retired>>

(* A delivery that removes the footprint before it creates the new one    *)
(* (Helm reInstallRelease: uninstall then install) fails in between.      *)
Outage ==
    /\ ~retired
    /\ deployed' = None
    /\ UNCHANGED <<head, published, retired>>

(* The teardown.                                                           *)
Retire ==
    /\ ~retired
    /\ retired' = TRUE
    /\ deployed' \in {None, deployed}
    /\ UNCHANGED <<head, published>>

Next == Publish \/ Deploy \/ Outage \/ Retire

Spec == Init /\ [][Next]_vars /\ WF_vars(Sync)
====
