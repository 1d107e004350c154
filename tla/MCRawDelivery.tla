---------------------------- MODULE MCRawDelivery ----------------------------
(* Two manifests and two revisions: enough to add, rewrite and remove a    *)
(* manifest while a prune of the first revision is in flight.             *)
EXTENDS RawDelivery

MCManifests == {"cm_a", "cm_b"}
====
