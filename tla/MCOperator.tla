----------------------------- MODULE MCOperator -----------------------------
(* Two Repository CRs and two Application CRs.  MCRepoURL gives each      *)
(* repository its own URL and puts both applications in the first one;   *)
(* MCRepoURLShared declares the same URL in both Repository CRs.          *)
EXTENDS Operator

MCRepoURL == [n \in RepoCRs |-> IF n = "r1" THEN "u1" ELSE "u2"]

MCRepoURLShared == [n \in RepoCRs |-> "u1"]

MCAppURL == [a \in AppCRs |-> "u1"]
====
