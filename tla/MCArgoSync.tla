----------------------------- MODULE MCArgoSync -----------------------------
(* Instances of ArgoSync. *)
EXTENDS ArgoSync

CONSTANTS s1, s2, u1, u2, k1, k2
=============================================================================
