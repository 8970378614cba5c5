---------------------------- MODULE MCConnector ----------------------------
(* Two connectors, two handlers at a time. *)
EXTENDS Connector, TLC

CONSTANTS c1, c2, h1, h2

MCId == {c1, c2}
MCSlot == {h1, h2}

\* Connector ids and handlers are only compared.
Symmetry == Permutations(MCId) \cup Permutations(MCSlot)
=============================================================================
