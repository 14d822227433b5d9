----------------------------- MODULE MCCompose -----------------------------
(* Drafts are interchangeable: no property is temporal and no draft is     *)
(* named by a definition.                                                  *)
EXTENDS Compose, TLC
CONSTANTS d1, d2, d3, f1
DraftSymmetry == Permutations(Drafts)
=============================================================================
