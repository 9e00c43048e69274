-------------------------- MODULE MCCompensationDlq --------------------------
(***************************************************************************)
(* Small instances of CompensationDlq for TLC.                             *)
(***************************************************************************)
EXTENDS CompensationDlq, TLC

CONSTANTS s1, s2, w1, w2

\* Workers are interchangeable, and so are concurrent compensators.
Symmetry == Permutations(Workers) \cup Permutations(Compensators)
=============================================================================
