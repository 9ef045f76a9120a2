------------------------------ MODULE MCLabels ------------------------------
(***************************************************************************)
(* Labels for TLC: the labels are interchangeable model values.            *)
(***************************************************************************)
EXTENDS Labels, TLC

LabelSymmetry == Permutations(Labels)
=============================================================================
