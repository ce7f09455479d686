-------------------------- MODULE MCAccountAccess --------------------------
(* Four codes, two an hour; three secrets; two requests at a time.           *)
EXTENDS AccountAccess, TLC

MCCode == 1..4
MCSecret == 1..3
MCSymmetry == Permutations(Request)
=============================================================================
