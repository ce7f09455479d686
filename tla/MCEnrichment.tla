---------------------------- MODULE MCEnrichment ----------------------------
(* A small instance of Enrichment for TLC: two clients with a statement    *)
(* of two transactions each, whose content hashes are the same, met in the *)
(* opposite order; the transactions of the first client are alike.         *)
EXTENDS Enrichment, TLC
CONSTANTS t1, t2, t3, t4, c1, c2, a, b, s1, s2, j1, j2, u1, u2

MCClientOf == (t1 :> c1) @@ (t2 :> c1) @@ (t3 :> c2) @@ (t4 :> c2)
MCRaw == (t1 :> "p") @@ (t2 :> "q") @@ (t3 :> "p") @@ (t4 :> "q")
MCClean == [t \in Tx |-> "p"]
MCSimilar == {<<t, t>> : t \in Tx} \cup {<<t1, t2>>, <<t2, t1>>}
MCBulk == {<<<<t1, a>>, <<t2, a>>>>, <<<<t2, b>>, <<t1, a>>>>, <<<<t1, None>>>>}
MCLines == (s1 :> <<t1, t2>>) @@ (s2 :> <<t4, t3>>)
MCHash == (t1 :> "h") @@ (t2 :> "g") @@ (t3 :> "h") @@ (t4 :> "g")
MCHint == (t1 :> a) @@ (t2 :> None) @@ (t3 :> b) @@ (t4 :> None)
MCChart == (c1 :> {a}) @@ (c2 :> {b})
MCRuleChoice == {[name |-> "r", ledger |-> b, priority |-> 1, active |-> TRUE]}
MCMatches == [r \in {"r"} |-> {t1}]
MCSymmetry == Permutations(Job) \cup Permutations(Request)
=============================================================================
