------------------------- MODULE MCStatementParsing -------------------------
(* Small instances of StatementParsing for TLC: overlapping readings of a  *)
(* file with three rows.                                                   *)
EXTENDS StatementParsing, TLC

CONSTANTS w1, w2

MCRowNo == 1..3
MCReading == {{1, 2}, {2, 3}}
MCWorkerSymmetry == Permutations({w1, w2})
=============================================================================
