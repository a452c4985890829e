----------------------------- MODULE MCRanking ------------------------------
(* Every profile of one to four amounts in 0..3.                           *)
EXTENDS Ranking

MCProfiles == UNION {[1..n -> 0..3] : n \in 1..4}
=============================================================================
