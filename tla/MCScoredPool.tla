----------------------------- MODULE MCScoredPool -----------------------------
(* Three accounts, scores 0..2 (0 is the default a None score sorts as),   *)
(* member counts 1 and 2, a refresh every second block.                    *)
EXTENDS ScoredPool

MCAccounts == {1, 2, 3}
MCScores == {0, 1, 2}
MCCounts == {1, 2}
=============================================================================
