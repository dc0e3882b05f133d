---------------------------- MODULE MCDiscrepancy ----------------------------
EXTENDS Discrepancy, TLC

\* Three agencies file, all under the same id; one files a second, similar report.
CONSTANTS A, B, C, x, y
MCReports == {<<A, x>>, <<B, x>>, <<B, y>>, <<C, x>>}
MCSimilarityKey == [id \in Ids |-> "key"]
Symmetric == Permutations(Submissions) \cup Permutations(Resolutions)
=============================================================================
