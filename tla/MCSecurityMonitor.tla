--------------------------- MODULE MCSecurityMonitor ---------------------------
EXTENDS SecurityMonitor, TLC

Interchangeable == Permutations(Txs) \cup Permutations(Workers) \cup Permutations(Passes)
=============================================================================
