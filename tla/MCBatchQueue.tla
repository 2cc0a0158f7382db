---- MODULE MCBatchQueue ----
EXTENDS BatchQueue, TLC
HostSymmetry == Permutations(Host)
====
