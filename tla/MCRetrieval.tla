---------------------------- MODULE MCRetrieval ----------------------------
\* Small instances of Retrieval.
EXTENDS Retrieval, TLC

MCSymmetry == Permutations(Jobs)
MCRunning == Running
MCCleanUpWorks == Running \ {"wait"}

============================================================================
