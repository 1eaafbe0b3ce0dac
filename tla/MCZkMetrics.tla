----------------------------- MODULE MCZkMetrics ------------------------------
EXTENDS ZkMetrics, TLC

CONSTANTS k1, k2, k3

MCWindowKeys == {k1, k2, k3}
\* Window keys are interchangeable: no guard compares two of them.
MCSymmetry == Permutations(MCWindowKeys)
\* A caller-supplied WindowCloseAtMs may be non-positive (rejected first).
MCCloses == {-1, 1, 2}
=============================================================================
