----------------------------- MODULE MCWeaknet -----------------------------
\* The weaknet processes for TLC: command processes are interchangeable.
EXTENDS Weaknet, TLC

ProcSymmetry == Permutations(Procs)
============================================================================
