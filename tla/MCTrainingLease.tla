-------------------------- MODULE MCTrainingLease --------------------------
\* Four processes are interchangeable: no definition names one of them, and the run
\* checks what holds of a state or a step, nothing about liveness.
EXTENDS TrainingLease, TLC

Symmetry == Permutations(Procs)
=============================================================================
