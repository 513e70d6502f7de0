---------------------------- MODULE MCWriteLock ----------------------------
EXTENDS WriteLock, TLC

CONSTANTS w1, w2, w3

MCWorker2 == {w1, w2}
MCWorker3 == {w1, w2, w3}

\* Row ids are compared, so only the workers are interchangeable.
WorkerSymmetry == Permutations(Worker)

=============================================================================
