---------------------------- MODULE MCBusInvoker ----------------------------
EXTENDS BusInvoker, TLC

\* caller threads are interchangeable
ThreadSymmetry == Permutations(Threads)
=============================================================================
