------------------------------ MODULE MCVmHeap ------------------------------
EXTENDS VmHeap, TLC

\* Addresses are interchangeable: no handler compares or orders them.
Symmetry == Permutations(HeapAddr)
=============================================================================
