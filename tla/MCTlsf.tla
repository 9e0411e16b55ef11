-------------------------------- MODULE MCTlsf --------------------------------
EXTENDS Tlsf

CONSTANTS p1, p2, p3

MCHandles == {p1, p2, p3}
MCSymmetry == Permutations(MCHandles)
================================================================================
