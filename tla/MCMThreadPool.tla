--------------------------- MODULE MCMThreadPool ---------------------------
(* MThreadPool for TLC.                                                    *)
EXTENDS MThreadPool, TLC

CONSTANTS t1, t2, t3, r1, r2, r3, c1, c2

Symmetric == Permutations({t1, t2, t3} \cap Threads)
=============================================================================
