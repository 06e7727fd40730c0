------------------------------ MODULE MCCallSFU ------------------------------
(* Small calls in one room.                                                 *)
EXTENDS CallSFU, TLC

CONSTANTS c1, u1, u2, u3, pc1, pc2, pc3, MaxBusy

\* At most MaxBusy goroutines are in removePeer, renegotiateAll or negotiate
\* at once; the others wait in front of it.
FewBusy ==
  Cardinality({t \in Threads : thr[t].at \in {"close", "spread", "each", "apply"}}) <= MaxBusy

\* The process is not told to stop.
Running == thr[Loop].at # "shut"

Symmetry == Permutations(Users) \union Permutations(PCs)
=============================================================================
