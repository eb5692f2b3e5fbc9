--------------------------- MODULE MCAsyncChannel ---------------------------
(* Instances of AsyncChannel for TLC.                                      *)
EXTENDS AsyncChannel, TLC

Symmetry == Permutations(Readers) \cup Permutations(Data)

=============================================================================
