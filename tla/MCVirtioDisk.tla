---------------------------- MODULE MCVirtioDisk ----------------------------
(* Buffers and symmetry for model checking VirtioDisk.                      *)
EXTENDS VirtioDisk, TLC

\* The buffers are named after the blocks they cache, or any of them serves.
OwnBuffer == {<<s, s>> : s \in Sectors}
AnyBuffer == Bufs \X Sectors

Symmetry == Permutations(Procs) \union Permutations(Sectors)
=============================================================================
