--------------------------- MODULE MCStreamMailbox ---------------------------
(***************************************************************************)
(* StreamMailbox on small instances.                                       *)
(***************************************************************************)
EXTENDS StreamMailbox, TLC

\* Producers are interchangeable; used by the safety run only.
Symmetric == Permutations(Producers)
=============================================================================
