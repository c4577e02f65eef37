--------------------------- MODULE MCProjectTree ---------------------------
(***************************************************************************)
(* Two folders and a document, two transactions at a time.                 *)
(***************************************************************************)
EXTENDS ProjectTree, TLC

CONSTANTS f1, f2, d1, t1, t2

Interchangeable == Permutations(Folders) \cup Permutations(Transactions)

=============================================================================
