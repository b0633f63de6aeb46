--------------------------- MODULE MCReceiptStore ---------------------------
(* Instances of ReceiptStore for TLC. *)
EXTENDS ReceiptStore, TLC

FilesAndAttempts == Permutations(Files) \cup Permutations(Attempts)
AllSymmetry == FilesAndAttempts \cup Permutations(Threads)
=============================================================================
