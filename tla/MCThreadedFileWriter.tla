------------------------ MODULE MCThreadedFileWriter ------------------------
(* Small instances of ThreadedFileWriter for TLC. *)
EXTENDS ThreadedFileWriter, TLC

\* File names are only compared.
FileSymmetry == Permutations(Files)
=============================================================================
