----------------------------- MODULE MCZipTools -----------------------------
(* ZipTools for TLC: the files are interchangeable.                        *)
EXTENDS ZipTools, TLC

FileSymmetry == Permutations(File)
=============================================================================
