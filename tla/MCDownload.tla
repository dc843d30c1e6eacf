----------------------------- MODULE MCDownload ----------------------------
(* Constants for model checking Download.                                  *)
EXTENDS Download, TLC

\* Downloads are interchangeable.
Symmetric == Permutations(Downloads)
=============================================================================
