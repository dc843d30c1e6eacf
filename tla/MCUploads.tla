----------------------------- MODULE MCUploads -----------------------------
(* Constants for model checking Uploads.                                   *)
EXTENDS Uploads, TLC, FiniteSetsExt

\* Files of one and of two chunks of size 1.
OneChunk == [u \in Uploads |-> 1]
TwoChunks == [u \in Uploads |-> 2]

SumOfSizes == [S \in SUBSET Uploads |-> MapThenSumSet(LAMBDA u : Size[u], S)]

\* Handlers are interchangeable, and so are uploads of one size.
Symmetric == Permutations(Requests) \cup Permutations(Uploads)
=============================================================================
