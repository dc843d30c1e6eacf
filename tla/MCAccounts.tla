---------------------------- MODULE MCAccounts -----------------------------
(* Constants for model checking Accounts.                                  *)
EXTENDS Accounts, TLC

\* Handlers, codes and all session keys but the first are interchangeable.
Symmetric == Permutations(Handlers) \cup Permutations(Codes)
               \cup Permutations(Keys \ {FirstKey})
=============================================================================
