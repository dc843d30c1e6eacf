------------------------------- MODULE MCMail ------------------------------
(* Constants for model checking Mail.                                      *)
EXTENDS Mail, TLC

\* Users, mails and handlers are interchangeable.
Symmetric == Permutations(Users) \cup Permutations(Mails)
               \cup Permutations(Handlers)
=============================================================================
