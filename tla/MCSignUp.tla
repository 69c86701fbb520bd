------------------------------ MODULE MCSignUp ------------------------------
(* SignUp with interchangeable requests, addresses and passwords. *)
EXTENDS SignUp, TLC

Symmetry == Permutations(Slots) \cup Permutations(Emails) \cup Permutations(Passwords)
=============================================================================
