-------------------------- MODULE MCPasswordReset --------------------------
(* PasswordReset with interchangeable requests, e-mails and passwords. *)
EXTENDS PasswordReset, TLC

Symmetry == Permutations(Slots) \cup Permutations(Emails) \cup Permutations(Passwords)
=============================================================================
