-------------------------- MODULE MCSecureCommand --------------------------
(* Instances of SecureCommand: every call of a kind is interchangeable.    *)
EXTENDS SecureCommand, TLC

Symmetry == Permutations(Callers) \cup Permutations(Admins) \cup Permutations(Workers)
=============================================================================
