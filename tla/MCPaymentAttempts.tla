--------------------------- MODULE MCPaymentAttempts ---------------------------
(* Small instances of PaymentAttempts for TLC.                             *)
EXTENDS PaymentAttempts, TLC

(* Keys, callers and starters are interchangeable.                         *)
Symmetry == Permutations(Keys) \cup Permutations(Callers) \cup Permutations(Starters)

===============================================================================
