----------------------------- MODULE MCOrderDesk -----------------------------
(* Small instances of OrderDesk for TLC.                                   *)
EXTENDS OrderDesk, TLC

(* Requests are interchangeable.                                           *)
Interchangeable == Permutations(Clients)
=============================================================================
