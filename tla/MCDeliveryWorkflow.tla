------------------------- MODULE MCDeliveryWorkflow -------------------------
(* Small instances of DeliveryWorkflow for TLC.                            *)
EXTENDS DeliveryWorkflow, TLC

(* Without liveness: requests and riders are interchangeable.              *)
Interchangeable == Permutations(Clients) \cup Permutations(Riders)
=============================================================================
