------------------------------ MODULE DeliveryLog ------------------------------
(***************************************************************************)
(* What the transitions of a delivery promise whoever reads their events   *)
(* in the order of the versions: the list only grows, by one event at a    *)
(* time, and each is a legal move from where the one before it led.        *)
(***************************************************************************)
EXTENDS DeliveryLifecycle

VARIABLE told   \* the statuses that the events lead to

Init == told = <<>>

Extend == \E to \in LegalTargets[Where(told)] :
            Len(told) < MaxVersion /\ told' = Append(told, to)

Spec == Init /\ [][Extend]_told
===============================================================================
