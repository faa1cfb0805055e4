--------------------------- MODULE MCPaymentWebhook ---------------------------
(* Small instances of PaymentWebhook for TLC.                              *)
EXTENDS PaymentWebhook, TLC

CONSTANTS a1, a2, f1

(* Two attempts, each paid.                                                *)
PaidTwice     == a1 :> 1 @@ a2 :> 2
PaidTwiceSays == a1 :> "APPROVED" @@ a2 :> "APPROVED"

(* One attempt about which the provider changes its mind.                  *)
Disputed      == a1 :> 1 @@ f1 :> 1
DisputedSays  == a1 :> "APPROVED" @@ f1 :> "FAILED"
===============================================================================
