--------------------------- MODULE PaymentLifecycle ---------------------------
(***************************************************************************)
(* The statuses of a PaymentIntent and the moves payment-lifecycle.ts      *)
(* allows, shared by PaymentAttempts and PaymentWebhook.                   *)
(***************************************************************************)

IntentStatuses == {"CREATED", "LINK_READY", "PENDING", "SUCCEEDED", "FAILED", "EXPIRED",
                   "CANCELLED", "UNKNOWN_RESULT", "FINANCIAL_REVIEW_REQUIRED"}

Review == "FINANCIAL_REVIEW_REQUIRED"

Unstarted == {"CREATED", "LINK_READY"}
Closed    == {"SUCCEEDED", "FAILED", "EXPIRED", "CANCELLED"}

(* assertPaymentTransition(from, to) does not throw.                       *)
MayBecome(from, to) ==
  \/ from = "CREATED" /\ to = "LINK_READY"
  \/ from \in Unstarted /\ to = "PENDING"
  \/ from \in Unstarted \cup {"PENDING"}
       /\ to \in {"FAILED", "EXPIRED", "CANCELLED", "UNKNOWN_RESULT", Review}
  \/ from = "PENDING" /\ to = "SUCCEEDED"
  \/ from \in Closed /\ to = Review
  \/ from = "UNKNOWN_RESULT" /\ to \in {"SUCCEEDED", "FAILED", Review}

(* Statuses in which assertRelinkAllowed refuses a new attempt for ever:   *)
(* the provider may hold a payable link, or the customer may have paid.    *)
Exposed == {"PENDING", "SUCCEEDED", "UNKNOWN_RESULT", Review}

PayableCheckout == {"CONFIRMED", "PAYMENT_PENDING"}
===============================================================================
