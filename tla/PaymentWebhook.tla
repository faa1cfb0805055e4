---------------------------- MODULE PaymentWebhook ----------------------------
(***************************************************************************)
(* What the provider's webhooks do to one online checkout                  *)
(* (apps/api/src/modules/order-checkout): events that arrive any number of *)
(* times and in any order, handlers that claim an event for a lease, move  *)
(* the payment intent, account for it in the checkout and let the kitchen  *)
(* in, the recovery worker that takes over lapsed and failed claims, and   *)
(* the command that turns the checkout into an order ticket.               *)
(*                                                                         *)
(* The attempts that lead to these payments are the subject of             *)
(* PaymentAttempts; here an attempt is made, started, and given up in one  *)
(* step each.  Intents are numbered by attempt.                            *)
(*                                                                         *)
(* A lease is "live" or "lapsed".  The owner hash of a claim is fresh for  *)
(* every claim; a handler works on one claim at a time, so its name will   *)
(* do.  An event with an amount, currency or account other than expected   *)
(* has the effect of REVIEW and is one.                                    *)
(***************************************************************************)
EXTENDS Integers, FiniteSets, PaymentLifecycle

CONSTANTS Intents,     \* attempt numbers
          Events,      \* webhook events of the provider
          About,       \* the intent an event is about
          Kind,        \* what the event says: status after parseWebhook and decide
          Handlers,    \* processBold calls and recovery workers
          Makers,      \* calls of createOrderTicket
          MaxAttempts, \* MAX_PROCESSING_ATTEMPTS
          MaxFaults,   \* bound: processes that die, calls that throw
          KitchenOpen  \* the KITCHEN runtime gate

ASSUME WebhookAssumption ==
  /\ IsFiniteSet(Intents) /\ Intents = 1..Cardinality(Intents)
  /\ About \in [Events -> Intents]
  /\ Kind \in [Events -> {"APPROVED", "FAILED", "REVIEW", "PENDING"}]
  /\ Handlers \cap Makers = {}
  /\ MaxAttempts \in Nat \ {0} /\ MaxFaults \in Nat /\ KitchenOpen \in BOOLEAN

VARIABLES checkout,  \* order_checkouts.status
          ticket,    \* an order ticket is attached
          intent,    \* payment_intents
          event,     \* payment_webhook_events
          proc,      \* handlers and makers
          faults     \* history: processes that died, calls that threw

vars == <<checkout, ticket, intent, event, proc, faults>>

Procs  == Handlers \cup Makers
Nobody == "nobody"
None   == "none"

Active    == {"PROCESSING", "VALIDATED", "TRANSITION_APPLIED", "DOWNSTREAM_APPLIED"}
Accounted == {"PAYMENT_VERIFIED", "KITCHEN_ELIGIBLE", "ORDER_CREATED", Review}

Rank(checkpoint) == IF checkpoint = "PROCESSING" THEN 0
                    ELSE IF checkpoint = "VALIDATED" THEN 1
                    ELSE IF checkpoint = "TRANSITION_APPLIED" THEN 2 ELSE 3

NoIntent == [status |-> "ABSENT", version |-> 0, by |-> {}]
NoEvent  == [status |-> "ABSENT", done |-> FALSE, attempts |-> 0, owner |-> Nobody,
             lease |-> None, result |-> None]
Idle     == [step |-> "idle", event |-> None, seen |-> None, version |-> 0, start |-> None,
             latest |-> None]

Init ==
  /\ checkout = "CONFIRMED" /\ ticket = FALSE
  /\ intent = [i \in Intents |-> NoIntent]
  /\ event = [e \in Events |-> NoEvent]
  /\ proc = [p \in Procs |-> Idle]
  /\ faults = 0

Existing  == {i \in Intents : intent[i].status # "ABSENT"}
Succeeded == {i \in Intents : intent[i].status = "SUCCEEDED"}

Move(i, status) == [intent EXCEPT ![i].status = status, ![i].version = @ + 1]

----------------------------------------------------------------------------
(* Attempts (see PaymentAttempts): a lapsed one does not keep a new one    *)
(* out, and can still be started.                                          *)

NewAttempt(i) ==
  /\ intent[i].status = "ABSENT" /\ Existing = 1..(i - 1)
  /\ checkout \in PayableCheckout
  /\ \A j \in Existing : intent[j].status \notin Exposed
  /\ intent' = Move(i, "LINK_READY") /\ checkout' = "PAYMENT_PENDING"
  /\ UNCHANGED <<ticket, event, proc, faults>>

Start(i) ==
  /\ intent[i].status = "LINK_READY" /\ intent' = Move(i, "PENDING")
  /\ UNCHANGED <<checkout, ticket, event, proc, faults>>

GiveUp(i) ==
  /\ intent[i].status = "PENDING" /\ intent' = Move(i, "UNKNOWN_RESULT")
  /\ UNCHANGED <<checkout, ticket, event, proc, faults>>

----------------------------------------------------------------------------
(* Claims                                                                  *)

Goto(p, step) == proc' = [proc EXCEPT ![p].step = step]
End(p)        == proc' = [proc EXCEPT ![p] = Idle]

(* A call that throws: a claimed event is given back in the catch block.   *)
Fail(p) == IF p \in Handlers THEN Goto(p, "fail") ELSE End(p)

Owned(h) == /\ event[proc[h].event].owner = h /\ event[proc[h].event].lease = "live"
            /\ event[proc[h].event].status \in Active

TakeOver(h, e, lease) ==
  /\ event' = [event EXCEPT ![e] = [event[e] EXCEPT !.attempts = @ + 1, !.owner = h,
                 !.lease = lease, !.status = IF @ \in Active THEN @ ELSE "PROCESSING"]]
  /\ proc' = [proc EXCEPT ![h] = [Idle EXCEPT !.step = "load", !.event = e]]

Exhaust(e) == event' = [event EXCEPT ![e] = [@ EXCEPT !.status = "FAILED", !.done = TRUE,
                          !.owner = Nobody, !.lease = None]]

ClaimableIfLapsed(e) == ~event[e].done /\ (event[e].status = "ABSENT" \/ event[e].lease = "lapsed")

Claimable(e) == ~event[e].done /\ event[e].lease # "live"

AttemptsLeft(e) == event[e].attempts < MaxAttempts

(* A delivery.  The event is about a payment the provider was asked for.   *)
(* One that is settled or being processed is answered without effect.      *)
ClaimWebhookEvidence(h, e) ==
  /\ proc[h] = Idle /\ intent[About[e]].status \notin {"ABSENT", "LINK_READY"} /\ Claimable(e)
  /\ IF AttemptsLeft(e) THEN TakeOver(h, e, "live")
     ELSE Exhaust(e) /\ UNCHANGED proc
  /\ UNCHANGED <<checkout, ticket, intent, faults>>

(* The recovery worker.  The lease counts from the start of the batch and  *)
(* may be over when the event's turn comes.                                *)
ClaimRecoverableWebhook(h, e) ==
  /\ proc[h] = Idle /\ event[e].status # "ABSENT" /\ Claimable(e)
  /\ IF AttemptsLeft(e) THEN \E lease \in {"live", "lapsed"} : TakeOver(h, e, lease)
     ELSE Exhaust(e) /\ UNCHANGED proc
  /\ UNCHANGED <<checkout, ticket, intent, faults>>

(* A stalled process stops renewing; a dead one has stopped.               *)
Lapse(e) ==
  /\ event[e].lease = "live"
  /\ event' = [event EXCEPT ![e].lease = "lapsed"]
  /\ UNCHANGED <<checkout, ticket, intent, proc, faults>>

----------------------------------------------------------------------------
(* processClaimedWebhook                                                   *)

(* Without the claim there is no evidence, and nothing to give back.       *)
FindClaimedWebhookEvidence(h) ==
  LET e == proc[h].event IN
  /\ proc[h].step = "load"
  /\ IF Owned(h)
     THEN proc' = [proc EXCEPT ![h] = [@ EXCEPT !.step = "validate", !.start = event[e].status,
                     !.seen = intent[About[e]].status, !.version = intent[About[e]].version]]
     ELSE End(h)
  /\ UNCHANGED <<checkout, ticket, intent, event, faults>>

(* No status of a checkout that ends it without payment is ever written,   *)
(* so APPROVED always asks for SUCCEEDED.                                  *)
Decide(e, seen) ==
  IF Kind[e] = "APPROVED" THEN "SUCCEEDED"
  ELSE IF Kind[e] = "FAILED" THEN "FAILED"
  ELSE IF Kind[e] = "REVIEW" THEN Review
  ELSE IF seen = "UNKNOWN_RESULT" THEN seen ELSE "PENDING"

(* Checkpoints passed before the claim are not written again.              *)
AdvanceCheckpoint(h, checkpoint, next) ==
  IF Rank(proc[h].start) >= Rank(checkpoint) THEN Goto(h, next) /\ UNCHANGED event
  ELSE IF Owned(h)
       THEN /\ event' = [event EXCEPT ![proc[h].event].status = checkpoint]
            /\ Goto(h, next)
       ELSE Fail(h) /\ UNCHANGED event

Validate(h) ==
  /\ proc[h].step = "validate" /\ AdvanceCheckpoint(h, "VALIDATED", "transition")
  /\ UNCHANGED <<checkout, ticket, intent, faults>>

Result(h, status) ==
  proc' = [proc EXCEPT ![h] = [@ EXCEPT !.step = "applied", !.seen = status, !.version = 0]]

(* An intent that was there already is a duplicate or an earlier attempt   *)
(* of this event; a transition of this event is not applied again.         *)
TransitionPayment(h) ==
  LET e == proc[h].event  i == About[e]  to == Decide(e, proc[h].seen) IN
  /\ proc[h].step = "transition"
  /\ \/ proc[h].seen = to /\ Result(h, to) /\ UNCHANGED intent
     \/ /\ proc[h].seen # to /\ Owned(h) /\ e \in intent[i].by
        /\ Result(h, intent[i].status) /\ UNCHANGED intent
     \/ /\ proc[h].seen # to /\ Owned(h) /\ e \notin intent[i].by
        /\ intent[i].version = proc[h].version /\ MayBecome(intent[i].status, to)
        /\ intent' = [Move(i, to) EXCEPT ![i].by = @ \cup {e}] /\ Result(h, to)
     \/ /\ proc[h].seen # to
        /\ \/ ~Owned(h)
           \/ /\ e \notin intent[i].by
              /\ intent[i].version # proc[h].version \/ ~MayBecome(intent[i].status, to)
        /\ Fail(h) /\ UNCHANGED intent
  /\ UNCHANGED <<checkout, ticket, event, faults>>

OnlyIfFirst(h) == proc[h].seen = "SUCCEEDED" /\ proc[h].start = "PROCESSING"

HasDownstream(h) == proc[h].seen = "SUCCEEDED"

TransitionApplied(h) ==
  /\ proc[h].step = "applied"
  /\ AdvanceCheckpoint(h, "TRANSITION_APPLIED", IF HasDownstream(h) THEN "ownCount" ELSE "downstream")
  /\ UNCHANGED <<checkout, ticket, intent, faults>>

AssertOwned(h, from, next) ==
  /\ proc[h].step = from
  /\ IF Owned(h) THEN Goto(h, next) ELSE Fail(h)
  /\ UNCHANGED <<checkout, ticket, intent, event, faults>>

SuccessfulPaymentCount(h) ==
  /\ proc[h].step = "count"
  /\ Goto(h, IF Cardinality(Succeeded) > 1 THEN "review" ELSE "ownVerify")
  /\ UNCHANGED <<checkout, ticket, intent, event, faults>>

ReviewableBeforeKitchen == {"CONFIRMED", "PAYMENT_PENDING", "PAYMENT_VERIFIED"}

(* markFinancialReview overrides every status.                             *)
Reviewable == ReviewableBeforeKitchen \cup {"KITCHEN_ELIGIBLE", "ORDER_CREATED"}

MarkFinancialReview(h) ==
  /\ proc[h].step = "review" /\ Goto(h, "downstream")
  /\ checkout' = IF checkout \in Reviewable THEN Review ELSE checkout
  /\ UNCHANGED <<ticket, intent, event, faults>>

MarkCheckoutPaymentVerified(h) ==
  /\ proc[h].step = "verify"
  /\ \/ /\ checkout \in {"PAYMENT_VERIFIED", "KITCHEN_ELIGIBLE", "ORDER_CREATED"}
        /\ Goto(h, "ownKitchen") /\ UNCHANGED checkout
     \/ checkout = "PAYMENT_PENDING" /\ checkout' = "PAYMENT_VERIFIED" /\ Goto(h, "ownKitchen")
     \/ checkout \in {"CONFIRMED", Review} /\ Fail(h) /\ UNCHANGED checkout
  /\ UNCHANGED <<ticket, intent, event, faults>>

DownstreamApplied(h) ==
  /\ proc[h].step = "downstream" /\ AdvanceCheckpoint(h, "DOWNSTREAM_APPLIED", "assert")
  /\ UNCHANGED <<checkout, ticket, intent, faults>>

CompleteWebhookClaim(h) ==
  /\ proc[h].step = "complete"
  /\ \/ /\ Owned(h) /\ End(h)
        /\ event' = [event EXCEPT ![proc[h].event] = [@ EXCEPT !.status = "PROCESSED", !.done = TRUE,
                       !.owner = Nobody, !.lease = None, !.result = proc[h].seen]]
     \/ ~Owned(h) /\ Fail(h) /\ UNCHANGED event
  /\ UNCHANGED <<checkout, ticket, intent, faults>>

GivesBackAny(h) == proc[h].event \in Events

GivesBack(h) == Owned(h)

(* The last attempt settles the event; others leave it to be retried.      *)
FailWebhookClaim(h) ==
  LET e == proc[h].event IN
  /\ proc[h].step = "fail" /\ End(h)
  /\ event' = IF GivesBack(h)
              THEN [event EXCEPT ![e] = [@ EXCEPT !.status = "FAILED", !.owner = Nobody, !.lease = None,
                      !.done = event[e].attempts >= MaxAttempts]]
              ELSE event
  /\ UNCHANGED <<checkout, ticket, intent, faults>>

----------------------------------------------------------------------------
(* KitchenEligibilityService, from the webhook or from createOrderTicket,  *)
(* and the ticket.                                                         *)

CreateOrderTicket(m) ==
  /\ proc[m] = Idle /\ KitchenOpen /\ Goto(m, "kitchen")
  /\ UNCHANGED <<checkout, ticket, intent, event, faults>>

(* requiredCheckout() reads the newest attempt.                            *)
ReadLatestIntent(p) ==
  /\ proc[p].step = "kitchen"
  /\ \/ ~KitchenOpen /\ Goto(p, "downstream")
     \/ /\ KitchenOpen
        /\ proc' = [proc EXCEPT ![p].step = "eligible", ![p].latest =
                      IF Existing = {} THEN "ABSENT" ELSE intent[Cardinality(Existing)].status]
  /\ UNCHANGED <<checkout, ticket, intent, event, faults>>

KitchenEligibleUnpaid(latest) == Cardinality(Succeeded) <= 1 /\ latest # "UNKNOWN_RESULT"

KitchenEligible(latest) == Cardinality(Succeeded) = 1 /\ latest = "SUCCEEDED"

EvaluateKitchen(p) ==
  /\ proc[p].step = "eligible"
  /\ IF KitchenEligible(proc[p].latest) THEN Goto(p, "mark") ELSE Fail(p)
  /\ UNCHANGED <<checkout, ticket, intent, event, faults>>

AnyButServed == {"CONFIRMED", "PAYMENT_PENDING", "PAYMENT_VERIFIED", Review}

BeforeKitchen == {"CONFIRMED", "PAYMENT_PENDING", "PAYMENT_VERIFIED"}

MarkKitchenEligible(p) ==
  LET next == IF p \in Handlers THEN "downstream" ELSE "ticket" IN
  /\ proc[p].step = "mark"
  /\ \/ checkout \in {"KITCHEN_ELIGIBLE", "ORDER_CREATED"} /\ Goto(p, next) /\ UNCHANGED checkout
     \/ checkout \in BeforeKitchen /\ checkout' = "KITCHEN_ELIGIBLE" /\ Goto(p, next)
     \/ checkout \notin BeforeKitchen \cup {"KITCHEN_ELIGIBLE", "ORDER_CREATED"}
          /\ Fail(p) /\ UNCHANGED checkout
  /\ UNCHANGED <<ticket, intent, event, faults>>

(* Under the lock of the checkout.  The cash session, the draft or the     *)
(* prices may still stand in the way.                                      *)
CreateFromCanonicalCheckout(m) ==
  /\ proc[m].step = "ticket" /\ End(m)
  /\ \/ ~ticket /\ checkout = "KITCHEN_ELIGIBLE" /\ ticket' = TRUE /\ checkout' = "ORDER_CREATED"
     \/ UNCHANGED <<checkout, ticket>>
  /\ UNCHANGED <<intent, event, faults>>

----------------------------------------------------------------------------

(* A process dies, or a statement of its own throws.                       *)
Fault(p) ==
  /\ proc[p] # Idle /\ faults < MaxFaults /\ faults' = faults + 1
  /\ End(p) \/ (proc[p].step # "fail" /\ p \in Handlers /\ Fail(p))
  /\ UNCHANGED <<checkout, ticket, intent, event>>

Asserts == {<<"ownCount", "count">>, <<"ownVerify", "verify">>, <<"ownKitchen", "kitchen">>,
            <<"assert", "complete">>}

HandlerStep(h) ==
  \/ FindClaimedWebhookEvidence(h) \/ Validate(h) \/ TransitionPayment(h) \/ TransitionApplied(h)
  \/ \E a \in Asserts : AssertOwned(h, a[1], a[2])
  \/ SuccessfulPaymentCount(h) \/ MarkFinancialReview(h) \/ MarkCheckoutPaymentVerified(h)
  \/ ReadLatestIntent(h) \/ EvaluateKitchen(h) \/ MarkKitchenEligible(h)
  \/ DownstreamApplied(h) \/ CompleteWebhookClaim(h) \/ FailWebhookClaim(h)

MakerStep(m) ==
  \/ CreateOrderTicket(m) \/ ReadLatestIntent(m) \/ EvaluateKitchen(m) \/ MarkKitchenEligible(m)
  \/ CreateFromCanonicalCheckout(m)

Recover(e) == \E h \in Handlers : ClaimRecoverableWebhook(h, e)

Next == \/ \E i \in Intents : NewAttempt(i) \/ Start(i) \/ GiveUp(i)
        \/ \E e \in Events, h \in Handlers : ClaimWebhookEvidence(h, e)
        \/ \E e \in Events : Recover(e) \/ Lapse(e)
        \/ \E h \in Handlers : HandlerStep(h)
        \/ \E m \in Makers : MakerStep(m)
        \/ \E p \in Procs : Fault(p)

Spec == Init /\ [][Next]_vars

(* Handlers run on, leases run out, and the recovery worker, which polls   *)
(* for ever, comes round to every event.                                   *)
FairSpec == Spec /\ \A h \in Handlers : WF_vars(HandlerStep(h))
                 /\ \A e \in Events : WF_vars(Lapse(e)) /\ WF_vars(Recover(e))

----------------------------------------------------------------------------

(* Types.                                                                  *)
TypeOK ==
  /\ checkout \in PayableCheckout \cup Accounted /\ ticket \in BOOLEAN
  /\ intent \in [Intents -> [status : IntentStatuses \cup {"ABSENT"}, version : Nat, by : SUBSET Events]]
  /\ event \in [Events -> [status : Active \cup {"ABSENT", "FAILED", "PROCESSED"}, done : BOOLEAN,
                           attempts : 0..MaxAttempts, owner : Handlers \cup {Nobody},
                           lease : {None, "live", "lapsed"}, result : IntentStatuses \cup {None}]]
  /\ proc \in [Procs ->
       [step : {"idle", "load", "validate", "transition", "applied", "ownCount", "count", "review",
                "ownVerify", "verify", "ownKitchen", "kitchen", "eligible", "mark", "downstream",
                "assert", "complete", "fail", "ticket"},
        event : Events \cup {None}, seen : IntentStatuses \cup {None}, version : Nat,
        start : Active \cup {None}, latest : IntentStatuses \cup {None, "ABSENT"}]]
  /\ faults \in 0..MaxFaults

(* The kitchen is never let in, and no ticket is made, for a checkout      *)
(* nobody paid: some event that reports an approved payment has moved its  *)
(* intent.                                                                 *)
KitchenOnlyPaid ==
  ticket \/ checkout \in {"KITCHEN_ELIGIBLE", "ORDER_CREATED"}
    => \E e \in Events : Kind[e] = "APPROVED" /\ e \in intent[About[e]].by

(* A customer who paid twice is always noticed: the checkout is under      *)
(* review, or an event of one of the payments is still to be finished, or  *)
(* was abandoned after MaxAttempts attempts.                               *)
DoublePaymentReviewed ==
  Cardinality(Succeeded) > 1 =>
    \/ checkout = Review
    \/ \E e \in Events : /\ About[e] \in Succeeded /\ e \in intent[About[e]].by
                         /\ ~event[e].done \/ event[e].status = "FAILED"

(* An event that was answered with a successful payment has been accounted *)
(* for in the checkout, whichever attempt and whichever handler did it.    *)
SuccessIsAccounted ==
  \A e \in Events : event[e].result = "SUCCEEDED" => checkout \in Accounted

(* Nothing takes a checkout out of the review: neither a handler or maker  *)
(* that decided before it, nor a new attempt.                              *)
ReviewIsFinal == [][checkout = Review => checkout' = Review]_checkout

(* A settled event is never touched again, in particular not by a handler  *)
(* that lost its claim and only now gets to its catch block.               *)
SettledStays == [][\A e \in Events : event[e].done => event'[e] = event[e]]_event

(* Every event that was received is settled.                               *)
EventSettles == \A e \in Events : event[e].status # "ABSENT" ~> event[e].done
===============================================================================
