---------------------------- MODULE PaymentAttempts ----------------------------
(***************************************************************************)
(* The payment attempts of one online checkout                             *)
(* (apps/api/src/modules/order-checkout): callers of                       *)
(* createOnlinePaymentLink, each under its idempotency key, and customers  *)
(* who open a public link and make startBoldPayment ask the provider for   *)
(* a payment.  Both are several transactions with other calls in between.  *)
(*                                                                         *)
(* A key names the intent created under it.  Time is a clock: a deadline d *)
(* has passed when d <= now.  A webhook is one step here; its handlers are *)
(* the subject of PaymentWebhook.  Keys and callers may repeat a call as   *)
(* often as they like, and any of them may die between two steps.          *)
(***************************************************************************)
EXTENDS Integers, FiniteSets, PaymentLifecycle

CONSTANTS Keys,       \* idempotency keys, and the intents created under them
          Callers,    \* concurrent calls of createOnlinePaymentLink
          Starters,   \* concurrent calls of startBoldPayment
          Ttl,        \* BOLD_PAYMENT_LINK_TTL_MINUTES
          CheckoutTtl,\* when the checkout itself expires
          MaxNow      \* bound: the clock stops here

ASSUME AttemptsAssumption == /\ Ttl \in Nat \ {0} /\ CheckoutTtl \in Nat /\ MaxNow \in Nat
                             /\ IsFiniteSet(Keys)

VARIABLES now,
          checkout,   \* order_checkouts.status
          intent,     \* payment_intents, by idempotency key
          link,       \* deadline of the link of each intent; 0: no link
          caller,     \* calls of createOnlinePaymentLink
          starter,    \* calls of startBoldPayment
          provider,   \* external: deadline of the provider's payment; 0: none
          requestedAt,\* history: when the intent became PENDING
          asked       \* history: calls made to the provider for each intent

store == <<checkout, intent, link>>
calls == <<caller, starter>>
audit == <<requestedAt, asked>>
vars  == <<now, store, calls, provider, audit>>

NoIntent == [status |-> "ABSENT", attempt |-> 0, expiresAt |-> 0, version |-> 0, bound |-> FALSE]
NoKey    == "none"
IdleCaller  == [step |-> "idle", key |-> NoKey, expiresAt |-> 0]
IdleStarter == [step |-> "idle", key |-> NoKey, version |-> 0]

Init ==
  /\ now = 0 /\ checkout = "CONFIRMED"
  /\ intent = [k \in Keys |-> NoIntent] /\ link = [k \in Keys |-> 0]
  /\ caller = [c \in Callers |-> IdleCaller]
  /\ starter = [s \in Starters |-> IdleStarter]
  /\ provider = [k \in Keys |-> 0]
  /\ requestedAt = [k \in Keys |-> 0] /\ asked = [k \in Keys |-> 0]

Existing == {k \in Keys : intent[k].status # "ABSENT"}
Live(deadline) == deadline > now

NextAttempt == Cardinality(Existing) + 1

Move(k, status) == intent' = [intent EXCEPT ![k].status = status, ![k].version = @ + 1]

----------------------------------------------------------------------------
(* createOnlinePaymentLink                                                 *)

(* The deadline of the link is fixed here, before any transaction.         *)
Call(c) ==
  /\ caller[c] = IdleCaller
  /\ \E k \in Keys : caller' = [caller EXCEPT ![c] = [step |-> "intent", key |-> k, expiresAt |-> now + Ttl]]
  /\ UNCHANGED <<now, store, starter, provider, audit>>

(* Lets PENDING lapse as CREATED and LINK_READY do.                        *)
BlocksWhileLive(j) == \/ intent[j].status \in Unstarted \cup {"PENDING"} /\ Live(intent[j].expiresAt)
                      \/ intent[j].status \in Exposed \ {"PENDING"}

Blocks(j) == \/ intent[j].status \in Unstarted /\ Live(intent[j].expiresAt)
             \/ intent[j].status \in Exposed

RelinkAllowed(k) ==
  \/ intent[k].status # "ABSENT"
  \/ /\ checkout \in PayableCheckout /\ Live(CheckoutTtl)
     /\ \A j \in Keys : ~Blocks(j)

Return(c) == caller' = [caller EXCEPT ![c] = IdleCaller]

(* Under the lock of the checkout: the policy, the replay, or a new row.   *)
CreatePaymentIntent(c) ==
  LET k == caller[c].key IN
  /\ caller[c].step = "intent"
  /\ \/ ~RelinkAllowed(k) /\ Return(c) /\ UNCHANGED <<checkout, intent>>
     \/ /\ RelinkAllowed(k)
        /\ caller' = [caller EXCEPT ![c].step = "find"]
        /\ \/ intent[k].status # "ABSENT" /\ UNCHANGED <<checkout, intent>>
           \/ /\ intent[k].status = "ABSENT"
              /\ intent' = [intent EXCEPT ![k] = [NoIntent EXCEPT !.status = "CREATED",
                              !.attempt = NextAttempt, !.expiresAt = caller[c].expiresAt]]
              /\ checkout' = "PAYMENT_PENDING"
  /\ UNCHANGED <<now, link, starter, provider, audit>>

FindActivePaymentLink(c) ==
  /\ caller[c].step = "find"
  /\ IF Live(link[caller[c].key]) THEN Return(c)
     ELSE caller' = [caller EXCEPT ![c].step = "link"]
  /\ UNCHANGED <<now, store, starter, provider, audit>>

NeedsLink(k) == ~Live(link[k]) /\ MayBecome(intent[k].status, "LINK_READY")

(* Whatever the outcome, the call ends here: the existing link, a conflict *)
(* or a new link.                                                          *)
CreatePaymentLink(c) ==
  LET k == caller[c].key IN
  /\ caller[c].step = "link" /\ Return(c)
  /\ \/ NeedsLink(k) /\ link' = [link EXCEPT ![k] = caller[c].expiresAt] /\ Move(k, "LINK_READY")
     \/ ~NeedsLink(k) /\ UNCHANGED <<link, intent>>
  /\ UNCHANGED <<now, checkout, starter, provider, audit>>

----------------------------------------------------------------------------
(* startBoldPayment                                                        *)

Leave(s) == starter' = [starter EXCEPT ![s] = IdleStarter]
Proceed(s, step) == starter' = [starter EXCEPT ![s].step = step]

(* resolvePaymentLink: neither the deadline of the intent nor the status   *)
(* of the checkout is looked at.  Any other intent status is a replay or   *)
(* an error, and the call ends without effect.                             *)
ResolvePaymentLink(s) ==
  /\ starter[s] = IdleStarter
  /\ \E k \in Keys :
       /\ Live(link[k]) /\ intent[k].status \in Unstarted
       /\ starter' = [starter EXCEPT ![s] = [step |-> "begin", key |-> k, version |-> intent[k].version]]
  /\ UNCHANGED <<now, store, caller, provider, audit>>

(* No lock, no second look: the link was good when it was resolved.        *)
MayBeginUnlocked(s) == starter[s].version >= 1

MayBegin(s) == /\ intent[starter[s].key].version = starter[s].version
               /\ MayBecome(intent[starter[s].key].status, "PENDING")

(* A conflict or a replay (the intent was requested already) ends the call.*)
BeginProviderPayment(s) ==
  LET k == starter[s].key IN
  /\ starter[s].step = "begin"
  /\ \/ ~MayBegin(s) /\ Leave(s) /\ UNCHANGED <<intent, requestedAt>>
     \/ /\ MayBegin(s) /\ Proceed(s, "request")
        /\ Move(k, "PENDING") /\ requestedAt' = [requestedAt EXCEPT ![k] = now]
  /\ UNCHANGED <<now, checkout, link, caller, provider, asked>>

(* The provider is asked; it creates the payment or not, and the answer    *)
(* arrives or not.  Only an answer of success leads to bind.               *)
CreatePayment(s) ==
  LET k == starter[s].key IN
  /\ starter[s].step = "request"
  /\ asked' = [asked EXCEPT ![k] = @ + 1]
  /\ \/ provider' = [provider EXCEPT ![k] = now + Ttl] /\ \E step \in {"bind", "unknown"} : Proceed(s, step)
     \/ UNCHANGED provider /\ Proceed(s, "unknown")
  /\ UNCHANGED <<now, store, caller, requestedAt>>

GivesUpAnyway(k) == intent[k].status # "UNKNOWN_RESULT"

GivesUp(k) == intent[k].status = "PENDING"

MarkProviderPaymentUnknown(s) ==
  LET k == starter[s].key IN
  /\ starter[s].step = "unknown" /\ Leave(s)
  /\ \/ GivesUp(k) /\ Move(k, "UNKNOWN_RESULT")
     \/ ~GivesUp(k) /\ UNCHANGED intent
  /\ UNCHANGED <<now, checkout, link, caller, provider, audit>>

(* A webhook may have bound the payment first: then nothing is written     *)
(* (the same payment id) or the call fails (another one).  Opening the     *)
(* link does not change what can be done with it.                          *)
BindProviderPaymentResult(s) ==
  LET k == starter[s].key IN
  /\ starter[s].step = "bind" /\ Leave(s)
  /\ \/ ~intent[k].bound
          /\ intent' = [intent EXCEPT ![k].bound = TRUE, ![k].version = @ + 1]
     \/ intent[k].bound /\ UNCHANGED intent
  /\ UNCHANGED <<now, checkout, link, caller, provider, audit>>

----------------------------------------------------------------------------
(* The provider's verdict, and what it makes of the checkout.              *)

TransitionPayment(k) ==
  /\ provider[k] # 0
  /\ \E status \in {"SUCCEEDED", "FAILED", Review} :
       /\ MayBecome(intent[k].status, status)
       /\ intent' = [intent EXCEPT ![k].status = status, ![k].version = @ + 1, ![k].bound = TRUE]
  /\ UNCHANGED <<now, checkout, link, calls, provider, audit>>

Paid == {k \in Keys : intent[k].status = "SUCCEEDED"}

AccountForPayment ==
  /\ Paid # {} /\ UNCHANGED <<now, intent, link, calls, provider, audit>>
  /\ IF Cardinality(Paid) > 1 THEN checkout' = Review
     ELSE checkout = "PAYMENT_PENDING" /\ checkout' = "PAYMENT_VERIFIED"

Tick == now < MaxNow /\ now' = now + 1 /\ UNCHANGED <<store, calls, provider, audit>>

Die == /\ \/ \E c \in Callers : caller[c] # IdleCaller /\ Return(c) /\ UNCHANGED starter
          \/ \E s \in Starters : starter[s] # IdleStarter /\ Leave(s) /\ UNCHANGED caller
       /\ UNCHANGED <<now, store, provider, audit>>

CallerStep(c) == \/ Call(c) \/ CreatePaymentIntent(c) \/ FindActivePaymentLink(c) \/ CreatePaymentLink(c)
StarterStep(s) == \/ ResolvePaymentLink(s) \/ BeginProviderPayment(s) \/ CreatePayment(s)
                  \/ MarkProviderPaymentUnknown(s) \/ BindProviderPaymentResult(s)

Next == \/ \E c \in Callers : CallerStep(c)
        \/ \E s \in Starters : StarterStep(s)
        \/ \E k \in Keys : TransitionPayment(k)
        \/ AccountForPayment \/ Tick \/ Die

Spec == Init /\ [][Next]_vars

----------------------------------------------------------------------------

(* Types.                                                                  *)
TypeOK ==
  /\ now \in 0..MaxNow
  /\ checkout \in PayableCheckout \cup {"PAYMENT_VERIFIED", Review}
  /\ intent \in [Keys -> [status : IntentStatuses \cup {"ABSENT"}, attempt : 0..Cardinality(Keys), expiresAt : Nat,
                          version : Nat, bound : BOOLEAN]]
  /\ link \in [Keys -> Nat] /\ provider \in [Keys -> Nat]
  /\ caller \in [Callers -> [step : {"idle", "intent", "find", "link"}, key : Keys \cup {NoKey},
                             expiresAt : Nat]]
  /\ starter \in [Starters -> [step : {"idle", "begin", "request", "unknown", "bind"},
                               key : Keys \cup {NoKey}, version : Nat]]
  /\ requestedAt \in [Keys -> Nat] /\ asked \in [Keys -> Nat]

(* The customer may have paid, or may still pay.                           *)
Charged == {"PENDING", "UNKNOWN_RESULT", "SUCCEEDED"}

(* However many customers open the link at once, however often, and        *)
(* whatever timed out before, the provider is asked for at most one        *)
(* payment per intent.                                                     *)
RequestedOnce == \A k \in Keys : asked[k] <= 1

(* An attempt that may have cost the customer money is overtaken by a      *)
(* newer one only if it was requested after its own deadline: as long as   *)
(* a request comes in time, assertRelinkAllowed keeps every other attempt  *)
(* out until the provider has refused.                                     *)
OvertakenOnlyIfRequestedLate ==
  \A i, j \in Keys :
    (/\ intent[j].attempt > intent[i].attempt
     /\ intent[i].status \in Charged)
    => requestedAt[i] >= intent[i].expiresAt

(* No intent ever gets a second link: replays of a key, also concurrent    *)
(* ones and those made after the first link has lapsed, hand out the one   *)
(* the intent became LINK_READY with, or nothing.                          *)
LinkIsForever == [][\A k \in Keys : link[k] # 0 => link'[k] = link[k]]_link

(* A recorded payment is never forgotten: a call that gives up on the      *)
(* provider while the webhook arrives does not take back a verdict, which  *)
(* may only be escalated to a review.                                      *)
VerdictStands ==
  [][\A k \in Keys : intent[k].status \in Closed \cup {Review}
       => intent'[k].status \in {intent[k].status, Review}]_intent

(* PaymentOrchestrationService, on what the relink policy prevents: "two   *)
(* simultaneously chargeable references for the same checkout".            *)
AtMostOneChargeable ==
  Cardinality({k \in Keys : intent[k].status = "PENDING" /\ Live(provider[k])}) <= 1
----------------------------------------------------------------------------
(* What makes the safety properties inductive, in named parts.             *)

CallsHaveKeys ==
  /\ \A c \in Callers : caller[c].step # "idle" => caller[c].key \in Keys
  /\ \A s \in Starters : starter[s].step # "idle" => starter[s].key \in Keys

(* A permission to ask the provider for k.                                 *)
Asks(s, k) == starter[s].step = "request" /\ starter[s].key = k

(* BeginProviderPayment is the only door to the provider, and it closes    *)
(* behind the first starter: at most one holds the permission, never while *)
(* the intent is unstarted and never after the provider was asked.         *)
RequestDiscipline ==
  /\ \A k \in Keys : intent[k].status \in Unstarted \cup {"ABSENT"} => asked[k] = 0
  /\ \A k \in Keys, s \in Starters : Asks(s, k) =>
        /\ intent[k].status \notin Unstarted \cup {"ABSENT"} /\ asked[k] = 0
        /\ \A t \in Starters : Asks(t, k) => t = s

LinkDiscipline == \A k \in Keys : intent[k].status \in {"ABSENT", "CREATED"} => link[k] = 0

(* Attempts are numbered without holes, so a new one is the latest.        *)
AttemptsBounded == \A k \in Keys : intent[k].attempt <= Cardinality(Existing)

(* Whoever has been overtaken had lapsed while unstarted; it may still be  *)
(* requested, but only late.                                               *)
OvertakenDiscipline ==
  \A i, j \in Keys : intent[j].attempt > intent[i].attempt =>
    /\ intent[i].status \in Unstarted => intent[i].expiresAt <= now
    /\ intent[i].status \in Charged => requestedAt[i] >= intent[i].expiresAt

(* The inductive invariant: the types, and the five disciplines above, of  *)
(* the attempts, links and requests of one checkout.                       *)
Inductive == /\ TypeOK /\ RequestedOnce /\ CallsHaveKeys /\ RequestDiscipline
             /\ LinkDiscipline /\ AttemptsBounded /\ OvertakenDiscipline
===============================================================================
