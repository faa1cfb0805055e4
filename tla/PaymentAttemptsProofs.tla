------------------------- MODULE PaymentAttemptsProofs -------------------------
(***************************************************************************)
(* Proofs about PaymentAttempts, for every finite set of idempotency keys, *)
(* any callers and starters, and all deadlines.                            *)
(***************************************************************************)
EXTENDS PaymentAttempts, FiniteSetTheorems, TLAPS

USE DEF store, calls, audit

IntentRow == [status : IntentStatuses \cup {"ABSENT"}, attempt : 0..Cardinality(Keys), expiresAt : Nat,
              version : Nat, bound : BOOLEAN]
CallerRow  == [step : {"idle", "intent", "find", "link"}, key : Keys \cup {NoKey}, expiresAt : Nat]
StarterRow == [step : {"idle", "begin", "request", "unknown", "bind"}, key : Keys \cup {NoKey}, version : Nat]

----------------------------------------------------------------------------
(* Attempt numbers                                                         *)

LEMMA ExistingIsFinite ==
  /\ IsFiniteSet(Existing) /\ Cardinality(Existing) \in Nat
  /\ Cardinality(Existing) <= Cardinality(Keys) /\ Cardinality(Keys) \in Nat
  <1>1. Existing \in SUBSET Keys
    BY DEF Existing
  <1> QED BY <1>1, FS_Subset, FS_CardinalityType, AttemptsAssumption

(* There is a number left for an intent that does not exist yet.           *)
LEMMA RoomForOne ==
  ASSUME NEW k \in Keys, k \notin Existing
  PROVE  NextAttempt \in 1..Cardinality(Keys)
  <1>1. Existing \cup {k} \in SUBSET Keys
    BY DEF Existing
  <1>2. Cardinality(Existing \cup {k}) = Cardinality(Existing) + 1
    BY ExistingIsFinite, FS_AddElement
  <1>3. Cardinality(Existing \cup {k}) <= Cardinality(Keys)
    BY <1>1, FS_Subset, AttemptsAssumption
  <1> QED BY <1>2, <1>3, ExistingIsFinite DEF NextAttempt

----------------------------------------------------------------------------
(* Types                                                                   *)

LEMMA InitType == Init => TypeOK
  <1> SUFFICES ASSUME Init PROVE TypeOK
    OBVIOUS
  <1>1. NoIntent \in IntentRow /\ IdleCaller \in CallerRow /\ IdleStarter \in StarterRow
    BY ExistingIsFinite DEF NoIntent, IdleCaller, IdleStarter, IntentRow, CallerRow, StarterRow
  <1> QED BY <1>1, AttemptsAssumption DEF Init, TypeOK, PayableCheckout, IntentRow, CallerRow, StarterRow

(* TypeOK, with its record sets named.                                     *)
Typed ==
  /\ now \in 0..MaxNow
  /\ checkout \in PayableCheckout \cup {"PAYMENT_VERIFIED", Review}
  /\ intent \in [Keys -> IntentRow]
  /\ link \in [Keys -> Nat] /\ provider \in [Keys -> Nat]
  /\ caller \in [Callers -> CallerRow] /\ starter \in [Starters -> StarterRow]
  /\ requestedAt \in [Keys -> Nat] /\ asked \in [Keys -> Nat]

LEMMA TypeRows == (TypeOK <=> Typed) /\ (TypeOK' <=> Typed')
  BY DEF TypeOK, Typed, IntentRow, CallerRow, StarterRow

LEMMA IdleRows == IdleCaller \in CallerRow /\ IdleStarter \in StarterRow
  BY DEF IdleCaller, IdleStarter, CallerRow, StarterRow

LEMMA MoveType ==
  ASSUME intent \in [Keys -> IntentRow], NEW k, NEW status \in IntentStatuses, Move(k, status)
  PROVE  intent' \in [Keys -> IntentRow]
  <1> DEFINE row(j) == [intent[j] EXCEPT !.status = status, !.version = @ + 1]
  <1>1. \A j \in Keys : row(j) \in IntentRow
    <2> TAKE j \in Keys
    <2>1. intent[j] \in IntentRow /\ intent[j].version + 1 \in Nat
      BY DEF IntentRow
    <2> QED BY <2>1 DEF IntentRow
  <1>2. intent' = [j \in Keys |-> IF j = k THEN row(j) ELSE intent[j]]
    BY DEF Move
  <1> HIDE DEF row
  <1> QED BY <1>1, <1>2

LEMMA ProceedType ==
  ASSUME starter \in [Starters -> StarterRow], NEW s,
         NEW step \in {"idle", "begin", "request", "unknown", "bind"}, Proceed(s, step)
  PROVE  starter' \in [Starters -> StarterRow]
  BY DEF Proceed, StarterRow

LEMMA NextType == TypeOK /\ [Next]_vars => TypeOK'
  <1> SUFFICES ASSUME Typed, [Next]_vars PROVE Typed'
    BY TypeRows
  <1> USE IdleRows, AttemptsAssumption DEF Typed
  <1>1. ASSUME NEW c \in Callers, Call(c) PROVE Typed'
    <2>1. \A k \in Keys : [step |-> "intent", key |-> k, expiresAt |-> now + Ttl] \in CallerRow
      BY DEF CallerRow
    <2> QED BY <1>1, <2>1 DEF Call
  <1>2. ASSUME NEW c \in Callers, CreatePaymentIntent(c) PROVE Typed'
    <2>1. caller' \in [Callers -> CallerRow]
      BY <1>2 DEF CreatePaymentIntent, Return, CallerRow
    <2>2. checkout' \in PayableCheckout \cup {"PAYMENT_VERIFIED", Review}
      BY <1>2 DEF CreatePaymentIntent, PayableCheckout
    <2>3. intent' \in [Keys -> IntentRow]
      <3> DEFINE k == caller[c].key
      <3>1. CASE intent' = intent
        BY <3>1
      <3>2. CASE k \notin Keys
        BY <1>2, <3>2 DEF CreatePaymentIntent
      <3>3. CASE k \in Keys /\ intent' # intent
        <4> DEFINE row == [NoIntent EXCEPT !.status = "CREATED", !.attempt = NextAttempt,
                             !.expiresAt = caller[c].expiresAt]
        <4>1. k \notin Existing /\ intent' = [intent EXCEPT ![k] = row]
          BY <1>2, <3>3 DEF CreatePaymentIntent, Existing
        <4>2. caller[c].expiresAt \in Nat
          BY DEF CallerRow
        <4>3. row \in IntentRow
          <5>1. NextAttempt \in 0..Cardinality(Keys)
            BY <3>3, <4>1, RoomForOne, ExistingIsFinite
          <5> QED BY <4>2, <5>1, ExistingIsFinite DEF NoIntent, IntentRow, IntentStatuses
        <4> QED BY <4>1, <4>3
      <3> QED BY <3>1, <3>2, <3>3
    <2> QED BY <1>2, <2>1, <2>2, <2>3 DEF CreatePaymentIntent
  <1>3. ASSUME NEW c \in Callers, FindActivePaymentLink(c) PROVE Typed'
    <2>1. caller' \in [Callers -> CallerRow]
      BY <1>3 DEF FindActivePaymentLink, Return, CallerRow
    <2> QED BY <1>3, <2>1 DEF FindActivePaymentLink
  <1>4. ASSUME NEW c \in Callers, CreatePaymentLink(c) PROVE Typed'
    <2>1. caller' \in [Callers -> CallerRow]
      BY <1>4 DEF CreatePaymentLink, Return
    <2>2. intent' \in [Keys -> IntentRow]
      BY <1>4, MoveType DEF CreatePaymentLink, IntentStatuses
    <2>3. caller[c].expiresAt \in Nat
      BY DEF CallerRow
    <2>4. link' \in [Keys -> Nat]
      BY <1>4, <2>3 DEF CreatePaymentLink
    <2> QED BY <1>4, <2>1, <2>2, <2>4 DEF CreatePaymentLink
  <1>5. ASSUME NEW s \in Starters, ResolvePaymentLink(s) PROVE Typed'
    <2>1. \A k \in Keys : [step |-> "begin", key |-> k, version |-> intent[k].version] \in StarterRow
      BY DEF StarterRow, IntentRow
    <2> QED BY <1>5, <2>1 DEF ResolvePaymentLink
  <1>6. ASSUME NEW s \in Starters, BeginProviderPayment(s) PROVE Typed'
    <2>1. intent' \in [Keys -> IntentRow]
      BY <1>6, MoveType DEF BeginProviderPayment, IntentStatuses
    <2>2. starter' \in [Starters -> StarterRow]
      BY <1>6, ProceedType DEF BeginProviderPayment, Leave
    <2>3. requestedAt' \in [Keys -> Nat]
      BY <1>6 DEF BeginProviderPayment
    <2> QED BY <1>6, <2>1, <2>2, <2>3 DEF BeginProviderPayment
  <1>7. ASSUME NEW s \in Starters, CreatePayment(s) PROVE Typed'
    <2>1. starter' \in [Starters -> StarterRow]
      BY <1>7, ProceedType DEF CreatePayment
    <2>2. provider' \in [Keys -> Nat]
      BY <1>7 DEF CreatePayment
    <2>3. \A k \in Keys : asked[k] + 1 \in Nat
      OBVIOUS
    <2>4. asked' \in [Keys -> Nat]
      BY <1>7, <2>3 DEF CreatePayment
    <2> QED BY <1>7, <2>1, <2>2, <2>4 DEF CreatePayment
  <1>8. ASSUME NEW s \in Starters, MarkProviderPaymentUnknown(s) PROVE Typed'
    <2>1. intent' \in [Keys -> IntentRow]
      BY <1>8, MoveType DEF MarkProviderPaymentUnknown, IntentStatuses
    <2> QED BY <1>8, <2>1 DEF MarkProviderPaymentUnknown, Leave
  <1>9. ASSUME NEW s \in Starters, BindProviderPaymentResult(s) PROVE Typed'
    <2>1. intent' \in [Keys -> IntentRow]
      BY <1>9 DEF BindProviderPaymentResult, IntentRow
    <2> QED BY <1>9, <2>1 DEF BindProviderPaymentResult, Leave
  <1>10. ASSUME NEW k \in Keys, TransitionPayment(k) PROVE Typed'
    <2>1. intent' \in [Keys -> IntentRow]
      BY <1>10 DEF TransitionPayment, IntentRow, IntentStatuses, Review
    <2> QED BY <1>10, <2>1 DEF TransitionPayment
  <1>11. CASE AccountForPayment
    BY <1>11 DEF AccountForPayment
  <1>12. CASE Tick
    BY <1>12 DEF Tick
  <1>13. CASE Die
    BY <1>13 DEF Die, Return, Leave
  <1>14. CASE UNCHANGED vars
    BY <1>14 DEF vars
  <1> QED BY <1>1, <1>2, <1>3, <1>4, <1>5, <1>6, <1>7, <1>8, <1>9, <1>10, <1>11, <1>12, <1>13, <1>14
          DEF Next, CallerStep, StarterStep

(* The tables keep their types, whatever the number of keys and calls.     *)
THEOREM TypeCorrect == Spec => []TypeOK
  BY InitType, NextType, PTL DEF Spec

----------------------------------------------------------------------------
(* What a step may do to one intent, and to the calls in progress          *)

(* The keys in the hands of callers and starters are keys.                 *)
LEMMA NextKeys ==
  ASSUME TypeOK, CallsHaveKeys, [Next]_vars
  PROVE  CallsHaveKeys'
  <1> USE TypeRows DEF Typed, CallsHaveKeys
  <1>1. ASSUME NEW c \in Callers, CallerStep(c) PROVE CallsHaveKeys'
    <2>1. starter' = starter
      BY <1>1 DEF CallerStep, Call, CreatePaymentIntent, FindActivePaymentLink, CreatePaymentLink
    <2>2. CASE Call(c)
      BY <2>1, <2>2 DEF Call
    <2>3. CASE ~Call(c)
      <3>1. \A d \in Callers : caller'[d].step # "idle" =>
               caller[d].step # "idle" /\ caller'[d].key = caller[d].key
        BY <1>1, <2>3, IdleRows DEF CallerStep, CreatePaymentIntent, FindActivePaymentLink,
           CreatePaymentLink, Return, IdleCaller, CallerRow
      <3> QED BY <2>1, <3>1
    <2> QED BY <2>2, <2>3
  <1>2. ASSUME NEW s \in Starters, StarterStep(s) PROVE CallsHaveKeys'
    <2>1. caller' = caller
      BY <1>2 DEF StarterStep, ResolvePaymentLink, BeginProviderPayment, CreatePayment,
         MarkProviderPaymentUnknown, BindProviderPaymentResult
    <2>2. CASE ResolvePaymentLink(s)
      BY <2>1, <2>2 DEF ResolvePaymentLink
    <2>3. CASE ~ResolvePaymentLink(s)
      <3>1. \A t \in Starters : starter'[t].step # "idle" =>
               starter[t].step # "idle" /\ starter'[t].key = starter[t].key
        BY <1>2, <2>3, IdleRows DEF StarterStep, BeginProviderPayment, CreatePayment,
           MarkProviderPaymentUnknown, BindProviderPaymentResult, Leave, Proceed, IdleStarter, StarterRow
      <3> QED BY <2>1, <3>1
    <2> QED BY <2>2, <2>3
  <1>3. CASE Die
    BY <1>3 DEF Die, Return, Leave, IdleCaller, IdleStarter
  <1>4. CASE UNCHANGED calls
    BY <1>4
  <1> QED BY <1>1, <1>2, <1>3, <1>4 DEF Next, TransitionPayment, AccountForPayment, Tick, vars

(* A permission to begin is used on an unstarted intent only.              *)
LEMMA OnlyUnstartedBegin ==
  ASSUME NEW s, MayBegin(s)
  PROVE  intent[starter[s].key].status \in Unstarted
  BY DEF MayBegin, MayBecome, Unstarted, Closed, Review

(* A new intent has the next number, and nobody before it blocks.          *)
LEMMA NewIntent ==
  ASSUME TypeOK, CallsHaveKeys, NEW c \in Callers, CreatePaymentIntent(c), intent' # intent
  PROVE  \E k \in Keys :
           /\ intent[k].status = "ABSENT"
           /\ intent'[k].status = "CREATED" /\ intent'[k].attempt = NextAttempt
           /\ \A j \in Keys : ~Blocks(j)
           /\ \A j \in Keys \ {k} : intent'[j] = intent[j]
  <1> DEFINE k == caller[c].key
             row == [NoIntent EXCEPT !.status = "CREATED", !.attempt = NextAttempt,
                       !.expiresAt = caller[c].expiresAt]
  <1>1. k \in Keys
    BY DEF CreatePaymentIntent, CallsHaveKeys
  <1>2. /\ intent[k].status = "ABSENT" /\ RelinkAllowed(k)
        /\ intent' = [intent EXCEPT ![k] = row]
    BY DEF CreatePaymentIntent
  <1>3. row.status = "CREATED" /\ row.attempt = NextAttempt
    BY DEF NoIntent
  <1> HIDE DEF row, k
  <1>4. intent' = [j \in Keys |-> IF j = k THEN row ELSE intent[j]]
    BY <1>2, TypeRows DEF Typed
  <1>5. \A j \in Keys : ~Blocks(j)
    BY <1>2 DEF RelinkAllowed
  <1> QED BY <1>1, <1>2, <1>3, <1>4, <1>5

(* The steps that touch an intent, and what each does to it.               *)
LEMMA IntentMoves ==
  ASSUME TypeOK, CallsHaveKeys, [Next]_vars, NEW k \in Keys
  PROVE  \/ intent'[k].status = intent[k].status
         \/ intent[k].status = "ABSENT" /\ intent'[k].status = "CREATED"
         \/ MayBecome(intent[k].status, intent'[k].status)
  <1> USE TypeRows DEF Typed, CallsHaveKeys
  <1> DEFINE Moved == \/ intent'[k].status = intent[k].status
                      \/ intent[k].status = "ABSENT" /\ intent'[k].status = "CREATED"
                      \/ MayBecome(intent[k].status, intent'[k].status)
  <1>1. ASSUME NEW c \in Callers, CreatePaymentIntent(c) PROVE Moved
    <2>1. CASE intent' = intent
      BY <2>1
    <2>2. CASE intent' # intent
      BY <1>1, <2>2, NewIntent
    <2> QED BY <2>1, <2>2
  <1>2. ASSUME NEW c \in Callers, CreatePaymentLink(c) PROVE Moved
    BY <1>2 DEF CreatePaymentLink, NeedsLink, Move, IntentRow
  <1>3. ASSUME NEW s \in Starters, BeginProviderPayment(s) PROVE Moved
    BY <1>3 DEF BeginProviderPayment, MayBegin, Move, IntentRow
  <1>4. ASSUME NEW s \in Starters, MarkProviderPaymentUnknown(s) PROVE Moved
    BY <1>4 DEF MarkProviderPaymentUnknown, GivesUp, Move, IntentRow, MayBecome
  <1>5. ASSUME NEW s \in Starters, BindProviderPaymentResult(s) PROVE Moved
    BY <1>5 DEF BindProviderPaymentResult, IntentRow
  <1>6. ASSUME NEW j \in Keys, TransitionPayment(j) PROVE Moved
    BY <1>6 DEF TransitionPayment, IntentRow
  <1>7. CASE UNCHANGED intent
    BY <1>7
  <1> QED BY <1>1, <1>2, <1>3, <1>4, <1>5, <1>6, <1>7
          DEF Next, CallerStep, StarterStep, Call, FindActivePaymentLink, ResolvePaymentLink,
              CreatePayment, AccountForPayment, Tick, Die, vars

(* No intent disappears, and none is created twice.                        *)
LEMMA StillExists ==
  ASSUME TypeOK, CallsHaveKeys, [Next]_vars, NEW k \in Keys, intent[k].status # "ABSENT"
  PROVE  intent'[k].status # "ABSENT"
  BY IntentMoves DEF MayBecome, Review

(* Only the very first status can be followed by an unstarted one.         *)
LEMMA UnstartedBefore ==
  ASSUME TypeOK, CallsHaveKeys, [Next]_vars, NEW k \in Keys, intent'[k].status \in Unstarted
  PROVE  intent[k].status \in Unstarted \cup {"ABSENT"}
  BY IntentMoves DEF MayBecome, Review, Unstarted, Closed

----------------------------------------------------------------------------
(* The provider is asked once                                              *)

(* A step that neither asks nor hands out a permission keeps the           *)
(* discipline, because no status becomes unstarted again.                  *)
LEMMA RequestKept ==
  ASSUME TypeOK, CallsHaveKeys, RequestDiscipline, [Next]_vars, asked' = asked,
         \A s \in Starters : starter'[s].step = "request" => starter'[s] = starter[s]
  PROVE  RequestDiscipline'
  <1>1. ASSUME NEW k \in Keys, intent'[k].status \in Unstarted \cup {"ABSENT"}
        PROVE  intent[k].status \in Unstarted \cup {"ABSENT"}
    BY <1>1, StillExists, UnstartedBefore
  <1>2. \A k \in Keys, s \in Starters : Asks(s, k)' => Asks(s, k)
    BY DEF Asks
  <1>3. \A k \in Keys : intent'[k].status \in Unstarted \cup {"ABSENT"} => asked'[k] = 0
    BY <1>1 DEF RequestDiscipline
  <1>4. ASSUME NEW k \in Keys, NEW s \in Starters, Asks(s, k)'
        PROVE  /\ intent'[k].status \notin Unstarted \cup {"ABSENT"} /\ asked'[k] = 0
               /\ \A t \in Starters : Asks(t, k)' => t = s
    BY <1>1, <1>2, <1>4 DEF RequestDiscipline
  <1> QED BY <1>3, <1>4 DEF RequestDiscipline

LEMMA BeginKeeps ==
  ASSUME TypeOK, CallsHaveKeys, RequestDiscipline, [Next]_vars,
         NEW s \in Starters, BeginProviderPayment(s), MayBegin(s)
  PROVE  RequestDiscipline'
  <1> DEFINE k == starter[s].key
  <1>1. k \in Keys /\ intent[k].status \in Unstarted
    BY OnlyUnstartedBegin DEF BeginProviderPayment, CallsHaveKeys
  <1>2. asked[k] = 0 /\ \A t \in Starters : ~Asks(t, k)
    BY <1>1 DEF RequestDiscipline
  <1>3. intent' = [intent EXCEPT ![k].status = "PENDING", ![k].version = @ + 1] /\ asked' = asked
    BY DEF BeginProviderPayment, Move
  <1>4. intent'[k].status = "PENDING" /\ \A j \in Keys \ {k} : intent'[j] = intent[j]
    BY <1>1, <1>3, TypeRows DEF Typed, IntentRow
  <1>5. /\ \A t \in Starters \ {s} : starter'[t] = starter[t]
        /\ starter'[s].key = k
    BY TypeRows DEF Typed, BeginProviderPayment, Proceed, StarterRow
  <1> HIDE DEF k
  <1>6. \A t \in Starters : starter'[t].step = "request" /\ starter'[t].key = k => t = s
    BY <1>2, <1>5 DEF Asks
  <1>7. ASSUME NEW j \in Keys, intent'[j].status \in Unstarted \cup {"ABSENT"} PROVE asked'[j] = 0
    BY <1>3, <1>4, <1>7 DEF RequestDiscipline, Unstarted
  <1>8. ASSUME NEW j \in Keys, NEW t \in Starters, Asks(t, j)'
        PROVE  /\ intent'[j].status \notin Unstarted \cup {"ABSENT"} /\ asked'[j] = 0
               /\ \A u \in Starters : Asks(u, j)' => u = t
    <2>1. CASE j = k
      <3>1. intent'[j].status \notin Unstarted \cup {"ABSENT"} /\ asked'[j] = 0
        BY <1>2, <1>3, <1>4, <2>1 DEF Unstarted
      <3>2. t = s /\ \A u \in Starters : Asks(u, j)' => u = s
        BY <1>6, <1>8, <2>1 DEF Asks
      <3> QED BY <3>1, <3>2
    <2>2. CASE j # k
      <3>1. \A u \in Starters : Asks(u, j)' => Asks(u, j)
        BY <1>5, <2>2 DEF Asks
      <3>2. Asks(t, j) /\ intent'[j] = intent[j] /\ asked'[j] = asked[j]
        BY <1>3, <1>4, <1>8, <2>2, <3>1
      <3> QED BY <3>1, <3>2 DEF RequestDiscipline
    <2> QED BY <2>1, <2>2
  <1> QED BY <1>7, <1>8 DEF RequestDiscipline

LEMMA AskKeeps ==
  ASSUME TypeOK, CallsHaveKeys, RequestDiscipline, RequestedOnce, NEW s \in Starters, CreatePayment(s)
  PROVE  RequestDiscipline' /\ RequestedOnce'
  <1> DEFINE k == starter[s].key
  <1>1. k \in Keys /\ Asks(s, k)
    BY DEF CreatePayment, CallsHaveKeys, Asks
  <1>2. /\ intent[k].status \notin Unstarted \cup {"ABSENT"} /\ asked[k] = 0
        /\ \A t \in Starters : Asks(t, k) => t = s
    BY <1>1 DEF RequestDiscipline
  <1>3. intent' = intent /\ asked' = [asked EXCEPT ![k] = @ + 1]
    BY DEF CreatePayment
  <1>4. asked'[k] = 1 /\ \A j \in Keys \ {k} : asked'[j] = asked[j]
    BY <1>1, <1>2, <1>3, TypeRows DEF Typed
  <1>5. starter'[s].step # "request" /\ \A t \in Starters \ {s} : starter'[t] = starter[t]
    BY TypeRows DEF Typed, CreatePayment, Proceed, StarterRow
  <1> HIDE DEF k
  <1>6. \A t \in Starters, j \in Keys : Asks(t, j)' => Asks(t, j) /\ j # k
    BY <1>2, <1>5 DEF Asks
  <1> QED BY <1>2, <1>3, <1>4, <1>6 DEF RequestDiscipline, RequestedOnce

LEMMA NextRequest ==
  ASSUME TypeOK, CallsHaveKeys, RequestDiscipline, RequestedOnce, [Next]_vars
  PROVE  RequestDiscipline' /\ RequestedOnce'
  <1>1. ASSUME NEW s \in Starters, CreatePayment(s) PROVE RequestDiscipline' /\ RequestedOnce'
    BY <1>1, AskKeeps
  <1>2. CASE ~\E s \in Starters : CreatePayment(s)
    <2>1. asked' = asked
      BY <1>2 DEF Next, CallerStep, StarterStep, Call, CreatePaymentIntent, FindActivePaymentLink,
         CreatePaymentLink, ResolvePaymentLink, BeginProviderPayment, MarkProviderPaymentUnknown,
         BindProviderPaymentResult, TransitionPayment, AccountForPayment, Tick, Die, vars
    <2>2. RequestedOnce'
      BY <2>1 DEF RequestedOnce
    <2>3. ASSUME NEW s \in Starters, BeginProviderPayment(s), MayBegin(s) PROVE RequestDiscipline'
      BY <2>3, BeginKeeps
    <2>4. CASE ~\E s \in Starters : BeginProviderPayment(s) /\ MayBegin(s)
      <3>1. ASSUME NEW s \in Starters, StarterStep(s), NEW t \in Starters, starter'[t].step = "request"
            PROVE  starter'[t] = starter[t]
        BY <1>2, <2>4, <3>1, TypeRows DEF Typed, StarterRow, StarterStep, ResolvePaymentLink,
           BeginProviderPayment, MarkProviderPaymentUnknown, BindProviderPaymentResult, Leave, IdleStarter
      <3>2. ASSUME NEW t \in Starters, starter'[t].step = "request" PROVE starter'[t] = starter[t]
        <4>1. CASE Die
          BY <3>2, <4>1, TypeRows DEF Typed, Die, Leave, IdleStarter
        <4>2. CASE starter' = starter
          BY <4>2
        <4> QED BY <3>1, <3>2, <4>1, <4>2 DEF Next, CallerStep, Call, CreatePaymentIntent,
               FindActivePaymentLink, CreatePaymentLink, TransitionPayment, AccountForPayment, Tick, vars
      <3> QED BY <2>1, <2>2, <3>2, RequestKept
    <2> QED BY <2>2, <2>3, <2>4
  <1> QED BY <1>1, <1>2

----------------------------------------------------------------------------
(* Links                                                                   *)

(* A link is written once, with the move that makes the intent LINK_READY. *)
LEMMA LinkMoves ==
  ASSUME TypeOK, CallsHaveKeys, LinkDiscipline, [Next]_vars, NEW k \in Keys, link'[k] # link[k]
  PROVE  link[k] = 0 /\ intent'[k].status = "LINK_READY"
  <1> USE TypeRows DEF Typed
  <1>1. PICK c \in Callers : CreatePaymentLink(c)
    BY DEF Next, CallerStep, StarterStep, Call, CreatePaymentIntent, FindActivePaymentLink,
       ResolvePaymentLink, BeginProviderPayment, CreatePayment, MarkProviderPaymentUnknown,
       BindProviderPaymentResult, TransitionPayment, AccountForPayment, Tick, Die, vars
  <1>2. /\ caller[c].key = k /\ NeedsLink(k)
        /\ intent' = [intent EXCEPT ![k].status = "LINK_READY", ![k].version = @ + 1]
    BY <1>1 DEF CreatePaymentLink, Move
  <1>3. intent[k].status = "CREATED"
    BY <1>2 DEF NeedsLink, MayBecome, Review, Unstarted, Closed
  <1>4. intent'[k].status = "LINK_READY"
    BY <1>2 DEF IntentRow
  <1> QED BY <1>3, <1>4 DEF LinkDiscipline

LEMMA NextLink ==
  ASSUME TypeOK, CallsHaveKeys, LinkDiscipline, [Next]_vars
  PROVE  LinkDiscipline'
  <1>1. ASSUME NEW k \in Keys, intent'[k].status \in {"ABSENT", "CREATED"}
        PROVE  link'[k] = 0
    <2>1. intent[k].status \in {"ABSENT", "CREATED"}
      BY <1>1, IntentMoves, StillExists DEF MayBecome, Review
    <2>2. link'[k] = link[k]
      BY <1>1, LinkMoves
    <2> QED BY <2>1, <2>2 DEF LinkDiscipline
  <1> QED BY <1>1 DEF LinkDiscipline

----------------------------------------------------------------------------
(* Attempts                                                                *)

Creates(c) == CreatePaymentIntent(c) /\ intent' # intent
Begins(s)  == BeginProviderPayment(s) /\ MayBegin(s)

(* Apart from a new intent and a first request, a step keeps the number,   *)
(* the deadline and the time of the request of an intent, and only lets    *)
(* its status leave the unstarted ones, or the charged ones.               *)
LEMMA QuietStep ==
  ASSUME TypeOK, CallsHaveKeys, [Next]_vars, NEW k \in Keys,
         ~\E c \in Callers : Creates(c), ~\E s \in Starters : Begins(s)
  PROVE  /\ intent'[k].attempt = intent[k].attempt /\ intent'[k].expiresAt = intent[k].expiresAt
         /\ intent'[k].status = "ABSENT" <=> intent[k].status = "ABSENT"
         /\ intent'[k].status \in Unstarted => intent[k].status \in Unstarted
         /\ intent'[k].status \in Charged => intent[k].status \in Charged
         /\ requestedAt' = requestedAt /\ now <= now'
  <1> USE TypeRows DEF Typed, CallsHaveKeys
  <1> DEFINE Quiet == /\ intent'[k].attempt = intent[k].attempt /\ intent'[k].expiresAt = intent[k].expiresAt
                      /\ intent'[k].status = "ABSENT" <=> intent[k].status = "ABSENT"
                      /\ intent'[k].status \in Unstarted => intent[k].status \in Unstarted
                      /\ intent'[k].status \in Charged => intent[k].status \in Charged
  <1>1. ASSUME NEW c \in Callers, CreatePaymentIntent(c) PROVE Quiet
    BY <1>1 DEF Creates
  <1>2. ASSUME NEW c \in Callers, CreatePaymentLink(c) PROVE Quiet
    BY <1>2 DEF CreatePaymentLink, NeedsLink, Move, IntentRow, MayBecome, Unstarted, Charged, Review, Closed
  <1>3. ASSUME NEW s \in Starters, BeginProviderPayment(s) PROVE Quiet
    BY <1>3 DEF BeginProviderPayment, Begins
  <1>4. ASSUME NEW s \in Starters, MarkProviderPaymentUnknown(s) PROVE Quiet
    BY <1>4 DEF MarkProviderPaymentUnknown, GivesUp, Move, IntentRow, Unstarted, Charged
  <1>5. ASSUME NEW s \in Starters, BindProviderPaymentResult(s) PROVE Quiet
    BY <1>5 DEF BindProviderPaymentResult, IntentRow
  <1>6. ASSUME NEW j \in Keys, TransitionPayment(j) PROVE Quiet
    BY <1>6 DEF TransitionPayment, IntentRow, MayBecome, Unstarted, Charged, Review, Closed
  <1>7. ASSUME UNCHANGED intent PROVE Quiet
    BY <1>7
  <1>8. Quiet
    BY <1>1, <1>2, <1>3, <1>4, <1>5, <1>6, <1>7
       DEF Next, CallerStep, StarterStep, Call, FindActivePaymentLink, ResolvePaymentLink,
           CreatePayment, AccountForPayment, Tick, Die, vars
  <1>9. requestedAt' = requestedAt
    BY DEF Next, CallerStep, StarterStep, Call, CreatePaymentIntent, FindActivePaymentLink,
       CreatePaymentLink, ResolvePaymentLink, BeginProviderPayment, Begins, CreatePayment,
       MarkProviderPaymentUnknown, BindProviderPaymentResult, TransitionPayment,
       AccountForPayment, Tick, Die, vars
  <1>10. now <= now'
    <2>1. CASE Tick
      BY <2>1, AttemptsAssumption DEF Tick
    <2>2. CASE now' = now
      BY <2>2, AttemptsAssumption
    <2> QED BY <2>1, <2>2 DEF Next, CallerStep, StarterStep, Call, CreatePaymentIntent,
           FindActivePaymentLink, CreatePaymentLink, ResolvePaymentLink, BeginProviderPayment,
           CreatePayment, MarkProviderPaymentUnknown, BindProviderPaymentResult, TransitionPayment,
           AccountForPayment, Die, vars
  <1> QED BY <1>8, <1>9, <1>10

(* Numbering without holes, and the latest number below the count.         *)
LEMMA NextAttempts ==
  ASSUME TypeOK, CallsHaveKeys, AttemptsBounded, [Next]_vars
  PROVE  AttemptsBounded'
  <1> USE TypeRows DEF Typed
  <1>1. ASSUME NEW c \in Callers, Creates(c) PROVE AttemptsBounded'
    <2>1. PICK k \in Keys : /\ intent[k].status = "ABSENT"
                            /\ intent'[k].status = "CREATED" /\ intent'[k].attempt = NextAttempt
                            /\ \A j \in Keys \ {k} : intent'[j] = intent[j]
      BY <1>1, NewIntent DEF Creates
    <2>2. Existing' = Existing \cup {k} /\ k \notin Existing
      BY <2>1 DEF Existing
    <2>3. Cardinality(Existing') = Cardinality(Existing) + 1
      BY <2>2, ExistingIsFinite, FS_AddElement
    <2>4. \A j \in Keys : intent'[j].attempt <= Cardinality(Existing) + 1
      <3> TAKE j \in Keys
      <3>1. CASE j = k
        BY <2>1, <3>1, ExistingIsFinite DEF NextAttempt
      <3>2. CASE j # k
        <4>1. intent[j].attempt \in Nat
          BY ExistingIsFinite DEF IntentRow
        <4> QED BY <2>1, <3>2, <4>1, ExistingIsFinite DEF AttemptsBounded
      <3> QED BY <3>1, <3>2
    <2> QED BY <2>3, <2>4 DEF AttemptsBounded
  <1>2. ASSUME NEW s \in Starters, Begins(s) PROVE AttemptsBounded'
    <2>1. /\ starter[s].key \in Keys
          /\ intent[starter[s].key].status \in Unstarted
      BY <1>2, OnlyUnstartedBegin DEF Begins, BeginProviderPayment, CallsHaveKeys
    <2>2. \A k \in Keys : /\ intent'[k].attempt = intent[k].attempt
                          /\ (intent'[k].status = "ABSENT" <=> intent[k].status = "ABSENT")
      BY <1>2, <2>1 DEF Begins, BeginProviderPayment, Move, IntentRow, Unstarted
    <2>3. Existing' = Existing
      BY <2>2 DEF Existing
    <2> QED BY <2>2, <2>3 DEF AttemptsBounded
  <1>3. CASE /\ ~\E c \in Callers : Creates(c)
             /\ ~\E s \in Starters : Begins(s)
    <2>1. \A k \in Keys : /\ intent'[k].attempt = intent[k].attempt
                          /\ (intent'[k].status = "ABSENT" <=> intent[k].status = "ABSENT")
      BY <1>3, QuietStep
    <2>2. Existing' = Existing
      BY <2>1 DEF Existing
    <2> QED BY <2>1, <2>2 DEF AttemptsBounded
  <1> QED BY <1>1, <1>2, <1>3

(* Whoever is overtaken had lapsed first; whoever is charged after that is *)
(* charged late.                                                           *)
LEMMA NextOvertaken ==
  ASSUME TypeOK, CallsHaveKeys, AttemptsBounded, OvertakenDiscipline, [Next]_vars
  PROVE  OvertakenDiscipline'
  <1> USE TypeRows DEF Typed
  <1>0. now \in Nat /\ \A k \in Keys : intent[k].attempt \in Nat /\ intent[k].expiresAt \in Nat
    BY ExistingIsFinite, AttemptsAssumption DEF IntentRow
  <1>1. ASSUME NEW c \in Callers, Creates(c) PROVE OvertakenDiscipline'
    <2>1. PICK k \in Keys : /\ intent[k].status = "ABSENT"
                            /\ intent'[k].status = "CREATED" /\ intent'[k].attempt = NextAttempt
                            /\ \A j \in Keys : ~Blocks(j)
                            /\ \A j \in Keys \ {k} : intent'[j] = intent[j]
      BY <1>1, NewIntent DEF Creates
    <2>2. now' = now /\ requestedAt' = requestedAt
      BY <1>1 DEF Creates, CreatePaymentIntent
    <2>3. ASSUME NEW i \in Keys, NEW j \in Keys, intent'[j].attempt > intent'[i].attempt
          PROVE  /\ intent'[i].status \in Unstarted => intent'[i].expiresAt <= now'
                 /\ intent'[i].status \in Charged => requestedAt'[i] >= intent'[i].expiresAt
      <3>1. CASE i = k
        <4>1. j # k /\ intent[j].attempt > Cardinality(Existing) + 1
          BY <2>1, <2>3, <3>1, ExistingIsFinite DEF NextAttempt
        <4> QED BY <1>0, <4>1, ExistingIsFinite DEF AttemptsBounded
      <3>2. CASE i # k
        <4>1. intent[i].status \in Unstarted => ~(intent[i].expiresAt > now)
          BY <2>1 DEF Blocks, Live
        <4>2. intent[i].status \notin Charged
          BY <2>1 DEF Blocks, Exposed, Charged
        <4> QED BY <1>0, <2>1, <2>2, <3>2, <4>1, <4>2
      <3> QED BY <3>1, <3>2
    <2> QED BY <2>3 DEF OvertakenDiscipline
  <1>2. ASSUME NEW s \in Starters, Begins(s) PROVE OvertakenDiscipline'
    <2> DEFINE k == starter[s].key
    <2>1. k \in Keys /\ intent[k].status \in Unstarted
      BY <1>2, OnlyUnstartedBegin DEF Begins, BeginProviderPayment, CallsHaveKeys
    <2>2. /\ intent' = [intent EXCEPT ![k].status = "PENDING", ![k].version = @ + 1]
          /\ requestedAt' = [requestedAt EXCEPT ![k] = now] /\ now' = now
      BY <1>2 DEF Begins, BeginProviderPayment, Move
    <2>3. /\ \A j \in Keys : /\ intent'[j].attempt = intent[j].attempt
                             /\ intent'[j].expiresAt = intent[j].expiresAt
          /\ \A j \in Keys \ {k} : intent'[j] = intent[j] /\ requestedAt'[j] = requestedAt[j]
          /\ intent'[k].status = "PENDING" /\ requestedAt'[k] = now
      BY <2>1, <2>2 DEF IntentRow
    <2> HIDE DEF k
    <2>4. ASSUME NEW i \in Keys, NEW j \in Keys, intent'[j].attempt > intent'[i].attempt
          PROVE  /\ intent'[i].status \in Unstarted => intent'[i].expiresAt <= now'
                 /\ intent'[i].status \in Charged => requestedAt'[i] >= intent'[i].expiresAt
      <3>1. CASE i = k
        BY <1>0, <2>1, <2>2, <2>3, <2>4, <3>1 DEF OvertakenDiscipline, Unstarted
      <3>2. CASE i # k
        BY <2>2, <2>3, <2>4, <3>2 DEF OvertakenDiscipline
      <3> QED BY <3>1, <3>2
    <2> QED BY <2>4 DEF OvertakenDiscipline
  <1>3. CASE /\ ~\E c \in Callers : Creates(c)
             /\ ~\E s \in Starters : Begins(s)
    <2>1. \A k \in Keys :
            /\ intent'[k].attempt = intent[k].attempt /\ intent'[k].expiresAt = intent[k].expiresAt
            /\ intent'[k].status \in Unstarted => intent[k].status \in Unstarted
            /\ intent'[k].status \in Charged => intent[k].status \in Charged
            /\ requestedAt' = requestedAt /\ now <= now'
      BY <1>3, QuietStep
    <2>2. now' \in Nat
      BY NextType, AttemptsAssumption
    <2> QED BY <1>0, <2>1, <2>2 DEF OvertakenDiscipline
  <1> QED BY <1>1, <1>2, <1>3

----------------------------------------------------------------------------
(* The theorems                                                            *)

LEMMA InitInductive == Init => Inductive
  <1> SUFFICES ASSUME Init PROVE Inductive
    OBVIOUS
  <1>1. TypeOK
    BY InitType
  <1>2. CallsHaveKeys
    BY DEF Init, CallsHaveKeys, IdleCaller, IdleStarter
  <1>3. RequestDiscipline /\ RequestedOnce
    BY DEF Init, RequestDiscipline, RequestedOnce, Asks, IdleStarter
  <1>4. LinkDiscipline
    BY DEF Init, LinkDiscipline
  <1>5. AttemptsBounded
    BY ExistingIsFinite DEF Init, AttemptsBounded, NoIntent
  <1>6. OvertakenDiscipline
    BY DEF Init, OvertakenDiscipline, NoIntent
  <1> QED BY <1>1, <1>2, <1>3, <1>4, <1>5, <1>6 DEF Inductive

LEMMA NextInductive == Inductive /\ [Next]_vars => Inductive'
  BY NextType, NextKeys, NextRequest, NextLink, NextAttempts, NextOvertaken DEF Inductive

(* The disciplines of attempts, links and requests hold in every state.    *)
THEOREM InductiveInvariant == Spec => []Inductive
  BY InitInductive, NextInductive, PTL DEF Spec

(* beginProviderPayment lets one of all concurrent and repeated starts of  *)
(* a payment through to the provider.                                      *)
THEOREM ProviderIsAskedOnce == Spec => []RequestedOnce
  <1>1. Inductive => RequestedOnce
    BY DEF Inductive
  <1> QED BY <1>1, InductiveInvariant, PTL

(* assertRelinkAllowed lets a newer attempt overtake a charged one only if *)
(* that one was requested after its deadline.                              *)
THEOREM OvertakenOnlyWhenLate == Spec => []OvertakenOnlyIfRequestedLate
  <1>1. Inductive => OvertakenOnlyIfRequestedLate
    BY DEF Inductive, OvertakenDiscipline, OvertakenOnlyIfRequestedLate
  <1> QED BY <1>1, InductiveInvariant, PTL

(* createPaymentLink never replaces a link.                                *)
THEOREM LinksAreForever == Spec => LinkIsForever
  <1>1. Inductive /\ [Next]_vars => [\A k \in Keys : link[k] # 0 => link'[k] = link[k]]_link
    BY LinkMoves DEF Inductive
  <1> QED BY <1>1, InductiveInvariant, PTL DEF Spec, LinkIsForever

(* No step of a call, a webhook or a crash takes a verdict back.           *)
THEOREM VerdictsStand == Spec => VerdictStands
  <1>1. Inductive /\ [Next]_vars =>
          [\A k \in Keys : intent[k].status \in Closed \cup {Review}
             => intent'[k].status \in {intent[k].status, Review}]_intent
    BY IntentMoves DEF Inductive, MayBecome, Closed, Review, Unstarted
  <1> QED BY <1>1, InductiveInvariant, PTL DEF Spec, VerdictStands
===============================================================================
