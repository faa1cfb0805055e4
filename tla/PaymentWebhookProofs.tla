------------------------- MODULE PaymentWebhookProofs -------------------------
(***************************************************************************)
(* What the webhooks of any number of payments do to a checkout, with any  *)
(* handlers and makers, is accounted for: an event is counted when its     *)
(* handler has looked how many payments succeeded, and of two payments     *)
(* that succeeded one has an event that is still to be counted, unless the *)
(* checkout is under review.                                               *)
(***************************************************************************)
EXTENDS PaymentWebhook, FiniteSetTheorems, TLAPS

Steps == {"idle", "load", "validate", "transition", "applied", "ownCount", "count", "review",
          "ownVerify", "verify", "ownKitchen", "kitchen", "eligible", "mark", "downstream",
          "assert", "complete", "fail", "ticket"}
IntentRow == [status : IntentStatuses \cup {"ABSENT"}, version : Nat, by : SUBSET Events]
EventRow  == [status : Active \cup {"ABSENT", "FAILED", "PROCESSED"}, done : BOOLEAN,
              attempts : 0..MaxAttempts, owner : Handlers \cup {Nobody},
              lease : {None, "live", "lapsed"}, result : IntentStatuses \cup {None}]
ProcRow   == [step : Steps, event : Events \cup {None}, seen : IntentStatuses \cup {None},
              version : Nat, start : Active \cup {None},
              latest : IntentStatuses \cup {None, "ABSENT"}]

(* TypeOK, with its record sets named.                                     *)
Typed ==
  /\ checkout \in PayableCheckout \cup Accounted /\ ticket \in BOOLEAN
  /\ intent \in [Intents -> IntentRow]
  /\ event \in [Events -> EventRow]
  /\ proc \in [Procs -> ProcRow]
  /\ faults \in 0..MaxFaults

LEMMA TypeRows == TypeOK <=> Typed
  BY DEF TypeOK, Typed, IntentRow, EventRow, ProcRow, Steps

(* An event is only received of a payment that exists, and a handler that  *)
(* works has one.                                                          *)
Working == /\ \A e \in Events : event[e].status # "ABSENT" => intent[About[e]].status # "ABSENT"
           /\ \A h \in Handlers : proc[h].step # "idle" => proc[h].event \in Events
           /\ \A p \in Procs : proc[p].step = "idle" => proc[p] = Idle

(* Nobody holds a settled event.                                           *)
Released == \A e \in Events : event[e].done => event[e].lease = None

(* A payment that succeeded was moved by an event that says so; and so was *)
(* one before anyone lets the kitchen in.                                  *)
Mover(e, i) == About[e] = i /\ Kind[e] = "APPROVED" /\ e \in intent[i].by
Backed == \A i \in Intents : intent[i].status = "SUCCEEDED" => \E e \in Events : Mover(e, i)
SomePaid == \E e \in Events : Kind[e] = "APPROVED" /\ e \in intent[About[e]].by
LetIn == \/ ticket \/ checkout \in {"KITCHEN_ELIGIBLE", "ORDER_CREATED"}
         \/ \E p \in Procs : proc[p].step \in {"mark", "ticket"}
Earned == LetIn => SomePaid

(* A handler that has seen success and is past the checkout has accounted  *)
(* for it.                                                                 *)
Checked == {"ownKitchen", "kitchen", "eligible", "mark", "downstream", "assert", "complete"}
Booked ==
  /\ \A h \in Handlers : proc[h].seen = "SUCCEEDED" /\ proc[h].step \in Checked
       => checkout \in Accounted
  /\ SuccessIsAccounted

(* An event is counted.                                                    *)
Past(h) == \/ proc[h].step \in Checked \cup {"ownVerify", "verify"}
           \/ proc[h].step = "applied" /\ proc[h].seen # "SUCCEEDED"
Counted(e) == \/ event[e].done /\ event[e].status # "FAILED"
              \/ \E h \in Handlers : proc[h].event = e /\ Owned(h) /\ Past(h)
Pending(i) == \E e \in Events : Mover(e, i) /\ ~Counted(e)
Noticed == checkout = Review \/ \A i, j \in Succeeded : i = j \/ Pending(i) \/ Pending(j)

Inv == Typed /\ Working /\ Released /\ Backed /\ Earned /\ Booked /\ Noticed

----------------------------------------------------------------------------
LEMMA NoneSucceeded == Init => Succeeded = {}
  BY DEF Init, Succeeded, NoIntent

LEMMA Initially == Init => Inv
  <1> SUFFICES ASSUME Init PROVE Inv
    OBVIOUS
  <1>1. NoIntent \in IntentRow /\ NoEvent \in EventRow /\ Idle \in ProcRow
    <2>1. 0 \in 0..MaxAttempts
      BY WebhookAssumption
    <2> QED BY <2>1 DEF NoIntent, NoEvent, Idle, IntentRow, EventRow, ProcRow, Steps
  <1>2. 0 \in 0..MaxFaults
    BY WebhookAssumption
  <1>3. Typed
    BY <1>1, <1>2 DEF Init, Typed, PayableCheckout
  <1>4. Working /\ Released /\ Backed
    BY DEF Init, Working, Released, Backed, NoIntent, NoEvent, Idle, Procs
  <1>5. Earned /\ Booked
    BY DEF Init, Earned, LetIn, Booked, SuccessIsAccounted, Checked, NoEvent, Idle, None, Procs
  <1>6. Noticed
    BY NoneSucceeded DEF Noticed
  <1> QED BY <1>3, <1>4, <1>5, <1>6 DEF Inv

----------------------------------------------------------------------------
(* A process goes to a step with the event it has and the status it saw.   *)
Goes(p, s) ==
  /\ proc' \in [Procs -> ProcRow] /\ proc'[p].step = s
  /\ \A q \in Procs : q # p => proc'[q] = proc[q]
  /\ IF s = "idle" THEN proc'[p] = Idle ELSE proc'[p].event = proc[p].event
  /\ s \notin {"idle", "validate"} => proc'[p].seen = proc[p].seen

LEMMA IdleIsRow == Idle \in ProcRow /\ Idle.step = "idle"
  BY DEF Idle, ProcRow, Steps

LEMMA GotoGoes ==
  ASSUME Typed, NEW p \in Procs, NEW s \in Steps \ {"idle"}, Goto(p, s)
  PROVE  Goes(p, s)
  BY DEF Typed, Goto, Goes, ProcRow

LEMMA EndGoes ==
  ASSUME Typed, NEW p \in Procs, End(p)
  PROVE  Goes(p, "idle")
  BY IdleIsRow DEF Typed, End, Goes

LEMMA FailGoes ==
  ASSUME Typed, NEW p \in Procs, Fail(p)
  PROVE  Goes(p, "fail") \/ Goes(p, "idle")
  <1>1. "fail" \in Steps \ {"idle"}
    BY DEF Steps
  <1> QED BY <1>1, GotoGoes, EndGoes DEF Fail

(* An event that stays with its holder, at whatever checkpoint.            *)
Same(e) ==
  /\ event'[e].done = event[e].done /\ event'[e].owner = event[e].owner
  /\ event'[e].lease = event[e].lease /\ event'[e].result = event[e].result
  /\ event'[e].status = event[e].status \/ {event'[e].status, event[e].status} \subseteq Active

LEMMA Advances ==
  ASSUME Typed, NEW h \in Handlers, proc[h].event \in Events, NEW cp \in Active, NEW s \in Steps \ {"idle"},
         AdvanceCheckpoint(h, cp, s)
  PROVE  /\ Goes(h, s) \/ Goes(h, "fail") \/ Goes(h, "idle")
         /\ event' \in [Events -> EventRow] /\ \A e \in Events : Same(e)
  <1>1. h \in Procs
    BY DEF Procs
  <1>2. CASE Goto(h, s) /\ UNCHANGED event
    BY <1>1, <1>2, GotoGoes DEF Typed, Same
  <1>3. CASE Fail(h) /\ UNCHANGED event
    BY <1>1, <1>3, FailGoes DEF Typed, Same
  <1>4. CASE /\ Owned(h) /\ Goto(h, s)
             /\ event' = [event EXCEPT ![proc[h].event].status = cp]
    <2>1. event' \in [Events -> EventRow] /\ \A e \in Events : Same(e)
      BY <1>4 DEF Typed, EventRow, Owned, Same
    <2> QED BY <1>1, <1>4, <2>1, GotoGoes
  <1> QED BY <1>2, <1>3, <1>4 DEF AdvanceCheckpoint

----------------------------------------------------------------------------
LEMMA Walk ==
  ASSUME Inv, NEW p \in Procs, NEW s, Goes(p, s), s # "applied",
         event' \in [Events -> EventRow], \A e \in Events : Same(e), UNCHANGED intent,
         checkout' \in PayableCheckout \cup Accounted, ticket' \in BOOLEAN,
         faults' \in 0..MaxFaults, p \in Handlers /\ s # "idle" => proc[p].step # "idle",
         checkout \in Accounted => checkout' \in Accounted,
         checkout = Review => checkout' = Review,
         \/ s \in {"mark", "ticket"} \/ ticket' \/ checkout' \in {"KITCHEN_ELIGIBLE", "ORDER_CREATED"}
           => SomePaid,
         p \in Handlers /\ s \in Checked /\ proc[p].seen = "SUCCEEDED" => checkout' \in Accounted,
         p \in Handlers /\ s \in Checked \cup {"ownVerify", "verify"}
           => Past(p) \/ checkout' = Review \/ \A i, j \in Succeeded : i = j
  PROVE  Inv'
  <1>1. Typed'
    BY DEF Inv, Typed, Goes
  <1>2. Working'
    BY DEF Inv, Working, Goes, Same, Procs, Active
  <1>3. Released' /\ Backed'
    BY DEF Inv, Released, Backed, Mover, Same
  <1>4. Earned'
    BY DEF Inv, Earned, LetIn, SomePaid, Goes
  <1>5. Booked'
    BY DEF Inv, Booked, SuccessIsAccounted, Goes, Same, Procs, Checked
  <1>6. Noticed'
    <2>1. ASSUME NEW q \in Handlers, Past(q)', Owned(q)'
          PROVE  proc'[q].event = proc[q].event /\ Owned(q)
      <3>1. proc'[q].step # "idle"
        BY <2>1 DEF Past, Checked
      <3>2. proc'[q].event = proc[q].event /\ proc[q].step # "idle"
        BY <3>1 DEF Goes, Procs
      <3>3. proc[q].event \in Events
        BY <3>2 DEF Inv, Working
      <3> QED BY <2>1, <3>2, <3>3 DEF Owned, Same
    <2>2. CASE checkout' = Review
      BY <2>2 DEF Noticed
    <2>3. CASE \A i, j \in Succeeded : i = j
      BY <2>3 DEF Noticed, Succeeded
    <2>4. CASE p \in Handlers /\ s \in Checked \cup {"ownVerify", "verify"} => Past(p)
      <3>1. ASSUME NEW q \in Handlers, Past(q)' PROVE Past(q)
        BY <2>4, <3>1 DEF Past, Goes, Procs, Checked
      <3>2. \A e \in Events : Counted(e)' => Counted(e)
        BY <2>1, <3>1 DEF Counted, Same, Active
      <3>3. \A i \in Intents : Pending(i) => Pending(i)'
        BY <3>2 DEF Pending, Mover
      <3> QED BY <3>3 DEF Inv, Noticed, Succeeded
    <2> QED BY <2>2, <2>3, <2>4
  <1> QED BY <1>1, <1>2, <1>3, <1>4, <1>5, <1>6 DEF Inv

(* A walk that leaves the checkout as it is.                               *)
LEMMA QuietWalk ==
  ASSUME Inv, NEW p \in Procs, NEW s, Goes(p, s), s \notin {"applied", "mark", "ticket"},
         event' \in [Events -> EventRow], \A e \in Events : Same(e),
         UNCHANGED <<intent, checkout, ticket>>, faults' \in 0..MaxFaults,
         p \in Handlers /\ s # "idle" => proc[p].step # "idle",
         p \in Handlers /\ s \in Checked => proc[p].step \in Checked \/ proc[p].seen # "SUCCEEDED",
         p \in Handlers /\ s \in Checked \cup {"ownVerify", "verify"}
           => Past(p) \/ \A i, j \in Succeeded : i = j
  PROVE  Inv'
  <1>1. checkout' \in PayableCheckout \cup Accounted /\ ticket' \in BOOLEAN
    BY DEF Inv, Typed
  <1>2. ticket' \/ checkout' \in {"KITCHEN_ELIGIBLE", "ORDER_CREATED"} => SomePaid
    BY DEF Inv, Earned, LetIn
  <1>3. p \in Handlers /\ s \in Checked /\ proc[p].seen = "SUCCEEDED" => checkout' \in Accounted
    BY DEF Inv, Booked
  <1> QED BY <1>1, <1>2, <1>3, Walk

LEMMA Unmoved == ASSUME Inv, UNCHANGED event
                 PROVE  event' \in [Events -> EventRow] /\ \A e \in Events : Same(e)
  BY DEF Inv, Typed, Same

LEMMA Busy == ASSUME Inv, NEW h \in Handlers, proc[h].step # "idle"
              PROVE  h \in Procs /\ proc[h].event \in Events /\ proc[h] \in ProcRow
  BY DEF Inv, Working, Typed, Procs

----------------------------------------------------------------------------
(* The handlers' steps to the checkpoints.                                 *)

LEMMA Loads ==
  ASSUME Inv, NEW h \in Handlers, FindClaimedWebhookEvidence(h)
  PROVE  Inv'
  <1>1. proc[h].step = "load"
    BY DEF FindClaimedWebhookEvidence
  <1>2. h \in Procs /\ proc[h].event \in Events /\ proc[h] \in ProcRow
    BY <1>1, Busy
  <1>3. UNCHANGED <<checkout, ticket, intent, event, faults>>
    BY DEF FindClaimedWebhookEvidence
  <1>4. Goes(h, "validate") \/ Goes(h, "idle")
    <2>1. CASE Owned(h)
      <3> DEFINE e == proc[h].event
                 row == [proc[h] EXCEPT !.step = "validate", !.start = event[e].status,
                           !.seen = intent[About[e]].status, !.version = intent[About[e]].version]
      <3>1. proc' = [proc EXCEPT ![h] = row]
        BY <2>1 DEF FindClaimedWebhookEvidence
      <3>2. event[e].status \in Active /\ About[e] \in Intents
        BY <1>2, <2>1, WebhookAssumption DEF Owned
      <3>3. intent[About[e]] \in IntentRow /\ intent[About[e]].status # "ABSENT"
        BY <1>2, <3>2 DEF Inv, Typed, Working, Active
      <3>4. row \in ProcRow /\ row.step = "validate" /\ row.event = proc[h].event
        BY <1>2, <3>2, <3>3 DEF ProcRow, IntentRow, Steps
      <3> HIDE DEF row
      <3> QED BY <1>2, <3>1, <3>4 DEF Goes, Inv, Typed
    <2>2. CASE ~Owned(h)
      BY <1>2, <2>2, EndGoes DEF FindClaimedWebhookEvidence, Inv
    <2> QED BY <2>1, <2>2
  <1>5. faults' \in 0..MaxFaults /\ "validate" \notin Checked /\ "idle" \notin Checked
    BY <1>3 DEF Inv, Typed, Checked
  <1> QED BY <1>1, <1>2, <1>3, <1>4, <1>5, QuietWalk, Unmoved

LEMMA Validates ==
  ASSUME Inv, NEW h \in Handlers, Validate(h)
  PROVE  Inv'
  <1>1. /\ proc[h].step = "validate" /\ AdvanceCheckpoint(h, "VALIDATED", "transition")
        /\ UNCHANGED <<checkout, ticket, intent, faults>>
    BY DEF Validate
  <1>2. h \in Procs /\ proc[h].event \in Events
    BY <1>1, Busy
  <1>3. "VALIDATED" \in Active /\ "transition" \in Steps \ {"idle"}
    BY DEF Active, Steps
  <1>4. /\ Goes(h, "transition") \/ Goes(h, "fail") \/ Goes(h, "idle")
        /\ event' \in [Events -> EventRow] /\ \A e \in Events : Same(e)
    BY <1>1, <1>2, <1>3, Advances DEF Inv
  <1>5. faults' \in 0..MaxFaults /\ {"transition", "fail", "idle"} \cap Checked = {}
    BY <1>1 DEF Inv, Typed, Checked
  <1> QED BY <1>1, <1>2, <1>4, <1>5, QuietWalk

LEMMA Applies ==
  ASSUME Inv, NEW h \in Handlers, TransitionApplied(h)
  PROVE  Inv'
  <1> DEFINE s == IF HasDownstream(h) THEN "ownCount" ELSE "downstream"
  <1>1. /\ proc[h].step = "applied" /\ AdvanceCheckpoint(h, "TRANSITION_APPLIED", s)
        /\ UNCHANGED <<checkout, ticket, intent, faults>>
    BY DEF TransitionApplied
  <1>2. h \in Procs /\ proc[h].event \in Events
    BY <1>1, Busy
  <1>3. "TRANSITION_APPLIED" \in Active /\ s \in Steps \ {"idle"}
    BY DEF Active, Steps
  <1>4. /\ s \in {"ownCount", "downstream"}
        /\ s \in Checked \cup {"ownVerify", "verify"} => proc[h].seen # "SUCCEEDED"
    BY DEF HasDownstream, Checked
  <1> HIDE DEF s
  <1>5. /\ Goes(h, s) \/ Goes(h, "fail") \/ Goes(h, "idle")
        /\ event' \in [Events -> EventRow] /\ \A e \in Events : Same(e)
    BY <1>1, <1>2, <1>3, Advances DEF Inv
  <1>6. faults' \in 0..MaxFaults
    BY <1>1 DEF Inv, Typed
  <1>7. CASE Goes(h, s)
    <2>1. s \in Checked \cup {"ownVerify", "verify"} => Past(h)
      BY <1>1, <1>4 DEF Past
    <2>2. s \notin {"applied", "mark", "ticket"}
      BY <1>4
    <2> QED BY <1>1, <1>2, <1>4, <1>5, <1>6, <1>7, <2>1, <2>2, QuietWalk
  <1>8. CASE Goes(h, "fail") \/ Goes(h, "idle")
    <2>1. {"fail", "idle"} \cap Checked = {}
      BY DEF Checked
    <2> QED BY <1>1, <1>2, <1>5, <1>6, <1>8, <2>1, QuietWalk
  <1> QED BY <1>5, <1>7, <1>8

LEMMA DownstreamApplies ==
  ASSUME Inv, NEW h \in Handlers, DownstreamApplied(h)
  PROVE  Inv'
  <1>1. /\ proc[h].step = "downstream" /\ AdvanceCheckpoint(h, "DOWNSTREAM_APPLIED", "assert")
        /\ UNCHANGED <<checkout, ticket, intent, faults>>
    BY DEF DownstreamApplied
  <1>2. h \in Procs /\ proc[h].event \in Events
    BY <1>1, Busy
  <1>3. "DOWNSTREAM_APPLIED" \in Active /\ "assert" \in Steps \ {"idle"}
    BY DEF Active, Steps
  <1>4. /\ Goes(h, "assert") \/ Goes(h, "fail") \/ Goes(h, "idle")
        /\ event' \in [Events -> EventRow] /\ \A e \in Events : Same(e)
    BY <1>1, <1>2, <1>3, Advances DEF Inv
  <1>5. /\ faults' \in 0..MaxFaults /\ {"fail", "idle"} \cap Checked = {}
        /\ proc[h].step \in Checked /\ Past(h)
    BY <1>1 DEF Inv, Typed, Checked, Past
  <1> QED BY <1>1, <1>2, <1>4, <1>5, QuietWalk

LEMMA Asserted ==
  ASSUME Inv, NEW h \in Handlers, NEW a \in Asserts, AssertOwned(h, a[1], a[2])
  PROVE  Inv'
  <1> DEFINE from == a[1]
             s == a[2]
  <1>1. /\ proc[h].step = from /\ (Goto(h, s) \/ Fail(h))
        /\ UNCHANGED <<checkout, ticket, intent, event, faults>>
    BY DEF AssertOwned
  <1>2. /\ from \in {"ownCount", "ownVerify", "ownKitchen", "assert"}
        /\ s \in {"count", "verify", "kitchen", "complete"}
        /\ s = "verify" => from = "ownVerify"
        /\ s \in Checked => from \in Checked
    BY DEF Asserts, Checked
  <1> HIDE DEF from, s
  <1>3. h \in Procs
    BY DEF Procs
  <1>4. Goes(h, s) \/ Goes(h, "fail") \/ Goes(h, "idle")
    <2>1. s \in Steps \ {"idle"}
      BY <1>2 DEF Steps
    <2> QED BY <1>1, <1>3, <2>1, GotoGoes, FailGoes DEF Inv
  <1>5. faults' \in 0..MaxFaults /\ {"fail", "idle"} \cap Checked = {} /\ proc[h].step # "idle"
    BY <1>1, <1>2 DEF Inv, Typed, Checked
  <1>6. s \in Checked \cup {"ownVerify", "verify"} => Past(h)
    BY <1>1, <1>2 DEF Past
  <1>7. s \notin {"applied", "mark", "ticket"}
    BY <1>2
  <1> QED BY <1>1, <1>2, <1>3, <1>4, <1>5, <1>6, <1>7, QuietWalk, Unmoved

----------------------------------------------------------------------------
(* What they do to the checkout.                                           *)

LEMMA IntentsAreFinite ==
  /\ IsFiniteSet(Succeeded) /\ IsFiniteSet(Existing)
  /\ Existing # {} => Cardinality(Existing) \in Intents
  <1>1. IsFiniteSet(Succeeded) /\ IsFiniteSet(Existing) /\ Cardinality(Existing) <= Cardinality(Intents)
    <2>1. Succeeded \subseteq Intents /\ Existing \subseteq Intents
      BY DEF Succeeded, Existing
    <2> QED BY <2>1, WebhookAssumption, FS_Subset
  <1> DEFINE k == Cardinality(Existing)
             n == Cardinality(Intents)
  <1>2. k \in Nat /\ n \in Nat /\ k <= n /\ Intents = 1..n
    BY <1>1, WebhookAssumption, FS_CardinalityType
  <1>3. Existing # {} => k # 0
    BY <1>1, FS_EmptySet
  <1> HIDE DEF k, n
  <1>4. Existing # {} => k \in Intents
    BY <1>2, <1>3
  <1> QED BY <1>1, <1>4 DEF k

LEMMA Lonely ==
  ASSUME ~(Cardinality(Succeeded) > 1)
  PROVE  \A i, j \in Succeeded : i = j
  <1> SUFFICES ASSUME NEW i \in Succeeded, NEW j \in Succeeded, i # j PROVE FALSE
    OBVIOUS
  <1>1. IsFiniteSet({j}) /\ Cardinality({j}) = 1
    BY FS_Singleton
  <1>2. Cardinality({j} \cup {i}) = Cardinality({j}) + 1
    BY <1>1, FS_AddElement
  <1>3. {j} \cup {i} \in SUBSET Succeeded
    OBVIOUS
  <1>4. Cardinality({j} \cup {i}) <= Cardinality(Succeeded) /\ Cardinality(Succeeded) \in Nat
    BY <1>3, IntentsAreFinite, FS_Subset, FS_CardinalityType
  <1> QED BY <1>1, <1>2, <1>4

LEMMA Counts ==
  ASSUME Inv, NEW h \in Handlers, SuccessfulPaymentCount(h)
  PROVE  Inv'
  <1> DEFINE s == IF Cardinality(Succeeded) > 1 THEN "review" ELSE "ownVerify"
  <1>1. proc[h].step = "count" /\ Goto(h, s) /\ UNCHANGED <<checkout, ticket, intent, event, faults>>
    BY DEF SuccessfulPaymentCount
  <1>2. s \in {"review", "ownVerify"} /\ (s = "ownVerify" => \A i, j \in Succeeded : i = j)
    BY Lonely
  <1> HIDE DEF s
  <1>3. h \in Procs /\ s \in Steps \ {"idle"}
    BY <1>2 DEF Procs, Steps
  <1>4. Goes(h, s)
    BY <1>1, <1>3, GotoGoes DEF Inv
  <1>5. faults' \in 0..MaxFaults /\ s \notin Checked /\ s \notin {"applied", "mark", "ticket"}
    BY <1>1, <1>2 DEF Inv, Typed, Checked
  <1> QED BY <1>1, <1>2, <1>3, <1>4, <1>5, QuietWalk, Unmoved

LEMMA Reviews ==
  ASSUME Inv, NEW h \in Handlers, MarkFinancialReview(h)
  PROVE  Inv'
  <1>1. /\ proc[h].step = "review" /\ Goto(h, "downstream") /\ UNCHANGED <<ticket, intent, event, faults>>
        /\ checkout' = IF checkout \in Reviewable THEN Review ELSE checkout
    BY DEF MarkFinancialReview
  <1>2. checkout' = Review
    BY <1>1 DEF Inv, Typed, PayableCheckout, Accounted, Reviewable, ReviewableBeforeKitchen
  <1>3. h \in Procs /\ "downstream" \in Steps \ {"idle"}
    BY DEF Procs, Steps
  <1>4. Goes(h, "downstream")
    BY <1>1, <1>3, GotoGoes DEF Inv
  <1>5. /\ checkout' \in Accounted /\ ticket' \in BOOLEAN /\ faults' \in 0..MaxFaults
        /\ ticket' => SomePaid
        /\ checkout' \notin {"KITCHEN_ELIGIBLE", "ORDER_CREATED"}
    BY <1>1, <1>2 DEF Inv, Typed, Accounted, Earned, LetIn, Review
  <1> QED BY <1>1, <1>2, <1>3, <1>4, <1>5, Walk, Unmoved

LEMMA Verifies ==
  ASSUME Inv, NEW h \in Handlers, MarkCheckoutPaymentVerified(h)
  PROVE  Inv'
  <1>1. proc[h].step = "verify" /\ UNCHANGED <<ticket, intent, event, faults>>
    BY DEF MarkCheckoutPaymentVerified
  <1>2. h \in Procs /\ "ownKitchen" \in Steps \ {"idle"} /\ Past(h)
    BY <1>1 DEF Procs, Steps, Past
  <1>3. \/ Goes(h, "ownKitchen") /\ checkout' \in Accounted \ {Review}
           /\ \/ checkout' = checkout
              \/ checkout = "PAYMENT_PENDING" /\ checkout' = "PAYMENT_VERIFIED"
        \/ (Goes(h, "fail") \/ Goes(h, "idle")) /\ checkout' = checkout
    <2>1. CASE checkout \in {"PAYMENT_VERIFIED", "KITCHEN_ELIGIBLE", "ORDER_CREATED"}
               /\ Goto(h, "ownKitchen") /\ UNCHANGED checkout
      <3>1. checkout' \in Accounted \ {Review}
        BY <2>1 DEF Accounted, Review
      <3>2. Goes(h, "ownKitchen")
        BY <1>2, <2>1, GotoGoes DEF Inv
      <3> QED BY <2>1, <3>1, <3>2
    <2>2. CASE checkout = "PAYMENT_PENDING" /\ checkout' = "PAYMENT_VERIFIED" /\ Goto(h, "ownKitchen")
      BY <1>2, <2>2, GotoGoes DEF Inv, Accounted, Review
    <2>3. CASE Fail(h) /\ UNCHANGED checkout
      BY <1>2, <2>3, FailGoes DEF Inv
    <2> QED BY <2>1, <2>2, <2>3 DEF MarkCheckoutPaymentVerified
  <1>4. ticket' \in BOOLEAN /\ faults' \in 0..MaxFaults /\ (ticket' => SomePaid)
    BY <1>1 DEF Inv, Typed, Earned, LetIn
  <1>5. CASE /\ Goes(h, "ownKitchen") /\ checkout' \in Accounted \ {Review}
             /\ checkout' = checkout \/ (checkout = "PAYMENT_PENDING" /\ checkout' = "PAYMENT_VERIFIED")
    <2>1. checkout = Review => checkout' = Review
      BY <1>5 DEF Review
    <2>2. checkout' \in {"KITCHEN_ELIGIBLE", "ORDER_CREATED"} => SomePaid
      BY <1>5 DEF Inv, Earned, LetIn
    <2> QED BY <1>1, <1>2, <1>4, <1>5, <2>1, <2>2, Walk, Unmoved
  <1>6. CASE (Goes(h, "fail") \/ Goes(h, "idle")) /\ checkout' = checkout
    <2>1. {"fail", "idle"} \cap Checked = {}
      BY DEF Checked
    <2> QED BY <1>1, <1>2, <1>4, <1>6, <2>1, QuietWalk, Unmoved
  <1> QED BY <1>3, <1>5, <1>6

----------------------------------------------------------------------------
(* The kitchen's door.                                                     *)

LEMMA ReadsLatest ==
  ASSUME Inv, NEW p \in Procs, ReadLatestIntent(p)
  PROVE  Inv'
  <1>1. proc[p].step = "kitchen" /\ UNCHANGED <<checkout, ticket, intent, event, faults>>
    BY DEF ReadLatestIntent
  <1>2. CASE Goto(p, "downstream")
    <2>1. "downstream" \in Steps \ {"idle"}
      BY DEF Steps
    <2> QED BY <1>1, <1>2, <2>1, GotoGoes, QuietWalk, Unmoved DEF Inv, Typed, Checked, Past
  <1>3. CASE proc' = [proc EXCEPT ![p].step = "eligible", ![p].latest =
                        IF Existing = {} THEN "ABSENT" ELSE intent[Cardinality(Existing)].status]
    <2> DEFINE l == IF Existing = {} THEN "ABSENT" ELSE intent[Cardinality(Existing)].status
    <2>1. l \in IntentStatuses \cup {"ABSENT"}
      BY IntentsAreFinite DEF Inv, Typed, IntentRow
    <2>2. proc' = [proc EXCEPT ![p].step = "eligible", ![p].latest = l]
      BY <1>3
    <2> HIDE DEF l
    <2>3. Goes(p, "eligible")
      <3> DEFINE row == [proc[p] EXCEPT !.step = "eligible", !.latest = l]
      <3>1. proc[p] \in ProcRow
        BY DEF Inv, Typed
      <3>2. row \in ProcRow /\ row.step = "eligible" /\ row.event = proc[p].event
            /\ row.seen = proc[p].seen
        BY <2>1, <3>1 DEF ProcRow, Steps
      <3>3. proc' = [proc EXCEPT ![p] = row]
        BY <2>2, <3>1 DEF ProcRow, Inv, Typed
      <3> HIDE DEF row
      <3> QED BY <3>2, <3>3 DEF Goes, Inv, Typed
    <2>4. faults' \in 0..MaxFaults /\ proc[p].step \in Checked /\ Past(p)
      BY <1>1 DEF Inv, Typed, Checked, Past
    <2> QED BY <1>1, <2>3, <2>4, QuietWalk, Unmoved
  <1> QED BY <1>2, <1>3 DEF ReadLatestIntent

LEMMA Evaluates ==
  ASSUME Inv, NEW p \in Procs, EvaluateKitchen(p)
  PROVE  Inv'
  <1>1. proc[p].step = "eligible" /\ UNCHANGED <<checkout, ticket, intent, event, faults>>
    BY DEF EvaluateKitchen
  <1>2. /\ checkout' \in PayableCheckout \cup Accounted /\ ticket' \in BOOLEAN
        /\ faults' \in 0..MaxFaults /\ Past(p) /\ proc[p].step \in Checked
    BY <1>1 DEF Inv, Typed, Past, Checked
  <1>3. CASE KitchenEligible(proc[p].latest) /\ Goto(p, "mark")
    <2>1. "mark" \in Steps \ {"idle"}
      BY DEF Steps
    <2>2. SomePaid
      <3>1. Succeeded # {}
        BY <1>3, FS_EmptySet DEF KitchenEligible
      <3> QED BY <3>1 DEF Succeeded, Inv, Backed, Mover, SomePaid
    <2>3. Goes(p, "mark")
      BY <1>3, <2>1, GotoGoes DEF Inv
    <2>4. p \in Handlers /\ proc[p].seen = "SUCCEEDED" => checkout' \in Accounted
      BY <1>1, <1>2 DEF Inv, Booked
    <2> QED BY <1>1, <1>2, <2>2, <2>3, <2>4, Walk, Unmoved
  <1>4. CASE Fail(p)
    <2>1. {"fail", "idle"} \cap Checked = {}
      BY DEF Checked
    <2> QED BY <1>1, <1>2, <1>4, <2>1, FailGoes, QuietWalk, Unmoved DEF Inv
  <1> QED BY <1>3, <1>4 DEF EvaluateKitchen

LEMMA LetsIn ==
  ASSUME Inv, NEW p \in Procs, MarkKitchenEligible(p)
  PROVE  Inv'
  <1> DEFINE s == IF p \in Handlers THEN "downstream" ELSE "ticket"
  <1>1. proc[p].step = "mark" /\ UNCHANGED <<ticket, intent, event, faults>>
    BY DEF MarkKitchenEligible
  <1>2. ticket' \in BOOLEAN /\ faults' \in 0..MaxFaults /\ Past(p) /\ proc[p].step \in Checked
    BY <1>1 DEF Inv, Typed, Past, Checked
  <1>3. SomePaid
    BY <1>1 DEF Inv, Earned, LetIn
  <1>4. \/ Goto(p, s) /\ checkout' \in {"KITCHEN_ELIGIBLE", "ORDER_CREATED"} /\ checkout # Review
        \/ Fail(p) /\ checkout' = checkout
    BY DEF MarkKitchenEligible, BeforeKitchen, Review
  <1>5. s \in Steps \ {"idle"} /\ s \in {"downstream", "ticket"}
    BY DEF Steps
  <1> HIDE DEF s
  <1>6. CASE Goto(p, s) /\ checkout' \in {"KITCHEN_ELIGIBLE", "ORDER_CREATED"} /\ checkout # Review
    <2>1. Goes(p, s)
      BY <1>5, <1>6, GotoGoes DEF Inv
    <2>2. checkout' \in Accounted /\ s # "applied"
      BY <1>5, <1>6 DEF Accounted
    <2> QED BY <1>1, <1>2, <1>3, <1>6, <2>1, <2>2, Walk, Unmoved
  <1>7. CASE Fail(p) /\ checkout' = checkout
    <2>1. {"fail", "idle"} \cap Checked = {}
      BY DEF Checked
    <2> QED BY <1>1, <1>2, <1>7, <2>1, FailGoes, QuietWalk, Unmoved DEF Inv
  <1> QED BY <1>4, <1>6, <1>7

LEMMA Making ==
  ASSUME Inv, NEW m \in Makers, CreateOrderTicket(m) \/ CreateFromCanonicalCheckout(m)
  PROVE  Inv'
  <1>1. m \in Procs /\ m \notin Handlers
    BY WebhookAssumption DEF Procs
  <1>2. CASE CreateOrderTicket(m)
    <2>1. "kitchen" \in Steps \ {"idle"}
      BY DEF Steps
    <2>2. Goes(m, "kitchen") /\ UNCHANGED <<checkout, ticket, intent, event, faults>>
      BY <1>1, <1>2, <2>1, GotoGoes DEF CreateOrderTicket, Inv
    <2>3. faults' \in 0..MaxFaults
      BY <2>2 DEF Inv, Typed
    <2> QED BY <1>1, <2>2, <2>3, QuietWalk, Unmoved
  <1>3. CASE CreateFromCanonicalCheckout(m)
    <2>1. proc[m].step = "ticket" /\ Goes(m, "idle") /\ UNCHANGED <<intent, event, faults>>
      BY <1>1, <1>3, EndGoes DEF CreateFromCanonicalCheckout, Inv
    <2>2. SomePaid
      BY <1>1, <2>1 DEF Inv, Earned, LetIn
    <2>3. \/ checkout = "KITCHEN_ELIGIBLE" /\ ticket' = TRUE /\ checkout' = "ORDER_CREATED"
          \/ UNCHANGED <<checkout, ticket>>
      BY <1>3 DEF CreateFromCanonicalCheckout
    <2>4. /\ checkout' \in PayableCheckout \cup Accounted /\ ticket' \in BOOLEAN
          /\ faults' \in 0..MaxFaults /\ (checkout \in Accounted => checkout' \in Accounted)
          /\ checkout = Review => checkout' = Review
      BY <2>1, <2>3 DEF Inv, Typed, Accounted, Review
    <2> QED BY <1>1, <2>1, <2>2, <2>4, Walk, Unmoved
  <1> QED BY <1>2, <1>3

LEMMA Faulty ==
  ASSUME Inv, NEW p \in Procs, Fault(p)
  PROVE  Inv'
  <1>1. /\ proc[p] # Idle /\ faults < MaxFaults /\ faults' = faults + 1
        /\ UNCHANGED <<checkout, ticket, intent, event>>
        /\ End(p) \/ (p \in Handlers /\ proc[p].step # "fail" /\ Goto(p, "fail"))
    BY DEF Fault, Fail
  <1>2. faults' \in 0..MaxFaults
    BY <1>1, WebhookAssumption DEF Inv, Typed
  <1>3. {"fail", "idle"} \cap Checked = {} /\ "fail" \in Steps \ {"idle"}
    BY DEF Checked, Steps
  <1>4. CASE End(p)
    BY <1>1, <1>2, <1>3, <1>4, EndGoes, QuietWalk, Unmoved DEF Inv
  <1>5. CASE p \in Handlers /\ proc[p].step # "idle" /\ Goto(p, "fail")
    BY <1>1, <1>2, <1>3, <1>5, GotoGoes, QuietWalk, Unmoved DEF Inv
  <1>6. proc[p].step # "idle"
    BY <1>1 DEF Inv, Working
  <1> QED BY <1>1, <1>4, <1>5, <1>6

----------------------------------------------------------------------------
(* Attempts.                                                               *)

LEMMA Moving ==
  ASSUME Typed, NEW i \in Intents, NEW status \in IntentStatuses
  PROVE  /\ Move(i, status) \in [Intents -> IntentRow]
         /\ Move(i, status)[i].status = status /\ Move(i, status)[i].by = intent[i].by
         /\ \A j \in Intents : j # i => Move(i, status)[j] = intent[j]
  <1> DEFINE n == intent[i].version + 1
             row == [intent[i] EXCEPT !.status = status, !.version = n]
  <1>1. intent[i] \in IntentRow /\ intent[i].version \in Nat
    BY DEF Typed, IntentRow
  <1>2. n \in Nat
    BY <1>1
  <1> HIDE DEF n
  <1>3. row \in IntentRow /\ row.status = status /\ row.by = intent[i].by
    BY <1>1, <1>2 DEF IntentRow
  <1>4. Move(i, status) = [intent EXCEPT ![i] = row]
    BY <1>1 DEF Move, Typed, IntentRow, n
  <1> HIDE DEF row
  <1> QED BY <1>3, <1>4 DEF Typed

LEMMA Attempting ==
  ASSUME Inv, NEW i \in Intents, NEW status \in IntentStatuses \ {"SUCCEEDED", "ABSENT"},
         intent[i].status # "SUCCEEDED", intent' = Move(i, status),
         UNCHANGED <<ticket, event, proc, faults>>,
         \/ checkout' = checkout
         \/ checkout \notin Accounted /\ checkout' \in PayableCheckout
  PROVE  Inv'
  <1>1. /\ intent' \in [Intents -> IntentRow] /\ intent'[i].status = status
        /\ \A j \in Intents : intent'[j].by = intent[j].by
        /\ \A j \in Intents : j # i => intent'[j] = intent[j]
    BY Moving DEF Inv
  <1>2. Typed'
    BY <1>1 DEF Inv, Typed
  <1>3. Working' /\ Released'
    BY <1>1, WebhookAssumption DEF Inv, Working, Released
  <1>4. \A e \in Events, j \in Intents : Mover(e, j)' <=> Mover(e, j)
    BY <1>1 DEF Mover
  <1>5. Backed'
    BY <1>1, <1>4 DEF Inv, Backed
  <1>6. Earned'
    BY <1>1, WebhookAssumption DEF Inv, Earned, LetIn, SomePaid, PayableCheckout
  <1>7. Booked'
    BY DEF Inv, Booked, SuccessIsAccounted
  <1>8. Noticed'
    <2>1. Succeeded' = Succeeded
      BY <1>1 DEF Succeeded
    <2>2. \A e \in Events : Counted(e)' <=> Counted(e)
      BY DEF Counted, Owned, Past
    <2>3. \A j \in Intents : Pending(j)' <=> Pending(j)
      BY <1>4, <2>2 DEF Pending
    <2>4. checkout = Review => checkout' = Review
      BY DEF Accounted
    <2> QED BY <2>1, <2>3, <2>4 DEF Inv, Noticed, Succeeded
  <1> QED BY <1>2, <1>3, <1>5, <1>6, <1>7, <1>8 DEF Inv

LEMMA Attempts ==
  ASSUME Inv, NEW i \in Intents, NewAttempt(i) \/ Start(i) \/ GiveUp(i)
  PROVE  Inv'
  <1>1. CASE NewAttempt(i)
    <2>1. "LINK_READY" \in IntentStatuses \ {"SUCCEEDED", "ABSENT"}
      BY DEF IntentStatuses
    <2>2. checkout \notin Accounted /\ checkout' \in PayableCheckout
      BY <1>1 DEF NewAttempt, PayableCheckout, Accounted, Review
    <2> QED BY <1>1, <2>1, <2>2, Attempting DEF NewAttempt
  <1>2. CASE Start(i)
    <2>1. "PENDING" \in IntentStatuses \ {"SUCCEEDED", "ABSENT"}
      BY DEF IntentStatuses
    <2> QED BY <1>2, <2>1, Attempting DEF Start
  <1>3. CASE GiveUp(i)
    <2>1. "UNKNOWN_RESULT" \in IntentStatuses \ {"SUCCEEDED", "ABSENT"}
      BY DEF IntentStatuses
    <2> QED BY <1>3, <2>1, Attempting DEF GiveUp
  <1> QED BY <1>1, <1>2, <1>3

----------------------------------------------------------------------------
(* Claims.                                                                 *)

(* A handler stays where it is, ends, or begins with an event.             *)
Turns(h) ==
  /\ proc' \in [Procs -> ProcRow] /\ \A q \in Procs : q # h => proc'[q] = proc[q]
  /\ \/ proc'[h] = proc[h] \/ proc'[h] = Idle
     \/ proc'[h].step = "load" /\ proc'[h].event \in Events

LEMMA Holding ==
  ASSUME Inv, NEW h, Turns(h), NEW e \in Events, event' \in [Events -> EventRow],
         \A x \in Events : x # e => event'[x] = event[x],
         UNCHANGED <<checkout, ticket, intent, faults>>,
         event'[e].done => event'[e].lease = None,
         event'[e].result = "SUCCEEDED" => checkout \in Accounted,
         event'[e].status # "ABSENT" => intent[About[e]].status # "ABSENT",
         Counted(e)' => Counted(e)
  PROVE  Inv'
  <1>1. Typed'
    BY DEF Inv, Typed, Turns
  <1>2. Idle.step = "idle" /\ Handlers \subseteq Procs
    BY IdleIsRow DEF Procs
  <1>3. Working'
    BY <1>2 DEF Inv, Working, Turns
  <1>4. Released' /\ Backed'
    BY DEF Inv, Released, Backed, Mover
  <1>5. Earned'
    BY <1>2 DEF Inv, Earned, LetIn, SomePaid, Turns
  <1>6. Booked'
    BY <1>2 DEF Inv, Booked, SuccessIsAccounted, Turns, Checked
  <1>7. Noticed'
    <2>1. ASSUME NEW q \in Handlers, Past(q)' PROVE proc'[q] = proc[q]
      BY <1>2, <2>1 DEF Past, Checked, Turns
    <2>2. ASSUME NEW x \in Events, x # e, Counted(x)' PROVE Counted(x)
      <3>1. event'[x] = event[x]
        BY <2>2
      <3>2. CASE event[x].done /\ event[x].status # "FAILED"
        BY <3>2 DEF Counted
      <3>3. CASE \E q \in Handlers : proc'[q].event = x /\ Owned(q)' /\ Past(q)'
        <4>1. PICK q \in Handlers : proc'[q].event = x /\ Owned(q)' /\ Past(q)'
          BY <3>3
        <4>2. proc'[q] = proc[q]
          BY <2>1, <4>1
        <4> QED BY <3>1, <4>1, <4>2 DEF Counted, Owned, Past
      <3> QED BY <2>2, <3>1, <3>2, <3>3 DEF Counted
    <2>3. \A i \in Intents : Pending(i) => Pending(i)'
      BY <2>2 DEF Pending, Mover
    <2> QED BY <2>3 DEF Inv, Noticed, Succeeded
  <1> QED BY <1>1, <1>3, <1>4, <1>5, <1>6, <1>7 DEF Inv

LEMMA Exhausts ==
  ASSUME Inv, NEW e \in Events, Exhaust(e), intent[About[e]].status # "ABSENT",
         UNCHANGED <<checkout, ticket, intent, proc, faults>>
  PROVE  Inv'
  <1>1. /\ event' \in [Events -> EventRow] /\ \A x \in Events : x # e => event'[x] = event[x]
        /\ event'[e].status = "FAILED" /\ event'[e].lease = None
        /\ event'[e].result = event[e].result
    BY DEF Inv, Typed, Exhaust, EventRow
  <1>2. Turns(e)
    BY DEF Turns, Inv, Typed
  <1>3. ~Counted(e)'
    BY <1>1 DEF Counted, Owned, None
  <1>4. /\ event'[e].result = "SUCCEEDED" => checkout \in Accounted
        /\ intent[About[e]].status # "ABSENT"
    BY <1>1 DEF Inv, Booked, SuccessIsAccounted, Working
  <1> QED BY <1>1, <1>2, <1>3, <1>4, Holding

LEMMA TakesOver ==
  ASSUME Inv, NEW e \in Events, NEW h \in Handlers, NEW lease \in {"live", "lapsed"},
         TakeOver(h, e, lease), AttemptsLeft(e), ~event[e].done, intent[About[e]].status # "ABSENT",
         UNCHANGED <<checkout, ticket, intent, faults>>
  PROVE  Inv'
  <1> DEFINE n == event[e].attempts + 1
             status == IF event[e].status \in Active THEN event[e].status ELSE "PROCESSING"
             row == [event[e] EXCEPT !.attempts = n, !.owner = h, !.lease = lease, !.status = status]
             turn == [Idle EXCEPT !.step = "load", !.event = e]
  <1>1. event[e] \in EventRow /\ event[e].attempts \in 0..MaxAttempts /\ h \in Procs
    BY DEF Inv, Typed, EventRow, Procs
  <1>2. n \in 0..MaxAttempts
    BY <1>1, WebhookAssumption DEF AttemptsLeft
  <1>3. status \in Active
    BY DEF Active
  <1>4. event' = [event EXCEPT ![e] = row] /\ proc' = [proc EXCEPT ![h] = turn]
    BY <1>1 DEF TakeOver, EventRow
  <1> HIDE DEF n, status
  <1>5. /\ row \in EventRow /\ row.done = event[e].done /\ row.result = event[e].result
        /\ row.owner = h
    BY <1>1, <1>2, <1>3 DEF EventRow
  <1>6. turn \in ProcRow /\ turn.step = "load" /\ turn.event = e
    BY DEF Idle, ProcRow, Steps
  <1> HIDE DEF row, turn
  <1>7. Turns(h)
    BY <1>1, <1>4, <1>6 DEF Turns, Inv, Typed
  <1>8. /\ event' \in [Events -> EventRow] /\ \A x \in Events : x # e => event'[x] = event[x]
        /\ event'[e] = row /\ proc'[h] = turn
    BY <1>1, <1>4, <1>5, <1>6 DEF Inv, Typed
  <1>9. ~Counted(e)'
    <2>1. ~Past(h)'
      BY <1>6, <1>8 DEF Past, Checked
    <2>2. ASSUME NEW q \in Handlers, proc'[q].event = e, Owned(q)' PROVE q = h
      BY <1>5, <1>8, <2>2 DEF Owned
    <2> QED BY <1>5, <1>8, <2>1, <2>2 DEF Counted
  <1>10. event'[e].result = "SUCCEEDED" => checkout \in Accounted
    BY <1>5, <1>8 DEF Inv, Booked, SuccessIsAccounted
  <1> QED BY <1>5, <1>7, <1>8, <1>9, <1>10, Holding

LEMMA Claims ==
  ASSUME Inv, NEW e \in Events, NEW h \in Handlers,
         ClaimWebhookEvidence(h, e) \/ ClaimRecoverableWebhook(h, e)
  PROVE  Inv'
  <1>1. /\ UNCHANGED <<checkout, ticket, intent, faults>> /\ ~event[e].done
        /\ intent[About[e]].status # "ABSENT"
    BY DEF ClaimWebhookEvidence, ClaimRecoverableWebhook, Claimable, Inv, Working
  <1>2. \/ AttemptsLeft(e) /\ \E lease \in {"live", "lapsed"} : TakeOver(h, e, lease)
        \/ Exhaust(e) /\ UNCHANGED proc
    BY DEF ClaimWebhookEvidence, ClaimRecoverableWebhook
  <1> QED BY <1>1, <1>2, TakesOver, Exhausts

LEMMA Lapses ==
  ASSUME Inv, NEW e \in Events, Lapse(e)
  PROVE  Inv'
  <1>1. /\ event' \in [Events -> EventRow] /\ \A x \in Events : x # e => event'[x] = event[x]
        /\ event'[e].done = event[e].done /\ event'[e].lease = "lapsed"
        /\ event'[e].status = event[e].status /\ event'[e].result = event[e].result
        /\ event[e].lease = "live" /\ UNCHANGED <<checkout, ticket, intent, proc, faults>>
    BY DEF Inv, Typed, Lapse, EventRow
  <1>2. Turns(e)
    BY <1>1 DEF Turns, Inv, Typed
  <1>3. Counted(e)' => Counted(e)
    BY <1>1 DEF Counted, Owned
  <1>4. ~event[e].done
    BY <1>1 DEF Inv, Released, None
  <1>5. /\ event'[e].result = "SUCCEEDED" => checkout \in Accounted
        /\ event'[e].status # "ABSENT" => intent[About[e]].status # "ABSENT"
    BY <1>1 DEF Inv, Booked, SuccessIsAccounted, Working
  <1> QED BY <1>1, <1>2, <1>3, <1>4, <1>5, Holding

LEMMA Completes ==
  ASSUME Inv, NEW h \in Handlers, CompleteWebhookClaim(h)
  PROVE  Inv'
  <1> DEFINE e == proc[h].event
  <1>1. proc[h].step = "complete" /\ UNCHANGED <<checkout, ticket, intent, faults>>
    BY DEF CompleteWebhookClaim
  <1>2. h \in Procs /\ e \in Events /\ proc[h] \in ProcRow
    BY <1>1, Busy
  <1>3. CASE /\ Owned(h) /\ End(h)
             /\ event' = [event EXCEPT ![e] = [@ EXCEPT !.status = "PROCESSED", !.done = TRUE,
                            !.owner = Nobody, !.lease = None, !.result = proc[h].seen]]
    <2>1. PICK x \in Events : x = e
      BY <1>2
    <2> DEFINE seen == proc[h].seen
    <2>2. seen \in IntentStatuses \cup {None} /\ event[x] \in EventRow
      BY <1>2, <2>1 DEF ProcRow, Inv, Typed
    <2>3. event' = [event EXCEPT ![x] = [event[x] EXCEPT !.status = "PROCESSED", !.done = TRUE,
                      !.owner = Nobody, !.lease = None, !.result = seen]]
      BY <1>3, <2>1
    <2> HIDE DEF seen
    <2>4. /\ event' \in [Events -> EventRow] /\ \A y \in Events : y # x => event'[y] = event[y]
          /\ event'[x].lease = None /\ event'[x].result = seen
      BY <2>2, <2>3 DEF Inv, Typed, EventRow
    <2>5. Turns(h)
      BY <1>2, <1>3, IdleIsRow DEF End, Turns, Inv, Typed
    <2>6. Counted(x)
      BY <1>1, <1>3, <2>1 DEF Counted, Past, Checked
    <2>7. event'[x].result = "SUCCEEDED" => checkout \in Accounted
      BY <1>1, <2>4 DEF Inv, Booked, Checked, seen
    <2>8. intent[About[x]].status # "ABSENT"
      BY <1>3, <2>1 DEF Owned, Active, Inv, Working
    <2> QED BY <1>1, <2>4, <2>5, <2>6, <2>7, <2>8, Holding
  <1>4. CASE Fail(h) /\ UNCHANGED event
    <2>1. {"fail", "idle"} \cap Checked = {} /\ faults' \in 0..MaxFaults
      BY <1>1 DEF Checked, Inv, Typed
    <2> QED BY <1>1, <1>2, <1>4, <2>1, FailGoes, QuietWalk, Unmoved DEF Inv
  <1> QED BY <1>3, <1>4 DEF CompleteWebhookClaim

LEMMA GivesClaimBack ==
  ASSUME Inv, NEW h \in Handlers, FailWebhookClaim(h)
  PROVE  Inv'
  <1> DEFINE e == proc[h].event
  <1>1. proc[h].step = "fail" /\ End(h) /\ UNCHANGED <<checkout, ticket, intent, faults>>
    BY DEF FailWebhookClaim
  <1>2. h \in Procs /\ e \in Events
    BY <1>1, Busy
  <1>3. CASE Owned(h)
    <2>1. PICK x \in Events : x = e
      BY <1>2
    <2> DEFINE done == event[x].attempts >= MaxAttempts
    <2>2. done \in BOOLEAN /\ event[x] \in EventRow
      BY DEF Inv, Typed
    <2>3. event' = [event EXCEPT ![x] = [event[x] EXCEPT !.status = "FAILED", !.owner = Nobody,
                      !.lease = None, !.done = done]]
      BY <1>3, <2>1 DEF FailWebhookClaim, GivesBack
    <2> HIDE DEF done
    <2>4. /\ event' \in [Events -> EventRow] /\ \A y \in Events : y # x => event'[y] = event[y]
          /\ event'[x].lease = None /\ event'[x].result = event[x].result
          /\ event'[x].status = "FAILED"
      BY <2>2, <2>3 DEF Inv, Typed, EventRow
    <2>5. Turns(h)
      BY <1>1, <1>2, IdleIsRow DEF End, Turns, Inv, Typed
    <2>6. ~Counted(x)'
      BY <2>4 DEF Counted, Owned, None
    <2>7. event'[x].result = "SUCCEEDED" => checkout \in Accounted
      BY <2>4 DEF Inv, Booked, SuccessIsAccounted
    <2>8. intent[About[x]].status # "ABSENT"
      BY <1>3, <2>1 DEF Owned, Active, Inv, Working
    <2> QED BY <1>1, <2>4, <2>5, <2>6, <2>7, <2>8, Holding
  <1>4. CASE ~Owned(h)
    <2>1. "idle" \notin Checked /\ faults' \in 0..MaxFaults /\ UNCHANGED event
      BY <1>1, <1>4 DEF Checked, Inv, Typed, FailWebhookClaim, GivesBack
    <2> QED BY <1>1, <1>2, <2>1, EndGoes, QuietWalk, Unmoved DEF Inv
  <1> QED BY <1>3, <1>4

----------------------------------------------------------------------------
(* The transition.                                                         *)

LEMMA ResultGoes ==
  ASSUME Typed, NEW h \in Procs, NEW status \in IntentStatuses, Result(h, status)
  PROVE  /\ proc' \in [Procs -> ProcRow] /\ \A q \in Procs : q # h => proc'[q] = proc[q]
         /\ proc'[h].step = "applied" /\ proc'[h].event = proc[h].event /\ proc'[h].seen = status
  <1> DEFINE row == [proc[h] EXCEPT !.step = "applied", !.seen = status, !.version = 0]
  <1>1. proc[h] \in ProcRow
    BY DEF Typed
  <1>2. /\ row \in ProcRow /\ row.step = "applied" /\ row.event = proc[h].event
        /\ row.seen = status
    BY <1>1 DEF ProcRow, Steps
  <1>3. proc' = [proc EXCEPT ![h] = row]
    BY DEF Result
  <1> HIDE DEF row
  <1> QED BY <1>2, <1>3 DEF Typed

(* A handler that has applied its event has seen what became of it.        *)
LEMMA Transited ==
  ASSUME Inv, NEW h \in Handlers, NEW e \in Events, e = proc[h].event, proc[h].step # "idle",
         NEW status \in IntentStatuses, Result(h, status),
         intent' \in [Intents -> IntentRow], \A i \in Intents : intent[i].by \subseteq intent'[i].by,
         \A i \in Intents : i # About[e] => intent'[i] = intent[i],
         intent[About[e]].status # "ABSENT" => intent'[About[e]].status # "ABSENT",
         \/ UNCHANGED intent
         \/ /\ Owned(h) /\ intent'[About[e]].status = status /\ e \in intent'[About[e]].by
            /\ intent'[About[e]].by = intent[About[e]].by \cup {e}
            /\ status = "SUCCEEDED" => Kind[e] = "APPROVED",
         Kind[e] = "APPROVED" /\ e \in intent'[About[e]].by
           /\ intent'[About[e]].status = "SUCCEEDED" => status = "SUCCEEDED",
         UNCHANGED <<checkout, ticket, event, faults>>
  PROVE  Inv'
  <1> DEFINE i == About[e]
  <1>1. h \in Procs /\ i \in Intents
    BY WebhookAssumption DEF Procs
  <1>2. /\ proc' \in [Procs -> ProcRow] /\ \A q \in Procs : q # h => proc'[q] = proc[q]
        /\ proc'[h].step = "applied" /\ proc'[h].event = e /\ proc'[h].seen = status
    BY <1>1, ResultGoes DEF Inv
  <1>3. Typed'
    BY <1>2 DEF Inv, Typed
  <1>4. Working' /\ Released'
    BY <1>2, WebhookAssumption DEF Inv, Working, Released, Procs
  <1>5. \A x \in Events, j \in Intents : Mover(x, j) => Mover(x, j)'
    BY DEF Mover
  <1>6. Backed'
    BY <1>1, <1>5 DEF Inv, Backed, Mover
  <1>7. Earned'
    <2>1. SomePaid => SomePaid'
      BY WebhookAssumption DEF SomePaid
    <2> QED BY <1>2, <2>1 DEF Inv, Earned, LetIn
  <1>8. Booked'
    BY <1>2 DEF Inv, Booked, SuccessIsAccounted, Checked, Procs
  <1>9. Noticed'
    <2>1. ASSUME NEW q \in Handlers, q # h PROVE proc'[q] = proc[q]
      BY <1>2, <2>1 DEF Procs
    <2>2. Past(h)' => status # "SUCCEEDED"
      BY <1>2 DEF Past, Checked
    <2>3. ASSUME NEW x \in Events, NEW j \in Intents, Mover(x, j)', j \in Succeeded', ~Counted(x)
          PROVE  ~Counted(x)'
      <3>1. ~(event'[x].done /\ event'[x].status # "FAILED")
        BY <2>3 DEF Counted
      <3>2. ASSUME NEW q \in Handlers, proc'[q].event = x, Owned(q)', Past(q)' PROVE FALSE
        <4>1. CASE q = h
          <5>1. x = e /\ j = i
            BY <1>2, <2>3, <3>2, <4>1 DEF Mover
          <5>2. Kind[e] = "APPROVED" /\ e \in intent'[i].by /\ intent'[i].status = "SUCCEEDED"
            BY <2>3, <5>1 DEF Mover, Succeeded
          <5>3. status = "SUCCEEDED"
            BY <5>2
          <5> QED BY <2>2, <3>2, <4>1, <5>3
        <4>2. CASE q # h
          BY <2>1, <2>3, <3>2, <4>2 DEF Counted, Owned, Past
        <4> QED BY <4>1, <4>2
      <3> QED BY <3>1, <3>2 DEF Counted
    <2>4. ASSUME NEW j \in Succeeded', Pending(j) PROVE Pending(j)'
      <3>1. PICK x \in Events : Mover(x, j) /\ ~Counted(x)
        BY <2>4 DEF Pending
      <3>2. j \in Intents
        BY DEF Succeeded
      <3> QED BY <1>5, <2>3, <3>1, <3>2 DEF Pending
    <2>5. ASSUME i \in Succeeded', i \notin Succeeded PROVE Pending(i)'
      <3>1. Owned(h) /\ status = "SUCCEEDED" /\ Mover(e, i)'
        BY <1>1, <2>5 DEF Succeeded, Mover
      <3>2. ~event[e].done
        BY <3>1 DEF Owned, Inv, Released, None
      <3>3. ASSUME NEW q \in Handlers, proc'[q].event = e, Owned(q)', Past(q)' PROVE FALSE
        <4>1. event'[e].owner = q /\ event[e].owner = h
          BY <3>1, <3>3 DEF Owned
        <4> QED BY <2>2, <3>1, <3>3, <4>1
      <3>4. ~Counted(e)'
        BY <3>2, <3>3 DEF Counted
      <3> QED BY <3>1, <3>4 DEF Pending
    <2>6. \A j \in Succeeded' : j \in Succeeded \/ j = i
      BY DEF Succeeded
    <2>7. CASE checkout = Review
      BY <2>7 DEF Noticed
    <2>8. CASE \A j, k \in Succeeded : j = k \/ Pending(j) \/ Pending(k)
      <3> SUFFICES ASSUME NEW j \in Succeeded', NEW k \in Succeeded', j # k
                   PROVE  Pending(j)' \/ Pending(k)'
        BY DEF Noticed
      <3>1. CASE j \in Succeeded /\ k \in Succeeded
        BY <2>4, <2>8, <3>1
      <3>2. CASE j \notin Succeeded \/ k \notin Succeeded
        BY <2>5, <2>6, <3>2
      <3> QED BY <3>1, <3>2
    <2> QED BY <2>7, <2>8 DEF Inv, Noticed
  <1> QED BY <1>3, <1>4, <1>6, <1>7, <1>8, <1>9 DEF Inv

LEMMA Decisions ==
  ASSUME NEW e \in Events, NEW seen
  PROVE  /\ Decide(e, seen) \in IntentStatuses
         /\ Decide(e, seen) = "SUCCEEDED" <=> Kind[e] = "APPROVED"
  <1>1. Kind[e] \in {"APPROVED", "FAILED", "REVIEW", "PENDING"}
    BY WebhookAssumption
  <1> QED BY <1>1 DEF Decide, IntentStatuses, Review

LEMMA Transits ==
  ASSUME Inv, NEW h \in Handlers, TransitionPayment(h)
  PROVE  Inv'
  <1>1. proc[h].step = "transition" /\ UNCHANGED <<checkout, ticket, event, faults>>
    BY DEF TransitionPayment
  <1>2. h \in Procs /\ proc[h].event \in Events /\ proc[h] \in ProcRow
    BY <1>1, Busy
  <1>3. PICK e \in Events : e = proc[h].event
    BY <1>2
  <1>4. PICK to \in IntentStatuses : /\ to = Decide(e, proc[h].seen)
                                     /\ to = "SUCCEEDED" <=> Kind[e] = "APPROVED"
    BY Decisions
  <1>5. PICK i \in Intents : i = About[e]
    BY WebhookAssumption
  <1>6. intent \in [Intents -> IntentRow] /\ intent[i] \in IntentRow
    BY DEF Inv, Typed
  <1>7. CASE Result(h, to) /\ UNCHANGED intent
    BY <1>1, <1>3, <1>4, <1>5, <1>6, <1>7, Transited
  <1>8. CASE Owned(h) /\ Result(h, intent[i].status) /\ UNCHANGED intent
    <2>1. intent[i].status # "ABSENT"
      BY <1>3, <1>5, <1>8 DEF Owned, Active, Inv, Working
    <2>2. intent[i].status \in IntentStatuses
      BY <1>6, <2>1 DEF IntentRow
    <2> QED BY <1>1, <1>3, <1>5, <1>6, <1>8, <2>2, Transited
  <1>9. CASE /\ Owned(h) /\ Result(h, to)
             /\ intent' = [Move(i, to) EXCEPT ![i].by = @ \cup {e}]
    <2> DEFINE moved == Move(i, to)
    <2>1. /\ moved \in [Intents -> IntentRow] /\ moved[i].status = to /\ moved[i].by = intent[i].by
          /\ \A j \in Intents : j # i => moved[j] = intent[j]
      BY Moving DEF Inv
    <2>2. intent' = [moved EXCEPT ![i].by = @ \cup {e}]
      BY <1>9
    <2> HIDE DEF moved
    <2>3. /\ intent' \in [Intents -> IntentRow] /\ intent'[i].status = to
          /\ intent'[i].by = intent[i].by \cup {e}
          /\ \A j \in Intents : j # i => intent'[j] = intent[j]
      BY <2>1, <2>2 DEF IntentRow
    <2>4. \A j \in Intents : intent[j].by \subseteq intent'[j].by
      BY <2>3
    <2>5. to # "ABSENT"
      BY <1>4 DEF IntentStatuses
    <2>6. /\ intent'[About[e]].status = to /\ e \in intent'[About[e]].by
          /\ intent'[About[e]].by = intent[About[e]].by \cup {e}
          /\ \A j \in Intents : j # About[e] => intent'[j] = intent[j]
      BY <1>5, <2>3
    <2>7. proc[h].step # "idle" /\ Owned(h) /\ Result(h, to)
      BY <1>1, <1>9
    <2> QED BY <1>1, <1>3, <1>4, <2>3, <2>4, <2>5, <2>6, <2>7, Transited
  <1>10. CASE Fail(h) /\ UNCHANGED intent
    <2>1. {"fail", "idle"} \cap Checked = {} /\ faults' \in 0..MaxFaults
      BY <1>1 DEF Checked, Inv, Typed
    <2> QED BY <1>1, <1>2, <1>10, <2>1, FailGoes, QuietWalk, Unmoved DEF Inv
  <1> QED BY <1>3, <1>4, <1>5, <1>7, <1>8, <1>9, <1>10 DEF TransitionPayment

----------------------------------------------------------------------------
LEMMA StepsKeep == Inv /\ [Next]_vars => Inv'
  <1> SUFFICES ASSUME Inv, [Next]_vars PROVE Inv'
    OBVIOUS
  <1>1. CASE UNCHANGED vars
    BY <1>1 DEF vars, Inv, Typed, Working, Released, Backed, Mover, Earned, LetIn, SomePaid, Booked,
       SuccessIsAccounted, Noticed, Succeeded, Pending, Counted, Owned, Past
  <1>2. ASSUME NEW i \in Intents, NewAttempt(i) \/ Start(i) \/ GiveUp(i) PROVE Inv'
    BY <1>2, Attempts
  <1>3. ASSUME NEW e \in Events, NEW h \in Handlers,
               ClaimWebhookEvidence(h, e) \/ ClaimRecoverableWebhook(h, e)
        PROVE  Inv'
    BY <1>3, Claims
  <1>4. ASSUME NEW e \in Events, Lapse(e) PROVE Inv'
    BY <1>4, Lapses
  <1>5. ASSUME NEW h \in Handlers, HandlerStep(h) PROVE Inv'
    <2>1. h \in Procs
      BY DEF Procs
    <2>2. CASE \E a \in Asserts : AssertOwned(h, a[1], a[2])
      BY <2>2, Asserted
    <2> QED BY <1>5, <2>1, <2>2, Loads, Validates, Transits, Applies, Counts, Reviews, Verifies,
               ReadsLatest, Evaluates, LetsIn, DownstreamApplies, Completes, GivesClaimBack
            DEF HandlerStep
  <1>6. ASSUME NEW m \in Makers, MakerStep(m) PROVE Inv'
    <2>1. m \in Procs
      BY DEF Procs
    <2> QED BY <1>6, <2>1, Making, ReadsLatest, Evaluates, LetsIn DEF MakerStep
  <1>7. ASSUME NEW p \in Procs, Fault(p) PROVE Inv'
    BY <1>7, Faulty
  <1> QED BY <1>1, <1>2, <1>3, <1>4, <1>5, <1>6, <1>7 DEF Next, Recover

(* Claims, checkpoints and the checkout agree, for any number of payments, *)
(* events, handlers and makers.                                            *)
THEOREM InductiveInvariant == Spec => []Inv
  BY Initially, StepsKeep, PTL DEF Spec

(* The rows are what they should be; in particular no event is attempted   *)
(* more than MaxAttempts times (claimWebhookEvidence).                     *)
THEOREM TypeCorrect == Spec => []TypeOK
  <1>1. Inv => TypeOK
    BY TypeRows DEF Inv
  <1> QED BY <1>1, InductiveInvariant, PTL

(* The kitchen is let in only for a checkout that somebody paid            *)
(* (KitchenEligibilityService, markKitchenEligible).                       *)
THEOREM KitchenServesOnlyThePaid == Spec => []KitchenOnlyPaid
  <1>1. Inv => KitchenOnlyPaid
    BY DEF Inv, Earned, LetIn, SomePaid, KitchenOnlyPaid
  <1> QED BY <1>1, InductiveInvariant, PTL

(* Two payments of a checkout do not go unnoticed (successfulPaymentCount  *)
(* and markFinancialReview).                                               *)
THEOREM DoublePaymentsAreNoticed == Spec => []DoublePaymentReviewed
  <1>1. Inv => DoublePaymentReviewed
    <2> SUFFICES ASSUME Inv, Cardinality(Succeeded) > 1, checkout # Review
                 PROVE  \E e \in Events : /\ About[e] \in Succeeded /\ e \in intent[About[e]].by
                                          /\ ~event[e].done \/ event[e].status = "FAILED"
      BY DEF DoublePaymentReviewed
    <2>1. \E i, j \in Succeeded : i # j
      <3> SUFFICES ASSUME \A i, j \in Succeeded : i = j PROVE FALSE
        OBVIOUS
      <3>1. CASE Succeeded = {}
        BY <3>1, FS_EmptySet
      <3>2. CASE Succeeded # {}
        <4>1. PICK i \in Succeeded : Succeeded = {i}
          BY <3>2
        <4>2. Cardinality({i}) = 1
          BY FS_Singleton
        <4> QED BY <4>1, <4>2
      <3> QED BY <3>1, <3>2
    <2>2. PICK i \in Succeeded : Pending(i)
      BY <2>1 DEF Inv, Noticed
    <2> QED BY <2>2 DEF Pending, Mover, Counted
  <1> QED BY <1>1, InductiveInvariant, PTL

(* An event answered with success is in the books (the checkpoints of      *)
(* processClaimedWebhook).                                                 *)
THEOREM SuccessesAreAccounted == Spec => []SuccessIsAccounted
  <1>1. Inv => SuccessIsAccounted
    BY DEF Inv, Booked
  <1> QED BY <1>1, InductiveInvariant, PTL

----------------------------------------------------------------------------
(* Whoever writes an event holds it, or finds it unsettled.                *)
LEMMA HeldIsOpen ==
  ASSUME Inv, NEW h \in Handlers, Owned(h), proc[h].event \in Events
  PROVE  ~event[proc[h].event].done
  BY DEF Inv, Released, Owned, None

LEMMA Settled ==
  ASSUME Inv, Next, NEW e \in Events, event[e].done
  PROVE  event'[e] = event[e]
  <1>1. event \in [Events -> EventRow]
    BY DEF Inv, Typed
  <1>2. CASE UNCHANGED event
    BY <1>2
  <1>3. ASSUME NEW x \in Events, NEW h \in Handlers,
               ClaimWebhookEvidence(h, x) \/ ClaimRecoverableWebhook(h, x)
        PROVE  event'[e] = event[e]
    <2>1. ~event[x].done /\ (Exhaust(x) \/ \E lease \in {"live", "lapsed"} : TakeOver(h, x, lease))
      BY <1>3 DEF ClaimWebhookEvidence, ClaimRecoverableWebhook, Claimable
    <2> QED BY <1>1, <2>1 DEF Exhaust, TakeOver
  <1>4. ASSUME NEW x \in Events, Lapse(x) PROVE event'[e] = event[e]
    BY <1>1, <1>4 DEF Lapse, Inv, Released, None
  <1>5. ASSUME NEW h \in Handlers, NEW cp, NEW s, proc[h].step # "idle", AdvanceCheckpoint(h, cp, s)
        PROVE  event'[e] = event[e]
    <2>1. proc[h].event \in Events
      BY <1>5, Busy
    <2> QED BY <1>1, <1>5, <2>1, HeldIsOpen DEF AdvanceCheckpoint
  <1>6. ASSUME NEW h \in Handlers, CompleteWebhookClaim(h) \/ FailWebhookClaim(h)
        PROVE  event'[e] = event[e]
    <2>1. proc[h].event \in Events
      BY <1>6, Busy DEF CompleteWebhookClaim, FailWebhookClaim
    <2>2. CASE CompleteWebhookClaim(h)
      BY <1>1, <2>1, <2>2, HeldIsOpen DEF CompleteWebhookClaim
    <2>3. CASE FailWebhookClaim(h)
      BY <1>1, <2>1, <2>3, HeldIsOpen DEF FailWebhookClaim, GivesBack
    <2> QED BY <1>6, <2>2, <2>3
  <1>7. ASSUME NEW h \in Handlers, HandlerStep(h) PROVE event'[e] = event[e]
    <2>1. CASE Validate(h) \/ TransitionApplied(h) \/ DownstreamApplied(h)
      BY <1>5, <2>1 DEF Validate, TransitionApplied, DownstreamApplied
    <2>2. CASE CompleteWebhookClaim(h) \/ FailWebhookClaim(h)
      BY <1>6, <2>2
    <2>3. CASE \/ FindClaimedWebhookEvidence(h) \/ TransitionPayment(h)
               \/ \E a \in Asserts : AssertOwned(h, a[1], a[2])
               \/ SuccessfulPaymentCount(h) \/ MarkFinancialReview(h)
               \/ MarkCheckoutPaymentVerified(h) \/ ReadLatestIntent(h) \/ EvaluateKitchen(h)
               \/ MarkKitchenEligible(h)
      BY <2>3 DEF FindClaimedWebhookEvidence, TransitionPayment, AssertOwned, SuccessfulPaymentCount,
         MarkFinancialReview, MarkCheckoutPaymentVerified, ReadLatestIntent, EvaluateKitchen,
         MarkKitchenEligible
    <2> QED BY <1>7, <2>1, <2>2, <2>3 DEF HandlerStep
  <1>8. ASSUME NEW m \in Makers, MakerStep(m) PROVE event'[e] = event[e]
    BY <1>8 DEF MakerStep, CreateOrderTicket, ReadLatestIntent, EvaluateKitchen, MarkKitchenEligible,
       CreateFromCanonicalCheckout
  <1>9. ASSUME NEW i \in Intents, NewAttempt(i) \/ Start(i) \/ GiveUp(i) PROVE event'[e] = event[e]
    BY <1>9 DEF NewAttempt, Start, GiveUp
  <1>10. ASSUME NEW p \in Procs, Fault(p) PROVE event'[e] = event[e]
    BY <1>10 DEF Fault
  <1> QED BY <1>3, <1>4, <1>7, <1>8, <1>9, <1>10 DEF Next, Recover

(* A settled event is never written again, not even by a handler that lost *)
(* its claim and only now gets to its catch block (failWebhookClaim).      *)
THEOREM SettledEventsStay == Spec => SettledStays
  <1>1. Inv /\ [Next]_vars => [\A e \in Events : event[e].done => event'[e] = event[e]]_event
    BY Settled DEF vars
  <1> QED BY <1>1, InductiveInvariant, PTL DEF Spec, SettledStays

(* A checkout stays under review: what was decided before it is not        *)
(* written after it (markKitchenEligible and markCheckoutPaymentVerified   *)
(* look at the status they overwrite).                                     *)
THEOREM ReviewsAreFinal == Spec => ReviewIsFinal
  <1>1. Inv /\ [Next]_vars => [checkout = Review => checkout' = Review]_checkout
    <2> SUFFICES ASSUME Inv, Next, checkout = Review PROVE checkout' = Review
      BY DEF vars
    <2>1. ASSUME NEW i \in Intents, NewAttempt(i) \/ Start(i) \/ GiveUp(i) PROVE checkout' = checkout
      BY <2>1 DEF NewAttempt, Start, GiveUp, PayableCheckout, Review
    <2>2. ASSUME NEW e \in Events, NEW h \in Handlers,
                 ClaimWebhookEvidence(h, e) \/ ClaimRecoverableWebhook(h, e)
          PROVE  checkout' = checkout
      BY <2>2 DEF ClaimWebhookEvidence, ClaimRecoverableWebhook
    <2>3. ASSUME NEW p \in Procs, \/ ReadLatestIntent(p) \/ EvaluateKitchen(p)
                                  \/ MarkKitchenEligible(p) \/ Fault(p)
          PROVE  checkout' = checkout
      BY <2>3 DEF ReadLatestIntent, EvaluateKitchen, MarkKitchenEligible, BeforeKitchen, Fault, Review
    <2>4. ASSUME NEW h \in Handlers, HandlerStep(h) PROVE checkout' = checkout
      <3>1. CASE MarkFinancialReview(h) \/ MarkCheckoutPaymentVerified(h)
        BY <3>1 DEF MarkFinancialReview, Reviewable, ReviewableBeforeKitchen,
           MarkCheckoutPaymentVerified, Review
      <3>2. CASE \/ FindClaimedWebhookEvidence(h) \/ Validate(h) \/ TransitionPayment(h)
                 \/ TransitionApplied(h) \/ SuccessfulPaymentCount(h) \/ DownstreamApplied(h)
                 \/ CompleteWebhookClaim(h) \/ FailWebhookClaim(h)
                 \/ \E a \in Asserts : AssertOwned(h, a[1], a[2])
        BY <3>2 DEF FindClaimedWebhookEvidence, Validate, TransitionPayment, TransitionApplied,
           SuccessfulPaymentCount, DownstreamApplied, CompleteWebhookClaim, FailWebhookClaim,
           AssertOwned
      <3> QED BY <2>3, <2>4, <3>1, <3>2 DEF HandlerStep, Procs
    <2>5. ASSUME NEW m \in Makers, MakerStep(m) PROVE checkout' = checkout
      BY <2>3, <2>5 DEF MakerStep, CreateOrderTicket, CreateFromCanonicalCheckout, Procs, Review
    <2>6. ASSUME NEW e \in Events, Lapse(e) PROVE checkout' = checkout
      BY <2>6 DEF Lapse
    <2> QED BY <2>1, <2>2, <2>3, <2>4, <2>5, <2>6 DEF Next, Recover
  <1> QED BY <1>1, InductiveInvariant, PTL DEF Spec, ReviewIsFinal
=============================================================================
