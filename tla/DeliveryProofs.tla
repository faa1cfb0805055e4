----------------------------- MODULE DeliveryProofs -----------------------------
(***************************************************************************)
(* The way of a delivery (DeliveryWorkflow) and what follows each of its   *)
(* transitions (DeliveryConsequences), for any riders, requests, workers   *)
(* and number of transitions.                                              *)
(*                                                                         *)
(* A transition writes under the version its request has read: a request   *)
(* whose version is the one of the order knows the rider, and the events   *)
(* before that version are never touched again.                            *)
(*                                                                         *)
(* What follows is told once: who holds the lock of an event knows, from   *)
(* what it has read under it, whether the event was audited and alerted;   *)
(* nobody else can have written that since.                                *)
(*                                                                         *)
(* Both implement DeliveryLog, so that the list of events one of them      *)
(* writes is one that the other goes by.                                   *)
(***************************************************************************)
EXTENDS DeliveryWorkflow, DeliveryConsequences, TLAPS

----------------------------------------------------------------------------
(* The inductive invariant: TypeOK and what is known of the order, of a    *)
(* request that has read it, and of one that was told that it is done.     *)

OrderDiscipline ==
  /\ order.version = 0 => order.status = "PENDING_ASSIGNMENT"
  /\ order.status = "PENDING_ASSIGNMENT" => order.rider = None

(* Whoever names a rider wants the delivery assigned.                      *)
Named(w) == w.rider \in Riders /\ w.to = "ASSIGNED"

(* A rider either names himself, or had the delivery when he read it: he   *)
(* has it as long as the version is the one he read.                       *)
OwnOrNamed(w) ==
  w.rider = w.by \/ (w.rider = None /\ (w.seen = order.version => order.rider = w.by))

Disciplined(w) ==
  /\ w.seen <= order.version
  /\ w.step = "claim" => w.by \in Riders
  /\ w.step = "transition" => /\ w.to \in Status
                              /\ w.rider = None \/ Named(w)
                              /\ w.kind = "assign" => Named(w)
                              /\ w.by \in Riders => OwnOrNamed(w)

RequestDiscipline == \A c \in Clients : Disciplined(request[c])

Inductive == TypeOK /\ OrderDiscipline /\ RequestDiscipline /\ AssignedAsTold

----------------------------------------------------------------------------
LEMMA Constants ==
  /\ MaxVersion \in Nat /\ None \notin Riders /\ None # Operator
  /\ Operator \notin Riders /\ \A v : v \in Versions <=> v \in Nat /\ 1 <= v /\ v <= MaxVersion
  BY DeliveryAssumption DEF Versions

(* Only a delivery without a rider, or with an issue, can be assigned.     *)
LEMMA AssignedFrom ==
  ASSUME NEW s \in Status, "ASSIGNED" \in LegalTargets[s]
  PROVE  s \in {"PENDING_ASSIGNMENT", "ISSUE"}
  <1>1. CASE s = "ASSIGNED"
    BY <1>1 DEF LegalTargets
  <1>2. CASE s = "IN_TRANSIT"
    BY <1>2 DEF LegalTargets
  <1>3. CASE s = "DELIVERED"
    BY <1>3 DEF LegalTargets
  <1> QED BY <1>1, <1>2, <1>3 DEF Status

LEMMA InitInductive == Init => Inductive
  <1> SUFFICES ASSUME Init PROVE Inductive
    OBVIOUS
  <1>1. order \in OrderRow /\ NoEvent \in EventRow /\ Idle \in RequestRow
    BY Constants DEF Init, OrderRow, NoEvent, EventRow, Idle, RequestRow, Status, Kinds
  <1>2. LogIsWhole
    BY Constants DEF Init, LogIsWhole
  <1>3. TypeOK
    BY <1>1, <1>2 DEF Init, TypeOK
  <1>4. OrderDiscipline
    BY DEF Init, OrderDiscipline
  <1>5. RequestDiscipline /\ AssignedAsTold
    BY DEF Init, Idle, RequestDiscipline, Disciplined, AssignedAsTold
  <1> QED BY <1>3, <1>4, <1>5 DEF Inductive

----------------------------------------------------------------------------
(* A request that is written down while order and events stay.             *)

Fits(w) ==
  /\ w \in RequestRow /\ Disciplined(w)
  /\ w.step = "done" /\ w.kind = "assign" => event[w.seen].rider = w.rider

LEMMA OnlyTheRequest ==
  ASSUME Inductive, NEW c \in Clients, NEW w, Fits(w), Become(c, w), UNCHANGED <<order, event>>
  PROVE  Inductive'
  <1>1. request' = [request EXCEPT ![c] = w] /\ order' = order /\ event' = event
    BY DEF Become
  <1>2. request' \in [Clients -> RequestRow]
    BY <1>1 DEF Inductive, TypeOK, Fits
  <1>3. LogIsWhole'
    BY <1>1 DEF Inductive, TypeOK, LogIsWhole, Before
  <1>4. TypeOK'
    BY <1>1, <1>2, <1>3 DEF Inductive, TypeOK
  <1>5. OrderDiscipline'
    BY <1>1 DEF Inductive, OrderDiscipline
  <1>6. \A d \in Clients : request'[d] = IF d = c THEN w ELSE request[d]
    BY <1>1 DEF Inductive, TypeOK
  <1>7. RequestDiscipline'
    <2>1. ASSUME NEW x, Disciplined(x) PROVE Disciplined(x)'
      BY <2>1, <1>1 DEF Disciplined, OwnOrNamed, Named
    <2> QED BY <2>1, <1>6 DEF Inductive, RequestDiscipline, Fits
  <1>8. AssignedAsTold'
    BY <1>1, <1>6 DEF Inductive, AssignedAsTold, Fits
  <1> QED BY <1>4, <1>5, <1>7, <1>8 DEF Inductive

(* The rows that a request starts with.                                    *)
LEMMA WantsFits ==
  ASSUME Inductive, NEW kind \in {"assign", "status"}, NEW by \in Actors, NEW to \in Status,
         NEW rider \in Riders \cup {None},
         rider # None => to = "ASSIGNED", kind = "assign" => rider # None,
         by \in Riders => rider = by \/ (rider = None /\ order.rider = by)
  PROVE  Fits(Wants(kind, by, to, rider))
  <1> DEFINE w == Wants(kind, by, to, rider)
  <1>1. order.version \in 0..MaxVersion /\ Idle \in RequestRow
    BY Constants DEF Inductive, TypeOK, OrderRow, Idle, RequestRow, Kinds
  <1>2. w \in RequestRow
    BY <1>1 DEF Wants, RequestRow, Kinds
  <1>3. /\ w.step = "transition" /\ w.kind = kind /\ w.by = by /\ w.to = to /\ w.rider = rider
        /\ w.seen = order.version
    BY <1>1 DEF Wants, RequestRow
  <1> HIDE DEF w
  <1>4. Named(w) \/ rider = None
    BY <1>3 DEF Named
  <1>5. by \in Riders => OwnOrNamed(w)
    BY <1>3 DEF OwnOrNamed
  <1>6. w.seen <= order.version
    BY <1>1, <1>3, Constants
  <1>7. Disciplined(w)
    BY <1>3, <1>4, <1>5, <1>6 DEF Disciplined
  <1>8. Fits(w)
    BY <1>2, <1>3, <1>7 DEF Fits
  <1> QED BY <1>8 DEF w

LEMMA IdleFits == Inductive => Fits(Idle)
  BY Constants DEF Inductive, TypeOK, OrderRow, Fits, Disciplined, Idle, RequestRow, Kinds

LEMMA AnsweredFits ==
  ASSUME Inductive, NEW c \in Clients, NEW v \in 0..order.version,
         request[c].kind = "assign" => event[v].rider = request[c].rider
  PROVE  Fits([request[c] EXCEPT !.step = "done", !.seen = v])
  <1>1. request[c] \in RequestRow /\ v \in 0..MaxVersion /\ order.version \in Nat
    BY Constants DEF Inductive, TypeOK, OrderRow
  <1> DEFINE w == [request[c] EXCEPT !.step = "done", !.seen = v]
  <1>2. w \in RequestRow
    BY <1>1 DEF RequestRow
  <1>3. w.step = "done" /\ w.seen = v /\ w.kind = request[c].kind /\ w.rider = request[c].rider
    BY <1>1 DEF RequestRow
  <1> HIDE DEF w
  <1>4. Disciplined(w)
    BY <1>1, <1>3 DEF Disciplined
  <1>5. Fits(w)
    BY <1>2, <1>3, <1>4 DEF Fits
  <1> QED BY <1>5 DEF w

----------------------------------------------------------------------------
(* The transition.                                                         *)

LEMMA ApplyInductive ==
  ASSUME Inductive, NEW c \in Clients, Apply(c)
  PROVE  Inductive'
  <1> DEFINE w == request[c]
             v == order.version + 1
             rider == IF w.rider = None THEN order.rider ELSE w.rider
  <1>1. /\ order \in OrderRow /\ w \in RequestRow /\ order.version \in Nat /\ v \in Versions
        /\ v \in 1..MaxVersion /\ event \in [Versions -> EventRow] /\ w.to \in Status
        /\ rider \in Riders \cup {None}
    BY Constants DEF Inductive, TypeOK, OrderRow, RequestRow, RequestDiscipline, Disciplined, Apply,
                     Versions
  <1>2. /\ order'.status = w.to /\ order'.version = v /\ order'.rider = rider
        /\ order' \in OrderRow
    <2> DEFINE open == IF w.to = "DELIVERED" /\ order.ticket # "CLOSED" THEN "PAYMENT_PENDING"
                       ELSE order.ticket
    <2>1. open \in {"OPEN", "SERVED", "PAYMENT_PENDING", "CLOSED"} /\ v \in 0..MaxVersion
      BY <1>1 DEF OrderRow
    <2>2. order' = [order EXCEPT !.status = w.to, !.version = v, !.rider = rider, !.ticket = open]
      BY DEF Apply
    <2> HIDE DEF open, rider, v
    <2>3. [order EXCEPT !.status = w.to, !.version = v, !.rider = rider, !.ticket = open] \in OrderRow
      BY <2>1, <1>1 DEF OrderRow
    <2> QED BY <2>2, <2>3, <1>1 DEF OrderRow
  <1>3. event' = [event EXCEPT ![v] = [kind |-> w.kind, to |-> w.to, rider |-> rider]]
    BY DEF Apply
  <1>4. event' \in [Versions -> EventRow]
    <2>1. [kind |-> w.kind, to |-> w.to, rider |-> rider] \in EventRow
      BY <1>1 DEF EventRow, RequestRow
    <2> QED BY <2>1, <1>1, <1>3
  <1>5. request' = [request EXCEPT ![c] = [w EXCEPT !.step = "done", !.seen = v]]
    BY DEF Apply, Answered, Become
  <1>6. /\ w.to \in LegalTargets[order.status]
        /\ w.to = "PENDING_ASSIGNMENT" => rider = None
        /\ w.to \in {"ASSIGNED", "IN_TRANSIT", "DELIVERED"} => rider # None
    BY DEF Apply, Evaluate
  <1> HIDE DEF rider
  <1>7. [w EXCEPT !.step = "done", !.seen = v] \in RequestRow
    <2>1. v \in 0..MaxVersion
      BY <1>1
    <2> HIDE DEF v, w
    <2> QED BY <2>1, <1>1 DEF RequestRow
  <1>8. request' \in [Clients -> RequestRow]
    BY <1>5, <1>7 DEF Inductive, TypeOK
  <1>9. /\ \A u \in Versions \ {v} : event'[u] = event[u]
        /\ event'[v].to = w.to /\ event'[v].rider = rider
    BY <1>1, <1>3
  <1>10. LogIsWhole'
    <2>1. ASSUME NEW u \in Versions
          PROVE  IF u > v THEN event'[u] = NoEvent ELSE event'[u].to \in LegalTargets[Before(u)']
      <3>1. CASE u > v
        <4>1. u > order.version /\ u # v
          BY <3>1, <1>1, Constants
        <4> QED BY <3>1, <4>1, <1>9 DEF Inductive, TypeOK, LogIsWhole
      <3>2. CASE u = v
        <4>1. Before(u)' = order.status
          <5>1. CASE order.version = 0
            <6>1. v = 1 /\ order.status = "PENDING_ASSIGNMENT"
              BY <5>1 DEF Inductive, OrderDiscipline
            <6> QED BY <3>2, <6>1 DEF Before
          <5>2. CASE order.version # 0
            <6>1. order.version \in Versions \ {v} /\ v # 1 /\ v - 1 = order.version
              BY <5>2, <1>1, Constants
            <6>2. Before(u)' = event'[order.version].to
              BY <3>2, <6>1 DEF Before
            <6>3. event[order.version].to = order.status
              BY <6>1, <1>1, Constants DEF Inductive, TypeOK, LogIsWhole
            <6> QED BY <6>1, <6>2, <6>3, <1>9
          <5> QED BY <5>1, <5>2
        <4>2. ~(u > v)
          BY <3>2, <1>1
        <4>3. event'[u].to \in LegalTargets[Before(u)']
          BY <3>2, <4>1, <1>6, <1>9
        <4> QED BY <4>2, <4>3
      <3>3. CASE u < v
        <4>1. /\ u # v /\ ~(u > v) /\ ~(u > order.version)
              /\ u # 1 => u - 1 \in Versions \ {v}
          BY <3>3, <1>1, Constants
        <4>2. Before(u)' = Before(u)
          BY <4>1, <1>9 DEF Before
        <4>3. event[u].to \in LegalTargets[Before(u)]
          BY <4>1 DEF Inductive, TypeOK, LogIsWhole
        <4> QED BY <4>1, <4>2, <4>3, <1>9
      <3> QED BY <3>1, <3>2, <3>3, <1>1, Constants
    <2> QED BY <2>1, <1>2, <1>6, <1>9 DEF LogIsWhole
  <1>11. TypeOK'
    BY <1>2, <1>4, <1>8, <1>10 DEF TypeOK
  <1>12. OrderDiscipline'
    <2>1. order'.version # 0
      BY <1>1, <1>2
    <2>2. order'.status = "PENDING_ASSIGNMENT" => order'.rider = None
      BY <1>2, <1>6
    <2> QED BY <2>1, <2>2 DEF OrderDiscipline
  <1>13. \A d \in Clients : request'[d] = IF d = c THEN [w EXCEPT !.step = "done", !.seen = v]
                                          ELSE request[d]
    BY <1>5 DEF Inductive, TypeOK
  <1>14. RequestDiscipline'
    <2>1. ASSUME NEW d \in Clients PROVE Disciplined(request[d])'
      <3>1. CASE d = c
        <4>1. request'[d].step = "done" /\ request'[d].seen = v
          BY <3>1, <1>1, <1>13 DEF RequestRow
        <4> QED BY <4>1, <1>1, <1>2 DEF Disciplined
      <3>2. CASE d # c
        <4>1. request[d].seen \in Nat /\ request[d].seen <= order.version
          BY Constants DEF Inductive, TypeOK, RequestRow, RequestDiscipline, Disciplined
        <4>2. request[d].seen <= order'.version /\ request[d].seen # order'.version
          BY <4>1, <1>1, <1>2
        <4>3. request'[d] = request[d] /\ Disciplined(request[d])
          BY <3>2, <1>13 DEF Inductive, RequestDiscipline
        <4> QED BY <4>2, <4>3 DEF Disciplined, OwnOrNamed, Named
      <3> QED BY <3>1, <3>2
    <2> QED BY <2>1 DEF RequestDiscipline
  <1>15. AssignedAsTold'
    <2> SUFFICES ASSUME NEW d \in Clients, request'[d].step = "done", request'[d].kind = "assign"
                 PROVE  event'[request'[d].seen].rider = request'[d].rider
      BY DEF AssignedAsTold
    <2>1. CASE d = c
      <3>1. w.kind = "assign" /\ request'[d].seen = v /\ request'[d].rider = w.rider
        BY <2>1, <1>1, <1>13 DEF RequestRow
      <3>2. w.step = "transition" /\ w.rider # None
        BY <3>1, Constants DEF Apply, Inductive, RequestDiscipline, Disciplined, Named
      <3> QED BY <3>1, <3>2, <1>9 DEF rider
    <2>2. CASE d # c
      <3>1. request[d].seen \in Nat /\ request[d].seen <= order.version
        BY Constants DEF Inductive, TypeOK, RequestRow, RequestDiscipline, Disciplined
      <3>2. request[d].seen # v
        BY <3>1, <1>1
      <3>3. event'[request[d].seen] = event[request[d].seen]
        BY <3>2, <1>1, <1>3
      <3> QED BY <2>2, <3>3, <1>13 DEF Inductive, AssignedAsTold
    <2> QED BY <2>1, <2>2
  <1> QED BY <1>11, <1>12, <1>14, <1>15 DEF Inductive

----------------------------------------------------------------------------
LEMMA NextInductive == Inductive /\ [Next]_vars => Inductive'
  <1> SUFFICES ASSUME Inductive, [Next]_vars PROVE Inductive'
    OBVIOUS
  <1>1. /\ order \in OrderRow /\ order.version \in Nat
        /\ \A c \in Clients : request[c] \in RequestRow
    BY Constants DEF Inductive, TypeOK, OrderRow
  <1>2. ASSUME NEW c \in Clients, NEW r \in Riders, AssignRead(c, r) PROVE Inductive'
    <2>1. Fits(Wants("assign", Operator, "ASSIGNED", r))
      BY WantsFits, Constants DEF Actors, Status
    <2> QED BY <2>1, <1>2, OnlyTheRequest DEF AssignRead, Ask
  <1>3. ASSUME NEW c \in Clients, NEW r \in Riders, ClaimRead(c, r) PROVE Inductive'
    <2>1. Fits([Idle EXCEPT !.step = "claim", !.by = r])
      <3> DEFINE w == [Idle EXCEPT !.step = "claim", !.by = r]
      <3>1. Idle \in RequestRow /\ Idle.seen = 0
        BY IdleFits DEF Fits, Idle
      <3>2. w \in RequestRow
        BY <3>1 DEF RequestRow, Actors
      <3>3. w.step = "claim" /\ w.by = r /\ w.seen = 0
        BY <3>1 DEF RequestRow
      <3> HIDE DEF w
      <3>4. Fits(w)
        BY <3>2, <3>3, <1>1 DEF Fits, Disciplined
      <3> QED BY <3>4 DEF w
    <2> QED BY <2>1, <1>3, OnlyTheRequest DEF ClaimRead, Ask
  <1>4. ASSUME NEW c \in Clients, ClaimAssignRead(c) PROVE Inductive'
    <2>1. request[c].by \in Riders
      BY <1>4 DEF ClaimAssignRead, Inductive, RequestDiscipline, Disciplined
    <2>2. Fits(Wants("assign", request[c].by, "ASSIGNED", request[c].by))
      BY <2>1, WantsFits, Constants DEF Actors, Status
    <2> QED BY <2>2, <1>4, OnlyTheRequest DEF ClaimAssignRead
  <1>5. ASSUME NEW c \in Clients, NEW by \in Actors, NEW to \in Status, UpdateRead(c, by, to)
        PROVE  Inductive'
    <2>1. CASE (by = Operator \/ by = order.rider) /\ Ask(c, Wants("status", by, to, None))
      <3>1. Fits(Wants("status", by, to, None))
        BY <2>1, WantsFits, Constants
      <3> QED BY <3>1, <2>1, <1>5, OnlyTheRequest DEF UpdateRead, Ask
    <2>2. CASE by \in Riders /\ to = "ASSIGNED" /\ Ask(c, Wants("status", by, to, by))
      <3>1. Fits(Wants("status", by, to, by))
        BY <2>2, WantsFits, Constants
      <3> QED BY <3>1, <2>2, <1>5, OnlyTheRequest DEF UpdateRead, Ask
    <2> QED BY <2>1, <2>2, <1>5 DEF UpdateRead
  <1>6. ASSUME NEW c \in Clients, Replay(c) PROVE Inductive'
    <2> DEFINE v == request[c].seen + 1
    <2>1. v \in 0..order.version /\ (request[c].kind = "assign" => event[v].rider = request[c].rider)
      BY <1>1, <1>6, Constants DEF Replay, Replayed, RequestRow
    <2>2. Fits([request[c] EXCEPT !.step = "done", !.seen = v])
      BY <2>1, AnsweredFits
    <2> QED BY <2>2, <1>6, OnlyTheRequest DEF Replay, Answered
  <1>7. ASSUME NEW c \in Clients, NoOp(c) PROVE Inductive'
    <2>1. request[c].kind = "assign" => event[order.version].rider = request[c].rider
      <3> SUFFICES ASSUME request[c].kind = "assign"
                   PROVE  event[order.version].rider = request[c].rider
        OBVIOUS
      <3>1. order.status = "ASSIGNED" /\ request[c].rider = order.rider
        BY <1>7, Constants DEF NoOp, RiderUnchanged, Inductive, RequestDiscipline, Disciplined, Named
      <3>2. order.version > 0
        BY <3>1, <1>1 DEF Inductive, OrderDiscipline
      <3> QED BY <3>1, <3>2 DEF Inductive, TypeOK, LogIsWhole
    <2>2. Fits([request[c] EXCEPT !.step = "done", !.seen = order.version])
      <3>1. order.version \in 0..order.version
        BY <1>1
      <3> QED BY <2>1, <3>1, AnsweredFits
    <2> QED BY <2>2, <1>7, OnlyTheRequest DEF NoOp, Answered
  <1>8. ASSUME NEW c \in Clients, End(c) PROVE Inductive'
    BY <1>8, IdleFits, OnlyTheRequest DEF End
  <1>9. ASSUME Serve \/ Close PROVE Inductive'
    <2>1. /\ order' \in OrderRow /\ order'.status = order.status /\ order'.version = order.version
          /\ order'.rider = order.rider /\ event' = event /\ request' = request
      BY <1>1, <1>9 DEF Serve, Close, OrderRow
    <2>2. LogIsWhole'
      BY <2>1 DEF Inductive, TypeOK, LogIsWhole, Before
    <2> QED BY <2>1, <2>2 DEF Inductive, TypeOK, OrderDiscipline, RequestDiscipline, Disciplined,
                              OwnOrNamed, Named, AssignedAsTold
  <1>10. ASSUME UNCHANGED vars PROVE Inductive'
    BY <1>10 DEF vars, Inductive, TypeOK, LogIsWhole, Before, OrderDiscipline, RequestDiscipline,
                 Disciplined, OwnOrNamed, Named, AssignedAsTold
  <1> QED BY <1>2, <1>3, <1>4, <1>5, <1>6, <1>7, <1>8, <1>9, <1>10, ApplyInductive DEF Next

(* The disciplines of the order and of its requests hold in every state.   *)
THEOREM InductiveInvariant == Spec => []Inductive
  BY InitInductive, NextInductive, PTL DEF Spec

(* The log of events is a legal path, without gaps, that ends where the    *)
(* delivery is (the version in the WHERE of the transition).               *)
THEOREM TypeCorrect == Spec => []TypeOK
  <1>1. Inductive => TypeOK
    BY DEF Inductive
  <1> QED BY <1>1, InductiveInvariant, PTL

(* A success that is told of an assignment is of the rider asked for.      *)
THEOREM ToldTheTruth == Spec => []AssignedAsTold
  <1>1. Inductive => AssignedAsTold
    BY DEF Inductive
  <1> QED BY <1>1, InductiveInvariant, PTL

----------------------------------------------------------------------------
(* Only a transition writes version, status or rider, and a transition     *)
(* changes no request but its own.                                         *)
LEMMA OnlyTransitions ==
  ASSUME Inductive, [Next]_vars, order' # order, ~Serve, ~Close
  PROVE  \E c \in Clients : Apply(c)
  BY DEF Next, vars, AssignRead, ClaimRead, ClaimAssignRead, UpdateRead, Replay, NoOp, End

LEMMA TransitionIsOwn ==
  ASSUME Inductive, NEW c \in Clients, request[c].by \in Riders, Apply(c)
  PROVE  order'.rider = request[c].by
  <1>1. order'.rider = IF request[c].rider = None THEN order.rider ELSE request[c].rider
    BY DEF Apply, Inductive, TypeOK, OrderRow
  <1>2. OwnOrNamed(request[c]) /\ request[c].seen = order.version
    BY DEF Apply, VersionMatches, Inductive, RequestDiscipline, Disciplined
  <1> QED BY <1>1, <1>2, Constants DEF OwnOrNamed

(* A rider acts only on a delivery that is his, or becomes his.            *)
THEOREM RidersActOnTheirOwn == Spec => RidersOwn
  <1>1. Inductive /\ [Next]_vars =>
          [\A c \in Clients :
             request[c].by \in Riders /\ order' # order /\ request'[c] # request[c] =>
               order'.rider = request[c].by]_vars
    <2> SUFFICES ASSUME Inductive, [Next]_vars, NEW c \in Clients, request[c].by \in Riders,
                        order' # order, request'[c] # request[c]
                 PROVE  order'.rider = request[c].by
      OBVIOUS
    <2>1. PICK d \in Clients : Apply(d)
      BY OnlyTransitions DEF Serve, Close
    <2>2. d = c
      BY <2>1 DEF Apply, Answered, Become, Inductive, TypeOK
    <2> QED BY <2>1, <2>2, TransitionIsOwn
  <1> QED BY <1>1, InductiveInvariant, PTL DEF Spec, RidersOwn

(* No assignment replaces a rider of a delivery that has no issue.         *)
THEOREM RiderIsKept == Spec => RiderStands
  <1>1. Inductive /\ [Next]_vars =>
          [order.rider # None /\ order'.rider # order.rider => order.status = "ISSUE"]_vars
    <2> SUFFICES ASSUME Inductive, [Next]_vars, order.rider # None, order'.rider # order.rider
                 PROVE  order.status = "ISSUE"
      OBVIOUS
    <2>1. order \in OrderRow
      BY DEF Inductive, TypeOK
    <2>2. ~Serve /\ ~Close
      BY <2>1 DEF Serve, Close, OrderRow
    <2>3. PICK c \in Clients : Apply(c)
      BY <2>2, OnlyTransitions
    <2>4. request[c].rider # None
      BY <2>1, <2>3 DEF Apply, OrderRow
    <2>5. request[c].to = "ASSIGNED"
      BY <2>3, <2>4 DEF Apply, Inductive, RequestDiscipline, Disciplined, Named
    <2>6. "ASSIGNED" \in LegalTargets[order.status] /\ order.status \in Status
      BY <2>1, <2>3, <2>5 DEF Apply, Evaluate, OrderRow
    <2> QED BY <2>6, AssignedFrom DEF Inductive, OrderDiscipline
  <1> QED BY <1>1, InductiveInvariant, PTL DEF Spec, RiderStands

----------------------------------------------------------------------------
(* The refinement of DeliveryLog.                                          *)

LEMMA ListOfEvents ==
  ASSUME NEW S, NEW n \in Nat, NEW f \in [1..n -> S]
  PROVE  f \in Seq(S) /\ Len(f) = n /\ DOMAIN f = 1..n
  OBVIOUS

LEMMA ListExtended ==
  ASSUME NEW S, NEW n \in Nat, NEW f \in [1..n -> S], NEW g \in [1..(n + 1) -> S],
         \A v \in 1..n : g[v] = f[v]
  PROVE  g = Append(f, g[n + 1])
  <1>1. f \in Seq(S) /\ Len(f) = n /\ g \in Seq(S) /\ Len(g) = n + 1
    BY ListOfEvents
  <1>2. g[n + 1] \in S
    OBVIOUS
  <1> DEFINE h == Append(f, g[n + 1])
  <1>3. h \in Seq(S) /\ Len(h) = n + 1 /\ h[n + 1] = g[n + 1] /\ \A v \in 1..n : h[v] = f[v]
    BY <1>1, <1>2
  <1> HIDE DEF h
  <1>4. DOMAIN h = 1..(n + 1) /\ h = [v \in 1..(n + 1) |-> h[v]]
    BY <1>3
  <1>5. \A v \in 1..(n + 1) : h[v] = g[v]
    BY <1>3
  <1>6. g = h
    BY <1>4, <1>5
  <1> QED BY <1>6 DEF h

(* The list ends where the delivery is.                                    *)
LEMMA ListEnds ==
  ASSUME Inductive
  PROVE  Where(Told) = order.status /\ Len(Told) = order.version
         /\ Told \in [1..order.version -> Status \cup {"none"}]
  <1>1. /\ order.version \in Nat /\ order.version <= MaxVersion
        /\ event \in [Versions -> EventRow]
    BY Constants DEF Inductive, TypeOK, OrderRow
  <1>2. Told \in [1..order.version -> Status \cup {"none"}]
    BY <1>1, Constants DEF Told, EventRow
  <1>3. Len(Told) = order.version /\ DOMAIN Told = 1..order.version
    BY <1>1, <1>2, ListOfEvents
  <1>4. CASE order.version = 0
    <2>1. Told = <<>>
      BY <1>3, <1>4
    <2> QED BY <1>2, <1>3, <1>4, <2>1 DEF Where, Inductive, OrderDiscipline
  <1>5. CASE order.version # 0
    <2>1. Told # <<>> /\ Told[order.version] = event[order.version].to
      BY <1>1, <1>3, <1>5 DEF Told
    <2>2. event[order.version].to = order.status
      BY <1>1, <1>5 DEF Inductive, TypeOK, LogIsWhole
    <2> QED BY <1>2, <1>3, <2>1, <2>2 DEF Where
  <1> QED BY <1>4, <1>5

LEMMA TransitionExtends ==
  ASSUME Inductive, NEW c \in Clients, Apply(c)
  PROVE  Promise!Extend
  <1> DEFINE to == request[c].to  n == order.version
             rider == IF request[c].rider = None THEN order.rider ELSE request[c].rider
  <1>1. /\ n \in Nat /\ n + 1 \in Versions /\ n < MaxVersion /\ to \in LegalTargets[order.status]
        /\ event \in [Versions -> EventRow] /\ order \in OrderRow /\ to \in Status
    BY Constants DEF Apply, Evaluate, Inductive, TypeOK, OrderRow, RequestDiscipline, Disciplined
  <1>2. event' = [event EXCEPT ![n + 1] = [kind |-> request[c].kind, to |-> to, rider |-> rider]]
    BY DEF Apply
  <1>3. order'.version = n + 1
    BY <1>1 DEF Apply, OrderRow
  <1> HIDE DEF rider
  <1>4. event'[n + 1].to = to /\ \A v \in 1..n : event'[v] = event[v]
    BY <1>1, <1>2, Constants
  <1>5. Told' = [v \in 1..(n + 1) |-> event'[v].to]
    BY <1>3 DEF Told
  <1>6. Told \in [1..n -> Status \cup {"none"}] /\ Len(Told) = n /\ Where(Told) = order.status
    BY ListEnds
  <1>7. /\ Told' \in [1..(n + 1) -> Status \cup {"none"}] /\ Told'[n + 1] = to
        /\ \A v \in 1..n : Told'[v] = Told[v]
    <2>1. ASSUME NEW v \in 1..n PROVE event'[v].to = Told[v] /\ Told[v] \in Status \cup {"none"}
      BY <1>4, <1>6, <2>1 DEF Told
    <2>2. \A v \in 1..(n + 1) : v \in 1..n \/ v = n + 1
      BY <1>1
    <2>3. n + 1 \in 1..(n + 1) /\ 1..n \subseteq 1..(n + 1)
      BY <1>1
    <2> QED BY <1>1, <1>4, <1>5, <2>1, <2>2, <2>3
  <1>8. Told' = Append(Told, to)
    BY <1>1, <1>6, <1>7, ListExtended
  <1>9. Promise!LegalTargets = LegalTargets /\ Promise!Where(Told) = Where(Told)
    BY DEF Promise!LegalTargets, LegalTargets, Promise!Where, Where
  <1> QED BY <1>1, <1>6, <1>8, <1>9 DEF Promise!Extend

(* The events of a delivery are a list that only grows, by legal moves:    *)
(* each transition extends it by one event and nothing else touches it     *)
(* (DeliveryWorkflowService, the version in the WHERE of the transition).  *)
THEOREM WorkflowKeepsLog == Spec => KeepsLog
  <1>1. Init => Promise!Init
    BY DEF Init, Promise!Init, Told
  <1>2. Inductive /\ [Next]_vars => [Promise!Extend]_Told
    <2> SUFFICES ASSUME Inductive, [Next]_vars, ~ \E c \in Clients : Apply(c)
                 PROVE  Told' = Told
      BY TransitionExtends
    <2>1. CASE order' = order
      <3>1. event' = event
        BY <2>1 DEF Next, vars, AssignRead, ClaimRead, ClaimAssignRead, UpdateRead, Replay, NoOp,
                    End, Serve, Close
      <3> QED BY <2>1, <3>1 DEF Told
    <2>2. CASE Serve \/ Close
      BY <2>2 DEF Serve, Close, Told, Inductive, TypeOK, OrderRow
    <2> QED BY <2>1, <2>2, OnlyTransitions
  <1> QED BY <1>1, <1>2, InductiveInvariant, PTL DEF Spec, KeepsLog, Promise!Spec

----------------------------------------------------------------------------
(* What follows a transition.                                              *)

FactRow  == [issue : {"none", "OPEN", "RESOLVED"}, audits : Nat, alerts : Nat,
             alert : {"none", "OPEN", "RESOLVED"}, told : BOOLEAN]
ActorRow == [step : {"idle", "asked", "locked", "committed"}, of : 0..MaxVersion,
             notes : SUBSET Versions, audited : BOOLEAN, alerted : BOOLEAN]

FollowTypeOK ==
  /\ log \in Seq(Status) /\ Len(log) <= MaxVersion
  /\ notes \in SUBSET Versions
  /\ fact \in [Versions -> FactRow]
  /\ actor \in [Reconcilers -> ActorRow]
  /\ batch \in [Workers -> SUBSET Versions]

(* An event is reconciled that was made, one transaction at a time, and    *)
(* the transaction knows what was told of it.                              *)
OfMade   == \A a \in Reconcilers : actor[a].step # "idle" => actor[a].of \in Versions
OneByOne == \A a, b \in Reconcilers :
  actor[a].step = "locked" /\ actor[b].step = "locked" /\ actor[a].of = actor[b].of => a = b
Knows    == \A a \in Reconcilers : actor[a].step = "locked" =>
  /\ actor[a].audited <=> fact[actor[a].of].audits > 0
  /\ actor[a].alerted <=> fact[actor[a].of].alerts > 0
(* Audit row and alert are written together, and nothing is resolved       *)
(* before it is there.                                                     *)
Together == \A v \in Versions :
  /\ fact[v].audits > 0 <=> fact[v].alerts > 0
  /\ fact[v].alert # "none" <=> fact[v].alerts > 0

FollowInductive == FollowTypeOK /\ OfMade /\ OneByOne /\ Knows /\ Together

StaysTold(f, g) ==
  /\ f.audits > 0 => g.audits = f.audits /\ g.alerts = f.alerts
  /\ f.issue = "RESOLVED" => g.issue = "RESOLVED"
  /\ f.alert = "RESOLVED" => g.alert = "RESOLVED"

----------------------------------------------------------------------------
LEMMA MadeAreVersions == ASSUME FollowTypeOK PROVE Made \subseteq Versions
  <1>1. Len(log) \in Nat /\ DOMAIN log = 1..Len(log)
    BY DEF FollowTypeOK
  <1> QED BY <1>1, ConsequencesAssumption DEF FollowTypeOK, Made, Versions

(* What Opened, Audited, Alerted and Resolved do to what is kept of an     *)
(* event.                                                                  *)
LEMMA Writing ==
  ASSUME NEW f \in FactRow, NEW a \in ActorRow, NEW to
  PROVE  LET g == Alerted(Audited(Opened(f, to), a), a) IN
    /\ g \in FactRow
    /\ g.issue = IF to = "ISSUE" /\ f.issue = "none" THEN "OPEN" ELSE f.issue
    /\ g.audits = IF a.audited THEN f.audits ELSE f.audits + 1
    /\ g.alerts = IF a.alerted THEN f.alerts ELSE f.alerts + 1
    /\ g.alert = IF a.alerted THEN f.alert ELSE "OPEN"
    /\ g.told = f.told
  <1> DEFINE o == Opened(f, to)
             u == Audited(o, a)
  <1>1. /\ o \in FactRow /\ o.audits = f.audits /\ o.alerts = f.alerts /\ o.alert = f.alert
        /\ o.issue = IF to = "ISSUE" /\ f.issue = "none" THEN "OPEN" ELSE f.issue
        /\ o.told = f.told
    BY DEF Opened, FactRow
  <1> HIDE DEF o
  <1>2. /\ u \in FactRow /\ u.issue = o.issue /\ u.alerts = o.alerts /\ u.alert = o.alert
        /\ u.audits = IF a.audited THEN o.audits ELSE o.audits + 1
        /\ u.told = o.told
    BY <1>1 DEF Audited, FactRow, ActorRow
  <1> HIDE DEF u
  <1>3. LET g == Alerted(u, a) IN
        /\ g \in FactRow /\ g.issue = u.issue /\ g.audits = u.audits
        /\ g.alerts = IF a.alerted THEN u.alerts ELSE u.alerts + 1
        /\ g.alert = IF a.alerted THEN u.alert ELSE "OPEN"
        /\ g.told = u.told
    <2>1. CASE a.alerted
      BY <1>2, <2>1 DEF Alerted
    <2>2. CASE ~a.alerted
      <3>1. Alerted(u, a) = [u EXCEPT !.alerts = u.alerts + 1, !.alert = "OPEN"]
        BY <2>2 DEF Alerted
      <3>2. u.alerts + 1 \in Nat
        BY <1>2 DEF FactRow
      <3> QED BY <1>2, <2>2, <3>1, <3>2 DEF FactRow
    <2> QED BY <2>1, <2>2
  <1> QED BY <1>1, <1>2, <1>3 DEF o, u

LEMMA Resolving ==
  ASSUME NEW f \in FactRow, NEW to
  PROVE  LET g == Resolved(f, to) IN
    /\ g \in FactRow /\ g.audits = f.audits /\ g.alerts = f.alerts
    /\ f.issue = "RESOLVED" => g.issue = "RESOLVED"
    /\ f.alert = "RESOLVED" => g.alert = "RESOLVED"
    /\ f.alert = "none" <=> g.alert = "none"
  BY DEF Resolved, FactRow

----------------------------------------------------------------------------
LEMMA FollowInitInductive == ASSUME FollowInit PROVE FollowInductive
  <1>1. AtRest \in ActorRow
    BY ConsequencesAssumption DEF AtRest, ActorRow, Versions
  <1>2. FollowTypeOK
    BY <1>1, ConsequencesAssumption DEF FollowInit, FollowTypeOK, FactRow, NoFact, Versions
  <1> QED BY <1>2 DEF FollowInit, FollowInductive, OfMade, OneByOne, Knows, Together, AtRest, NoFact

(* Steps that write no fact and take no lock: the actor a is given a row   *)
(* that is idle, or asked or committed for an event of Versions.           *)
LEMMA QuietReconciler ==
  ASSUME FollowInductive, NEW a \in Reconcilers, NEW row \in ActorRow,
         row.step # "locked", row.step # "idle" => row.of \in Versions,
         actor' = [actor EXCEPT ![a] = row], UNCHANGED fact
  PROVE  /\ actor' \in [Reconcilers -> ActorRow]
         /\ OfMade' /\ OneByOne' /\ Knows' /\ Together'
  <1>1. /\ actor' \in [Reconcilers -> ActorRow]
        /\ \A b \in Reconcilers : b # a => actor'[b] = actor[b]
        /\ actor'[a] = row
    BY DEF FollowInductive, FollowTypeOK
  <1>2. OfMade'
    BY <1>1 DEF FollowInductive, OfMade
  <1>3. OneByOne'
    BY <1>1 DEF FollowInductive, OneByOne
  <1>4. Knows'
    BY <1>1 DEF FollowInductive, Knows
  <1>5. Together'
    BY DEF FollowInductive, Together
  <1> QED BY <1>1, <1>2, <1>3, <1>4, <1>5

LEMMA ReconcilerRows ==
  /\ AtRest \in ActorRow /\ AtRest.step = "idle"
  /\ \A v \in Versions :
       /\ Reconciling(v) \in ActorRow
       /\ Reconciling(v).step = "asked" /\ Reconciling(v).of = v
       /\ [Reconciling(v) EXCEPT !.step = "committed"] \in ActorRow
       /\ [Reconciling(v) EXCEPT !.step = "committed"].step = "committed"
       /\ [Reconciling(v) EXCEPT !.step = "committed"].of = v
  <1>1. 0 \in 0..MaxVersion /\ Versions \subseteq 0..MaxVersion
    BY ConsequencesAssumption DEF Versions
  <1>2. AtRest \in ActorRow /\ AtRest.step = "idle"
    BY <1>1 DEF AtRest, ActorRow
  <1>3. ASSUME NEW v \in Versions
        PROVE  /\ Reconciling(v) \in ActorRow
               /\ Reconciling(v).step = "asked" /\ Reconciling(v).of = v
               /\ [Reconciling(v) EXCEPT !.step = "committed"] \in ActorRow
               /\ [Reconciling(v) EXCEPT !.step = "committed"].step = "committed"
               /\ [Reconciling(v) EXCEPT !.step = "committed"].of = v
    BY <1>1 DEF AtRest, Reconciling, ActorRow
  <1> QED BY <1>2, <1>3

----------------------------------------------------------------------------
LEMMA TransitionStep ==
  ASSUME FollowInductive, NEW c \in Requests, NEW to \in Status, Transition(c, to)
  PROVE  FollowInductive'
  <1>1. c \in Reconcilers /\ Len(log) + 1 \in Versions
    BY ConsequencesAssumption DEF Transition, FollowInductive, FollowTypeOK, Reconcilers, Versions
  <1>2. /\ actor' \in [Reconcilers -> ActorRow]
        /\ OfMade' /\ OneByOne' /\ Knows' /\ Together'
    BY <1>1, ReconcilerRows, QuietReconciler DEF Transition, Put
  <1>3. log' \in Seq(Status) /\ Len(log') <= MaxVersion
    BY ConsequencesAssumption DEF Transition, FollowInductive, FollowTypeOK
  <1> QED BY <1>2, <1>3 DEF Transition, FollowInductive, FollowTypeOK

LEMMA AgainStep ==
  ASSUME FollowInductive, NEW c \in Requests, NEW v \in Versions, Again(c, v)
  PROVE  FollowInductive'
  <1>1. /\ actor' \in [Reconcilers -> ActorRow]
        /\ OfMade' /\ OneByOne' /\ Knows' /\ Together'
    BY ReconcilerRows, QuietReconciler DEF Again, Put, Reconcilers
  <1> QED BY <1>1 DEF Again, FollowInductive, FollowTypeOK

LEMMA LockStep ==
  ASSUME FollowInductive, NEW a \in Reconcilers, Lock(a)
  PROVE  FollowInductive'
  <1> DEFINE v == actor[a].of
             audited == fact[v].audits > 0
             alerted == fact[v].alerts > 0
             row == [actor[a] EXCEPT !.step = "locked", !.notes = notes,
                       !.audited = audited, !.alerted = alerted]
  <1>1. actor[a] \in ActorRow /\ v \in Versions /\ notes \in SUBSET Versions
    BY DEF FollowInductive, FollowTypeOK, OfMade, Lock
  <1>2. /\ row \in ActorRow /\ row.step = "locked" /\ row.of = v
        /\ row.audited = audited /\ row.alerted = alerted
    <2>1. audited \in BOOLEAN /\ alerted \in BOOLEAN
      OBVIOUS
    <2> HIDE DEF audited, alerted
    <2> QED BY <1>1, <2>1 DEF ActorRow
  <1>3. actor' = [actor EXCEPT ![a] = row] /\ UNCHANGED <<log, notes, fact, batch>>
    BY DEF Lock, Put
  <1> HIDE DEF row
  <1>4. /\ actor' \in [Reconcilers -> ActorRow] /\ actor'[a] = row
        /\ \A b \in Reconcilers : b # a => actor'[b] = actor[b]
    BY <1>2, <1>3 DEF FollowInductive, FollowTypeOK
  <1>5. FollowTypeOK'
    BY <1>3, <1>4 DEF FollowInductive, FollowTypeOK
  <1>6. OfMade'
    BY <1>1, <1>2, <1>4 DEF FollowInductive, OfMade
  <1>7. \A b \in Reconcilers : ~(actor[b].step = "locked" /\ actor[b].of = v)
    BY DEF Lock, LockFree
  <1>8. OneByOne'
    BY <1>2, <1>4, <1>7 DEF FollowInductive, OneByOne
  <1>9. Knows'
    BY <1>2, <1>3, <1>4 DEF FollowInductive, Knows
  <1>10. Together'
    BY <1>3 DEF FollowInductive, Together
  <1> QED BY <1>5, <1>6, <1>8, <1>9, <1>10 DEF FollowInductive

(* What the transaction of a writes.                                       *)
LEMMA CommitWrites ==
  ASSUME FollowInductive, NEW a \in Reconcilers, Commit(a)
  PROVE  /\ actor[a].of \in Versions /\ actor[a].step = "locked"
         /\ fact' \in [Versions -> FactRow]
         /\ \A u \in Versions :
              /\ StaysTold(fact[u], fact'[u])
              /\ u # actor[a].of => /\ fact'[u].audits = fact[u].audits
                                    /\ fact'[u].alerts = fact[u].alerts
                                    /\ fact'[u].alert = "none" <=> fact[u].alert = "none"
         /\ LET g == fact'[actor[a].of] IN g.audits > 0 /\ g.alerts > 0 /\ g.alert # "none"
  <1> DEFINE v == actor[a].of
             to == log[v]
             g == Alerted(Audited(Opened(fact[v], to), actor[a]), actor[a])
             written == [fact EXCEPT ![v] = g]
  <1>1. /\ v \in Versions /\ actor[a] \in ActorRow /\ actor[a].step = "locked"
        /\ fact \in [Versions -> FactRow] /\ fact[v] \in FactRow
    BY DEF FollowInductive, FollowTypeOK, OfMade, Commit
  <1>2. /\ g \in FactRow
        /\ g.issue = IF to = "ISSUE" /\ fact[v].issue = "none" THEN "OPEN" ELSE fact[v].issue
        /\ g.audits = IF actor[a].audited THEN fact[v].audits ELSE fact[v].audits + 1
        /\ g.alerts = IF actor[a].alerted THEN fact[v].alerts ELSE fact[v].alerts + 1
        /\ g.alert = IF actor[a].alerted THEN fact[v].alert ELSE "OPEN"
    BY <1>1, Writing
  <1>3. fact' = IF to = "DELIVERED"
                THEN [u \in Versions |-> IF u \in Made THEN Resolved(written[u], log[u])
                                         ELSE written[u]]
                ELSE written
    BY DEF Commit
  <1> HIDE DEF g, to
  <1>4. /\ written \in [Versions -> FactRow] /\ written[v] = g
        /\ \A u \in Versions : u # v => written[u] = fact[u]
    BY <1>1, <1>2
  <1>5. /\ actor[a].audited <=> fact[v].audits > 0
        /\ actor[a].alerted <=> fact[v].alerts > 0
        /\ fact[v].audits > 0 <=> fact[v].alerts > 0
        /\ fact[v].alert # "none" <=> fact[v].alerts > 0
    BY <1>1 DEF FollowInductive, Knows, Together
  <1>6. StaysTold(fact[v], g) /\ g.audits > 0 /\ g.alerts > 0 /\ g.alert # "none"
    <2>1. CASE actor[a].audited
      BY <1>1, <1>2, <1>5, <2>1 DEF StaysTold, FactRow
    <2>2. CASE ~actor[a].audited
      BY <1>1, <1>2, <1>5, <2>2 DEF StaysTold, FactRow
    <2> QED BY <2>1, <2>2
  <1> HIDE DEF written
  <1>7. ASSUME NEW u \in Versions
        PROVE  /\ StaysTold(fact[u], written[u])
               /\ u # v => written[u] = fact[u]
    BY <1>1, <1>4, <1>6 DEF StaysTold
  <1>8. ASSUME NEW u \in Versions
        PROVE  /\ fact'[u] \in FactRow
               /\ fact'[u].audits = written[u].audits
               /\ fact'[u].alerts = written[u].alerts
               /\ written[u].issue = "RESOLVED" => fact'[u].issue = "RESOLVED"
               /\ written[u].alert = "RESOLVED" => fact'[u].alert = "RESOLVED"
               /\ written[u].alert = "none" <=> fact'[u].alert = "none"
    <2>1. written[u] \in FactRow
      BY <1>4
    <2>2. fact'[u] = written[u] \/ fact'[u] = Resolved(written[u], log[u])
      BY <1>3, <1>4
    <2> QED BY <2>1, <2>2, Resolving
  <1>9. fact' \in [Versions -> FactRow]
    <2>1. DOMAIN fact' = Versions /\ fact' = [u \in Versions |-> fact'[u]]
      BY <1>3, <1>4
    <2> QED BY <1>8, <2>1
  <1>10. ASSUME NEW u \in Versions
         PROVE  /\ StaysTold(fact[u], fact'[u])
                /\ u # v => /\ fact'[u].audits = fact[u].audits
                            /\ fact'[u].alerts = fact[u].alerts
                            /\ fact'[u].alert = "none" <=> fact[u].alert = "none"
    BY <1>7, <1>8 DEF StaysTold
  <1> QED BY <1>1, <1>4, <1>6, <1>8, <1>9, <1>10

LEMMA CommitStep ==
  ASSUME FollowInductive, NEW a \in Reconcilers, Commit(a)
  PROVE  FollowInductive' /\ \A u \in Versions : StaysTold(fact[u], fact'[u])
  <1> DEFINE v == actor[a].of
             row == [Reconciling(v) EXCEPT !.step = "committed"]
  <1>1. v \in Versions /\ actor[a].step = "locked" /\ fact' \in [Versions -> FactRow]
    BY CommitWrites
  <1>2. \A u \in Versions :
          /\ StaysTold(fact[u], fact'[u])
          /\ u # v => /\ fact'[u].audits = fact[u].audits
                      /\ fact'[u].alerts = fact[u].alerts
                      /\ fact'[u].alert = "none" <=> fact[u].alert = "none"
    BY CommitWrites
  <1>3. LET g == fact'[v] IN g.audits > 0 /\ g.alerts > 0 /\ g.alert # "none"
    BY CommitWrites
  <1>4. row \in ActorRow /\ row.step = "committed" /\ row.of = v
    BY <1>1, ReconcilerRows
  <1>5. actor' = [actor EXCEPT ![a] = row] /\ UNCHANGED <<log, batch>>
    BY DEF Commit, Put
  <1> HIDE DEF row
  <1>6. /\ actor' \in [Reconcilers -> ActorRow] /\ actor'[a] = row
        /\ \A b \in Reconcilers : b # a => actor'[b] = actor[b]
    BY <1>4, <1>5 DEF FollowInductive, FollowTypeOK
  <1>7. notes' \in SUBSET Versions
    BY <1>1 DEF Commit, FollowInductive, FollowTypeOK, ActorRow
  <1>8. FollowTypeOK'
    BY <1>1, <1>5, <1>6, <1>7 DEF FollowInductive, FollowTypeOK
  <1>9. OfMade'
    BY <1>1, <1>4, <1>6 DEF FollowInductive, OfMade
  <1>10. OneByOne'
    BY <1>4, <1>6 DEF FollowInductive, OneByOne
  <1>11. Knows'
    <2> SUFFICES ASSUME NEW b \in Reconcilers, actor'[b].step = "locked"
                 PROVE  /\ actor'[b].audited <=> fact'[actor'[b].of].audits > 0
                        /\ actor'[b].alerted <=> fact'[actor'[b].of].alerts > 0
      BY DEF Knows
    <2>1. b # a /\ actor'[b] = actor[b]
      BY <1>4, <1>6
    <2>2. actor[b].of \in Versions /\ actor[b].of # v
      BY <1>1, <2>1 DEF FollowInductive, OfMade, OneByOne
    <2> QED BY <1>2, <2>1, <2>2 DEF FollowInductive, Knows
  <1>12. Together'
    <2> SUFFICES ASSUME NEW u \in Versions
                 PROVE  /\ fact'[u].audits > 0 <=> fact'[u].alerts > 0
                        /\ fact'[u].alert # "none" <=> fact'[u].alerts > 0
      BY DEF Together
    <2>1. CASE u = v
      BY <1>3, <2>1
    <2>2. CASE u # v
      BY <1>2, <2>2 DEF FollowInductive, Together
    <2> QED BY <2>1, <2>2
  <1> QED BY <1>2, <1>8, <1>9, <1>10, <1>11, <1>12 DEF FollowInductive

LEMMA EnqueueStep ==
  ASSUME FollowInductive, NEW a \in Reconcilers, Enqueue(a)
  PROVE  FollowInductive' /\ \A u \in Versions : StaysTold(fact[u], fact'[u])
  <1> DEFINE v == actor[a].of
             said == fact[v].told \/ HasMessage(v)
  <1>1. v \in Versions /\ fact \in [Versions -> FactRow] /\ said \in BOOLEAN
    BY DEF FollowInductive, FollowTypeOK, OfMade, Enqueue, FactRow, HasMessage
  <1>2. fact' = [fact EXCEPT ![v].told = said]
    BY DEF Enqueue
  <1> HIDE DEF said
  <1>3. /\ fact' \in [Versions -> FactRow]
        /\ \A u \in Versions : /\ fact'[u].audits = fact[u].audits
                               /\ fact'[u].alerts = fact[u].alerts
                               /\ fact'[u].alert = fact[u].alert
                               /\ fact'[u].issue = fact[u].issue
    BY <1>1, <1>2 DEF FactRow
  <1>4. actor' = [actor EXCEPT ![a] = AtRest] /\ UNCHANGED <<log, notes, batch>>
    BY DEF Enqueue, Put
  <1>5. /\ actor' \in [Reconcilers -> ActorRow] /\ actor'[a] = AtRest
        /\ \A b \in Reconcilers : b # a => actor'[b] = actor[b]
    BY <1>4, ReconcilerRows DEF FollowInductive, FollowTypeOK
  <1>6. FollowTypeOK'
    BY <1>3, <1>4, <1>5 DEF FollowInductive, FollowTypeOK
  <1>7. OfMade' /\ OneByOne'
    BY <1>5, ReconcilerRows DEF FollowInductive, OfMade, OneByOne
  <1>8. Knows'
    BY <1>3, <1>5, ReconcilerRows DEF FollowInductive, Knows, OfMade
  <1>9. Together'
    BY <1>3 DEF FollowInductive, Together
  <1> QED BY <1>3, <1>6, <1>7, <1>8, <1>9 DEF FollowInductive, StaysTold

(* A reconciliation is given up: a request that ends, a cycle that fails.  *)
LEMMA GivenUp ==
  ASSUME FollowInductive, NEW a \in Reconcilers, Put(a, AtRest), UNCHANGED <<log, notes, fact>>,
         batch' \in [Workers -> SUBSET Versions]
  PROVE  FollowInductive'
  <1>1. /\ actor' \in [Reconcilers -> ActorRow]
        /\ OfMade' /\ OneByOne' /\ Knows' /\ Together'
    BY ReconcilerRows, QuietReconciler DEF Put
  <1> QED BY <1>1 DEF FollowInductive, FollowTypeOK

LEMMA WorkerStep ==
  ASSUME FollowInductive, NEW k \in Workers, Poll(k) \/ TakeNext(k) \/ Fail(k) \/ Conflict(k)
  PROVE  FollowInductive'
  <1>1. k \in Reconcilers /\ batch \in [Workers -> SUBSET Versions]
    BY DEF Reconcilers, FollowInductive, FollowTypeOK
  <1>2. CASE Poll(k)
    <2>1. PICK found : found \subseteq Made /\ batch' = [batch EXCEPT ![k] = found]
      BY <1>2 DEF Poll, Oldest
    <2>2. batch' \in [Workers -> SUBSET Versions]
      BY <1>1, <2>1, MadeAreVersions DEF FollowInductive
    <2>3. UNCHANGED <<log, notes, fact, actor>>
      BY <1>2 DEF Poll
    <2> QED BY <2>2, <2>3 DEF FollowInductive, FollowTypeOK, OfMade, OneByOne, Knows, Together
  <1>3. CASE TakeNext(k)
    <2>1. PICK v \in batch[k] : /\ Put(k, Reconciling(v))
                                /\ batch' = [batch EXCEPT ![k] = @ \ {v}]
      BY <1>3 DEF TakeNext
    <2>2. v \in Versions /\ batch' \in [Workers -> SUBSET Versions]
      BY <1>1, <2>1
    <2>3. /\ actor' \in [Reconcilers -> ActorRow]
          /\ OfMade' /\ OneByOne' /\ Knows' /\ Together'
      BY <1>1, <1>3, <2>1, <2>2, ReconcilerRows, QuietReconciler DEF TakeNext, Put
    <2> QED BY <1>3, <2>2, <2>3 DEF TakeNext, FollowInductive, FollowTypeOK
  <1>4. CASE Fail(k) \/ Conflict(k)
    <2>1. Stop(k)
      BY <1>4 DEF Fail, Conflict
    <2> QED BY <1>1, <2>1, GivenUp DEF Stop
  <1> QED BY <1>2, <1>3, <1>4

----------------------------------------------------------------------------
LEMMA FollowNextInductive == ASSUME FollowInductive, [FollowNext]_followVars
                 PROVE  FollowInductive' /\ \A u \in Versions : StaysTold(fact[u], fact'[u])
  <1>1. CASE UNCHANGED followVars
    BY <1>1 DEF followVars, FollowInductive, FollowTypeOK, OfMade, OneByOne, Knows, Together, StaysTold
  <1>2. ASSUME FollowInductive', UNCHANGED fact
        PROVE  FollowInductive' /\ \A u \in Versions : StaysTold(fact[u], fact'[u])
    BY <1>2 DEF StaysTold
  <1>3. ASSUME NEW c \in Requests, NEW to \in Status, Transition(c, to)
        PROVE  FollowInductive' /\ \A u \in Versions : StaysTold(fact[u], fact'[u])
    BY <1>2, <1>3, TransitionStep DEF Transition
  <1>4. ASSUME NEW c \in Requests, NEW v \in Versions, Again(c, v)
        PROVE  FollowInductive' /\ \A u \in Versions : StaysTold(fact[u], fact'[u])
    BY <1>2, <1>4, AgainStep DEF Again
  <1>5. ASSUME NEW a \in Reconcilers, Reconcile(a)
        PROVE  FollowInductive' /\ \A u \in Versions : StaysTold(fact[u], fact'[u])
    <2>1. CASE Lock(a)
      BY <1>2, <2>1, LockStep DEF Lock
    <2>2. CASE Commit(a)
      BY <2>2, CommitStep
    <2>3. CASE Enqueue(a)
      BY <2>3, EnqueueStep
    <2> QED BY <1>5, <2>1, <2>2, <2>3 DEF Reconcile
  <1>6. ASSUME NEW c \in Requests, Abort(c)
        PROVE  FollowInductive' /\ \A u \in Versions : StaysTold(fact[u], fact'[u])
    <2>1. FollowInductive'
      BY <1>6, GivenUp DEF Abort, Reconcilers, FollowInductive, FollowTypeOK
    <2> QED BY <1>2, <1>6, <2>1 DEF Abort
  <1>7. ASSUME NEW k \in Workers, Poll(k) \/ TakeNext(k) \/ Fail(k) \/ Conflict(k)
        PROVE  FollowInductive' /\ \A u \in Versions : StaysTold(fact[u], fact'[u])
    <2>1. FollowInductive' /\ UNCHANGED fact
      BY <1>7, WorkerStep DEF Poll, TakeNext, Fail, Conflict, Stop
    <2> QED BY <1>2, <2>1
  <1> QED BY <1>1, <1>3, <1>4, <1>5, <1>6, <1>7 DEF FollowNext, Reconcilers

(* The lock discipline: one transaction at a time per event, which knows   *)
(* what was told of it (advisory lock and lookups of                       *)
(* reconcileDeliveryWorkflowConsequences).                                 *)
THEOREM FollowInductiveInvariant == FollowSpec => []FollowInductive
  <1>1. FollowInit => FollowInductive
    BY FollowInitInductive
  <1>2. FollowInductive /\ [FollowNext]_followVars => FollowInductive'
    BY FollowNextInductive
  <1> QED BY <1>1, <1>2, PTL DEF FollowSpec

(* No event is audited or alerted twice, and nothing resolved is opened    *)
(* again, however many requests and workers reconcile it                   *)
(* (reconcileDeliveryWorkflowConsequences).                                *)
THEOREM EventsAreToldOnce == FollowSpec => ToldOnce
  <1>1. FollowInductive /\ [FollowNext]_followVars =>
          [\A v \in Versions : LET f == fact[v]  g == fact'[v] IN
             /\ f.audits > 0 => g.audits = f.audits /\ g.alerts = f.alerts
             /\ f.issue = "RESOLVED" => g.issue = "RESOLVED"
             /\ f.alert = "RESOLVED" => g.alert = "RESOLVED"]_followVars
    BY FollowNextInductive DEF StaysTold
  <1> QED BY <1>1, FollowInductiveInvariant, PTL DEF FollowSpec, ToldOnce

(* What follows goes by a list of events that keeps the same promise as    *)
(* the one that the transitions write: nobody who reconciles, in whatever  *)
(* order, adds to it or takes from it.                                     *)
THEOREM ConsequencesFollowLog == FollowSpec => FollowsLog
  <1>1. FollowInit => LogPromise!Init
    BY DEF FollowInit, LogPromise!Init
  <1>2. [FollowNext]_followVars => [LogPromise!Extend]_log
    <2>1. ASSUME NEW c \in Requests, NEW to \in Status, Transition(c, to)
          PROVE  LogPromise!Extend
      <3>1. LogPromise!LegalTargets = LegalTargets /\ LogPromise!Where(log) = Where(log)
        BY DEF LogPromise!LegalTargets, LegalTargets, LogPromise!Where, Where
      <3> QED BY <2>1, <3>1 DEF Transition, LogPromise!Extend
    <2>2. ASSUME NEW a \in Reconcilers, Reconcile(a) PROVE log' = log
      BY <2>2 DEF Reconcile, Lock, Commit, Enqueue
    <2>3. ASSUME NEW c \in Requests, NEW v \in Versions, Again(c, v) PROVE log' = log
      BY <2>3 DEF Again
    <2>4. ASSUME NEW c \in Requests, Abort(c) PROVE log' = log
      BY <2>4 DEF Abort
    <2>5. ASSUME NEW k \in Workers, Poll(k) \/ TakeNext(k) \/ Fail(k) \/ Conflict(k)
          PROVE  log' = log
      BY <2>5 DEF Poll, TakeNext, Fail, Conflict, Stop
    <2> QED BY <2>1, <2>2, <2>3, <2>4, <2>5 DEF FollowNext, followVars, Reconcilers
  <1> QED BY <1>1, <1>2, PTL DEF FollowSpec, FollowsLog, LogPromise!Spec
=============================================================================
