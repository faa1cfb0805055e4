-------------------------- MODULE DeliveryWorkflow --------------------------
(***************************************************************************)
(* The way of one delivery from the counter to the customer                *)
(* (apps/api/src/modules/delivery-operations and its callers in orders).   *)
(*                                                                         *)
(* A request reads the order and decides who may do what.  The transition  *)
(* is a serializable transaction of its own: it looks for an event of the  *)
(* same idempotency key, compares the version with the one that the        *)
(* request has read, asks the policy, and writes the order and an event.   *)
(* A request that is repeated, or that lost its answer, is one more        *)
(* request.                                                                *)
(***************************************************************************)
EXTENDS DeliveryLifecycle

CONSTANTS Riders,
          Clients     \* requests under way
CONSTANTS Operator, None

ASSUME DeliveryAssumption ==
  MaxVersion \in Nat /\ Operator \notin Riders /\ None \notin Riders \cup {Operator}

VARIABLES order,   \* order_tickets: the columns of the delivery
          event,   \* delivery_workflow_events, by version, with the rider then
          request  \* the handlers that run

vars == <<order, event, request>>

Kinds  == {"none", "assign", "status"}
Actors == Riders \cup {Operator}

OrderRow   == [status : Status, version : 0..MaxVersion, rider : Riders \cup {None},
               ticket : {"OPEN", "SERVED", "PAYMENT_PENDING", "CLOSED"}]
EventRow   == [kind : Kinds, to : Status \cup {"none"}, rider : Riders \cup {None}]
RequestRow == [step : {"idle", "claim", "transition", "done"}, kind : Kinds,
               by : Actors \cup {None}, to : Status \cup {"none"}, rider : Riders \cup {None},
               seen : 0..MaxVersion]

NoEvent == [kind |-> "none", to |-> "none", rider |-> None]
Idle    == [step |-> "idle", kind |-> "none", by |-> None, to |-> "none", rider |-> None,
            seen |-> 0]

Init ==
  /\ order = [status |-> "PENDING_ASSIGNMENT", version |-> 0, rider |-> None, ticket |-> "OPEN"]
  /\ event = [v \in Versions |-> NoEvent]
  /\ request = [c \in Clients |-> Idle]

----------------------------------------------------------------------------
(* DeliveryWorkflowPolicy, on the moves of DeliveryLifecycle.              *)

Evaluate(to, hasRider) ==
  /\ to \in LegalTargets[order.status]
  /\ to = "PENDING_ASSIGNMENT" => ~hasRider
  /\ to \in {"ASSIGNED", "IN_TRANSIT", "DELIVERED"} => hasRider
  /\ to = "IN_TRANSIT" => order.ticket = "SERVED"

----------------------------------------------------------------------------
(* Requests.  What a request has read may be old when it is used.          *)

Become(c, row) == request' = [request EXCEPT ![c] = row]
Ask(c, row)    == request[c].step = "idle" /\ order.ticket # "CLOSED" /\ Become(c, row)
Wants(kind, by, to, rider) ==
  [Idle EXCEPT !.step = "transition", !.kind = kind, !.by = by, !.to = to, !.rider = rider,
               !.seen = order.version]

AssignRead(c, r) ==
  /\ Ask(c, Wants("assign", Operator, "ASSIGNED", r))
  /\ UNCHANGED <<order, event>>

(* claimDelivery looks whether the delivery has a rider, and goes on to    *)
(* assignDeliveryRider, which reads the version for itself.                *)
ClaimRead(c, r) ==
  /\ order.rider = None /\ Ask(c, [Idle EXCEPT !.step = "claim", !.by = r])
  /\ UNCHANGED <<order, event>>

ClaimAssignRead(c) ==
  /\ request[c].step = "claim" /\ order.ticket # "CLOSED"
  /\ Become(c, Wants("assign", request[c].by, "ASSIGNED", request[c].by))
  /\ UNCHANGED <<order, event>>

(* updateDeliveryWorkflow: an operator may ask for everything, a rider for *)
(* a delivery of his own, or to be assigned one that has no rider.         *)
UpdateRead(c, by, to) ==
  /\ \/ by = Operator /\ Ask(c, Wants("status", by, to, None))
     \/ by = order.rider /\ Ask(c, Wants("status", by, to, None))
     \/ by \in Riders /\ order.rider = None /\ to = "ASSIGNED"
        /\ Ask(c, Wants("status", by, to, by))
  /\ UNCHANGED <<order, event>>

(* The idempotency key names the version, and the rider or the status.     *)
Replayed(w) == w.seen < order.version /\ LET e == event[w.seen + 1] IN
  e.kind = w.kind /\ IF w.kind = "assign" THEN e.rider = w.rider ELSE e.to = w.to

AnyVersion(w) == TRUE
VersionMatches(w) == order.version = w.seen

AnyRider(w) == TRUE
RiderUnchanged(w) == w.rider \in {None, order.rider}

(* The caller is told that it is done, with the event of that version.     *)
Answered(c, v) == Become(c, [request[c] EXCEPT !.step = "done", !.seen = v])

Replay(c) == LET w == request[c] IN
  /\ w.step = "transition" /\ Replayed(w) /\ Answered(c, w.seen + 1)
  /\ UNCHANGED <<order, event>>

NoOp(c) == LET w == request[c] IN
  /\ w.step = "transition" /\ ~Replayed(w) /\ VersionMatches(w)
  /\ order.status = w.to /\ RiderUnchanged(w) /\ Answered(c, order.version)
  /\ UNCHANGED <<order, event>>

(* A delivered order waits for its payment, unless it is closed.           *)
Apply(c) == LET w == request[c]  v == order.version + 1
                rider == IF w.rider = None THEN order.rider ELSE w.rider IN
  /\ w.step = "transition" /\ ~Replayed(w) /\ VersionMatches(w) /\ v \in Versions
  /\ Evaluate(w.to, rider # None)
  /\ order' = [order EXCEPT !.status = w.to, !.version = v, !.rider = rider,
                 !.ticket = IF w.to = "DELIVERED" /\ @ # "CLOSED" THEN "PAYMENT_PENDING" ELSE @]
  /\ event' = [event EXCEPT ![v] = [kind |-> w.kind, to |-> w.to, rider |-> rider]]
  /\ Answered(c, v)

(* The end of a request: answered, rejected, or its process died.          *)
End(c) == request[c].step # "idle" /\ Become(c, Idle) /\ UNCHANGED <<order, event>>

----------------------------------------------------------------------------
(* The kitchen serves, the desk charges or cancels: see OrderDesk.         *)
Serve == order.ticket = "OPEN" /\ order' = [order EXCEPT !.ticket = "SERVED"]
         /\ UNCHANGED <<event, request>>
Close == order.ticket # "CLOSED" /\ order' = [order EXCEPT !.ticket = "CLOSED"]
         /\ UNCHANGED <<event, request>>

Next ==
  \/ \E c \in Clients :
       \/ \E r \in Riders : AssignRead(c, r) \/ ClaimRead(c, r)
       \/ \E by \in Actors, to \in Status : UpdateRead(c, by, to)
       \/ ClaimAssignRead(c) \/ Replay(c) \/ NoOp(c) \/ Apply(c) \/ End(c)
  \/ Serve \/ Close

Spec == Init /\ [][Next]_vars

----------------------------------------------------------------------------
(* The events tell the order: there is one per version, each is a legal    *)
(* step from the one before, the last one is where the order is, and       *)
(* nothing is on its way without a rider.                                  *)
Before(v) == IF v = 1 THEN "PENDING_ASSIGNMENT" ELSE event[v - 1].to

LogIsWhole ==
  /\ \A v \in Versions :
       IF v > order.version THEN event[v] = NoEvent ELSE event[v].to \in LegalTargets[Before(v)]
  /\ order.version > 0 =>
       event[order.version].to = order.status /\ event[order.version].rider = order.rider
  /\ order.status \in {"ASSIGNED", "IN_TRANSIT", "DELIVERED"} => order.rider # None

TypeOK ==
  /\ order \in OrderRow
  /\ event \in [Versions -> EventRow]
  /\ request \in [Clients -> RequestRow]
  /\ LogIsWhole

(* Read in the order of their versions, the events keep the promise of     *)
(* DeliveryLog: none is written over, lost or told twice.                  *)
Told == [v \in 1..order.version |-> event[v].to]
Promise == INSTANCE DeliveryLog WITH told <- Told

KeepsLog == Promise!Spec

(* What a rider does, he does to a delivery that is his, whatever was      *)
(* decided between his request and its transaction (the version that       *)
(* updateDeliveryWorkflow passes on).                                      *)
RidersOwn ==
  [][\A c \in Clients :
       request[c].by \in Riders /\ order' # order /\ request'[c] # request[c] =>
         order'.rider = request[c].by]_vars

(* A rider keeps the delivery until there is an issue with it: no other    *)
(* assignment replaces it, however the two are interleaved                 *)
(* (RIDER_ALREADY_ASSIGNED).                                               *)
RiderStands ==
  [][order.rider # None /\ order'.rider # order.rider => order.status = "ISSUE"]_vars

(* Who is told that an assignment is done is told of an assignment of the  *)
(* rider that was asked for, also when another request had it done         *)
(* (assignDeliveryRider: the replay and the no-op).                        *)
AssignedAsTold ==
  \A c \in Clients : LET w == request[c] IN
    w.step = "done" /\ w.kind = "assign" => event[w.seen].rider = w.rider
=============================================================================
