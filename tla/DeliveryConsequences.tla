------------------------- MODULE DeliveryConsequences -------------------------
(***************************************************************************)
(* What follows a transition of a delivery                                 *)
(* (apps/api/src/modules/orders: reconcileDeliveryWorkflowConsequences of  *)
(* OrdersService and DeliveryWorkflowConsequenceWorker).                   *)
(*                                                                         *)
(* The transition has committed with its event (DeliveryWorkflow).  What   *)
(* follows, an issue, an audit row, an alert, a line in the notes of the   *)
(* order, is written by a transaction of its own, and the notification of  *)
(* the customer after that.  The request that made the event does it, and  *)
(* any later request that is answered with that event does it again.  A    *)
(* worker of each process looks every two seconds for events of which the  *)
(* audit row or the notification is missing.                               *)
(***************************************************************************)
EXTENDS FiniteSets, DeliveryLifecycle

CONSTANTS Requests,    \* handlers of requests
          Workers,     \* consequence workers, one per process
          Batch,       \* RECONCILIATION_BATCH_SIZE
          Noted,       \* bound: versions of which the transition brings a line of notes
          MaxFaults    \* bound: cycles of the workers that fail

ASSUME ConsequencesAssumption ==
  /\ Batch \in Nat \ {0} /\ MaxVersion \in Nat /\ MaxFaults \in Nat
  /\ Noted \subseteq 1..MaxVersion
  /\ IsFiniteSet(Requests) /\ IsFiniteSet(Workers) /\ Requests \cap Workers = {}

VARIABLES log,      \* delivery_workflow_events, in the order of their versions: to_status
          notes,    \* order_tickets.notes: the events whose line is there
          fact,     \* by event: its issue, audit rows, alerts, notification
          actor,    \* requests and workers: what they reconcile
          batch,    \* the candidates a worker still has to reconcile
          faults

followVars == <<log, notes, fact, actor, batch, faults>>

Reconcilers == Requests \cup Workers

NoFact == [issue |-> "none", audits |-> 0, alerts |-> 0, alert |-> "none", told |-> FALSE]
AtRest == [step |-> "idle", of |-> 0, notes |-> {}, audited |-> FALSE, alerted |-> FALSE]

FollowInit ==
  /\ log = <<>> /\ notes = {}
  /\ fact = [v \in Versions |-> NoFact]
  /\ actor = [a \in Reconcilers |-> AtRest]
  /\ batch = [k \in Workers |-> {}]
  /\ faults = 0

Made == DOMAIN log

Put(a, row) == actor' = [actor EXCEPT ![a] = row]
Reconciling(v) == [AtRest EXCEPT !.step = "asked", !.of = v]

----------------------------------------------------------------------------
(* Requests.                                                               *)

Transition(c, to) ==
  /\ actor[c].step = "idle" /\ Len(log) < MaxVersion /\ to \in LegalTargets[Where(log)]
  /\ log' = Append(log, to)
  /\ Put(c, Reconciling(Len(log) + 1))
  /\ UNCHANGED <<notes, fact, batch, faults>>

(* A replay is answered with an event of any age.                          *)
Again(c, v) ==
  /\ actor[c].step = "idle" /\ v \in Made /\ Put(c, Reconciling(v))
  /\ UNCHANGED <<log, notes, fact, batch, faults>>

----------------------------------------------------------------------------
(* The transaction, under an advisory lock of the event.                   *)

Unlocked(a) == TRUE
LockFree(a) == \A b \in Reconcilers : ~(actor[b].step = "locked" /\ actor[b].of = actor[a].of)

Lock(a) == LET v == actor[a].of IN
  /\ actor[a].step = "asked" /\ LockFree(a)
  /\ Put(a, [actor[a] EXCEPT !.step = "locked", !.notes = notes,
                  !.audited = fact[v].audits > 0, !.alerted = fact[v].alerts > 0])
  /\ UNCHANGED <<log, notes, fact, batch, faults>>

(* The upsert of the issue of an event leaves the one that is there.       *)
Opened(f, to)  == IF to = "ISSUE" /\ f.issue = "none" THEN [f EXCEPT !.issue = "OPEN"] ELSE f
Audited(f, a)  == IF a.audited THEN f ELSE [f EXCEPT !.audits = @ + 1]
Alerted(f, a)  ==
  IF a.alerted THEN f ELSE [f EXCEPT !.alerts = @ + 1, !.alert = "OPEN"]

(* DELIVERED resolves the issues that are open, and these alerts.          *)
Passing == {"ASSIGNED", "IN_TRANSIT", "ISSUE"}
Resolved(f, to) ==
  [f EXCEPT !.issue = IF @ = "OPEN" THEN "RESOLVED" ELSE @,
            !.alert = IF @ = "OPEN" /\ to \in Passing THEN "RESOLVED" ELSE @]

Commit(a) ==
  LET v  == actor[a].of
      to == log[v]
      written == [fact EXCEPT ![v] = Alerted(Audited(Opened(@, to), actor[a]), actor[a])] IN
  /\ actor[a].step = "locked"
  /\ notes' = IF v \in Noted /\ v \notin actor[a].notes THEN actor[a].notes \cup {v} ELSE notes
  /\ fact' = IF to = "DELIVERED"
             THEN [u \in Versions |-> IF u \in Made THEN Resolved(written[u], log[u])
                                      ELSE written[u]]
             ELSE written
  /\ Put(a, [Reconciling(v) EXCEPT !.step = "committed"])
  /\ UNCHANGED <<log, batch, faults>>

(* deliveryWorkflowCustomerMessage, and the upsert of the notification.    *)
HasMessage(v) == log[v] # "PENDING_ASSIGNMENT"

Enqueue(a) == LET v == actor[a].of IN
  /\ actor[a].step = "committed"
  /\ fact' = [fact EXCEPT ![v].told = @ \/ HasMessage(v)]
  /\ Put(a, AtRest)
  /\ UNCHANGED <<log, notes, batch, faults>>

(* A request that fails or dies rolls back what it has not committed.      *)
Abort(c) ==
  /\ actor[c].step # "idle" /\ Put(c, AtRest)
  /\ UNCHANGED <<log, notes, fact, batch, faults>>

----------------------------------------------------------------------------
(* The worker.                                                             *)

PendingUnlessAudited(v) == fact[v].audits = 0
Pending(v) == fact[v].audits = 0 \/ (HasMessage(v) /\ ~fact[v].told)

(* ORDER BY created_at LIMIT Batch. *)
Oldest(S) == {v \in S : Cardinality({u \in S : u < v}) < Batch}

Poll(k) == LET found == Oldest({v \in Made : Pending(v)}) IN
  /\ actor[k].step = "idle" /\ batch[k] = {} /\ found # {}
  /\ batch' = [batch EXCEPT ![k] = found]
  /\ UNCHANGED <<log, notes, fact, actor, faults>>

TakeNext(k) == \E v \in batch[k] :
  /\ actor[k].step = "idle" /\ \A u \in batch[k] : v <= u
  /\ Put(k, Reconciling(v))
  /\ batch' = [batch EXCEPT ![k] = @ \ {v}]
  /\ UNCHANGED <<log, notes, fact, faults>>

(* The first failure ends the cycle: there is no catch in its loop.        *)
Stop(k) == Put(k, AtRest) /\ batch' = [batch EXCEPT ![k] = {}] /\ UNCHANGED <<log, notes, fact>>

Fail(k) == actor[k].step # "idle" /\ faults < MaxFaults /\ faults' = faults + 1 /\ Stop(k)

(* enqueue refuses when the notification of the event says something else, *)
(* as it may when the conversation changed in between.                     *)
Conflict(k) ==
  actor[k].step = "committed" /\ fact[actor[k].of].told /\ Stop(k) /\ UNCHANGED faults

----------------------------------------------------------------------------
Reconcile(a) == Lock(a) \/ Commit(a) \/ Enqueue(a)

FollowNext ==
  \/ \E c \in Requests :
       \/ \E to \in Status : Transition(c, to)
       \/ \E v \in Versions : Again(c, v)
       \/ Reconcile(c) \/ Abort(c)
  \/ \E k \in Workers :
       Poll(k) \/ TakeNext(k) \/ Reconcile(k) \/ Fail(k) \/ Conflict(k)

FollowSpec == FollowInit /\ [][FollowNext]_followVars

(* A transaction ends, locks are granted in turn, and the worker goes on;  *)
(* no request is counted on to do anything but that.                       *)
FollowFairness ==
  /\ \A c \in Requests : WF_followVars(actor[c].step = "locked" /\ (Commit(c) \/ Abort(c)))
  /\ \A k \in Workers :
       WF_followVars(Poll(k) \/ TakeNext(k) \/ Commit(k) \/ Enqueue(k)) /\ SF_followVars(Lock(k))

FollowFairSpec == FollowSpec /\ FollowFairness

----------------------------------------------------------------------------
(* What is told of an event is told once, however many requests and        *)
(* workers reconcile it at once or again: no second audit row or alert,    *)
(* and an issue or alert that a delivery has resolved is not opened again  *)
(* by a late reconciliation (the advisory lock and the lookups under it).  *)
ToldOnce ==
  [][\A v \in Versions : LET f == fact[v]  g == fact'[v] IN
       /\ f.audits > 0 => g.audits = f.audits /\ g.alerts = f.alerts
       /\ f.issue = "RESOLVED" => g.issue = "RESOLVED"
       /\ f.alert = "RESOLVED" => g.alert = "RESOLVED"]_followVars

(* The list of events that the workers go by is the one that               *)
(* DeliveryWorkflow writes: it keeps the promise of the same DeliveryLog.  *)
LogPromise == INSTANCE DeliveryLog WITH told <- log

FollowsLog == LogPromise!Spec

(* Every event is told in the end, whoever died after its transition: in   *)
(* the log, to the desk, and, if there is a message for it, to the         *)
(* customer (reconcilePendingDeliveryWorkflowConsequences).                *)
EveryEventTold ==
  \A v \in Versions :
    v \in Made ~> /\ fact[v].audits = 1 /\ fact[v].alerts = 1
                  /\ v \in Made /\ HasMessage(v) => fact[v].told
=============================================================================
