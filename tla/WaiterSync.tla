----------------------------- MODULE WaiterSync -----------------------------
(***************************************************************************)
(* Orders that waiters take on their devices: the outbox of the waiter     *)
(* page (apps/web/src/app/(waiter)/waiter) and the handler of              *)
(* /orders/waiter-sync (OrdersService.syncWaiterOrder).                    *)
(*                                                                         *)
(* An operation carries an id of its own.  It is sent at once, or queued   *)
(* on the device and sent again until it is answered; the handler keeps a  *)
(* receipt per id.  The network may cut a request before, while or after   *)
(* it is handled: the device then knows nothing, the handler may go on.    *)
(* The handler reads the receipt and the ticket, then writes both in one   *)
(* transaction; other requests come in between.                            *)
(*                                                                         *)
(* A device keeps the active ticket of the table twice: as it fetched it   *)
(* last, which gives an edit the revision to compare, and as the composer  *)
(* was filled from it, once per ticket, which gives an edit its items and  *)
(* its status.                                                             *)
(*                                                                         *)
(* One table.  The items of a ticket are the operation that wrote them.    *)
(***************************************************************************)
EXTENDS Integers, FiniteSets, Sequences, SequencesExt

CONSTANTS Waiters,
          Ops,        \* operations, numbered in the order they are composed
          Tickets,    \* rows of order_tickets that may be created
          Handlers,   \* bound: requests under way
          MaxDeskEdits \* bound: edits by the kitchen and the desk
CONSTANTS None

ASSUME SyncAssumption ==
  /\ Ops \subseteq Nat \ {0} /\ MaxDeskEdits \in Nat
  /\ None \notin Tickets \cup Waiters /\ IsFiniteSet(Ops)

VARIABLES ticket,   \* order_tickets
          op,       \* operations, their receipts and what became of them
          outbox,   \* what each device keeps in its local storage
          view,     \* the ticket of the table as the device last fetched it
          shown,    \* the ticket its composer was filled from
          online,   \* what the browser says of the network
          left,     \* what the loop that flushes the queue has still to send
          handler,  \* requests on the wire or being handled
          deskEdits

vars == <<ticket, op, outbox, view, shown, online, left, handler, deskEdits>>
server == <<ticket, deskEdits>>
page   == <<view, shown, online, left>>

Unguarded == -1   \* expectedRevision left undefined
Desk == 0         \* items written at the desk

Active    == {"OPEN", "IN_PREPARATION"}
Revisions == 0..(MaxDeskEdits + Cardinality(Ops))
TicketRow == [status : {"ABSENT", "CLOSED"} \cup Active, revision : Revisions,
              items : Ops \cup {Desk}, owner : Waiters \cup {None}]
SeenRow   == [order : Tickets \cup {None}, row : TicketRow]
OpRow     == [at : {"free", "direct", "queued", "done", "gone"},
              by : Waiters \cup {None}, seen : SeenRow, shown : SeenRow, writes : Nat]
HandlerRow == [phase : {"idle", "sent", "read"}, op : Ops \cup {0}, heard : BOOLEAN,
               current : Tickets \cup {None}]

NoTicketRow == [status |-> "ABSENT", revision |-> 0, items |-> Desk, owner |-> None]
NothingSeen == [order |-> None, row |-> NoTicketRow]
IdleHandler == [phase |-> "idle", op |-> 0, heard |-> FALSE, current |-> None]

Init ==
  /\ ticket = [t \in Tickets |-> NoTicketRow]
  /\ op = [o \in Ops |-> [at |-> "free", by |-> None, seen |-> NothingSeen,
                          shown |-> NothingSeen, writes |-> 0]]
  /\ outbox = [w \in Waiters |-> <<>>]
  /\ view = [w \in Waiters |-> NothingSeen] /\ shown = view
  /\ online = [w \in Waiters |-> TRUE] /\ left = [w \in Waiters |-> 0]
  /\ handler = [h \in Handlers |-> IdleHandler]
  /\ deskEdits = 0

----------------------------------------------------------------------------
ActiveTickets == {t \in Tickets : ticket[t].status \in Active}

(* The revision of the order as the page fetched it last, undefined when it*)
(* has no order.                                                           *)
Expected(o) == IF op[o].seen.order = None THEN Unguarded ELSE op[o].seen.row.revision

(* The ticket an operation is for: the one it names, else the active one.  *)
Current(o) == IF op[o].seen.order # None THEN {op[o].seen.order}
              ELSE IF ActiveTickets # {} THEN ActiveTickets ELSE {None}

(* The status an operation asks for is the one its composer was filled     *)
(* with.                                                                   *)
Asks(o) == IF op[o].seen.order = None THEN "OPEN" ELSE op[o].shown.row.status

(* Closed, another waiter's, a table with a second active ticket, or a     *)
(* status that only the kitchen may change.                                *)
Refusal(o, t) ==
  t # None /\ \/ ticket[t].status = "CLOSED"
              \/ ticket[t].owner # op[o].by
              \/ ActiveTickets \ {t} # {}
              \/ ticket[t].status # Asks(o)

(* waiter_order_sync_receipts: one row per client_mutation_id.             *)
Receipt(o) == op[o].writes > 0
UniqueOrNot(o) == TRUE
Unreceipted(o) == ~Receipt(o)

(* The WHERE of the update.                                                *)
AnyRevision(o, t) == TRUE
SameRevision(o, t) == Expected(o) \in {Unguarded, ticket[t].revision}

----------------------------------------------------------------------------
(* The device.  An answer reaches it only if it still waits for it.        *)

Waits(h, o)   == handler[h].phase # "idle" /\ handler[h].op = o /\ handler[h].heard
InFlight(w)   == \E h \in Handlers, o \in Ops : Waits(h, o) /\ op[o].by = w
                                                /\ op[o].at = "queued"
Unheard(o)    == [h \in Handlers |-> IF handler[h].op = o
                                     THEN [handler[h] EXCEPT !.heard = FALSE] ELSE handler[h]]

FreeHandler == CHOOSE h \in Handlers : handler[h].phase = "idle"
Post(o) == \E h \in Handlers :
  /\ handler[h].phase = "idle" /\ h = FreeHandler
  /\ handler' = [handler EXCEPT ![h] = [IdleHandler EXCEPT !.phase = "sent", !.op = o,
                                                           !.heard = TRUE]]

(* saveOrder: the order and the revision are those of the query, which the *)
(* stream refetches; items and status are those of the composer.  One save *)
(* at a time.                                                              *)
Compose(o, w, at) ==
  /\ op[o].at = "free" /\ \A p \in Ops : p < o => op[p].at # "free"
  /\ \A p \in Ops : op[p].at = "direct" => op[p].by # w
  /\ op' = [op EXCEPT ![o] = [@ EXCEPT !.at = at, !.by = w, !.seen = view[w],
                                       !.shown = shown[w]]]

SaveOffline(o, w) ==
  /\ ~online[w] /\ Compose(o, w, "queued")
  /\ outbox' = [outbox EXCEPT ![w] = Append(@, o)]
  /\ UNCHANGED <<server, page, handler>>

SaveOnline(o, w) ==
  /\ online[w] /\ Compose(o, w, "direct") /\ Post(o)
  /\ UNCHANGED <<server, outbox, page>>

(* The device fetches the active ticket of the table.  Only another ticket *)
(* than the one it was filled from fills the composer again.               *)
Fetched == IF ActiveTickets = {} THEN {NothingSeen}
           ELSE {[order |-> t, row |-> ticket[t]] : t \in ActiveTickets}

Refresh(w) == \E seen \in Fetched :
  /\ online[w] /\ view' = [view EXCEPT ![w] = seen]
  /\ shown' = [shown EXCEPT ![w] = IF @.order = seen.order THEN @ ELSE seen]
  /\ UNCHANGED <<server, op, outbox, online, left, handler>>

(* The waiter leaves the table and opens it again.                         *)
Filled(w) == [shown EXCEPT ![w] = view[w]]
Open(w) ==
  /\ shown' = Filled(w)
  /\ UNCHANGED <<server, op, outbox, view, online, left, handler>>

(* flushQueuedOperations: a loop over the queue as it was when the loop    *)
(* began, from the head, one request at a time.  Its end starts it again   *)
(* if the device is online and something is queued.                        *)
NotAgain(w, queue) == 0
Again(w, queue) == IF online[w] THEN Len(queue) ELSE 0

Flush(w) ==
  /\ left[w] > 0 /\ outbox[w] # <<>> /\ ~InFlight(w)
  /\ \E o \in Ops : o = Head(outbox[w]) /\ Post(o)
  /\ UNCHANGED <<server, op, outbox, page>>

(* The online event starts the loop, unless it still runs.  To queue an    *)
(* operation does not.                                                     *)
GoOnline(w) ==
  /\ ~online[w] /\ online' = [online EXCEPT ![w] = TRUE]
  /\ left' = [left EXCEPT ![w] = IF @ = 0 THEN Len(outbox[w]) ELSE @]
  /\ UNCHANGED <<server, op, outbox, view, shown, handler>>

GoOffline(w) ==
  /\ online[w] /\ online' = [online EXCEPT ![w] = FALSE]
  /\ UNCHANGED <<server, op, outbox, view, shown, left, handler>>

Without(queue, o) == IF Contains(queue, o)
                     THEN RemoveAt(queue, CHOOSE i \in DOMAIN queue : queue[i] = o)
                     ELSE queue

(* What an answer does: saved, refused, or no connection (status 0).  An   *)
(* order that was saved at once leaves the table; an error ends the loop.  *)
Saved(o, row) == LET w == row.by  rest == Without(outbox[w], o) IN
  /\ op' = [op EXCEPT ![o] = [row EXCEPT !.at = "done"]]
  /\ outbox' = [outbox EXCEPT ![w] = rest]
  /\ IF row.at = "direct" THEN shown' = Filled(w) /\ UNCHANGED left
     ELSE /\ left' = [left EXCEPT ![w] = IF @ > 1 THEN @ - 1 ELSE Again(w, rest)]
          /\ UNCHANGED shown

LoopEnds(w) == left' = [left EXCEPT ![w] = Again(w, outbox[w])]

Refused(o, row) ==
  /\ op' = [op EXCEPT ![o] = [row EXCEPT !.at = IF @ = "direct" THEN "gone" ELSE @]]
  /\ IF row.at = "direct" THEN UNCHANGED left ELSE LoopEnds(row.by)
  /\ UNCHANGED <<outbox, shown>>

AppendedAnyhow(o) == TRUE
NotQueuedYet(o) == op[o].at = "direct"

CutOff(o) ==
  /\ \E h \in Handlers : Waits(h, o)
  /\ handler' = Unheard(o)
  /\ IF NotQueuedYet(o)
     THEN /\ op' = [op EXCEPT ![o].at = "queued"]
          /\ outbox' = [outbox EXCEPT ![op[o].by] = Append(@, o)]
          /\ UNCHANGED left
     ELSE LoopEnds(op[o].by) /\ UNCHANGED <<op, outbox>>
  /\ UNCHANGED <<server, view, shown, online>>

(* A reload of the page: what was sent and not queued is forgotten, the    *)
(* composer filled and the queue flushed.                                  *)
Mine(w) == {o \in Ops : op[o].by = w}
Reload(w) ==
  /\ handler' = [h \in Handlers |-> IF handler[h].op \in Mine(w)
                                    THEN [handler[h] EXCEPT !.heard = FALSE] ELSE handler[h]]
  /\ op' = [o \in Ops |-> IF o \in Mine(w) /\ op[o].at = "direct"
                          THEN [op[o] EXCEPT !.at = "gone"] ELSE op[o]]
  /\ shown' = Filled(w) /\ LoopEnds(w)
  /\ UNCHANGED <<server, outbox, view, online>>

(* readWaiterOutbox: an outbox not written for a day reads as empty.       *)
Expire(w) ==
  /\ outbox[w] # <<>> /\ left[w] = 0
  /\ outbox' = [outbox EXCEPT ![w] = <<>>]
  /\ op' = [o \in Ops |-> IF Contains(outbox[w], o) THEN [op[o] EXCEPT !.at = "gone"]
                          ELSE op[o]]
  /\ UNCHANGED <<server, page, handler>>

----------------------------------------------------------------------------
(* syncWaiterOrder.                                                        *)

Finish(h) == handler' = [handler EXCEPT ![h] = IdleHandler]

(* The end of a request whose transaction left the operation as "row": the *)
(* client hears of it, or nobody listens any more.                         *)
Reply(h, o, row, saved) ==
  /\ Finish(h)
  /\ IF ~handler[h].heard THEN op' = [op EXCEPT ![o] = row] /\ UNCHANGED <<outbox, shown, left>>
     ELSE IF saved THEN Saved(o, row) ELSE Refused(o, row)

(* A request is lost, or its handler dies and PostgreSQL rolls back.       *)
Lose(h) ==
  /\ handler[h].phase # "idle" /\ ~handler[h].heard
  /\ Finish(h) /\ UNCHANGED <<server, op, outbox, page>>

Replay(h) == LET o == handler[h].op IN
  /\ handler[h].phase = "sent" /\ Receipt(o) /\ Reply(h, o, op[o], TRUE)
  /\ UNCHANGED <<server, view, online>>

Read(h) == LET o == handler[h].op IN
  /\ handler[h].phase = "sent" /\ ~Receipt(o)
  /\ \E t \in Current(o) :
       IF Refusal(o, t) THEN Reply(h, o, op[o], FALSE)
       ELSE /\ handler' = [handler EXCEPT ![h] = [@ EXCEPT !.phase = "read", !.current = t]]
            /\ UNCHANGED <<op, outbox, shown, left>>
  /\ UNCHANGED <<server, view, online>>

Written(o) == [op[o] EXCEPT !.writes = @ + 1]

(* The audit log and the alert follow the commit: their failure answers    *)
(* with an error an operation that was applied.                            *)
Update(h, audited) == LET o == handler[h].op  t == handler[h].current IN
  /\ handler[h].phase = "read" /\ t # None /\ SameRevision(o, t) /\ Unreceipted(o)
  /\ ticket' = [ticket EXCEPT
       ![t] = [ticket[t] EXCEPT !.status = Asks(o), !.revision = @ + 1, !.items = o]]
  /\ Reply(h, o, Written(o), audited)
  /\ UNCHANGED <<view, online, deskEdits>>

(* A new row has a new id; which one tells nothing apart.                  *)
FreeRow == CHOOSE t \in Tickets : ticket[t].status = "ABSENT"

Create(h, audited) == LET o == handler[h].op IN
  \E t \in Tickets :
    /\ handler[h].phase = "read" /\ handler[h].current = None
    /\ ticket[t].status = "ABSENT" /\ t = FreeRow /\ Unreceipted(o)
    /\ ticket' = [ticket EXCEPT ![t] = [NoTicketRow EXCEPT !.status = "OPEN", !.items = o,
                                                           !.owner = op[o].by]]
    /\ Reply(h, o, Written(o), audited)
    /\ UNCHANGED <<view, online, deskEdits>>

(* The row changed since it was read; or the receipt came first (P2002).   *)
Conflict(h) == LET o == handler[h].op  t == handler[h].current IN
  /\ handler[h].phase = "read" /\ t # None /\ ~SameRevision(o, t)
  /\ Reply(h, o, op[o], FALSE)
  /\ UNCHANGED <<server, view, online>>

Duplicate(h) == LET o == handler[h].op  t == handler[h].current IN
  /\ handler[h].phase = "read" /\ (t # None => SameRevision(o, t)) /\ ~Unreceipted(o)
  /\ Reply(h, o, op[o], TRUE)
  /\ UNCHANGED <<server, view, online>>

----------------------------------------------------------------------------
(* The kitchen and the desk: see OrderDesk.                                *)

DeskEdit(t) ==
  /\ deskEdits < MaxDeskEdits /\ deskEdits' = deskEdits + 1
  /\ \/ /\ ticket[t].status = "OPEN"
        /\ ticket' = [ticket EXCEPT ![t] = [ticket[t] EXCEPT !.status = "IN_PREPARATION",
                                                             !.revision = @ + 1]]
     \/ /\ ticket[t].status \in Active
        /\ ticket' = [ticket EXCEPT ![t] = [ticket[t] EXCEPT !.items = Desk, !.revision = @ + 1]]
  /\ UNCHANGED <<op, outbox, page, handler>>

(* checkout leaves the revision as it is.                                  *)
Pay(t) ==
  /\ ticket[t].status \in Active
  /\ ticket' = [ticket EXCEPT ![t].status = "CLOSED"]
  /\ UNCHANGED <<op, outbox, page, handler, deskEdits>>

----------------------------------------------------------------------------
Look(h)   == Replay(h) \/ Read(h)
Commit(h) == Update(h, TRUE) \/ Create(h, TRUE) \/ Conflict(h) \/ Duplicate(h)

Next ==
  \/ \E o \in Ops, w \in Waiters : SaveOffline(o, w) \/ SaveOnline(o, w)
  \/ \E w \in Waiters : \/ Flush(w) \/ Refresh(w) \/ Open(w) \/ Reload(w) \/ Expire(w)
                        \/ GoOnline(w) \/ GoOffline(w)
  \/ \E o \in Ops : CutOff(o)
  \/ \E h \in Handlers : Look(h) \/ Commit(h) \/ Lose(h) \/ Update(h, FALSE) \/ Create(h, FALSE)
  \/ \E t \in Tickets : DeskEdit(t) \/ Pay(t)

Spec == Init /\ [][Next]_vars

(* While the loop runs it sends its next operation (strong fairness: the   *)
(* bound on Handlers may hold it back); nothing is assumed of a queue that *)
(* no loop looks at.  A request that is made again and again is handled in *)
(* the end, and its answer heard.                                          *)
FairSpec ==
  /\ Spec
  /\ \A w \in Waiters : SF_vars(Flush(w))
  /\ \A h \in Handlers : WF_vars(Look(h) \/ Commit(h) \/ Lose(h))
  /\ \A o \in Ops : /\ SF_vars(\E h \in Handlers : Waits(h, o) /\ Look(h))
                    /\ SF_vars(\E h \in Handlers : Waits(h, o) /\ Commit(h))

----------------------------------------------------------------------------
(* An operation that waits in an outbox waits there once, and nothing else *)
(* is there.                                                               *)
TypeOK ==
  /\ ticket \in [Tickets -> TicketRow]
  /\ op \in [Ops -> OpRow]
  /\ view \in [Waiters -> SeenRow] /\ shown \in [Waiters -> SeenRow]
  /\ online \in [Waiters -> BOOLEAN] /\ left \in [Waiters -> Nat]
  /\ handler \in [Handlers -> HandlerRow]
  /\ deskEdits \in 0..MaxDeskEdits
  /\ \A w \in Waiters :
       /\ IsInjective(outbox[w])
       /\ Range(outbox[w]) = {o \in Ops : op[o].by = w /\ op[o].at = "queued"}

(* Whatever is cut, sent again or handled twice at the same time, an       *)
(* operation is written at most once, and one that the device has put      *)
(* aside as saved was written (the receipt and its unique key).            *)
AppliedOnce ==
  \A o \in Ops : op[o].writes <= 1 /\ (op[o].at = "done" => op[o].writes = 1)

(* However long an edit was queued or how often it was sent: it replaces   *)
(* the items that its device had fetched last when it was saved, so the    *)
(* ones on the screen only if nothing was fetched since the composer was   *)
(* filled; and it never takes back a step of the kitchen, also not with a  *)
(* composer that shows an older status (expectedRevision together with     *)
(* assertKitchenStatusIsNotChangedOutsideKitchenAuthority).  Items that    *)
(* were fetched but never shown are replaced: see README.                  *)
Overwrites(o) == LET t == op[o].seen.order IN
  /\ ticket'[t].items = o
  /\ ticket[t].items = op[o].seen.row.items
  /\ op[o].shown.row.revision = op[o].seen.row.revision =>
       ticket[t].items = op[o].shown.row.items
  /\ ticket[t].status \in {Asks(o), "CLOSED"}
OverWhatWasFetched ==
  [][\A o \in Ops : op'[o].writes # op[o].writes /\ op[o].seen.order # None => Overwrites(o)]_vars

(* Once the queue is being flushed, it is empty in the end, unless the     *)
(* device goes offline or the head of the queue is refused for good: a     *)
(* lost answer, an error after the commit, a reload or an operation queued *)
(* meanwhile does not leave the rest behind (flushQueuedOperations and the *)
(* effect that calls it again when it ends).                               *)
Stuck(w) == outbox[w] # <<>> /\ LET o == Head(outbox[w]) IN
  /\ op[o].writes = 0
  /\ \E t \in Current(o) : t # None /\ (Refusal(o, t) \/ ~SameRevision(o, t))
QueueMoves == \A w \in Waiters :
  left[w] > 0 ~> (outbox[w] = <<>> \/ Stuck(w) \/ ~online[w])
=============================================================================
