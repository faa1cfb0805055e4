------------------------------ MODULE OrderDesk ------------------------------
(***************************************************************************)
(* Tickets, sales, stock and cash sessions of the point of sale            *)
(* (apps/api/src/modules/orders, sales, cash-register).                    *)
(*                                                                         *)
(* A handler reads rows, decides, and commits a transaction; what it read  *)
(* may have changed by then.  So every operation is a Read, whose outcome  *)
(* the request carries in "saw", and a commit, which re-reads only what    *)
(* the code re-reads after a row lock or in the WHERE of its UPDATE.       *)
(* PostgreSQL runs at READ COMMITTED, and every transaction ends by        *)
(* writing under row locks: it is one step, except where the code reads    *)
(* rows it has not locked first.                                           *)
(*                                                                         *)
(* One product of price 1 is sold for cash over the counter: the items of  *)
(* a ticket are a quantity, which is also the amount that is charged.      *)
(***************************************************************************)
EXTENDS Integers, FiniteSets, FiniteSetsExt

CONSTANTS Clients,     \* requests in flight
          Tickets,     \* rows of order_tickets
          CounterTickets, \* bound: the rows that create inserts
          Sales,       \* rows of sales, numbered
          Sessions,    \* rows of cash_sessions, numbered
          Quantities,  \* what a ticket may ask for after an edit
          FirstQuantities, \* bound: what a new ticket or sale asks for
          InitialStock,
          MaxWrites    \* bound: writes of tickets
CONSTANTS NoTicket, Nobody

ASSUME DeskAssumption ==
  /\ CounterTickets \subseteq Tickets
  /\ IsFiniteSet(Sales) /\ Sales = 1..Cardinality(Sales)
  /\ IsFiniteSet(Sessions) /\ Sessions = 1..Cardinality(Sessions)
  /\ Quantities \subseteq Nat \ {0} /\ FirstQuantities \subseteq Quantities
  /\ InitialStock \in Nat /\ MaxWrites \in Nat
  /\ NoTicket \notin Tickets /\ Nobody \notin Clients

VARIABLES ticket,    \* order_tickets with their items
          sale,      \* sales with their payments, and what was given back of them
          session,   \* cash_sessions with the sum of their adjustments
          stock,     \* products.currentStock
          lock,      \* the cash lifecycle advisory lock
          request    \* the handlers that run

vars == <<ticket, sale, session, stock, lock, request>>

Kitchen == {"OPEN", "IN_PREPARATION", "SERVED"}
Active  == Kitchen \cup {"PAYMENT_PENDING"}
Closed  == {"PAID", "CANCELLED"}

TicketRow  == [status : {"ABSENT"} \cup Active \cup Closed, revision : Nat,
               items : {0} \cup Quantities, session : {0} \cup Sessions, source : {0} \cup Sales]
SaleRow    == [status : {"ABSENT", "PAID", "CANCELLED"}, items : {0} \cup Quantities,
               session : {0} \cup Sessions, ticket : Tickets \cup {NoTicket},
               charged : Tickets \cup {NoTicket}, reversals : Nat]
SessionRow == [status : {"ABSENT", "OPEN", "CLOSED"}, adjusted : Int, closings : Nat]
RequestRow == [op : {"idle", "create", "kitchen", "update", "items", "checkout", "reopen", "sale",
                     "convert", "restore", "open", "close"},
               ticket : Tickets \cup {NoTicket}, saw : TicketRow, sale : {0} \cup Sales,
               session : {0} \cup Sessions]

NoTicketRow == [status |-> "ABSENT", revision |-> 0, items |-> 0, session |-> 0, source |-> 0]
NoSale      == [status |-> "ABSENT", items |-> 0, session |-> 0, ticket |-> NoTicket,
                charged |-> NoTicket, reversals |-> 0]
NoSession   == [status |-> "ABSENT", adjusted |-> 0, closings |-> 0]
Idle        == [op |-> "idle", ticket |-> NoTicket, saw |-> NoTicketRow, sale |-> 0,
                session |-> 0]

Init ==
  /\ ticket = [t \in Tickets |-> NoTicketRow]
  /\ sale = [s \in Sales |-> NoSale]
  /\ session = [n \in Sessions |-> NoSession]
  /\ stock = InitialStock
  /\ lock = Nobody
  /\ request = [c \in Clients |-> Idle]

----------------------------------------------------------------------------
(* Rows.                                                                   *)

OpenSessions == {n \in Sessions : session[n].status = "OPEN"}
BoundTo(t)   == {s \in Sales : sale[s].ticket = t}
Converted(s) == \E t \in Tickets : ticket[t].source = s

FreshTicket(t)  == ticket[t].status = "ABSENT"
FreshSale(s)    == sale[s].status = "ABSENT" /\ \A r \in 1..(s - 1) : sale[r].status # "ABSENT"
FreshSession(n) == session[n].status = "ABSENT"
                   /\ \A m \in 1..(n - 1) : session[m].status # "ABSENT"

Ask(c, op, row) == request[c].op = "idle"
                   /\ request' = [request EXCEPT ![c] = [row EXCEPT !.op = op]]
Answer(c)       == request' = [request EXCEPT ![c] = Idle]
Serves(c, op)   == request[c].op = op

Overwrite(t, row) == ticket' = [ticket EXCEPT ![t] = row]
Revise(t, row) == /\ MapThenSumSet(LAMBDA u : ticket[u].revision, Tickets) < MaxWrites
                  /\ ticket' = [ticket EXCEPT ![t] = [row EXCEPT !.revision = ticket[t].revision + 1]]

(* A request that ends without having changed a row: a check that fails,   *)
(* a transaction that is rolled back, a process that dies.                 *)
GiveUp(c) ==
  /\ request[c].op # "idle" /\ Answer(c)
  /\ lock' = IF lock = c THEN Nobody ELSE lock
  /\ UNCHANGED <<ticket, sale, session, stock>>

----------------------------------------------------------------------------
(* What a sale takes and what its reversal gives back: createInTransaction *)
(* (orderTicketId is unique), restoreSaleStock and the ADJUSTMENT.         *)

Oversold(q) == TRUE
InStock(q) == stock >= q

Charge(s, q, n, t) ==
  /\ FreshSale(s) /\ InStock(q)
  /\ stock' = stock - q
  /\ sale' = [sale EXCEPT ![s] = [status |-> "PAID", items |-> q, session |-> n,
                                  ticket |-> t, charged |-> t, reversals |-> 0]]

Reverse(s, n) ==
  /\ stock' = stock + sale[s].items
  /\ session' = [session EXCEPT ![n].adjusted = @ - sale[s].items]
  /\ sale' = [sale EXCEPT ![s] = [sale[s] EXCEPT !.status = "CANCELLED", !.ticket = NoTicket,
                                                 !.reversals = @ + 1]]

----------------------------------------------------------------------------
(* Tickets: OrdersService.                                                 *)

ReadSession(c, op) ==
  /\ OpenSessions # {} /\ Ask(c, op, [Idle EXCEPT !.session = Max(OpenSessions)])
  /\ UNCHANGED <<ticket, sale, session, stock, lock>>

ReadTicket(c, op, t, statuses) ==
  /\ ticket[t].status \in statuses
  /\ Ask(c, op, [Idle EXCEPT !.ticket = t, !.saw = ticket[t]])
  /\ UNCHANGED <<ticket, sale, session, stock, lock>>

CreateRead(c) == ReadSession(c, "create")

Create(c) == \E t \in CounterTickets, q \in FirstQuantities :
  /\ Serves(c, "create") /\ FreshTicket(t) /\ Answer(c)
  /\ ticket' = [ticket EXCEPT ![t] = [NoTicketRow EXCEPT !.status = "OPEN", !.items = q,
                                        !.session = request[c].session]]
  /\ UNCHANGED <<sale, session, stock, lock>>

KitchenRead(c, t) == ReadTicket(c, "kitchen", t, {"OPEN", "IN_PREPARATION"})

KitchenWhere(row, saw) == row.revision = saw.revision /\ row.status = saw.status

TransitionKitchen(c) == LET t == request[c].ticket  saw == request[c].saw IN
  /\ Serves(c, "kitchen") /\ KitchenWhere(ticket[t], saw) /\ Answer(c)
  /\ Revise(t, [ticket[t] EXCEPT !.status = IF saw.status = "OPEN" THEN "IN_PREPARATION"
                                             ELSE "SERVED"])
  /\ UNCHANGED <<sale, session, stock, lock>>

UpdateRead(c, t) == ReadTicket(c, "update", t, Active)

(* The caller may name the revision it has seen; without a status of its   *)
(* own the one that was read is written back.                              *)
Update(c) == LET t == request[c].ticket  saw == request[c].saw IN
  \E named \in BOOLEAN, status \in {saw.status, "PAYMENT_PENDING", "CANCELLED"} :
    /\ Serves(c, "update") /\ (named => ticket[t].revision = saw.revision) /\ Answer(c)
    /\ Revise(t, [ticket[t] EXCEPT !.status = status])
    /\ UNCHANGED <<sale, session, stock, lock>>

ItemsRead(c, t) == ReadTicket(c, "items", t, Active)

ReplaceItems(c) == LET t == request[c].ticket  saw == request[c].saw IN
  \E named \in BOOLEAN, q \in Quantities :
    /\ Serves(c, "items") /\ (named => ticket[t].revision = saw.revision) /\ Answer(c)
    /\ IF q = ticket[t].items THEN UNCHANGED ticket
                              ELSE Revise(t, [ticket[t] EXCEPT !.items = q])
    /\ UNCHANGED <<sale, session, stock, lock>>

CheckoutRead(c, t) ==
  /\ ReadTicket(c, "checkout", t, Active)
  /\ session[ticket[t].session].status = "OPEN"

(* sales.orderTicketId is unique.                                          *)
DuplicateSale(t) == TRUE
Unsold(t) == BoundTo(t) = {}

(* The sale is made of what was read; the ticket is paid whatever it is by *)
(* now, and keeps its revision.                                            *)
Checkout(c) == LET t == request[c].ticket  saw == request[c].saw IN
  \E s \in Sales :
    /\ Serves(c, "checkout") /\ Unsold(t) /\ Charge(s, saw.items, saw.session, t)
    /\ ticket' = [ticket EXCEPT ![t].status = "PAID"] /\ Answer(c)
    /\ UNCHANGED <<session, lock>>

PaidSaleOf(t) == {s \in BoundTo(t) : sale[s].status = "PAID"}

ReopenRead(c, t) == \E s \in PaidSaleOf(t) :
  /\ ticket[t].status = "PAID"
  /\ Ask(c, "reopen", [Idle EXCEPT !.ticket = t, !.saw = ticket[t], !.sale = s])
  /\ UNCHANGED <<ticket, sale, session, stock, lock>>

(* The row lock, then the ticket and the status of its sale once more.     *)
NotLookedAtAgain(t) == TRUE
StillPaid(t) == ticket[t].status = "PAID" /\ PaidSaleOf(t) # {}

Reopen(c) == LET t == request[c].ticket  saw == request[c].saw IN
  /\ Serves(c, "reopen") /\ StillPaid(t) /\ session[saw.session].status = "OPEN" /\ Answer(c)
  /\ Reverse(request[c].sale, saw.session)
  /\ Revise(t, [ticket[t] EXCEPT !.status = "OPEN"])
  /\ UNCHANGED lock

----------------------------------------------------------------------------
(* Direct sales and their conversion: SalesService.                        *)

SaleRead(c) == ReadSession(c, "sale")

DirectSale(c) == \E s \in Sales, q \in FirstQuantities :
  /\ Serves(c, "sale") /\ Charge(s, q, request[c].session, NoTicket) /\ Answer(c)
  /\ UNCHANGED <<ticket, session, lock>>

ConvertRead(c, s) ==
  /\ sale[s].status = "PAID" /\ sale[s].ticket = NoTicket /\ ~Converted(s)
  /\ session[sale[s].session].status = "OPEN"
  /\ Ask(c, "convert", [Idle EXCEPT !.sale = s])
  /\ UNCHANGED <<ticket, sale, session, stock, lock>>

(* sale_conversions.saleId is unique.                                      *)
DuplicateConversion(s) == TRUE
Unconverted(s) == ~Converted(s)

Convert(c) == LET s == request[c].sale IN
  \E t \in Tickets :
    /\ Serves(c, "convert") /\ Unconverted(s) /\ FreshTicket(t) /\ Answer(c)
    /\ Reverse(s, sale[s].session)
    /\ ticket' = [ticket EXCEPT ![t] = [NoTicketRow EXCEPT !.status = "OPEN",
                    !.items = sale[s].items, !.session = sale[s].session, !.source = s]]
    /\ UNCHANGED lock

(* reopenConvertedOrder locks the source sale, then reads; it does not     *)
(* lock the ticket.                                                        *)
SourceFree(s) == \A d \in Clients : ~(request[d].op = "restore" /\ request[d].saw.source = s)

RestoreRead(c, t) == \E s \in PaidSaleOf(t) :
  /\ ticket[t].status = "PAID" /\ ticket[t].source # 0 /\ SourceFree(ticket[t].source)
  /\ session[sale[ticket[t].source].session].status = "OPEN"
  /\ Ask(c, "restore", [Idle EXCEPT !.ticket = t, !.saw = ticket[t], !.sale = s])
  /\ UNCHANGED <<ticket, sale, session, stock, lock>>

Restore(c) == LET t == request[c].ticket  saw == request[c].saw IN
  /\ Serves(c, "restore") /\ Answer(c)
  /\ Reverse(request[c].sale, saw.session)
  /\ Revise(t, [ticket[t] EXCEPT !.status = "OPEN", !.items = sale[saw.source].items])
  /\ UNCHANGED lock

----------------------------------------------------------------------------
(* Cash sessions: CashRegisterService.                                     *)

Unlocked == TRUE
LockFree == lock = Nobody

(* Both ways to open take the advisory lock and look for an open session.  *)
OpenRead(c) ==
  /\ LockFree /\ OpenSessions = {} /\ Ask(c, "open", Idle) /\ lock' = c
  /\ UNCHANGED <<ticket, sale, session, stock>>

OpenCash(c) == \E n \in Sessions :
  /\ Serves(c, "open") /\ FreshSession(n) /\ Answer(c)
  /\ session' = [session EXCEPT ![n] = [NoSession EXCEPT !.status = "OPEN"]]
  /\ lock' = IF lock = c THEN Nobody ELSE lock
  /\ UNCHANGED <<ticket, sale, stock>>

(* A closed session stays closed: a new one starts from its count.         *)
ReopenCash(c) == (\E m \in Sessions : session[m].status = "CLOSED") /\ OpenCash(c)

CloseRead(c) == LET n == Max(OpenSessions) IN
  /\ OpenSessions # {}
  /\ \A t \in Tickets : ticket[t].session = n => ticket[t].status \notin Active
  /\ Ask(c, "close", [Idle EXCEPT !.session = n])
  /\ UNCHANGED <<ticket, sale, session, stock, lock>>

Close(c) == LET n == request[c].session IN
  /\ Serves(c, "close") /\ session[n].status = "OPEN" /\ Answer(c)
  /\ session' = [session EXCEPT ![n] = [session[n] EXCEPT !.status = "CLOSED",
                                                          !.closings = @ + 1]]
  /\ UNCHANGED <<ticket, sale, stock, lock>>

----------------------------------------------------------------------------
Next ==
  \E c \in Clients :
    \/ GiveUp(c)
    \/ CreateRead(c) \/ Create(c)
    \/ TransitionKitchen(c) \/ Update(c) \/ ReplaceItems(c) \/ Checkout(c) \/ Reopen(c)
    \/ \E t \in Tickets : \/ KitchenRead(c, t) \/ UpdateRead(c, t) \/ ItemsRead(c, t)
                          \/ CheckoutRead(c, t) \/ ReopenRead(c, t) \/ RestoreRead(c, t)
    \/ SaleRead(c) \/ DirectSale(c) \/ Convert(c) \/ Restore(c)
    \/ \E s \in Sales : ConvertRead(c, s)
    \/ OpenRead(c) \/ OpenCash(c) \/ ReopenCash(c) \/ CloseRead(c) \/ Close(c)

Spec == Init /\ [][Next]_vars

----------------------------------------------------------------------------
TypeOK ==
  /\ ticket \in [Tickets -> TicketRow]
  /\ sale \in [Sales -> SaleRow]
  /\ session \in [Sessions -> SessionRow]
  /\ stock \in Nat
  /\ lock \in Clients \cup {Nobody}
  /\ request \in [Clients -> RequestRow]

(* However the requests interleave, no ticket has two sales that stand,    *)
(* and a ticket that is paid has one: the money of a PAID ticket is in the *)
(* books exactly once (checkout and reopen).                               *)
Standing(t)  == {s \in Sales : sale[s].charged = t /\ sale[s].status = "PAID"}
ChargedOnce ==
  \A t \in Tickets : /\ Cardinality(Standing(t)) <= 1
                     /\ ticket[t].status = "PAID" => Cardinality(PaidSaleOf(t)) = 1

(* A direct sale is turned into at most one ticket, and its stock and cash *)
(* are given back if and only if it was, once (convertToOrder).            *)
ConvertedOnce ==
  \A s \in Sales : sale[s].status # "ABSENT" /\ sale[s].charged = NoTicket =>
    /\ Cardinality({t \in Tickets : ticket[t].source = s}) = sale[s].reversals
    /\ sale[s].reversals <= 1

(* A ticket that was not made from a sale gives stock and cash back at     *)
(* most as often as it was charged (the row lock of reopen).  What was     *)
(* given back are pairs: the k-th reversal of a sale.                      *)
ChargedTo(t) == {s \in Sales : sale[s].charged = t}
GivenBack(t) == UNION {{<<s, k>> : k \in 1..sale[s].reversals} : s \in ChargedTo(t)}
ReversalsBacked ==
  \A t \in Tickets : ticket[t].source = 0 =>
    Cardinality(GivenBack(t)) <= Cardinality(ChargedTo(t))

(* What a request has read is still there while the revision is: only a    *)
(* payment changes a ticket without a new revision.  It is what protects   *)
(* a caller that names the revision from overwriting kitchen progress and  *)
(* other edits it has not seen (update, replaceItems, transitionKitchen).  *)
RevisionTellsAll ==
  \A c \in Clients : LET t == request[c].ticket  saw == request[c].saw IN
    t # NoTicket /\ ticket[t].revision = saw.revision =>
      /\ ticket[t].items = saw.items
      /\ ticket[t].status \in {saw.status, "PAID"}

(* There is at most one open cash session (open and reopen), and each one  *)
(* is closed at most once (close).                                         *)
OneOpenSession ==
  /\ Cardinality(OpenSessions) <= 1
  /\ \A n \in Sessions : session[n].closings <= 1

(* A comment in reopen says that concurrent requests cannot both reverse   *)
(* the same paid order.                                                    *)
ReversedOnce == \A s \in Sales : sale[s].reversals <= 1
=============================================================================
