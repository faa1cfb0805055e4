---------------------------- MODULE OrderDeskProofs ----------------------------
(***************************************************************************)
(* Tickets are charged once, sales converted once, and cash sessions open  *)
(* one at a time, for any number of requests, tickets, sales and sessions. *)
(* A request remembers of its ticket what was true of it at the revision   *)
(* it has read; who opens a session holds the lock and has seen none open. *)
(* Whatever a ticket gave back was charged to it before: a paid ticket has *)
(* a charge to spare (Backed), so also a late reversal has one behind it.  *)
(***************************************************************************)
EXTENDS OrderDesk, TLAPS, FiniteSetTheorems

(* A sale that stands is bound to the ticket it was charged to, no ticket  *)
(* has two, and a paid one has one.                                        *)
Bindings == \A s \in Sales :
  /\ sale[s].status = "PAID" => sale[s].ticket = sale[s].charged
  /\ sale[s].status # "PAID" => sale[s].ticket = NoTicket
  /\ sale[s].ticket # NoTicket => ticket[sale[s].ticket].status # "ABSENT"
Unique == \A r, s \in Sales : sale[r].ticket = sale[s].ticket /\ sale[s].ticket # NoTicket => r = s
Paid   == \A t \in Tickets : ticket[t].status = "PAID" => \E s \in Sales : sale[s].ticket = t

(* The sale a ticket was made from is a direct one, was given back once,   *)
(* and no other ticket was made from it.                                   *)
Sources == \A t \in Tickets :
  /\ ticket[t].status = "ABSENT" => ticket[t].source = 0
  /\ ticket[t].source # 0 => /\ sale[ticket[t].source].status # "ABSENT"
                             /\ sale[ticket[t].source].charged = NoTicket
                             /\ sale[ticket[t].source].reversals = 1
OneSource == \A t, u \in Tickets : ticket[t].source = ticket[u].source /\ ticket[t].source # 0 => t = u
Untouched == \A s \in Sales :
  sale[s].status # "ABSENT" /\ sale[s].charged = NoTicket /\ ~Converted(s) => sale[s].reversals = 0

(* What a request carries, whatever the others do.                         *)
Carries(c) == LET r == request[c] IN
  /\ r.op \in {"kitchen", "update", "items", "checkout", "reopen", "restore"} => r.ticket # NoTicket
  /\ r.op \in {"kitchen", "update", "items", "checkout"} => r.saw.status \in Active
  /\ r.op \in {"reopen", "restore", "convert"} => r.sale \in Sales
  /\ r.op = "restore" => r.saw.source \in Sales
  /\ r.op = "close" => r.session \in Sessions

(* What it knows of its ticket and of its sale.                            *)
Remembers(c) == LET t == request[c].ticket  saw == request[c].saw IN
  t # NoTicket =>
    /\ ticket[t].status # "ABSENT" /\ saw.revision <= ticket[t].revision
    /\ saw.revision = ticket[t].revision => /\ ticket[t].items = saw.items
                                            /\ ticket[t].status \in {saw.status, "PAID"}
KnowsSale(c) == LET r == request[c] IN
  /\ r.op \in {"reopen", "restore"} =>
       sale[r.sale].status # "ABSENT" /\ sale[r.sale].charged = r.ticket
  /\ r.op = "convert" => sale[r.sale].status # "ABSENT" /\ sale[r.sale].charged = NoTicket
Locks(c) == request[c].op = "open" => lock = c /\ OpenSessions = {}
Requests == \A c \in Clients : Carries(c) /\ Remembers(c) /\ KnowsSale(c) /\ Locks(c)

Cash ==
  /\ \A m, n \in OpenSessions : m = n
  /\ \A n \in Sessions : session[n].closings = IF session[n].status = "CLOSED" THEN 1 ELSE 0

Books == Bindings /\ Unique /\ Paid /\ Sources /\ OneSource /\ Untouched
Inv   == TypeOK /\ Books /\ Requests /\ Cash

----------------------------------------------------------------------------
LEMMA Initially == Init => Inv
  BY DeskAssumption DEF Init, Inv, TypeOK, Books, Bindings, Unique, Paid, Sources, OneSource,
     Untouched, Converted, Requests, Carries, Remembers, KnowsSale, Locks, Cash, OpenSessions,
     NoTicketRow, NoSale, NoSession, Idle, TicketRow, RequestRow, SaleRow, SessionRow, Active, Closed

(* What a sale and its reversal leave behind.                              *)
LEMMA Charging ==
  ASSUME TypeOK, NEW s \in Sales, NEW q \in {0} \cup Quantities, NEW n \in {0} \cup Sessions,
         NEW t \in Tickets \cup {NoTicket}, Charge(s, q, n, t)
  PROVE  /\ sale' \in [Sales -> SaleRow] /\ stock' \in Nat /\ sale[s].status = "ABSENT"
         /\ \A r \in Sales : r # s => sale'[r] = sale[r]
         /\ sale'[s].status = "PAID" /\ sale'[s].ticket = t /\ sale'[s].charged = t
         /\ sale'[s].reversals = 0
  <1>1. q \in Nat /\ stock \in Nat /\ stock >= q /\ stock' = stock - q
    BY DeskAssumption DEF TypeOK, Charge, InStock
  <1> QED BY <1>1 DEF TypeOK, Charge, FreshSale, SaleRow

LEMMA Reversing ==
  ASSUME TypeOK, NEW s \in Sales, NEW n, Reverse(s, n)
  PROVE  /\ sale' \in [Sales -> SaleRow] /\ stock' \in Nat /\ session' \in [Sessions -> SessionRow]
         /\ \A r \in Sales : r # s => sale'[r] = sale[r]
         /\ sale'[s].status = "CANCELLED" /\ sale'[s].ticket = NoTicket
         /\ sale'[s].charged = sale[s].charged /\ sale'[s].reversals = sale[s].reversals + 1
         /\ sale[s].reversals \in Nat
         /\ \A m \in Sessions : session'[m].status = session[m].status
                               /\ session'[m].closings = session[m].closings
  <1> DEFINE k == sale[s].reversals + 1
             a == session[n].adjusted - sale[s].items
  <1>1. sale[s] \in SaleRow /\ sale[s].reversals \in Nat /\ k \in Nat /\ sale[s].items \in Nat
    <2>1. sale[s] \in SaleRow /\ Quantities \subseteq Nat
      BY DeskAssumption DEF TypeOK
    <2>2. sale[s].reversals \in Nat /\ sale[s].items \in {0} \cup Quantities
      BY <2>1 DEF SaleRow
    <2> DEFINE x == sale[s].reversals
               y == sale[s].items
    <2>3. x \in Nat /\ y \in {0} \cup Quantities
      BY <2>2
    <2> HIDE DEF x, y
    <2>4. x + 1 \in Nat /\ y \in Nat
      BY <2>1, <2>3
    <2> QED BY <2>1, <2>3, <2>4 DEF x, y
  <1>2. stock' \in Nat
    BY <1>1 DEF TypeOK, Reverse
  <1>3. sale' = [sale EXCEPT ![s] = [sale[s] EXCEPT !.status = "CANCELLED", !.ticket = NoTicket,
                                                    !.reversals = k]]
    BY DEF Reverse
  <1>4. session' = [session EXCEPT ![n].adjusted = a] /\ (n \in Sessions => a \in Int)
    BY <1>1 DEF TypeOK, Reverse, SessionRow
  <1> HIDE DEF k, a
  <1>5. /\ session' \in [Sessions -> SessionRow]
        /\ \A m \in Sessions : session'[m].status = session[m].status
                              /\ session'[m].closings = session[m].closings
    BY <1>4 DEF TypeOK, SessionRow
  <1>6. /\ sale' \in [Sales -> SaleRow] /\ \A r \in Sales : r # s => sale'[r] = sale[r]
        /\ sale'[s].status = "CANCELLED" /\ sale'[s].ticket = NoTicket
        /\ sale'[s].charged = sale[s].charged /\ sale'[s].reversals = k
    BY <1>1, <1>3 DEF TypeOK, SaleRow
  <1> QED BY <1>1, <1>2, <1>5, <1>6 DEF k

----------------------------------------------------------------------------
(* A ticket that only moves on: with a new revision, or to PAID with the   *)
(* one it has.                                                             *)
MovesOn(t) ==
  ticket[t].status # "ABSENT" =>
    /\ ticket'[t].status # "ABSENT" /\ ticket'[t].revision >= ticket[t].revision
    /\ ticket'[t].revision = ticket[t].revision =>
         /\ ticket'[t].items = ticket[t].items
         /\ ticket'[t].status \in {ticket[t].status, "PAID"}

(* A sale that was made stays made, of the same ticket.                    *)
StaysMade(s) == sale[s].status # "ABSENT" =>
  sale'[s].status # "ABSENT" /\ sale'[s].charged = sale[s].charged

LEMMA Rewritten ==
  ASSUME TypeOK, NEW t \in Tickets, NEW row \in TicketRow, ticket' = [ticket EXCEPT ![t] = row],
         ticket[t].status # "ABSENT" =>
           /\ row.status # "ABSENT" /\ row.revision >= ticket[t].revision
           /\ row.revision = ticket[t].revision =>
                row.items = ticket[t].items /\ row.status \in {ticket[t].status, "PAID"}
  PROVE  /\ ticket' \in [Tickets -> TicketRow] /\ ticket'[t] = row
         /\ \A u \in Tickets : u # t => ticket'[u] = ticket[u]
         /\ \A u \in Tickets : MovesOn(u)
  <1>1. /\ ticket' \in [Tickets -> TicketRow] /\ ticket'[t] = row
        /\ \A u \in Tickets : u # t => ticket'[u] = ticket[u]
    BY DEF TypeOK
  <1>2. \A u \in Tickets : ticket[u].revision \in Nat
    BY DEF TypeOK, TicketRow
  <1>3. \A u \in Tickets : MovesOn(u)
    BY <1>1, <1>2 DEF MovesOn
  <1> QED BY <1>1, <1>3

LEMMA Still ==
  ASSUME TypeOK, UNCHANGED ticket
  PROVE  \A u \in Tickets : MovesOn(u)
  <1>1. \A u \in Tickets : ticket[u].revision \in Nat
    BY DEF TypeOK, TicketRow
  <1> QED BY <1>1 DEF MovesOn

(* What the other requests know stays true.                                *)
LEMMA OthersKeep ==
  ASSUME Inv, ticket' \in [Tickets -> TicketRow], \A t \in Tickets : MovesOn(t),
         \A s \in Sales : StaysMade(s), NEW d \in Clients, request'[d] = request[d]
  PROVE  Carries(d)' /\ Remembers(d)' /\ KnowsSale(d)'
  <1>1. request[d] \in RequestRow /\ Carries(d) /\ Remembers(d) /\ KnowsSale(d)
    BY DEF Inv, TypeOK, Requests
  <1>2. Carries(d)'
    BY <1>1 DEF Carries
  <1>3. KnowsSale(d)'
    BY <1>1 DEF Carries, KnowsSale, StaysMade
  <1>4. Remembers(d)'
    <2> DEFINE t == request[d].ticket
               saw == request[d].saw
    <2>1. CASE t = NoTicket
      BY <2>1 DEF Remembers
    <2>2. CASE t # NoTicket
      <3>1. t \in Tickets /\ saw \in TicketRow
        BY <1>1, <2>2 DEF RequestRow
      <3>2. /\ saw.revision \in Nat /\ ticket[t].revision \in Nat /\ ticket'[t].revision \in Nat
        BY <3>1 DEF Inv, TypeOK, TicketRow
      <3>3. MovesOn(t)
        BY <3>1
      <3>4. /\ ticket[t].status # "ABSENT" /\ saw.revision <= ticket[t].revision
            /\ saw.revision = ticket[t].revision => /\ ticket[t].items = saw.items
                                                    /\ ticket[t].status \in {saw.status, "PAID"}
        BY <1>1, <2>2 DEF Remembers
      <3> HIDE DEF t, saw
      <3>5. /\ ticket'[t].status # "ABSENT" /\ saw.revision <= ticket'[t].revision
            /\ saw.revision = ticket'[t].revision => /\ ticket'[t].items = saw.items
                                                     /\ ticket'[t].status \in {saw.status, "PAID"}
        BY <3>2, <3>3, <3>4 DEF MovesOn
      <3> QED BY <3>5 DEF Remembers, t, saw
    <2> QED BY <2>1, <2>2
  <1> QED BY <1>2, <1>3, <1>4

(* A request that is answered leaves the others as they are.               *)
LEMMA Answering ==
  ASSUME Inv, ticket' \in [Tickets -> TicketRow], \A t \in Tickets : MovesOn(t),
         \A s \in Sales : StaysMade(s), NEW c \in Clients, Answer(c),
         \A d \in Clients : d # c => Locks(d)'
  PROVE  request' \in [Clients -> RequestRow] /\ Requests'
  <1>1. Idle \in RequestRow /\ Idle.op = "idle" /\ Idle.ticket = NoTicket
    BY DEF Idle, RequestRow, NoTicketRow, TicketRow
  <1>2. /\ request' \in [Clients -> RequestRow] /\ request'[c] = Idle
        /\ \A d \in Clients : d # c => request'[d] = request[d]
    BY <1>1 DEF Inv, TypeOK, Answer
  <1>3. ASSUME NEW d \in Clients PROVE Carries(d)' /\ Remembers(d)' /\ KnowsSale(d)' /\ Locks(d)'
    <2>1. CASE d = c
      BY <1>1, <1>2, <2>1 DEF Carries, Remembers, KnowsSale, Locks
    <2>2. CASE d # c
      BY <1>2, <2>2, OthersKeep
    <2> QED BY <2>1, <2>2
  <1> QED BY <1>2, <1>3 DEF Requests

(* A request that has read: nothing else changes but the lock.             *)
LEMMA Asking ==
  ASSUME Inv, NEW c \in Clients, NEW r \in RequestRow, request' = [request EXCEPT ![c] = r],
         UNCHANGED <<ticket, sale, session, stock>>, lock' \in Clients \cup {Nobody},
         Carries(c)', Remembers(c)', KnowsSale(c)', \A d \in Clients : Locks(d)'
  PROVE  Inv'
  <1>1. /\ request' \in [Clients -> RequestRow] /\ \A d \in Clients : d # c => request'[d] = request[d]
    BY DEF Inv, TypeOK
  <1>2. \A u \in Tickets : MovesOn(u)
    BY Still DEF Inv
  <1>3. \A s \in Sales : StaysMade(s)
    BY DEF StaysMade
  <1>4. Requests'
    <2> SUFFICES ASSUME NEW d \in Clients
                 PROVE  Carries(d)' /\ Remembers(d)' /\ KnowsSale(d)' /\ Locks(d)'
      BY DEF Requests
    <2>1. ticket' \in [Tickets -> TicketRow]
      BY DEF Inv, TypeOK
    <2> QED BY <1>1, <1>2, <1>3, <2>1, OthersKeep
  <1>5. TypeOK'
    BY <1>1 DEF Inv, TypeOK
  <1>6. Books' /\ Cash'
    BY DEF Inv, Books, Bindings, Unique, Paid, Sources, OneSource, Untouched, Converted, Cash,
       OpenSessions
  <1> QED BY <1>4, <1>5, <1>6 DEF Inv

----------------------------------------------------------------------------
(* Writes of a ticket.                                                     *)

LEMMA Revising ==
  ASSUME TypeOK, NEW t \in Tickets, NEW row \in TicketRow, Revise(t, row)
  PROVE  \E new \in TicketRow :
           /\ ticket' = [ticket EXCEPT ![t] = new]
           /\ new.revision >= ticket[t].revision /\ new.revision # ticket[t].revision
           /\ new.status = row.status /\ new.items = row.items /\ new.source = row.source
  <1> DEFINE n == ticket[t].revision + 1
  <1>1. ticket[t].revision \in Nat
    BY DEF TypeOK, TicketRow
  <1>2. n \in Nat /\ n >= ticket[t].revision /\ n # ticket[t].revision
    BY <1>1
  <1>3. ticket' = [ticket EXCEPT ![t] = [row EXCEPT !.revision = n]]
    BY DEF Revise
  <1> HIDE DEF n
  <1>4. [row EXCEPT !.revision = n] \in TicketRow
    BY <1>2 DEF TicketRow
  <1>5. /\ [row EXCEPT !.revision = n].revision = n
        /\ [row EXCEPT !.revision = n].status = row.status
        /\ [row EXCEPT !.revision = n].items = row.items
        /\ [row EXCEPT !.revision = n].source = row.source
    BY DEF TicketRow
  <1> QED BY <1>2, <1>3, <1>4, <1>5

(* An edit moves no money: it neither pays a ticket nor changes what it    *)
(* was made from.                                                          *)
LEMMA Editing ==
  ASSUME Inv, NEW c \in Clients, NEW t \in Tickets, NEW row \in TicketRow,
         ticket' = [ticket EXCEPT ![t] = row], Answer(c), UNCHANGED <<sale, session, stock, lock>>,
         row.status # "ABSENT", row.source = ticket[t].source,
         row.status = "PAID" => ticket[t].status = "PAID",
         ticket[t].status # "ABSENT" =>
           /\ row.revision >= ticket[t].revision
           /\ row.revision = ticket[t].revision =>
                row.items = ticket[t].items /\ row.status \in {ticket[t].status, "PAID"}
  PROVE  Inv'
  <1>1. /\ ticket' \in [Tickets -> TicketRow] /\ ticket'[t] = row
        /\ \A u \in Tickets : u # t => ticket'[u] = ticket[u]
        /\ \A u \in Tickets : MovesOn(u)
    BY Rewritten DEF Inv
  <1>2. \A u \in Tickets : ticket'[u].source = ticket[u].source
    BY <1>1
  <1>3. Books'
    <2>1. Bindings' /\ Unique' /\ Paid'
      BY <1>1 DEF Inv, Books, Bindings, Unique, Paid
    <2>2. \A s \in Sales : Converted(s)' <=> Converted(s)
      BY <1>2 DEF Converted
    <2>3. Sources' /\ OneSource' /\ Untouched'
      BY <1>1, <1>2, <2>2 DEF Inv, Books, Sources, OneSource, Untouched
    <2> QED BY <2>1, <2>3 DEF Books
  <1>4. request' \in [Clients -> RequestRow] /\ Requests'
    <2>1. \A s \in Sales : StaysMade(s)
      BY DEF StaysMade
    <2>2. \A d \in Clients : d # c => Locks(d)'
      BY DEF Inv, TypeOK, Requests, Locks, Answer, OpenSessions
    <2> QED BY <1>1, <2>1, <2>2, Answering
  <1>5. TypeOK' /\ Cash'
    BY <1>1, <1>4 DEF Inv, TypeOK, Cash, OpenSessions
  <1> QED BY <1>3, <1>4, <1>5 DEF Inv

LEMMA KitchenMoves ==
  ASSUME Inv, NEW c \in Clients, TransitionKitchen(c)
  PROVE  Inv'
  <1> DEFINE t == request[c].ticket
             saw == request[c].saw
             row == [ticket[t] EXCEPT !.status = IF saw.status = "OPEN" THEN "IN_PREPARATION"
                                                 ELSE "SERVED"]
  <1>1. t \in Tickets /\ ticket[t].status # "ABSENT"
    BY DEF Inv, TypeOK, Requests, Carries, Remembers, TransitionKitchen, Serves, RequestRow
  <1>2. row \in TicketRow /\ row.status \in {"IN_PREPARATION", "SERVED"} /\ row.source = ticket[t].source
    BY <1>1 DEF Inv, TypeOK, TicketRow, Active, Kitchen
  <1>3. /\ Revise(t, row) /\ Answer(c) /\ UNCHANGED <<sale, session, stock, lock>>
    BY DEF TransitionKitchen
  <1> HIDE DEF row, t
  <1>4. PICK new \in TicketRow :
           /\ ticket' = [ticket EXCEPT ![t] = new]
           /\ new.revision >= ticket[t].revision /\ new.revision # ticket[t].revision
           /\ new.status = row.status /\ new.items = row.items /\ new.source = row.source
    BY <1>1, <1>2, <1>3, Revising DEF Inv
  <1> QED BY <1>1, <1>2, <1>3, <1>4, Editing

LEMMA StatusWritten ==
  ASSUME Inv, NEW c \in Clients, Update(c)
  PROVE  Inv'
  <1> DEFINE t == request[c].ticket
             saw == request[c].saw
  <1>1. /\ t \in Tickets /\ ticket[t].status # "ABSENT" /\ saw.status \in Active
    BY DEF Inv, TypeOK, Requests, Carries, Remembers, Update, Serves, RequestRow
  <1>2. PICK status \in {saw.status, "PAYMENT_PENDING", "CANCELLED"} :
          Revise(t, [ticket[t] EXCEPT !.status = status])
    BY DEF Update
  <1>3. Answer(c) /\ UNCHANGED <<sale, session, stock, lock>>
    BY DEF Update
  <1> DEFINE row == [ticket[t] EXCEPT !.status = status]
  <1>4. status \in Active \cup {"CANCELLED"}
    BY <1>1, <1>2 DEF Active
  <1> HIDE DEF t, saw
  <1>5. row \in TicketRow /\ row.status = status /\ row.source = ticket[t].source
    BY <1>1, <1>4 DEF Inv, TypeOK, TicketRow, Closed
  <1>6. status # "ABSENT" /\ status # "PAID"
    BY <1>4 DEF Active, Kitchen
  <1>7. Revise(t, row)
    BY <1>2
  <1> HIDE DEF row
  <1>8. PICK new \in TicketRow :
           /\ ticket' = [ticket EXCEPT ![t] = new]
           /\ new.revision >= ticket[t].revision /\ new.revision # ticket[t].revision
           /\ new.status = row.status /\ new.items = row.items /\ new.source = row.source
    BY <1>1, <1>5, <1>7, Revising DEF Inv
  <1> QED BY <1>1, <1>3, <1>5, <1>6, <1>8, Editing

LEMMA ItemsReplaced ==
  ASSUME Inv, NEW c \in Clients, ReplaceItems(c)
  PROVE  Inv'
  <1> DEFINE t == request[c].ticket
  <1>1. /\ t \in Tickets /\ ticket[t].status # "ABSENT" /\ ticket[t] \in TicketRow
    BY DEF Inv, TypeOK, Requests, Carries, Remembers, ReplaceItems, Serves, RequestRow
  <1>2. PICK q \in Quantities : IF q = ticket[t].items THEN UNCHANGED ticket
                                ELSE Revise(t, [ticket[t] EXCEPT !.items = q])
    BY DEF ReplaceItems
  <1>3. Answer(c) /\ UNCHANGED <<sale, session, stock, lock>>
    BY DEF ReplaceItems
  <1> HIDE DEF t
  <1>4. CASE UNCHANGED ticket
    <2> DEFINE row == ticket[t]
    <2>1. ticket' = [ticket EXCEPT ![t] = row]
      BY <1>4 DEF Inv, TypeOK
    <2>2. row.revision >= ticket[t].revision
      BY <1>1 DEF TicketRow
    <2>3. /\ row \in TicketRow /\ row.status = ticket[t].status /\ row.source = ticket[t].source
          /\ row.items = ticket[t].items /\ row.status # "ABSENT"
      BY <1>1
    <2> HIDE DEF row
    <2> QED BY <1>1, <1>3, <2>1, <2>2, <2>3, Editing
  <1>5. CASE Revise(t, [ticket[t] EXCEPT !.items = q])
    <2> DEFINE row == [ticket[t] EXCEPT !.items = q]
    <2>1. row \in TicketRow /\ row.status = ticket[t].status /\ row.source = ticket[t].source
      BY <1>1 DEF TicketRow
    <2>2. Revise(t, row)
      BY <1>5
    <2> HIDE DEF row
    <2>3. PICK new \in TicketRow :
             /\ ticket' = [ticket EXCEPT ![t] = new]
             /\ new.revision >= ticket[t].revision /\ new.revision # ticket[t].revision
             /\ new.status = row.status /\ new.items = row.items /\ new.source = row.source
      BY <1>1, <2>1, <2>2, Revising DEF Inv
    <2> QED BY <1>1, <1>3, <2>1, <2>3, Editing
  <1> QED BY <1>2, <1>4, <1>5

LEMMA Created ==
  ASSUME Inv, NEW c \in Clients, Create(c)
  PROVE  Inv'
  <1>1. PICK t \in CounterTickets, q \in FirstQuantities :
          /\ FreshTicket(t) /\ Answer(c) /\ UNCHANGED <<sale, session, stock, lock>>
          /\ ticket' = [ticket EXCEPT ![t] = [NoTicketRow EXCEPT !.status = "OPEN", !.items = q,
                                              !.session = request[c].session]]
    BY DEF Create
  <1> DEFINE row == [NoTicketRow EXCEPT !.status = "OPEN", !.items = q,
                                        !.session = request[c].session]
  <1>2. t \in Tickets /\ q \in Quantities /\ request[c].session \in {0} \cup Sessions
    BY DeskAssumption DEF Inv, TypeOK, RequestRow
  <1>3. row \in TicketRow /\ row.status = "OPEN" /\ row.source = 0
    BY <1>2 DEF TicketRow, NoTicketRow, Active, Kitchen
  <1>4. ticket[t].status = "ABSENT" /\ ticket[t].source = 0
    BY <1>1, <1>2 DEF FreshTicket, Inv, Books, Sources
  <1>5. ticket' = [ticket EXCEPT ![t] = row]
    BY <1>1
  <1> HIDE DEF row
  <1> QED BY <1>1, <1>2, <1>3, <1>4, <1>5, Editing

----------------------------------------------------------------------------
(* Reads.                                                                  *)

LEMMA LastOpen ==
  ASSUME Inv, OpenSessions # {}
  PROVE  Max(OpenSessions) \in OpenSessions /\ Max(OpenSessions) \in Sessions
  <1>1. PICK n \in OpenSessions : OpenSessions = {n}
    BY DEF Inv, Cash
  <1>2. n \in Int /\ OpenSessions \subseteq Sessions
    <2> DEFINE k == Cardinality(Sessions)
    <2>1. k \in Nat /\ Sessions = 1..k
      BY DeskAssumption, FS_CardinalityType
    <2> HIDE DEF k
    <2>2. OpenSessions \subseteq Sessions /\ n \in Sessions
      BY DEF OpenSessions
    <2> QED BY <2>1, <2>2
  <1>3. \A y \in {n} : n >= y
    BY <1>2
  <1>4. Max({n}) = CHOOSE x \in {n} : \A y \in {n} : x >= y
    BY DEF Max
  <1>5. Max({n}) = n
    BY <1>3, <1>4
  <1> QED BY <1>1, <1>2, <1>5

LEMMA Reading ==
  ASSUME Inv, NEW c \in Clients, NEW op, NEW row, Ask(c, op, row), [row EXCEPT !.op = op] \in RequestRow,
         [row EXCEPT !.op = op].op = op, op # "open",
         UNCHANGED <<ticket, sale, session, stock, lock>>
  PROVE  /\ request'[c] = [row EXCEPT !.op = op]
         /\ Carries(c)' /\ Remembers(c)' /\ KnowsSale(c)' => Inv'
  <1> DEFINE r == [row EXCEPT !.op = op]
  <1>1. r \in RequestRow /\ request' = [request EXCEPT ![c] = r] /\ r.op # "open"
    BY DEF Ask
  <1> HIDE DEF r
  <1>2. request'[c] = r /\ \A d \in Clients : d # c => request'[d] = request[d]
    BY <1>1 DEF Inv, TypeOK
  <1>3. \A d \in Clients : Locks(d)'
    BY <1>1, <1>2 DEF Inv, Requests, Locks, OpenSessions
  <1>4. lock' \in Clients \cup {Nobody}
    BY DEF Inv, TypeOK
  <1>5. Carries(c)' /\ Remembers(c)' /\ KnowsSale(c)' => Inv'
    BY <1>1, <1>3, <1>4, Asking
  <1> QED BY <1>2, <1>5 DEF r

LEMMA TicketRead ==
  ASSUME Inv, NEW c \in Clients, NEW op \in {"kitchen", "update", "items", "checkout"},
         NEW t \in Tickets, NEW statuses \in SUBSET Active, ReadTicket(c, op, t, statuses)
  PROVE  Inv'
  <1> DEFINE row == [Idle EXCEPT !.ticket = t, !.saw = ticket[t]]
             r   == [row EXCEPT !.op = op]
  <1>1. ticket[t] \in TicketRow /\ ticket[t].revision \in Nat /\ ticket[t].status \in Active
    BY DEF ReadTicket, Inv, TypeOK, TicketRow
  <1>2. /\ r \in RequestRow /\ r.op = op /\ r.ticket = t /\ r.saw = ticket[t]
    BY <1>1 DEF Idle, RequestRow
  <1>3. Ask(c, op, row) /\ UNCHANGED <<ticket, sale, session, stock, lock>>
    BY DEF ReadTicket
  <1> HIDE DEF row
  <1>4. request'[c] = r /\ (Carries(c)' /\ Remembers(c)' /\ KnowsSale(c)' => Inv')
    BY <1>2, <1>3, Reading
  <1> HIDE DEF r
  <1>5. t # NoTicket
    BY DeskAssumption
  <1>6. Carries(c)' /\ KnowsSale(c)'
    BY <1>1, <1>2, <1>4, <1>5 DEF Carries, KnowsSale
  <1>7. Remembers(c)'
    BY <1>1, <1>2, <1>3, <1>4 DEF Remembers, Active, Kitchen
  <1> QED BY <1>4, <1>6, <1>7

LEMMA SessionRead ==
  ASSUME Inv, NEW c \in Clients, NEW op \in {"create", "sale"}, ReadSession(c, op)
  PROVE  Inv'
  <1> DEFINE n   == Max(OpenSessions)
             row == [Idle EXCEPT !.session = n]
             r   == [row EXCEPT !.op = op]
  <1>1. n \in Sessions
    BY LastOpen DEF ReadSession
  <1>2. Ask(c, op, row) /\ UNCHANGED <<ticket, sale, session, stock, lock>>
    BY DEF ReadSession
  <1> HIDE DEF n
  <1>3. r \in RequestRow /\ r.op = op /\ r.ticket = NoTicket
    BY <1>1 DEF Idle, RequestRow, NoTicketRow, TicketRow
  <1> HIDE DEF row
  <1>4. request'[c] = r /\ (Carries(c)' /\ Remembers(c)' /\ KnowsSale(c)' => Inv')
    BY <1>2, <1>3, Reading
  <1> HIDE DEF r
  <1>5. Carries(c)' /\ Remembers(c)' /\ KnowsSale(c)'
    BY <1>3, <1>4 DEF Carries, Remembers, KnowsSale
  <1> QED BY <1>4, <1>5

LEMMA CloseReads ==
  ASSUME Inv, NEW c \in Clients, CloseRead(c)
  PROVE  Inv'
  <1> DEFINE n   == Max(OpenSessions)
             row == [Idle EXCEPT !.session = n]
             r   == [row EXCEPT !.op = "close"]
  <1>1. n \in Sessions
    BY LastOpen DEF CloseRead
  <1>2. Ask(c, "close", row) /\ UNCHANGED <<ticket, sale, session, stock, lock>>
    BY DEF CloseRead
  <1> HIDE DEF n
  <1>3. r \in RequestRow /\ r.op = "close" /\ r.ticket = NoTicket /\ r.session = n
    BY <1>1 DEF Idle, RequestRow, NoTicketRow, TicketRow
  <1> HIDE DEF row
  <1>4. request'[c] = r /\ (Carries(c)' /\ Remembers(c)' /\ KnowsSale(c)' => Inv')
    BY <1>2, <1>3, Reading
  <1> HIDE DEF r
  <1>5. Carries(c)' /\ Remembers(c)' /\ KnowsSale(c)'
    BY <1>1, <1>3, <1>4 DEF Carries, Remembers, KnowsSale
  <1> QED BY <1>4, <1>5

(* A paid ticket is read with the sale it is bound to.                     *)
LEMMA PaidRead ==
  ASSUME Inv, NEW c \in Clients, NEW op \in {"reopen", "restore"}, NEW t \in Tickets,
         NEW s \in PaidSaleOf(t), ticket[t].status = "PAID",
         op = "restore" => ticket[t].source # 0,
         Ask(c, op, [Idle EXCEPT !.ticket = t, !.saw = ticket[t], !.sale = s]),
         UNCHANGED <<ticket, sale, session, stock, lock>>
  PROVE  Inv'
  <1> DEFINE row == [Idle EXCEPT !.ticket = t, !.saw = ticket[t], !.sale = s]
             r   == [row EXCEPT !.op = op]
  <1>1. /\ ticket[t] \in TicketRow /\ ticket[t].revision \in Nat /\ t # NoTicket /\ s \in Sales
        /\ ticket[t].source \in {0} \cup Sales
    BY DeskAssumption DEF Inv, TypeOK, TicketRow, PaidSaleOf, BoundTo
  <1>2. sale[s].status = "PAID" /\ sale[s].charged = t
    BY <1>1 DEF PaidSaleOf, BoundTo, Inv, Books, Bindings
  <1>3. r \in RequestRow /\ r.op = op /\ r.ticket = t /\ r.saw = ticket[t] /\ r.sale = s
    BY <1>1 DEF Idle, RequestRow
  <1>4. Ask(c, op, row)
    OBVIOUS
  <1> HIDE DEF row
  <1>5. request'[c] = r /\ (Carries(c)' /\ Remembers(c)' /\ KnowsSale(c)' => Inv')
    BY <1>3, <1>4, Reading
  <1> HIDE DEF r
  <1>6. Carries(c)' /\ KnowsSale(c)'
    BY <1>1, <1>2, <1>3, <1>5 DEF Carries, KnowsSale
  <1>7. Remembers(c)'
    BY <1>1, <1>3, <1>5 DEF Remembers
  <1> QED BY <1>5, <1>6, <1>7

LEMMA ConvertReads ==
  ASSUME Inv, NEW c \in Clients, NEW s \in Sales, ConvertRead(c, s)
  PROVE  Inv'
  <1> DEFINE row == [Idle EXCEPT !.sale = s]
             r   == [row EXCEPT !.op = "convert"]
  <1>1. /\ Ask(c, "convert", row) /\ UNCHANGED <<ticket, sale, session, stock, lock>>
        /\ sale[s].status = "PAID" /\ sale[s].ticket = NoTicket
    BY DEF ConvertRead
  <1>2. r \in RequestRow /\ r.op = "convert" /\ r.ticket = NoTicket /\ r.sale = s
    BY DEF Idle, RequestRow, NoTicketRow, TicketRow
  <1> HIDE DEF row
  <1>3. request'[c] = r /\ (Carries(c)' /\ Remembers(c)' /\ KnowsSale(c)' => Inv')
    BY <1>1, <1>2, Reading
  <1> HIDE DEF r
  <1>4. sale[s].charged = NoTicket
    BY <1>1 DEF Inv, Books, Bindings
  <1>5. Carries(c)' /\ Remembers(c)' /\ KnowsSale(c)'
    BY <1>1, <1>2, <1>3, <1>4 DEF Carries, Remembers, KnowsSale
  <1> QED BY <1>3, <1>5

LEMMA OpenReads ==
  ASSUME Inv, NEW c \in Clients, OpenRead(c)
  PROVE  Inv'
  <1> DEFINE r == [Idle EXCEPT !.op = "open"]
  <1>1. r \in RequestRow /\ r.op = "open" /\ r.ticket = NoTicket
    BY DEF Idle, RequestRow, NoTicketRow, TicketRow
  <1>2. /\ request' = [request EXCEPT ![c] = r] /\ lock = Nobody /\ lock' = c /\ OpenSessions = {}
        /\ UNCHANGED <<ticket, sale, session, stock>>
    BY DEF OpenRead, Ask, LockFree
  <1> HIDE DEF r
  <1>3. request'[c] = r /\ \A d \in Clients : d # c => request'[d] = request[d]
    BY <1>2 DEF Inv, TypeOK
  <1>4. OpenSessions' = {}
    BY <1>2 DEF OpenSessions
  <1>5. \A d \in Clients : d # Nobody
    BY DeskAssumption
  <1>6. \A d \in Clients : Locks(d)'
    BY <1>2, <1>3, <1>4, <1>5 DEF Inv, Requests, Locks
  <1>7. Carries(c)' /\ Remembers(c)' /\ KnowsSale(c)'
    BY <1>1, <1>3 DEF Carries, Remembers, KnowsSale
  <1> QED BY <1>1, <1>2, <1>6, <1>7, Asking

LEMMA GivesUp ==
  ASSUME Inv, NEW c \in Clients, GiveUp(c)
  PROVE  Inv'
  <1>1. /\ request' = [request EXCEPT ![c] = Idle] /\ lock' = IF lock = c THEN Nobody ELSE lock
        /\ UNCHANGED <<ticket, sale, session, stock>>
    BY DEF GiveUp, Answer
  <1>2. Idle \in RequestRow /\ Idle.op = "idle" /\ Idle.ticket = NoTicket
    BY DEF Idle, RequestRow, NoTicketRow, TicketRow
  <1>3. request'[c] = Idle /\ \A d \in Clients : d # c => request'[d] = request[d]
    BY <1>1 DEF Inv, TypeOK
  <1>4. OpenSessions' = OpenSessions
    BY <1>1 DEF OpenSessions
  <1>5. \A d \in Clients : Locks(d)'
    BY <1>1, <1>2, <1>3, <1>4 DEF Inv, Requests, Locks
  <1>6. lock' \in Clients \cup {Nobody}
    BY <1>1 DEF Inv, TypeOK
  <1>7. Carries(c)' /\ Remembers(c)' /\ KnowsSale(c)'
    BY <1>2, <1>3 DEF Carries, Remembers, KnowsSale
  <1> QED BY <1>1, <1>2, <1>5, <1>6, <1>7, Asking

----------------------------------------------------------------------------
(* Cash sessions.                                                          *)

LEMMA Opens ==
  ASSUME Inv, NEW c \in Clients, OpenCash(c)
  PROVE  Inv'
  <1>1. PICK n \in Sessions :
          /\ FreshSession(n) /\ session' = [session EXCEPT ![n] = [NoSession EXCEPT !.status = "OPEN"]]
    BY DEF OpenCash
  <1>2. /\ request[c].op = "open" /\ Answer(c) /\ UNCHANGED <<ticket, sale, stock>>
        /\ lock' = IF lock = c THEN Nobody ELSE lock
    BY DEF OpenCash, Serves
  <1>3. lock = c /\ OpenSessions = {}
    BY <1>2 DEF Inv, Requests, Locks
  <1>4. \A d \in Clients : d # c => request[d].op # "open"
    BY <1>3 DEF Inv, Requests, Locks
  <1>5. /\ session' \in [Sessions -> SessionRow]
        /\ \A m \in Sessions : m # n => session'[m] = session[m]
        /\ session'[n].status = "OPEN" /\ session'[n].closings = 0
    BY <1>1 DEF Inv, TypeOK, SessionRow, NoSession
  <1>6. Cash'
    <2>1. OpenSessions' = {n}
      BY <1>3, <1>5 DEF OpenSessions
    <2>2. \A m \in Sessions : session'[m].closings = IF session'[m].status = "CLOSED" THEN 1 ELSE 0
      BY <1>5 DEF Inv, Cash
    <2> QED BY <2>1, <2>2 DEF Cash
  <1>7. request' \in [Clients -> RequestRow] /\ Requests'
    <2>1. \A u \in Tickets : MovesOn(u)
      BY <1>2, Still DEF Inv
    <2>2. \A s \in Sales : StaysMade(s)
      BY <1>2 DEF StaysMade
    <2>3. \A d \in Clients : d # c => Locks(d)'
      BY <1>2, <1>4 DEF Inv, TypeOK, Locks, Answer
    <2>4. ticket' \in [Tickets -> TicketRow]
      BY <1>2 DEF Inv, TypeOK
    <2> QED BY <1>2, <2>1, <2>2, <2>3, <2>4, Answering
  <1>8. Books'
    BY <1>2 DEF Inv, Books, Bindings, Unique, Paid, Sources, OneSource, Untouched, Converted
  <1>9. TypeOK'
    BY <1>2, <1>5, <1>7 DEF Inv, TypeOK
  <1> QED BY <1>6, <1>7, <1>8, <1>9 DEF Inv

LEMMA Closes ==
  ASSUME Inv, NEW c \in Clients, Close(c)
  PROVE  Inv'
  <1> DEFINE n == request[c].session
             k == session[n].closings + 1
  <1>1. /\ n \in Sessions /\ session[n].status = "OPEN" /\ Answer(c)
        /\ UNCHANGED <<ticket, sale, stock, lock>>
        /\ session' = [session EXCEPT ![n] = [session[n] EXCEPT !.status = "CLOSED", !.closings = k]]
    BY DEF Close, Serves, Inv, Requests, Carries
  <1>2. k = 1
    <2>1. session[n].closings = 0
      BY <1>1 DEF Inv, Cash
    <2> QED BY <2>1
  <1> HIDE DEF k, n
  <1>3. /\ session' \in [Sessions -> SessionRow]
        /\ \A m \in Sessions : m # n => session'[m] = session[m]
        /\ session'[n].status = "CLOSED" /\ session'[n].closings = 1
    BY <1>1, <1>2 DEF Inv, TypeOK, SessionRow
  <1>4. OpenSessions' \subseteq OpenSessions
    BY <1>3 DEF OpenSessions
  <1>5. Cash'
    <2>1. \A m \in Sessions : session'[m].closings = IF session'[m].status = "CLOSED" THEN 1 ELSE 0
      BY <1>3 DEF Inv, Cash
    <2> QED BY <1>4, <2>1 DEF Inv, Cash
  <1>6. request' \in [Clients -> RequestRow] /\ Requests'
    <2>1. \A u \in Tickets : MovesOn(u)
      BY <1>1, Still DEF Inv
    <2>2. \A s \in Sales : StaysMade(s)
      BY <1>1 DEF StaysMade
    <2>3. \A d \in Clients : d # c => Locks(d)'
      BY <1>1, <1>4 DEF Inv, TypeOK, Requests, Locks, Answer
    <2>4. ticket' \in [Tickets -> TicketRow]
      BY <1>1 DEF Inv, TypeOK
    <2> QED BY <1>1, <2>1, <2>2, <2>3, <2>4, Answering
  <1>7. Books'
    BY <1>1 DEF Inv, Books, Bindings, Unique, Paid, Sources, OneSource, Untouched, Converted
  <1>8. TypeOK'
    BY <1>1, <1>3, <1>6 DEF Inv, TypeOK
  <1> QED BY <1>5, <1>6, <1>7, <1>8 DEF Inv

----------------------------------------------------------------------------
(* Sales.                                                                  *)

LEMMA SoldDirectly ==
  ASSUME Inv, NEW c \in Clients, DirectSale(c)
  PROVE  Inv'
  <1>1. PICK s \in Sales, q \in FirstQuantities : Charge(s, q, request[c].session, NoTicket)
    BY DEF DirectSale
  <1>2. Answer(c) /\ UNCHANGED <<ticket, session, lock>>
    BY DEF DirectSale
  <1>3. q \in {0} \cup Quantities /\ request[c].session \in {0} \cup Sessions
    BY DeskAssumption DEF Inv, TypeOK, RequestRow
  <1>4. /\ sale' \in [Sales -> SaleRow] /\ stock' \in Nat /\ sale[s].status = "ABSENT"
        /\ \A r \in Sales : r # s => sale'[r] = sale[r]
        /\ sale'[s].status = "PAID" /\ sale'[s].ticket = NoTicket /\ sale'[s].charged = NoTicket
        /\ sale'[s].reversals = 0
    BY <1>1, <1>3, Charging DEF Inv
  <1>5. Books'
    <2>1. Bindings' /\ Unique'
      BY <1>2, <1>4 DEF Inv, Books, Bindings, Unique
    <2>2. Paid'
      BY <1>2, <1>4, DeskAssumption DEF Inv, Books, Bindings, Paid
    <2>3. Sources' /\ OneSource' /\ Untouched'
      BY <1>2, <1>4 DEF Inv, TypeOK, TicketRow, Books, Sources, OneSource, Untouched, Converted
    <2> QED BY <2>1, <2>2, <2>3 DEF Books
  <1>6. request' \in [Clients -> RequestRow] /\ Requests'
    <2>1. \A u \in Tickets : MovesOn(u)
      BY <1>2, Still DEF Inv
    <2>2. \A r \in Sales : StaysMade(r)
      BY <1>4 DEF StaysMade
    <2>3. \A d \in Clients : d # c => Locks(d)'
      BY <1>2 DEF Inv, TypeOK, Requests, Locks, Answer, OpenSessions
    <2>4. ticket' \in [Tickets -> TicketRow]
      BY <1>2 DEF Inv, TypeOK
    <2> QED BY <1>2, <2>1, <2>2, <2>3, <2>4, Answering
  <1>7. TypeOK' /\ Cash'
    BY <1>2, <1>4, <1>6 DEF Inv, TypeOK, Cash, OpenSessions
  <1> QED BY <1>5, <1>6, <1>7 DEF Inv

LEMMA ChecksOut ==
  ASSUME Inv, NEW c \in Clients, Checkout(c)
  PROVE  Inv'
  <1> DEFINE t == request[c].ticket
             saw == request[c].saw
             row == [ticket[t] EXCEPT !.status = "PAID"]
  <1>1. PICK s \in Sales : Unsold(t) /\ Charge(s, saw.items, saw.session, t)
    BY DEF Checkout
  <1>2. ticket' = [ticket EXCEPT ![t].status = "PAID"] /\ Answer(c) /\ UNCHANGED <<session, lock>>
    BY DEF Checkout
  <1>3. /\ t \in Tickets /\ ticket[t].status # "ABSENT" /\ ticket[t] \in TicketRow /\ saw \in TicketRow
        /\ t # NoTicket
    BY DEF Inv, TypeOK, Requests, Carries, Remembers, Checkout, Serves, RequestRow
  <1>4. saw.items \in {0} \cup Quantities /\ saw.session \in {0} \cup Sessions
    BY <1>3 DEF TicketRow
  <1>5. /\ row \in TicketRow /\ row.status = "PAID" /\ row.items = ticket[t].items
        /\ row.revision = ticket[t].revision /\ row.revision >= ticket[t].revision
        /\ row.source = ticket[t].source /\ ticket' = [ticket EXCEPT ![t] = row]
    BY <1>2, <1>3 DEF TicketRow, Active, Closed
  <1> HIDE DEF t, saw, row
  <1>6. /\ sale' \in [Sales -> SaleRow] /\ stock' \in Nat /\ sale[s].status = "ABSENT"
        /\ \A r \in Sales : r # s => sale'[r] = sale[r]
        /\ sale'[s].status = "PAID" /\ sale'[s].ticket = t /\ sale'[s].charged = t
        /\ sale'[s].reversals = 0
    BY <1>1, <1>3, <1>4, Charging DEF Inv
  <1>7. /\ ticket' \in [Tickets -> TicketRow] /\ ticket'[t] = row
        /\ \A u \in Tickets : u # t => ticket'[u] = ticket[u]
        /\ \A u \in Tickets : MovesOn(u)
    BY <1>3, <1>5, Rewritten DEF Inv
  <1>8. Books'
    <2>1. \A r \in Sales : sale[r].ticket # t
      BY <1>1 DEF Unsold, BoundTo
    <2>2. sale[s].ticket = NoTicket
      BY <1>6 DEF Inv, Books, Bindings
    <2>3. Bindings'
      BY <1>3, <1>5, <1>6, <1>7 DEF Inv, Books, Bindings
    <2>4. Unique'
      BY <1>6, <2>1 DEF Inv, Books, Unique
    <2>5. Paid'
      BY <1>6, <1>7, <2>2, DeskAssumption DEF Inv, Books, Paid
    <2>6. \A u \in Tickets : ticket'[u].source = ticket[u].source /\ ticket[u].source \in {0} \cup Sales
      BY <1>5, <1>7 DEF Inv, TypeOK, TicketRow
    <2>7. \A r \in Sales : Converted(r)' <=> Converted(r)
      BY <2>6 DEF Converted
    <2>8. Sources' /\ OneSource' /\ Untouched'
      BY <1>3, <1>5, <1>6, <1>7, <2>6, <2>7 DEF Inv, Books, Sources, OneSource, Untouched
    <2> QED BY <2>3, <2>4, <2>5, <2>8 DEF Books
  <1>9. request' \in [Clients -> RequestRow] /\ Requests'
    <2>1. \A r \in Sales : StaysMade(r)
      BY <1>6 DEF StaysMade
    <2>2. \A d \in Clients : d # c => Locks(d)'
      BY <1>2 DEF Inv, TypeOK, Requests, Locks, Answer, OpenSessions
    <2> QED BY <1>2, <1>7, <2>1, <2>2, Answering
  <1>10. TypeOK' /\ Cash'
    BY <1>2, <1>6, <1>7, <1>9 DEF Inv, TypeOK, Cash, OpenSessions
  <1> QED BY <1>8, <1>9, <1>10 DEF Inv

----------------------------------------------------------------------------
(* Reversals.                                                              *)

(* The sale of a ticket is given back, and the ticket is open again.       *)
LEMMA Returned ==
  ASSUME Inv, NEW c \in Clients, request[c].op \in {"reopen", "restore"}, NEW n, NEW row \in TicketRow,
         row.status = "OPEN", row.source = ticket[request[c].ticket].source,
         Reverse(request[c].sale, n), Revise(request[c].ticket, row), Answer(c), UNCHANGED lock
  PROVE  Inv'
  <1> DEFINE t == request[c].ticket
             s == request[c].sale
  <1>1. /\ t \in Tickets /\ t # NoTicket /\ ticket[t].status # "ABSENT" /\ ticket[t] \in TicketRow
        /\ s \in Sales /\ sale[s].status # "ABSENT" /\ sale[s].charged = t
    BY DEF Inv, TypeOK, Requests, Carries, Remembers, KnowsSale, RequestRow
  <1>2. row.source = ticket[t].source /\ Reverse(s, n) /\ Revise(t, row)
    OBVIOUS
  <1> HIDE DEF t, s
  <1>3. PICK new \in TicketRow :
           /\ ticket' = [ticket EXCEPT ![t] = new]
           /\ new.revision >= ticket[t].revision /\ new.revision # ticket[t].revision
           /\ new.status = row.status /\ new.items = row.items /\ new.source = row.source
    BY <1>1, <1>2, Revising DEF Inv
  <1>4. /\ ticket' \in [Tickets -> TicketRow] /\ ticket'[t] = new
        /\ \A u \in Tickets : u # t => ticket'[u] = ticket[u]
        /\ \A u \in Tickets : MovesOn(u)
    BY <1>1, <1>3, Rewritten DEF Inv
  <1>5. /\ sale' \in [Sales -> SaleRow] /\ stock' \in Nat /\ session' \in [Sessions -> SessionRow]
        /\ \A r \in Sales : r # s => sale'[r] = sale[r]
        /\ sale'[s].status = "CANCELLED" /\ sale'[s].ticket = NoTicket
        /\ sale'[s].charged = sale[s].charged
        /\ \A m \in Sessions : session'[m].status = session[m].status
                              /\ session'[m].closings = session[m].closings
    BY <1>1, <1>2, Reversing DEF Inv
  <1>6. Books'
    <2>1. \A u \in Tickets : sale[s].ticket = u => u = t
      BY <1>1, DeskAssumption DEF Inv, Books, Bindings
    <2>2. Bindings' /\ Unique'
      BY <1>2, <1>3, <1>4, <1>5 DEF Inv, Books, Bindings, Unique
    <2>3. Paid'
      BY <1>3, <1>4, <1>5, <2>1 DEF Inv, Books, Paid
    <2>4. \A u \in Tickets : ticket'[u].source = ticket[u].source /\ ticket[u].source \in {0} \cup Sales
      BY <1>2, <1>3, <1>4 DEF Inv, TypeOK, TicketRow
    <2>5. \A r \in Sales : Converted(r)' <=> Converted(r)
      BY <2>4 DEF Converted
    <2>6. \A u \in Tickets : ticket'[u].status = "ABSENT" => ticket[u].status = "ABSENT"
      BY <1>3, <1>4
    <2>7. \A u \in Tickets : ticket[u].source # 0 => ticket[u].source # s
      BY <1>1 DEF Inv, Books, Sources
    <2>8. Sources'
      BY <1>5, <2>4, <2>6, <2>7 DEF Inv, Books, Sources
    <2>9. OneSource'
      BY <2>4 DEF Inv, Books, OneSource
    <2>10. Untouched'
      BY <1>1, <1>5, <2>5 DEF Inv, Books, Untouched
    <2> QED BY <2>2, <2>3, <2>8, <2>9, <2>10 DEF Books
  <1>7. OpenSessions' = OpenSessions
    BY <1>5 DEF OpenSessions
  <1>8. request' \in [Clients -> RequestRow] /\ Requests'
    <2>1. \A r \in Sales : StaysMade(r)
      BY <1>5 DEF StaysMade
    <2>2. \A d \in Clients : d # c => Locks(d)'
      BY <1>7 DEF Inv, TypeOK, Requests, Locks, Answer
    <2> QED BY <1>4, <2>1, <2>2, Answering
  <1>9. TypeOK'
    BY <1>4, <1>5, <1>8 DEF Inv, TypeOK
  <1>10. Cash'
    BY <1>5, <1>7 DEF Inv, Cash
  <1> QED BY <1>6, <1>8, <1>9, <1>10 DEF Inv

LEMMA Reopens ==
  ASSUME Inv, NEW c \in Clients, Reopen(c)
  PROVE  Inv'
  <1> DEFINE t == request[c].ticket
             row == [ticket[t] EXCEPT !.status = "OPEN"]
  <1>1. /\ request[c].op = "reopen" /\ Reverse(request[c].sale, request[c].saw.session)
        /\ Revise(t, row) /\ Answer(c) /\ UNCHANGED lock
    BY DEF Reopen, Serves
  <1>2. t \in Tickets /\ ticket[t] \in TicketRow
    BY <1>1 DEF Inv, TypeOK, Requests, Carries, RequestRow
  <1>3. row \in TicketRow /\ row.status = "OPEN" /\ row.source = ticket[t].source
    BY <1>2 DEF TicketRow, Active, Kitchen
  <1> HIDE DEF row
  <1> QED BY <1>1, <1>3, Returned

LEMMA Restores ==
  ASSUME Inv, NEW c \in Clients, Restore(c)
  PROVE  Inv'
  <1> DEFINE t == request[c].ticket
             q == sale[request[c].saw.source].items
             row == [ticket[t] EXCEPT !.status = "OPEN", !.items = q]
  <1>1. /\ request[c].op = "restore" /\ Reverse(request[c].sale, request[c].saw.session)
        /\ Revise(t, row) /\ Answer(c) /\ UNCHANGED lock
    BY DEF Restore, Serves
  <1>2. t \in Tickets /\ ticket[t] \in TicketRow /\ q \in {0} \cup Quantities
    BY <1>1 DEF Inv, TypeOK, Requests, Carries, RequestRow, SaleRow
  <1> HIDE DEF q
  <1>3. row \in TicketRow /\ row.status = "OPEN" /\ row.source = ticket[t].source
    BY <1>2 DEF TicketRow, Active, Kitchen
  <1> HIDE DEF row
  <1> QED BY <1>1, <1>3, Returned

(* A direct sale is given back and a ticket made from it.                  *)
LEMMA Converts ==
  ASSUME Inv, NEW c \in Clients, Convert(c)
  PROVE  Inv'
  <1>1. PICK s \in Sales : /\ s = request[c].sale /\ sale[s].status # "ABSENT"
                           /\ sale[s].charged = NoTicket /\ sale[s] \in SaleRow
    BY DEF Inv, TypeOK, Requests, Carries, KnowsSale, Convert, Serves
  <1>2. PICK t \in Tickets :
          /\ ~Converted(s) /\ FreshTicket(t) /\ Reverse(s, sale[s].session) /\ Answer(c)
          /\ ticket' = [ticket EXCEPT ![t] = [NoTicketRow EXCEPT !.status = "OPEN",
                          !.items = sale[s].items, !.session = sale[s].session, !.source = s]]
          /\ UNCHANGED lock
    BY <1>1 DEF Convert, Unconverted
  <1> DEFINE row == [NoTicketRow EXCEPT !.status = "OPEN", !.items = sale[s].items,
                                        !.session = sale[s].session, !.source = s]
  <1>3. /\ row \in TicketRow /\ row.status = "OPEN" /\ row.source = s
        /\ ticket' = [ticket EXCEPT ![t] = row]
    BY <1>1, <1>2 DEF TicketRow, NoTicketRow, Active, Kitchen, SaleRow
  <1> HIDE DEF row
  <1>4. ticket[t].status = "ABSENT" /\ ticket[t].source = 0
    BY <1>2 DEF FreshTicket, Inv, Books, Sources
  <1>5. /\ ticket' \in [Tickets -> TicketRow] /\ ticket'[t] = row
        /\ \A u \in Tickets : u # t => ticket'[u] = ticket[u]
        /\ \A u \in Tickets : MovesOn(u)
    BY <1>3, <1>4, Rewritten DEF Inv
  <1>6. /\ sale' \in [Sales -> SaleRow] /\ stock' \in Nat /\ session' \in [Sessions -> SessionRow]
        /\ \A r \in Sales : r # s => sale'[r] = sale[r]
        /\ sale'[s].status = "CANCELLED" /\ sale'[s].ticket = NoTicket
        /\ sale'[s].charged = sale[s].charged /\ sale'[s].reversals = sale[s].reversals + 1
        /\ \A m \in Sessions : session'[m].status = session[m].status
                              /\ session'[m].closings = session[m].closings
    BY <1>1, <1>2, Reversing DEF Inv
  <1>7. Books'
    <2>1. sale[s].reversals = 0 /\ \A u \in Tickets : ticket[u].source # s
      BY <1>1, <1>2 DEF Inv, Books, Untouched, Converted
    <2>2. sale'[s].reversals = 1 /\ sale[s].ticket = NoTicket
      BY <1>1, <1>6, <2>1 DEF Inv, Books, Bindings
    <2>3. Bindings' /\ Unique'
      BY <1>3, <1>5, <1>6 DEF Inv, Books, Bindings, Unique
    <2>4. Paid'
      BY <1>3, <1>5, <1>6, <2>2, DeskAssumption DEF Inv, Books, Paid
    <2>5. Sources'
      <3>1. \A u \in Tickets : ticket[u].source \in {0} \cup Sales
        BY DEF Inv, TypeOK, TicketRow
      <3> QED BY <1>1, <1>3, <1>5, <1>6, <2>1, <2>2, <3>1 DEF Inv, Books, Sources
    <2>6. OneSource'
      BY <1>3, <1>5, <2>1 DEF Inv, Books, OneSource
    <2>7. Converted(s)' /\ \A r \in Sales : Converted(r) => Converted(r)'
      <3>1. 0 \notin Sales
        <4> DEFINE k == Cardinality(Sales)
        <4>1. k \in Nat /\ Sales = 1..k
          BY DeskAssumption, FS_CardinalityType
        <4> HIDE DEF k
        <4> QED BY <4>1
      <3> QED BY <1>3, <1>4, <1>5, <3>1 DEF Converted
    <2>8. Untouched'
      BY <1>6, <2>7 DEF Inv, Books, Untouched
    <2> QED BY <2>3, <2>4, <2>5, <2>6, <2>8 DEF Books
  <1>8. OpenSessions' = OpenSessions
    BY <1>6 DEF OpenSessions
  <1>9. request' \in [Clients -> RequestRow] /\ Requests'
    <2>1. \A r \in Sales : StaysMade(r)
      BY <1>6 DEF StaysMade
    <2>2. \A d \in Clients : d # c => Locks(d)'
      BY <1>2, <1>8 DEF Inv, TypeOK, Requests, Locks, Answer
    <2> QED BY <1>2, <1>5, <2>1, <2>2, Answering
  <1>10. TypeOK'
    BY <1>2, <1>5, <1>6, <1>9 DEF Inv, TypeOK
  <1>11. Cash'
    BY <1>6, <1>8 DEF Inv, Cash
  <1> QED BY <1>7, <1>9, <1>10, <1>11 DEF Inv

----------------------------------------------------------------------------
LEMMA Steps == Inv /\ [Next]_vars => Inv'
  <1> SUFFICES ASSUME Inv, [Next]_vars PROVE Inv'
    OBVIOUS
  <1>1. CASE UNCHANGED vars
    BY <1>1 DEF vars, Inv, TypeOK, Books, Bindings, Unique, Paid, Sources, OneSource, Untouched,
       Converted, Requests, Carries, Remembers, KnowsSale, Locks, Cash, OpenSessions
  <1>2. CASE Next
    <2>1. PICK c \in Clients :
            \/ GiveUp(c) \/ CreateRead(c) \/ Create(c) \/ TransitionKitchen(c) \/ Update(c)
            \/ ReplaceItems(c) \/ Checkout(c) \/ Reopen(c)
            \/ \E t \in Tickets : \/ KitchenRead(c, t) \/ UpdateRead(c, t) \/ ItemsRead(c, t)
                                  \/ CheckoutRead(c, t) \/ ReopenRead(c, t) \/ RestoreRead(c, t)
            \/ SaleRead(c) \/ DirectSale(c) \/ Convert(c) \/ Restore(c)
            \/ \E s \in Sales : ConvertRead(c, s)
            \/ OpenRead(c) \/ OpenCash(c) \/ ReopenCash(c) \/ CloseRead(c) \/ Close(c)
      BY <1>2 DEF Next
    <2>2. CASE GiveUp(c) \/ Create(c) \/ TransitionKitchen(c) \/ Update(c) \/ ReplaceItems(c)
      BY <2>2, GivesUp, Created, KitchenMoves, StatusWritten, ItemsReplaced
    <2>3. CASE Checkout(c) \/ Reopen(c) \/ DirectSale(c) \/ Convert(c) \/ Restore(c)
      BY <2>3, ChecksOut, Reopens, SoldDirectly, Converts, Restores
    <2>4. CASE CreateRead(c) \/ SaleRead(c)
      BY <2>4, SessionRead DEF CreateRead, SaleRead
    <2>5. CASE \E t \in Tickets : KitchenRead(c, t) \/ UpdateRead(c, t) \/ ItemsRead(c, t)
                                  \/ CheckoutRead(c, t)
      <3>1. PICK t \in Tickets : KitchenRead(c, t) \/ UpdateRead(c, t) \/ ItemsRead(c, t)
                                 \/ CheckoutRead(c, t)
        BY <2>5
      <3>2. {"OPEN", "IN_PREPARATION"} \in SUBSET Active /\ Active \in SUBSET Active
        BY DEF Active, Kitchen
      <3> QED BY <3>1, <3>2, TicketRead DEF KitchenRead, UpdateRead, ItemsRead, CheckoutRead
    <2>6. CASE \E t \in Tickets : ReopenRead(c, t)
      BY <2>6, PaidRead DEF ReopenRead
    <2>7. CASE \E t \in Tickets : RestoreRead(c, t)
      BY <2>7, PaidRead DEF RestoreRead
    <2>8. CASE \E s \in Sales : ConvertRead(c, s)
      BY <2>8, ConvertReads
    <2>9. CASE OpenRead(c) \/ OpenCash(c) \/ ReopenCash(c) \/ CloseRead(c) \/ Close(c)
      BY <2>9, OpenReads, Opens, CloseReads, Closes DEF ReopenCash
    <2> QED BY <2>1, <2>2, <2>3, <2>4, <2>5, <2>6, <2>7, <2>8, <2>9
  <1> QED BY <1>1, <1>2

(* The rows, and what the requests know of them, for any number of them.   *)
THEOREM InductiveInvariant == Spec => []Inv
  BY Initially, Steps, PTL DEF Spec

----------------------------------------------------------------------------
LEMMA NumbersArePositive == 0 \notin Sales
  <1> DEFINE k == Cardinality(Sales)
  <1>1. k \in Nat /\ Sales = 1..k
    BY DeskAssumption, FS_CardinalityType
  <1> HIDE DEF k
  <1> QED BY <1>1

LEMMA AtMostOne ==
  ASSUME NEW S, \A x, y \in S : x = y
  PROVE  Cardinality(S) = IF S = {} THEN 0 ELSE 1
  <1>1. CASE S = {}
    BY <1>1, FS_EmptySet
  <1>2. CASE S # {}
    <2>1. PICK x \in S : S = {x}
      BY <1>2
    <2>2. Cardinality({x}) = 1
      BY FS_Singleton
    <2> QED BY <1>2, <2>1, <2>2
  <1> QED BY <1>1, <1>2

(* However checkouts and reopenings of a ticket interleave, at most one of *)
(* its sales stands, and a paid ticket has one (checkout and reopen).      *)
THEOREM TicketsAreChargedOnce == Spec => []ChargedOnce
  <1>1. Inv => ChargedOnce
    <2> SUFFICES ASSUME Inv, NEW t \in Tickets
                 PROVE  /\ Cardinality(Standing(t)) <= 1
                        /\ ticket[t].status = "PAID" => Cardinality(PaidSaleOf(t)) = 1
      BY DEF ChargedOnce
    <2>1. t # NoTicket
      BY DeskAssumption
    <2>2. \A r, s \in Standing(t) : r = s
      BY <2>1 DEF Standing, Inv, Books, Bindings, Unique
    <2>3. \A r, s \in PaidSaleOf(t) : r = s
      BY <2>1 DEF PaidSaleOf, BoundTo, Inv, Books, Unique
    <2>4. Cardinality(Standing(t)) \in {0, 1}
      BY <2>2, AtMostOne
    <2>5. ASSUME ticket[t].status = "PAID" PROVE PaidSaleOf(t) # {}
      BY <2>1, <2>5 DEF PaidSaleOf, BoundTo, Inv, Books, Bindings, Paid
    <2>6. ticket[t].status = "PAID" => Cardinality(PaidSaleOf(t)) = 1
      BY <2>3, <2>5, AtMostOne
    <2> QED BY <2>4, <2>6
  <1> QED BY <1>1, InductiveInvariant, PTL

(* A direct sale becomes at most one ticket, and is given back exactly if  *)
(* it did (convertToOrder).                                                *)
THEOREM SalesAreConvertedOnce == Spec => []ConvertedOnce
  <1>1. Inv => ConvertedOnce
    <2> SUFFICES ASSUME Inv, NEW s \in Sales, sale[s].status # "ABSENT",
                        sale[s].charged = NoTicket
                 PROVE  /\ Cardinality({t \in Tickets : ticket[t].source = s}) = sale[s].reversals
                        /\ sale[s].reversals <= 1
      BY DEF ConvertedOnce
    <2> DEFINE S == {t \in Tickets : ticket[t].source = s}
    <2>1. \A t, u \in S : t = u
      BY NumbersArePositive DEF Inv, Books, OneSource
    <2>2. sale[s].reversals = IF S = {} THEN 0 ELSE 1
      <3>1. S = {} => sale[s].reversals = 0
        BY DEF Inv, Books, Untouched, Converted
      <3>2. S # {} => sale[s].reversals = 1
        BY NumbersArePositive DEF Inv, Books, Sources
      <3> QED BY <3>1, <3>2
    <2> HIDE DEF S
    <2>3. Cardinality(S) = IF S = {} THEN 0 ELSE 1
      BY <2>1, AtMostOne
    <2>4. Cardinality(S) = sale[s].reversals /\ sale[s].reversals <= 1
      BY <2>2, <2>3
    <2> QED BY <2>4 DEF S
  <1> QED BY <1>1, InductiveInvariant, PTL

(* While a ticket has the revision a request has read, only a payment has  *)
(* changed it (transitionKitchen, update and replaceItems).                *)
THEOREM RevisionsTellAll == Spec => []RevisionTellsAll
  <1>1. Inv => RevisionTellsAll
    BY DEF Inv, Requests, Remembers, RevisionTellsAll
  <1> QED BY <1>1, InductiveInvariant, PTL

(* At most one cash session is open, and each is closed at most once (open *)
(* and reopen under the advisory lock, close by its WHERE).                *)
THEOREM SessionsOpenOneAtATime == Spec => []OneOpenSession
  <1>1. Inv => OneOpenSession
    <2> SUFFICES ASSUME Inv PROVE OneOpenSession
      OBVIOUS
    <2>1. Cardinality(OpenSessions) \in {0, 1}
      BY AtMostOne DEF Inv, Cash
    <2>2. \A n \in Sessions : session[n].closings \in {0, 1}
      BY DEF Inv, Cash
    <2> QED BY <2>1, <2>2 DEF OneOpenSession
  <1> QED BY <1>1, InductiveInvariant, PTL

(* The rows and the requests keep their types: in particular the stock is  *)
(* never oversold (createInTransaction).                                   *)
THEOREM TypeCorrect == Spec => []TypeOK
<1>1. Inv => TypeOK
  BY DEF Inv
<1> QED
  BY InductiveInvariant, <1>1, PTL

----------------------------------------------------------------------------
(* What a ticket is charged and gives back.  A paid ticket has been        *)
(* charged once more than it has given back: that is what reopening it     *)
(* gives back, having looked at it again under the row lock.               *)
Balanced(t) ==
  /\ IsFiniteSet(GivenBack(t))
  /\ ticket[t].source = 0 =>
       /\ Cardinality(GivenBack(t)) <= Cardinality(ChargedTo(t))
       /\ ticket[t].status = "PAID" => Cardinality(GivenBack(t)) # Cardinality(ChargedTo(t))

Blank == \A s \in Sales :
  sale[s].status = "ABSENT" => sale[s].charged = NoTicket /\ sale[s].reversals = 0
FromSource == \A c \in Clients :
  request[c].op = "restore" => ticket[request[c].ticket].source # 0

Backed == Blank /\ FromSource /\ \A t \in Tickets : Balanced(t)

(* How a step moves the money of a ticket.                                 *)
SourceStays(t) == ticket[t].source # 0 => ticket'[t].source # 0
Keeps(t) ==
  /\ ChargedTo(t)' = ChargedTo(t) /\ GivenBack(t)' = GivenBack(t)
  /\ ticket'[t].status = "PAID" => ticket[t].status = "PAID"
Takes(t) == \E s :
  /\ s \notin ChargedTo(t) /\ ChargedTo(t)' = ChargedTo(t) \cup {s}
  /\ GivenBack(t)' = GivenBack(t)
Returns(t) == \E p :
  /\ p \notin GivenBack(t) /\ GivenBack(t)' = GivenBack(t) \cup {p}
  /\ ChargedTo(t)' = ChargedTo(t)
  /\ ticket'[t].status # "PAID"
  /\ ticket[t].source = 0 => ticket[t].status = "PAID"
Moves == \A t \in Tickets : SourceStays(t) /\ (Keeps(t) \/ Takes(t) \/ Returns(t))

LEMMA Balancing ==
  ASSUME Inv, NEW t \in Tickets, Balanced(t), SourceStays(t), Keeps(t) \/ Takes(t) \/ Returns(t)
  PROVE  Balanced(t)'
  <1> DEFINE G == GivenBack(t)
             C == ChargedTo(t)
             g == Cardinality(G)
             n == Cardinality(C)
  <1>1. IsFiniteSet(C)
    BY FS_Subset, DeskAssumption DEF ChargedTo
  <1>2. IsFiniteSet(G) /\ g \in Nat /\ n \in Nat
    BY <1>1, FS_CardinalityType DEF Balanced
  <1>3. CASE Keeps(t)
    BY <1>3 DEF Balanced, Keeps, SourceStays
  <1>4. CASE Takes(t)
    <2>1. PICK s : s \notin C /\ C' = C \cup {s} /\ G' = G
      BY <1>4 DEF Takes
    <2>2. Cardinality(C') = n + 1
      BY <1>1, <2>1, FS_AddElement
    <2> HIDE DEF g, n
    <2>3. g <= n => g <= n + 1 /\ g # n + 1
      BY <1>2
    <2> QED BY <2>1, <2>2, <2>3 DEF Balanced, SourceStays, g, n
  <1>5. CASE Returns(t)
    <2>1. PICK p : /\ p \notin G /\ G' = G \cup {p} /\ C' = C
                   /\ ticket'[t].status # "PAID"
                   /\ ticket[t].source = 0 => ticket[t].status = "PAID"
      BY <1>5 DEF Returns
    <2>2. IsFiniteSet(G') /\ Cardinality(G') = g + 1
      BY <1>2, <2>1, FS_AddElement
    <2>3. ticket[t].source = 0 => g <= n /\ g # n
      BY <2>1 DEF Balanced
    <2> HIDE DEF g, n
    <2>4. ticket[t].source = 0 => g + 1 <= n
      BY <1>2, <2>3
    <2> QED BY <2>1, <2>2, <2>4 DEF Balanced, SourceStays, g, n
  <1> QED BY <1>3, <1>4, <1>5

LEMMA SalesStill ==
  ASSUME UNCHANGED sale, Blank
  PROVE  /\ \A t \in Tickets : ChargedTo(t)' = ChargedTo(t) /\ GivenBack(t)' = GivenBack(t)
         /\ Blank'
  BY DEF ChargedTo, GivenBack, Blank

(* A pair of GivenBack, seen from the sale.                                *)
LEMMA Pairs ==
  ASSUME NEW t, NEW p
  PROVE  p \in GivenBack(t) <=>
           \E s \in Sales : sale[s].charged = t /\ \E k \in 1..sale[s].reversals : p = <<s, k>>
  BY DEF GivenBack, ChargedTo

LEMMA ChargeMoves ==
  ASSUME TypeOK, Blank, NEW s \in Sales, NEW q \in {0} \cup Quantities,
         NEW n \in {0} \cup Sessions, NEW t \in Tickets \cup {NoTicket}, Charge(s, q, n, t)
  PROVE  /\ Blank'
         /\ \A u \in Tickets : GivenBack(u)' = GivenBack(u)
         /\ \A u \in Tickets : u # t => ChargedTo(u)' = ChargedTo(u)
         /\ t \in Tickets => s \notin ChargedTo(t) /\ ChargedTo(t)' = ChargedTo(t) \cup {s}
  <1>1. /\ sale[s].status = "ABSENT" /\ \A r \in Sales : r # s => sale'[r] = sale[r]
        /\ sale'[s].status = "PAID" /\ sale'[s].charged = t /\ sale'[s].reversals = 0
    BY Charging
  <1>2. sale[s].charged = NoTicket /\ sale[s].reversals = 0 /\ NoTicket \notin Tickets
    BY <1>1, DeskAssumption DEF Blank
  <1>3. Blank'
    BY <1>1 DEF Blank
  <1>4. ASSUME NEW u \in Tickets PROVE GivenBack(u)' = GivenBack(u)
    <2>1. ASSUME NEW p PROVE p \in GivenBack(u)' <=> p \in GivenBack(u)
      <3>1. p \in GivenBack(u)' <=>
              \E r \in Sales : sale'[r].charged = u /\ \E k \in 1..sale'[r].reversals : p = <<r, k>>
        BY DEF GivenBack, ChargedTo
      <3>2. 1..0 = {}
        OBVIOUS
      <3> QED BY <1>1, <1>2, <3>1, <3>2, Pairs
    <2> QED BY <2>1
  <1>5. \A u \in Tickets : u # t => ChargedTo(u)' = ChargedTo(u)
    BY <1>1, <1>2 DEF ChargedTo
  <1>6. t \in Tickets => s \notin ChargedTo(t) /\ ChargedTo(t)' = ChargedTo(t) \cup {s}
    BY <1>1, <1>2 DEF ChargedTo
  <1> QED BY <1>3, <1>4, <1>5, <1>6

LEMMA ReverseMoves ==
  ASSUME TypeOK, Blank, NEW s \in Sales, sale[s].status # "ABSENT", NEW n, Reverse(s, n)
  PROVE  /\ Blank'
         /\ \A u \in Tickets : ChargedTo(u)' = ChargedTo(u)
         /\ \A u \in Tickets : u # sale[s].charged => GivenBack(u)' = GivenBack(u)
         /\ \A u \in Tickets : u = sale[s].charged =>
              \E p : p \notin GivenBack(u) /\ GivenBack(u)' = GivenBack(u) \cup {p}
  <1> DEFINE m == sale[s].reversals
  <1>1. /\ \A r \in Sales : r # s => sale'[r] = sale[r]
        /\ sale'[s].status = "CANCELLED" /\ sale'[s].charged = sale[s].charged
        /\ sale'[s].reversals = m + 1 /\ m \in Nat
    BY Reversing
  <1>2. Blank' /\ \A u \in Tickets : ChargedTo(u)' = ChargedTo(u)
    BY <1>1 DEF Blank, ChargedTo
  <1>3. ASSUME NEW u, NEW p
        PROVE  p \in GivenBack(u)' <=>
                 \E r \in Sales : sale'[r].charged = u /\ \E k \in 1..sale'[r].reversals : p = <<r, k>>
    BY DEF GivenBack, ChargedTo
  <1>4. ASSUME NEW u \in Tickets, u # sale[s].charged PROVE GivenBack(u)' = GivenBack(u)
    <2>1. ASSUME NEW p PROVE p \in GivenBack(u)' <=> p \in GivenBack(u)
      BY <1>1, <1>3, <1>4, Pairs
    <2> QED BY <2>1
  <1>5. ASSUME NEW u \in Tickets, u = sale[s].charged
        PROVE  LET p == <<s, m + 1>>
               IN  p \notin GivenBack(u) /\ GivenBack(u)' = GivenBack(u) \cup {p}
    <2> DEFINE new == <<s, m + 1>>
    <2>1. \A k : k \in 1..(m + 1) <=> k \in 1..m \/ k = m + 1
      BY <1>1
    <2>2. m + 1 \notin 1..m
      BY <1>1
    <2>3. new \notin GivenBack(u)
      BY <2>2, Pairs
    <2>4. ASSUME NEW p PROVE p \in GivenBack(u)' <=> p \in GivenBack(u) \/ p = new
      <3>1. p \in GivenBack(u)' <=>
              \E r \in Sales : sale'[r].charged = u /\ \E k \in 1..sale'[r].reversals : p = <<r, k>>
        BY <1>3
      <3>2. p \in GivenBack(u) <=>
              \E r \in Sales : sale[r].charged = u /\ \E k \in 1..sale[r].reversals : p = <<r, k>>
        BY Pairs
      <3>3. sale'[s].charged = u /\ sale'[s].reversals = m + 1 /\ sale[s].charged = u
        BY <1>1, <1>5
      <3> DEFINE x == m + 1
      <3>4. sale'[s].reversals = x /\ new = <<s, x>> /\ \A k : k \in 1..x <=> k \in 1..m \/ k = x
        BY <2>1, <3>3
      <3> HIDE DEF x, new
      <3> QED BY <1>1, <3>1, <3>2, <3>3, <3>4
    <2> QED BY <2>3, <2>4
  <1> QED BY <1>2, <1>4, <1>5

(* A request that is answered restores nothing more.                       *)
LEMMA AnsweredSource ==
  ASSUME Inv, FromSource, \A t \in Tickets : SourceStays(t), NEW c \in Clients, Answer(c)
  PROVE  FromSource'
  <1>1. request' = [request EXCEPT ![c] = Idle] /\ Idle.op # "restore"
    BY DEF Answer, Idle
  <1> SUFFICES ASSUME NEW d \in Clients, request'[d].op = "restore"
               PROVE  ticket'[request'[d].ticket].source # 0
    BY DEF FromSource
  <1>2. request'[d] = request[d]
    BY <1>1 DEF Inv, TypeOK
  <1>3. request[d].ticket \in Tickets
    BY <1>2 DEF Inv, TypeOK, RequestRow, Requests, Carries
  <1> QED BY <1>2, <1>3 DEF FromSource, SourceStays

(* A request that has read writes nothing.                                 *)
LEMMA ReadMoves ==
  ASSUME Inv, Backed, NEW c \in Clients, NEW r, request' = [request EXCEPT ![c] = r],
         r.op = "restore" => ticket[r.ticket].source # 0, UNCHANGED <<ticket, sale>>
  PROVE  Moves /\ Blank' /\ FromSource'
  <1>1. Moves /\ Blank'
    BY SalesStill DEF Backed, Moves, Keeps, SourceStays
  <1>2. FromSource'
    BY DEF Inv, TypeOK, Backed, FromSource
  <1> QED BY <1>1, <1>2

(* An edit neither pays a ticket nor forgets what it was made from.        *)
LEMMA EditMoves ==
  ASSUME Inv, Backed, NEW c \in Clients, NEW t \in Tickets, NEW row,
         ticket' = [ticket EXCEPT ![t] = row], Answer(c), UNCHANGED sale,
         row.source = ticket[t].source, row.status = "PAID" => ticket[t].status = "PAID"
  PROVE  Moves /\ Blank' /\ FromSource'
  <1>1. \A u \in Tickets : ticket'[u] = IF u = t THEN row ELSE ticket[u]
    BY DEF Inv, TypeOK
  <1>2. \A u \in Tickets : SourceStays(u) /\ (ticket'[u].status = "PAID" => ticket[u].status = "PAID")
    BY <1>1 DEF SourceStays
  <1>3. Moves /\ Blank'
    BY <1>2, SalesStill DEF Backed, Moves, Keeps
  <1> QED BY <1>2, <1>3, AnsweredSource DEF Backed

(* The row that Revise writes, but for its revision.                       *)
LEMMA RevisedRow ==
  ASSUME Inv, NEW t \in Tickets, NEW row \in TicketRow, Revise(t, row)
  PROVE  \E new : /\ ticket' = [ticket EXCEPT ![t] = new]
                  /\ new.status = row.status /\ new.source = row.source
  BY Revising DEF Inv

LEMMA EditsMove ==
  ASSUME Inv, Backed, NEW c \in Clients,
         Create(c) \/ TransitionKitchen(c) \/ Update(c) \/ ReplaceItems(c)
  PROVE  Moves /\ Blank' /\ FromSource'
  <1> DEFINE t == request[c].ticket
             saw == request[c].saw
  <1>1. CASE Create(c)
    <2>1. PICK u \in CounterTickets, q \in FirstQuantities :
            /\ FreshTicket(u) /\ Answer(c) /\ UNCHANGED sale
            /\ ticket' = [ticket EXCEPT ![u] = [NoTicketRow EXCEPT !.status = "OPEN", !.items = q,
                                                !.session = request[c].session]]
      BY <1>1 DEF Create
    <2> DEFINE row == [NoTicketRow EXCEPT !.status = "OPEN", !.items = q,
                                          !.session = request[c].session]
    <2>2. row.status = "OPEN" /\ row.source = 0
      BY DEF NoTicketRow
    <2>3. u \in Tickets /\ ticket[u].source = 0 /\ ticket' = [ticket EXCEPT ![u] = row]
      BY <2>1, DeskAssumption DEF FreshTicket, Inv, Books, Sources
    <2> HIDE DEF row
    <2> QED BY <2>1, <2>2, <2>3, EditMoves
  <1>2. CASE TransitionKitchen(c) \/ Update(c) \/ ReplaceItems(c)
    <2>1. t \in Tickets /\ saw.status \in Active \cup {"PAID"} /\ saw.status # "PAID"
      BY <1>2 DEF TransitionKitchen, Update, ReplaceItems, Serves, Inv, TypeOK, RequestRow, Requests,
         Carries, Active, Kitchen
    <2>2. ticket[t] \in TicketRow
      BY <2>1 DEF Inv, TypeOK
    <2>3. Answer(c) /\ UNCHANGED sale
      BY <1>2 DEF TransitionKitchen, Update, ReplaceItems
    <2>4. \/ UNCHANGED ticket
          \/ \E row \in TicketRow : /\ Revise(t, row) /\ row.source = ticket[t].source
                                    /\ row.status = "PAID" => ticket[t].status = "PAID"
      <3>1. CASE TransitionKitchen(c)
        <4> DEFINE row == [ticket[t] EXCEPT !.status = IF saw.status = "OPEN" THEN "IN_PREPARATION"
                                                       ELSE "SERVED"]
        <4>1. Revise(t, row)
          BY <3>1 DEF TransitionKitchen
        <4>2. row \in TicketRow /\ row.source = ticket[t].source /\ row.status # "PAID"
          BY <2>2 DEF TicketRow, Active, Kitchen
        <4> QED BY <4>1, <4>2
      <3>2. CASE Update(c)
        <4>1. PICK status \in {saw.status, "PAYMENT_PENDING", "CANCELLED"} :
                Revise(t, [ticket[t] EXCEPT !.status = status])
          BY <3>2 DEF Update
        <4> DEFINE row == [ticket[t] EXCEPT !.status = status]
        <4>2. status \in Active \cup Closed /\ status # "PAID"
          BY <2>1 DEF Active, Kitchen, Closed
        <4>3. row \in TicketRow /\ row.source = ticket[t].source /\ row.status # "PAID"
          BY <2>2, <4>2 DEF TicketRow
        <4> QED BY <4>1, <4>3
      <3>3. CASE ReplaceItems(c)
        <4>1. PICK q \in Quantities : \/ UNCHANGED ticket
                                      \/ Revise(t, [ticket[t] EXCEPT !.items = q])
          BY <3>3 DEF ReplaceItems
        <4> DEFINE row == [ticket[t] EXCEPT !.items = q]
        <4>2. row \in TicketRow /\ row.source = ticket[t].source /\ row.status = ticket[t].status
          BY <2>2 DEF TicketRow
        <4> QED BY <4>1, <4>2
      <3> QED BY <1>2, <3>1, <3>2, <3>3
    <2> HIDE DEF t, saw
    <2>5. CASE UNCHANGED ticket
      <3>1. ticket' = [ticket EXCEPT ![t] = ticket[t]]
        BY <2>1, <2>5 DEF Inv, TypeOK
      <3> QED BY <2>1, <2>3, <3>1, EditMoves
    <2>6. CASE \E row \in TicketRow : /\ Revise(t, row) /\ row.source = ticket[t].source
                                      /\ row.status = "PAID" => ticket[t].status = "PAID"
      <3>1. PICK row \in TicketRow : /\ Revise(t, row) /\ row.source = ticket[t].source
                                     /\ row.status = "PAID" => ticket[t].status = "PAID"
        BY <2>6
      <3>2. PICK new : /\ ticket' = [ticket EXCEPT ![t] = new]
                       /\ new.status = row.status /\ new.source = row.source
        BY <2>1, <3>1, RevisedRow
      <3> QED BY <2>1, <2>3, <3>1, <3>2, EditMoves
    <2> QED BY <2>4, <2>5, <2>6
  <1> QED BY <1>1, <1>2

(* Checkout charges a ticket that is bound to no sale; a direct sale is    *)
(* charged to none.                                                        *)
LEMMA ChargesMove ==
  ASSUME Inv, Backed, NEW c \in Clients, Checkout(c) \/ DirectSale(c)
  PROVE  Moves /\ Blank' /\ FromSource'
  <1> DEFINE t == request[c].ticket
             saw == request[c].saw
  <1>1. Answer(c) /\ TypeOK /\ Blank
    BY DEF Checkout, DirectSale, Inv, Backed
  <1>2. CASE DirectSale(c)
    <2>1. PICK s \in Sales, q \in FirstQuantities, n \in {0} \cup Sessions :
            Charge(s, q, n, NoTicket)
      BY <1>2 DEF DirectSale, Inv, TypeOK, RequestRow
    <2>2. q \in {0} \cup Quantities /\ NoTicket \notin Tickets
      BY DeskAssumption
    <2>3. /\ Blank' /\ \A u \in Tickets : GivenBack(u)' = GivenBack(u)
          /\ \A u \in Tickets : u # NoTicket => ChargedTo(u)' = ChargedTo(u)
      BY <1>1, <2>1, <2>2, ChargeMoves
    <2>4. UNCHANGED ticket
      BY <1>2 DEF DirectSale
    <2>5. Moves
      BY <2>2, <2>3, <2>4 DEF Moves, Keeps, SourceStays
    <2> QED BY <1>1, <2>3, <2>5, AnsweredSource DEF Backed, Moves
  <1>3. CASE Checkout(c)
    <2>1. t \in Tickets /\ saw \in TicketRow /\ ticket[t] \in TicketRow
      BY <1>3 DEF Checkout, Serves, Inv, TypeOK, RequestRow, Requests, Carries
    <2>2. saw.items \in {0} \cup Quantities /\ saw.session \in {0} \cup Sessions
      BY <2>1 DEF TicketRow
    <2>3. PICK u \in Tickets, s \in Sales, q \in {0} \cup Quantities, n \in {0} \cup Sessions :
            u = t /\ Charge(s, q, n, u)
      BY <1>3, <2>1, <2>2 DEF Checkout
    <2>4. /\ \A v \in Tickets : v # u => ticket'[v] = ticket[v]
          /\ ticket'[u].source = ticket[u].source
      BY <1>3, <2>1, <2>3 DEF Checkout, Inv, TypeOK, TicketRow
    <2> HIDE DEF t, saw
    <2>5. /\ Blank' /\ \A v \in Tickets : GivenBack(v)' = GivenBack(v)
          /\ \A v \in Tickets : v # u => ChargedTo(v)' = ChargedTo(v)
          /\ s \notin ChargedTo(u) /\ ChargedTo(u)' = ChargedTo(u) \cup {s}
      BY <1>1, <2>3, ChargeMoves
    <2>6. ASSUME NEW v \in Tickets PROVE SourceStays(v) /\ (Keeps(v) \/ Takes(v))
      <3>1. CASE v = u
        BY <2>4, <2>5, <3>1 DEF SourceStays, Takes
      <3>2. CASE v # u
        BY <2>4, <2>5, <3>2 DEF SourceStays, Keeps
      <3> QED BY <3>1, <3>2
    <2> QED BY <1>1, <2>5, <2>6, AnsweredSource DEF Backed, Moves
  <1> QED BY <1>2, <1>3

(* The sale of a paid ticket is given back: reopen has seen that it still  *)
(* is paid, restore is about a ticket made from a sale.                    *)
LEMMA ReturnsMove ==
  ASSUME Inv, Backed, NEW c \in Clients, Reopen(c) \/ Restore(c)
  PROVE  Moves /\ Blank' /\ FromSource'
  <1> DEFINE t == request[c].ticket
             s == request[c].sale
             n == request[c].saw.session
             q == sale[request[c].saw.source].items
  <1>1. /\ t \in Tickets /\ ticket[t] \in TicketRow
        /\ s \in Sales /\ sale[s].status # "ABSENT" /\ sale[s].charged = t
    BY DEF Reopen, Restore, Serves, Inv, TypeOK, Requests, Carries, KnowsSale, RequestRow
  <1>2. Reverse(s, n) /\ Answer(c) /\ TypeOK /\ Blank
    BY DEF Reopen, Restore, Inv, Backed
  <1>3. ticket[t].source = 0 => ticket[t].status = "PAID"
    BY DEF Reopen, Restore, Serves, StillPaid, Backed, FromSource
  <1>4. \E row \in TicketRow : Revise(t, row) /\ row.status = "OPEN" /\ row.source = ticket[t].source
    <2>1. CASE Reopen(c)
      <3> DEFINE row == [ticket[t] EXCEPT !.status = "OPEN"]
      <3>1. Revise(t, row)
        BY <2>1 DEF Reopen
      <3>2. row \in TicketRow /\ row.status = "OPEN" /\ row.source = ticket[t].source
        BY <1>1 DEF TicketRow, Active, Kitchen
      <3> QED BY <3>1, <3>2
    <2>2. CASE Restore(c)
      <3> DEFINE row == [ticket[t] EXCEPT !.status = "OPEN", !.items = q]
      <3>1. Revise(t, row)
        BY <2>2 DEF Restore
      <3>2. q \in {0} \cup Quantities
        BY <2>2 DEF Restore, Serves, Inv, TypeOK, Requests, Carries, SaleRow
      <3> HIDE DEF q
      <3>3. row \in TicketRow /\ row.status = "OPEN" /\ row.source = ticket[t].source
        BY <1>1, <3>2 DEF TicketRow, Active, Kitchen
      <3> QED BY <3>1, <3>3
    <2> QED BY <2>1, <2>2
  <1> HIDE DEF t, s, n, q
  <1>5. PICK row \in TicketRow : Revise(t, row) /\ row.status = "OPEN" /\ row.source = ticket[t].source
    BY <1>4
  <1>6. PICK new : /\ ticket' = [ticket EXCEPT ![t] = new]
                   /\ new.status = "OPEN" /\ new.source = ticket[t].source
    BY <1>1, <1>5, RevisedRow
  <1>7. ticket'[t] = new /\ \A u \in Tickets : u # t => ticket'[u] = ticket[u]
    BY <1>1, <1>6 DEF Inv, TypeOK
  <1>8. PICK u \in Tickets, r \in Sales, m \in {n} : u = t /\ r = s /\ m = n
    BY <1>1
  <1>9. /\ Blank' /\ \A v \in Tickets : ChargedTo(v)' = ChargedTo(v)
        /\ \A v \in Tickets : v # u => GivenBack(v)' = GivenBack(v)
        /\ \E p : p \notin GivenBack(u) /\ GivenBack(u)' = GivenBack(u) \cup {p}
    <2>1. Reverse(r, m) /\ sale[r].status # "ABSENT" /\ sale[r].charged = u
      BY <1>1, <1>2, <1>8
    <2> QED BY <1>2, <2>1, ReverseMoves
  <1>10. ASSUME NEW v \in Tickets PROVE SourceStays(v) /\ (Keeps(v) \/ Returns(v))
    <2>1. CASE v = u
      BY <1>3, <1>6, <1>7, <1>8, <1>9, <2>1 DEF SourceStays, Returns
    <2>2. CASE v # u
      BY <1>7, <1>8, <1>9, <2>2 DEF SourceStays, Keeps
    <2> QED BY <2>1, <2>2
  <1> QED BY <1>2, <1>9, <1>10, AnsweredSource DEF Backed, Moves

(* A direct sale was charged to no ticket, and so is given back to none.   *)
LEMMA ConvertMoves ==
  ASSUME Inv, Backed, NEW c \in Clients, Convert(c)
  PROVE  Moves /\ Blank' /\ FromSource'
  <1> DEFINE s == request[c].sale
  <1>1. /\ s \in Sales /\ sale[s].status # "ABSENT" /\ sale[s].charged = NoTicket
        /\ Answer(c) /\ Reverse(s, sale[s].session) /\ TypeOK /\ Blank /\ NoTicket \notin Tickets
    BY DeskAssumption DEF Convert, Serves, Inv, Requests, Carries, KnowsSale, Backed
  <1>2. PICK t \in Tickets :
          ticket' = [ticket EXCEPT ![t] = [NoTicketRow EXCEPT !.status = "OPEN",
                       !.items = sale[s].items, !.session = sale[s].session, !.source = s]]
    BY DEF Convert
  <1> HIDE DEF s
  <1>3. \A u \in Tickets : SourceStays(u) /\ (ticket'[u].status = "PAID" => ticket[u].status = "PAID")
    BY <1>1, <1>2, NumbersArePositive DEF Inv, TypeOK, NoTicketRow, SourceStays
  <1>4. /\ Blank' /\ \A u \in Tickets : ChargedTo(u)' = ChargedTo(u) /\ GivenBack(u)' = GivenBack(u)
    BY <1>1, ReverseMoves
  <1> QED BY <1>1, <1>3, <1>4, AnsweredSource DEF Backed, Moves, Keeps

LEMMA OthersMove ==
  ASSUME Inv, Backed, NEW c \in Clients,
         \/ GiveUp(c) \/ CreateRead(c) \/ SaleRead(c) \/ OpenRead(c) \/ OpenCash(c) \/ CloseRead(c)
         \/ Close(c)
         \/ \E t \in Tickets : \/ KitchenRead(c, t) \/ UpdateRead(c, t) \/ ItemsRead(c, t)
                               \/ CheckoutRead(c, t) \/ ReopenRead(c, t) \/ RestoreRead(c, t)
         \/ \E s \in Sales : ConvertRead(c, s)
  PROVE  Moves /\ Blank' /\ FromSource'
  <1>1. UNCHANGED <<ticket, sale>>
    BY DEF GiveUp, CreateRead, SaleRead, OpenRead, OpenCash, CloseRead, Close, KitchenRead, UpdateRead,
       ItemsRead, CheckoutRead, ReopenRead, RestoreRead, ConvertRead, ReadSession, ReadTicket
  <1>2. CASE \E t \in Tickets : RestoreRead(c, t)
    <2>1. PICK t \in Tickets : RestoreRead(c, t)
      BY <1>2
    <2>2. PICK s \in PaidSaleOf(t) :
            /\ ticket[t].source # 0
            /\ Ask(c, "restore", [Idle EXCEPT !.ticket = t, !.saw = ticket[t], !.sale = s])
      BY <2>1 DEF RestoreRead
    <2> DEFINE r == [[Idle EXCEPT !.ticket = t, !.saw = ticket[t], !.sale = s] EXCEPT !.op = "restore"]
    <2>3. request' = [request EXCEPT ![c] = r] /\ r.ticket = t
      BY <2>2 DEF Ask, Idle
    <2> HIDE DEF r
    <2> QED BY <1>1, <2>2, <2>3, ReadMoves
  <1>3. CASE ~ \E t \in Tickets : RestoreRead(c, t)
    <2>1. CASE GiveUp(c) \/ OpenCash(c) \/ Close(c)
      <3>1. request' = [request EXCEPT ![c] = Idle] /\ Idle.op # "restore"
        BY <2>1 DEF GiveUp, OpenCash, Close, Answer, Idle
      <3> QED BY <1>1, <3>1, ReadMoves
    <2>2. ASSUME NEW op, op # "restore", NEW row, Ask(c, op, row),
                 [row EXCEPT !.op = op].op = op
          PROVE  Moves /\ Blank' /\ FromSource'
      BY <1>1, <2>2, ReadMoves DEF Ask
    <2>3. CASE CreateRead(c) \/ SaleRead(c) \/ OpenRead(c) \/ CloseRead(c)
      BY <2>2, <2>3 DEF CreateRead, SaleRead, OpenRead, CloseRead, ReadSession, Idle
    <2>4. CASE \E t \in Tickets : \/ KitchenRead(c, t) \/ UpdateRead(c, t) \/ ItemsRead(c, t)
                                  \/ CheckoutRead(c, t) \/ ReopenRead(c, t)
      BY <2>2, <2>4 DEF KitchenRead, UpdateRead, ItemsRead, CheckoutRead, ReopenRead, ReadTicket, Idle
    <2>5. CASE \E s \in Sales : ConvertRead(c, s)
      BY <2>2, <2>5 DEF ConvertRead, Idle
    <2> QED BY <1>3, <2>1, <2>3, <2>4, <2>5
  <1> QED BY <1>2, <1>3

LEMMA BackedSteps == Inv /\ Backed /\ [Next]_vars => Backed'
  <1> SUFFICES ASSUME Inv, Backed, [Next]_vars PROVE Backed'
    OBVIOUS
  <1>1. CASE UNCHANGED vars
    <2>1. UNCHANGED ticket /\ UNCHANGED sale /\ UNCHANGED request
      BY <1>1 DEF vars
    <2>2. Blank' /\ FromSource' /\ \A t \in Tickets : SourceStays(t) /\ Keeps(t)
      BY <2>1, SalesStill DEF Backed, FromSource, SourceStays, Keeps
    <2> QED BY <2>2, Balancing DEF Backed
  <1>2. CASE Next
    <2>1. PICK c \in Clients :
            \/ Create(c) \/ TransitionKitchen(c) \/ Update(c) \/ ReplaceItems(c)
            \/ Checkout(c) \/ DirectSale(c) \/ Reopen(c) \/ Restore(c) \/ Convert(c)
            \/ GiveUp(c) \/ CreateRead(c) \/ SaleRead(c) \/ OpenRead(c) \/ OpenCash(c)
            \/ CloseRead(c) \/ Close(c)
            \/ \E t \in Tickets : \/ KitchenRead(c, t) \/ UpdateRead(c, t) \/ ItemsRead(c, t)
                                  \/ CheckoutRead(c, t) \/ ReopenRead(c, t) \/ RestoreRead(c, t)
            \/ \E s \in Sales : ConvertRead(c, s)
      BY <1>2 DEF Next, ReopenCash
    <2>2. Moves /\ Blank' /\ FromSource'
      BY <2>1, EditsMove, ChargesMove, ReturnsMove, ConvertMoves, OthersMove
    <2>3. \A t \in Tickets : Balanced(t)'
      BY <2>2, Balancing DEF Backed, Moves
    <2> QED BY <2>2, <2>3 DEF Backed
  <1> QED BY <1>1, <1>2

LEMMA InitiallyBacked == Init => Backed
  <1> SUFFICES ASSUME Init PROVE Backed
    OBVIOUS
  <1>1. Blank /\ FromSource
    BY DEF Init, Blank, FromSource, NoSale, Idle
  <1>2. ASSUME NEW t \in Tickets PROVE Balanced(t)
    <2>1. ChargedTo(t) = {}
      BY DeskAssumption DEF Init, ChargedTo, NoSale
    <2>2. GivenBack(t) = {}
      BY <2>1 DEF GivenBack
    <2> QED BY <2>1, <2>2, FS_EmptySet DEF Balanced, Init, NoTicketRow
  <1> QED BY <1>1, <1>2 DEF Backed

(* However often a ticket is charged and reopened, by whichever requests,  *)
(* it gives back at most as often as it was charged (checkout, reopen).    *)
THEOREM ReversalsAreBacked == Spec => []ReversalsBacked
<1>1. Spec => []Backed
  BY InductiveInvariant, InitiallyBacked, BackedSteps, PTL DEF Spec
<1>2. Backed => ReversalsBacked
  BY DEF Backed, Balanced, ReversalsBacked
<1> QED
  BY <1>1, <1>2, PTL
===============================================================================
