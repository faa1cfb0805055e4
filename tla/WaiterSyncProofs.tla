--------------------------- MODULE WaiterSyncProofs ---------------------------
(***************************************************************************)
(* Operations of waiters are applied once, over what their devices had     *)
(* fetched, for any number of waiters, operations, tickets, requests and   *)
(* edits.  A device never remembers of a ticket more than was true of it   *)
(* at the revision it remembers; what it fetched and what it shows may be  *)
(* of two revisions.                                                       *)
(***************************************************************************)
EXTENDS WaiterSync, TLAPS, FiniteSetTheorems, SequenceTheorems

Row       == [status : {"ABSENT", "CLOSED"} \cup Active, revision : Nat,
              items : Ops \cup {Desk}, owner : Waiters \cup {None}]
Seen      == [order : Tickets \cup {None}, row : Row]
Operation == [at : {"free", "direct", "queued", "done", "gone"},
              by : Waiters \cup {None}, seen : Seen, shown : Seen, writes : Nat]

(* The types, but for the bound of the revisions and the outbox.           *)
Shape ==
  /\ ticket \in [Tickets -> Row]
  /\ op \in [Ops -> Operation]
  /\ view \in [Waiters -> Seen] /\ shown \in [Waiters -> Seen]
  /\ handler \in [Handlers -> HandlerRow]

(* Nothing was written for an operation that is not composed yet.          *)
Unwritten == \A o \in Ops : op[o].at = "free" => op[o].writes = 0

(* A request is for an operation that was composed, and goes to the ticket *)
(* its device showed.                                                      *)
Request(h) == handler[h].phase # "idle" =>
  /\ handler[h].op \in Ops /\ op[handler[h].op].at # "free"
  /\ handler[h].phase = "read" /\ op[handler[h].op].seen.order # None =>
       handler[h].current = op[handler[h].op].seen.order
Requests == \A h \in Handlers : Request(h)

(* What is remembered of a ticket was true of it at that revision, but     *)
(* that a checkout may have closed it.                                     *)
Remembered(seen, t) ==
  seen.order = t =>
    /\ ticket[t].status # "ABSENT" /\ seen.row.status \in Active
    /\ seen.row.revision <= ticket[t].revision
    /\ seen.row.revision = ticket[t].revision =>
         seen.row.items = ticket[t].items /\ ticket[t].status \in {seen.row.status, "CLOSED"}
Memory == \A t \in Tickets :
  /\ \A w \in Waiters : Remembered(view[w], t) /\ Remembered(shown[w], t)
  /\ \A o \in Ops : Remembered(op[o].seen, t) /\ Remembered(op[o].shown, t)

(* The composer was filled from the ticket that was fetched last, if from  *)
(* another revision of it.                                                 *)
Alike == /\ \A w \in Waiters : shown[w].order = view[w].order
         /\ \A o \in Ops : op[o].shown.order = op[o].seen.order

(* A handler that has read the ticket of an edit found the status the edit *)
(* asks for: it is the one of the revision to compare, or that revision is *)
(* past.                                                                   *)
Agreed(h) == LET o == handler[h].op  seen == op[handler[h].op].seen IN
  handler[h].phase = "read" /\ seen.order # None =>
    Asks(o) = seen.row.status \/ seen.row.revision < ticket[seen.order].revision
Agreements == \A h \in Handlers : Agreed(h)

(* An outbox holds the queued operations of its device, once each.        *)
Holds(queue, S) == queue \in Seq(Ops) /\ IsInjective(queue) /\ Range(queue) = S
Queued(w) == {o \in Ops : op[o].by = w /\ op[o].at = "queued"}
Outboxes == /\ outbox \in [Waiters -> Seq(Ops)]
            /\ \A w \in Waiters : Holds(outbox[w], Queued(w))

(* A revision is an edit of the desk or an operation that was written.     *)
WrittenOps == {o \in Ops : op[o].writes > 0}
Level == deskEdits + Cardinality(WrittenOps)
Bounded == /\ deskEdits \in 0..MaxDeskEdits
           /\ \A t \in Tickets : ticket[t].revision <= Level
           /\ \A w \in Waiters : view[w].row.revision <= Level /\ shown[w].row.revision <= Level
           /\ \A o \in Ops : /\ op[o].seen.row.revision <= Level
                             /\ op[o].shown.row.revision <= Level

(* The flags and the loop of a device.                                     *)
Loops == online \in [Waiters -> BOOLEAN] /\ left \in [Waiters -> Nat]

Inv == Shape /\ Unwritten /\ Requests /\ Memory /\ Alike /\ Agreements /\ AppliedOnce

----------------------------------------------------------------------------
LEMMA Initially == Init => Inv
  BY SyncAssumption DEF Init, Inv, Shape, Unwritten, Requests, Request, Memory, Remembered, Alike,
     Agreements, Agreed, AppliedOnce, Row, Seen, Operation, HandlerRow, NoTicketRow, NothingSeen,
     IdleHandler, Active, Desk

(* A ticket that only moves on, with a new revision whenever anything      *)
(* changes but that it is closed, keeps what is remembered of it true.     *)
MovesOn(t) ==
  ticket[t].status # "ABSENT" =>
    /\ ticket'[t].status # "ABSENT" /\ ticket'[t].revision >= ticket[t].revision
    /\ ticket'[t].revision = ticket[t].revision =>
         ticket'[t].items = ticket[t].items /\ ticket'[t].status \in {ticket[t].status, "CLOSED"}

LEMMA MemoryIsKept ==
  ASSUME Shape, ticket' \in [Tickets -> Row], NEW t \in Tickets, MovesOn(t),
         NEW seen \in Seen, Remembered(seen, t)
  PROVE  seen.order = t =>
    /\ ticket'[t].status # "ABSENT" /\ seen.row.status \in Active
    /\ seen.row.revision <= ticket'[t].revision
    /\ seen.row.revision = ticket'[t].revision =>
         seen.row.items = ticket'[t].items /\ ticket'[t].status \in {seen.row.status, "CLOSED"}
  <1>1. ticket[t] \in Row /\ ticket'[t] \in Row /\ seen.row \in Row
    BY DEF Shape, Seen
  <1>2. ticket[t].revision \in Nat /\ ticket'[t].revision \in Nat /\ seen.row.revision \in Nat
    BY <1>1 DEF Row
  <1> QED BY <1>2 DEF MovesOn, Remembered

LEMMA RowMoves ==
  ASSUME Shape, NEW t \in Tickets, NEW q \in Row, ticket' = [ticket EXCEPT ![t] = q],
         ticket[t].status # "ABSENT" =>
           /\ q.status # "ABSENT" /\ q.revision >= ticket[t].revision
           /\ q.revision = ticket[t].revision =>
                q.items = ticket[t].items /\ q.status \in {ticket[t].status, "CLOSED"}
  PROVE  ticket' \in [Tickets -> Row] /\ \A u \in Tickets : MovesOn(u)
  <1>1. ticket' \in [Tickets -> Row] /\ ticket'[t] = q
    BY DEF Shape
  <1>2. ASSUME NEW u \in Tickets PROVE MovesOn(u)
    <2>1. CASE u = t
      BY <1>1, <2>1 DEF MovesOn
    <2>2. CASE u # t
      <3>1. ticket'[u] = ticket[u] /\ ticket[u] \in Row
        BY <2>2 DEF Shape
      <3>2. ticket[u].revision >= ticket[u].revision
        BY <3>1 DEF Row
      <3> QED BY <3>1, <3>2 DEF MovesOn
    <2> QED BY <2>1, <2>2
  <1> QED BY <1>1, <1>2

LEMMA RowEdited ==
  ASSUME Shape, NEW t \in Tickets, NEW q \in Row, ticket' = [ticket EXCEPT ![t] = q],
         q.status # "ABSENT", q.revision = ticket[t].revision + 1
  PROVE  ticket' \in [Tickets -> Row] /\ \A u \in Tickets : MovesOn(u)
  <1>1. ticket[t].revision \in Nat
    BY DEF Shape, Row
  <1>2. q.revision >= ticket[t].revision /\ q.revision # ticket[t].revision
    BY <1>1
  <1> QED BY <1>2, RowMoves

(* Steps that only say where an operation stands.                          *)
Standing == \A o \in Ops :
  /\ op'[o] = [op[o] EXCEPT !.at = op'[o].at]
  /\ op'[o].at \in {"free", "direct", "queued", "done", "gone"}
  /\ op'[o].at = "free" => op[o].at = "free"
  /\ op'[o].at = "done" => op[o].writes = 1

(* Steps that only change who waits for which answer.                      *)
Listening == \A h \in Handlers :
  /\ handler'[h].op = handler[h].op \/ handler'[h].phase = "idle"
  /\ handler'[h].phase \in {handler[h].phase, "idle"}
  /\ handler'[h].current = handler[h].current \/ handler'[h].phase = "idle"

(* Steps that fill a composer at most with what was fetched.               *)
Showing == /\ shown' \in [Waiters -> Seen]
           /\ \A w \in Waiters : shown'[w] \in {shown[w], view[w]}

LEMMA Fills ==
  ASSUME Inv, NEW w, UNCHANGED shown \/ shown' = Filled(w)
  PROVE  Showing
  <1>1. CASE UNCHANGED shown
    BY <1>1 DEF Showing, Inv, Shape
  <1>2. CASE shown' = Filled(w)
    BY <1>2 DEF Showing, Filled, Inv, Shape
  <1> QED BY <1>1, <1>2

LEMMA OnlyStanding ==
  ASSUME Inv, Standing, op' \in [Ops -> Operation]
  PROVE  /\ \A o \in Ops : /\ op'[o].by = op[o].by /\ op'[o].seen = op[o].seen
                           /\ op'[o].shown = op[o].shown /\ op'[o].writes = op[o].writes
         /\ Unwritten' /\ AppliedOnce'
  <1>1. \A o \in Ops : /\ op'[o].by = op[o].by /\ op'[o].seen = op[o].seen
                       /\ op'[o].shown = op[o].shown /\ op'[o].writes = op[o].writes
    BY DEF Inv, Shape, Standing, Operation
  <1> QED
    BY <1>1 DEF Inv, Shape, Standing, Unwritten, AppliedOnce, Operation

(* Steps that neither write a ticket nor look at one.                      *)
Talk == /\ Standing /\ op' \in [Ops -> Operation]
        /\ Listening /\ handler' \in [Handlers -> HandlerRow]
        /\ Showing /\ UNCHANGED <<ticket, view, deskEdits>>

LEMMA OnlyTalk ==
  ASSUME Inv, Talk
  PROVE  Inv'
  <1>1. \A o \in Ops : op'[o].seen = op[o].seen /\ op'[o].shown = op[o].shown
    BY OnlyStanding DEF Talk
  <1>2. Unwritten' /\ AppliedOnce'
    BY OnlyStanding DEF Talk
  <1>3. Shape'
    BY DEF Inv, Shape, Talk, Showing
  <1>4. Requests'
    BY <1>1 DEF Inv, Shape, Requests, Request, Listening, Standing, Talk,
       HandlerRow, Operation
  <1>5. Memory'
    BY <1>1 DEF Inv, Memory, Remembered, Talk, Showing
  <1>6. Alike'
    BY <1>1 DEF Inv, Alike, Talk, Showing
  <1>7. Agreements'
    <2> SUFFICES ASSUME NEW h \in Handlers, handler'[h].phase = "read" PROVE Agreed(h)'
      BY DEF Agreements, Agreed
    <2>1. handler[h].phase = "read" /\ handler'[h].op = handler[h].op /\ handler[h].op \in Ops
      BY DEF Talk, Listening, Inv, Shape, Requests, Request, HandlerRow
    <2> QED BY <1>1, <2>1 DEF Inv, Agreements, Agreed, Asks, Talk
  <1> QED BY <1>2, <1>3, <1>4, <1>5, <1>6, <1>7 DEF Inv

----------------------------------------------------------------------------
(* A request that is answered: nothing new was written, and "saved" is     *)
(* answered only to an operation that has its receipt.                     *)
LEMMA Replies ==
  ASSUME Inv, NEW h \in Handlers, handler[h].phase # "idle", NEW saved \in BOOLEAN,
         Reply(h, handler[h].op, op[handler[h].op], saved), saved => Receipt(handler[h].op)
  PROVE  /\ Standing /\ op' \in [Ops -> Operation]
         /\ Listening /\ handler' \in [Handlers -> HandlerRow] /\ Showing
  <1> DEFINE o == handler[h].op
  <1>1. o \in Ops /\ op[o].at # "free" /\ op[o] \in Operation
    BY DEF Inv, Shape, Requests, Request
  <1>2. Listening /\ handler' \in [Handlers -> HandlerRow]
    BY DEF Inv, Shape, Reply, Finish, Listening, IdleHandler, HandlerRow
  <1>3. saved => op[o].writes = 1
    BY <1>1 DEF Inv, AppliedOnce, Receipt, Operation
  <1>4. PICK at \in {"free", "direct", "queued", "done", "gone"} :
          /\ op' = [op EXCEPT ![o] = [op[o] EXCEPT !.at = at]]
          /\ at # "free" /\ (at = "done" => op[o].writes = 1)
    <2>0. [op[o] EXCEPT !.at = op[o].at] = op[o] /\ (op[o].at = "done" => op[o].writes = 1)
      BY <1>1 DEF Operation, Inv, AppliedOnce
    <2>1. CASE ~handler[h].heard
      BY <2>0, <2>1, <1>1 DEF Reply, Operation
    <2>2. CASE handler[h].heard /\ saved
      BY <2>2, <1>1, <1>3 DEF Reply, Saved
    <2>3. CASE handler[h].heard /\ ~saved
      <3>1. op' = [op EXCEPT ![o] = [op[o] EXCEPT !.at = IF op[o].at = "direct" THEN "gone"
                                                         ELSE op[o].at]]
        BY <2>3 DEF Reply, Refused
      <3> QED BY <3>1, <2>0, <1>1 DEF Operation
    <2> QED BY <2>1, <2>2, <2>3
  <1>5. Standing /\ op' \in [Ops -> Operation]
    <2>1. \A p \in Ops : [op[p] EXCEPT !.at = op[p].at] = op[p]
                         /\ (op[p].at = "done" => op[p].writes = 1)
      BY DEF Inv, Shape, Operation, AppliedOnce
    <2> QED BY <1>1, <1>4, <2>1 DEF Inv, Shape, Standing, Operation
  <1>6. Showing
    <2>1. UNCHANGED shown \/ shown' = Filled(op[o].by)
      BY DEF Reply, Saved, Refused
    <2> QED BY <2>1, Fills
  <1> QED BY <1>2, <1>5, <1>6

----------------------------------------------------------------------------
(* The device.                                                             *)

LEMMA Composing ==
  ASSUME Inv, NEW o \in Ops, NEW w \in Waiters, NEW at \in {"direct", "queued"},
         Compose(o, w, at), UNCHANGED <<ticket, view, shown>>
  PROVE  /\ op[o].at = "free" /\ op' \in [Ops -> Operation]
         /\ \A p \in Ops : p # o => op'[p] = op[p]
         /\ op'[o].at = at /\ op'[o].by = w /\ op'[o].seen = view[w] /\ op'[o].shown = shown[w]
         /\ op'[o].writes = 0 /\ op[o].writes = 0
         /\ Unwritten' /\ Memory' /\ Alike' /\ AppliedOnce'
  <1>1. op[o].at = "free" /\ op[o] \in Operation /\ op[o].writes = 0
        /\ view[w] \in Seen /\ shown[w] \in Seen
    BY DEF Inv, Shape, Compose, Unwritten
  <1>2. op' = [op EXCEPT ![o] = [op[o] EXCEPT !.at = at, !.by = w, !.seen = view[w],
                                              !.shown = shown[w]]]
    BY DEF Compose
  <1>3. /\ op' \in [Ops -> Operation] /\ \A p \in Ops : p # o => op'[p] = op[p]
        /\ op'[o].at = at /\ op'[o].by = w /\ op'[o].seen = view[w] /\ op'[o].shown = shown[w]
        /\ op'[o].writes = 0
    BY <1>1, <1>2 DEF Inv, Shape, Operation
  <1>4. Unwritten' /\ AppliedOnce'
    BY <1>3 DEF Inv, Unwritten, AppliedOnce
  <1>5. Memory' /\ Alike'
    BY <1>3 DEF Inv, Memory, Remembered, Alike
  <1> QED BY <1>1, <1>3, <1>4, <1>5

(* Requests that were there are for operations that were composed before.  *)
LEMMA OldAgreements ==
  ASSUME Inv, UNCHANGED ticket, NEW o \in Ops, op[o].at = "free",
         \A p \in Ops : p # o => op'[p] = op[p],
         \A g \in Handlers : handler'[g] = handler[g] \/ handler'[g].phase = "sent"
  PROVE  Agreements'
  <1> SUFFICES ASSUME NEW h \in Handlers, handler'[h].phase = "read" PROVE Agreed(h)'
    BY DEF Agreements, Agreed
  <1>1. handler'[h] = handler[h] /\ handler[h].op \in Ops /\ handler[h].op # o
    BY DEF Inv, Requests, Request
  <1> QED BY <1>1 DEF Inv, Agreements, Agreed, Asks

LEMMA Posting ==
  ASSUME Inv, NEW o \in Ops, Post(o)
  PROVE  /\ handler' \in [Handlers -> HandlerRow]
         /\ \A g \in Handlers : \/ handler'[g] = handler[g]
                                \/ handler'[g].phase = "sent" /\ handler'[g].op = o
  <1> DEFINE row == [IdleHandler EXCEPT !.phase = "sent", !.op = o, !.heard = TRUE]
  <1>1. PICK h \in Handlers : handler' = [handler EXCEPT ![h] = row]
    BY DEF Post
  <1>2. row \in HandlerRow /\ row.phase = "sent" /\ row.op = o
    BY DEF IdleHandler, HandlerRow
  <1> HIDE DEF row
  <1> QED BY <1>1, <1>2 DEF Inv, Shape

LEMMA SaveOfflineStep ==
  ASSUME Inv, NEW o \in Ops, NEW w \in Waiters, SaveOffline(o, w)
  PROVE  Inv'
  <1>1. Compose(o, w, "queued") /\ UNCHANGED <<ticket, view, shown, handler>>
    BY DEF SaveOffline, server, page
  <1>2. /\ op[o].at = "free" /\ op' \in [Ops -> Operation] /\ op'[o].at # "free"
        /\ \A p \in Ops : p # o => op'[p] = op[p]
        /\ Unwritten' /\ Memory' /\ Alike' /\ AppliedOnce'
    BY <1>1, Composing
  <1>3. Requests'
    BY <1>1, <1>2 DEF Inv, Requests, Request
  <1>4. Agreements'
    BY <1>1, <1>2, OldAgreements
  <1> QED BY <1>1, <1>2, <1>3, <1>4 DEF Inv, Shape

LEMMA SaveOnlineStep ==
  ASSUME Inv, NEW o \in Ops, NEW w \in Waiters, SaveOnline(o, w)
  PROVE  Inv'
  <1>1. Compose(o, w, "direct") /\ Post(o) /\ UNCHANGED <<ticket, view, shown>>
    BY DEF SaveOnline, server, page
  <1>2. /\ op[o].at = "free" /\ op' \in [Ops -> Operation] /\ op'[o].at # "free"
        /\ \A p \in Ops : p # o => op'[p] = op[p]
        /\ Unwritten' /\ Memory' /\ Alike' /\ AppliedOnce'
    BY <1>1, Composing
  <1>3. /\ handler' \in [Handlers -> HandlerRow]
        /\ \A g \in Handlers : \/ handler'[g] = handler[g]
                               \/ handler'[g].phase = "sent" /\ handler'[g].op = o
    BY <1>1, Posting
  <1>4. Requests'
    BY <1>2, <1>3 DEF Inv, Requests, Request
  <1>5. Agreements'
    BY <1>1, <1>2, <1>3, OldAgreements
  <1> QED BY <1>1, <1>2, <1>3, <1>4, <1>5 DEF Inv, Shape

LEMMA FlushStep ==
  ASSUME Inv, Outboxes, NEW w \in Waiters, Flush(w)
  PROVE  Inv'
  <1>1. PICK o \in Ops : o = Head(outbox[w]) /\ Post(o)
    BY DEF Flush
  <1>2. UNCHANGED <<ticket, op, view, shown>> /\ outbox[w] # <<>>
    BY DEF Flush, server, page
  <1>3. op[o].at # "free"
    <2>1. outbox[w] \in Seq(Ops) /\ Range(outbox[w]) = Queued(w)
      BY DEF Outboxes, Holds
    <2>2. 1 \in DOMAIN outbox[w] /\ o = outbox[w][1]
      BY <1>1, <1>2, <2>1
    <2> QED BY <2>1, <2>2 DEF Range, Queued
  <1>4. /\ handler' \in [Handlers -> HandlerRow]
        /\ \A g \in Handlers : \/ handler'[g] = handler[g]
                               \/ handler'[g].phase = "sent" /\ handler'[g].op = o
    BY <1>1, Posting
  <1>5. Requests'
    BY <1>2, <1>3, <1>4 DEF Inv, Requests, Request
  <1>6. Agreements'
    BY <1>2, <1>4 DEF Inv, Agreements, Agreed, Asks
  <1> QED
    BY <1>2, <1>4, <1>5, <1>6 DEF Inv, Shape, Unwritten, Memory, Remembered, Alike, AppliedOnce

LEMMA RefreshStep ==
  ASSUME Inv, NEW w \in Waiters, Refresh(w)
  PROVE  Inv'
  <1>1. UNCHANGED <<ticket, op, handler>>
    BY DEF Refresh, server
  <1>2. PICK seen \in Fetched :
          /\ view' = [view EXCEPT ![w] = seen]
          /\ shown' = [shown EXCEPT ![w] = IF @.order = seen.order THEN @ ELSE seen]
    BY DEF Refresh
  <1>3. seen \in Seen /\ \A t \in Tickets : Remembered(seen, t)
    <2>1. CASE seen = NothingSeen
      BY <2>1, SyncAssumption DEF NothingSeen, NoTicketRow, Seen, Row, Remembered
    <2>2. ASSUME NEW t \in ActiveTickets, seen = [order |-> t, row |-> ticket[t]]
          PROVE  seen \in Seen /\ \A u \in Tickets : Remembered(seen, u)
      <3>1. t \in Tickets /\ ticket[t] \in Row /\ ticket[t].status \in Active
        BY DEF ActiveTickets, Inv, Shape
      <3> QED BY <2>2, <3>1 DEF Seen, Remembered, Row, Active
    <2> QED BY <2>1, <2>2 DEF Fetched
  <1>4. /\ view' \in [Waiters -> Seen] /\ shown' \in [Waiters -> Seen]
        /\ \A v \in Waiters : /\ view'[v] \in {view[v], seen} /\ shown'[v] \in {shown[v], seen}
                              /\ shown'[v].order = view'[v].order
    BY <1>2, <1>3 DEF Inv, Shape, Alike
  <1>5. Memory'
    BY <1>1, <1>3, <1>4 DEF Inv, Memory, Remembered
  <1>6. Alike' /\ Agreements'
    BY <1>1, <1>4 DEF Inv, Alike, Agreements, Agreed, Asks
  <1> QED
    BY <1>1, <1>4, <1>5, <1>6 DEF Inv, Shape, Unwritten, Requests, Request, AppliedOnce

(* What stays as it was stands where it stood.                             *)
LEMMA Stays ==
  ASSUME Inv
  PROVE  /\ \A o \in Ops : /\ op[o] = [op[o] EXCEPT !.at = op[o].at]
                           /\ op[o].at = "done" => op[o].writes = 1
                           /\ op[o].at \in {"free", "direct", "queued", "done", "gone"}
         /\ op \in [Ops -> Operation]
  BY DEF Inv, Shape, Operation, AppliedOnce

LEMMA Placing ==
  ASSUME Inv, NEW at \in {"direct", "queued", "gone"},
         NEW P \in SUBSET Ops,
         op' = [o \in Ops |-> IF o \in P THEN [op[o] EXCEPT !.at = at] ELSE op[o]]
  PROVE  Standing /\ op' \in [Ops -> Operation]
  <1>1. \A o \in Ops : op'[o] = IF o \in P THEN [op[o] EXCEPT !.at = at] ELSE op[o]
    OBVIOUS
  <1>2. \A o \in Ops : op[o] \in Operation /\ op[o] = [op[o] EXCEPT !.at = op[o].at]
                       /\ (op[o].at = "done" => op[o].writes = 1)
    BY Stays DEF Inv, Shape
  <1>3. Standing
    BY <1>1, <1>2 DEF Standing, Operation
  <1>4. \A o \in Ops : op'[o] \in Operation
    BY <1>1, <1>2 DEF Operation
  <1> QED BY <1>3, <1>4

LEMMA CutOffTalks ==
  ASSUME Inv, NEW o \in Ops, CutOff(o)
  PROVE  Talk
  <1>1. Listening /\ handler' \in [Handlers -> HandlerRow]
    BY DEF Inv, Shape, CutOff, Unheard, Listening, HandlerRow
  <1>2. Standing /\ op' \in [Ops -> Operation]
    <2>1. CASE UNCHANGED op
      BY <2>1, Stays DEF Standing
    <2>2. CASE op' = [op EXCEPT ![o].at = "queued"]
      <3>1. op' = [p \in Ops |-> IF p \in {o} THEN [op[p] EXCEPT !.at = "queued"] ELSE op[p]]
        BY <2>2 DEF Inv, Shape
      <3>2. {o} \in SUBSET Ops
        OBVIOUS
      <3> QED BY <3>1, <3>2, Placing
    <2> QED BY <2>1, <2>2 DEF CutOff
  <1>3. UNCHANGED <<ticket, view, deskEdits>> /\ Showing
    BY Fills DEF CutOff, server
  <1> QED BY <1>1, <1>2, <1>3 DEF Talk

LEMMA ReloadTalks ==
  ASSUME Inv, NEW w \in Waiters, Reload(w)
  PROVE  Talk
  <1>1. Listening /\ handler' \in [Handlers -> HandlerRow]
    BY DEF Inv, Shape, Reload, Listening, HandlerRow
  <1>2. Standing /\ op' \in [Ops -> Operation]
    <2> DEFINE P == {o \in Mine(w) : op[o].at = "direct"}
    <2>1. P \in SUBSET Ops /\ op' = [o \in Ops |-> IF o \in P THEN [op[o] EXCEPT !.at = "gone"]
                                                   ELSE op[o]]
      BY DEF Reload, Mine
    <2> HIDE DEF P
    <2> QED BY <2>1, Placing
  <1>3. UNCHANGED <<ticket, view, deskEdits>> /\ Showing
    BY Fills DEF Reload, server
  <1> QED BY <1>1, <1>2, <1>3 DEF Talk

LEMMA ExpireTalks ==
  ASSUME Inv, NEW w \in Waiters, Expire(w)
  PROVE  Talk
  <1>1. Standing /\ op' \in [Ops -> Operation]
    <2> DEFINE P == {o \in Ops : Contains(outbox[w], o)}
    <2>1. P \in SUBSET Ops /\ op' = [o \in Ops |-> IF o \in P THEN [op[o] EXCEPT !.at = "gone"]
                                                   ELSE op[o]]
      BY DEF Expire
    <2> HIDE DEF P
    <2> QED BY <2>1, Placing
  <1>2. UNCHANGED <<ticket, view, handler, deskEdits>> /\ Showing
    BY Fills DEF Expire, server, page
  <1>3. Listening /\ handler' \in [Handlers -> HandlerRow]
    BY <1>2 DEF Inv, Shape, Listening, HandlerRow
  <1> QED BY <1>1, <1>2, <1>3 DEF Talk

LEMMA OpenTalks ==
  ASSUME Inv, NEW w \in Waiters, Open(w) \/ GoOnline(w) \/ GoOffline(w)
  PROVE  Talk
  <1>1. UNCHANGED <<ticket, view, handler, deskEdits, op>> /\ Showing
    BY Fills DEF Open, GoOnline, GoOffline, server
  <1>2. Listening /\ handler' \in [Handlers -> HandlerRow]
    BY <1>1 DEF Inv, Shape, Listening, HandlerRow
  <1>3. Standing /\ op' \in [Ops -> Operation]
    BY <1>1, Stays DEF Standing
  <1> QED BY <1>1, <1>2, <1>3 DEF Talk

----------------------------------------------------------------------------
(* The server.                                                             *)

LEMMA LoseTalks ==
  ASSUME Inv, NEW h \in Handlers, Lose(h)
  PROVE  Talk
  <1>1. Listening /\ handler' \in [Handlers -> HandlerRow]
    BY DEF Inv, Shape, Lose, Finish, Listening, IdleHandler, HandlerRow
  <1>2. UNCHANGED <<ticket, view, op, deskEdits>> /\ Showing
    BY Fills DEF Lose, server, page
  <1>3. Standing /\ op' \in [Ops -> Operation]
    BY <1>2, Stays DEF Standing
  <1> QED BY <1>1, <1>2, <1>3 DEF Talk

LEMMA ReplayTalks ==
  ASSUME Inv, NEW h \in Handlers, Replay(h)
  PROVE  Talk
  <1>1. /\ handler[h].phase # "idle" /\ Receipt(handler[h].op)
        /\ Reply(h, handler[h].op, op[handler[h].op], TRUE) /\ UNCHANGED <<ticket, view, deskEdits>>
    BY DEF Replay, server
  <1> QED BY <1>1, Replies DEF Talk

LEMMA ConflictTalks ==
  ASSUME Inv, NEW h \in Handlers, Conflict(h)
  PROVE  Talk
  <1>1. /\ handler[h].phase # "idle" /\ Reply(h, handler[h].op, op[handler[h].op], FALSE)
        /\ UNCHANGED <<ticket, view, deskEdits>>
    BY DEF Conflict, server
  <1> QED BY <1>1, Replies DEF Talk

LEMMA DuplicateTalks ==
  ASSUME Inv, NEW h \in Handlers, Duplicate(h)
  PROVE  Talk
  <1>1. /\ handler[h].phase # "idle" /\ Receipt(handler[h].op)
        /\ Reply(h, handler[h].op, op[handler[h].op], TRUE) /\ UNCHANGED <<ticket, view, deskEdits>>
    BY DEF Duplicate, server, Unreceipted
  <1> QED BY <1>1, Replies DEF Talk

LEMMA ReadStep ==
  ASSUME Inv, NEW h \in Handlers, Read(h)
  PROVE  Inv'
  <1> DEFINE o == handler[h].op
  <1>1. PICK t \in Current(o) :
          IF Refusal(o, t) THEN Reply(h, o, op[o], FALSE)
          ELSE /\ handler' = [handler EXCEPT ![h] = [@ EXCEPT !.phase = "read", !.current = t]]
               /\ UNCHANGED <<op, outbox, shown, left>>
    BY DEF Read
  <1>2. handler[h].phase = "sent" /\ UNCHANGED <<ticket, view, deskEdits>>
    BY DEF Read, server
  <1>3. CASE Refusal(o, t)
    <2>1. Reply(h, o, op[o], FALSE)
      BY <1>1, <1>3
    <2> QED BY <1>2, <2>1, Replies, OnlyTalk DEF Talk
  <1>4. CASE ~Refusal(o, t)
    <2>1. handler' = [handler EXCEPT ![h] = [@ EXCEPT !.phase = "read", !.current = t]]
          /\ UNCHANGED <<op, shown>>
      BY <1>1, <1>4
    <2>2. o \in Ops /\ op[o].at # "free" /\ op[o].seen \in Seen
      BY <1>2 DEF Inv, Shape, Requests, Request, Operation
    <2>3. t \in Tickets \cup {None} /\ (op[o].seen.order # None => t = op[o].seen.order)
      BY <2>2 DEF Current, ActiveTickets, Seen
    <2>4. handler' \in [Handlers -> HandlerRow]
      BY <2>1, <2>3 DEF Inv, Shape, HandlerRow
    <2>5. Requests'
      BY <2>1, <2>2, <2>3 DEF Inv, Shape, Requests, Request, HandlerRow
    <2>6. Agreements'
      <3> SUFFICES ASSUME NEW g \in Handlers PROVE Agreed(g)'
        BY DEF Agreements
      <3>1. CASE g # h
        BY <1>2, <2>1, <3>1 DEF Inv, Shape, Agreements, Agreed, Asks
      <3>2. ASSUME g = h, op[o].seen.order # None
            PROVE  \/ Asks(o) = op[o].seen.row.status
                   \/ op[o].seen.row.revision < ticket[op[o].seen.order].revision
        <4>1. t \in Tickets /\ t # None /\ t = op[o].seen.order
          BY <2>2, <2>3, <3>2 DEF Seen
        <4>2. ticket[t].status = Asks(o) /\ ticket[t].status # "CLOSED"
          BY <1>4, <4>1 DEF Refusal
        <4>3. Remembered(op[o].seen, t)
          BY <2>2, <4>1 DEF Inv, Memory
        <4>4. ticket[t].revision \in Nat /\ op[o].seen.row.revision \in Nat
          BY <2>2, <4>1 DEF Inv, Shape, Row, Seen
        <4> QED BY <4>1, <4>2, <4>3, <4>4 DEF Remembered
      <3>3. handler'[h].op = o
        BY <2>1 DEF Inv, Shape, HandlerRow
      <3> QED BY <1>2, <2>1, <3>1, <3>2, <3>3 DEF Agreed, Asks
    <2> QED
      BY <1>2, <2>1, <2>4, <2>5, <2>6 DEF Inv, Shape, Unwritten, Memory, Remembered, Alike,
         AppliedOnce
  <1> QED BY <1>3, <1>4

(* Tickets that move on keep memory and agreement.                         *)
LEMMA StillRemembered ==
  ASSUME Inv, UNCHANGED view, ticket' \in [Tickets -> Row], \A t \in Tickets : MovesOn(t),
         Showing, \A o \in Ops : op'[o].seen = op[o].seen /\ op'[o].shown = op[o].shown
  PROVE  Memory'
  <1> SUFFICES ASSUME NEW t \in Tickets
               PROVE  /\ \A w \in Waiters : Remembered(view[w], t)' /\ Remembered(shown[w], t)'
                      /\ \A p \in Ops : Remembered(op[p].seen, t)' /\ Remembered(op[p].shown, t)'
    BY DEF Memory
  <1>1. \A w \in Waiters : /\ view[w] \in Seen /\ Remembered(view[w], t)
                           /\ shown'[w] \in Seen /\ Remembered(shown'[w], t)
    BY DEF Inv, Shape, Memory, Showing
  <1>2. \A p \in Ops : /\ op[p].seen \in Seen /\ Remembered(op[p].seen, t)
                       /\ op[p].shown \in Seen /\ Remembered(op[p].shown, t)
    BY DEF Inv, Shape, Memory, Operation
  <1>3. Shape /\ MovesOn(t)
    BY DEF Inv
  <1> QED BY <1>1, <1>2, <1>3, MemoryIsKept DEF Remembered

LEMMA StillAgreed ==
  ASSUME Inv, ticket' \in [Tickets -> Row], \A t \in Tickets : MovesOn(t), Listening,
         \A o \in Ops : op'[o].seen = op[o].seen /\ op'[o].shown = op[o].shown
  PROVE  Agreements'
  <1> SUFFICES ASSUME NEW h \in Handlers, handler'[h].phase = "read",
                      op'[handler'[h].op].seen.order # None
               PROVE  Agreed(h)'
    BY DEF Agreements, Agreed
  <1> DEFINE o == handler[h].op
             t == op[o].seen.order
  <1>1. handler[h].phase = "read" /\ handler'[h].op = o /\ o \in Ops
    BY DEF Listening, Inv, Shape, Requests, Request, HandlerRow
  <1>2. op[o].seen \in Seen /\ op'[o].seen = op[o].seen /\ op'[o].shown = op[o].shown
    BY <1>1 DEF Inv, Shape, Operation
  <1>3. t \in Tickets
    BY <1>1, <1>2 DEF Seen
  <1>4. Remembered(op[o].seen, t) /\ MovesOn(t)
    BY <1>1, <1>3 DEF Inv, Memory
  <1>5. ticket'[t].revision >= ticket[t].revision
    BY <1>4 DEF Remembered, MovesOn
  <1>6. op[o].seen.row.revision \in Nat /\ ticket[t].revision \in Nat /\ ticket'[t].revision \in Nat
    BY <1>2, <1>3 DEF Inv, Shape, Seen, Row
  <1>7. Asks(o) = op[o].seen.row.status \/ op[o].seen.row.revision < ticket[t].revision
    BY <1>1, <1>2 DEF Inv, Agreements, Agreed
  <1>8. Asks(o) = op[o].seen.row.status \/ op[o].seen.row.revision < ticket'[t].revision
    BY <1>5, <1>6, <1>7
  <1> QED BY <1>1, <1>2, <1>8 DEF Agreed, Asks

(* What a commit that wrote the operation into a ticket makes of it.        *)
LEMMA WrittenOp ==
  ASSUME Inv, NEW h \in Handlers, handler[h].phase = "read", Unreceipted(handler[h].op),
         NEW saved \in BOOLEAN, Reply(h, handler[h].op, Written(handler[h].op), saved)
  PROVE  LET o == handler[h].op IN
    /\ o \in Ops /\ op[o].at # "free" /\ op[o] \in Operation /\ op[o].writes = 0
    /\ op' \in [Ops -> Operation] /\ \A p \in Ops : p # o => op'[p] = op[p]
    /\ op'[o].at # "free" /\ op'[o].writes = 1 /\ op'[o].by = op[o].by
    /\ op'[o].seen = op[o].seen /\ op'[o].shown = op[o].shown
    /\ Showing
  <1> DEFINE o == handler[h].op
  <1>1. o \in Ops /\ op[o].at # "free" /\ op[o] \in Operation /\ op[o].writes = 0
    BY DEF Inv, Shape, Requests, Request, Unreceipted, Receipt, Operation
  <1>2. PICK at \in {"direct", "queued", "done", "gone"} :
          op' = [op EXCEPT ![o] = [op[o] EXCEPT !.writes = 1, !.at = at]]
    <2> DEFINE row == Written(o)
    <2>0. Written(o) = [op[o] EXCEPT !.writes = 1]
      BY <1>1 DEF Written, Operation
    <2>1. row = [op[o] EXCEPT !.writes = 1, !.at = op[o].at]
      BY <1>1, <2>0 DEF Operation
    <2>2. \A at : [row EXCEPT !.at = at] = [op[o] EXCEPT !.writes = 1, !.at = at]
      BY <1>1, <2>1 DEF Operation
    <2>3. op[o].at \in {"direct", "queued", "done", "gone"} /\ row.at = op[o].at
      BY <1>1, <2>1 DEF Operation
    <2>4. \/ op' = [op EXCEPT ![o] = row]
          \/ op' = [op EXCEPT ![o] = [row EXCEPT !.at = "done"]]
          \/ op' = [op EXCEPT ![o] = [row EXCEPT !.at = IF row.at = "direct" THEN "gone"
                                                       ELSE row.at]]
      BY DEF Reply, Saved, Refused
    <2> HIDE DEF row
    <2>5. CASE op' = [op EXCEPT ![o] = row]
      BY <2>1, <2>3, <2>5
    <2>6. CASE op' = [op EXCEPT ![o] = [row EXCEPT !.at = "done"]]
      BY <2>2, <2>6
    <2>7. CASE op' = [op EXCEPT ![o] = [row EXCEPT !.at = IF row.at = "direct" THEN "gone"
                                                       ELSE row.at]]
      BY <2>2, <2>3, <2>7
    <2> QED BY <2>4, <2>5, <2>6, <2>7
  <1>3. /\ op' \in [Ops -> Operation] /\ \A p \in Ops : p # o => op'[p] = op[p]
        /\ op'[o].at = at /\ op'[o].writes = 1 /\ op'[o].by = op[o].by
        /\ op'[o].seen = op[o].seen /\ op'[o].shown = op[o].shown
    BY <1>1, <1>2 DEF Inv, Shape, Operation
  <1>4. UNCHANGED shown \/ shown' = Filled(Written(o).by)
    BY DEF Reply, Saved, Refused
  <1>5. Showing
    BY <1>4, Fills
  <1> QED BY <1>1, <1>3, <1>5

(* A commit that wrote the operation into a ticket.                        *)
LEMMA Writes ==
  ASSUME Inv, NEW h \in Handlers, handler[h].phase = "read", Unreceipted(handler[h].op),
         UNCHANGED view,
         ticket' \in [Tickets -> Row], \A t \in Tickets : MovesOn(t),
         NEW saved \in BOOLEAN, Reply(h, handler[h].op, Written(handler[h].op), saved)
  PROVE  Inv'
  <1> DEFINE o == handler[h].op
  <1>1. o \in Ops /\ op[o].at # "free" /\ op[o] \in Operation /\ op[o].writes = 0
    BY WrittenOp
  <1>3. /\ op' \in [Ops -> Operation] /\ \A p \in Ops : p # o => op'[p] = op[p]
        /\ op'[o].at # "free" /\ op'[o].writes = 1
        /\ op'[o].seen = op[o].seen /\ op'[o].shown = op[o].shown /\ Showing
    BY WrittenOp
  <1>4. Listening /\ handler' \in [Handlers -> HandlerRow]
    BY DEF Inv, Shape, Reply, Finish, Listening, IdleHandler, HandlerRow
  <1>5. \A p \in Ops : op'[p].seen = op[p].seen /\ op'[p].shown = op[p].shown
    BY <1>3
  <1>6. Shape' /\ Unwritten' /\ AppliedOnce'
    BY <1>3, <1>4 DEF Inv, Shape, Unwritten, AppliedOnce, Showing
  <1>7. Requests'
    BY <1>3, <1>4, <1>5 DEF Inv, Shape, Requests, Request, Listening, HandlerRow
  <1>8. Memory'
    BY <1>3, <1>5, StillRemembered
  <1>9. Alike'
    BY <1>3, <1>5 DEF Inv, Alike, Showing
  <1>10. Agreements'
    BY <1>4, <1>5, StillAgreed DEF Inv
  <1> QED BY <1>6, <1>7, <1>8, <1>9, <1>10 DEF Inv

LEMMA UpdateStep ==
  ASSUME Inv, NEW h \in Handlers, NEW audited \in BOOLEAN, Update(h, audited)
  PROVE  Inv'
  <1> DEFINE o == handler[h].op
             t == handler[h].current
             status == Asks(o)
  <1>1. /\ handler[h].phase = "read" /\ t # None /\ SameRevision(o, t) /\ Unreceipted(o)
        /\ ticket' = [ticket EXCEPT ![t] = [ticket[t] EXCEPT !.status = status, !.revision = @ + 1,
                                                    !.items = o]]
        /\ Reply(h, o, Written(o), audited) /\ UNCHANGED view
    BY DEF Update
  <1>2. o \in Ops /\ t \in Tickets /\ ticket[t] \in Row /\ op[o].shown \in Seen
    BY <1>1 DEF Inv, Shape, Requests, Request, HandlerRow, Operation
  <1>3. op[o].seen.order # None => t = op[o].seen.order /\ Remembered(op[o].shown, t)
                                   /\ op[o].shown.order = t
    BY <1>1, <1>2 DEF Inv, Requests, Request, Memory, Alike
  <1>5. status \in Active
    BY <1>2, <1>3 DEF Remembered, Active, Asks
  <1>6. ticket' \in [Tickets -> Row] /\ \A u \in Tickets : MovesOn(u)
    <2> DEFINE q == [ticket[t] EXCEPT !.status = status, !.revision = @ + 1, !.items = o]
    <2>1. q \in Row /\ q.status # "ABSENT" /\ q.revision = ticket[t].revision + 1
      <3> DEFINE n == ticket[t].revision + 1
      <3>1. n \in Nat
        BY <1>2 DEF Row
      <3>2. q = [ticket[t] EXCEPT !.status = status, !.revision = n, !.items = o]
        OBVIOUS
      <3> HIDE DEF n, q, status
      <3>3. q \in Row /\ q.status = status /\ q.revision = n
        BY <1>2, <1>5, <3>1, <3>2 DEF Row, Active
      <3> QED BY <1>5, <3>3 DEF n, Active
    <2>2. ticket' = [ticket EXCEPT ![t] = q]
      BY <1>1
    <2> HIDE DEF q, status
    <2> QED BY <1>2, <2>1, <2>2, RowEdited DEF Inv
  <1> HIDE DEF status
  <1> QED BY <1>1, <1>6, Writes

LEMMA CreateStep ==
  ASSUME Inv, NEW h \in Handlers, NEW audited \in BOOLEAN, Create(h, audited)
  PROVE  Inv'
  <1> DEFINE o == handler[h].op
             row == [NoTicketRow EXCEPT !.status = "OPEN", !.items = o, !.owner = op[o].by]
  <1>1. PICK t \in Tickets :
          /\ handler[h].phase = "read" /\ handler[h].current = None
          /\ ticket[t].status = "ABSENT" /\ Unreceipted(o)
          /\ ticket' = [ticket EXCEPT ![t] = row] /\ Reply(h, o, Written(o), audited)
          /\ UNCHANGED view
    BY DEF Create
  <1>2. o \in Ops /\ op[o] \in Operation
    BY <1>1 DEF Inv, Shape, Requests, Request
  <1>3. row \in Row
    BY <1>2 DEF NoTicketRow, Row, Operation, Active
  <1>4. ticket' \in [Tickets -> Row] /\ \A u \in Tickets : MovesOn(u)
    <2> HIDE DEF row
    <2> QED BY <1>1, <1>3, RowMoves DEF Inv
  <1> HIDE DEF row
  <1> QED BY <1>1, <1>4, Writes

----------------------------------------------------------------------------
(* The desk.                                                               *)

LEMMA DeskMoves ==
  ASSUME Inv, UNCHANGED <<op, view, shown, handler>>, ticket' \in [Tickets -> Row],
         \A t \in Tickets : MovesOn(t)
  PROVE  Inv'
  <1>1. Showing
    BY Fills
  <1>2. Listening
    BY DEF Listening, Inv, Shape, HandlerRow
  <1>3. Memory' /\ Agreements'
    BY <1>1, <1>2, StillRemembered, StillAgreed
  <1> QED
    BY <1>3 DEF Inv, Shape, Unwritten, Requests, Request, Alike, AppliedOnce

LEMMA DeskEditStep ==
  ASSUME Inv, NEW t \in Tickets, DeskEdit(t)
  PROVE  Inv'
  <1>1. ticket[t] \in Row
    BY DEF Inv, Shape
  <1>2. ticket' \in [Tickets -> Row] /\ \A u \in Tickets : MovesOn(u)
    <2>1. CASE ticket' = [ticket EXCEPT ![t] = [ticket[t] EXCEPT !.status = "IN_PREPARATION",
                                                        !.revision = @ + 1]]
      <3> DEFINE q == [ticket[t] EXCEPT !.status = "IN_PREPARATION", !.revision = @ + 1]
      <3>1. q \in Row /\ q.status # "ABSENT" /\ q.revision = ticket[t].revision + 1
        <4> DEFINE n == ticket[t].revision + 1
        <4>1. n \in Nat
          BY <1>1 DEF Row
        <4>2. q = [ticket[t] EXCEPT !.status = "IN_PREPARATION", !.revision = n]
          OBVIOUS
        <4> HIDE DEF n, q
        <4>3. q \in Row /\ q.status # "ABSENT" /\ q.revision = n
          BY <1>1, <4>1, <4>2 DEF Row, Active
        <4> QED BY <4>3 DEF n
      <3>2. ticket' = [ticket EXCEPT ![t] = q]
        BY <2>1
      <3> HIDE DEF q
      <3> QED BY <3>1, <3>2, RowEdited DEF Inv
    <2>2. CASE /\ ticket[t].status \in Active
               /\ ticket' = [ticket EXCEPT ![t] = [ticket[t] EXCEPT !.items = Desk, !.revision = @ + 1]]
      <3> DEFINE q == [ticket[t] EXCEPT !.items = Desk, !.revision = @ + 1]
      <3>1. q \in Row /\ q.status # "ABSENT" /\ q.revision = ticket[t].revision + 1
        <4> DEFINE n == ticket[t].revision + 1
        <4>1. n \in Nat
          BY <1>1 DEF Row
        <4>2. q = [ticket[t] EXCEPT !.items = Desk, !.revision = n]
          OBVIOUS
        <4> HIDE DEF n, q
        <4>3. q \in Row /\ q.status # "ABSENT" /\ q.revision = n
          BY <1>1, <2>2, <4>1, <4>2 DEF Row, Active
        <4> QED BY <4>3 DEF n
      <3>2. ticket' = [ticket EXCEPT ![t] = q]
        BY <2>2
      <3> HIDE DEF q
      <3> QED BY <3>1, <3>2, RowEdited DEF Inv
    <2> QED BY <2>1, <2>2 DEF DeskEdit
  <1>3. UNCHANGED <<op, view, shown, handler>>
    BY DEF DeskEdit, page
  <1> QED BY <1>2, <1>3, DeskMoves

LEMMA PayStep ==
  ASSUME Inv, NEW t \in Tickets, Pay(t)
  PROVE  Inv'
  <1>1. ticket' \in [Tickets -> Row] /\ \A u \in Tickets : MovesOn(u)
    <2> DEFINE q == [ticket[t] EXCEPT !.status = "CLOSED"]
    <2>1. ticket[t] \in Row
      BY DEF Inv, Shape
    <2>2. /\ q \in Row /\ q.status # "ABSENT" /\ q.revision >= ticket[t].revision
          /\ q.items = ticket[t].items /\ q.status = "CLOSED"
      BY <2>1 DEF Row
    <2>3. ticket' = [ticket EXCEPT ![t] = q]
      BY DEF Pay
    <2> HIDE DEF q
    <2> QED BY <2>2, <2>3, RowMoves DEF Inv
  <1> QED BY <1>1, DeskMoves DEF Pay, page

LEMMA RowsStep == Inv /\ Outboxes /\ [Next]_vars => Inv'
  <1> SUFFICES ASSUME Inv, Outboxes, [Next]_vars PROVE Inv'
    OBVIOUS
  <1>1. CASE UNCHANGED vars
    BY <1>1 DEF vars, Inv, Shape, Unwritten, Requests, Request, Memory, Remembered, Alike,
       Agreements, Agreed, Asks, AppliedOnce
  <1>2. ASSUME NEW o \in Ops, NEW w \in Waiters, SaveOffline(o, w) \/ SaveOnline(o, w) PROVE Inv'
    BY <1>2, SaveOfflineStep, SaveOnlineStep
  <1>3. ASSUME NEW w \in Waiters,
               \/ Flush(w) \/ Refresh(w) \/ Open(w) \/ Reload(w) \/ Expire(w)
               \/ GoOnline(w) \/ GoOffline(w)
        PROVE  Inv'
    BY <1>3, FlushStep, RefreshStep, OpenTalks, ReloadTalks, ExpireTalks, OnlyTalk
  <1>4. ASSUME NEW o \in Ops, CutOff(o) PROVE Inv'
    BY <1>4, CutOffTalks, OnlyTalk
  <1>5. ASSUME NEW h \in Handlers,
               Look(h) \/ Commit(h) \/ Lose(h) \/ Update(h, FALSE) \/ Create(h, FALSE)
        PROVE Inv'
    BY <1>5, ReplayTalks, ReadStep, UpdateStep, CreateStep, ConflictTalks, DuplicateTalks, LoseTalks,
       OnlyTalk DEF Look, Commit
  <1>6. ASSUME NEW t \in Tickets, DeskEdit(t) \/ Pay(t) PROVE Inv'
    BY <1>6, DeskEditStep, PayStep
  <1> QED BY <1>1, <1>2, <1>3, <1>4, <1>5, <1>6 DEF Next

----------------------------------------------------------------------------
(* Outboxes.                                                               *)

LEMMA Appended ==
  ASSUME NEW S \in SUBSET Ops, NEW queue, Holds(queue, S), NEW o \in Ops, o \notin S
  PROVE  Holds(Append(queue, o), S \cup {o})
  <1> DEFINE n == Len(queue)
             r == Append(queue, o)
  <1>1. queue \in Seq(Ops) /\ n \in Nat /\ DOMAIN queue = 1..n /\ Range(queue) = S
        /\ \A i, j \in 1..n : queue[i] = queue[j] => i = j
    BY DEF Holds, IsInjective
  <1>2. r \in Seq(Ops) /\ Len(r) = n + 1 /\ DOMAIN r = 1..(n + 1)
        /\ r[n + 1] = o /\ \A i \in 1..n : r[i] = queue[i]
    BY <1>1
  <1>3. \A i \in 1..n : queue[i] \in S
    BY <1>1 DEF Range
  <1> HIDE DEF n, r
  <1>4. \A i \in 1..(n + 1) : i \in 1..n \/ i = n + 1
    BY <1>1
  <1>5. \A i \in 1..n : i \in 1..(n + 1)
    BY <1>1
  <1>6. n + 1 \in 1..(n + 1)
    BY <1>1
  <1>7. IsInjective(r)
    BY <1>1, <1>2, <1>3, <1>4 DEF IsInjective
  <1>8. Range(r) = S \cup {o}
    BY <1>1, <1>2, <1>4, <1>5, <1>6 DEF Range
  <1> QED BY <1>2, <1>7, <1>8 DEF Holds, r

LEMMA Removed ==
  ASSUME NEW S \in SUBSET Ops, NEW queue, Holds(queue, S), NEW o \in Ops
  PROVE  Holds(Without(queue, o), S \ {o})
  <1> DEFINE n == Len(queue)
             r == Without(queue, o)
  <1>1. queue \in Seq(Ops) /\ n \in Nat /\ DOMAIN queue = 1..n /\ Range(queue) = S
        /\ \A i, j \in 1..n : queue[i] = queue[j] => i = j
    BY DEF Holds, IsInjective
  <1>2. CASE ~Contains(queue, o)
    <2>1. r = queue /\ o \notin S
      BY <1>1, <1>2 DEF Without, Contains, Range
    <2>2. S \ {o} = S
      BY <2>1
    <2> QED BY <2>1, <2>2
  <1>3. CASE Contains(queue, o)
    <2> DEFINE k == CHOOSE i \in DOMAIN queue : queue[i] = o
               a == SubSeq(queue, 1, k - 1)
               b == SubSeq(queue, k + 1, n)
    <2>1. k \in 1..n /\ queue[k] = o
      BY <1>1, <1>3 DEF Contains
    <2>2. r = a \o b
      BY <1>3 DEF Without, RemoveAt
    <2> HIDE DEF k
    <2>3. \A i \in 1..n : queue[i] \in Ops
      BY <1>1, ElementOfSeq
    <2>4. a \in Seq(Ops) /\ Len(a) = k - 1 /\ \A i \in 1..(k - 1) : a[i] = queue[i]
      <3>1. \A i \in 1..(k - 1) : queue[i] \in Ops
        BY <1>1, <2>1, <2>3
      <3>2. k - 1 \in Int /\ k - 1 >= 0
        BY <1>1, <2>1
      <3> QED BY <1>1, <2>1, <3>1, <3>2, SubSeqProperties
    <2>5. b \in Seq(Ops) /\ Len(b) = n - k /\ \A i \in 1..(n - k) : b[i] = queue[i + k]
      <3>1. \A i \in (k + 1)..n : queue[i] \in Ops
        BY <1>1, <2>1, <2>3
      <3> DEFINE m == k + 1
      <3>2. m \in Int /\ n \in Int /\ b = SubSeq(queue, m, n)
        BY <1>1, <2>1
      <3> HIDE DEF b, m, n
      <3>3. /\ b \in Seq(Ops) /\ Len(b) = IF m <= n THEN n - m + 1 ELSE 0
            /\ \A i \in 1..(n - m + 1) : b[i] = queue[m + i - 1]
        BY <3>1, <3>2, SubSeqProperties DEF m
      <3>4. n - m + 1 = n - k /\ (m <= n <=> n - k # 0) /\ n - k >= 0
        BY <1>1, <2>1 DEF m
      <3>5. \A i \in 1..(n - k) : m + i - 1 = i + k
        BY <1>1, <2>1 DEF m
      <3> QED BY <3>3, <3>4, <3>5
    <2> HIDE DEF a, b, r, n
    <2>6. /\ r \in Seq(Ops) /\ Len(r) = n - 1
          /\ \A i \in 1..(n - 1) : r[i] = IF i < k THEN queue[i] ELSE queue[i + 1]
      <3>1. /\ r \in Seq(Ops) /\ Len(r) = (k - 1) + (n - k)
            /\ \A i \in 1..((k - 1) + (n - k)) : r[i] = IF i <= k - 1 THEN a[i] ELSE b[i - (k - 1)]
        <4>1. /\ a \o b \in Seq(Ops) /\ Len(a \o b) = Len(a) + Len(b)
              /\ \A i \in 1..(Len(a) + Len(b)) : (a \o b)[i] = IF i <= Len(a) THEN a[i]
                                                             ELSE b[i - Len(a)]
          BY <2>4, <2>5, ConcatProperties
        <4> QED BY <2>2, <2>4, <2>5, <4>1
      <3>2. (k - 1) + (n - k) = n - 1
        BY <1>1, <2>1
      <3>3. ASSUME NEW i \in 1..(n - 1)
            PROVE  r[i] = IF i < k THEN queue[i] ELSE queue[i + 1]
        <4>1. i \in Int /\ k \in Int /\ r[i] = IF i <= k - 1 THEN a[i] ELSE b[i - (k - 1)]
          BY <1>1, <2>1, <3>1, <3>2
        <4>2. CASE i < k
          BY <2>4, <4>1, <4>2
        <4>3. CASE ~(i < k)
          <5>1. i - (k - 1) \in 1..(n - k) /\ i - (k - 1) + k = i + 1 /\ ~(i <= k - 1)
            BY <1>1, <2>1, <4>1, <4>3
          <5> QED BY <2>5, <4>1, <4>3, <5>1
        <4> QED BY <4>2, <4>3
      <3> QED BY <3>1, <3>2, <3>3
    <2> DEFINE from(i) == IF i < k THEN i ELSE i + 1
    <2>7. /\ \A i \in 1..(n - 1) : from(i) \in 1..n /\ from(i) # k /\ r[i] = queue[from(i)]
          /\ \A i, j \in 1..(n - 1) : from(i) = from(j) => i = j
      BY <1>1, <2>1, <2>6
    <2>8. \A j \in 1..n : j # k => \E i \in 1..(n - 1) : from(i) = j
      <3> TAKE j \in 1..n
      <3>1. CASE j < k
        <4>1. j \in 1..(n - 1) /\ from(j) = j
          BY <1>1, <2>1, <3>1
        <4> QED BY <4>1
      <3>2. CASE j > k
        <4>1. j - 1 \in 1..(n - 1) /\ from(j - 1) = j
          BY <1>1, <2>1, <3>2
        <4> QED BY <4>1
      <3> QED BY <1>1, <2>1, <3>1, <3>2
    <2>9. DOMAIN r = 1..(n - 1)
      BY <1>1, <2>1, <2>6
    <2> HIDE DEF from
    <2>10. IsInjective(r)
      BY <1>1, <2>7, <2>9 DEF IsInjective
    <2>11. Range(r) = S \ {o}
      <3>1. \A x : x \in Range(r) <=> \E i \in 1..(n - 1) : x = r[i]
        BY <2>9 DEF Range
      <3>2. \A x : x \in S <=> \E i \in 1..n : x = queue[i]
        BY <1>1 DEF Range
      <3>3. \A i \in 1..n : queue[i] = o <=> i = k
        BY <1>1, <2>1
      <3> QED BY <2>7, <2>8, <3>1, <3>2, <3>3
    <2> QED BY <2>6, <2>10, <2>11 DEF Holds, r
  <1> QED BY <1>2, <1>3

LEMMA BoxesKept ==
  ASSUME Outboxes, UNCHANGED outbox,
         \A o \in Ops : op'[o].by = op[o].by /\ (op'[o].at = "queued" <=> op[o].at = "queued")
  PROVE  Outboxes'
  <1>1. \A w \in Waiters : Queued(w)' = Queued(w)
    BY DEF Queued
  <1> QED BY <1>1 DEF Outboxes, Holds

LEMMA BoxGains ==
  ASSUME Outboxes, NEW o \in Ops, NEW w \in Waiters, op[o].at # "queued",
         op'[o].by = w, op'[o].at = "queued", \A p \in Ops : p # o => op'[p] = op[p],
         outbox' = [outbox EXCEPT ![w] = Append(@, o)]
  PROVE  Outboxes'
  <1>1. \A v \in Waiters : Queued(v)' = IF v = w THEN Queued(w) \cup {o} ELSE Queued(v)
    BY DEF Queued
  <1>2. Queued(w) \in SUBSET Ops /\ o \notin Queued(w) /\ Holds(outbox[w], Queued(w))
    BY DEF Queued, Outboxes
  <1>3. Holds(Append(outbox[w], o), Queued(w) \cup {o})
    BY <1>2, Appended
  <1>4. Append(outbox[w], o) \in Seq(Ops)
    BY DEF Outboxes
  <1> QED BY <1>1, <1>3, <1>4 DEF Outboxes, Holds

LEMMA BoxLoses ==
  ASSUME Outboxes, NEW o \in Ops, op'[o].by = op[o].by, op'[o].at # "queued",
         \A p \in Ops : p # o => op'[p] = op[p],
         outbox' = [outbox EXCEPT ![op[o].by] = Without(@, o)]
  PROVE  Outboxes'
  <1> DEFINE w == op[o].by
  <1>1. \A v \in Waiters : Queued(v)' = IF v = w THEN Queued(v) \ {o} ELSE Queued(v)
    BY DEF Queued
  <1>2. CASE w \in Waiters
    <2>1. Queued(w) \in SUBSET Ops /\ Holds(outbox[w], Queued(w))
      BY <1>2 DEF Queued, Outboxes
    <2>2. Holds(Without(outbox[w], o), Queued(w) \ {o})
      BY <2>1, Removed
    <2>3. Without(outbox[w], o) \in Seq(Ops)
      BY <2>2 DEF Holds
    <2> QED BY <1>1, <1>2, <2>2, <2>3 DEF Outboxes, Holds
  <1>3. CASE w \notin Waiters
    BY <1>1, <1>3 DEF Outboxes, Holds
  <1> QED BY <1>2, <1>3

LEMMA ReplyBoxes ==
  ASSUME Inv, Outboxes, NEW h \in Handlers, NEW o \in Ops, NEW row \in Operation,
         NEW saved \in BOOLEAN, row.by = op[o].by, row.at = op[o].at, Reply(h, o, row, saved)
  PROVE  Outboxes'
  <1>1. CASE ~handler[h].heard
    <2>1. op' = [op EXCEPT ![o] = row] /\ UNCHANGED outbox
      BY <1>1 DEF Reply
    <2> QED BY <2>1, BoxesKept DEF Inv, Shape
  <1>2. CASE handler[h].heard /\ saved
    <2>1. op' = [op EXCEPT ![o] = [row EXCEPT !.at = "done"]]
          /\ outbox' = [outbox EXCEPT ![op[o].by] = Without(@, o)]
      BY <1>2 DEF Reply, Saved
    <2>2. op'[o].by = op[o].by /\ op'[o].at # "queued" /\ \A p \in Ops : p # o => op'[p] = op[p]
      BY <2>1 DEF Inv, Shape, Operation
    <2> QED BY <2>1, <2>2, BoxLoses
  <1>3. CASE handler[h].heard /\ ~saved
    <2>1. op' = [op EXCEPT ![o] = [row EXCEPT !.at = IF row.at = "direct" THEN "gone"
                                                     ELSE row.at]]
          /\ UNCHANGED outbox
      BY <1>3 DEF Reply, Refused
    <2>2. \A p \in Ops : op'[p].by = op[p].by /\ (op'[p].at = "queued" <=> op[p].at = "queued")
      BY <2>1 DEF Inv, Shape, Operation
    <2> QED BY <2>1, <2>2, BoxesKept
  <1> QED BY <1>1, <1>2, <1>3

LEMMA OutboxesStep == Inv /\ Outboxes /\ [Next]_vars => Outboxes'
  <1> SUFFICES ASSUME Inv, Outboxes, [Next]_vars PROVE Outboxes'
    OBVIOUS
  <1>0. \A h \in Handlers : handler[h].phase # "idle" =>
          handler[h].op \in Ops /\ op[handler[h].op] \in Operation
    BY DEF Inv, Shape, Requests, Request
  <1>1. CASE UNCHANGED vars
    BY <1>1, BoxesKept DEF vars
  <1>2. ASSUME NEW o \in Ops, NEW w \in Waiters, SaveOffline(o, w) PROVE Outboxes'
    <2>1. /\ Compose(o, w, "queued") /\ UNCHANGED <<ticket, view, shown>>
          /\ outbox' = [outbox EXCEPT ![w] = Append(@, o)]
      BY <1>2 DEF SaveOffline, server, page
    <2>2. /\ op[o].at # "queued" /\ op'[o].by = w /\ op'[o].at = "queued"
          /\ \A p \in Ops : p # o => op'[p] = op[p]
      BY <2>1, Composing
    <2> QED BY <2>1, <2>2, BoxGains
  <1>3. ASSUME NEW o \in Ops, NEW w \in Waiters, SaveOnline(o, w) PROVE Outboxes'
    <2>1. /\ Compose(o, w, "direct") /\ UNCHANGED <<ticket, view, shown, outbox>>
      BY <1>3 DEF SaveOnline, server, page
    <2>2. /\ op[o].at = "free" /\ op'[o].by = w /\ op'[o].at = "direct"
          /\ \A p \in Ops : p # o => op'[p] = op[p]
      BY <2>1, Composing
    <2>3. \A v \in Waiters : Queued(v)' = Queued(v)
      BY <2>2 DEF Queued
    <2> QED BY <2>1, <2>3 DEF Outboxes, Holds
  <1>4. ASSUME NEW w \in Waiters,
               Flush(w) \/ Refresh(w) \/ Open(w) \/ GoOnline(w) \/ GoOffline(w)
        PROVE  Outboxes'
    BY <1>4, BoxesKept DEF Flush, Refresh, Open, GoOnline, GoOffline
  <1>5. ASSUME NEW w \in Waiters, Reload(w) PROVE Outboxes'
    <2>1. \A o \in Ops : op'[o].by = op[o].by /\ (op'[o].at = "queued" <=> op[o].at = "queued")
      BY <1>5 DEF Reload, Inv, Shape, Operation
    <2> QED BY <1>5, <2>1, BoxesKept DEF Reload
  <1>6. ASSUME NEW w \in Waiters, Expire(w) PROVE Outboxes'
    <2>1. outbox[w] \in Seq(Ops) /\ Range(outbox[w]) = Queued(w)
      BY DEF Outboxes, Holds
    <2>2. \A o \in Ops : Contains(outbox[w], o) <=> o \in Queued(w)
      BY <2>1 DEF Contains, Range
    <2>3. \A o \in Ops : op'[o] = IF o \in Queued(w) THEN [op[o] EXCEPT !.at = "gone"]
                                  ELSE op[o]
      BY <1>6, <2>2 DEF Expire
    <2>4. \A v \in Waiters : Queued(v)' = IF v = w THEN {} ELSE Queued(v)
      BY <2>3 DEF Queued, Inv, Shape, Operation
    <2>5. Holds(<<>>, {}) /\ <<>> \in Seq(Ops)
      BY DEF Holds, IsInjective, Range
    <2> QED BY <1>6, <2>4, <2>5 DEF Expire, Outboxes, Holds
  <1>7. ASSUME NEW o \in Ops, CutOff(o) PROVE Outboxes'
    <2>1. CASE NotQueuedYet(o)
      <3>1. /\ op[o].at = "direct" /\ op' = [op EXCEPT ![o].at = "queued"]
            /\ outbox' = [outbox EXCEPT ![op[o].by] = Append(@, o)]
        BY <1>7, <2>1 DEF CutOff, NotQueuedYet
      <3>2. /\ op'[o].by = op[o].by /\ op'[o].at = "queued"
            /\ \A p \in Ops : p # o => op'[p] = op[p]
        BY <3>1 DEF Inv, Shape, Operation
      <3>3. CASE op[o].by \in Waiters
        BY <3>1, <3>2, <3>3, BoxGains
      <3>4. CASE op[o].by \notin Waiters
        <4>1. \A v \in Waiters : Queued(v)' = Queued(v)
          BY <3>2, <3>4 DEF Queued
        <4> QED BY <3>1, <3>4, <4>1 DEF Outboxes, Holds
      <3> QED BY <3>3, <3>4
    <2>2. CASE ~NotQueuedYet(o)
      BY <1>7, <2>2, BoxesKept DEF CutOff
    <2> QED BY <2>1, <2>2
  <1>8. ASSUME NEW h \in Handlers, Replay(h) \/ Conflict(h) \/ Duplicate(h) PROVE Outboxes'
    BY <1>0, <1>8, ReplyBoxes DEF Replay, Conflict, Duplicate
  <1>9. ASSUME NEW h \in Handlers, Read(h) PROVE Outboxes'
    <2>1. PICK t \in Current(handler[h].op) :
            \/ Reply(h, handler[h].op, op[handler[h].op], FALSE)
            \/ UNCHANGED <<op, outbox>>
      BY <1>9 DEF Read
    <2>2. handler[h].phase # "idle"
      BY <1>9 DEF Read
    <2> QED BY <1>0, <2>1, <2>2, ReplyBoxes, BoxesKept
  <1>10. ASSUME NEW h \in Handlers, NEW audited \in BOOLEAN, Update(h, audited) PROVE Outboxes'
    <2> DEFINE o == handler[h].op
    <2>1. o \in Ops /\ op[o] \in Operation /\ Reply(h, o, Written(o), audited)
      BY <1>0, <1>10 DEF Update
    <2>2. Written(o) \in Operation /\ Written(o).by = op[o].by /\ Written(o).at = op[o].at
      BY <2>1 DEF Written, Operation
    <2> QED BY <2>1, <2>2, ReplyBoxes
  <1>11. ASSUME NEW h \in Handlers, NEW audited \in BOOLEAN, Create(h, audited) PROVE Outboxes'
    <2> DEFINE o == handler[h].op
    <2>1. o \in Ops /\ op[o] \in Operation /\ Reply(h, o, Written(o), audited)
      BY <1>0, <1>11 DEF Create
    <2>2. Written(o) \in Operation /\ Written(o).by = op[o].by /\ Written(o).at = op[o].at
      BY <2>1 DEF Written, Operation
    <2> QED BY <2>1, <2>2, ReplyBoxes
  <1>12. ASSUME NEW h \in Handlers, Lose(h) PROVE Outboxes'
    BY <1>12, BoxesKept DEF Lose
  <1>13. ASSUME NEW t \in Tickets, DeskEdit(t) \/ Pay(t) PROVE Outboxes'
    BY <1>13, BoxesKept DEF DeskEdit, Pay
  <1> QED
    BY <1>1, <1>2, <1>3, <1>4, <1>5, <1>6, <1>7, <1>8, <1>9, <1>10, <1>11, <1>12, <1>13
    DEF Next, Look, Commit

----------------------------------------------------------------------------
(* Revisions.                                                              *)

LEMMA LevelIsNat ==
  ASSUME deskEdits \in Nat
  PROVE  /\ IsFiniteSet(WrittenOps) /\ Cardinality(WrittenOps) \in Nat /\ Level \in Nat
         /\ Cardinality(WrittenOps) <= Cardinality(Ops) /\ Cardinality(Ops) \in Nat
  <1>1. WrittenOps \subseteq Ops /\ IsFiniteSet(Ops)
    BY SyncAssumption DEF WrittenOps
  <1>2. /\ IsFiniteSet(WrittenOps) /\ Cardinality(WrittenOps) <= Cardinality(Ops)
        /\ Cardinality(WrittenOps) \in Nat /\ Cardinality(Ops) \in Nat
    BY <1>1, FS_Subset, FS_CardinalityType
  <1> QED BY <1>2 DEF Level

(* A revision rises only when the level does; a device remembers what a    *)
(* ticket is now, an operation what its device remembers.                  *)
LevelRises  == Level' \in Nat /\ Level' >= Level
TicketsRise == \A t \in Tickets :
  \/ ticket'[t].revision \in {0, ticket[t].revision}
  \/ Level' = Level + 1 /\ ticket'[t].revision = ticket[t].revision + 1
ViewsFollow == \A w \in Waiters : \/ view'[w] = view[w] \/ view'[w].row = NoTicketRow
                                 \/ \E t \in Tickets : view'[w].row = ticket[t]
ShownFollow == \A w \in Waiters : shown'[w] \in {shown[w], view[w], view'[w]}
SeenFollow  == \A o \in Ops :
  /\ op'[o].seen = op[o].seen \/ \E w \in Waiters : op'[o].seen = view[w]
  /\ op'[o].shown = op[o].shown \/ \E w \in Waiters : op'[o].shown = shown[w]
Typed == /\ ticket' \in [Tickets -> Row] /\ view' \in [Waiters -> Seen]
         /\ op' \in [Ops -> Operation]

LEMMA Rises ==
  ASSUME Inv, Bounded, Typed, deskEdits' \in 0..MaxDeskEdits, LevelRises, TicketsRise,
         ViewsFollow, ShownFollow, SeenFollow
  PROVE  Bounded'
  <1> DEFINE l == Level
             m == Level'
  <1>0. deskEdits \in Nat
    BY SyncAssumption DEF Bounded
  <1>1. l \in Nat /\ m \in Nat /\ m >= l
    BY <1>0, LevelIsNat DEF LevelRises
  <1>2. \A t \in Tickets : ticket[t].revision \in Nat /\ ticket[t].revision <= l
                           /\ ticket'[t].revision \in Nat
    BY DEF Inv, Shape, Row, Bounded, Typed
  <1>3. \A w \in Waiters : /\ view[w].row.revision \in Nat /\ view[w].row.revision <= l
                           /\ shown[w].row.revision \in Nat /\ shown[w].row.revision <= l
    BY DEF Inv, Shape, Row, Seen, Bounded
  <1>4. \A o \in Ops : /\ op[o].seen.row.revision \in Nat /\ op[o].seen.row.revision <= l
                       /\ op[o].shown.row.revision \in Nat /\ op[o].shown.row.revision <= l
    <2>1. \A o \in Ops : op[o].seen \in Seen /\ op[o].shown \in Seen
      BY DEF Inv, Shape, Operation
    <2> QED BY <2>1 DEF Row, Seen, Bounded
  <1>5. \A t \in Tickets : \/ ticket'[t].revision \in {0, ticket[t].revision}
                           \/ m = l + 1 /\ ticket'[t].revision = ticket[t].revision + 1
    BY DEF TicketsRise
  <1> HIDE DEF l, m
  <1>6. \A t \in Tickets : ticket'[t].revision <= m
    BY <1>1, <1>2, <1>5
  <1>7. \A w \in Waiters : view'[w].row.revision <= m
    BY <1>1, <1>2, <1>3 DEF NoTicketRow, ViewsFollow
  <1>8. \A w \in Waiters : shown'[w].row.revision <= m
    BY <1>1, <1>3, <1>7 DEF ShownFollow
  <1>9. \A o \in Ops : op'[o].seen.row.revision <= m /\ op'[o].shown.row.revision <= m
    BY <1>1, <1>3, <1>4 DEF SeenFollow
  <1> QED BY <1>6, <1>7, <1>8, <1>9 DEF Bounded, m

LEMMA SameLevel ==
  ASSUME deskEdits \in Nat, UNCHANGED deskEdits, \A o \in Ops : op'[o].writes = op[o].writes
  PROVE  LevelRises
  <1>1. WrittenOps' = WrittenOps
    BY DEF WrittenOps
  <1>2. Level' = Level /\ Level \in Nat
    BY <1>1, LevelIsNat DEF Level
  <1> QED BY <1>2 DEF LevelRises

LEMMA NextLevel ==
  ASSUME deskEdits \in Nat, NEW o \in Ops, op[o].writes = 0, op'[o].writes = 1,
         UNCHANGED deskEdits, \A p \in Ops : p # o => op'[p] = op[p]
  PROVE  LevelRises /\ Level' = Level + 1
  <1>1. WrittenOps' = WrittenOps \cup {o} /\ o \notin WrittenOps
    BY DEF WrittenOps
  <1>2. IsFiniteSet(WrittenOps) /\ Cardinality(WrittenOps) \in Nat
    BY LevelIsNat
  <1>3. Cardinality(WrittenOps)' = Cardinality(WrittenOps) + 1
    BY <1>1, <1>2, FS_AddElement
  <1>4. Level' = Level + 1 /\ Level \in Nat
    BY <1>2, <1>3 DEF Level
  <1> QED BY <1>4 DEF LevelRises

LEMMA TalkBounded == Inv /\ Bounded /\ Talk => Bounded'
  <1> SUFFICES ASSUME Inv, Bounded, Talk PROVE Bounded'
    OBVIOUS
  <1>1. \A o \in Ops : /\ op'[o].seen = op[o].seen /\ op'[o].shown = op[o].shown
                       /\ op'[o].writes = op[o].writes
    BY OnlyStanding DEF Talk
  <1>2. deskEdits \in Nat
    BY SyncAssumption DEF Bounded
  <1>3. LevelRises
    BY <1>1, <1>2, SameLevel DEF Talk
  <1>4. TicketsRise /\ ViewsFollow /\ ShownFollow /\ SeenFollow
    BY <1>1 DEF Talk, Showing, TicketsRise, ViewsFollow,
       ShownFollow, SeenFollow
  <1>5. Typed /\ deskEdits' \in 0..MaxDeskEdits
    BY DEF Talk, Inv, Shape, Typed, Bounded
  <1> QED BY <1>3, <1>4, <1>5, Rises

LEMMA BoundedStep == Inv /\ Outboxes /\ Bounded /\ [Next]_vars => Bounded'
  <1> SUFFICES ASSUME Inv, Outboxes, Bounded, [Next]_vars PROVE Bounded'
    OBVIOUS
  <1>0. /\ deskEdits \in Nat /\ deskEdits \in 0..MaxDeskEdits
        /\ Typed
    BY SyncAssumption, RowsStep DEF Bounded, Inv, Shape, Typed
  <1>1. CASE UNCHANGED <<ticket, op, deskEdits>> /\ UNCHANGED <<view, shown>>
    <2>1. LevelRises
      BY <1>0, <1>1, SameLevel
    <2>10. TicketsRise /\ ViewsFollow /\ ShownFollow /\ SeenFollow
      BY <1>0, <1>1, <2>1 DEF TicketsRise, ViewsFollow, ShownFollow, SeenFollow
    <2>11. deskEdits' \in 0..MaxDeskEdits
      BY <1>0, <1>1, <2>1
    <2> QED BY <1>0, <1>1, <2>1, <2>10, <2>11, Rises
  <1>2. ASSUME NEW o \in Ops, NEW w \in Waiters, SaveOffline(o, w) \/ SaveOnline(o, w)
        PROVE  Bounded'
    <2>1. \E at \in {"direct", "queued"} : Compose(o, w, at)
      BY <1>2 DEF SaveOffline, SaveOnline
    <2>2. UNCHANGED <<ticket, view, shown, deskEdits>>
      BY <1>2 DEF SaveOffline, SaveOnline, server, page
    <2>3. /\ op'[o].seen = view[w] /\ op'[o].shown = shown[w] /\ op'[o].writes = op[o].writes
          /\ \A p \in Ops : p # o => op'[p] = op[p]
      BY <2>1, <2>2, Composing
    <2>4. LevelRises
      BY <1>0, <2>2, <2>3, SameLevel
    <2>10. TicketsRise /\ ViewsFollow /\ ShownFollow /\ SeenFollow
      BY <1>0, <2>2, <2>3, <2>4 DEF TicketsRise, ViewsFollow, ShownFollow, SeenFollow
    <2>11. deskEdits' \in 0..MaxDeskEdits
      BY <1>0, <2>2, <2>3, <2>4
    <2> QED BY <1>0, <2>2, <2>3, <2>4, <2>10, <2>11, Rises
  <1>3. ASSUME NEW w \in Waiters, Refresh(w) PROVE Bounded'
    <2>1. UNCHANGED <<ticket, op, deskEdits>>
      BY <1>3 DEF Refresh, server
    <2>2. \A v \in Waiters : \/ view'[v] = view[v] \/ view'[v].row = NoTicketRow
                             \/ \E t \in Tickets : view'[v].row = ticket[t]
      BY <1>3 DEF Refresh, Fetched, NothingSeen, ActiveTickets, Inv, Shape
    <2>4. \A v \in Waiters : shown'[v] \in {shown[v], view'[v]}
      BY <1>3 DEF Refresh, Inv, Shape
    <2>3. LevelRises
      BY <1>0, <2>1, SameLevel
    <2>10. TicketsRise /\ ViewsFollow /\ ShownFollow /\ SeenFollow
      BY <1>0, <2>1, <2>2, <2>3, <2>4 DEF TicketsRise, ViewsFollow, ShownFollow, SeenFollow
    <2>11. deskEdits' \in 0..MaxDeskEdits
      BY <1>0, <2>1, <2>2, <2>3
    <2> QED BY <1>0, <2>1, <2>2, <2>3, <2>10, <2>11, Rises
  <1>4. ASSUME Talk PROVE Bounded'
    BY <1>4, TalkBounded
  <1>5. ASSUME NEW h \in Handlers, Read(h) PROVE Bounded'
    <2>1. UNCHANGED <<ticket, view, deskEdits>>
      BY <1>5 DEF Read, server
    <2>2. CASE UNCHANGED <<op, shown>>
      BY <1>1, <2>1, <2>2
    <2>3. CASE Reply(h, handler[h].op, op[handler[h].op], FALSE)
      <3>1. handler[h].phase # "idle"
        BY <1>5 DEF Read
      <3> QED BY <1>4, <2>1, <2>3, <3>1, Replies DEF Talk
    <2> QED BY <1>5, <2>2, <2>3 DEF Read
  <1>6. ASSUME NEW h \in Handlers, NEW audited \in BOOLEAN, Update(h, audited) PROVE Bounded'
    <2> DEFINE o == handler[h].op
               t == handler[h].current
    <2>1. /\ handler[h].phase = "read" /\ Unreceipted(o)
          /\ Reply(h, o, Written(o), audited)
          /\ UNCHANGED <<view, deskEdits>> /\ t # None
      BY <1>6 DEF Update
    <2>2. t \in Tickets /\ ticket[t] \in Row
      BY <2>1 DEF Inv, Shape, HandlerRow
    <2>3. /\ o \in Ops /\ op[o].writes = 0 /\ op'[o].writes = 1 /\ Showing
          /\ op'[o].seen = op[o].seen /\ op'[o].shown = op[o].shown
          /\ \A p \in Ops : p # o => op'[p] = op[p]
      BY <2>1, WrittenOp
    <2>4. LevelRises /\ Level' = Level + 1
      BY <1>0, <2>1, <2>3, NextLevel
    <2>5. \A u \in Tickets : \/ ticket'[u].revision = ticket[u].revision
                             \/ ticket'[u].revision = ticket[u].revision + 1
      <3> DEFINE n == ticket[t].revision + 1
                 status == Asks(o)
      <3>1. ticket' = [ticket EXCEPT ![t] = [ticket[t] EXCEPT !.status = status, !.revision = n,
                                                              !.items = o]]
        BY <1>6 DEF Update
      <3> HIDE DEF n, status
      <3>2. \A u \in Tickets : ticket'[u].revision = IF u = t THEN n ELSE ticket[u].revision
        BY <2>2, <3>1 DEF Inv, Shape, Row
      <3> QED BY <3>2 DEF n
    <2>10. TicketsRise /\ ViewsFollow /\ ShownFollow /\ SeenFollow
      BY <1>0, <2>1, <2>3, <2>4, <2>5 DEF Showing, TicketsRise, ViewsFollow, ShownFollow, SeenFollow
    <2>11. deskEdits' \in 0..MaxDeskEdits
      BY <1>0, <2>1, <2>3, <2>4, <2>5
    <2> QED BY <1>0, <2>1, <2>3, <2>4, <2>5, <2>10, <2>11, Rises
  <1>7. ASSUME NEW h \in Handlers, NEW audited \in BOOLEAN, Create(h, audited) PROVE Bounded'
    <2> DEFINE o == handler[h].op
    <2>1. /\ handler[h].phase = "read" /\ Unreceipted(o)
          /\ Reply(h, o, Written(o), audited) /\ UNCHANGED <<view, deskEdits>>
      BY <1>7 DEF Create
    <2>4. /\ o \in Ops /\ op[o].writes = 0 /\ op'[o].writes = 1 /\ Showing
          /\ op'[o].seen = op[o].seen /\ op'[o].shown = op[o].shown
          /\ \A p \in Ops : p # o => op'[p] = op[p]
      BY <2>1, WrittenOp
    <2>5. LevelRises /\ Level' = Level + 1
      BY <1>0, <2>1, <2>4, NextLevel
    <2>6. \A u \in Tickets : ticket'[u].revision \in {0, ticket[u].revision}
      BY <1>7 DEF Create, NoTicketRow, Inv, Shape
    <2>10. TicketsRise /\ ViewsFollow /\ ShownFollow /\ SeenFollow
      BY <1>0, <2>1, <2>4, <2>5, <2>6 DEF Showing, TicketsRise, ViewsFollow, ShownFollow, SeenFollow
    <2>11. deskEdits' \in 0..MaxDeskEdits
      BY <1>0, <2>1, <2>4, <2>5, <2>6
    <2> QED BY <1>0, <2>1, <2>4, <2>5, <2>6, <2>10, <2>11, Rises
  <1>8. ASSUME NEW t \in Tickets, DeskEdit(t) PROVE Bounded'
    <2>1. /\ UNCHANGED <<op, view, shown>> /\ deskEdits' = deskEdits + 1
          /\ deskEdits' \in 0..MaxDeskEdits
      BY <1>0, <1>8, SyncAssumption DEF DeskEdit, Bounded, page
    <2>2. LevelRises /\ Level' = Level + 1
      <3>1. WrittenOps' = WrittenOps
        BY <2>1 DEF WrittenOps
      <3>2. Cardinality(WrittenOps) \in Nat
        BY <1>0, LevelIsNat
      <3>3. Level' = Level + 1 /\ Level \in Nat
        BY <1>0, <2>1, <3>1, <3>2 DEF Level
      <3> QED BY <3>3 DEF LevelRises
    <2>3. ticket[t] \in Row
      BY DEF Inv, Shape
    <2>4. \A u \in Tickets : \/ ticket'[u].revision = ticket[u].revision
                             \/ ticket'[u].revision = ticket[u].revision + 1
      <3> DEFINE n == ticket[t].revision + 1
      <3>1. \/ ticket' = [ticket EXCEPT ![t] = [ticket[t] EXCEPT !.status = "IN_PREPARATION",
                                                                !.revision = n]]
            \/ ticket' = [ticket EXCEPT ![t] = [ticket[t] EXCEPT !.items = Desk, !.revision = n]]
        BY <1>8 DEF DeskEdit
      <3> HIDE DEF n
      <3>2. \A u \in Tickets : ticket'[u].revision = IF u = t THEN n ELSE ticket[u].revision
        BY <2>3, <3>1 DEF Inv, Shape, Row
      <3> QED BY <3>2 DEF n
    <2>10. TicketsRise /\ ViewsFollow /\ ShownFollow /\ SeenFollow
      BY <1>0, <2>1, <2>2, <2>4 DEF TicketsRise, ViewsFollow, ShownFollow, SeenFollow
    <2>11. deskEdits' \in 0..MaxDeskEdits
      BY <1>0, <2>1, <2>2, <2>4
    <2> QED BY <1>0, <2>1, <2>2, <2>4, <2>10, <2>11, Rises
  <1>9. ASSUME NEW t \in Tickets, Pay(t) PROVE Bounded'
    <2>1. UNCHANGED <<op, view, shown, deskEdits>>
      BY <1>9 DEF Pay, page
    <2>2. \A u \in Tickets : ticket'[u].revision \in {0, ticket[u].revision}
      BY <1>9 DEF Pay, Inv, Shape, Row
    <2>3. LevelRises
      BY <1>0, <2>1, SameLevel
    <2>10. TicketsRise /\ ViewsFollow /\ ShownFollow /\ SeenFollow
      BY <1>0, <2>1, <2>2, <2>3 DEF TicketsRise, ViewsFollow, ShownFollow, SeenFollow
    <2>11. deskEdits' \in 0..MaxDeskEdits
      BY <1>0, <2>1, <2>2, <2>3
    <2> QED BY <1>0, <2>1, <2>2, <2>3, <2>10, <2>11, Rises
  <1>10. CASE UNCHANGED vars
    BY <1>1, <1>10 DEF vars
  <1>11. ASSUME NEW w \in Waiters, Flush(w) PROVE Bounded'
    BY <1>1, <1>11 DEF Flush, server, page
  <1>12. ASSUME NEW w \in Waiters,
                Reload(w) \/ Expire(w) \/ Open(w) \/ GoOnline(w) \/ GoOffline(w)
         PROVE  Bounded'
    BY <1>4, <1>12, ReloadTalks, ExpireTalks, OpenTalks
  <1>13. ASSUME NEW o \in Ops, CutOff(o) PROVE Bounded'
    BY <1>4, <1>13, CutOffTalks
  <1>14. ASSUME NEW h \in Handlers, Replay(h) \/ Conflict(h) \/ Duplicate(h) \/ Lose(h)
         PROVE  Bounded'
    BY <1>4, <1>14, ReplayTalks, ConflictTalks, DuplicateTalks, LoseTalks
  <1> QED
    BY <1>2, <1>3, <1>5, <1>6, <1>7, <1>8, <1>9, <1>10, <1>11, <1>12, <1>13, <1>14
    DEF Next, Look, Commit

----------------------------------------------------------------------------
(* The loops: what is left to send is a number.                            *)

LEMMA Counted ==
  ASSUME Loops, NEW w, NEW n \in Nat, left' = [left EXCEPT ![w] = n]
  PROVE  left' \in [Waiters -> Nat]
  BY DEF Loops

LEMMA Ended ==
  ASSUME Loops, Outboxes, NEW w, LoopEnds(w)
  PROVE  left' \in [Waiters -> Nat]
  <1>1. CASE w \in Waiters
    <2>1. outbox[w] \in Seq(Ops)
      BY <1>1 DEF Outboxes
    <2>2. Again(w, outbox[w]) \in Nat
      BY <2>1 DEF Again
    <2> QED BY <2>2, Counted DEF LoopEnds
  <1>2. CASE w \notin Waiters
    BY <1>2 DEF Loops, LoopEnds
  <1> QED BY <1>1, <1>2

LEMMA ReplyCounts ==
  ASSUME Inv, Outboxes, Loops, NEW h, NEW o \in Ops, NEW row \in Operation, NEW saved \in BOOLEAN,
         Reply(h, o, row, saved)
  PROVE  left' \in [Waiters -> Nat]
  <1> DEFINE w == row.by
             rest == Without(outbox[w], o)
  <1>1. CASE UNCHANGED left
    BY <1>1 DEF Loops
  <1>2. CASE LoopEnds(w)
    BY <1>2, Ended
  <1>3. CASE left' = [left EXCEPT ![w] = IF @ > 1 THEN @ - 1 ELSE Again(w, rest)]
    <2>1. CASE w \in Waiters
      <3>1. Queued(w) \in SUBSET Ops /\ Holds(outbox[w], Queued(w))
        BY <2>1 DEF Queued, Outboxes
      <3>2. rest \in Seq(Ops)
        BY <3>1, Removed DEF Holds
      <3> HIDE DEF rest
      <3>3. Again(w, rest) \in Nat
        BY <3>2 DEF Again
      <3> DEFINE n == IF left[w] > 1 THEN left[w] - 1 ELSE Again(w, rest)
      <3>4. n \in Nat
        BY <2>1, <3>3 DEF Loops
      <3>5. left' = [left EXCEPT ![w] = n]
        BY <1>3
      <3> HIDE DEF n
      <3> QED BY <3>4, <3>5, Counted
    <2>2. CASE w \notin Waiters
      BY <1>3, <2>2 DEF Loops
    <2> QED BY <2>1, <2>2
  <1> QED BY <1>1, <1>2, <1>3 DEF Reply, Saved, Refused

LEMMA LoopsStep == Inv /\ Outboxes /\ Loops /\ [Next]_vars => Loops'
  <1> SUFFICES ASSUME Inv, Outboxes, Loops, [Next]_vars PROVE Loops'
    OBVIOUS
  <1>1. CASE UNCHANGED <<online, left>>
    BY <1>1 DEF Loops
  <1>2. \A w : LoopEnds(w) => left' \in [Waiters -> Nat]
    BY Ended
  <1>3. ASSUME NEW w \in Waiters, GoOnline(w) \/ GoOffline(w) PROVE Loops'
    <2> DEFINE n == IF left[w] = 0 THEN Len(outbox[w]) ELSE left[w]
    <2>1. n \in Nat
      <3>1. outbox[w] \in Seq(Ops) /\ left[w] \in Nat
        BY DEF Outboxes, Loops
      <3> QED BY <3>1
    <2>2. left' = [left EXCEPT ![w] = n] \/ UNCHANGED left
      BY <1>3 DEF GoOnline, GoOffline
    <2> HIDE DEF n
    <2>3. left' \in [Waiters -> Nat]
      BY <2>1, <2>2, Counted DEF Loops
    <2> QED BY <1>3, <2>3 DEF GoOnline, GoOffline, Loops
  <1>4. ASSUME NEW w \in Waiters, Reload(w) PROVE Loops'
    BY <1>2, <1>4 DEF Reload, Loops
  <1>5. ASSUME NEW o \in Ops, CutOff(o) PROVE Loops'
    BY <1>2, <1>5 DEF CutOff, Loops
  <1>6. \A h \in Handlers : handler[h].phase # "idle" =>
          /\ handler[h].op \in Ops /\ op[handler[h].op] \in Operation
          /\ Written(handler[h].op) \in Operation
    BY DEF Inv, Shape, Requests, Request, Written, Operation
  <1>7. ASSUME NEW h \in Handlers,
               \/ Look(h) \/ Conflict(h) \/ Duplicate(h)
               \/ \E audited \in BOOLEAN : Update(h, audited) \/ Create(h, audited)
        PROVE  Loops'
    <2> DEFINE o == handler[h].op
    <2>1. /\ handler[h].phase # "idle" /\ UNCHANGED online
          /\ \/ UNCHANGED left
             \/ \E saved \in BOOLEAN : Reply(h, o, op[o], saved) \/ Reply(h, o, Written(o), saved)
      BY <1>7 DEF Look, Replay, Read, Conflict, Duplicate, Update, Create
    <2>2. left' \in [Waiters -> Nat]
      BY <1>6, <2>1, ReplyCounts DEF Loops
    <2> QED BY <2>1, <2>2 DEF Loops
  <1>8. ASSUME NEW o \in Ops, NEW w \in Waiters, SaveOffline(o, w) \/ SaveOnline(o, w) PROVE Loops'
    BY <1>1, <1>8 DEF SaveOffline, SaveOnline, page
  <1>9. ASSUME NEW w \in Waiters, Flush(w) \/ Refresh(w) \/ Open(w) \/ Expire(w) PROVE Loops'
    BY <1>1, <1>9 DEF Flush, Refresh, Open, Expire, page
  <1>10. ASSUME NEW h \in Handlers, Lose(h) PROVE Loops'
    BY <1>1, <1>10 DEF Lose, page
  <1>11. ASSUME NEW t \in Tickets, DeskEdit(t) \/ Pay(t) PROVE Loops'
    BY <1>1, <1>11 DEF DeskEdit, Pay, page
  <1>12. CASE UNCHANGED vars
    BY <1>1, <1>12 DEF vars
  <1> QED
    BY <1>3, <1>4, <1>5, <1>7, <1>8, <1>9, <1>10, <1>11, <1>12 DEF Next, Commit

----------------------------------------------------------------------------
(* Only the commit of a request for an operation writes it.                *)
LEMMA OnlyCommitsWrite ==
  ASSUME Inv, [Next]_vars, NEW o \in Ops, op'[o].writes # op[o].writes
  PROVE  \E h \in Handlers, audited \in BOOLEAN :
           (Update(h, audited) \/ Create(h, audited)) /\ handler[h].op = o
  <1>1. ~Talk
    BY OnlyStanding DEF Talk
  <1>2. op' # op
    OBVIOUS
  <1>3. ASSUME NEW p \in Ops, NEW w \in Waiters, SaveOffline(p, w) \/ SaveOnline(p, w) PROVE FALSE
    <2>1. (\E at \in {"direct", "queued"} : Compose(p, w, at)) /\ UNCHANGED <<ticket, view, shown>>
      BY <1>3 DEF SaveOffline, SaveOnline, server, page
    <2> QED BY <2>1, Composing
  <1>4. ASSUME NEW w \in Waiters,
               \/ Flush(w) \/ Refresh(w) \/ Open(w) \/ Reload(w) \/ Expire(w)
               \/ GoOnline(w) \/ GoOffline(w)
        PROVE  FALSE
    BY <1>1, <1>2, <1>4, OpenTalks, ReloadTalks, ExpireTalks DEF Flush, Refresh
  <1>5. ASSUME NEW p \in Ops, CutOff(p) PROVE FALSE
    BY <1>1, <1>5, CutOffTalks
  <1>6. ASSUME NEW h \in Handlers, Replay(h) \/ Conflict(h) \/ Duplicate(h) \/ Lose(h) PROVE FALSE
    BY <1>1, <1>6, ReplayTalks, ConflictTalks, DuplicateTalks, LoseTalks
  <1>7. ASSUME NEW h \in Handlers, Read(h) PROVE FALSE
    <2>1. Reply(h, handler[h].op, op[handler[h].op], FALSE) /\ handler[h].phase # "idle"
      BY <1>2, <1>7 DEF Read
    <2> QED BY <2>1, Replies, OnlyStanding
  <1>8. ASSUME NEW t \in Tickets, DeskEdit(t) \/ Pay(t) PROVE FALSE
    BY <1>2, <1>8 DEF DeskEdit, Pay
  <1>9. PICK h \in Handlers, audited \in BOOLEAN : Update(h, audited) \/ Create(h, audited)
    BY <1>2, <1>3, <1>4, <1>5, <1>6, <1>7, <1>8 DEF Next, Look, Commit, vars
  <1>10. handler[h].op = o
    BY <1>9, WrittenOp DEF Update, Create
  <1> QED BY <1>9, <1>10

----------------------------------------------------------------------------
Inductive == Inv /\ Outboxes /\ Bounded /\ Loops

(* What is remembered was true, requests are for what was composed, and    *)
(* every revision has its cause: an invariant of the specification.        *)
THEOREM InductiveInvariant == Spec => []Inductive
  <1>1. Init => Inductive
    <2> SUFFICES ASSUME Init PROVE Inductive
      OBVIOUS
    <2>1. Holds(<<>>, {}) /\ \A w \in Waiters : Queued(w) = {}
      BY DEF Init, Holds, IsInjective, Range, Queued
    <2>2. Outboxes
      <3>1. outbox = [w \in Waiters |-> <<>>] /\ <<>> \in Seq(Ops)
        BY DEF Init
      <3>2. \A w \in Waiters : Holds(outbox[w], Queued(w))
        BY <2>1, <3>1
      <3> QED BY <3>1, <3>2 DEF Outboxes
    <2>3. deskEdits \in Nat /\ deskEdits \in 0..MaxDeskEdits
      BY SyncAssumption DEF Init
    <2>4. 0 <= Level
      BY <2>3, LevelIsNat
    <2>5. Bounded
      BY <2>3, <2>4 DEF Init, Bounded, NoTicketRow, NothingSeen
    <2>6. Loops
      BY DEF Init, Loops
    <2> QED BY <2>2, <2>5, <2>6, Initially DEF Inductive
  <1>2. Inductive /\ [Next]_vars => Inductive'
    BY RowsStep, OutboxesStep, BoundedStep, LoopsStep DEF Inductive
  <1> QED BY <1>1, <1>2, PTL DEF Spec

(* An outbox holds the operations that wait to be sent, once each, whatever *)
(* is cut off, answered late or sent again; and the types are right        *)
(* (enqueueOperation, removeQueuedOperation, flushQueuedOperations).       *)
THEOREM OutboxIsRight == Spec => []TypeOK
  <1>1. Inductive => TypeOK
    <2> SUFFICES ASSUME Inductive PROVE TypeOK
      OBVIOUS
    <2> USE DEF Inductive
    <2> DEFINE top == MaxDeskEdits + Cardinality(Ops)
    <2>1. Level <= top /\ Level \in Nat /\ top \in Nat
      BY SyncAssumption, LevelIsNat DEF Bounded, Level
    <2>2. \A n \in Nat : n <= Level => n \in Revisions
      BY <2>1 DEF Revisions
    <2> HIDE DEF top
    <2>3. \A r \in Row : r.revision <= Level => r \in TicketRow
      BY <2>2 DEF Row, TicketRow
    <2>4. ticket \in [Tickets -> TicketRow]
      BY <2>3 DEF Inv, Shape, Bounded
    <2>5. \A s \in Seen : s.row.revision <= Level => s \in SeenRow
      BY <2>3 DEF Seen, SeenRow
    <2>6. view \in [Waiters -> SeenRow] /\ shown \in [Waiters -> SeenRow]
      BY <2>5 DEF Inv, Shape, Bounded
    <2>7. op \in [Ops -> OpRow]
      <3>1. \A o \in Ops : op[o] \in Operation /\ op[o].seen \in SeenRow /\ op[o].shown \in SeenRow
        BY <2>5 DEF Inv, Shape, Bounded, Operation
      <3>2. \A o \in Ops : op[o] \in OpRow
        BY <3>1 DEF Operation, OpRow
      <3> QED BY <3>2 DEF Inv, Shape
    <2> QED BY <2>4, <2>6, <2>7 DEF TypeOK, Inv, Shape, Bounded, Loops, Outboxes, Holds, Queued
  <1> QED BY <1>1, InductiveInvariant, PTL

(* No operation is written twice, and what a device put aside as saved was *)
(* written (syncWaiterOrder and its receipts).                             *)
THEOREM OperationsAreAppliedOnce == Spec => []AppliedOnce
  <1>1. Inductive => AppliedOnce
    BY DEF Inductive, Inv
  <1> QED BY <1>1, InductiveInvariant, PTL

(* What an edit overwrites when its operation is written.                  *)
LEMMA OverwritesFetched ==
  ASSUME Inductive, [Next]_vars, NEW o \in Ops, op'[o].writes # op[o].writes,
         op[o].seen.order # None
  PROVE  Overwrites(o)
  <1> DEFINE s == op[o].seen
             d == op[o].shown
             t == op[o].seen.order
  <1>0. Inv
    BY DEF Inductive
  <1>1. PICK h \in Handlers, audited \in BOOLEAN :
          (Update(h, audited) \/ Create(h, audited)) /\ handler[h].op = o
    BY <1>0, OnlyCommitsWrite
  <1>2. handler[h].phase = "read" /\ handler[h].current = t
    BY <1>0, <1>1 DEF Update, Create, Inv, Requests, Request
  <1>3. Update(h, audited)
    BY <1>1, <1>2 DEF Create
  <1>4. /\ SameRevision(o, t)
        /\ ticket' = [ticket EXCEPT
             ![t] = [ticket[t] EXCEPT !.status = Asks(o), !.revision = @ + 1, !.items = o]]
    BY <1>1, <1>2, <1>3 DEF Update
  <1>5. /\ t \in Tickets /\ ticket[t] \in Row /\ s \in Seen /\ d \in Seen /\ d.order = t
    BY <1>0 DEF Inv, Shape, Operation, Seen, Alike
  <1>6. s.row.revision = ticket[t].revision
    <2>1. s.row.revision \in Nat
      BY <1>5 DEF Seen, Row
    <2> QED BY <1>4, <2>1 DEF SameRevision, Expected, Unguarded
  <1>7. Remembered(s, t) /\ Remembered(d, t) /\ Agreed(h)
    BY <1>0, <1>5 DEF Inv, Memory, Agreements
  <1>8. Asks(o) = s.row.status
    BY <1>1, <1>2, <1>5, <1>6, <1>7 DEF Agreed, Row
  <1>9. ticket'[t].items = o
    <2> DEFINE n == ticket[t].revision + 1
    <2>1. ticket' = [ticket EXCEPT ![t] = [ticket[t] EXCEPT !.status = Asks(o), !.revision = n,
                                                            !.items = o]]
      BY <1>4
    <2> HIDE DEF n
    <2> QED BY <1>0, <1>5, <2>1 DEF Inv, Shape, Row
  <1>10. ticket[t].items = s.row.items /\ ticket[t].status \in {Asks(o), "CLOSED"}
    BY <1>6, <1>7, <1>8 DEF Remembered
  <1>11. d.row.revision = s.row.revision => ticket[t].items = d.row.items
    BY <1>5, <1>6, <1>7 DEF Remembered
  <1> QED BY <1>9, <1>10, <1>11 DEF Overwrites

(* An edit replaces the items its device had fetched last, and those it    *)
(* showed if it was filled from the same revision; it takes no step of the *)
(* kitchen back (expectedRevision and                                      *)
(* assertKitchenStatusIsNotChangedOutsideKitchenAuthority in               *)
(* syncWaiterOrder).                                                       *)
THEOREM EditsReplaceWhatWasFetched == Spec => OverWhatWasFetched
  <1>1. Inductive /\ [Next]_vars =>
          [\A o \in Ops : op'[o].writes # op[o].writes /\ op[o].seen.order # None
                           => Overwrites(o)]_vars
    BY OverwritesFetched
  <1> QED BY <1>1, InductiveInvariant, PTL DEF Spec, OverWhatWasFetched
=============================================================================
