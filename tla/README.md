# Verification of the 2X1 Burger Co back end

TLA+ models, TLC runs and TLAPS proofs of the concurrent core of the API in `apps/api`: the ledger of
secure commands and the notification outbox that feeds it, the online payments of a checkout, the point
of sale and its waiters' devices, deliveries and what follows them, and the WhatsApp messages that come
in. `PROJECT.json` lists components, runs, findings, hazards, theorems, and the source lines behind
every definition.

    tlc -workers 2 -config SecureCommand.cfg MCSecureCommand     # one run; PROJECT.json names module and cfg
    tlapm SecureCommandProofs.tla                                # the proofs of one module

## The system

A NestJS API over one PostgreSQL database (Prisma), a Next.js client, and Sofia, an assistant that talks
to customers over WhatsApp. Any number of API processes may run. They share nothing but database rows,
so concurrency is between database statements: most operations read a row, decide in TypeScript, and
write it in a later transaction whose `where` clause carries a version, a status, a lease or an owner.
What a process knows may be stale whenever it writes; it may die between any two statements, and its
lease may lapse while it is still at work.

| Component | State | Operations | Interacts with |
|---|---|---|---|
| secure-command | `sofia_commands`, `sofia_command_approvals`, `sofia_command_attempts` | receive, grant, reject, revoke, execute (recover, expire, claim, mark executing, handler, succeed, fail) | handlers of other modules; governance decides the policy |
| notifications (outbox) | `notification_intents` | enqueue, worker cycle: claim, policy, materialize, receive, bind; dispatch, observe, reconcile, sweep | orders enqueue; consumes `whatsapp_outbound_messages`; calls secure-command |
| order-checkout (payments) | `order_checkouts`, `payment_intents`, `payment_links`, `payment_webhook_events` | create link, start payment, webhook, recovery, kitchen eligibility | Bold (provider), orders |
| orders and kitchen | `order_tickets`, items | create, edit, kitchen transitions, checkout, reopen, synchronise a waiter's order | tables, cash register, sales, delivery operations, waiter devices |
| sales and inventory | `sales`, payments, stock of products and ingredients | direct sale, conversion to an order and back, reversal; adjustment, count, purchase | orders |
| cash register | `cash_sessions`, `cash_movements` | open, close, reopen, manual movement | orders (session of a ticket), reports (closure) |
| waiter devices (web client) | an outbox in the browser's storage | save, queue, flush, expire | `/orders/waiter-sync` and its receipts |
| delivery operations | delivery columns of the ticket, `delivery_workflow_events` | assign, claim, advance; consequences reconciled by requests and a worker | orders, notifications, alerts |
| WhatsApp inbound | `whatsapp_inbound_events`, `whatsapp_conversations` | claim with a lease, checkpoint, run the agent, hand over, reply, complete, recover abandoned | Sofia, human operators, outbound messages |
| WhatsApp QR gateway | a lease with a fencing token in `settings` | acquire, renew, run fenced, release | a third-party socket library |
| delivery pricing | none (snapshots on checkout and ticket) | quote | orders, checkout |
| tables, customer service, Sofia (assistant, CRM, governance), auth, reports, master data, realtime, user interface | their tables | see `components` in `PROJECT.json` | |

What is hard, and what makes each part correct:

* **secure-command.** Several callers execute one command; leases lapse under a live executor; a
  process dies anywhere; an approval is revoked meanwhile. Correct: the handler is entered at most
  once, a retry is possible only if it was never entered, the attempt rows tell the same story as the
  command row, one approval, and an approved command rests on an approval in force.
* **Notification outbox.** Workers poll the same rows, two budgets are counted in one column, the
  command outlives the worker that received it, provider and database fail separately. Correct:
  delivered at most once, never reported delivered when it was not, nothing sent that was not handed
  on, settled rows stay, and everything is settled in the end.
* **Payments.** Replays by idempotency key, links that lapse, a provider that does not answer, webhooks
  that come early, late, twice or contradict one another, several attempts for one checkout. Correct:
  one provider request per attempt, no second attempt while money may be on its way, no verdict
  forgotten, a double payment always noticed, the kitchen let in only after a payment.
* **Point of sale.** Ticket, items, sale and cash session are read before the transaction that writes
  them, and not all of them are looked at again. Correct: a ticket is charged once, a sale is converted
  once and given back exactly then, a revision tells of every edit, one cash session is open.
* **Waiter devices.** A device that heard no answer sends again, hours later perhaps, while the first
  request may still be handled; meanwhile the ticket is refetched under a composer that is not filled
  again. Correct: an operation is written once, an edit replaces what its device had fetched and takes
  no step of the kitchen back; a queue that is being flushed moves unless its head is refused for good.
* **Deliveries.** Operator and riders decide on stale reads; a transition commits before what follows
  from it, which is made up for by its request, by repetitions and by a worker. Correct: a rider acts
  only on what is his, an assignment is reported truthfully, every event is told once, and told.
* **WhatsApp inbound.** The provider delivers again and again, a handler dies or loses its lease in the
  middle of an agent whose effects cannot be undone. Correct: the agent runs once, there is one reply,
  the handoff to a human comes before it, and an abandoned message goes to a human, unless a delivery
  settles it first.
* **QR gateway** (not modelled yet). Fencing of an effect outside the database.

## Modules

| Module | Models |
|---|---|
| `OnceOnly` | abstract: a job is started at most once, its effect happens at most once, success means it happened |
| `SecureCommand` | the secure command ledger; implements `OnceOnly` |
| `NotificationOutbox` | one intent, its command (coarser than in `SecureCommand`), its message; implements `OnceOnly` |
| `PaymentLifecycle` | statuses and moves of a payment intent, shared by the next two |
| `PaymentAttempts` | the attempts of a checkout up to the provider |
| `PaymentWebhook` | what webhooks, recovery and `createOrderTicket` make of the payments |
| `OrderDesk` | tickets, sales, stock and cash sessions, composed of three services |
| `WaiterSync` | devices with their outboxes and the handler of `/orders/waiter-sync` |
| `DeliveryLifecycle` | statuses and moves of a delivery, shared by the next three |
| `DeliveryLog` | abstract: the events of a delivery are a list that only grows, by one legal move at a time |
| `DeliveryWorkflow` | the versioned transition of a delivery and its three callers; implements `DeliveryLog` |
| `DeliveryConsequences` | what follows the events of a delivery, which it takes from a `DeliveryLog` |
| `InboundEvent` | one incoming message, its conversation, its handlers and the recovery worker; implements `OnceOnly` |
| `SecureCommandProofs`, `NotificationOutboxProofs`, `PaymentAttemptsProofs`, `PaymentWebhookProofs`, `OrderDeskProofs`, `WaiterSyncProofs`, `InboundEventProofs` | theorems about the module they extend |
| `DeliveryProofs` | theorems about `DeliveryWorkflow` and `DeliveryConsequences` |
| `MC…` | instances for TLC: symmetry, and the events of the webhook runs |

Common conventions: a row is a record; a process is a record with the next step of its call and the
values it carries from one statement to the next; one action is one statement or transaction, with
everything it writes. A guard in a `where` clause is a guard of the write and has an alternative in
which the write is refused. A lease or deadline that code only compares with the clock is `live` or
`lapsed` (a step of the environment makes it lapse); only `PaymentAttempts`, which compares several
deadlines, has a clock. Small operators next to a guard that say what it would be without its check
(`UniqueOrNot`, `AnyRider`, `ReplyAtOnce`, …) are not used by the specification: they are bugs the code
does not have, and `mutants` in `PROJECT.json` pairs each with the property that finds it.

### SecureCommand

`cmd` is the command row, `approval` the approval row each approver created, `attempts` the attempt
rows; `caller`, `admin`, `worker` with `snap` and `attemptOf` are the running calls. `Receive`,
`Validate`, `AskApproval` are the three transactions of `receive()`. `BeginGrant`/`Grant`,
`BeginReject`/`Reject` and `Revoke` are the approval services. `Execute` is the read and the branches
at the head of `execute()`; `Recover`, `Expire`, `CheckPolicy`, `CheckApproval`, `Claim`,
`MarkExecuting`, `Handler`, `Succeed` and `Fail` are the calls it makes, in its order, with the policy
checked three times as in the code. The environment: leases and approvals lapse, the command
expires, the kill switch flips, processes die. Payload hashing and validation, redaction and audit rows
are left out; what the policy asks of actor, release and governance is one switch.

### NotificationOutbox

`intent`, `message` and `command` are the three rows; `worker` holds what each process selected
(version, status). A cycle is `Claim`, `Read` (two statements, as in the code), `Evaluate`,
`Materialize`, `ReceiveCommand`, `MarkCommandPending` (or suppress, or give up); then `List`, and for a
listed intent `Execute` … `Record` or `Observe`, then `Apply`; then `Sweep` and `SettleMaintenance`. The
consent policy is a choice of outcome. The command is abstracted to its states and its claim; that this
is a fair picture of it is what `SecureCommand` is for. `Activated` says whether the
command policy lets the message command run: at this commit the registry has it disabled, so in
production every dispatch stops at the policy. The run has `Activated = TRUE`: it is about the code as
it will run once enabled.

### PaymentAttempts and PaymentWebhook

`PaymentAttempts` follows `createOnlinePaymentLink` (create the intent under the checkout's lock, find a
link, create one) and `startBoldPayment` (resolve the link, begin under a version, ask the provider, bind
the answer or mark it unknown). Deadlines are numbers on one clock. A webhook is one step.

`PaymentWebhook` takes attempts as single steps and follows `processClaimedWebhook` statement by
statement: claim or take over an event, checkpoint, transition, assert the claim, count payments, review
or verify, let the kitchen in, complete or give back; `createOrderTicket` runs next to it through the
same eligibility code. The two modules are checked apart, since their product is out of reach; the
interface is small: an attempt exists, is started, is given up, and a payment is recorded.
`createOnlinePaymentLink` has no production caller at this commit, and the runtime gate of phase 5 keeps
payments closed in production; the models are about the code behind it.

### OrderDesk

Composes `OrdersService`, `SalesService` and `CashRegisterService`, which meet in four tables: `ticket`,
`sale`, `session`, `stock`. Every operation is a read (`KitchenRead`, `CheckoutRead`, `ConvertRead`,
`CloseRead`, …) whose outcome the request carries in `saw`, `sale` and `session`, and a commit
(`TransitionKitchen`, `Checkout`, `Convert`, `Close`, …) that looks again only at what the code looks at
again. So `Checkout` charges what was read and sets the ticket to PAID whatever it is by then; the
unique `orderTicketId` of sales is what refuses it. `Reopen` takes the row lock and looks again at
ticket and binding, but reverses the sale it read. `Restore` is `reopenConvertedOrder`, which locks the
source sale and not the ticket. `lock` is the advisory lock of the cash lifecycle. Abstracted: there is
one product of price 1 without a recipe, paid in cash, so that the items of a ticket are a quantity and
its amount. `GiveUp` is any check that fails, rollback, or death.

### WaiterSync

A device is its `outbox`; `view`, the ticket as the stream refetched it last (`Refresh`); `shown`, the
ticket its composer was filled from, which happens once per ticket, or when the waiter opens the table
(`Open`) or reloads; `online`, what the browser says; and `left`, what the loop of
`flushQueuedOperations` has still to send, 0 when none runs. `op` follows each operation from `saveOrder`
(`SaveOnline`, `SaveOffline`) to its answer. As in the page, its order and revision are those of `view`
and its items and status those of `shown`. `CutOff` loses an answer on either way, after which the
operation is queued; `Flush` sends the head of the queue while a loop runs. A loop starts at the online
event (`GoOnline`), at a reload, and when the one before it ends with something left in the queue
(`Again`), and at nothing else: queueing an operation starts none. `Expire` forgets. The handler looks
for the receipt and reads the ticket (`Replay`, `Read`), then writes ticket and receipt in one
transaction (`Update`, `Create`), or finds another revision (`Conflict`) or the receipt of a twin
(`Duplicate`). A new row takes the free row `FreeRow`, a request the free handler `FreeHandler`, since
which one it is tells nothing apart. The audit after the commit may fail, which answers an applied
operation with an error. The kitchen and the desk edit meanwhile (`DeskEdit`, `Pay`; their own rules are
`OrderDesk`). One table; the items of a ticket are the operation that wrote them; the statuses
are OPEN and IN_PREPARATION, since an order for PAYMENT_PENDING only adds one more status a device may
have seen. What the waiter types into the composer is what an operation writes, so drafts need no state
of their own; a save that react-query pauses while the network is down is a `SaveOffline` before the next
`GoOnline`; a save that succeeds at once leaves the table, and fills the composer with the next one.

### DeliveryWorkflow and DeliveryConsequences

`DeliveryWorkflow` has the columns of the delivery in `order`, its log in `event`, and the requests with
the version they read. `AssignRead`, `ClaimRead`/`ClaimAssignRead` and `UpdateRead` are the three callers
in `OrdersService`; `Replay`, `NoOp` and `Apply` are the serializable transaction: an event of the same
idempotency key, the compared version, the policy (`Evaluate`), the write of order and event.

`DeliveryConsequences` starts where the transition committed; its `log` is a `DeliveryLog`, which is all
it takes from `DeliveryWorkflow` and all that is proved of it there. `Transition` is a legal step with its
event, `Again` a replay that reconciles an event of any age. `Lock` is the transaction's advisory lock
and its reads, `Commit` its writes (issue, audit row, alert, note; DELIVERED resolves what is open),
`Enqueue` the notification after it. `Poll`, `TakeNext`, `Fail`, `Conflict` are the worker: a batch of
the oldest events of which something is missing, one after the other, until the first failure. An event
is its `to_status`; which versions bring a note is the constant `Noted`; texts, bindings and the desk
that resolves alerts by hand are left out.

### InboundEvent

`row` is the event row with its checkpoint, `conv` who has the conversation, `replies` the outbound
messages, `agent` the number of its runs. `Claim` is `claimInbound`; the attempts number stands for the
claim token, since each claim raises it. `Resume` branches on the recovered checkpoint, `Media`, `Start`,
`RunAgent`, `AgentAnswers`, `Handoff`, `NoteHandoff`, `Reply`, `FailClosed`, `Complete` are the steps of
`handleInboundMode`, and `Fail` and `Die` end them anywhere. `Write` is the fenced checkpoint. `Recover`,
`RecoverHandoff`, `RecoverDone` are the recovery worker, which has three statements per message.
`Operate` is what human operators do. SOFIA_PAUSED is folded into the human states, the delay before a
FAILED row may be claimed is left out (it only forbids), the conversation exists and is not archived.
The answer of the agent is never empty: its texts are templates, validated, or a suggested reply that is
dropped when empty, so that only a reply of blanks is left, which the service would count as PROCESSED
with no outbound message (`sofia-whatsapp.service.ts:543` and 733).

The effect that `OnceOnly` speaks of is "answered, or given to a human" (`Served`). `Phase` reads the
promise off the row: waiting while it has no checkpoint, started with one, succeeded when PROCESSED, and
abandoned when it is settled otherwise or was abandoned to the recovery worker. That an abandoned
message may still be answered, by a handler that lost its lease, is what `OnceOnly` allows for.

## Runs

Every bound is a CONSTANT. "States" are distinct states.

| Run | Instance | Shows | States |
|---|---|---|---|
| `secure_command` | 2 receivers, 2 approvers, 2 executors, 2 attempts | no second execution, one approval, one story, `OnceOnly` | 75 thousand |
| `notification_outbox` | 2 workers, 3 attempts (the real number), 1 death | delivered once and never wrongly reported, `OnceOnly`, `EventuallySettled` | 0.8 million |
| `payment_attempts` | 2 keys, 2 callers, 2 starters, links live one tick, clock 0..1 | one request, no verdict lost, late overtaking only | 1.0 million |
| `payment_chargeable` | 2 keys, 1 caller, 2 starters, clock 0..2 | finding 1 | |
| `payment_webhook` | 2 paid attempts, 2 handlers, 2 claims per event | a double payment is noticed, success is accounted for, nothing settled is undone | 1.5 million |
| `payment_live` | approval and refusal of one attempt, 1 handler, 1 maker, 2 claims, 1 fault | `KitchenOnlyPaid`, `EventSettles` | 0.2 million |
| `order_desk` | 2 requests, 2 tickets, 2 sales, 2 sessions, quantities 1..2, stock 2, 2 writes | charged, converted and given back once, revisions tell all, one open session | 0.8 million |
| `order_reversal` | the same | finding 2 | |
| `waiter_sync` | 1 device, 2 operations, 2 requests, 2 tickets, 1 edit at the desk | applied once, over what was fetched, `QueueMoves` | 0.2 million |
| `delivery` | 1 operator, 2 riders, 2 requests, 4 transitions | `AssignedAsTold`, `RidersOwn` | 0.2 million |
| `delivery_consequences` | 1 request, 1 worker, batch 2, 3 events, 1 fault | `ToldOnce`, `EveryEventTold` | 0.2 million |
| `inbound` | 2 deliveries, 1 recovery worker, 3 attempts (the real number), 2 moves of operators, 1 death | one run, one reply, handoff first, `OnceOnly`, `NotForgotten` | 0.4 million |

Why the bounds are enough. Two processes are what every race here needs: each guard compares a row with
what *one* other process may have done to it, and a third finds the same rows a second one left. Two
attempts of a command let a claim be recovered and claimed again; three of an intent and of an incoming
message are the real number; two claims of an event let it be taken over and then run out. Two keys let
an attempt be overtaken; one tick lets a link lapse before, during and after its use. Two sales let a
ticket be charged, reopened and charged again, or a direct sale be converted, charged and restored; two
sessions let one be closed and the next opened; stock 2 with quantities up to 2 runs out. Two operations
of a device let a create and an edit, or two edits, wait in its outbox; two requests let an operation be
sent again while its first request is handled; one edit at the desk suffices for a device that fetched
it and one that did not, and for a composer older than the revision it sends. Four transitions take a delivery through assignment,
issue, reassignment and the road. Three events let a batch of two leave one behind, and two lines of
notes be written at once. A death is a step like any other and leaves a row no different from a stalled
process, so one or two suffice; in `PaymentAttempts`, `SecureCommand`, and for requests in `OrderDesk`,
`WaiterSync`, `DeliveryWorkflow`, `DeliveryConsequences` and `InboundEvent` they are not bounded. Where a
module has theorems the safety properties hold for all values of the constants anyway, and the run is
the cheap first look. In `payment_attempts` the checkout itself does not expire (its expiry only forbids
more); in `payment_chargeable` it does. `CHECK_DEADLOCK FALSE` is set where the system really stops:
every key used, every event settled, every ticket closed, every bound reached. Version counters are
unbounded but every instance is finite.

### Fairness

* `NotificationOutbox!Fairness`: weak fairness of the cycle of each worker (a timer starts a cycle a
  second after the last one ended, and every stage catches what it throws), of lapsing leases and of
  retry times. Nothing is assumed of approvals, of the provider, or that a process never dies.
* `PaymentWebhook!FairSpec`: weak fairness of handlers once they hold an event, of lapsing leases, and
  of the recovery of each event. It needs the recovery worker (`PAYMENT_WEBHOOK_RECOVERY_WORKER_ENABLED`),
  which is off by default, and assumes nothing of a second delivery by the provider.
* `WaiterSync!FairSpec`: a loop that runs sends its next operation (strong, because the bound on requests
  may hold it back); a request that arrived ends; of an operation that is sent again and again, some
  request is handled and its answer heard. Nothing is assumed of a queue that no loop looks at, nor that
  the browser comes online: `QueueMoves` begins where a loop runs, and ends at going offline. A network
  that is down for good while the browser says it is online fulfils none of this, and is not what
  `QueueMoves` is about.
* `InboundEvent!FairSpec`: weak fairness of the recovery worker, whose timer runs every two seconds, and
  of `Lapse`: no handler renews its lease for ever. Nothing of handlers, deliveries or operators.
* `DeliveryConsequences!FollowFairness`: a transaction ends, the advisory lock is granted in turn (strong
  fairness of `Lock`), and the worker runs every two seconds. Nothing of requests.

Faults and deaths of the workers are finitely many in a run; with infinitely many, nothing would settle.

## Findings

Each is a run in which TLC finds what a document or comment rules out.

1. `payment_chargeable`: an attempt that lapsed unstarted does not keep a newer one out, and can still
   be started through a replayed key; two attempts are then payable at once.
2. `order_reversal`: `reopen()` reads its sale before the row lock. If the ticket is reopened and paid
   again while it waits, it reverses the first sale a second time, stock and cash with it, and leaves the
   second one standing on an open ticket.

Observed while modelling, in the source and in the models' actions, without a run of their own:

* *secure-command, outbox.* `execute()` reads the approval only before the claim: one revoked after it
  does not stop the handler. A crash inside `receive()` leaves a row RECEIVED that a replay returns as it
  is. The sweep settles an intent as EXPIRED whose command was handed on and may have sent its message.
  The error "approval required" also answers a rejected command. `sweepMaintenance` stops at its first
  stale candidate.
* *Payments.* A checkout paid through an older attempt is not let into the kitchen by itself, since
  eligibility asks the newest attempt to be the paid one. A process that dies between
  `beginProviderPayment` and the answer leaves the intent PENDING. An event whose attempts run out is
  looked at by nobody.
* *Point of sale.* `update()` without a revision writes back the status it read. `close()` counts before
  its transaction: what is charged in between lies in a closed session and in no count. The closure of
  the day after a close is not tried again. `reopen` of a cash session opens a new one. Two sales may
  lock products in different orders.
* *Waiter devices.* The page sends the revision of the order as it was refetched with the cart it filled
  once (`page.client.tsx:1266` against 709–731): an edit made at the desk in between is replaced by one
  who never saw it, and no conflict is reported. It is the same after a conflict: the message says
  "Recárgala antes de guardar de nuevo" (`orders.service.ts:2601`), the refetched revision lets a second
  press of the button through with the old cart. An operation queued because its answer was lost, while
  the browser says it is online, starts no loop; it waits for an online event or a reload, although the
  page says "Se enviará cuando la red vuelva" (`page.client.tsx:1292`). An edit that was read before a
  checkout commits writes its status over PAID, since a checkout leaves the revision as it is. A head of
  the queue that is refused is sent again without a pause while the page is online; one that is refused
  for good blocks the operations behind it, while the page only shows a toast. Two creates of one table
  may both find no active ticket. A failing audit answers an applied operation with an error; its
  repetition is a replay.
* *Deliveries.* The idempotency key of a status request does not name the rider: a second rider who asks
  for ASSIGNED at the same version is answered with the first one's event. Two events that write notes at
  once lose one line. An issue reconciled after DELIVERED stays open. The audit of an assignment names
  the rider the order has by then, while
  `.engineering/sofia-production/phases/phase-06/implementation-result.md:35` says consequences derive
  from event facts only.
* *WhatsApp inbound.* A message that was abandoned, whose handoff failed, and which is delivered again
  before the worker's next try, is settled without a handoff: completed as HUMAN_REQUIRED because the row
  says abandoned (`sofia-whatsapp.service.ts:340`), REFUSED by a rate limit, or ATTEMPTS_EXHAUSTED. The
  worker looks at none of these again. `NotForgotten` names this way out. A FAILED row that was not abandoned waits for a redelivery. The reply
  of a handler that lost its lease after the RESULT checkpoint is still created (and is the same reply).
  The recovery handoff takes a conversation back from an operator who has taken it.
* *QR gateway.* `createRealSocket` may lose its lease during bootstrap, a second `connect()` leaves the
  first socket behind, `disconnect()` may release after a concurrent `connect()`, a late renewal may
  overwrite the active lease, and a fenced effect that outlives its 120 s transaction goes on without
  the lock.

## Proofs

Each module states its constants' assumptions (`…Assumption`); they only say that bounds are numbers,
rows are numbered, and names do not clash. No property below is inductive as it stands; the invariant
proved for each module is described by what it adds. TLC checked these invariants on the instances of
the runs before they were proved.

`SecureCommandProofs`, for any callers, approvers, executors and number of attempts:

* `InductiveInvariant`. That no handler was entered while a command can be claimed depends on where each
  executor *is* and on what version it holds: `HandlerDiscipline` says at most one executor is past the
  mark and none while the row is startable; `SnapshotCoherent` says an executor that holds the current
  version holds the current status and the last attempt, which is what makes the version in the `where`
  clause enough; `ApprovalDiscipline` and `LedgerConsistent` say the same of approvals and attempts.
* From it: `NoRetryAfterHandler`, `HandlerRunsAtMostOnce`, `LedgerIsConsistent`, `ApprovalIsSound`,
  `ApprovedOnce`; `LifecycleIsRespected` (every write of the status is in the transition table); and
  `LedgerKeepsPromise`, the refinement of `OnceOnly`.

`NotificationOutboxProofs`, for any number of workers, attempts and deaths, and either command policy:

* `InductiveInvariant`. `Snapshot`: every write takes the row to a new version, so what a worker read is
  old and will write nothing, or is what the row still says; who holds a row that was handed on has read
  it as handed on. `HandlerOnce`: no worker has entered the handler while the command may be started, and
  at most one is about to send. `Truthful` and `RowsTruthful`: an outcome on its way to a row, and every
  row, says "sent" only after the fact. `RowAtRest`: a settled row has neither lease nor retry.
* From it: `BudgetKept`, `DeliveredAtMostOnce`, `SuccessIsTrue`, `SettledIsFinal`, and `PromiseKept`, the
  refinement of `OnceOnly`.

`PaymentAttemptsProofs`, for any finite set of idempotency keys, any callers and starters, any deadlines
and horizon of the clock, and checkouts that expire:

* `InductiveInvariant`. `RequestDiscipline` counts the permissions to ask the provider: at most one
  starter is between `beginProviderPayment` and `createPayment`, and only for an intent that has left its
  unstarted statuses and was never asked for. `LinkDiscipline` says an intent without its first move has
  no link. `AttemptsBounded` says numbers have no holes, so a new attempt is later than all others;
  `OvertakenDiscipline` adds what is true *before* an overtaken attempt is requested: it had lapsed while
  unstarted, and the clock does not go back.
* From it: `ProviderIsAskedOnce`, `OvertakenOnlyWhenLate`, `LinksAreForever`, `VerdictsStand`.

`PaymentWebhookProofs`, for any number of payments, events, handlers, makers, claims and faults:

* `InductiveInvariant`. `Noticed` is the heart: of two payments that succeeded, one has an approving
  event that is not *counted* yet, unless the checkout is under review. An event is counted when its
  handler has looked how many payments succeeded after its own transition, and holds the claim still.
  `Booked` says a handler that is past the checkout with a success has accounted for it; `Backed` and
  `Earned` trace success and the kitchen to an approving event, also for a process that is about to let
  the kitchen in; `Working` and `Released` tie handlers to claims.
* From it: `KitchenServesOnlyThePaid`, `DoublePaymentsAreNoticed`, `SuccessesAreAccounted`,
  `SettledEventsStay`, `ReviewsAreFinal`.

`OrderDeskProofs`, for any number of requests, tickets, sales, sessions and quantities:

* `InductiveInvariant`. `Books` relates tickets and sales: a standing sale is bound to the ticket it was
  charged to, no ticket has two, a paid one has one, and the sale a ticket was made from was given back
  once. `Requests` says what a request still knows when it commits: the items it saw if the revision is
  the one it saw (`Remembers`), that the sale it carries was charged to its ticket (`KnowsSale`), and, of
  one that opens a session, that it holds the lock and has seen none open (`Locks`).
* From it: `TypeCorrect` (with the stock never oversold), `TicketsAreChargedOnce`,
  `SalesAreConvertedOnce`, `RevisionsTellAll`, `SessionsOpenOneAtATime`.
* `ReversalsAreBacked` needs an invariant of its own on top, `Backed`: a paid ticket that was not made from
  a sale has been charged more than it has given back, so reopening it, which looks at PAID under the row
  lock, gives back something that was charged, be it the wrong sale (finding 2). What was given back is
  counted as a set of pairs, a sale and the number of its reversal: a step adds at most one member to
  it, and no sum over sales is needed.

`WaiterSyncProofs`, for any number of devices, operations, tickets, requests and edits:

* `InductiveInvariant`. `Memory` says that of a ticket a device, and every operation composed on it,
  remembers in `view` and in `shown` no more than was true of it at the revision remembered there. The two
  revisions may differ, so the compared revision vouches for what was fetched, and for the items on the
  screen only if they are of that revision. It does not vouch for the status either, which comes from
  `shown`: `Agreements` says that a handler past its checks found the status the edit asks for, so that
  it is the one of the compared revision, or that revision is past and the write will be refused.
  `Alike`: the two are of one ticket. `Outboxes` says an outbox holds exactly what is queued, once each;
  `Bounded` that every revision has its cause, an operation or an edit; `Loops` is the type of the rest.
* From it: `OutboxIsRight`, `OperationsAreAppliedOnce`, and `EditsReplaceWhatWasFetched`, an action
  property: the step that writes an edit replaces the items fetched last, and finds the status the edit
  asks for, or a ticket that was closed since.

`DeliveryProofs`, for any riders, requests, workers, batches and number of transitions:

* `InductiveInvariant` of `DeliveryWorkflow`. `OwnOrNamed`: a rider in a transition names himself, or had
  the delivery when he read it and has it as long as the version is the one he read. `OrderDiscipline`
  says a delivery that waits for assignment has no rider. From it: `TypeCorrect` (with the log being a
  legal path), `ToldTheTruth`, `RidersActOnTheirOwn`, `RiderIsKept`.
* `FollowInductiveInvariant` of `DeliveryConsequences`. `OneByOne`, one transaction per event, and
  `Knows`, what it read of the event is true until it commits. From it: `EventsAreToldOnce`.
* `WorkflowKeepsLog` and `ConsequencesFollowLog`: the statuses in the order of their versions, in the one
  module, and the list of events the other starts from are both a `DeliveryLog`. No transition
  overwrites an event or skips a version, and nothing that reconciles adds one.

`InboundEventProofs`, for any handlers, workers and number of attempts:

* `InductiveInvariant`. Two handlers never have one token (`Distinct`), so at most one holds the lease;
  what a handler knows is true, and while it holds the lease the checkpoint says where it is (`Sound`);
  there is one result, wherever it is written down (`OneResult`), which is why even a late handler that
  no longer holds the lease cannot answer differently.
* From it: `AgentRunsOnce`, `AnsweredOnce`, `HandoffComesFirst`, `ProcessedIsServed`, `SettledRowsStay`.
* `PromiseKept`, the refinement of `OnceOnly`, rests on two more facts, inductive together with that
  invariant. `TakenUp`: while the row has no checkpoint, no handler holds one, none is failing closed and
  no worker has picked the message, so nobody can serve it yet. `OnCourse`: who holds the lease and is past
  the agent, or about to complete as PROCESSED, has a row that says STARTED or RESULT, so that a
  message goes to PROCESSED neither straight from waiting nor from abandoned.

Every safety property that a passing run checks is a theorem. Only model-checked is liveness
(`EventuallySettled`, `EventSettles`, `QueueMoves`, `NotForgotten`, `EveryEventTold`), as the prover has
neither liveness under fairness nor ENABLED. No module uses RECURSIVE operators.

What the theorems do not say. They are about the models: one message, one intent, one command, one
checkout, one table, with the abstractions of the section above. Bounds such as `MaxWrites`,
`MaxMoves` or `MaxDeaths` are constants of which the proofs only know that they are numbers. That the
coarse command of `NotificationOutbox` is implemented by `SecureCommand` is not proved; both are proved
to implement `OnceOnly`. `PaymentAttempts` and `PaymentWebhook` share `PaymentLifecycle` and no more.

## Not modelled

`components` in `PROJECT.json` gives the reason for each part. Most of the repository is not control: the
forms of master data, users, tables and inventory, reports and searches, the user interface, prompts and
texts of the assistant, configuration, and third-party I/O read and write rows without a protocol that
could go wrong in more than one step. The models therefore stand for a small part of the lines of the
repository, and for most of its protocols. Inside the modelled parts: contents of messages and payloads,
signatures, hashing and redaction, audit rows (except where their absence drives a worker), metrics;
`markSucceeded`, `markUnknownResult` and `markFailedAfterDispatch` of the outbox repository, which have
no caller; the checkout statuses CANCELLED and EXPIRED, which nothing writes; recipes and ingredients;
manual cash movements and the arithmetic of a closure; taking over a ticket and the tables it occupies.

## Plan

In this order.

1. **QR ownership**: the lease with its fencing token, renewal, and an effect that outlives its
   transaction. Properties: no effect under a token that is not the newest, one socket per session.
2. **Composition**: `NotificationOutbox` over `SecureCommand` instead of its coarse command; the sweep of
   several intents in one cycle.
3. **A claim with a lease**, stated once as an abstract module that commands, intents, webhook events and
   incoming messages implement.
4. **Delivery pricing engine** as operators against a reference definition, with bounded distances.
5. **Cash**: manual movements, and the closure of the day against what is charged meanwhile.

Runs are kept few: a new module brings one run of its safety and liveness properties, and one more only
for a finding; related instances of older modules are merged to make room.
